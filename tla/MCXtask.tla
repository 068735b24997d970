------------------------------- MODULE MCXtask -------------------------------
(***************************************************************************)
(* The publishing and the workspace commands for model checking: a         *)
(* behaviour is one of one of them, while the other stays where it is.     *)
(***************************************************************************)
EXTENDS Publish, Workspace, TLC

CONSTANTS b1, b2

\* Crate 1 needs crate 2, twice over; 2 needs 1 for its tests.
MCDependencies ==
    {[from |-> 1, to |-> 2, kind |-> k] : k \in {"normal", "build"}}
    \cup {[from |-> 2, to |-> 1, kind |-> "dev"]}
MCRequests == {<<1, 2>>, <<1>>, <<1, 1>>}

\* Crates x and xy, one's path the beginning of the other's.
X == <<"x">>
XY == <<"x", "y">>
In(dir, name) == <<dir, "/">> \o name
Here(path) == <<".", "/">> \o path
MCPackages == {X, XY}
MCLayout == X :> In("a", X) @@ XY :> In("a", XY)
MCRenames ==
    {<< <<"a">>, <<"b">> >>, << In("a", XY), In("b", XY) >>,
     << In("b", XY), In("b", <<"y">>) >>, << In("a", X), In("c", X) >>,
     << <<"b">>, In("c", <<"b">>) >>, << In("a", XY), X >>,
     << In("a", X) \o <<"/">>, In("c", X) >>, << <<"a">>, Here(<<"b">>) >>,
     << <<"c">>, In("c", In("b", <<"c">>)) >>}
MCPatterns == {<< <<"a">>, <<"b">> >>, << X, <<"y">> >>}
NoRenames == {}

-----------------------------------------------------------------------------
VARIABLE part       \* the part that runs

mcVars == <<publishVars, wsVars, part>>

Init ==
    /\ part \in {"publish", "workspace"}
    /\ PublishInit
    /\ \A c \in Crate : source[c].vers = 1
    /\ part # "publish" => \A c, d \in Crate : source[c].body = source[d].body
    /\ WsInit
    /\ part # "workspace" => members[1] = Layout[X]

Next ==
    \/ part = "publish" /\ PublishNext /\ UNCHANGED <<wsVars, part>>
    \/ part = "workspace" /\ WsNext /\ UNCHANGED <<publishVars, part>>

Spec == Init /\ [][Next]_mcVars

\* The contents of crates are interchangeable.
Symmetric == Permutations({b1, b2})
=============================================================================
