------------------------------- MODULE Publish -------------------------------
(***************************************************************************)
(* cargo xtask publish (xtask/src/publish.rs, index.rs, registry.rs): the  *)
(* crates of the workspace are put into a local registry, which is an index*)
(* under git and a directory of .crate files.  Phase 1 puts every crate    *)
(* into the index with a placeholder for its checksum and commits; phase 2 *)
(* packages each crate, copies it, writes its checksum and commits.        *)
(*                                                                         *)
(* A run may fail or be killed at any step, in the middle of writing a     *)
(* file too, and the command is run again.  A checksum is the packaged     *)
(* content itself; of an index entry only version and checksum are kept.   *)
(***************************************************************************)
EXTENDS Naturals, Sequences, FiniteSets

CONSTANTS
    Crate,          \* crates by the place of their names in the alphabet
    Dependencies,   \* dependencies among them: [from, to, kind]
    Requests,       \* the crates of a run: of the workspace, or of -p
    Version,
    Body,           \* contents of packaged crates
    Placeholder,    \* PLACEHOLDER_CKSUM
    Partial,        \* a file whose writing was cut short
    None,
    MaxRuns         \* bound on the runs of the command

ASSUME CrateAssumption == Crate \subseteq Nat /\ Requests \subseteq Seq(Crate) \ {<<>>}
ASSUME BodyAssumption == Body \cap {Placeholder, Partial, None} = {}
ASSUME MarkAssumption == Placeholder # Partial /\ Placeholder # None
ASSUME RunAssumption == MaxRuns \in Nat

VARIABLES
    source,         \* source[c]: version and content in the workspace
    index,          \* index[c]: the lines of c's index file
    committed,      \* committed[c]: those of git's HEAD, which cargo reads
    served,         \* served[c][v]: the download file of the .crate
    run,            \* the run in progress, or Idle
    runs,           \* runs begun so far
    unfinished,     \* <<c, v>> a run was to publish when it ended early
    torn            \* crates whose index file was cut short

publishVars == <<source, index, committed, served, run, runs, unfinished, torn>>

Idle == [at |-> "idle", order |-> <<>>, next |-> 1, body |-> None]

Line == [vers : Version, cksum : Body \cup {Placeholder}]
Lines(file) == {file[k] : k \in DOMAIN file}

-----------------------------------------------------------------------------
\* build_workspace_deps: dev-dependencies do not count.
WorkspaceDeps(crates) ==
    {d \in Dependencies : d.kind # "dev" /\ {d.from, d.to} \subseteq crates}

\* The names of a set, sorted.
Sorted(S) ==
    CHOOSE s \in [1..Cardinality(S) -> S] :
        \A i, j \in 1..Cardinality(S) : i < j => s[i] < s[j]

\* A slip: the crates in the order of their names.
SortByName(names) == Sorted(Lines(names))

\* What a crate of those given still waits for, and who waits only for c.
Waiting(crates, c, done) ==
    {d \in WorkspaceDeps(crates) : d.from = c /\ d.to \notin done}
FreedBy(crates, c, done) ==
    {e \in crates : /\ Waiting(crates, e, done) # {}
                    /\ Waiting(crates, e, done \cup {c}) = {}}

\* Kahn's algorithm: the crate at the head of the queue is next; those that
\* waited only for it join the queue, by name.
KahnStart(crates) ==
    [queue |-> Sorted({c \in crates : Waiting(crates, c, {}) = {}}), sorted |-> <<>>]
KahnStep(crates, was) ==
    IF was.queue = <<>> THEN was
    ELSE [queue |-> Tail(was.queue)
                      \o Sorted(FreedBy(crates, Head(was.queue), Lines(was.sorted))),
          sorted |-> Append(was.sorted, Head(was.queue))]
TopologicalSort(names) ==
    LET crates == Lines(names)
        kahn[n \in 0..Cardinality(crates)] ==
            IF n = 0 THEN KahnStart(crates) ELSE KahnStep(crates, kahn[n - 1])
    IN  kahn[Cardinality(crates)].sorted

\* A slip: the file is written anew with the entry alone.
UpsertAlone(file, entry) == <<entry>>

\* A slip: the entry is always appended.
UpsertAppend(file, entry) == Append(file, entry)

\* upsert_entry: the line of the version is replaced, or one is added.
UpsertEntry(file, entry) ==
    IF \E k \in DOMAIN file : file[k].vers = entry.vers
    THEN [k \in DOMAIN file |-> IF file[k].vers = entry.vers THEN entry ELSE file[k]]
    ELSE Append(file, entry)

-----------------------------------------------------------------------------
PublishInit ==
    /\ source \in [Crate -> [vers : Version, body : Body]]
    /\ index = [c \in Crate |-> <<>>]
    /\ committed = [c \in Crate |-> <<>>]
    /\ served = [c \in Crate |-> [v \in Version |-> None]]
    /\ run = Idle
    /\ runs = 0
    /\ unfinished = {}
    /\ torn = {}

\* The workspace is worked on; versions do not change while a run is on.
Edit(c) ==
    /\ \E v \in Version, b \in Body :
          /\ run # Idle => v = source[c].vers
          /\ source' = [source EXCEPT ![c] = [vers |-> v, body |-> b]]
    /\ UNCHANGED <<index, committed, served, run, runs, unfinished, torn>>

\* A request that does not sort completely (a cycle, or a crate named twice)
\* is refused before anything is written, and one of no crates is no run.
Begin ==
    /\ run = Idle /\ runs < MaxRuns
    /\ \E names \in Requests : \E s \in [1..Len(names) -> Crate] :
          /\ s = TopologicalSort(names)
          /\ run' = [Idle EXCEPT !.at = "register", !.order = s]
    /\ runs' = runs + 1
    /\ UNCHANGED <<source, index, committed, served, unfinished, torn>>

Current == run.order[run.next]
At(step) == run.at = step /\ run.next \in DOMAIN run.order
Entry(cksum) == [vers |-> source[Current].vers, cksum |-> cksum]

\* A slip: phase 1 leaves a version alone that is in the index already.
RegisterNew ==
    /\ At("register")
    /\ index' = [index EXCEPT ![Current] =
                    IF \E l \in Lines(@) : l.vers = source[Current].vers THEN @
                    ELSE UpsertEntry(@, Entry(Placeholder))]
    /\ run' = [run EXCEPT !.next = @ + 1]
    /\ UNCHANGED <<source, committed, served, runs, unfinished, torn>>

\* Phase 1, crate by crate.
Register ==
    /\ At("register")
    /\ index' = [index EXCEPT ![Current] = UpsertEntry(@, Entry(Placeholder))]
    /\ run' = [run EXCEPT !.next = @ + 1]
    /\ UNCHANGED <<source, committed, served, runs, unfinished, torn>>

\* git add . and git commit take in whatever is in the index directory.
CommitStubs ==
    /\ run.at = "register" /\ run.next > Len(run.order)
    /\ committed' = index
    /\ run' = [run EXCEPT !.at = "package", !.next = 1]
    /\ UNCHANGED <<source, index, served, runs, unfinished, torn>>

\* cargo package resolves the dependencies against the committed index; then
\* the checksum is taken, and fs::copy begins by emptying the download file.
Package ==
    /\ At("package")
    /\ \A d \in Dependencies : d.from = Current /\ d.kind # "dev" =>
          committed[d.to] # <<>>
    /\ run' = [run EXCEPT !.at = "copy", !.body = source[Current].body]
    /\ served' = [served EXCEPT ![Current][source[Current].vers] = Partial]
    /\ UNCHANGED <<source, index, committed, runs, unfinished, torn>>

Copy ==
    /\ At("copy")
    /\ served' = [served EXCEPT ![Current][source[Current].vers] = run.body]
    /\ run' = [run EXCEPT !.at = "index"]
    /\ UNCHANGED <<source, index, committed, runs, unfinished, torn>>

UpdateIndex ==
    /\ At("index")
    /\ index' = [index EXCEPT ![Current] = UpsertEntry(@, Entry(run.body))]
    /\ run' = [run EXCEPT !.at = "commit"]
    /\ UNCHANGED <<source, committed, served, runs, unfinished, torn>>

CommitEntry ==
    /\ At("commit")
    /\ committed' = index
    /\ unfinished' = unfinished \ {<<Current, source[Current].vers>>}
    /\ run' = IF run.next = Len(run.order) THEN Idle
              ELSE [at |-> "package", order |-> run.order,
                    next |-> run.next + 1, body |-> None]
    /\ UNCHANGED <<source, index, served, runs, torn>>

\* What a run that ends now has not published.
Left == {<<run.order[k], source[run.order[k]].vers>> :
            k \in {j \in DOMAIN run.order : run.at = "register" \/ j >= run.next}}

\* Any step fails, or the run is killed.
Stop ==
    /\ run # Idle
    /\ run' = Idle
    /\ unfinished' = unfinished \cup Left
    /\ UNCHANGED <<source, index, committed, served, runs, torn>>

\* std::fs::write empties the index file and writes it line by line: a kill in
\* between leaves the beginning of it.
Tear ==
    /\ At("register") \/ At("index")
    /\ LET cksum == IF run.at = "register" THEN Placeholder ELSE run.body
           file == UpsertEntry(index[Current], Entry(cksum))
       IN  \E n \in 0..Len(file) - 1 :
              index' = [index EXCEPT ![Current] = SubSeq(file, 1, n)]
    /\ torn' = torn \cup {Current}
    /\ unfinished' = unfinished \cup Left
    /\ run' = Idle
    /\ UNCHANGED <<source, committed, served, runs>>

PublishNext ==
    \/ \E c \in Crate : Edit(c)
    \/ Begin \/ Register \/ CommitStubs
    \/ Package \/ Copy \/ UpdateIndex \/ CommitEntry
    \/ Stop \/ Tear

PublishSpec == PublishInit /\ [][PublishNext]_publishVars

-----------------------------------------------------------------------------
Run == [at : {"idle", "register", "package", "copy", "index", "commit"},
        order : Seq(Crate), next : Nat, body : Body \cup {None}]

\* The registry and the run are well typed.
PublishTypeOK ==
    /\ source \in [Crate -> [vers : Version, body : Body]]
    /\ index \in [Crate -> Seq(Line)]
    /\ committed \in [Crate -> Seq(Line)]
    /\ served \in [Crate -> [Version -> Body \cup {None, Partial}]]
    /\ run \in Run
    /\ run.at \in {"copy", "index", "commit"} => run.body \in Body
    /\ runs \in Nat
    /\ unfinished \subseteq Crate \X Version
    /\ torn \subseteq Crate

\* Whatever fails or is killed, a checksum cargo reads in the index is that of
\* the file it will download: the placeholder is committed before the file of
\* a version is touched, and the checksum only after it is complete.
ChecksumIsServed ==
    \A c \in Crate : \A l \in Lines(committed[c]) :
        l.cksum # Placeholder => served[c][l.vers] = l.cksum

\* A placeholder stays in the committed index only if a run that was to publish
\* this version ended early, and none has published this version since.
PlaceholdersAreUnfinished ==
    \A c \in Crate : \A l \in Lines(committed[c]) :
        l.cksum = Placeholder => run # Idle \/ <<c, l.vers>> \in unfinished

\* A run takes no version out of the committed index.  Only a kill in the
\* middle of writing an index file can: the next commit takes the rest of it.
VersionsKept ==
    [][\A c \in Crate \ torn : \A l \in Lines(committed[c]) :
          \E m \in Lines(committed'[c]) : m.vers = l.vers]_publishVars

\* A crate is packaged when the crates of the run it depends on are in the
\* committed index with their checksums.
DependenciesFirst ==
    run.at = "package" => \A d \in WorkspaceDeps(Lines(run.order)) :
        d.from = Current =>
            \E l \in Lines(committed[d.to]) : l.vers = source[d.to].vers
                                              /\ l.cksum # Placeholder
=============================================================================
