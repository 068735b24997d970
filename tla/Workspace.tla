------------------------------ MODULE Workspace ------------------------------
(***************************************************************************)
(* cargo xtask ws (xtask/src/workspace.rs): rename, mv, bulk-rename and    *)
(* sync keep the paths in the root Cargo.toml in step with the directories.*)
(* Directories are moved first and Cargo.toml is written afterwards, so a  *)
(* command that ends in between leaves paths that lead nowhere; sync is to *)
(* find those crates again.                                                *)
(*                                                                         *)
(* A path is a sequence of letters, "/" among them, relative to the root:  *)
(* the code compares and replaces paths as text, while the system sees the  *)
(* directory they lead to.                                                 *)
(***************************************************************************)
EXTENDS Naturals, Sequences, FiniteSets

CONSTANTS
    Letter,         \* what paths and names are made of
    Packages,       \* the crates, by the names in their Cargo.toml
    Layout,         \* Layout[p]: where p is at first
    Renames,        \* <<from, to>>: arguments of rename and mv
    Patterns,       \* <<from, to>>: arguments of bulk-rename
    MaxCommands     \* bound on commands

Path == Seq(Letter)

ASSUME LayoutAssumption == /\ IsFiniteSet(Packages) /\ "/" \in Letter
                           /\ Layout \in [Packages -> Path \ {<<>>}]
\* Arguments have no ".." in them, do not begin with "/" and do not end in ".".
ASSUME ArgumentAssumption == Renames \cup Patterns \subseteq (Path \ {<<>>}) \X Path

VARIABLES
    disk,           \* disk[p]: the directory of crate p
    dirs,           \* the directories there are
    members,        \* workspace.members
    deps,           \* workspace.dependencies: the path given for p
    cmd,            \* the command in progress
    commands,       \* commands so far
    untidy          \* what could have put Cargo.toml out of step

wsVars == <<disk, dirs, members, deps, cmd, commands, untidy>>

-----------------------------------------------------------------------------
Slash == <<"/">>
From(path, i) == SubSeq(path, i, Len(path))
StartsWith(path, text) == Len(text) <= Len(path) /\ SubSeq(path, 1, Len(text)) = text
ContainsText(path, text) == \E i \in DOMAIN path : StartsWith(From(path, i), text)

\* str::replace: every occurrence, from the left.
Replace(path, from, to) ==
    LET rest[i \in 1..Len(path) + 1] ==
            IF i > Len(path) THEN <<>>
            ELSE IF StartsWith(From(path, i), from)
            THEN to \o rest[i + Len(from)] ELSE <<path[i]>> \o rest[i + 1]
    IN  rest[1]

\* The directory a path leads to: empty parts and "." lead no further.
Resolve(path) ==
    LET Enter(walk) == IF walk.part \in {<<>>, <<".">>} THEN walk.dir
                       ELSE IF walk.dir = <<>> THEN walk.part
                       ELSE walk.dir \o Slash \o walk.part
        walked[i \in 0..Len(path)] ==
            IF i = 0 THEN [dir |-> <<>>, part |-> <<>>]
            ELSE IF path[i] = "/" THEN [dir |-> Enter(walked[i - 1]), part |-> <<>>]
            ELSE [walked[i - 1] EXCEPT !.part = Append(@, path[i])]
    IN  Enter(walked[Len(path)])

\* root.join(path).exists(): of a directory, or of the root itself.
Exists(path) == path \in dirs \/ Resolve(path) \in dirs \cup {<<>>}

Under(path, dir) == path = dir \/ dir = <<>> \/ StartsWith(path, dir \o Slash)
Above(path) == {SubSeq(path, 1, i - 1) : i \in {j \in DOMAIN path : path[j] = "/"}}
FileName(path) ==
    LET whole == Slash \o Resolve(path)
    IN  From(whole, 2 + Len(CHOOSE d \in Above(whole) :
                               \A e \in Above(whole) : Len(e) <= Len(d)))

\* What fs::rename refuses: a directory into itself, and onto what is not empty.
Refused(from, to) ==
    \/ Under(to, from)
    \/ \E d \in dirs : d # to /\ Under(d, to)
    \/ \E p \in Packages : disk[p] = to

\* create_dir_all of the parent, and fs::rename.
Rebase(path, from, to) ==
    IF Under(path, from) THEN to \o From(path, Len(from) + 1) ELSE path
MoveDir(from, to) ==
    /\ ~Refused(from, to)
    /\ disk' = [p \in Packages |-> Rebase(disk[p], from, to)]
    /\ dirs' = {Rebase(d, from, to) : d \in dirs} \cup Above(to)

\* create_dir_all only: fs::rename refuses or fails, and so does the command.
MakeParents(to) == dirs' = dirs \cup Above(to) /\ UNCHANGED disk

Resting == [at |-> "idle", paths |-> <<>>, left |-> 0]
Ended == cmd.at \in {"idle", "synced"}

WsInit ==
    /\ disk = Layout
    /\ dirs = UNION {Above(Layout[p]) \cup {Layout[p]} : p \in Packages}
    /\ LET paths == {Layout[p] : p \in Packages}
       IN  members \in {s \in [1..Cardinality(paths) -> paths] :
                           {s[i] : i \in DOMAIN s} = paths}
    /\ deps = Layout
    /\ cmd = Resting
    /\ commands = 0
    /\ untidy = {}

Command(at, paths) ==
    /\ Ended /\ commands < MaxCommands
    /\ commands' = commands + 1
    /\ cmd' = [at |-> at, paths |-> paths, left |-> Len(paths)]

-----------------------------------------------------------------------------
\* The text of one path occurs in another, and not as a directory above it.
Ambiguous(path, from) ==
    \E i \in DOMAIN path : /\ StartsWith(From(path, i), from)
                           /\ ~(i = 1 /\ Under(path, from))

\* A directory is given by another spelling than its own.
Respelled(r) == \E path \in {r[1], r[2]} : Resolve(path) # path

\* rename, and mv, which is the same: source there, target not.
RenameDir ==
    \E r \in Renames :
        /\ Exists(r[1]) /\ ~Exists(r[2])
        /\ Command("rename", <<r>>)
        /\ MoveDir(Resolve(r[1]), Resolve(r[2]))
        /\ untidy' = untidy
              \cup (IF Respelled(r) THEN {"respelled"} ELSE {})
              \cup (IF \E path \in {members[i] : i \in DOMAIN members}
                                    \cup {deps[p] : p \in Packages} : Ambiguous(path, r[1])
                    THEN {"ambiguous"} ELSE {})
        /\ UNCHANGED <<members, deps>>

\* Only the parents are made: the command ends before Cargo.toml.
RenameFails ==
    \E r \in Renames :
        /\ Exists(r[1]) /\ ~Exists(r[2])
        /\ Command("idle", <<>>)
        /\ MakeParents(Resolve(r[2]))
        /\ UNCHANGED <<members, deps, untidy>>

UpdateDependencyPaths(paths, from, to) ==
    [p \in Packages |-> Replace(paths[p], from, to)]

\* A slip: only the member of exactly that path is rewritten.
UpdateExact ==
    /\ cmd.at = "rename"
    /\ LET from == cmd.paths[1][1]
           to == cmd.paths[1][2]
       IN  /\ members' = [i \in DOMAIN members |->
                             IF members[i] = from THEN to ELSE members[i]]
           /\ deps' = UpdateDependencyPaths(deps, from, to)
    /\ cmd' = Resting
    /\ UNCHANGED <<disk, dirs, commands, untidy>>

\* update_cargo_toml_paths.
UpdateCargoToml ==
    /\ cmd.at = "rename"
    /\ LET from == cmd.paths[1][1]
           to == cmd.paths[1][2]
       IN  /\ members' = [i \in DOMAIN members |->
                 IF StartsWith(members[i], from)
                       \/ ContainsText(members[i], Slash \o from)
                 THEN Replace(members[i], from, to) ELSE members[i]]
           /\ deps' = UpdateDependencyPaths(deps, from, to)
    /\ cmd' = Resting
    /\ UNCHANGED <<disk, dirs, commands, untidy>>

-----------------------------------------------------------------------------
\* bulk_rename plans the new path of every member with the pattern in it.
BulkRename ==
    \E pattern \in Patterns :
        LET renames == [i \in DOMAIN members |->
                           <<members[i], Replace(members[i], pattern[1], pattern[2])>>]
            chosen == SelectSeq(renames, LAMBDA r : ContainsText(r[1], pattern[1]))
        IN  /\ chosen # <<>>
            /\ Command("bulk", chosen)
    /\ untidy' = untidy \cup {"bulk"}
    /\ UNCHANGED <<disk, dirs, members, deps>>

\* The directories it moves, from the last to the first: those there still whose
\* path another of the paths begins with.
IsMoved(r) ==
    /\ Exists(r[1])
    /\ \E j \in DOMAIN cmd.paths : /\ cmd.paths[j][1] # r[1]
                                  /\ StartsWith(cmd.paths[j][1], r[1])

BulkMove ==
    /\ cmd.at = "bulk" /\ cmd.left > 0
    /\ LET r == cmd.paths[cmd.left]
       IN  IF IsMoved(r) THEN MoveDir(Resolve(r[1]), Resolve(r[2]))
           ELSE UNCHANGED <<disk, dirs>>
    /\ cmd' = [cmd EXCEPT !.left = @ - 1]
    /\ UNCHANGED <<members, deps, commands, untidy>>

BulkFails ==
    /\ cmd.at = "bulk" /\ cmd.left > 0
    /\ LET r == cmd.paths[cmd.left]
       IN  IsMoved(r) /\ MakeParents(Resolve(r[2]))
    /\ cmd' = Resting
    /\ untidy' = untidy \cup {"interrupt"}
    /\ UNCHANGED <<members, deps, commands>>

\* update_cargo_toml_bulk: every path by the one planned, moved or not.
UpdateCargoTomlBulk ==
    /\ cmd.at = "bulk" /\ cmd.left = 0
    /\ LET Planned(path) == {i \in DOMAIN cmd.paths : cmd.paths[i][1] = path}
           New(path) == IF Planned(path) = {} THEN path
                        ELSE cmd.paths[CHOOSE i \in Planned(path) : TRUE][2]
       IN  /\ members' = [i \in DOMAIN members |-> New(members[i])]
           /\ deps' = [p \in Packages |-> New(deps[p])]
    /\ cmd' = Resting
    /\ UNCHANGED <<disk, dirs, commands, untidy>>

\* A command fails or is killed before it has written Cargo.toml.
Interrupt ==
    /\ ~Ended
    /\ cmd' = Resting
    /\ untidy' = untidy \cup {"interrupt"}
    /\ UNCHANGED <<disk, dirs, members, deps, commands>>

-----------------------------------------------------------------------------
\* A slip: the crate is looked for by the name of its directory.
FindCrateByDir(path) == {p \in Packages : FileName(disk[p]) = FileName(path)}

\* find_crate_by_name: the crate whose package name is the last part of the
\* path it had.
FindCrateByName(path) == {p \in Packages : p = FileName(path)}

\* sync: members that are not there get the path of the crate of that name,
\* and so does every dependency path with the old path in it.
Sync ==
    LET Lost(i) == ~Exists(members[i]) /\ FindCrateByName(members[i]) # {}
        New(i) == disk[CHOOSE p \in FindCrateByName(members[i]) : TRUE]
        synced[i \in 0..Len(members)] ==
            IF i = 0 THEN deps
            ELSE IF Lost(i) THEN UpdateDependencyPaths(synced[i - 1], members[i], New(i))
            ELSE synced[i - 1]
    IN  /\ Command("synced", <<>>)
        /\ members' = [i \in DOMAIN members |-> IF Lost(i) THEN New(i) ELSE members[i]]
        /\ deps' = synced[Len(members)]
        /\ UNCHANGED <<disk, dirs, untidy>>

WsNext ==
    \/ RenameDir \/ RenameFails \/ UpdateCargoToml
    \/ BulkRename \/ BulkMove \/ BulkFails \/ UpdateCargoTomlBulk
    \/ Interrupt
    \/ Sync

WsSpec == WsInit /\ [][WsNext]_wsVars
-----------------------------------------------------------------------------
Members == {members[i] : i \in DOMAIN members}

\* However often directories are renamed and moved, whatever directories above a
\* crate, and whichever moves fail, the members and the dependencies are the
\* crates' directories after every command, unless the path's text occurs
\* elsewhere too (a sibling whose name begins with it), a directory was given by
\* another spelling than Cargo.toml's ("a/x/" for "a/x": it is moved, and its
\* path stays), or a command was cut short.
RenameKeepsPaths ==
    Ended /\ untidy = {} => /\ Members = {disk[p] : p \in Packages}
                            /\ deps = disk

\* After sync a member that leads nowhere is one whose last part is the name
\* of no crate: also after commands that were cut short.
SyncRepairs ==
    cmd.at = "synced" =>
        \A path \in Members : Exists(path) \/ FileName(path) \notin Packages

\* "Would rename directories and update Cargo.toml": when bulk-rename has done
\* both, the members are the crates' directories.
BulkKeepsMembers ==
    Ended /\ untidy = {"bulk"} => Members = {disk[p] : p \in Packages}
=============================================================================
