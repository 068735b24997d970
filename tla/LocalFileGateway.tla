-------------------------- MODULE LocalFileGateway --------------------------
(***************************************************************************)
(* LocalFileGateway (src/core/file/local.rs) over a directory other tasks  *)
(* use at the same time.  A call is the sequence of system calls it awaits,*)
(* and any two calls interleave between them.  The directory holds names   *)
(* of inodes, and an open file keeps its inode when the name is replaced.  *)
(*                                                                         *)
(* A content is a sequence of chunks (tokio writes and reads files in      *)
(* chunks).  Calls that change nothing before they fail are no steps, and  *)
(* of the metadata in an answer only a written file's size is kept.        *)
(***************************************************************************)
EXTENDS Naturals, Sequences, FiniteSets

CONSTANTS
    Caller,
    Path,           \* the files of the directory
    Inode,
    Content,        \* what callers write
    Hole,           \* a chunk nobody wrote, before one that was written
    None,
    MaxResults,     \* the max_results of listings: numbers or None
    MaxCalls        \* bound on calls, those of a single step not counted

ASSUME ContentAssumption == \A s \in Content : s \in Seq({s[i] : i \in DOMAIN s})
\* The disk has an inode to spare, whatever is stored and open.
ASSUME InodeAssumption ==
    /\ None \notin Inode
    /\ IsFiniteSet(Path) /\ IsFiniteSet(Caller) /\ IsFiniteSet(Inode)
    /\ Cardinality(Inode) > Cardinality(Path) + 2 * Cardinality(Caller)

VARIABLES
    dir,            \* the directory exists
    entry,          \* entry[p]: the inode of name p, or None
    data,           \* data[i]: the chunks of inode i
    mixed,          \* inodes written by calls that overlapped, or that failed
    op,             \* op[c]: the call c is in the middle of
    begun           \* calls begun so far

fsVars == <<dir, entry, data, mixed, op, begun>>

Idle == [name |-> "idle", at |-> "", path |-> None, to |-> None, inode |-> None,
         from |-> None, pos |-> 1, size |-> 0, content |-> <<>>, overwrite |-> TRUE,
         checked |-> TRUE, clean |-> TRUE, left |-> {}, listed |-> {}, always |-> {}]

Present == {p \in Path : entry[p] # None}
At(c, name, at) == op[c].name = name /\ op[c].at = at
Writers(i) == {c \in Caller : op[c].inode = i /\ op[c].name \in {"write", "copy"}}
Live == {entry[p] : p \in Path} \cup UNION {{op[c].inode, op[c].from} : c \in Caller}
Fresh == CHOOSE i \in Inode : i \notin Live

FsInit ==
    /\ dir = FALSE
    /\ entry = [p \in Path |-> None]
    /\ data = [i \in Inode |-> <<>>]
    /\ mixed = {}
    /\ op = [c \in Caller |-> Idle]
    /\ begun = 0

\* What c does to inode i and to the names is seen by the calls in progress:
\* one that has the inode open is not alone with it any more, and a listing
\* has the files that were there from its beginning on.
Proceed(c, next, i) ==
    op' = [d \in Caller |->
              IF d = c THEN next
              ELSE [op[d] EXCEPT
                       !.clean = @ /\ (i = None \/ i \notin {op[d].inode, op[d].from}),
                       !.always = @ \cap Present']]

\* Inodes without a name and without a handle are gone.
Settle(d, m) ==
    /\ data' = [i \in Inode |-> IF i \in Live' THEN d[i] ELSE <<>>]
    /\ mixed' = m \cap Live'

Begin(c, call) ==
    /\ op[c] = Idle
    /\ begun < MaxCalls
    /\ begun' = begun + 1
    /\ op' = [op EXCEPT ![c] = call]
    /\ UNCHANGED <<dir, entry>> /\ Settle(data, mixed)

-----------------------------------------------------------------------------
\* Err(Conflict) if the file is there.  A try_exists that fails counts as
\* no file: unwrap_or(false).
BeginWrite(c) ==
    \E p \in Path, s \in Content, over, checked \in BOOLEAN :
        /\ over \/ ~checked \/ entry[p] = None
        /\ Begin(c, [Idle EXCEPT !.name = "write", !.at = "mkdir", !.path = p,
                                 !.content = s, !.overwrite = over,
                                 !.checked = over \/ checked])

BeginMove(c) ==
    \E name \in {"copy", "rename"}, p, q \in Path :
        Begin(c, [Idle EXCEPT !.name = name, !.at = "mkdir", !.path = p, !.to = q])

\* create_dir_all of the parent, in write, copy and rename.
CreateParent(c) ==
    /\ op[c].at = "mkdir"
    /\ dir' = TRUE
    /\ op' = [op EXCEPT ![c].at = "open"]
    /\ UNCHANGED entry /\ Settle(data, mixed)

\* Opens name p for writing: a new inode, or the old one emptied.
OpenForWriting(c, p, next) ==
    LET i == IF entry[p] = None THEN Fresh ELSE entry[p]
    IN  /\ dir
        /\ entry' = [entry EXCEPT ![p] = i]
        /\ UNCHANGED dir
        /\ Proceed(c, [next EXCEPT !.inode = i, !.clean = Writers(i) = {}], i)
        /\ Settle([data EXCEPT ![i] = <<>>],
                  IF Writers(i) # {} \/ next.from = i THEN mixed \cup {i}
                  ELSE mixed \ {i})

\* A slip: OpenOptions without truncate.
CreateWithoutTruncate(c) ==
    /\ At(c, "write", "open")
    /\ LET p == op[c].path
           i == IF entry[p] = None THEN Fresh ELSE entry[p]
       IN  /\ dir
           /\ entry' = [entry EXCEPT ![p] = i]
           /\ UNCHANGED dir
           /\ Proceed(c, [op[c] EXCEPT !.at = "chunk", !.inode = i,
                                       !.clean = Writers(i) = {}], i)
           /\ Settle(data, IF Writers(i) # {} THEN mixed \cup {i} ELSE mixed \ {i})

\* File::create.
CreateFile(c) ==
    /\ At(c, "write", "open")
    /\ OpenForWriting(c, op[c].path, [op[c] EXCEPT !.at = "chunk"])

\* A chunk at the place of the handle, whatever has become of the file.
WriteAt(s, pos, chunk) ==
    [k \in 1..(IF Len(s) < pos THEN pos ELSE Len(s)) |->
        IF k = pos THEN chunk ELSE IF k <= Len(s) THEN s[k] ELSE Hole]

PutChunk(c, chunk) ==
    LET i == op[c].inode
    IN  /\ UNCHANGED <<dir, entry>>
        /\ Proceed(c, [op[c] EXCEPT !.pos = @ + 1], i)
        /\ Settle([data EXCEPT ![i] = WriteAt(@, op[c].pos, chunk)],
                  IF op[c].clean /\ Writers(i) = {c} THEN mixed ELSE mixed \cup {i})

\* write_all.
WriteChunk(c) ==
    /\ At(c, "write", "chunk")
    /\ op[c].pos <= Len(op[c].content)
    /\ PutChunk(c, op[c].content[op[c].pos])

\* The metadata of the name, which may be another file's by now.
Stat(c) ==
    LET i == entry[op[c].path]
    IN  op' = [op EXCEPT ![c].at = "stat", ![c].from = i,
                         ![c].size = IF i = None THEN 0 ELSE Len(data[i])]

\* A slip: no flush, so the last chunk may still be on its way.
FinishWithoutFlush(c) ==
    /\ At(c, "write", "chunk")
    /\ op[c].pos >= Len(op[c].content)
    /\ Stat(c)
    /\ UNCHANGED <<dir, entry>> /\ Settle(data, mixed)

\* flush has waited for the last chunk.
FinishWrite(c) ==
    /\ At(c, "write", "chunk")
    /\ op[c].pos > Len(op[c].content)
    /\ Stat(c)
    /\ UNCHANGED <<dir, entry>> /\ Settle(data, mixed)

\* The disk is full or the call is dropped: what is written stays.
FailWrite(c) ==
    /\ op[c].name \in {"write", "copy"} /\ op[c].at = "chunk"
    /\ UNCHANGED <<dir, entry>>
    /\ Proceed(c, Idle, None)
    /\ Settle(data, mixed \cup {op[c].inode})

Return(c) ==
    /\ op[c].at \in {"stat", "done"}
    /\ op' = [op EXCEPT ![c] = Idle]
    /\ UNCHANGED <<dir, entry>> /\ Settle(data, mixed)

-----------------------------------------------------------------------------
\* fs::copy opens the source first: NotFound leaves the destination alone.
\* Where both are the same file, opening it for writing empties the source.
OpenCopy(c) ==
    /\ At(c, "copy", "open")
    /\ entry[op[c].path] # None
    /\ OpenForWriting(c, op[c].to,
                      [op[c] EXCEPT !.at = "chunk", !.from = entry[op[c].path]])

CopyChunk(c) ==
    /\ At(c, "copy", "chunk")
    /\ op[c].pos <= Len(data[op[c].from])
    /\ PutChunk(c, data[op[c].from][op[c].pos])

\* The copy of a file that is mixed, or being written, is mixed itself.
FinishCopy(c) ==
    /\ At(c, "copy", "chunk")
    /\ op[c].pos > Len(data[op[c].from])
    /\ UNCHANGED <<dir, entry>>
    /\ Proceed(c, Idle, None)
    /\ Settle(data, IF /\ op[c].clean /\ op[c].from \notin mixed
                      /\ Writers(op[c].from) = {}
                   THEN mixed ELSE mixed \cup {op[c].inode})

\* The destination, if it is there, is replaced in the same step.
Rename(c) ==
    /\ At(c, "rename", "open")
    /\ dir /\ entry[op[c].path] # None
    /\ entry' = IF op[c].path = op[c].to THEN entry
                ELSE [entry EXCEPT ![op[c].to] = entry[op[c].path],
                                   ![op[c].path] = None]
    /\ Proceed(c, Idle, None)
    /\ UNCHANGED dir /\ Settle(data, mixed)

\* NotFound for the source, or no directory any more.
GiveUp(c) ==
    /\ op[c].at = "open"
    /\ ~dir \/ (op[c].name # "write" /\ entry[op[c].path] = None)
    /\ op' = [op EXCEPT ![c] = Idle]
    /\ UNCHANGED <<dir, entry>> /\ Settle(data, mixed)

\* remove_file; NotFound if there is none.
DeleteFile(c) ==
    /\ op[c] = Idle
    /\ \E p \in Present : entry' = [entry EXCEPT ![p] = None]
    /\ Proceed(c, Idle, None)
    /\ UNCHANGED dir /\ Settle(data, mixed)

-----------------------------------------------------------------------------
\* read keeps its inode whatever becomes of the name.
BeginRead(c) ==
    \E p \in Present :
        Begin(c, [Idle EXCEPT !.name = "read", !.at = "chunk", !.path = p,
                              !.inode = entry[p], !.clean = Writers(entry[p]) = {}])

ReadChunk(c) ==
    /\ At(c, "read", "chunk")
    /\ op[c].pos <= Len(data[op[c].inode])
    /\ op' = [op EXCEPT ![c].content = Append(@, data[op[c].inode][op[c].pos]),
                        ![c].pos = @ + 1]
    /\ UNCHANGED <<dir, entry>> /\ Settle(data, mixed)

FinishRead(c) ==
    /\ At(c, "read", "chunk")
    /\ op[c].pos > Len(data[op[c].inode])
    /\ op' = [op EXCEPT ![c].at = "done"]
    /\ UNCHANGED <<dir, entry>> /\ Settle(data, mixed)

-----------------------------------------------------------------------------
\* The names are read first, in any order; without the directory there are none.
BeginList(c) ==
    \E max \in MaxResults :
        Begin(c, [Idle EXCEPT !.name = "list", !.at = "entry", !.to = max,
                              !.left = Present, !.always = Present])

\* Then the metadata of one after another, until max_results are found.
ListEntry(c) ==
    /\ At(c, "list", "entry")
    /\ \E p \in op[c].left \cap Present :
          LET listed == op[c].listed \cup {p}
              full == op[c].to # None /\ Cardinality(listed) >= op[c].to
          IN  op' = [op EXCEPT ![c].listed = listed, ![c].left = @ \ {p},
                               ![c].at = IF full THEN "done" ELSE @]
    /\ UNCHANGED <<dir, entry>> /\ Settle(data, mixed)

\* A slip: an entry that has gone ends the listing.
EndList(c) ==
    /\ At(c, "list", "entry")
    /\ \E p \in op[c].left : p \notin Present
    /\ op' = [op EXCEPT ![c].at = "done"]
    /\ UNCHANGED <<dir, entry>> /\ Settle(data, mixed)

\* An entry that has gone since its name was read fails the whole listing.
ListFails(c) ==
    /\ At(c, "list", "entry")
    /\ \E p \in op[c].left : p \notin Present
    /\ op' = [op EXCEPT ![c] = Idle]
    /\ UNCHANGED <<dir, entry>> /\ Settle(data, mixed)

FinishList(c) ==
    /\ At(c, "list", "entry")
    /\ op[c].left = {}
    /\ op' = [op EXCEPT ![c].at = "done"]
    /\ UNCHANGED <<dir, entry>> /\ Settle(data, mixed)

-----------------------------------------------------------------------------
CreateDirectory(c) ==
    /\ op[c] = Idle
    /\ dir' = TRUE
    /\ UNCHANGED <<entry, data, mixed, op>>

\* remove_dir; a directory with files in it is an error.
RemoveDir(c) ==
    /\ op[c] = Idle
    /\ dir /\ Present = {}
    /\ dir' = FALSE
    /\ UNCHANGED <<entry, data, mixed, op>>

\* remove_dir_all unlinks the files it finds and then removes the directory,
\* which fails if another file has come in the meantime.
BeginRemoveAll(c) ==
    dir /\ Begin(c, [Idle EXCEPT !.name = "rmdir", !.at = "entry",
                                 !.left = Present])

RemoveEntry(c) ==
    /\ At(c, "rmdir", "entry")
    /\ \E p \in op[c].left :
          /\ entry' = [entry EXCEPT ![p] = None]
          /\ Proceed(c, [op[c] EXCEPT !.left = @ \ {p}], None)
    /\ UNCHANGED dir /\ Settle(data, mixed)

FinishRemoveAll(c) ==
    /\ At(c, "rmdir", "entry")
    /\ op[c].left = {}
    /\ dir' = (dir /\ Present # {})
    /\ op' = [op EXCEPT ![c] = Idle]
    /\ UNCHANGED entry /\ Settle(data, mixed)

FsBegin(c) ==
    \/ BeginWrite(c) \/ BeginMove(c) \/ BeginRead(c) \/ BeginList(c)
    \/ BeginRemoveAll(c)

FsStep(c) ==
    \/ CreateParent(c) \/ CreateFile(c) \/ WriteChunk(c) \/ FinishWrite(c)
    \/ FailWrite(c) \/ Return(c)
    \/ OpenCopy(c) \/ CopyChunk(c) \/ FinishCopy(c)
    \/ Rename(c) \/ GiveUp(c) \/ DeleteFile(c)
    \/ ReadChunk(c) \/ FinishRead(c)
    \/ ListEntry(c) \/ ListFails(c) \/ FinishList(c)
    \/ CreateDirectory(c) \/ RemoveDir(c)
    \/ RemoveEntry(c) \/ FinishRemoveAll(c)

FsNext == \E c \in Caller : FsBegin(c) \/ (FsStep(c) /\ UNCHANGED begun)

FsSpec == FsInit /\ [][FsNext]_fsVars

-----------------------------------------------------------------------------
\* A file is what one call put there, from the first chunk to the last, unless
\* calls overlapped on it or failed, or it was copied to itself.
WholeAtRest ==
    \A p \in Present :
        entry[p] \in mixed \/ Writers(entry[p]) # {} \/ data[entry[p]] \in Content

\* A call that has the file to itself is exact: write reports the size of what
\* it was given, and read returns all of the file.
AloneIsExact ==
    \A c \in Caller : op[c].clean =>
        /\ At(c, "write", "stat") /\ op[c].from = op[c].inode =>
              op[c].size = Len(op[c].content)
        /\ At(c, "read", "done") => op[c].content = data[op[c].inode]

\* A listing without a limit has every file that was there all the while.
ListComplete ==
    \A c \in Caller :
        At(c, "list", "done") /\ op[c].to = None => op[c].always \subseteq op[c].listed

=============================================================================
