------------------------ MODULE LocalFileGatewayProofs ------------------------
(***************************************************************************)
(* Proofs about LocalFileGateway, for any callers, paths and contents: what*)
(* a file holds (WholeAtRest), what a call that is alone with its file is  *)
(* told (AloneIsExact) and what a listing has (ListComplete).              *)
(*                                                                         *)
(* An inode that is not mixed has one writer, and then the beginning of    *)
(* what it writes, or none, and then a content.                            *)
(***************************************************************************)
EXTENDS LocalFileGateway, FiniteSetTheorems, SequenceTheorems, TLAPS

WrittenChunk == UNION {{s[i] : i \in DOMAIN s} : s \in Content}
Chunk == WrittenChunk \cup {Hole}

Call == [name : {"idle", "write", "copy", "rename", "read", "list", "rmdir"},
         at : {"", "mkdir", "open", "chunk", "stat", "done", "entry"},
         path : Path \cup {None}, to : Path \cup {None} \cup MaxResults,
         inode : Inode \cup {None}, from : Inode \cup {None},
         pos : Nat \ {0}, size : Nat, content : Seq(Chunk),
         overwrite : BOOLEAN, checked : BOOLEAN, clean : BOOLEAN,
         left : SUBSET Path, listed : SUBSET Path, always : SUBSET Path]

\* The directory and the calls in progress are well typed.
FsTypeOK ==
    /\ dir \in BOOLEAN
    /\ entry \in [Path -> Inode \cup {None}]
    /\ data \in [Inode -> Seq(Chunk)]
    /\ mixed \subseteq Inode
    /\ op \in [Caller -> Call]
    /\ begun \in Nat

\* What a call has at each of its steps.
Shape(o) ==
    /\ o.at \in {"mkdir", "open"} =>
          /\ o.name \in {"write", "copy", "rename"}
          /\ o.path \in Path /\ (o.name # "write" => o.to \in Path)
          /\ o.inode = None /\ o.from = None /\ o.pos = 1
    /\ o.at = "chunk" =>
          /\ o.name \in {"write", "copy", "read"} /\ o.inode \in Inode
          /\ IF o.name = "copy" THEN o.from \in Inode ELSE o.from = None
    /\ o.at = "stat" =>
          o.name = "write" /\ o.inode \in Inode /\ o.pos > Len(o.content)
    /\ o.name \in {"write", "copy"} => o.at \in {"mkdir", "open", "chunk", "stat"}
    /\ o.name = "write" => o.content \in Content /\ o.path \in Path
    /\ o.name = "read" => o.at \in {"chunk", "done"} /\ o.inode \in Inode
    /\ o.name \in {"idle", "rename", "list", "rmdir"} => o.inode = None /\ o.from = None
    /\ o.name = "list" =>
          /\ o.always \subseteq o.left \cup o.listed
          /\ o.to = None /\ o.at = "done" => o.left = {}

Writes(o) == o.name \in {"write", "copy"} /\ o.inode \in Inode
Source(o, d) == IF o.name = "write" THEN o.content ELSE d[o.from]
Begins(s, t, pos) == pos <= Len(t) + 1 /\ s = SubSeq(t, 1, pos - 1)

\* What the file of a call holds of what the call writes, or has read.
Exact(o, d, m) ==
    /\ Writes(o) /\ o.inode \notin m /\ (o.name = "copy" => o.clean) =>
          Begins(d[o.inode], Source(o, d), o.pos)
    /\ Writes(o) /\ o.inode \notin m /\ o.name = "copy" /\ o.clean => o.from # o.inode
    /\ o.name = "read" /\ o.clean =>
          /\ Begins(o.content, d[o.inode], o.pos)
          /\ o.at = "done" => o.pos > Len(d[o.inode])
    /\ o.at = "stat" /\ o.clean /\ o.from = o.inode => o.size = Len(o.content)

ShapeInv == \A c \in Caller : Shape(op[c])
ExactInv == \A c \in Caller : Exact(op[c], data, mixed)

\* Whoever writes a file that is not mixed is the only one, and a write that
\* has been alone with its file has one that is not mixed.
LonelyInv ==
    /\ \A c, d \in Caller :
          c # d /\ Writes(op[c]) /\ Writes(op[d]) /\ op[c].inode = op[d].inode
          => /\ op[c].inode \in mixed
             /\ op[c].name = "write" => ~op[c].clean
    /\ \A c \in Caller :
          Writes(op[c]) /\ op[c].name = "write" /\ op[c].clean => op[c].inode \notin mixed

\* A file nobody writes is whole.
RestInv ==
    \A i \in Inode \cap Live :
        i \in mixed \/ Writers(i) # {} \/ data[i] \in Content

FsInv == FsTypeOK /\ ShapeInv /\ ExactInv /\ LonelyInv /\ RestInv

-----------------------------------------------------------------------------
LEMMA UnionBound ==
    ASSUME NEW S, NEW T, IsFiniteSet(S), IsFiniteSet(T)
    PROVE  /\ IsFiniteSet(S \cup T) /\ Cardinality(S \cup T) \in Nat
           /\ Cardinality(S) \in Nat /\ Cardinality(T) \in Nat
           /\ Cardinality(S \cup T) <= Cardinality(S) + Cardinality(T)
  <1>1. /\ IsFiniteSet(S \cup T)
        /\ Cardinality(S \cup T) = Cardinality(S) + Cardinality(T) - Cardinality(S \cap T)
    BY FS_Union
  <1>2. IsFiniteSet(S \cap T)
    BY FS_Intersection
  <1>3. /\ Cardinality(S) \in Nat /\ Cardinality(T) \in Nat
        /\ Cardinality(S \cap T) \in Nat /\ Cardinality(S \cup T) \in Nat
    BY <1>1, <1>2, FS_CardinalityType
  <1> QED
    BY <1>1, <1>3

LEMMA ImageBound ==
    ASSUME NEW S, IsFiniteSet(S), NEW f, DOMAIN f = S
    PROVE  LET T == {f[x] : x \in S}
           IN  IsFiniteSet(T) /\ Cardinality(T) <= Cardinality(S)
  <1> DEFINE T == {f[x] : x \in S}
             g == [x \in S |-> f[x]]
  <1>1. g \in Surjection(S, T)
    BY DEF Surjection
  <1> HIDE DEF g, T
  <1>2. IsFiniteSet(T) /\ Cardinality(T) <= Cardinality(S)
    BY <1>1, FS_Surjection
  <1> QED
    BY <1>2 DEF T

\* The inodes in use are fewer than there are.
LEMMA FreshIsNew == ASSUME FsTypeOK PROVE Fresh \in Inode /\ Fresh \notin Live
  <1> DEFINE i == [c \in Caller |-> op[c].inode]
             f == [c \in Caller |-> op[c].from]
             P == {entry[p] : p \in Path}
             I == {i[c] : c \in Caller}
             F == {f[c] : c \in Caller}
  <1>1. /\ IsFiniteSet(Path) /\ IsFiniteSet(Caller) /\ IsFiniteSet(Inode)
        /\ Cardinality(Inode) > Cardinality(Path) + 2 * Cardinality(Caller)
    BY InodeAssumption
  <1>2. IsFiniteSet(P) /\ Cardinality(P) <= Cardinality(Path)
    BY <1>1, ImageBound DEF FsTypeOK
  <1>3. IsFiniteSet(I) /\ Cardinality(I) <= Cardinality(Caller)
    BY <1>1, ImageBound
  <1>4. IsFiniteSet(F) /\ Cardinality(F) <= Cardinality(Caller)
    BY <1>1, ImageBound
  <1>5. Live = (P \cup I) \cup F
    BY DEF Live
  <1> HIDE DEF P, I, F
  <1>6. /\ IsFiniteSet(P \cup I) /\ Cardinality(P \cup I) \in Nat
        /\ Cardinality(P) \in Nat /\ Cardinality(I) \in Nat
        /\ Cardinality(P \cup I) <= Cardinality(P) + Cardinality(I)
    BY <1>2, <1>3, UnionBound
  <1>7. /\ IsFiniteSet(Live) /\ Cardinality(Live) \in Nat /\ Cardinality(F) \in Nat
        /\ Cardinality(Live) <= Cardinality(P \cup I) + Cardinality(F)
    BY <1>4, <1>5, <1>6, UnionBound
  <1>8. /\ Cardinality(Path) \in Nat /\ Cardinality(Caller) \in Nat
        /\ Cardinality(Inode) \in Nat
    BY <1>1, FS_CardinalityType
  <1>9. Cardinality(Live) < Cardinality(Inode)
    BY <1>1, <1>2, <1>3, <1>4, <1>6, <1>7, <1>8
  <1>10. ASSUME Inode \subseteq Live PROVE FALSE
    BY <1>7, <1>8, <1>9, <1>10, FS_Subset
  <1> QED
    BY <1>10 DEF Fresh

-----------------------------------------------------------------------------
LEMMA NoneIsNoInode == None \notin Inode
  BY InodeAssumption

\* What another caller's step on inode i makes of a call.
Sees(o, p, i) ==
    /\ p.name = o.name /\ p.at = o.at /\ p.path = o.path /\ p.to = o.to
    /\ p.inode = o.inode /\ p.from = o.from /\ p.pos = o.pos /\ p.size = o.size
    /\ p.content = o.content /\ p.overwrite = o.overwrite
    /\ p.checked = o.checked /\ p.left = o.left /\ p.listed = o.listed
    /\ p.clean => o.clean /\ (i = None \/ i \notin {o.inode, o.from})
    /\ p.always \subseteq o.always

Moves(c, next, i) ==
    /\ op' \in [Caller -> Call]
    /\ op'[c] = next
    /\ \A d \in Caller : d # c => Sees(op[d], op'[d], i)

LEMMA SeenCall ==
    ASSUME NEW o \in Call, NEW i, NEW b \in BOOLEAN, NEW a \in SUBSET Path,
           b => o.clean /\ (i = None \/ i \notin {o.inode, o.from}), a \subseteq o.always,
           NEW p, p = [o EXCEPT !.clean = b, !.always = a]
    PROVE  p \in Call /\ Sees(o, p, i)
  <1>1. p \in Call
    BY ZenonT(60) DEF Call
  <1>2. Sees(o, p, i)
    BY ZenonT(60) DEF Call, Sees
  <1> QED
    BY <1>1, <1>2

LEMMA ProceedMoves ==
    ASSUME FsTypeOK, NEW c \in Caller, NEW next \in Call, NEW i, Proceed(c, next, i),
           Present' \subseteq Path
    PROVE  Moves(c, next, i)
  <1>1. ASSUME NEW d \in Caller, d # c
        PROVE  op'[d] \in Call /\ Sees(op[d], op'[d], i)
    <2>1. op[d] \in Call
      BY DEF FsTypeOK
    <2> DEFINE still == op[d].clean /\ (i = None \/ i \notin {op[d].inode, op[d].from})
               always == op[d].always \cap Present'
               next_d == [op[d] EXCEPT !.clean = still, !.always = always]
    <2>2. op'[d] = next_d
      BY <1>1 DEF Proceed
    <2>3. still \in BOOLEAN /\ always \subseteq op[d].always /\ always \subseteq Path
      BY <2>1
    <2>4. still => op[d].clean /\ (i = None \/ i \notin {op[d].inode, op[d].from})
      BY <2>1 DEF Call
    <2>5. PICK b \in BOOLEAN, a \in SUBSET Path :
             /\ op'[d] = [op[d] EXCEPT !.clean = b, !.always = a]
             /\ b => op[d].clean /\ (i = None \/ i \notin {op[d].inode, op[d].from})
             /\ a \subseteq op[d].always
      <3> WITNESS still \in BOOLEAN, always \in SUBSET Path
      <3> QED
        BY <2>2, <2>3, <2>4
    <2> QED
      BY <2>1, <2>5, SeenCall
  <1> QED
    BY <1>1 DEF Proceed, Moves

LEMMA GoesMoves ==
    ASSUME FsTypeOK, NEW c \in Caller, NEW next \in Call, op' = [op EXCEPT ![c] = next]
    PROVE  Moves(c, next, None)
  BY DEF FsTypeOK, Moves, Sees, Call

\* What Settle leaves of contents d and marks m.
LEMMA Settled ==
    ASSUME NEW d \in [Inode -> Seq(Chunk)], NEW m \in SUBSET Inode, Settle(d, m)
    PROVE  /\ data' \in [Inode -> Seq(Chunk)] /\ mixed' \subseteq Inode
           /\ mixed' \subseteq m /\ m \cap Live' \subseteq mixed'
           /\ \A i \in Inode \cap Live' : data'[i] = d[i]
  BY EmptySeq DEF Settle

\* A step of c that works on inode i at most: it changes no other file, marks no
\* other but the one c writes, and marks i if another writes it.
WorksOn(c, i) ==
    /\ i \in Inode \cup {None}
    /\ Live' \cap Inode \subseteq Live \cup {i}
    /\ \A j \in Inode \cap Live' : j # i =>
          data'[j] = data[j] /\ (j \in mixed => j \in mixed')
    /\ \A j \in mixed' : j \in mixed \/ j = i \/ (Writes(op[c]) /\ j = op[c].inode)
    /\ i # None =>
          /\ Writes(op'[c]) /\ op'[c].inode = i
          /\ (\E d \in Caller : d # c /\ Writes(op[d]) /\ op[d].inode = i) => i \in mixed'

\* Where c is one of several writers, or the only one of a clean write.
Lonely(c) ==
    Writes(op'[c]) =>
        /\ \A d \in Caller : d # c /\ Writes(op'[d]) /\ op'[d].inode = op'[c].inode =>
              /\ op'[c].inode \in mixed'
              /\ op'[c].name = "write" => ~op'[c].clean
              /\ op'[d].name = "write" => ~op'[d].clean
        /\ op'[c].name = "write" /\ op'[c].clean => op'[c].inode \notin mixed'

\* What c leaves behind is whole or marked, or another writes it.
Leaves(c) ==
    Writes(op[c]) /\ ~(Writes(op'[c]) /\ op'[c].inode = op[c].inode) =>
        \/ op[c].inode \in mixed' \/ op[c].inode \notin Live'
        \/ \E d \in Caller : d # c /\ Writes(op'[d]) /\ op'[d].inode = op[c].inode
        \/ data'[op[c].inode] \in Content

LEMMA StepKeeps ==
    ASSUME FsInv, FsTypeOK', NEW c \in Caller, NEW next, NEW i,
           Moves(c, next, i), WorksOn(c, i),
           Shape(next), Exact(next, data', mixed'), Lonely(c), Leaves(c)
    PROVE  FsInv'
  <1>1. \A d \in Caller : d # c => Sees(op[d], op'[d], i)
    BY DEF Moves
  <1>2. \A d \in Caller : d # c => op[d] \in Call /\ op'[d] \in Call
    BY DEF Moves, FsInv, FsTypeOK
  <1>3. \A d \in Caller : {op'[d].inode, op'[d].from} \subseteq Live'
    BY DEF Live
  <1>4. op'[c] = next
    BY DEF Moves
  <1>5. ShapeInv'
    <2>1. ASSUME NEW d \in Caller, d # c PROVE Shape(op'[d])
      <3>1. Shape(op[d]) /\ Sees(op[d], op'[d], i)
        BY <1>1, <2>1 DEF FsInv, ShapeInv
      <3> QED
        BY <1>2, <2>1, <3>1 DEF Shape, Sees
    <2> QED
      BY <1>4, <2>1 DEF ShapeInv
  <1>6. ExactInv'
    <2>1. ASSUME NEW d \in Caller, d # c PROVE Exact(op'[d], data', mixed')
      <3>1. Exact(op[d], data, mixed) /\ Sees(op[d], op'[d], i) /\ Shape(op[d])
        BY <1>1, <2>1 DEF FsInv, ExactInv, ShapeInv
      <3>2. op[d] \in Call /\ op'[d] \in Call
        BY <1>2, <2>1
      <3>3. {op[d].inode, op[d].from} \subseteq Live'
        BY <1>3, <3>1 DEF Sees
      <3>4. ASSUME Writes(op'[d]), op'[d].inode \notin mixed',
                   op'[d].name = "copy" => op'[d].clean
            PROVE  /\ Begins(data'[op'[d].inode], Source(op'[d], data'), op'[d].pos)
                   /\ op'[d].name = "copy" => op'[d].from # op'[d].inode
        <4>1. Writes(op[d]) /\ op[d].inode # i
          BY <2>1, <3>1, <3>4, NoneIsNoInode DEF Sees, Writes, WorksOn
        <4>2. op[d].inode \notin mixed /\ data'[op[d].inode] = data[op[d].inode]
          BY <3>1, <3>3, <3>4, <4>1 DEF Sees, Writes, WorksOn
        <4>3. CASE op[d].name = "write"
          BY <3>1, <4>1, <4>2, <4>3 DEF Sees, Exact, Source
        <4>4. CASE op[d].name = "copy"
          <5>1. op[d].clean /\ op[d].from # i /\ op[d].from \in Inode
            <6>1. op'[d].name = "copy" /\ op'[d].clean
              BY <3>1, <3>4, <4>4 DEF Sees
            <6>2. op[d].clean /\ (i = None \/ i # op[d].from)
              BY <3>1, <6>1 DEF Sees
            <6>3. op[d].at = "chunk"
              BY <3>1, <4>1, <4>4, NoneIsNoInode DEF Shape, Writes
            <6>4. op[d].from \in Inode
              BY <3>1, <4>4, <6>3 DEF Shape
            <6> QED
              BY <6>2, <6>4, NoneIsNoInode
          <5>2. data'[op[d].from] = data[op[d].from]
            BY <3>3, <5>1 DEF WorksOn
          <5> QED
            BY <3>1, <4>1, <4>2, <4>4, <5>1, <5>2 DEF Sees, Exact, Source
        <4> QED
          BY <4>1, <4>3, <4>4 DEF Writes
      <3>5. ASSUME op'[d].name = "read", op'[d].clean
            PROVE  /\ Begins(op'[d].content, data'[op'[d].inode], op'[d].pos)
                   /\ op'[d].at = "done" => op'[d].pos > Len(data'[op'[d].inode])
        <4>1. op[d].clean /\ op[d].inode # i /\ op[d].inode \in Inode
          BY <3>1, <3>5, NoneIsNoInode DEF Sees, Shape, WorksOn
        <4>2. data'[op[d].inode] = data[op[d].inode]
          BY <3>3, <4>1 DEF WorksOn
        <4> QED
          BY <3>1, <3>5, <4>1, <4>2 DEF Sees, Exact
      <3>6. op'[d].at = "stat" /\ op'[d].clean /\ op'[d].from = op'[d].inode =>
                op'[d].size = Len(op'[d].content)
        BY <3>1 DEF Sees, Exact
      <3> QED
        BY <3>4, <3>5, <3>6 DEF Exact
    <2> QED
      BY <1>4, <2>1 DEF ExactInv, Moves
  <1>7. LonelyInv'
    <2>1. ASSUME NEW d \in Caller, NEW e \in Caller, d # e, d # c, e # c,
                 Writes(op'[d]), Writes(op'[e]), op'[d].inode = op'[e].inode
          PROVE  /\ op'[d].inode \in mixed'
                 /\ op'[d].name = "write" => ~op'[d].clean
      <3>1. Sees(op[d], op'[d], i) /\ Sees(op[e], op'[e], i)
        BY <1>1, <2>1
      <3>2. Writes(op[d]) /\ Writes(op[e]) /\ op[d].inode = op[e].inode
        BY <2>1, <3>1 DEF Sees, Writes
      <3>3. op[d].inode \in mixed /\ (op[d].name = "write" => ~op[d].clean)
        BY <2>1, <3>2 DEF FsInv, LonelyInv
      <3>4. op[d].inode \in Live' /\ op[d].inode \in Inode
        BY <1>3, <3>1, <3>2 DEF Sees, Writes
      <3>5. op[d].inode \in mixed'
        BY <2>1, <3>2, <3>3, <3>4, NoneIsNoInode DEF WorksOn
      <3> QED
        BY <3>1, <3>3, <3>5 DEF Sees
    <2>2. ASSUME NEW d \in Caller, d # c, Writes(op'[d]), op'[d].name = "write", op'[d].clean
          PROVE  op'[d].inode \notin mixed'
      <3>1. Sees(op[d], op'[d], i)
        BY <1>1, <2>2
      <3>2. Writes(op[d]) /\ op[d].name = "write" /\ op[d].clean /\ op[d].inode # i
        BY <2>2, <3>1, NoneIsNoInode DEF Sees, Writes, WorksOn
      <3>3. op[d].inode \notin mixed /\ ~(Writes(op[c]) /\ op[d].inode = op[c].inode)
        BY <2>2, <3>2 DEF FsInv, LonelyInv
      <3> QED
        BY <3>1, <3>2, <3>3 DEF Sees, WorksOn
    <2> QED
      BY <2>1, <2>2 DEF LonelyInv, Lonely
  <1>8. RestInv'
    <2> SUFFICES ASSUME NEW j \in Inode, j \in Live', j \notin mixed',
                        \A d \in Caller : ~(Writes(op'[d]) /\ op'[d].inode = j)
                 PROVE  data'[j] \in Content
      BY DEF RestInv, Writers, Writes
    <2>1. j # i /\ j \in Live
      BY NoneIsNoInode DEF WorksOn
    <2>2. CASE Writes(op[c]) /\ op[c].inode = j
      BY <2>2 DEF Leaves
    <2>3. CASE ~(Writes(op[c]) /\ op[c].inode = j)
      <3>1. \A d \in Caller : ~(Writes(op[d]) /\ op[d].inode = j)
        BY <1>1, <2>3 DEF Sees, Writes
      <3>2. j \notin mixed /\ data'[j] = data[j]
        BY <2>1 DEF WorksOn
      <3>3. Writers(j) = {}
        BY <3>1 DEF Writers, Writes
      <3> QED
        BY <2>1, <3>2, <3>3 DEF FsInv, RestInv
    <2> QED
      BY <2>2, <2>3
  <1> QED
    BY <1>5, <1>6, <1>7, <1>8 DEF FsInv

-----------------------------------------------------------------------------
\* Inodes that come into use are those the step names.
LEMMA LiveMoves ==
    ASSUME FsTypeOK, NEW c \in Caller, NEW next, NEW i, Moves(c, next, i), NEW j,
           \A p \in Path : entry'[p] \in Live \cup {j, None},
           {next.inode, next.from} \subseteq Live \cup {j, None}
    PROVE  Live' \cap Inode \subseteq Live \cup {j}
  <1>1. \A d \in Caller : d # c => op'[d].inode = op[d].inode /\ op'[d].from = op[d].from
    BY DEF Moves, Sees
  <1>2. \A d \in Caller : {op'[d].inode, op'[d].from} \subseteq Live \cup {j, None}
    BY <1>1 DEF Moves, Live
  <1> QED
    BY <1>2, NoneIsNoInode DEF Live

\* A step of a call that writes no file, before or after it.
LEMMA QuietStep ==
    ASSUME FsInv, NEW c \in Caller, NEW next \in Call, Moves(c, next, None),
           Settle(data, mixed), dir' \in BOOLEAN, begun' \in Nat,
           entry' \in [Path -> Inode \cup {None}],
           \A p \in Path : entry'[p] \in Live \cup {None},
           {next.inode, next.from} \subseteq Live \cup {None},
           ~Writes(op[c]), ~Writes(next), Shape(next), Exact(next, data, mixed)
    PROVE  FsInv'
  <1>1. FsTypeOK
    BY DEF FsInv
  <1>2. /\ data' \in [Inode -> Seq(Chunk)] /\ mixed' \subseteq mixed
        /\ mixed \cap Live' \subseteq mixed'
        /\ \A i \in Inode \cap Live' : data'[i] = data[i]
    BY <1>1, Settled DEF FsTypeOK
  <1>3. FsTypeOK'
    BY <1>1, <1>2 DEF FsTypeOK, Moves
  <1>4. Live' \cap Inode \subseteq Live \cup {None}
    BY <1>1, LiveMoves
  <1>5. WorksOn(c, None)
    BY <1>2, <1>4 DEF WorksOn
  <1>6. op'[c] = next /\ {next.inode, next.from} \subseteq Live'
    BY DEF Moves, Live
  <1>7. Exact(next, data', mixed')
    BY <1>2, <1>6 DEF Exact, Shape, Writes
  <1> QED
    BY <1>3, <1>5, <1>6, <1>7, StepKeeps DEF Lonely, Leaves

\* What QuietStep asks of a step that leaves the names alone.
LEMMA QuietStepOf ==
    ASSUME FsInv, NEW c \in Caller, NEW next \in Call, op' = [op EXCEPT ![c] = next],
           Settle(data, mixed), dir' \in BOOLEAN, begun' \in Nat, entry' = entry,
           {next.inode, next.from} \subseteq Live \cup {None},
           ~Writes(op[c]), ~Writes(next), Shape(next), Exact(next, data, mixed)
    PROVE  FsInv'
  <1>1. Moves(c, next, None)
    BY GoesMoves DEF FsInv
  <1>2. /\ entry' \in [Path -> Inode \cup {None}]
        /\ \A p \in Path : entry'[p] \in Live \cup {None}
    BY DEF FsInv, FsTypeOK, Live
  <1> QED
    BY <1>1, <1>2, QuietStep

LEMMA IdleCall ==
    /\ Idle \in Call /\ Shape(Idle) /\ ~Writes(Idle)
    /\ \A d, m : Exact(Idle, d, m)
    /\ Idle.inode = None /\ Idle.from = None
  <1>1. Idle \in Call
    BY EmptySeq DEF Idle, Call
  <1> QED
    BY <1>1, NoneIsNoInode DEF Idle, Shape, Writes, Exact

LEMMA ContentChunks == Content \subseteq Seq(Chunk)
  <1> SUFFICES ASSUME NEW s \in Content PROVE s \in Seq(Chunk)
    OBVIOUS
  <1>1. s \in Seq({s[i] : i \in DOMAIN s})
    BY ContentAssumption
  <1>2. {s[i] : i \in DOMAIN s} \subseteq Chunk
    BY DEF Chunk, WrittenChunk
  <1> QED
    BY <1>1, <1>2

-----------------------------------------------------------------------------
\* Calls that begin.
LEMMA BeginKeeps ==
    ASSUME FsInv, NEW c \in Caller, NEW next \in Call, Begin(c, next),
           {next.inode, next.from} \subseteq Live \cup {None},
           ~Writes(next), Shape(next), Exact(next, data, mixed)
    PROVE  FsInv'
  <1>1. /\ op' = [op EXCEPT ![c] = next] /\ Settle(data, mixed)
        /\ entry' = entry /\ dir' \in BOOLEAN /\ begun' \in Nat
    BY DEF Begin, FsInv, FsTypeOK
  <1>2. ~Writes(op[c])
    BY IdleCall DEF Begin
  <1> QED
    BY <1>1, <1>2, QuietStepOf

LEMMA BeginWriteKeeps ==
    ASSUME FsInv, NEW c \in Caller, BeginWrite(c) PROVE FsInv'
  <1>1. PICK p \in Path, s \in Content, over \in BOOLEAN, checked \in BOOLEAN :
           Begin(c, [Idle EXCEPT !.name = "write", !.at = "mkdir", !.path = p,
                                 !.content = s, !.overwrite = over,
                                 !.checked = over \/ checked])
    BY DEF BeginWrite
  <1> DEFINE done == over \/ checked
             next == [Idle EXCEPT !.name = "write", !.at = "mkdir", !.path = p,
                                  !.content = s, !.overwrite = over, !.checked = done]
  <1>2. done \in BOOLEAN
    OBVIOUS
  <1>3. s \in Seq(Chunk)
    BY ContentChunks
  <1>4. Begin(c, next)
    BY <1>1
  <1> HIDE DEF done
  <1>5. /\ next \in Call /\ next.name = "write" /\ next.at = "mkdir" /\ next.path = p
        /\ next.content = s /\ next.inode = None /\ next.from = None /\ next.pos = 1
    BY <1>2, <1>3, IdleCall, ZenonT(60) DEF Call, Idle
  <1> HIDE DEF next
  <1> QED
    BY <1>4, <1>5, BeginKeeps, NoneIsNoInode DEF Shape, Exact, Writes

LEMMA BeginMoveKeeps ==
    ASSUME FsInv, NEW c \in Caller, BeginMove(c) PROVE FsInv'
  <1>1. PICK name \in {"copy", "rename"}, p \in Path, q \in Path :
           Begin(c, [Idle EXCEPT !.name = name, !.at = "mkdir", !.path = p, !.to = q])
    BY DEF BeginMove
  <1> DEFINE next == [Idle EXCEPT !.name = name, !.at = "mkdir", !.path = p, !.to = q]
  <1>2. /\ next \in Call /\ next.name = name /\ next.at = "mkdir" /\ next.path = p
        /\ next.to = q /\ next.inode = None /\ next.from = None /\ next.pos = 1
    BY IdleCall DEF Call, Idle
  <1> HIDE DEF next
  <1> QED
    BY <1>1, <1>2, BeginKeeps, NoneIsNoInode DEF next, Shape, Exact, Writes

LEMMA BeginReadKeeps ==
    ASSUME FsInv, NEW c \in Caller, BeginRead(c) PROVE FsInv'
  <1>1. PICK p \in Present :
           Begin(c, [Idle EXCEPT !.name = "read", !.at = "chunk", !.path = p,
                                 !.inode = entry[p], !.clean = Writers(entry[p]) = {}])
    BY DEF BeginRead
  <1> DEFINE alone == Writers(entry[p]) = {}
             next == [Idle EXCEPT !.name = "read", !.at = "chunk", !.path = p,
                                  !.inode = entry[p], !.clean = alone]
  <1>2. p \in Path /\ entry[p] \in Inode /\ entry[p] \in Live /\ alone \in BOOLEAN
    BY DEF Present, Live, FsInv, FsTypeOK
  <1>3. data[entry[p]] \in Seq(Chunk)
    BY <1>2 DEF FsInv, FsTypeOK
  <1>4. Begin(c, next)
    BY <1>1
  <1> HIDE DEF alone
  <1>5. /\ next \in Call /\ next.name = "read" /\ next.at = "chunk"
        /\ next.content = <<>> /\ next.inode = entry[p] /\ next.from = None
        /\ next.pos = 1
    BY <1>2, IdleCall, ZenonT(60) DEF Call, Idle
  <1> HIDE DEF next
  <1>6. Begins(<<>>, data[entry[p]], 1)
    BY <1>3 DEF Begins
  <1> QED
    BY <1>2, <1>4, <1>5, <1>6, BeginKeeps, NoneIsNoInode DEF Shape, Exact, Writes

LEMMA BeginListKeeps ==
    ASSUME FsInv, NEW c \in Caller, BeginList(c) PROVE FsInv'
  <1>1. PICK max \in MaxResults :
           Begin(c, [Idle EXCEPT !.name = "list", !.at = "entry", !.to = max,
                                 !.left = Present, !.always = Present])
    BY DEF BeginList
  <1> DEFINE next == [Idle EXCEPT !.name = "list", !.at = "entry", !.to = max,
                                  !.left = Present, !.always = Present]
  <1>2. Present \subseteq Path
    BY DEF Present
  <1>3. /\ next \in Call /\ next.name = "list" /\ next.at = "entry"
        /\ next.left = Present /\ next.always = Present /\ next.to = max
        /\ next.inode = None /\ next.from = None
    BY <1>2, IdleCall DEF Call, Idle
  <1>4. Begin(c, next)
    BY <1>1
  <1> HIDE DEF next
  <1> QED
    BY <1>3, <1>4, BeginKeeps, NoneIsNoInode DEF Shape, Exact, Writes

LEMMA BeginRemoveAllKeeps ==
    ASSUME FsInv, NEW c \in Caller, BeginRemoveAll(c) PROVE FsInv'
  <1> DEFINE next == [Idle EXCEPT !.name = "rmdir", !.at = "entry", !.left = Present]
  <1>1. Present \subseteq Path
    BY DEF Present
  <1>2. /\ next \in Call /\ next.name = "rmdir" /\ next.at = "entry"
        /\ next.inode = None /\ next.from = None
    BY <1>1, IdleCall DEF Call, Idle
  <1>3. Begin(c, next)
    BY DEF BeginRemoveAll
  <1> HIDE DEF next
  <1> QED
    BY <1>2, <1>3, BeginKeeps, NoneIsNoInode DEF Shape, Exact, Writes

-----------------------------------------------------------------------------
\* The beginning of a content, chunk by chunk.
LEMMA NextChunk ==
    ASSUME NEW t \in Seq(Chunk), NEW k \in 1..Len(t)
    PROVE  /\ t[k] \in Chunk
           /\ SubSeq(t, 1, k) = Append(SubSeq(t, 1, k - 1), t[k])
           /\ SubSeq(t, 1, k) = WriteAt(SubSeq(t, 1, k - 1), k, t[k])
  BY DEF WriteAt

\* Steps of calls that write no file.
LEMMA EndKeeps ==
    ASSUME FsInv, NEW c \in Caller, op' = [op EXCEPT ![c] = Idle], ~Writes(op[c]),
           entry' = entry, dir' \in BOOLEAN, UNCHANGED begun, Settle(data, mixed)
    PROVE  FsInv'
  <1>1. begun' \in Nat
    BY DEF FsInv, FsTypeOK
  <1> QED
    BY <1>1, IdleCall, QuietStepOf

LEMMA NoWriter ==
    ASSUME FsInv, NEW c \in Caller, op[c].at \in {"mkdir", "open", "done", "entry"}
    PROVE  op[c] \in Call /\ Shape(op[c]) /\ ~Writes(op[c]) /\ Exact(op[c], data, mixed)
           /\ {op[c].inode, op[c].from} \subseteq Live
  BY NoneIsNoInode DEF FsInv, FsTypeOK, ShapeInv, ExactInv, Shape, Writes, Live

LEMMA CreateParentKeeps ==
    ASSUME FsInv, NEW c \in Caller, CreateParent(c), UNCHANGED begun PROVE FsInv'
  <1> DEFINE next == [op[c] EXCEPT !.at = "open"]
  <1>1. op[c].at = "mkdir" /\ dir' = TRUE /\ entry' = entry /\ Settle(data, mixed)
        /\ op' = [op EXCEPT ![c] = next]
    BY DEF CreateParent
  <1>2. op[c] \in Call /\ Shape(op[c]) /\ ~Writes(op[c]) /\ Exact(op[c], data, mixed)
    BY <1>1, NoWriter
  <1>3. /\ next \in Call /\ next.at = "open" /\ next.name = op[c].name
        /\ next.inode = op[c].inode /\ next.from = op[c].from /\ next.path = op[c].path
        /\ next.to = op[c].to /\ next.pos = op[c].pos /\ next.content = op[c].content
    BY <1>2 DEF Call
  <1>4. begun' \in Nat /\ dir' \in BOOLEAN
    BY <1>1 DEF FsInv, FsTypeOK
  <1> HIDE DEF next
  <1> QED
    BY <1>1, <1>2, <1>3, <1>4, QuietStepOf, NoneIsNoInode DEF Shape, Exact, Writes

LEMMA GiveUpKeeps ==
    ASSUME FsInv, NEW c \in Caller, GiveUp(c), UNCHANGED begun PROVE FsInv'
  <1>1. ~Writes(op[c]) /\ dir' \in BOOLEAN
    BY NoWriter DEF GiveUp, FsInv, FsTypeOK
  <1> QED
    BY <1>1, EndKeeps DEF GiveUp

LEMMA ReadChunkKeeps ==
    ASSUME FsInv, NEW c \in Caller, ReadChunk(c), UNCHANGED begun PROVE FsInv'
  <1> DEFINE o == op[c]
             i == op[c].inode
             s == Append(op[c].content, data[op[c].inode][op[c].pos])
             next == [op[c] EXCEPT !.content = s, !.pos = op[c].pos + 1]
  <1>1. /\ o.name = "read" /\ o.at = "chunk" /\ o.pos <= Len(data[i])
        /\ dir' = dir /\ entry' = entry /\ Settle(data, mixed)
    BY DEF ReadChunk, At
  <1>2. op' = [op EXCEPT ![c] = next]
    BY DEF ReadChunk, FsInv, FsTypeOK, Call
  <1>3. o \in Call /\ Shape(o) /\ Exact(o, data, mixed)
    BY DEF FsInv, FsTypeOK, ShapeInv, ExactInv
  <1>4. i \in Inode /\ o.from = None /\ i \in Live /\ ~Writes(o)
    BY <1>1, <1>3 DEF Shape, Live, Writes
  <1>5. /\ data[i] \in Seq(Chunk) /\ o.content \in Seq(Chunk)
        /\ o.pos \in Nat \ {0} /\ o.pos + 1 \in Nat \ {0}
    <2>1. data[i] \in Seq(Chunk)
      BY <1>4 DEF FsInv, FsTypeOK
    <2>2. o.content \in Seq(Chunk) /\ o.pos \in Nat \ {0}
      BY <1>3 DEF Call
    <2> HIDE DEF o, i
    <2> QED
      BY <2>1, <2>2
  <1>6. data[i][o.pos] \in Chunk
    BY <1>1, <1>5
  <1>7. s \in Seq(Chunk)
    BY <1>5, <1>6
  <1>8. ASSUME Begins(o.content, data[i], o.pos) PROVE Begins(s, data[i], o.pos + 1)
    <2>1. o.content = SubSeq(data[i], 1, o.pos - 1)
      BY <1>8 DEF Begins
    <2>2. Len(data[i]) \in Nat /\ o.pos \in 1..Len(data[i])
      BY <1>1, <1>5
    <2>3. s = SubSeq(data[i], 1, o.pos)
      BY <1>5, <2>1, <2>2, NextChunk
    <2>4. o.pos + 1 <= Len(data[i]) + 1 /\ (o.pos + 1) - 1 = o.pos
      BY <1>1, <1>5, <2>2
    <2> QED
      BY <2>3, <2>4 DEF Begins
  <1> HIDE DEF s
  <1>9. /\ next \in Call /\ next.name = "read" /\ next.at = "chunk"
        /\ next.inode = i /\ next.from = None /\ next.content = s
        /\ next.pos = o.pos + 1 /\ next.clean = o.clean
    <2>1. PICK n \in Nat \ {0} : n = o.pos + 1
      BY <1>5
    <2>2. next = [o EXCEPT !.content = s, !.pos = n]
      BY <2>1
    <2> HIDE DEF next, o, i
    <2>3. next.name = o.name /\ next.at = o.at /\ next.from = o.from
          /\ next.inode = o.inode /\ next \in Call /\ next.content = s
          /\ next.pos = n /\ next.clean = o.clean
      BY <1>3, <1>7, <2>1, <2>2, ZenonT(60) DEF Call
    <2> QED
      BY <1>1, <1>4, <2>1, <2>3 DEF i, o
  <1>10. begun' \in Nat /\ dir' \in BOOLEAN
    BY <1>1 DEF FsInv, FsTypeOK
  <1>11. Shape(next) /\ ~Writes(next)
    BY <1>4, <1>9 DEF Shape, Writes
  <1>12. Exact(next, data, mixed)
    BY <1>1, <1>3, <1>8, <1>9, <1>11 DEF Exact
  <1> HIDE DEF next, o, i
  <1> QED
    BY <1>1, <1>2, <1>4, <1>9, <1>10, <1>11, <1>12, QuietStepOf DEF o, i

LEMMA FinishReadKeeps ==
    ASSUME FsInv, NEW c \in Caller, FinishRead(c), UNCHANGED begun PROVE FsInv'
  <1> DEFINE o == op[c]
             next == [op[c] EXCEPT !.at = "done"]
  <1>1. /\ o.name = "read" /\ o.at = "chunk" /\ o.pos > Len(data[o.inode])
        /\ dir' = dir /\ entry' = entry /\ Settle(data, mixed)
        /\ op' = [op EXCEPT ![c] = next]
    BY DEF FinishRead, At
  <1>2. o \in Call /\ Shape(o) /\ Exact(o, data, mixed)
    BY DEF FsInv, FsTypeOK, ShapeInv, ExactInv
  <1>3. o.inode \in Inode /\ o.from = None /\ o.inode \in Live /\ ~Writes(o)
    BY <1>1, <1>2 DEF Shape, Live, Writes
  <1>4. /\ next \in Call /\ next.name = "read" /\ next.at = "done"
        /\ next.inode = o.inode /\ next.from = None /\ next.content = o.content
        /\ next.pos = o.pos /\ next.clean = o.clean
    BY <1>1, <1>2, <1>3, ZenonT(60) DEF Call
  <1>5. begun' \in Nat /\ dir' \in BOOLEAN
    BY <1>1 DEF FsInv, FsTypeOK
  <1>6. Shape(next) /\ ~Writes(next) /\ Exact(next, data, mixed)
    BY <1>1, <1>2, <1>3, <1>4 DEF Shape, Writes, Exact
  <1> HIDE DEF next
  <1> QED
    BY <1>1, <1>3, <1>4, <1>5, <1>6, QuietStepOf

LEMMA ListEntryKeeps ==
    ASSUME FsInv, NEW c \in Caller, ListEntry(c), UNCHANGED begun PROVE FsInv'
  <1> DEFINE o == op[c]
  <1>1. /\ o.name = "list" /\ o.at = "entry"
        /\ dir' = dir /\ entry' = entry /\ Settle(data, mixed)
    BY DEF ListEntry, At
  <1>2. o \in Call /\ Shape(o) /\ ~Writes(o) /\ Exact(o, data, mixed)
    BY <1>1, NoWriter
  <1>3. PICK p \in o.left \cap Present, at \in {"entry", "done"} :
           /\ at = "done" => o.to # None
           /\ op' = [op EXCEPT ![c].listed = o.listed \cup {p}, ![c].left = @ \ {p},
                               ![c].at = at]
    BY <1>1 DEF ListEntry
  <1> DEFINE next == [o EXCEPT !.listed = o.listed \cup {p}, !.left = o.left \ {p},
                               !.at = at]
  <1>4. op' = [op EXCEPT ![c] = next]
    BY <1>2, <1>3 DEF FsInv, FsTypeOK, Call
  <1>5. p \in Path /\ o.inode = None /\ o.from = None
    BY <1>1, <1>2 DEF Present, Shape
  <1>6. /\ next \in Call /\ next.name = "list" /\ next.at = at
        /\ next.inode = None /\ next.from = None /\ next.to = o.to
        /\ next.listed = o.listed \cup {p} /\ next.left = o.left \ {p}
        /\ next.always = o.always
    BY <1>1, <1>2, <1>5 DEF Call
  <1>7. begun' \in Nat /\ dir' \in BOOLEAN
    BY <1>1 DEF FsInv, FsTypeOK
  <1> HIDE DEF next
  <1>8. Shape(next) /\ ~Writes(next) /\ Exact(next, data, mixed)
    BY <1>1, <1>2, <1>3, <1>6, NoneIsNoInode DEF Shape, Writes, Exact
  <1> QED
    BY <1>1, <1>2, <1>4, <1>6, <1>7, <1>8, QuietStepOf

LEMMA ListFailsKeeps ==
    ASSUME FsInv, NEW c \in Caller, ListFails(c), UNCHANGED begun PROVE FsInv'
  <1>1. ~Writes(op[c]) /\ dir' \in BOOLEAN
    BY NoWriter DEF ListFails, At, FsInv, FsTypeOK
  <1> QED
    BY <1>1, EndKeeps DEF ListFails

LEMMA FinishListKeeps ==
    ASSUME FsInv, NEW c \in Caller, FinishList(c), UNCHANGED begun PROVE FsInv'
  <1> DEFINE o == op[c]
             next == [op[c] EXCEPT !.at = "done"]
  <1>1. /\ o.name = "list" /\ o.at = "entry" /\ o.left = {}
        /\ dir' = dir /\ entry' = entry /\ Settle(data, mixed)
        /\ op' = [op EXCEPT ![c] = next]
    BY DEF FinishList, At
  <1>2. o \in Call /\ Shape(o) /\ ~Writes(o) /\ Exact(o, data, mixed)
    BY <1>1, NoWriter
  <1>3. /\ next \in Call /\ next.name = "list" /\ next.at = "done"
        /\ next.inode = None /\ next.from = None /\ next.to = o.to
        /\ next.listed = o.listed /\ next.left = {} /\ next.always = o.always
    BY <1>1, <1>2 DEF Call, Shape
  <1>4. begun' \in Nat /\ dir' \in BOOLEAN
    BY <1>1 DEF FsInv, FsTypeOK
  <1> HIDE DEF next
  <1>5. Shape(next) /\ ~Writes(next) /\ Exact(next, data, mixed)
    BY <1>1, <1>2, <1>3, NoneIsNoInode DEF Shape, Writes, Exact
  <1> QED
    BY <1>1, <1>2, <1>3, <1>4, <1>5, QuietStepOf

LEMMA FinishRemoveAllKeeps ==
    ASSUME FsInv, NEW c \in Caller, FinishRemoveAll(c), UNCHANGED begun PROVE FsInv'
  <1>1. ~Writes(op[c]) /\ dir' \in BOOLEAN
    BY NoWriter DEF FinishRemoveAll, At, FsInv, FsTypeOK
  <1> QED
    BY <1>1, EndKeeps DEF FinishRemoveAll

\* A step that only moves names, with which the call ends or goes on.
LEMMA NamesKeep ==
    ASSUME FsInv, NEW c \in Caller, NEW next \in Call, Proceed(c, next, None),
           entry' \in [Path -> Inode \cup {None}],
           \A p \in Path : entry'[p] \in Live \cup {None},
           UNCHANGED <<dir, begun>>, Settle(data, mixed),
           ~Writes(op[c]), ~Writes(next), Shape(next), next.inode = None,
           next.from = None, Exact(next, data, mixed)
    PROVE  FsInv'
  <1>1. Present' \subseteq Path
    BY DEF Present
  <1>2. Moves(c, next, None)
    BY <1>1, ProceedMoves DEF FsInv
  <1>3. begun' \in Nat /\ dir' \in BOOLEAN
    BY DEF FsInv, FsTypeOK
  <1> QED
    BY <1>2, <1>3, QuietStep

LEMMA RenameKeeps ==
    ASSUME FsInv, NEW c \in Caller, Rename(c), UNCHANGED begun PROVE FsInv'
  <1>1. op[c].at = "open" /\ op[c].name = "rename"
    BY DEF Rename, At
  <1>2. ~Writes(op[c]) /\ Shape(op[c])
    BY <1>1, NoWriter
  <1>3. op[c].path \in Path /\ op[c].to \in Path
    BY <1>1, <1>2 DEF Shape
  <1>4. /\ entry' \in [Path -> Inode \cup {None}]
        /\ \A p \in Path : entry'[p] \in Live \cup {None}
    BY <1>3 DEF Rename, FsInv, FsTypeOK, Live
  <1> QED
    BY <1>2, <1>4, IdleCall, NamesKeep DEF Rename

LEMMA DeleteFileKeeps ==
    ASSUME FsInv, NEW c \in Caller, DeleteFile(c), UNCHANGED begun PROVE FsInv'
  <1>1. ~Writes(op[c])
    BY IdleCall DEF DeleteFile
  <1>2. /\ entry' \in [Path -> Inode \cup {None}]
        /\ \A p \in Path : entry'[p] \in Live \cup {None}
    BY DEF DeleteFile, FsInv, FsTypeOK, Live
  <1> QED
    BY <1>1, <1>2, IdleCall, NamesKeep DEF DeleteFile

LEMMA RemoveEntryKeeps ==
    ASSUME FsInv, NEW c \in Caller, RemoveEntry(c), UNCHANGED begun PROVE FsInv'
  <1> DEFINE o == op[c]
  <1>1. o.name = "rmdir" /\ o.at = "entry" /\ dir' = dir /\ Settle(data, mixed)
    BY DEF RemoveEntry, At
  <1>2. PICK p \in o.left : /\ entry' = [entry EXCEPT ![p] = None]
                            /\ Proceed(c, [o EXCEPT !.left = @ \ {p}], None)
    BY DEF RemoveEntry
  <1> DEFINE next == [o EXCEPT !.left = o.left \ {p}]
  <1>3. o \in Call /\ Shape(o) /\ ~Writes(o) /\ Exact(o, data, mixed)
    BY <1>1, NoWriter
  <1>4. /\ next \in Call /\ next.name = "rmdir" /\ next.at = "entry"
        /\ next.inode = None /\ next.from = None
    BY <1>1, <1>3 DEF Call, Shape
  <1>5. Proceed(c, next, None)
    BY <1>2, <1>3 DEF Call
  <1> HIDE DEF next
  <1>6. Shape(next) /\ ~Writes(next) /\ Exact(next, data, mixed)
    BY <1>4, NoneIsNoInode DEF Shape, Writes, Exact
  <1>7. /\ entry' \in [Path -> Inode \cup {None}]
        /\ \A q \in Path : entry'[q] \in Live \cup {None}
    BY <1>2 DEF FsInv, FsTypeOK, Live
  <1> QED
    BY <1>1, <1>3, <1>4, <1>5, <1>6, <1>7, NamesKeep

LEMMA DirectoryKeeps ==
    ASSUME FsInv, NEW c \in Caller, CreateDirectory(c) \/ RemoveDir(c), UNCHANGED begun
    PROVE  FsInv'
  <1>1. dir' \in BOOLEAN /\ UNCHANGED <<entry, data, mixed, op, begun>>
    BY DEF CreateDirectory, RemoveDir
  <1>2. Live' = Live /\ \A i : Writers(i)' = Writers(i)
    BY <1>1 DEF Live, Writers
  <1> QED
    BY <1>1, <1>2 DEF FsInv, FsTypeOK, ShapeInv, ExactInv, LonelyInv, RestInv

-----------------------------------------------------------------------------
\* Steps of calls that write a file.
LEMMA CallIs ==
    ASSUME FsInv, NEW c \in Caller
    PROVE  /\ op[c] \in Call /\ Shape(op[c]) /\ Exact(op[c], data, mixed)
           /\ {op[c].inode, op[c].from} \subseteq Live
  BY DEF FsInv, FsTypeOK, ShapeInv, ExactInv, Live

\* A step that changes neither a file's content nor a name.
LEMMA MarkStep ==
    ASSUME FsInv, NEW c \in Caller, NEW next \in Call, Moves(c, next, None),
           NEW m \in SUBSET Inode, mixed \subseteq m,
           \A j \in m : j \in mixed \/ (Writes(op[c]) /\ j = op[c].inode),
           Settle(data, m), UNCHANGED <<dir, entry, begun>>,
           {next.inode, next.from} \subseteq Live \cup {None}
    PROVE  /\ FsTypeOK' /\ WorksOn(c, None) /\ op'[c] = next
           /\ {next.inode, next.from} \subseteq Live'
           /\ mixed' \subseteq m /\ m \cap Live' \subseteq mixed'
           /\ \A i \in Inode \cap Live' : data'[i] = data[i]
  <1>1. FsTypeOK
    BY DEF FsInv
  <1>2. /\ data' \in [Inode -> Seq(Chunk)] /\ mixed' \subseteq m
        /\ m \cap Live' \subseteq mixed' /\ mixed' \subseteq Inode
        /\ \A i \in Inode \cap Live' : data'[i] = data[i]
    BY <1>1, Settled DEF FsTypeOK
  <1>3. FsTypeOK'
    BY <1>1, <1>2 DEF FsTypeOK, Moves
  <1>4. \A p \in Path : entry'[p] \in Live \cup {None}
    BY DEF Live
  <1>5. Live' \cap Inode \subseteq Live \cup {None}
    BY <1>1, <1>4, LiveMoves
  <1>6. WorksOn(c, None)
    BY <1>2, <1>5 DEF WorksOn
  <1>7. op'[c] = next /\ {next.inode, next.from} \subseteq Live'
    BY DEF Moves, Live
  <1> QED
    BY <1>2, <1>3, <1>6, <1>7

\* A write that has written all of a file nobody else had.
LEMMA WrittenWhole ==
    ASSUME FsInv, NEW c \in Caller, op[c].name = "write", op[c].inode \in Inode,
           op[c].pos > Len(op[c].content), op[c].inode \notin mixed
    PROVE  data[op[c].inode] = op[c].content /\ op[c].content \in Content
  <1> DEFINE o == op[c]
  <1>1. o.content \in Content /\ Begins(data[o.inode], o.content, o.pos) /\ o \in Call
    BY CallIs DEF Exact, Writes, Source, Shape
  <1>2. o.content \in Seq(Chunk) /\ o.pos \in Nat \ {0}
    BY <1>1 DEF Call
  <1>3. Len(o.content) \in Nat /\ o.pos <= Len(o.content) + 1
    BY <1>1, <1>2 DEF Begins
  <1>4. o.pos - 1 = Len(o.content)
    BY <1>2, <1>3
  <1>5. data[o.inode] = SubSeq(o.content, 1, Len(o.content))
    BY <1>1, <1>4 DEF Begins
  <1> QED
    BY <1>1, <1>2, <1>5, SubSeqFull

LEMMA FinishWriteKeeps ==
    ASSUME FsInv, NEW c \in Caller, FinishWrite(c), UNCHANGED begun PROVE FsInv'
  <1> DEFINE o == op[c]
             i == entry[op[c].path]
             size == IF i = None THEN 0 ELSE Len(data[i])
             next == [op[c] EXCEPT !.at = "stat", !.from = i, !.size = size]
  <1>1. /\ o.name = "write" /\ o.at = "chunk" /\ o.pos > Len(o.content)
        /\ UNCHANGED <<dir, entry>> /\ Settle(data, mixed)
    BY DEF FinishWrite, At
  <1>2. o \in Call /\ Shape(o) /\ Exact(o, data, mixed) /\ o.inode \in Live
    BY CallIs
  <1>3. op' = [op EXCEPT ![c] = next]
    BY <1>2 DEF FinishWrite, Stat, FsInv, FsTypeOK, Call
  <1>4. /\ o.inode \in Inode /\ o.path \in Path /\ i \in Inode \cup {None}
        /\ i \in Live \cup {None} /\ Writes(o)
    BY <1>1, <1>2 DEF Shape, Live, FsInv, FsTypeOK, Writes
  <1>5. size \in Nat
    BY <1>4 DEF FsInv, FsTypeOK
  <1> HIDE DEF size
  <1>6. /\ next \in Call /\ next.name = "write" /\ next.at = "stat"
        /\ next.inode = o.inode /\ next.from = i /\ next.content = o.content
        /\ next.pos = o.pos /\ next.clean = o.clean /\ next.size = size
        /\ next.path = o.path
    BY <1>1, <1>2, <1>4, <1>5 DEF Call
  <1> HIDE DEF next
  <1>7. Moves(c, next, None)
    BY <1>3, <1>6, GoesMoves DEF FsInv
  <1>8. /\ FsTypeOK' /\ WorksOn(c, None) /\ op'[c] = next /\ o.inode \in Live'
        /\ mixed' \subseteq mixed /\ mixed \cap Live' \subseteq mixed'
        /\ \A j \in Inode \cap Live' : data'[j] = data[j]
    BY <1>1, <1>2, <1>4, <1>6, <1>7, MarkStep DEF FsInv, FsTypeOK
  <1>9. Shape(next)
    BY <1>1, <1>2, <1>4, <1>6, NoneIsNoInode DEF Shape
  <1>10. ASSUME o.clean, i = o.inode PROVE size = Len(o.content)
    <2>1. o.inode \notin mixed
      BY <1>1, <1>4, <1>10 DEF FsInv, LonelyInv
    <2>2. data[i] = o.content
      BY <1>1, <1>4, <1>10, <2>1, WrittenWhole
    <2> QED
      BY <1>4, <1>10, <2>2, NoneIsNoInode DEF size
  <1>11. Exact(next, data', mixed')
    BY <1>1, <1>2, <1>4, <1>6, <1>8, <1>10 DEF Exact, Writes, Source
  <1>12. Lonely(c)
    <2>1. \A d \in Caller : d # c => Sees(op[d], op'[d], None)
      BY <1>7 DEF Moves
    <2> QED
      BY <1>1, <1>4, <1>6, <1>8, <2>1 DEF Lonely, FsInv, LonelyInv, Sees, Writes
  <1>13. Leaves(c)
    BY <1>4, <1>6, <1>8 DEF Leaves, Writes
  <1> QED
    BY <1>7, <1>8, <1>9, <1>11, <1>12, <1>13, StepKeeps

\* A write or copy that ends leaves its file whole, or marked.
LEMMA WriterEnds ==
    ASSUME FsInv, NEW c \in Caller, Moves(c, Idle, None), Writes(op[c]),
           NEW m \in SUBSET Inode, mixed \subseteq m, m \subseteq mixed \cup {op[c].inode},
           Settle(data, m), UNCHANGED <<dir, entry, begun>>,
           op[c].inode \in m \/ data[op[c].inode] \in Content
    PROVE  FsInv'
  <1>1. /\ FsTypeOK' /\ WorksOn(c, None) /\ op'[c] = Idle
        /\ m \cap Live' \subseteq mixed'
        /\ \A i \in Inode \cap Live' : data'[i] = data[i]
    BY IdleCall, MarkStep
  <1>2. Lonely(c)
    BY <1>1, IdleCall DEF Lonely
  <1>3. Leaves(c)
    BY <1>1 DEF Leaves, Writes
  <1> QED
    BY <1>1, <1>2, <1>3, IdleCall, StepKeeps

LEMMA ReturnKeeps ==
    ASSUME FsInv, NEW c \in Caller, Return(c), UNCHANGED begun PROVE FsInv'
  <1>1. /\ op' = [op EXCEPT ![c] = Idle] /\ UNCHANGED <<dir, entry>>
        /\ Settle(data, mixed) /\ dir \in BOOLEAN /\ mixed \subseteq Inode
    BY DEF Return, FsInv, FsTypeOK
  <1>2. CASE op[c].at = "done"
    BY <1>1, <1>2, NoWriter, EndKeeps
  <1>3. CASE op[c].at = "stat"
    <2>1. /\ op[c].name = "write" /\ op[c].inode \in Inode
          /\ op[c].pos > Len(op[c].content)
      BY <1>3, CallIs DEF Shape
    <2>2. op[c].inode \in mixed \/ data[op[c].inode] \in Content
      BY <2>1, WrittenWhole
    <2>3. Moves(c, Idle, None)
      BY <1>1, IdleCall, GoesMoves DEF FsInv
    <2> QED
      BY <1>1, <2>1, <2>2, <2>3, WriterEnds DEF Writes
  <1> QED
    BY <1>2, <1>3 DEF Return

LEMMA FailWriteKeeps ==
    ASSUME FsInv, NEW c \in Caller, FailWrite(c), UNCHANGED begun PROVE FsInv'
  <1>1. Writes(op[c])
    BY CallIs DEF FailWrite, Shape, Writes
  <1>2. Present' \subseteq Path
    BY DEF Present
  <1>3. Moves(c, Idle, None)
    BY <1>2, IdleCall, ProceedMoves DEF FailWrite, FsInv
  <1>4. mixed \cup {op[c].inode} \in SUBSET Inode
    BY <1>1 DEF Writes, FsInv, FsTypeOK
  <1> QED
    BY <1>1, <1>3, <1>4, WriterEnds DEF FailWrite

LEMMA FinishCopyKeeps ==
    ASSUME FsInv, NEW c \in Caller, FinishCopy(c), UNCHANGED begun PROVE FsInv'
  <1> DEFINE o == op[c]
             kept == o.clean /\ o.from \notin mixed /\ Writers(o.from) = {}
             m == IF kept THEN mixed ELSE mixed \cup {o.inode}
  <1>1. /\ o.name = "copy" /\ o.at = "chunk" /\ o.pos > Len(data[o.from])
        /\ UNCHANGED <<dir, entry>> /\ Settle(data, m)
    BY DEF FinishCopy, At
  <1>2. o \in Call /\ Shape(o) /\ Exact(o, data, mixed) /\ o.from \in Live
    BY CallIs
  <1>3. Writes(o) /\ o.inode \in Inode /\ o.from \in Inode
    BY <1>1, <1>2 DEF Shape, Writes
  <1>4. Present' \subseteq Path
    BY DEF Present
  <1>5. Moves(c, Idle, None)
    BY <1>4, IdleCall, ProceedMoves DEF FinishCopy, FsInv
  <1>6. m \in SUBSET Inode /\ mixed \subseteq m /\ m \subseteq mixed \cup {o.inode}
    BY <1>3 DEF FsInv, FsTypeOK
  <1>7. ASSUME o.inode \notin m PROVE data[o.inode] \in Content
    <2>1. kept /\ o.inode \notin mixed
      BY <1>7
    <2>2. Begins(data[o.inode], data[o.from], o.pos)
      BY <1>1, <1>2, <1>3, <2>1 DEF Exact, Source
    <2>3. data[o.from] \in Content
      BY <1>2, <1>3, <2>1 DEF FsInv, RestInv
    <2>4. data[o.from] \in Seq(Chunk) /\ o.pos \in Nat \ {0}
      BY <1>2, <1>3 DEF FsInv, FsTypeOK, Call
    <2>5. Len(data[o.from]) \in Nat /\ o.pos <= Len(data[o.from]) + 1
      BY <2>2, <2>4 DEF Begins
    <2>6. o.pos - 1 = Len(data[o.from])
      BY <1>1, <2>4, <2>5
    <2>7. data[o.inode] = SubSeq(data[o.from], 1, Len(data[o.from]))
      BY <2>2, <2>6 DEF Begins
    <2>8. data[o.inode] = data[o.from]
      BY <2>4, <2>7, SubSeqFull
    <2> QED
      BY <2>3, <2>8
  <1> HIDE DEF m
  <1> QED
    BY <1>1, <1>3, <1>5, <1>6, <1>7, WriterEnds

LEMMA WriteAtChunks ==
    ASSUME NEW s \in Seq(Chunk), NEW pos \in Nat \ {0}, NEW chunk \in Chunk
    PROVE  WriteAt(s, pos, chunk) \in Seq(Chunk)
  <1> DEFINE n == IF Len(s) < pos THEN pos ELSE Len(s)
             f == [k \in 1..n |-> IF k = pos THEN chunk ELSE IF k <= Len(s) THEN s[k] ELSE Hole]
  <1>1. Len(s) \in Nat /\ \A k \in 1..Len(s) : s[k] \in Chunk
    OBVIOUS
  <1>2. n \in Nat
    BY <1>1
  <1>3. Hole \in Chunk
    BY DEF Chunk
  <1>4. f \in [1..n -> Chunk]
    BY <1>1, <1>3
  <1>5. f \in Seq(Chunk)
    BY <1>2, <1>4, IsASeq
  <1> QED
    BY <1>5 DEF WriteAt

\* The others that write the file of c are c's companions.
LEMMA Companions ==
    ASSUME NEW c \in Caller, Writes(op[c]),
           NEW i, i = op[c].inode
    PROVE  Writers(i) = {c} <=>
               ~\E d \in Caller : d # c /\ Writes(op[d]) /\ op[d].inode = i
  BY DEF Writers, Writes

LEMMA PutChunkKeeps ==
    ASSUME FsInv, NEW c \in Caller, NEW chunk, PutChunk(c, chunk), UNCHANGED begun,
           op[c].at = "chunk", op[c].name \in {"write", "copy"},
           op[c].pos \in 1..Len(Source(op[c], data)),
           chunk = Source(op[c], data)[op[c].pos]
    PROVE  FsInv'
  <1> DEFINE o == op[c]
             i == o.inode
             src == Source(o, data)
             next == [o EXCEPT !.pos = o.pos + 1]
             alone == o.clean /\ Writers(i) = {c}
             m == IF alone THEN mixed ELSE mixed \cup {i}
             d == [data EXCEPT ![i] = WriteAt(data[i], o.pos, chunk)]
  <1>1. /\ o \in Call /\ Shape(o) /\ Exact(o, data, mixed)
        /\ i \in Live /\ o.from \in Live
    BY CallIs
  <1>2. /\ i \in Inode /\ Writes(o)
        /\ o.name = "copy" => o.from \in Inode
        /\ o.name = "write" => o.content \in Content /\ o.from = None
    BY <1>1 DEF Shape, Writes
  <1>3. src \in Seq(Chunk) /\ o.pos \in Nat \ {0} /\ data[i] \in Seq(Chunk)
    BY <1>1, <1>2 DEF Source, FsInv, FsTypeOK, Call
  <1>4. chunk \in Chunk
    BY <1>3
  <1>5. d \in [Inode -> Seq(Chunk)]
    BY <1>2, <1>3, <1>4, WriteAtChunks DEF FsInv, FsTypeOK
  <1>6. /\ next \in Call /\ next.name = o.name /\ next.at = "chunk" /\ next.inode = i
        /\ next.from = o.from /\ next.pos = o.pos + 1 /\ next.content = o.content
        /\ next.clean = o.clean /\ next.path = o.path
    <2>1. o.pos + 1 \in Nat \ {0}
      BY <1>3
    <2> QED
      BY <1>1, <2>1 DEF Call
  <1>7. Proceed(c, next, i) /\ UNCHANGED <<dir, entry>> /\ Settle(d, m)
    <2>1. next = [op[c] EXCEPT !.pos = @ + 1]
      BY <1>1 DEF Call
    <2>2. d = [data EXCEPT ![op[c].inode] = WriteAt(@, op[c].pos, chunk)]
      BY <1>2 DEF FsInv, FsTypeOK
    <2> QED
      BY <2>1, <2>2 DEF PutChunk
  <1>8. m \in SUBSET Inode /\ mixed \subseteq m /\ m \subseteq mixed \cup {i}
    BY <1>2 DEF FsInv, FsTypeOK
  <1> HIDE DEF d, m, next
  <1>9. /\ data' \in [Inode -> Seq(Chunk)] /\ mixed' \subseteq Inode
        /\ mixed' \subseteq m /\ m \cap Live' \subseteq mixed'
        /\ \A j \in Inode \cap Live' : data'[j] = d[j]
    BY <1>5, <1>7, <1>8, Settled
  <1>10. Moves(c, next, i)
    <2>1. Present' \subseteq Path
      BY DEF Present
    <2> QED
      BY <1>6, <1>7, <2>1, ProceedMoves DEF FsInv
  <1>11. FsTypeOK'
    BY <1>7, <1>9, <1>10 DEF FsInv, FsTypeOK, Moves
  <1>12. op'[c] = next /\ i \in Live' /\ o.from \in Live'
    BY <1>6, <1>10 DEF Moves, Live
  <1>13. Live' \cap Inode \subseteq Live \cup {i}
    <2>1. \A p \in Path : entry'[p] \in Live \cup {i, None}
      BY <1>7 DEF Live
    <2>2. {next.inode, next.from} \subseteq Live \cup {i, None}
      BY <1>1, <1>6
    <2> QED
      BY <1>10, <2>1, <2>2, LiveMoves DEF FsInv
  <1>14. \A j \in Inode : j # i => d[j] = data[j]
    BY DEF d, FsInv, FsTypeOK
  <1>15. d[i] = WriteAt(data[i], o.pos, chunk)
    BY <1>2 DEF d, FsInv, FsTypeOK
  <1>16. /\ i \notin mixed' => alone /\ i \notin mixed
         /\ alone => m = mixed
    BY <1>2, <1>8, <1>9, <1>12 DEF m
  <1>17. alone <=> o.clean /\ ~\E e \in Caller : e # c /\ Writes(op[e]) /\ op[e].inode = i
    BY <1>2, Companions
  <1> HIDE DEF alone
  <1>18. WorksOn(c, i)
    <2>1. \A j \in Inode \cap Live' : j # i =>
             data'[j] = data[j] /\ (j \in mixed => j \in mixed')
      BY <1>8, <1>9, <1>14
    <2>2. \A j \in mixed' : j \in mixed \/ j = i
      BY <1>8, <1>9
    <2>3. Writes(op'[c]) /\ op'[c].inode = i
      BY <1>2, <1>6, <1>12 DEF Writes
    <2> QED
      BY <1>2, <1>13, <1>16, <1>17, <2>1, <2>2, <2>3 DEF WorksOn
  <1>19. Shape(next)
    BY <1>1, <1>2, <1>6 DEF Shape
  <1>20. Exact(next, data', mixed')
    <2>1. ASSUME i \notin mixed', o.name = "copy" => o.clean
          PROVE  /\ Begins(data'[i], Source(next, data'), next.pos)
                 /\ o.name = "copy" => o.from # i
      <3>1. /\ Begins(data[i], src, o.pos)
            /\ o.name = "copy" => o.from # i
        BY <1>1, <1>2, <1>16, <2>1 DEF Exact
      <3>2. Source(next, data') = src
        BY <1>2, <1>6, <1>9, <1>12, <1>14, <3>1 DEF Source
      <3>3. data[i] = SubSeq(src, 1, o.pos - 1)
        BY <3>1 DEF Begins
      <3>4. o.pos \in 1..Len(src) /\ chunk = src[o.pos]
        OBVIOUS
      <3> HIDE DEF src
      <3>5. WriteAt(data[i], o.pos, chunk) = SubSeq(src, 1, o.pos)
        BY <1>3, <3>3, <3>4, NextChunk
      <3>6. o.pos + 1 <= Len(src) + 1 /\ (o.pos + 1) - 1 = o.pos
        BY <1>3, <3>4
      <3>7. data'[i] = SubSeq(src, 1, o.pos)
        BY <1>2, <1>9, <1>12, <1>15, <3>5
      <3> QED
        BY <1>6, <3>1, <3>2, <3>6, <3>7 DEF Begins
    <2> QED
      BY <1>6, <2>1 DEF Exact
  <1>21. Lonely(c)
    <2>1. ASSUME NEW e \in Caller, e # c, Writes(op'[e]), op'[e].inode = i
          PROVE  /\ i \in mixed' /\ (o.name = "write" => ~o.clean) /\ ~op'[e].clean
      <3>1. Sees(op[e], op'[e], i)
        BY <1>10, <2>1 DEF Moves
      <3>2. Writes(op[e]) /\ op[e].inode = i
        BY <2>1, <3>1 DEF Sees, Writes
      <3>3. i \in mixed'
        BY <1>16, <1>17, <2>1, <3>2
      <3>4. o.name = "write" => ~o.clean
        BY <1>2, <2>1, <3>2 DEF FsInv, LonelyInv
      <3>5. ~op'[e].clean
        BY <1>2, <3>1, <3>2, NoneIsNoInode DEF Sees
      <3> QED
        BY <3>3, <3>4, <3>5
    <2>2. ASSUME o.name = "write", o.clean PROVE i \notin mixed'
      <3>1. i \notin mixed /\ alone
        BY <1>2, <1>17, <2>2 DEF FsInv, LonelyInv
      <3> QED
        BY <1>9, <1>16, <3>1
    <2> QED
      BY <1>6, <1>12, <2>1, <2>2 DEF Lonely
  <1>22. Leaves(c)
    BY <1>2, <1>6, <1>12 DEF Leaves, Writes
  <1> QED
    BY <1>10, <1>11, <1>18, <1>19, <1>20, <1>21, <1>22, StepKeeps

LEMMA WriteChunkKeeps ==
    ASSUME FsInv, NEW c \in Caller, WriteChunk(c), UNCHANGED begun PROVE FsInv'
  <1>1. op[c].content \in Seq(Chunk) /\ op[c].pos \in Nat \ {0}
    BY CallIs DEF Call
  <1> QED
    BY <1>1, PutChunkKeeps DEF WriteChunk, At, Source

LEMMA CopyChunkKeeps ==
    ASSUME FsInv, NEW c \in Caller, CopyChunk(c), UNCHANGED begun PROVE FsInv'
  <1>1. op[c].from \in Inode /\ op[c].pos \in Nat \ {0}
    BY CallIs DEF CopyChunk, At, Shape, Call
  <1>2. data[op[c].from] \in Seq(Chunk)
    BY <1>1 DEF FsInv, FsTypeOK
  <1> QED
    BY <1>1, <1>2, PutChunkKeeps DEF CopyChunk, At, Source

LEMMA EmptyBegins == ASSUME NEW t \in Seq(Chunk) PROVE Begins(<<>>, t, 1)
  BY DEF Begins

LEMMA OpenKeeps ==
    ASSUME FsInv, NEW c \in Caller, NEW p \in Path, NEW to \in Call,
           OpenForWriting(c, p, to), UNCHANGED begun, ~Writes(op[c]),
           to.at = "chunk", to.name \in {"write", "copy"}, to.pos = 1,
           IF to.name = "copy" THEN to.from \in Inode \cap Live ELSE to.from = None,
           to.name = "write" => to.content \in Content /\ to.path \in Path
    PROVE  FsInv'
  <1> DEFINE i == IF entry[p] = None THEN Fresh ELSE entry[p]
             alone == Writers(i) = {}
             next == [to EXCEPT !.inode = i, !.clean = alone]
             shared == ~alone \/ to.from = i
             m == IF shared THEN mixed \cup {i} ELSE mixed \ {i}
             d == [data EXCEPT ![i] = <<>>]
  <1>1. i \in Inode
    BY FreshIsNew DEF FsInv, FsTypeOK
  <1>2. /\ Proceed(c, next, i) /\ entry' = [entry EXCEPT ![p] = i]
        /\ dir' = dir /\ Settle(d, m)
    BY DEF OpenForWriting
  <1> HIDE DEF i
  <1>3. alone \in BOOLEAN /\ (alone <=> ~\E e \in Caller : Writes(op[e]) /\ op[e].inode = i)
    BY <1>1 DEF Writers, Writes
  <1> HIDE DEF alone
  <1>4. /\ next \in Call /\ next.name = to.name /\ next.at = "chunk" /\ next.inode = i
        /\ next.from = to.from /\ next.pos = 1 /\ next.content = to.content
        /\ next.clean = alone /\ next.path = to.path
    BY <1>1, <1>3 DEF Call
  <1>5. d \in [Inode -> Seq(Chunk)] /\ d[i] = <<>> /\ \A j \in Inode : j # i => d[j] = data[j]
    BY <1>1, EmptySeq DEF FsInv, FsTypeOK
  <1>6. /\ m \in SUBSET Inode /\ m \subseteq mixed \cup {i} /\ mixed \ {i} \subseteq m
        /\ (shared => i \in m) /\ (~shared => i \notin m)
    BY <1>1 DEF FsInv, FsTypeOK
  <1> HIDE DEF d, m, next
  <1>7. /\ data' \in [Inode -> Seq(Chunk)] /\ mixed' \subseteq Inode
        /\ mixed' \subseteq m /\ m \cap Live' \subseteq mixed'
        /\ \A j \in Inode \cap Live' : data'[j] = d[j]
    BY <1>2, <1>5, <1>6, Settled
  <1>8. Moves(c, next, i)
    <2>1. Present' \subseteq Path
      BY DEF Present
    <2> QED
      BY <1>2, <1>4, <2>1, ProceedMoves DEF FsInv
  <1>9. FsTypeOK'
    BY <1>1, <1>2, <1>7, <1>8 DEF FsInv, FsTypeOK, Moves
  <1>10. op'[c] = next /\ i \in Live' /\ to.from \in Live' /\ Writes(next)
    BY <1>1, <1>4, <1>8 DEF Moves, Live, Writes
  <1>11. Live' \cap Inode \subseteq Live \cup {i}
    <2>1. \A q \in Path : entry'[q] \in Live \cup {i, None}
      BY <1>2 DEF Live, FsInv, FsTypeOK
    <2>2. {next.inode, next.from} \subseteq Live \cup {i, None}
      BY <1>4
    <2> QED
      BY <1>8, <2>1, <2>2, LiveMoves DEF FsInv
  <1>12. shared <=> i \in mixed'
    BY <1>1, <1>6, <1>7, <1>10
  <1>13. WorksOn(c, i)
    <2>1. \A j \in Inode \cap Live' : j # i =>
             data'[j] = data[j] /\ (j \in mixed => j \in mixed')
      BY <1>5, <1>6, <1>7
    <2>2. \A j \in mixed' : j \in mixed \/ j = i
      BY <1>6, <1>7
    <2> QED
      BY <1>1, <1>3, <1>4, <1>10, <1>11, <1>12, <2>1, <2>2 DEF WorksOn
  <1>14. Shape(next)
    BY <1>1, <1>4 DEF Shape
  <1>15. Exact(next, data', mixed')
    <2>1. Source(next, data') \in Seq(Chunk)
      BY <1>4, <1>7, ContentChunks DEF Source
    <2>2. data'[i] = <<>>
      BY <1>1, <1>5, <1>7, <1>10
    <2>3. Begins(data'[i], Source(next, data'), 1)
      BY <2>1, <2>2, EmptyBegins
    <2>4. i \notin mixed' => to.from # i
      BY <1>12
    <2> QED
      BY <1>4, <2>3, <2>4 DEF Exact
  <1>16. Lonely(c)
    <2>1. ASSUME NEW e \in Caller, e # c, Writes(op'[e]), op'[e].inode = i
          PROVE  i \in mixed' /\ ~alone /\ ~op'[e].clean
      <3>1. Sees(op[e], op'[e], i)
        BY <1>8, <2>1 DEF Moves
      <3>2. Writes(op[e]) /\ op[e].inode = i
        BY <2>1, <3>1 DEF Sees, Writes
      <3> QED
        BY <1>1, <1>3, <1>12, <3>1, <3>2, NoneIsNoInode DEF Sees
    <2>2. ASSUME to.name = "write", alone PROVE i \notin mixed'
      BY <1>1, <1>12, <2>2, NoneIsNoInode
    <2> QED
      BY <1>4, <1>10, <2>1, <2>2 DEF Lonely
  <1> QED
    BY <1>8, <1>9, <1>13, <1>14, <1>15, <1>16, StepKeeps DEF Leaves

LEMMA CreateFileKeeps ==
    ASSUME FsInv, NEW c \in Caller, CreateFile(c), UNCHANGED begun PROVE FsInv'
  <1> DEFINE to == [op[c] EXCEPT !.at = "chunk"]
  <1>1. /\ op[c].name = "write" /\ op[c].at = "open"
        /\ OpenForWriting(c, op[c].path, to)
    BY DEF CreateFile, At
  <1>2. op[c] \in Call /\ Shape(op[c]) /\ ~Writes(op[c])
    BY <1>1, NoWriter
  <1>3. /\ to \in Call /\ to.at = "chunk" /\ to.name = "write" /\ to.pos = op[c].pos
        /\ to.from = op[c].from /\ to.content = op[c].content /\ to.path = op[c].path
    BY <1>1, <1>2 DEF Call
  <1> HIDE DEF to
  <1>4. /\ op[c].path \in Path /\ to.pos = 1 /\ to.from = None
        /\ to.content \in Content /\ to.path \in Path
    BY <1>1, <1>2, <1>3 DEF Shape
  <1> QED
    BY <1>1, <1>2, <1>3, <1>4, OpenKeeps

LEMMA OpenCopyKeeps ==
    ASSUME FsInv, NEW c \in Caller, OpenCopy(c), UNCHANGED begun PROVE FsInv'
  <1> DEFINE from == entry[op[c].path]
             to == [op[c] EXCEPT !.at = "chunk", !.from = from]
  <1>1. /\ op[c].name = "copy" /\ op[c].at = "open" /\ from # None
        /\ OpenForWriting(c, op[c].to, to)
    BY DEF OpenCopy, At
  <1>2. op[c] \in Call /\ Shape(op[c]) /\ ~Writes(op[c])
    BY <1>1, NoWriter
  <1>3. /\ op[c].path \in Path /\ op[c].to \in Path /\ op[c].pos = 1
    BY <1>1, <1>2 DEF Shape
  <1>4. from \in Inode \cap Live
    BY <1>1, <1>3 DEF FsInv, FsTypeOK, Live
  <1>5. /\ to \in Call /\ to.at = "chunk" /\ to.name = "copy" /\ to.pos = 1
        /\ to.from = from
    BY <1>1, <1>2, <1>3, <1>4 DEF Call
  <1> HIDE DEF to
  <1> QED
    BY <1>1, <1>2, <1>3, <1>4, <1>5, OpenKeeps

-----------------------------------------------------------------------------
LEMMA InitHolds == FsInit => FsInv
  <1> SUFFICES ASSUME FsInit PROVE FsInv
    OBVIOUS
  <1>1. \A c \in Caller : op[c] = Idle
    BY DEF FsInit
  <1>2. FsTypeOK
    BY IdleCall, EmptySeq DEF FsInit, FsTypeOK
  <1>3. Live \cap Inode = {}
    BY <1>1, IdleCall, NoneIsNoInode DEF Live, FsInit
  <1> QED
    BY <1>1, <1>2, <1>3, IdleCall DEF FsInv, ShapeInv, ExactInv, LonelyInv, RestInv

LEMMA StepHolds == FsInv /\ [FsNext]_fsVars => FsInv'
  <1> SUFFICES ASSUME FsInv, [FsNext]_fsVars PROVE FsInv'
    OBVIOUS
  <1>1. CASE UNCHANGED fsVars
    <2>1. UNCHANGED <<dir, entry, data, mixed, op, begun>>
      BY <1>1 DEF fsVars
    <2>2. Live' = Live /\ \A i : Writers(i)' = Writers(i)
      BY <2>1 DEF Live, Writers
    <2> QED
      BY <2>1, <2>2 DEF FsInv, FsTypeOK, ShapeInv, ExactInv, LonelyInv, RestInv
  <1>2. ASSUME NEW c \in Caller, FsBegin(c) PROVE FsInv'
    BY <1>2, BeginWriteKeeps, BeginMoveKeeps, BeginReadKeeps, BeginListKeeps,
       BeginRemoveAllKeeps DEF FsBegin
  <1>3. ASSUME NEW c \in Caller, FsStep(c), UNCHANGED begun PROVE FsInv'
    BY <1>3, CreateParentKeeps, CreateFileKeeps, WriteChunkKeeps, FinishWriteKeeps,
       FailWriteKeeps, ReturnKeeps, OpenCopyKeeps, CopyChunkKeeps, FinishCopyKeeps,
       RenameKeeps, GiveUpKeeps, DeleteFileKeeps, ReadChunkKeeps, FinishReadKeeps,
       ListEntryKeeps, ListFailsKeeps, FinishListKeeps, DirectoryKeeps,
       RemoveEntryKeeps, FinishRemoveAllKeeps DEF FsStep
  <1> QED
    BY <1>1, <1>2, <1>3 DEF FsNext

\* The invariant from which the rest follows: an inode that is not mixed has
\* one writer and the beginning of what it writes, or none and a content.
THEOREM FsInvariant == FsSpec => []FsInv
  BY InitHolds, StepHolds, PTL DEF FsSpec

\* A stored file is one content from the first chunk to the last, while calls
\* interleave at every await of write, copy, rename and delete, unless calls
\* overlapped on it, one failed, or it was copied to itself.
THEOREM FilesAreWhole == FsSpec => []WholeAtRest
  <1>1. FsInv => WholeAtRest
    BY DEF FsInv, RestInv, FsTypeOK, WholeAtRest, Present, Live
  <1> QED
    BY <1>1, FsInvariant, PTL

\* The size that write reports, and the bytes that read returns, are the
\* file's, when the call had the file to itself.
THEOREM AloneCallsAreExact == FsSpec => []AloneIsExact
  <1>1. ASSUME FsInv PROVE AloneIsExact
    <2> SUFFICES ASSUME NEW c \in Caller, op[c].clean
                 PROVE  /\ At(c, "write", "stat") /\ op[c].from = op[c].inode =>
                              op[c].size = Len(op[c].content)
                        /\ At(c, "read", "done") => op[c].content = data[op[c].inode]
      BY DEF AloneIsExact
    <2> DEFINE o == op[c]
               s == data[o.inode]
    <2>1. o \in Call /\ Shape(o) /\ Exact(o, data, mixed)
      BY <1>1, CallIs
    <2>2. ASSUME o.name = "read", o.at = "done" PROVE o.content = s
      <3>1. Begins(o.content, s, o.pos) /\ o.pos > Len(s)
        BY <2>1, <2>2 DEF Exact
      <3>2. s \in Seq(Chunk) /\ o.pos \in Nat \ {0}
        BY <1>1, <2>1, <2>2 DEF Shape, Call, FsInv, FsTypeOK
      <3> HIDE DEF s
      <3>3. Len(s) \in Nat /\ o.pos <= Len(s) + 1
        BY <3>1, <3>2 DEF Begins
      <3>4. o.pos - 1 = Len(s)
        BY <3>1, <3>2, <3>3
      <3>5. o.content = SubSeq(s, 1, Len(s))
        BY <3>1, <3>4 DEF Begins
      <3> QED
        BY <3>2, <3>5, SubSeqFull
    <2> QED
      BY <2>1, <2>2 DEF Exact, At
  <1> QED
    BY <1>1, FsInvariant, PTL

\* A listing that returns without a limit has met every file that was there
\* from read_dir to its end; a file that went meanwhile fails it.
THEOREM ListingsAreComplete == FsSpec => []ListComplete
  <1>1. ASSUME FsInv PROVE ListComplete
    BY <1>1, CallIs DEF ListComplete, Shape, At
  <1> QED
    BY <1>1, FsInvariant, PTL
=============================================================================
