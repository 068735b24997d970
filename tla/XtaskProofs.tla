----------------------------- MODULE XtaskProofs -----------------------------
(***************************************************************************)
(* Proofs about Publish and Workspace, for any crates, paths, versions,    *)
(* contents, requests and commands.                                        *)
(*                                                                         *)
(* Publish. ChecksumIsServed is not inductive: the index that is not       *)
(* committed yet must be honest too, and while a run goes on every crate   *)
(* that is still to be packaged must have a placeholder for its version, in *)
(* the index once it is registered and in what is committed after the first *)
(* commit. DependenciesFirst needs Kahn's algorithm as well: what the queue, *)
(* the sorted crates and the crates still waiting are after every round.   *)
(*                                                                         *)
(* Workspace. RenameKeepsPaths needs what a rename leaves between the      *)
(* directory it moved and the Cargo.toml it has not written, and that      *)
(* str::replace does to an unambiguous path what fs::rename did to it.     *)
(***************************************************************************)
EXTENDS Publish, Workspace, FiniteSetTheorems, SequenceTheorems, WellFoundedInduction, TLAPS

-----------------------------------------------------------------------------
\* A set of numbers that has 0, and with a number the next, has all.
LEMMA Induction ==
    ASSUME NEW S, 0 \in S, \A n \in Nat : n \in S => n + 1 \in S
    PROVE  Nat \subseteq S
  <1> DEFINE R == {ss \in Nat \X Nat : ss[1] < ss[2]}
             T == Nat \ S
  <1>1. IsWellFoundedOn(R, Nat)
    BY NatLessThanWellFounded DEF OpToRel
  <1>2. \A m, n \in Nat : m < n => <<m, n>> \in R
    OBVIOUS
  <1> HIDE DEF R
  <1>3. SUFFICES ASSUME T # {} PROVE FALSE
    OBVIOUS
  <1>4. T \subseteq Nat
    OBVIOUS
  <1>5. \E x \in T : \A y \in T : <<y, x>> \notin R
    <2> HIDE DEF T
    <2> QED
      BY <1>1, <1>3, <1>4, WFMin
  <1>6. PICK x \in T : \A y \in T : <<y, x>> \notin R
    BY <1>5
  <1>7. x - 1 \in T /\ x - 1 < x
    OBVIOUS
  <1> QED
    BY <1>2, <1>6, <1>7

LEMMA LeastExists ==
    ASSUME NEW T \in SUBSET Nat, T # {}
    PROVE  \E k \in T : \A j \in T : k <= j
  <1> DEFINE R == {ss \in Nat \X Nat : ss[1] < ss[2]}
  <1>1. IsWellFoundedOn(R, Nat)
    BY NatLessThanWellFounded DEF OpToRel
  <1>2. \A j, k \in Nat : j < k => <<j, k>> \in R
    OBVIOUS
  <1> HIDE DEF R
  <1>3. PICK k \in T : \A j \in T : <<j, k>> \notin R
    BY <1>1, WFMin
  <1>4. ASSUME NEW j \in T PROVE k <= j
    <2>1. j \in Nat /\ k \in Nat /\ ~(j < k)
      BY <1>2, <1>3
    <2> QED
      BY <2>1
  <1> QED
    BY <1>4

\* A function given by its start and its step.
Iterates(f, start, step, n) ==
    \A k \in 0..n : f[k] = IF k = 0 THEN start ELSE step[f[k - 1]]

LEMMA Recursion ==
    ASSUME NEW S, NEW start \in S, NEW step \in [S -> S], NEW n \in Nat
    PROVE  \E f \in [0..n -> S] : Iterates(f, start, step, n)
  <1> DEFINE Runs(f, m) == \A k \in 0..m : f[k] = IF k = 0 THEN start ELSE step[f[k - 1]]
             I == {m \in Nat : \E f \in [0..m -> S] : Runs(f, m)}
  <1>1. 0 \in I
    <2>1. [k \in 0..0 |-> start] \in [0..0 -> S] /\ Runs([k \in 0..0 |-> start], 0)
      OBVIOUS
    <2> HIDE DEF Runs
    <2> QED
      BY <2>1
  <1>2. ASSUME NEW m \in Nat, m \in I PROVE m + 1 \in I
    <2>1. PICK f \in [0..m -> S] : Runs(f, m)
      BY <1>2
    <2> DEFINE g == [k \in 0..m + 1 |-> IF k <= m THEN f[k] ELSE step[f[m]]]
    <2>2. g \in [0..m + 1 -> S]
      OBVIOUS
    <2>3. Runs(g, m + 1)
      <3> SUFFICES ASSUME NEW k \in 0..m + 1
                   PROVE  g[k] = IF k = 0 THEN start ELSE step[g[k - 1]]
        OBVIOUS
      <3>1. CASE k <= m
        BY <3>1, <2>1
      <3>2. CASE k = m + 1
        BY <3>2
      <3> QED
        BY <3>1, <3>2
    <2> HIDE DEF Runs, g
    <2> QED
      BY <2>2, <2>3
  <1> HIDE DEF I
  <1>3. n \in I
    BY <1>1, <1>2, Induction
  <1>4. PICK f \in [0..n -> S] : Runs(f, n)
    BY <1>3 DEF I
  <1> QED
    BY <1>4 DEF Iterates

-----------------------------------------------------------------------------
Increasing(s, n) == \A i, j \in 1..n : i < j => s[i] < s[j]

LEMMA SortedExists ==
    ASSUME NEW S \in SUBSET Nat, IsFiniteSet(S)
    PROVE  \E s \in [1..Cardinality(S) -> S] : Increasing(s, Cardinality(S))
  <1> DEFINE I == {n \in Nat : \A T \in SUBSET Nat : IsFiniteSet(T) /\ Cardinality(T) = n
                      => \E s \in [1..n -> T] : Increasing(s, n)}
  <1>1. 0 \in I
    <2> SUFFICES ASSUME NEW T PROVE \E s \in [1..0 -> T] : Increasing(s, 0)
      OBVIOUS
    <2>1. [i \in 1..0 |-> 0] \in [1..0 -> T] /\ Increasing([i \in 1..0 |-> 0], 0)
      BY DEF Increasing
    <2> QED
      BY <2>1
  <1>2. ASSUME NEW n \in Nat, n \in I PROVE n + 1 \in I
    <2> SUFFICES ASSUME NEW T \in SUBSET Nat, IsFiniteSet(T), Cardinality(T) = n + 1
                 PROVE  \E s \in [1..n + 1 -> T] : Increasing(s, n + 1)
      OBVIOUS
    <2>1. T # {}
      BY FS_EmptySet
    <2>2. PICK a \in T : \A b \in T : a <= b
      BY <2>1, LeastExists
    <2> DEFINE U == T \ {a}
    <2>3. U \in SUBSET Nat /\ IsFiniteSet(U) /\ Cardinality(U) = n
      <3>1. a \in T /\ Cardinality(T) = n + 1 /\ n + 1 - 1 = n
        OBVIOUS
      <3>2. IsFiniteSet(T \ {a}) /\ Cardinality(T \ {a}) = Cardinality(T) - 1
        BY <3>1, FS_RemoveElement, Zenon
      <3> QED
        BY <3>1, <3>2
    <2>4. PICK s \in [1..n -> U] : Increasing(s, n)
      BY <1>2, <2>3
    <2>5. \A i \in 1..n : s[i] \in Nat /\ a < s[i]
      <3> SUFFICES ASSUME NEW i \in 1..n PROVE s[i] \in Nat /\ a < s[i]
        OBVIOUS
      <3>1. s[i] \in T /\ s[i] # a
        BY <2>4
      <3>2. s[i] \in Nat /\ a \in Nat /\ a <= s[i]
        BY <2>2, <3>1
      <3> QED
        BY <3>1, <3>2
    <2> DEFINE u == [i \in 1..n + 1 |-> IF i = 1 THEN a ELSE s[i - 1]]
    <2>6. u \in [1..n + 1 -> T]
      BY <2>4
    <2>7. Increasing(u, n + 1)
      BY <2>4, <2>5 DEF Increasing
    <2> HIDE DEF u
    <2> QED
      BY <2>6, <2>7
  <1> HIDE DEF I
  <1>3. Cardinality(S) \in I
    BY <1>1, <1>2, Induction, FS_CardinalityType
  <1> QED
    BY <1>3 DEF I

\* The names of a finite set, sorted, are those of the set, each once.
LEMMA SortedNames ==
    ASSUME NEW S \in SUBSET Nat, IsFiniteSet(S), NEW s, s = Sorted(S)
    PROVE  /\ s \in Seq(S) /\ Lines(s) = S
           /\ \A i, j \in DOMAIN s : i # j => s[i] # s[j]
  <1> DEFINE n == Cardinality(S)
  <1>0. n \in Nat
    BY FS_CardinalityType
  <1>1. s \in [1..n -> S] /\ Increasing(s, n)
    <2>1. \E q \in [1..n -> S] : \A i, j \in 1..n : i < j => q[i] < q[j]
      BY SortedExists DEF Increasing
    <2>2. s = CHOOSE q \in [1..n -> S] : \A i, j \in 1..n : i < j => q[i] < q[j]
      BY DEF Sorted
    <2> HIDE DEF n
    <2> QED
      BY <2>1, <2>2 DEF Increasing
  <1> HIDE DEF n
  <1>2. \A i, j \in 1..n : i # j => s[i] # s[j]
    <2> SUFFICES ASSUME NEW i \in 1..n, NEW j \in 1..n, i < j PROVE s[i] # s[j]
      BY <1>0
    <2>1. s[i] < s[j] /\ s[i] \in Nat
      BY <1>1 DEF Increasing
    <2> QED
      BY <2>1
  <1>3. s \in Injection(1..n, S)
    BY <1>1, <1>2 DEF Injection, IsInjective
  <1>4. IsFiniteSet(1..n) /\ Cardinality(1..n) = n
    BY <1>0, FS_Interval
  <1>5. s \in Surjection(1..n, S)
    BY <1>3, <1>4, FS_Injection DEF n
  <1> QED
    <2>1. DOMAIN s = 1..n /\ s \in Seq(S)
      BY <1>0, <1>1
    <2>2. \A x \in S : \E i \in 1..n : s[i] = x
      BY <1>5 DEF Surjection
    <2>3. Lines(s) = S
      BY <1>1, <2>1, <2>2 DEF Lines
    <2> QED
      BY <1>2, <2>1, <2>3

-----------------------------------------------------------------------------
Distinct(s) == \A i, j \in DOMAIN s : i # j => s[i] # s[j]

LEMMA SeqOfSubset ==
    ASSUME NEW C, NEW S \in SUBSET C, NEW s \in Seq(S) PROVE s \in Seq(C)
  <1>1. Len(s) \in Nat /\ s \in [1..Len(s) -> S]
    OBVIOUS
  <1>2. s \in [1..Len(s) -> C]
    BY <1>1
  <1> QED
    BY <1>1, <1>2

LEMMA AppendLines ==
    ASSUME NEW C, NEW s \in Seq(C), NEW c \in C
    PROVE  /\ Append(s, c) \in Seq(C) /\ Lines(Append(s, c)) = Lines(s) \cup {c}
           /\ Distinct(s) /\ c \notin Lines(s) => Distinct(Append(s, c))
  <1>1. /\ Append(s, c) \in Seq(C) /\ Len(s) \in Nat
        /\ DOMAIN Append(s, c) = 1..Len(s) + 1 /\ DOMAIN s = 1..Len(s)
        /\ Append(s, c)[Len(s) + 1] = c
        /\ \A k \in 1..Len(s) : Append(s, c)[k] = s[k]
    OBVIOUS
  <1> DEFINE a == Append(s, c)
  <1> HIDE DEF a
  <1>2. Lines(a) = Lines(s) \cup {c}
    BY <1>1 DEF Lines, a
  <1>3. Distinct(s) /\ c \notin Lines(s) => Distinct(a)
    BY <1>1 DEF Lines, Distinct, a
  <1> QED
    BY <1>1, <1>2, <1>3 DEF a

LEMMA JoinedLines ==
    ASSUME NEW C, NEW s \in Seq(C), NEW q \in Seq(C)
    PROVE  /\ s \o q \in Seq(C) /\ Lines(s \o q) = Lines(s) \cup Lines(q)
           /\ Distinct(s) /\ Distinct(q) /\ Lines(s) \cap Lines(q) = {} => Distinct(s \o q)
  <1> DEFINE m == Len(s)
             n == Len(q)
             a == s \o q
  <1>1. /\ a \in Seq(C) /\ m \in Nat /\ n \in Nat
        /\ DOMAIN a = 1..m + n /\ DOMAIN s = 1..m /\ DOMAIN q = 1..n
        /\ \A k \in 1..m : a[k] = s[k]
        /\ \A k \in 1..n : a[m + k] = q[k]
        /\ \A k \in 1..m + n : k > m => a[k] = q[k - m]
    OBVIOUS
  <1> HIDE DEF m, n, a
  <1>2. \A k \in 1..m + n : k \in 1..m \/ (k > m /\ k - m \in 1..n)
    BY <1>1
  <1>3. Lines(a) = Lines(s) \cup Lines(q)
    <2>1. Lines(s) \subseteq Lines(a)
      BY <1>1 DEF Lines
    <2>2. Lines(q) \subseteq Lines(a)
      <3> SUFFICES ASSUME NEW k \in 1..n PROVE q[k] \in Lines(a)
        BY <1>1 DEF Lines
      <3>1. m + k \in 1..m + n
        BY <1>1
      <3> QED
        BY <1>1, <3>1 DEF Lines
    <2>3. Lines(a) \subseteq Lines(s) \cup Lines(q)
      BY <1>1, <1>2 DEF Lines
    <2> QED
      BY <2>1, <2>2, <2>3
  <1>4. ASSUME Distinct(s), Distinct(q), Lines(s) \cap Lines(q) = {} PROVE Distinct(a)
    <2> SUFFICES ASSUME NEW i \in 1..m + n, NEW j \in 1..m + n, i < j PROVE a[i] # a[j]
      BY <1>1 DEF Distinct
    <2>1. CASE j <= m
      BY <2>1, <1>1, <1>2, <1>4 DEF Distinct
    <2>2. CASE i > m
      <3>1. i - m \in 1..n /\ j - m \in 1..n /\ i - m # j - m
        BY <2>2, <1>1
      <3>2. a[i] = q[i - m] /\ a[j] = q[j - m]
        BY <2>2, <1>1
      <3>3. q[i - m] # q[j - m]
        BY <3>1, <1>1, <1>4, Zenon DEF Distinct
      <3> QED
        BY <3>2, <3>3
    <2>3. CASE i <= m /\ j > m
      <3>1. i \in 1..m /\ j - m \in 1..n /\ a[i] = s[i] /\ a[j] = q[j - m]
        BY <2>3, <1>1
      <3>2. s[i] \in Lines(s) /\ q[j - m] \in Lines(q)
        BY <3>1, <1>1 DEF Lines
      <3> QED
        BY <3>1, <3>2, <1>4
    <2> QED
      BY <2>1, <2>2, <2>3, <1>1
  <1> QED
    BY <1>1, <1>3, <1>4 DEF a

LEMMA HeadLines ==
    ASSUME NEW C, NEW q \in Seq(C), q # <<>>, Distinct(q)
    PROVE  /\ Head(q) \in C /\ Tail(q) \in Seq(C) /\ Distinct(Tail(q))
           /\ Lines(q) = {Head(q)} \cup Lines(Tail(q))
           /\ Head(q) \notin Lines(Tail(q))
  <1> DEFINE n == Len(q)
             r == Tail(q)
  <1>1. /\ n \in Nat /\ n > 0 /\ DOMAIN q = 1..n
        /\ Head(q) \in C /\ Head(q) = q[1]
        /\ r \in Seq(C) /\ DOMAIN r = 1..n - 1
        /\ \A k \in 1..n - 1 : r[k] = q[k + 1]
    BY HeadTailProperties
  <1> HIDE DEF n, r
  <1>2. \A k \in 1..n : k = 1 \/ (k - 1 \in 1..n - 1 /\ r[k - 1] = q[k])
    BY <1>1
  <1>3. \A k \in 1..n - 1 : k + 1 \in 1..n /\ k + 1 # 1
    BY <1>1
  <1>4. Lines(q) = {Head(q)} \cup Lines(r)
    <2>1. Lines(q) \subseteq {Head(q)} \cup Lines(r)
      BY <1>1, <1>2 DEF Lines
    <2>2. \A k \in 1..n - 1 : r[k] \in Lines(q)
      BY <1>1, <1>3 DEF Lines
    <2>3. Head(q) \in Lines(q)
      <3>1. 1 \in 1..n
        BY <1>1
      <3> QED
        BY <1>1, <3>1 DEF Lines
    <2> QED
      BY <1>1, <2>1, <2>2, <2>3 DEF Lines
  <1>5. Head(q) \notin Lines(r)
    <2>1. ASSUME NEW k \in 1..n - 1 PROVE r[k] # q[1]
      <3>1. k + 1 \in 1..n /\ k + 1 # 1 /\ 1 \in 1..n
        BY <1>1
      <3>2. q[k + 1] # q[1]
        BY <3>1, <1>1, Zenon DEF Distinct
      <3> QED
        BY <3>2, <1>1
    <2> QED
      BY <1>1, <2>1 DEF Lines
  <1>6. Distinct(r)
    <2> SUFFICES ASSUME NEW i \in 1..n - 1, NEW j \in 1..n - 1, i # j PROVE r[i] # r[j]
      BY <1>1 DEF Distinct
    <2>1. i + 1 \in 1..n /\ j + 1 \in 1..n /\ i + 1 # j + 1
      BY <1>1
    <2>2. q[i + 1] # q[j + 1]
      BY <2>1, <1>1, Zenon DEF Distinct
    <2> QED
      BY <2>2, <1>1
  <1> QED
    BY <1>1, <1>4, <1>5, <1>6 DEF r

\* What Kahn's algorithm has done: no crate twice, every crate after those it
\* depends on, and in the queue the crates that wait for none.
KahnState(C) == [queue : Seq(C), sorted : Seq(C)]

InSortedOrder(C, s) ==
    \A i \in DOMAIN s : \A d \in WorkspaceDeps(C) :
        d.from = s[i] => \E j \in DOMAIN s : j < i /\ s[j] = d.to

KahnInv(C, q) ==
    /\ q \in KahnState(C)
    /\ Distinct(q.queue) /\ Distinct(q.sorted)
    /\ Lines(q.queue) \cap Lines(q.sorted) = {}
    /\ InSortedOrder(C, q.sorted)
    /\ \A c \in C : Waiting(C, c, Lines(q.sorted)) = {}
                      <=> c \in Lines(q.queue) \cup Lines(q.sorted)

LEMMA KahnStarts ==
    ASSUME NEW C \in SUBSET Nat, IsFiniteSet(C) PROVE KahnInv(C, KahnStart(C))
  <1> DEFINE S == {c \in C : Waiting(C, c, {}) = {}}
  <1>1. PICK s : s = Sorted(S)
    OBVIOUS
  <1>2. S \in SUBSET Nat /\ S \in SUBSET C /\ IsFiniteSet(S)
    BY FS_Subset
  <1> HIDE DEF S
  <1>3. s \in Seq(S) /\ Lines(s) = S /\ Distinct(s)
    BY <1>1, <1>2, SortedNames DEF Distinct
  <1>4. s \in Seq(C)
    BY <1>2, <1>3, SeqOfSubset
  <1>5. KahnStart(C) = [queue |-> s, sorted |-> <<>>]
    BY <1>1 DEF KahnStart, S
  <1>6. PICK e : e = <<>>
    OBVIOUS
  <1>7. e \in Seq(C) /\ DOMAIN e = {}
    BY <1>6
  <1>8. Lines(e) = {} /\ Distinct(e) /\ InSortedOrder(C, e)
    BY <1>7 DEF Lines, Distinct, InSortedOrder
  <1>9. \A c \in C : Waiting(C, c, {}) = {} <=> c \in Lines(s)
    BY <1>3 DEF S
  <1>10. PICK q : q = [queue |-> s, sorted |-> e]
    OBVIOUS
  <1>11. q \in KahnState(C) /\ q.queue = s /\ q.sorted = e
    BY <1>4, <1>7, <1>10 DEF KahnState
  <1>12. KahnInv(C, q)
    BY <1>3, <1>8, <1>9, <1>11 DEF KahnInv
  <1> QED
    BY <1>5, <1>6, <1>10, <1>12

LEMMA KahnSteps ==
    ASSUME NEW C \in SUBSET Nat, IsFiniteSet(C), NEW q, KahnInv(C, q)
    PROVE  /\ KahnInv(C, KahnStep(C, q))
           /\ KahnStep(C, q).sorted = IF q.queue = <<>> THEN q.sorted
                                      ELSE Append(q.sorted, Head(q.queue))
  <1>1. CASE q.queue = <<>>
    BY <1>1 DEF KahnStep
  <1>2. CASE q.queue # <<>>
    <2> DEFINE done == Lines(q.sorted)
    <2>1. PICK c, rest : c = Head(q.queue) /\ rest = Tail(q.queue)
      OBVIOUS
    <2> DEFINE S == FreedBy(C, c, done)
    <2>2. PICK s : s = Sorted(S)
      OBVIOUS
    <2>3. /\ q.queue \in Seq(C) /\ q.sorted \in Seq(C) /\ Distinct(q.queue)
          /\ Distinct(q.sorted) /\ Lines(q.queue) \cap done = {}
          /\ InSortedOrder(C, q.sorted)
          /\ \A e \in C : Waiting(C, e, done) = {} <=> e \in Lines(q.queue) \cup done
      BY DEF KahnInv, KahnState
    <2>4. /\ c \in C /\ rest \in Seq(C) /\ Distinct(rest)
          /\ Lines(q.queue) = {c} \cup Lines(rest) /\ c \notin Lines(rest)
      BY <1>2, <2>1, <2>3, HeadLines
    <2>5. S \in SUBSET Nat /\ S \in SUBSET C
      BY DEF FreedBy
    <2>6. IsFiniteSet(S)
      BY <2>5, FS_Subset
    <2>7. \A e \in C : e \in S <=> /\ Waiting(C, e, done) # {}
                                   /\ Waiting(C, e, done \cup {c}) = {}
      BY DEF FreedBy
    <2> HIDE DEF S, done
    <2>8. s \in Seq(S) /\ Lines(s) = S /\ Distinct(s)
      BY <2>2, <2>5, <2>6, SortedNames DEF Distinct
    <2>9. s \in Seq(C)
      BY <2>5, <2>8, SeqOfSubset
    <2>10. Lines(rest) \cap Lines(s) = {} /\ c \notin S /\ S \cap done = {}
      BY <2>3, <2>4, <2>5, <2>7, <2>8
    <2>11. /\ rest \o s \in Seq(C) /\ Distinct(rest \o s)
           /\ Lines(rest \o s) = Lines(rest) \cup S
      BY <2>4, <2>8, <2>9, <2>10, JoinedLines
    <2>12. c \notin done
      BY <2>3, <2>4
    <2>13. PICK t : t = Append(q.sorted, c)
      OBVIOUS
    <2>14. t \in Seq(C) /\ Distinct(t) /\ Lines(t) = done \cup {c}
      BY <2>3, <2>4, <2>12, <2>13, AppendLines DEF done
    <2>15. InSortedOrder(C, t)
      <3>1. /\ DOMAIN t = 1..Len(q.sorted) + 1 /\ DOMAIN q.sorted = 1..Len(q.sorted)
            /\ Len(q.sorted) \in Nat /\ t[Len(q.sorted) + 1] = c
            /\ \A k \in 1..Len(q.sorted) : t[k] = q.sorted[k]
        BY <2>3, <2>4, <2>13
      <3> SUFFICES ASSUME NEW i \in DOMAIN t, NEW d \in WorkspaceDeps(C), d.from = t[i]
                   PROVE  \E j \in DOMAIN t : j < i /\ t[j] = d.to
        BY DEF InSortedOrder
      <3>2. CASE i \in 1..Len(q.sorted)
        <4>1. PICK j \in 1..Len(q.sorted) : j < i /\ q.sorted[j] = d.to
          BY <2>3, <3>1, <3>2 DEF InSortedOrder
        <4> QED
          BY <3>1, <4>1
      <3>3. CASE i = Len(q.sorted) + 1
        <4>1. d \notin Waiting(C, c, done)
          BY <2>3, <2>4
        <4>2. d.to \in done
          BY <3>1, <3>3, <4>1 DEF Waiting
        <4>3. PICK j \in 1..Len(q.sorted) : q.sorted[j] = d.to
          BY <3>1, <4>2 DEF done, Lines
        <4> QED
          BY <3>1, <3>3, <4>3
      <3> QED
        BY <3>1, <3>2, <3>3
    <2>16. ASSUME NEW e \in C
           PROVE  Waiting(C, e, done \cup {c}) = {}
                    <=> e \in Lines(rest) \cup S \cup done \cup {c}
      <3>1. Waiting(C, e, done \cup {c}) \subseteq Waiting(C, e, done)
        BY DEF Waiting
      <3> QED
        BY <3>1, <2>3, <2>4, <2>7
    <2>17. PICK r : r = [queue |-> rest \o s, sorted |-> t]
      OBVIOUS
    <2>18. r \in KahnState(C) /\ r.queue = rest \o s /\ r.sorted = t
      BY <2>11, <2>14, <2>17 DEF KahnState
    <2>19. Lines(r.queue) \cap Lines(r.sorted) = {}
      BY <2>3, <2>4, <2>10, <2>11, <2>14, <2>18
    <2>20. KahnInv(C, r)
      BY <2>11, <2>14, <2>15, <2>16, <2>18, <2>19 DEF KahnInv
    <2>21. KahnStep(C, q) = r
      BY <1>2, <2>1, <2>2, <2>13, <2>17 DEF KahnStep, S, done
    <2> QED
      BY <1>2, <2>1, <2>13, <2>18, <2>20, <2>21
  <1> QED
    BY <1>1, <1>2

\* The loop runs until the queue is empty or all crates are sorted.
LEMMA KahnRuns ==
    ASSUME NEW names \in Seq(Crate), NEW C, C = Lines(names)
    PROVE  \E q : /\ KahnInv(C, q) /\ TopologicalSort(names) = q.sorted
                  /\ q.queue = <<>> \/ Len(q.sorted) = Cardinality(C)
  <1> DEFINE N == Cardinality(C)
             Runs(f) == f = [n \in 0..N |->
                                IF n = 0 THEN KahnStart(C) ELSE KahnStep(C, f[n - 1])]
             Good(q, k) == KahnInv(C, q) /\ (q.queue = <<>> \/ Len(q.sorted) = k)
  <1>1. /\ C \in SUBSET Nat /\ IsFiniteSet(C) /\ N \in Nat
    <2>1. C \in SUBSET Nat
      <3>1. \A k \in DOMAIN names : names[k] \in Crate
        OBVIOUS
      <3> QED
        BY <3>1, CrateAssumption DEF Lines
    <2>2. Len(names) \in Nat /\ names \in [1..Len(names) -> C] /\ DOMAIN names = 1..Len(names)
      BY DEF Lines
    <2>3. names \in Surjection(1..Len(names), C)
      BY <2>2 DEF Surjection, Lines
    <2>4. IsFiniteSet(1..Len(names))
      BY <2>2, FS_Interval
    <2>5. IsFiniteSet(C)
      BY <2>3, <2>4, FS_Surjection
    <2> QED
      BY <2>1, <2>5, FS_CardinalityType
  <1> HIDE DEF N
  <1>2. \E f : Runs(f)
    <2> DEFINE S == {q \in KahnState(C) : KahnInv(C, q)}
               step == [q \in S |-> KahnStep(C, q)]
    <2>1. KahnStart(C) \in S
      BY <1>1, KahnStarts DEF KahnInv
    <2>2. step \in [S -> S]
      BY <1>1, KahnSteps DEF KahnInv
    <2>3. \A q \in S : step[q] = KahnStep(C, q)
      OBVIOUS
    <2> HIDE DEF S, step
    <2>4. PICK f \in [0..N -> S] :
             \A k \in 0..N : f[k] = IF k = 0 THEN KahnStart(C) ELSE step[f[k - 1]]
      <3>1. PICK start \in S, n \in Nat : start = KahnStart(C) /\ n = N
        BY <1>1, <2>1
      <3>2. \E f \in [0..n -> S] : Iterates(f, start, step, n)
        BY <2>2, Recursion, Zenon
      <3> QED
        BY <3>1, <3>2 DEF Iterates
    <2>5. \A k \in 0..N : f[k] = IF k = 0 THEN KahnStart(C) ELSE KahnStep(C, f[k - 1])
      <3> SUFFICES ASSUME NEW k \in 0..N, k # 0
                   PROVE  step[f[k - 1]] = KahnStep(C, f[k - 1])
        BY <2>4
      <3>1. k - 1 \in 0..N
        BY <1>1
      <3>2. f[k - 1] \in S
        BY <2>4, <3>1
      <3> QED
        BY <2>3, <3>2
    <2> QED
      BY <2>4, <2>5
  <1>3. PICK kahn : /\ Runs(kahn) /\ TopologicalSort(names) = kahn[N].sorted
    <2> DEFINE kahn == CHOOSE f : Runs(f)
    <2>1. Runs(kahn)
      BY <1>2
    <2>2. TopologicalSort(names) = kahn[N].sorted
      BY DEF TopologicalSort, N
    <2> HIDE DEF Runs
    <2> QED
      BY <2>1, <2>2
  <1> DEFINE I == {k \in Nat : k <= N => Good(kahn[k], k)}
  <1>4. 0 \in I
    <2>1. kahn[0] = KahnStart(C)
      BY <1>1, <1>3
    <2>2. KahnStart(C).sorted = <<>>
      BY DEF KahnStart
    <2> QED
      BY <1>1, <2>1, <2>2, KahnStarts
  <1>5. ASSUME NEW k \in Nat, k \in I PROVE k + 1 \in I
    <2> SUFFICES ASSUME k + 1 <= N PROVE Good(kahn[k + 1], k + 1)
      OBVIOUS
    <2> DEFINE q == kahn[k]
    <2>1. kahn[k + 1] = KahnStep(C, q)
      BY <1>1, <1>3
    <2>2. KahnInv(C, q) /\ (q.queue = <<>> \/ Len(q.sorted) = k)
      BY <1>1, <1>5
    <2> HIDE DEF q
    <2>3. KahnInv(C, KahnStep(C, q))
          /\ KahnStep(C, q).sorted = IF q.queue = <<>> THEN q.sorted
                                     ELSE Append(q.sorted, Head(q.queue))
      BY <1>1, <2>2, KahnSteps
    <2>4. CASE q.queue = <<>>
      BY <2>1, <2>2, <2>4 DEF KahnStep
    <2>5. CASE q.queue # <<>>
      <3>1. q.sorted \in Seq(C) /\ q.queue \in Seq(C) /\ Head(q.queue) \in C
        BY <2>2, <2>5 DEF KahnInv, KahnState
      <3>2. Len(Append(q.sorted, Head(q.queue))) = k + 1
        BY <2>2, <2>5, <3>1
      <3> QED
        BY <2>1, <2>3, <2>5, <3>2
    <2> QED
      BY <2>4, <2>5
  <1> HIDE DEF I
  <1>6. N \in I
    BY <1>1, <1>4, <1>5, Induction
  <1>7. Good(kahn[N], N)
    BY <1>1, <1>6 DEF I
  <1> QED
    BY <1>3, <1>7 DEF N

\* topological_sort puts no crate in twice, and a crate after those it needs.
THEOREM SortOrders ==
    ASSUME NEW names \in Seq(Crate), NEW s, s = TopologicalSort(names)
    PROVE  /\ s \in Seq(Lines(names)) /\ Distinct(s)
           /\ InSortedOrder(Lines(names), s)
  BY KahnRuns DEF KahnInv, KahnState

\* It gets all crates sorted, if their dependencies go round in no circle: what
\* is refused is a request with a cycle, or with a crate named twice.
THEOREM SortCompletes ==
    ASSUME NEW names \in Seq(Crate), NEW rank \in [Crate -> Nat],
           \A d \in WorkspaceDeps(Lines(names)) : rank[d.to] < rank[d.from]
    PROVE  Lines(TopologicalSort(names)) = Lines(names)
  <1> DEFINE C == Lines(names)
  <1>0. C \subseteq Crate
    BY DEF Lines
  <1>1. PICK q : /\ KahnInv(C, q) /\ TopologicalSort(names) = q.sorted
                 /\ q.queue = <<>> \/ Len(q.sorted) = Cardinality(C)
    BY KahnRuns
  <1>2. /\ q.sorted \in Seq(C) /\ Distinct(q.sorted) /\ Len(q.sorted) \in Nat
        /\ DOMAIN q.sorted = 1..Len(q.sorted)
        /\ \A c \in C : Waiting(C, c, Lines(q.sorted)) = {}
                      => c \in Lines(q.queue) \cup Lines(q.sorted)
    BY <1>1 DEF KahnInv, KahnState
  <1>3. Lines(q.sorted) \subseteq C
    BY <1>2 DEF Lines
  <1>4. CASE q.queue = <<>>
    <2> SUFFICES ASSUME C \ Lines(q.sorted) # {} PROVE FALSE
      BY <1>1, <1>3
    <2>1. Lines(q.queue) = {}
      <3>1. DOMAIN q.queue = {}
        BY <1>4
      <3> QED
        BY <3>1 DEF Lines
    <2> DEFINE R == {rank[c] : c \in C \ Lines(q.sorted)}
    <2>2. R \in SUBSET Nat /\ R # {}
      BY <1>0
    <2>3. PICK c \in C \ Lines(q.sorted) : \A e \in C \ Lines(q.sorted) : rank[c] <= rank[e]
      <3> HIDE DEF R
      <3>1. PICK k \in R : \A j \in R : k <= j
        BY <2>2, LeastExists
      <3> QED
        BY <3>1 DEF R
    <2>4. PICK d \in WorkspaceDeps(C) : d.from = c /\ d.to \notin Lines(q.sorted)
      BY <1>2, <2>1 DEF Waiting
    <2>5. d.to \in C
      BY DEF WorkspaceDeps
    <2>6. rank[d.to] < rank[c] /\ rank[c] <= rank[d.to]
      BY <2>3, <2>4, <2>5
    <2>7. rank[c] \in Nat /\ rank[d.to] \in Nat
      BY <1>0, <2>5
    <2> QED
      BY <2>6, <2>7
  <1>5. CASE Len(q.sorted) = Cardinality(C)
    <2>1. q.sorted \in [1..Len(q.sorted) -> C]
      BY <1>2
    <2>2. q.sorted \in Injection(1..Len(q.sorted), C)
      BY <1>2, <2>1 DEF Injection, IsInjective, Distinct
    <2>3. IsFiniteSet(C)
      <3>1. Len(names) \in Nat /\ names \in [1..Len(names) -> C] /\ DOMAIN names = 1..Len(names)
        BY DEF Lines
      <3>2. names \in Surjection(1..Len(names), C)
        BY <3>1 DEF Surjection, Lines
      <3> QED
        BY <3>1, <3>2, FS_Surjection, FS_Interval
    <2>4. Cardinality(1..Len(q.sorted)) = Len(q.sorted)
      BY <1>2, FS_Interval
    <2>5. q.sorted \in Surjection(1..Len(q.sorted), C)
      BY <2>2, <2>3, <2>4, <1>5, FS_Injection
    <2>6. \A c \in C : \E k \in DOMAIN q.sorted : q.sorted[k] = c
      BY <2>5, <1>2 DEF Surjection
    <2> HIDE DEF C
    <2> QED
      BY <1>1, <1>3, <2>6 DEF Lines, C
  <1> QED
    BY <1>1, <1>4, <1>5
-----------------------------------------------------------------------------
\* The checksums in a file of crate c are those of the files served.
Honest(file, c) ==
    \A k \in DOMAIN file : \/ file[k].cksum = Placeholder
                           \/ served[c][file[k].vers] = file[k].cksum

\* A file has nothing but a placeholder for a version.
Stub(file, v) == \A k \in DOMAIN file : file[k].vers = v => file[k].cksum = Placeholder

InOrder(k) == k \in DOMAIN run.order
Vers(k) == source[run.order[k]].vers

RunInv ==
    /\ run.at = "idle" => run = Idle
    /\ run.at # "idle" => run.order # <<>>
    /\ run.at \in {"package", "copy", "index", "commit"} => InOrder(run.next)
    /\ run.next >= 1
    /\ \A i, j \in DOMAIN run.order : i # j => run.order[i] # run.order[j]

\* Crate k of the run has been registered and not packaged yet.
Registered(k) ==
    \/ run.at = "register" /\ k < run.next
    \/ run.at = "package" /\ k >= run.next
    \/ run.at \in {"copy", "index"} /\ k >= run.next
    \/ run.at = "commit" /\ k > run.next

StubInv ==
    \A k \in DOMAIN run.order : Registered(k) =>
        /\ Stub(index[run.order[k]], Vers(k))
        /\ run.at # "register" => Stub(committed[run.order[k]], Vers(k))

\* The file of the crate that is being published is complete.
CopiedInv ==
    run.at \in {"index", "commit"} => served[run.order[run.next]][Vers(run.next)] = run.body

HonestInv == \A c \in Crate : Honest(index[c], c) /\ Honest(committed[c], c)

IInv == PublishTypeOK /\ RunInv /\ StubInv /\ CopiedInv /\ HonestInv

-----------------------------------------------------------------------------
\* upsert_entry gives a well typed file, whose lines are those of the file or
\* the entry, and the entry alone for its version.
LEMMA UpsertType ==
    ASSUME NEW file \in Seq(Line), NEW e \in Line
    PROVE  UpsertEntry(file, e) \in Seq(Line)
  BY DEF UpsertEntry

LEMMA UpsertLines ==
    ASSUME NEW file \in Seq(Line), NEW e \in Line, NEW k \in DOMAIN UpsertEntry(file, e)
    PROVE  \/ UpsertEntry(file, e)[k] = e
           \/ /\ k \in DOMAIN file /\ UpsertEntry(file, e)[k] = file[k]
              /\ file[k].vers # e.vers
  BY DEF UpsertEntry

LEMMA LineType ==
    ASSUME NEW v \in Version, NEW b \in Body \cup {Placeholder}
    PROVE  /\ [vers |-> v, cksum |-> b] \in Line
           /\ [vers |-> v, cksum |-> b].vers = v
           /\ [vers |-> v, cksum |-> b].cksum = b
  BY DEF Line

\* What Current and the entry stand for while a run is at a crate.
LEMMA AtCrate ==
    ASSUME PublishTypeOK, InOrder(run.next)
    PROVE  /\ Current \in Crate
           /\ source[Current].vers \in Version /\ source[Current].body \in Body
           /\ Current = run.order[run.next] /\ Vers(run.next) = source[Current].vers
           /\ index[Current] \in Seq(Line)
  BY DEF PublishTypeOK, Current, InOrder, Run, Vers

\* The changes the steps make to the run.
LEMMA RunGoesOn ==
    ASSUME NEW r \in Run
    PROVE  LET s == [r EXCEPT !.next = @ + 1]
           IN  /\ s \in Run /\ s.order = r.order
               /\ s.at = r.at /\ s.next = r.next + 1 /\ s.body = r.body
  BY DEF Run

LEMMA RunToPackage ==
    ASSUME NEW r \in Run
    PROVE  LET s == [r EXCEPT !.at = "package", !.next = 1]
           IN  /\ s \in Run /\ s.order = r.order
               /\ s.at = "package" /\ s.next = 1 /\ s.body = r.body
  BY DEF Run

LEMMA RunToCopy ==
    ASSUME NEW r \in Run, NEW b \in Body
    PROVE  LET s == [r EXCEPT !.at = "copy", !.body = b]
           IN  /\ s \in Run /\ s.order = r.order
               /\ s.at = "copy" /\ s.next = r.next /\ s.body = b
  BY DEF Run

LEMMA RunToIndex ==
    ASSUME NEW r \in Run
    PROVE  LET s == [r EXCEPT !.at = "index"]
           IN  /\ s \in Run /\ s.order = r.order
               /\ s.at = "index" /\ s.next = r.next /\ s.body = r.body
  BY DEF Run

LEMMA RunToCommit ==
    ASSUME NEW r \in Run
    PROVE  LET s == [r EXCEPT !.at = "commit"]
           IN  /\ s \in Run /\ s.order = r.order
               /\ s.at = "commit" /\ s.next = r.next /\ s.body = r.body
  BY DEF Run

\* A run that has ended is in the state before any.
LEMMA EndedRun ==
    ASSUME run' = Idle
    PROVE  Idle \in Run /\ run'.at = "idle" /\ RunInv' /\ StubInv' /\ CopiedInv'
  BY DEF Idle, Run, RunInv, StubInv, CopiedInv, Registered

LEMMA LeftType == ASSUME PublishTypeOK PROVE Left \subseteq Crate \X Version
  BY DEF PublishTypeOK, Left, Run

THEOREM Initially == PublishInit => IInv
  <1> SUFFICES ASSUME PublishInit PROVE IInv
    OBVIOUS
  <1>1. PublishTypeOK
    BY RunAssumption DEF PublishInit, PublishTypeOK, Idle, Run
  <1>2. RunInv /\ StubInv /\ CopiedInv
    BY DEF PublishInit, RunInv, StubInv, CopiedInv, Idle, InOrder
  <1>3. HonestInv
    BY DEF PublishInit, HonestInv, Honest
  <1> QED
    BY <1>1, <1>2, <1>3 DEF IInv

\* Work on the sources: no version changes while a run is on.
LEMMA EditKeeps == ASSUME IInv, NEW c \in Crate, Edit(c) PROVE IInv'
  <1> USE DEF IInv
  <1>1. PICK v \in Version, b \in Body :
          /\ run # Idle => v = source[c].vers
          /\ source' = [source EXCEPT ![c] = [vers |-> v, body |-> b]]
    BY DEF Edit
  <1>2. UNCHANGED <<index, committed, served, run, runs, unfinished, torn>>
    BY DEF Edit
  <1>3. PublishTypeOK'
    BY <1>1, <1>2 DEF PublishTypeOK
  <1>4. run # Idle => \A d \in Crate : source'[d].vers = source[d].vers
    BY <1>1 DEF PublishTypeOK
  <1>5. RunInv'
    BY <1>2 DEF RunInv, InOrder
  <1>6. StubInv'
    <2>1. CASE run = Idle
      BY <2>1, <1>2 DEF StubInv, Idle
    <2>2. CASE run # Idle
      BY <2>2, <1>2, <1>4 DEF StubInv, Registered, Stub, Vers, PublishTypeOK, Run
    <2> QED
      BY <2>1, <2>2
  <1>7. CopiedInv'
    <2>1. CASE run = Idle
      BY <2>1, <1>2 DEF CopiedInv, Idle
    <2>2. CASE run # Idle
      BY <2>2, <1>2, <1>4 DEF CopiedInv, RunInv, InOrder, Vers, PublishTypeOK, Run
    <2> QED
      BY <2>1, <2>2
  <1>8. HonestInv'
    BY <1>2 DEF HonestInv, Honest
  <1> QED
    BY <1>3, <1>5, <1>6, <1>7, <1>8

\* A run begins with an order that names no crate twice.
LEMMA BeginKeeps == ASSUME IInv, Begin PROVE IInv'
  <1> USE DEF IInv
  <1>1. PICK names \in Requests : \E s \in [1..Len(names) -> Crate] :
          /\ s = TopologicalSort(names)
          /\ run' = [Idle EXCEPT !.at = "register", !.order = s]
    BY DEF Begin
  <1>2. PICK s \in [1..Len(names) -> Crate] :
          /\ s = TopologicalSort(names)
          /\ run' = [Idle EXCEPT !.at = "register", !.order = s]
    BY <1>1
  <1>3. names \in Seq(Crate) /\ names # <<>>
    BY CrateAssumption
  <1>4. /\ s \in Seq(Crate) /\ Len(s) = Len(names) /\ s # <<>>
        /\ \A i, j \in DOMAIN s : i # j => s[i] # s[j]
    <2>1. s \in Seq(Crate) /\ Len(s) = Len(names)
      BY <1>2, <1>3
    <2>2. Len(names) # 0
      BY <1>3
    <2>3. s # <<>>
      BY <2>1, <2>2
    <2>4. \A i, j \in DOMAIN s : i # j => s[i] # s[j]
      BY <1>2, <1>3, SortOrders DEF Distinct
    <2> QED
      BY <2>1, <2>3, <2>4
  <1>5. /\ run'.at = "register" /\ run'.order = s /\ run'.next = 1 /\ run'.body = None
        /\ run' = [at |-> "register", order |-> s, next |-> 1, body |-> None]
    BY <1>2 DEF Idle
  <1>6. UNCHANGED <<source, index, committed, served, unfinished, torn>> /\ runs' = runs + 1
    BY DEF Begin
  <1>7. PublishTypeOK'
    BY <1>4, <1>5, <1>6 DEF PublishTypeOK, Run
  <1>8. RunInv' /\ CopiedInv' /\ StubInv'
    BY <1>4, <1>5 DEF RunInv, CopiedInv, StubInv, Registered, Idle
  <1>9. HonestInv'
    BY <1>6 DEF HonestInv, Honest
  <1> QED
    BY <1>7, <1>8, <1>9

\* A crate is registered with a placeholder.
LEMMA RegisterKeeps == ASSUME IInv, Register PROVE IInv'
  <1> USE DEF IInv
  <1> DEFINE c == Current
             v == source[c].vers
             e == [vers |-> v, cksum |-> Placeholder]
             new == UpsertEntry(index[c], e)
  <1>0. InOrder(run.next) /\ run.at = "register"
    BY DEF Register, At, InOrder
  <1>1. /\ c \in Crate /\ v \in Version /\ e \in Line /\ index[c] \in Seq(Line)
        /\ c = run.order[run.next] /\ Vers(run.next) = v
    BY <1>0, AtCrate, LineType
  <1>2. /\ index' = [index EXCEPT ![c] = new]
        /\ run' = [run EXCEPT !.next = @ + 1]
        /\ UNCHANGED <<source, committed, served, runs, unfinished, torn>>
    BY DEF Register, Entry
  <1>3. new \in Seq(Line)
    BY <1>1, UpsertType
  <1>4. \A k \in DOMAIN new : \/ new[k] = e
                              \/ /\ k \in DOMAIN index[c] /\ new[k] = index[c][k]
                                 /\ index[c][k].vers # v
    BY <1>1, UpsertLines
  <1>5. Stub(new, v)
    BY <1>4 DEF Stub
  <1>6. \A w \in Version : Stub(index[c], w) => Stub(new, w)
    BY <1>4 DEF Stub
  <1>7. Honest(new, c)
    <2>1. Honest(index[c], c) /\ e.cksum = Placeholder
      BY <1>1 DEF HonestInv
    <2> HIDE DEF c, v, e, new
    <2> QED
      BY <2>1, <1>4 DEF Honest
  <1> HIDE DEF c, v, e, new
  <1>8. PublishTypeOK'
    <2>1. run' \in Run /\ run'.at = "register"
      <3>1. run \in Run /\ run.next + 1 \in Nat /\ run.body \in Body \cup {None}
        BY DEF PublishTypeOK, Run
      <3> QED
        BY <3>1, <1>0, <1>2, RunGoesOn
    <2>2. index' \in [Crate -> Seq(Line)]
      BY <1>1, <1>2, <1>3 DEF PublishTypeOK
    <2> QED
      BY <2>1, <2>2, <1>2 DEF PublishTypeOK
  <1>9. RunInv'
    BY <1>0, <1>2 DEF RunInv, PublishTypeOK, Run, InOrder
  <1>10. CopiedInv'
    BY <1>0, <1>2 DEF CopiedInv, PublishTypeOK, Run
  <1>11. HonestInv'
    BY <1>1, <1>2, <1>7 DEF HonestInv, Honest, PublishTypeOK
  <1>12. StubInv'
    <2> SUFFICES ASSUME NEW k \in DOMAIN run.order, k < run.next + 1
                 PROVE  Stub(index'[run.order[k]], Vers(k))
      BY <1>0, <1>2 DEF StubInv, Registered, PublishTypeOK, Run, Vers
    <2>1. CASE k = run.next
      BY <2>1, <1>1, <1>2, <1>5 DEF PublishTypeOK
    <2>2. CASE k # run.next
      <3>1. Stub(index[run.order[k]], Vers(k))
        BY <2>2, <1>0 DEF StubInv, Registered, PublishTypeOK, Run
      <3>2. run.order[k] \in Crate /\ Vers(k) \in Version
        BY DEF PublishTypeOK, Run, Vers
      <3> QED
        BY <3>1, <3>2, <1>1, <1>2, <1>6 DEF PublishTypeOK
    <2> QED
      BY <2>1, <2>2
  <1> QED
    BY <1>8, <1>9, <1>10, <1>11, <1>12

\* The placeholders are committed: what is in the index is then what is read.
LEMMA CommitStubsKeeps == ASSUME IInv, CommitStubs PROVE IInv'
  <1> USE DEF IInv
  <1>0. run \in Run /\ run.at = "register" /\ run.next > Len(run.order)
    BY DEF CommitStubs, PublishTypeOK
  <1>1. /\ run' = [run EXCEPT !.at = "package", !.next = 1]
        /\ committed' = index
        /\ UNCHANGED <<source, index, served, runs, unfinished, torn>>
    BY DEF CommitStubs
  <1>2. /\ run' \in Run /\ run'.order = run.order
        /\ run'.at = "package" /\ run'.next = 1
    <2> DEFINE s == [run EXCEPT !.at = "package", !.next = 1]
    <2>1. /\ s \in Run /\ s.order = run.order
          /\ s.at = "package" /\ s.next = 1 /\ s.body = run.body
      BY <1>0, RunToPackage
    <2> HIDE DEF s
    <2>2. run' = s
      BY <1>1 DEF s
    <2> QED
      BY <2>1, <2>2
  <1>3. PublishTypeOK'
    BY <1>1, <1>2 DEF PublishTypeOK
  <1>4. HonestInv'
    BY <1>1 DEF HonestInv, Honest
  <1>5. \A k \in DOMAIN run.order : Stub(index[run.order[k]], Vers(k))
    BY <1>0 DEF StubInv, Registered, Run
  <1>6. StubInv'
    BY <1>1, <1>2, <1>5 DEF StubInv, Registered, Vers, Stub
  <1>7. CopiedInv'
    BY <1>2 DEF CopiedInv
  <1>8. RunInv'
    BY <1>0, <1>2 DEF RunInv, InOrder, Run
  <1> QED
    BY <1>3, <1>4, <1>6, <1>7, <1>8

\* The download file is opened only for a version that has placeholders.
LEMMA PackageKeeps == ASSUME IInv, Package PROVE IInv'
  <1> USE DEF IInv
  <1> DEFINE c == Current
             v == source[c].vers
             b == source[c].body
             s == [run EXCEPT !.at = "copy", !.body = b]
  <1>0. InOrder(run.next) /\ run.at = "package" /\ run \in Run
    BY DEF Package, At, InOrder, PublishTypeOK
  <1>1. /\ c \in Crate /\ v \in Version /\ b \in Body
        /\ c = run.order[run.next] /\ Vers(run.next) = v
    BY <1>0, AtCrate
  <1>2. /\ s \in Run /\ s.order = run.order
        /\ s.at = "copy" /\ s.next = run.next /\ s.body = b
    BY <1>0, <1>1, RunToCopy
  <1>3. /\ run' = s
        /\ served' = [served EXCEPT ![c][v] = Partial]
        /\ UNCHANGED <<source, index, committed, runs, unfinished, torn>>
    BY DEF Package
  <1>4. Stub(index[c], v) /\ Stub(committed[c], v)
    BY <1>0, <1>1 DEF StubInv, Registered, InOrder, Run
  <1> HIDE DEF c, v, b, s
  <1>5. PublishTypeOK'
    BY <1>1, <1>2, <1>3 DEF PublishTypeOK
  <1>6. RunInv' /\ CopiedInv'
    BY <1>0, <1>2, <1>3 DEF RunInv, CopiedInv, InOrder
  <1>7. StubInv'
    <2> SUFFICES ASSUME NEW k \in DOMAIN run.order, k >= run.next
                 PROVE  Stub(index[run.order[k]], Vers(k)) /\ Stub(committed[run.order[k]], Vers(k))
      BY <1>2, <1>3 DEF StubInv, Registered, Vers, Stub
    <2> QED
      BY <1>0 DEF StubInv, Registered
  <1>8. HonestInv'
    <2> SUFFICES ASSUME NEW d \in Crate
                 PROVE  Honest(index[d], d)' /\ Honest(committed[d], d)'
      BY DEF HonestInv
    <2>1. Honest(index[d], d) /\ Honest(committed[d], d)
      BY DEF HonestInv
    <2>2. index[d] \in Seq(Line) /\ committed[d] \in Seq(Line)
      BY DEF PublishTypeOK
    <2>3. \A w \in Version : d # c \/ w # v => served'[d][w] = served[d][w]
      BY <1>1, <1>3 DEF PublishTypeOK
    <2> QED
      BY <2>1, <2>2, <2>3, <1>3, <1>4 DEF Honest, Stub, Line
  <1> QED
    BY <1>5, <1>6, <1>7, <1>8

\* The file is complete before its checksum is written anywhere.
LEMMA CopyKeeps == ASSUME IInv, Copy PROVE IInv'
  <1> USE DEF IInv
  <1> DEFINE c == Current
             v == source[c].vers
             s == [run EXCEPT !.at = "index"]
  <1>0. InOrder(run.next) /\ run.at = "copy" /\ run \in Run /\ run.body \in Body
    BY DEF Copy, At, InOrder, PublishTypeOK
  <1>1. /\ c \in Crate /\ v \in Version
        /\ c = run.order[run.next] /\ Vers(run.next) = v
    BY <1>0, AtCrate
  <1>2. /\ s \in Run /\ s.order = run.order
        /\ s.at = "index" /\ s.next = run.next /\ s.body = run.body
    BY <1>0, RunToIndex
  <1>3. /\ run' = s
        /\ served' = [served EXCEPT ![c][v] = run.body]
        /\ UNCHANGED <<source, index, committed, runs, unfinished, torn>>
    BY DEF Copy
  <1>4. Stub(index[c], v) /\ Stub(committed[c], v)
    BY <1>0, <1>1 DEF StubInv, Registered, InOrder, Run
  <1> HIDE DEF c, v, s
  <1>5. PublishTypeOK'
    BY <1>0, <1>1, <1>2, <1>3 DEF PublishTypeOK
  <1>6. RunInv'
    BY <1>0, <1>2, <1>3 DEF RunInv, InOrder
  <1>7. CopiedInv'
    <2>1. served'[c][v] = run.body
      BY <1>1, <1>3 DEF PublishTypeOK
    <2> QED
      BY <2>1, <1>1, <1>2, <1>3 DEF CopiedInv, Vers
  <1>8. StubInv'
    <2> SUFFICES ASSUME NEW k \in DOMAIN run.order, k >= run.next
                 PROVE  Stub(index[run.order[k]], Vers(k)) /\ Stub(committed[run.order[k]], Vers(k))
      BY <1>2, <1>3 DEF StubInv, Registered, Vers, Stub
    <2> QED
      BY <1>0 DEF StubInv, Registered
  <1>9. HonestInv'
    <2> SUFFICES ASSUME NEW d \in Crate
                 PROVE  Honest(index[d], d)' /\ Honest(committed[d], d)'
      BY DEF HonestInv
    <2>1. Honest(index[d], d) /\ Honest(committed[d], d)
      BY DEF HonestInv
    <2>2. index[d] \in Seq(Line) /\ committed[d] \in Seq(Line)
      BY DEF PublishTypeOK
    <2>3. \A w \in Version : d # c \/ w # v => served'[d][w] = served[d][w]
      BY <1>1, <1>3 DEF PublishTypeOK
    <2> QED
      BY <2>1, <2>2, <2>3, <1>3, <1>4 DEF Honest, Stub, Line
  <1> QED
    BY <1>5, <1>6, <1>7, <1>8, <1>9

\* The checksum that replaces the placeholder is that of the copied file.
LEMMA UpdateIndexKeeps == ASSUME IInv, UpdateIndex PROVE IInv'
  <1> USE DEF IInv
  <1> DEFINE c == Current
             v == source[c].vers
             e == [vers |-> v, cksum |-> run.body]
             new == UpsertEntry(index[c], e)
             s == [run EXCEPT !.at = "commit"]
  <1>0. InOrder(run.next) /\ run.at = "index" /\ run \in Run /\ run.body \in Body
    BY DEF UpdateIndex, At, InOrder, PublishTypeOK
  <1>1. /\ c \in Crate /\ v \in Version /\ e \in Line /\ index[c] \in Seq(Line)
        /\ e.vers = v /\ e.cksum = run.body
        /\ c = run.order[run.next] /\ Vers(run.next) = v
    BY <1>0, AtCrate, LineType
  <1>2. /\ s \in Run /\ s.order = run.order
        /\ s.at = "commit" /\ s.next = run.next /\ s.body = run.body
    BY <1>0, RunToCommit
  <1>3. /\ run' = s
        /\ index' = [index EXCEPT ![c] = new]
        /\ UNCHANGED <<source, committed, served, runs, unfinished, torn>>
    BY DEF UpdateIndex, Entry
  <1>4. new \in Seq(Line)
    BY <1>1, UpsertType
  <1>5. \A k \in DOMAIN new : \/ new[k] = e
                              \/ /\ k \in DOMAIN index[c] /\ new[k] = index[c][k]
                                 /\ index[c][k].vers # v
    BY <1>1, UpsertLines
  <1>6. Honest(index[c], c) /\ served[c][v] = run.body
    BY <1>0, <1>1 DEF HonestInv, CopiedInv
  <1> HIDE DEF c, v, e, new, s
  <1>7. Honest(new, c)
    BY <1>1, <1>5, <1>6 DEF Honest
  <1>8. PublishTypeOK'
    BY <1>0, <1>1, <1>2, <1>3, <1>4 DEF PublishTypeOK
  <1>9. RunInv'
    BY <1>0, <1>2, <1>3 DEF RunInv, InOrder
  <1>10. CopiedInv'
    BY <1>1, <1>2, <1>3, <1>6 DEF CopiedInv, Vers
  <1>11. HonestInv'
    BY <1>1, <1>3, <1>7 DEF HonestInv, Honest, PublishTypeOK
  <1>12. StubInv'
    <2> SUFFICES ASSUME NEW k \in DOMAIN run.order, k > run.next
                 PROVE  /\ Stub(index'[run.order[k]], Vers(k))
                        /\ Stub(committed[run.order[k]], Vers(k))
      BY <1>2, <1>3 DEF StubInv, Registered, Vers, Stub
    <2>1. Stub(index[run.order[k]], Vers(k)) /\ Stub(committed[run.order[k]], Vers(k))
      BY <1>0 DEF StubInv, Registered, Run
    <2>2. run.order[k] # c
      BY <1>0, <1>1 DEF RunInv, InOrder, Run
    <2> QED
      BY <2>1, <2>2, <1>0, <1>3 DEF Run, PublishTypeOK
  <1> QED
    BY <1>8, <1>9, <1>10, <1>11, <1>12

\* The commit that follows takes in an honest index.
LEMMA CommitEntryKeeps == ASSUME IInv, CommitEntry PROVE IInv'
  <1> USE DEF IInv
  <1> DEFINE s == [at |-> "package", order |-> run.order,
                   next |-> run.next + 1, body |-> None]
  <1>0. InOrder(run.next) /\ run.at = "commit" /\ run \in Run
    BY DEF CommitEntry, At, InOrder, PublishTypeOK
  <1>1. /\ committed' = index
        /\ unfinished' = unfinished \ {<<Current, source[Current].vers>>}
        /\ run' = IF run.next = Len(run.order) THEN Idle ELSE s
        /\ UNCHANGED <<source, index, served, runs, torn>>
    BY DEF CommitEntry
  <1>2. committed' \in [Crate -> Seq(Line)] /\ unfinished' \subseteq Crate \X Version
    BY <1>1 DEF PublishTypeOK
  <1>3. HonestInv'
    BY <1>1 DEF HonestInv, Honest
  <1>4. CASE run.next = Len(run.order)
    <2>1. run' = Idle
      BY <1>1, <1>4
    <2>2. Idle \in Run /\ run'.at = "idle" /\ RunInv' /\ StubInv' /\ CopiedInv'
      BY <2>1, EndedRun
    <2>3. PublishTypeOK'
      BY <1>1, <1>2, <2>1, <2>2 DEF PublishTypeOK
    <2> QED
      BY <1>3, <2>2, <2>3
  <1>5. CASE run.next # Len(run.order)
    <2>1. run' = s
      BY <1>1, <1>5
    <2>2. s \in Run /\ s.next \in DOMAIN run.order
      BY <1>0, <1>5 DEF Run, InOrder
    <2>3. PublishTypeOK'
      BY <1>1, <1>2, <2>1, <2>2 DEF PublishTypeOK
    <2>4. RunInv' /\ CopiedInv'
      BY <1>0, <2>1, <2>2 DEF RunInv, CopiedInv, InOrder, Run
    <2>5. \A k \in DOMAIN run.order : k >= run.next + 1 => Stub(index[run.order[k]], Vers(k))
      BY <1>0 DEF StubInv, Registered, Run
    <2>6. /\ run'.at = "package" /\ run'.order = run.order
          /\ run'.next = run.next + 1
      BY <2>1
    <2> HIDE DEF s
    <2>7. StubInv'
      <3> SUFFICES ASSUME NEW k \in DOMAIN run.order, k >= run.next + 1
                   PROVE  /\ Stub(index'[run.order[k]], Vers(k)')
                          /\ Stub(committed'[run.order[k]], Vers(k)')
        BY <2>6 DEF StubInv, Registered, Vers, Stub
      <3>1. Vers(k)' = Vers(k)
        BY <1>1, <2>6 DEF Vers
      <3> QED
        BY <1>1, <2>5, <3>1
    <2> QED
      BY <1>3, <2>3, <2>4, <2>7
  <1> QED
    BY <1>4, <1>5

\* A run that ends early writes nothing more.
LEMMA StopKeeps == ASSUME IInv, Stop PROVE IInv'
  <1> USE DEF IInv
  <1>1. run' = Idle /\ unfinished' = unfinished \cup Left
        /\ UNCHANGED <<source, index, committed, served, runs, torn>>
    BY DEF Stop
  <1>2. Idle \in Run /\ run'.at = "idle" /\ RunInv' /\ StubInv' /\ CopiedInv'
    BY <1>1, EndedRun
  <1>3. PublishTypeOK'
    BY <1>1, <1>2, LeftType DEF PublishTypeOK
  <1>4. HonestInv'
    BY <1>1 DEF HonestInv, Honest
  <1> QED
    BY <1>2, <1>3, <1>4

\* What is left of a file that was being written is the beginning of it.
LEMMA TearKeeps == ASSUME IInv, Tear PROVE IInv'
  <1> USE DEF IInv
  <1> DEFINE c == Current
             v == source[c].vers
             ck == IF run.at = "register" THEN Placeholder ELSE run.body
             e == [vers |-> v, cksum |-> ck]
             file == UpsertEntry(index[c], e)
  <1>0. /\ InOrder(run.next) /\ run.at \in {"register", "index"} /\ run \in Run
        /\ run.at = "index" => run.body \in Body
    BY DEF Tear, At, InOrder, PublishTypeOK
  <1>1. /\ c \in Crate /\ v \in Version /\ ck \in Body \cup {Placeholder}
        /\ index[c] \in Seq(Line) /\ c = run.order[run.next] /\ Vers(run.next) = v
    BY <1>0, AtCrate
  <1>2. e \in Line /\ e.vers = v /\ e.cksum = ck
    BY <1>1, LineType
  <1>3. PICK n \in 0..Len(file) - 1 : index' = [index EXCEPT ![c] = SubSeq(file, 1, n)]
    BY DEF Tear, Entry
  <1>4. run' = Idle /\ unfinished' = unfinished \cup Left /\ torn' = torn \cup {c}
        /\ UNCHANGED <<source, committed, served, runs>>
    BY DEF Tear
  <1>5. file \in Seq(Line)
    BY <1>1, <1>2, UpsertType
  <1>6. \A k \in DOMAIN file : \/ file[k] = e
                               \/ /\ k \in DOMAIN index[c] /\ file[k] = index[c][k]
                                  /\ index[c][k].vers # v
    BY <1>1, <1>2, UpsertLines
  <1>7. ck = Placeholder \/ served[c][v] = ck
    BY <1>0, <1>1 DEF CopiedInv
  <1>8. Honest(index[c], c)
    BY <1>1 DEF HonestInv
  <1> HIDE DEF c, v, ck, e, file
  <1>9. Honest(file, c)
    BY <1>2, <1>6, <1>7, <1>8 DEF Honest
  <1> DEFINE rest == SubSeq(file, 1, n)
  <1>10. /\ rest \in Seq(Line)
         /\ \A k \in DOMAIN rest : k \in DOMAIN file /\ rest[k] = file[k]
    BY <1>3, <1>5
  <1> HIDE DEF rest
  <1>11. index' = [index EXCEPT ![c] = rest]
    BY <1>3 DEF rest
  <1>12. Honest(rest, c)
    BY <1>9, <1>10 DEF Honest
  <1>13. HonestInv'
    BY <1>1, <1>4, <1>11, <1>12 DEF HonestInv, Honest, PublishTypeOK
  <1>14. Idle \in Run /\ run'.at = "idle" /\ RunInv' /\ StubInv' /\ CopiedInv'
    BY <1>4, EndedRun
  <1>15. PublishTypeOK'
    BY <1>1, <1>4, <1>10, <1>11, <1>14, LeftType DEF PublishTypeOK
  <1> QED
    BY <1>13, <1>14, <1>15

\* Every step keeps the invariant.
LEMMA StepKeeps == IInv /\ [PublishNext]_publishVars => IInv'
  <1> SUFFICES ASSUME IInv, [PublishNext]_publishVars PROVE IInv'
    OBVIOUS
  <1>1. ASSUME NEW c \in Crate, Edit(c) PROVE IInv'
    BY <1>1, EditKeeps
  <1>2. ASSUME UNCHANGED publishVars PROVE IInv'
    BY <1>2 DEF publishVars, IInv, PublishTypeOK, RunInv, StubInv, CopiedInv,
                HonestInv, Honest, Stub, InOrder, Vers, Registered
  <1> QED
    BY <1>1, <1>2, BeginKeeps, RegisterKeeps, CommitStubsKeeps, PackageKeeps,
       CopyKeeps, UpdateIndexKeeps, CommitEntryKeeps, StopKeeps, TearKeeps
       DEF PublishNext

\* The registry and the run are well typed for any crates, versions, contents
\* and requests: cargo xtask publish and whatever interrupts it.
THEOREM TypeCorrect == PublishSpec => []PublishTypeOK
  <1>1. IInv => PublishTypeOK
    BY DEF IInv
  <1> QED
    BY <1>1, Initially, StepKeeps, PTL DEF PublishSpec

\* upsert_entry and the two phases, whatever fails or is killed: the checksums
\* that cargo reads are those of the files it downloads.
THEOREM ChecksumServed == PublishSpec => []ChecksumIsServed
  <1>1. IInv => ChecksumIsServed
    BY DEF IInv, HonestInv, Honest, ChecksumIsServed, Lines
  <1> QED
    BY <1>1, Initially, StepKeeps, PTL DEF PublishSpec

-----------------------------------------------------------------------------
\* VersionsKept needs that whatever version is committed is in the index too,
\* but for the files that were cut short.
Has(file, v) == \E k \in DOMAIN file : file[k].vers = v

Kept == \A c \in Crate \ torn : \A k \in DOMAIN committed[c] :
            Has(index[c], committed[c][k].vers)

\* upsert_entry loses no version of the file.
LEMMA UpsertKeeps ==
    ASSUME NEW file \in Seq(Line), NEW e \in Line, NEW k \in DOMAIN file
    PROVE  Has(UpsertEntry(file, e), file[k].vers)
  <1> DEFINE new == UpsertEntry(file, e)
  <1>1. CASE \E j \in DOMAIN file : file[j].vers = e.vers
    <2>1. new = [j \in DOMAIN file |-> IF file[j].vers = e.vers THEN e ELSE file[j]]
      BY <1>1 DEF UpsertEntry
    <2>2. k \in DOMAIN new /\ new[k].vers = file[k].vers
      BY <2>1
    <2> QED
      BY <2>2 DEF Has
  <1>2. CASE ~ \E j \in DOMAIN file : file[j].vers = e.vers
    <2>1. new = Append(file, e)
      BY <1>2 DEF UpsertEntry
    <2>2. k \in DOMAIN new /\ new[k] = file[k]
      BY <2>1
    <2> QED
      BY <2>2 DEF Has
  <1> QED
    BY <1>1, <1>2

\* An index file that is written again has the versions it had.
LEMMA IndexKeeps ==
    ASSUME PublishTypeOK, Kept, UNCHANGED <<committed, torn>>,
           NEW c \in Crate, NEW e \in Line,
           index' = [index EXCEPT ![c] = UpsertEntry(index[c], e)]
    PROVE  Kept'
  <1> SUFFICES ASSUME NEW d \in Crate \ torn, NEW k \in DOMAIN committed[d]
               PROVE  Has(index'[d], committed[d][k].vers)
    BY DEF Kept
  <1>1. PICK j \in DOMAIN index[d] : index[d][j].vers = committed[d][k].vers
    BY DEF Kept, Has
  <1>2. CASE d = c
    <2>1. Has(UpsertEntry(index[c], e), index[c][j].vers)
      BY <1>1, <1>2, UpsertKeeps DEF PublishTypeOK
    <2> QED
      BY <2>1, <1>1, <1>2 DEF PublishTypeOK
  <1>3. CASE d # c
    BY <1>1, <1>3 DEF PublishTypeOK, Has
  <1> QED
    BY <1>2, <1>3

\* Every step keeps every committed version, and Kept.
LEMMA KeptKeeps ==
    IInv /\ Kept /\ [PublishNext]_publishVars =>
        /\ Kept'
        /\ \A c \in Crate \ torn : \A l \in Lines(committed[c]) :
              \E m \in Lines(committed'[c]) : m.vers = l.vers
  <1> SUFFICES ASSUME IInv, Kept, [PublishNext]_publishVars
               PROVE  /\ Kept'
                      /\ \A c \in Crate \ torn : \A l \in Lines(committed[c]) :
                            \E m \in Lines(committed'[c]) : m.vers = l.vers
    OBVIOUS
  <1>1. PublishTypeOK
    BY DEF IInv
  <1>2. CASE committed' = index /\ UNCHANGED <<index, torn>>
    BY <1>2 DEF Kept, Has, Lines
  <1>3. CASE UNCHANGED <<committed, torn>> /\ Kept'
    BY <1>3
  <1>4. CASE UNCHANGED <<index, committed, torn>>
    BY <1>4 DEF Kept, Has
  <1>5. CASE Register
    <2>1. InOrder(run.next)
      BY <1>5 DEF Register, At, InOrder
    <2>2. Current \in Crate /\ Entry(Placeholder) \in Line
      BY <1>1, <2>1, AtCrate, LineType DEF Entry
    <2>3. /\ index' = [index EXCEPT ![Current] = UpsertEntry(index[Current], Entry(Placeholder))]
          /\ UNCHANGED <<committed, torn>>
      BY <1>5 DEF Register
    <2> QED
      BY <1>1, <1>3, <2>2, <2>3, IndexKeeps
  <1>6. CASE UpdateIndex
    <2>1. InOrder(run.next) /\ run.body \in Body
      BY <1>1, <1>6 DEF UpdateIndex, At, InOrder, PublishTypeOK
    <2>2. Current \in Crate /\ Entry(run.body) \in Line
      BY <1>1, <2>1, AtCrate, LineType DEF Entry
    <2>3. /\ index' = [index EXCEPT ![Current] = UpsertEntry(index[Current], Entry(run.body))]
          /\ UNCHANGED <<committed, torn>>
      BY <1>6 DEF UpdateIndex
    <2> QED
      BY <1>1, <1>3, <2>2, <2>3, IndexKeeps
  <1>7. CASE Tear
    <2>1. torn' = torn \cup {Current} /\ committed' = committed
      BY <1>7 DEF Tear
    <2>2. PICK file : index' = [index EXCEPT ![Current] = file]
      BY <1>7 DEF Tear
    <2>3. \A d \in Crate \ torn' : index'[d] = index[d]
      BY <1>1, <2>1, <2>2 DEF PublishTypeOK
    <2> QED
      BY <2>1, <2>3 DEF Kept, Has
  <1>8. CASE CommitStubs
    BY <1>2, <1>8 DEF CommitStubs
  <1>9. CASE CommitEntry
    BY <1>2, <1>9 DEF CommitEntry
  <1>10. CASE \/ \E c \in Crate : Edit(c)
              \/ Begin \/ Package \/ Copy \/ Stop \/ UNCHANGED publishVars
    BY <1>4, <1>10 DEF Edit, Begin, Package, Copy, Stop, publishVars
  <1> QED
    BY <1>5, <1>6, <1>7, <1>8, <1>9, <1>10 DEF PublishNext

\* upsert_entry and git_commit_index: no version that was published leaves the
\* committed index, but through a file that a kill cut short.
THEOREM VersionsStay == PublishSpec => VersionsKept
  <1>1. PublishInit => Kept
    BY DEF PublishInit, Kept
  <1> DEFINE Step == \A c \in Crate \ torn : \A l \in Lines(committed[c]) :
                        \E m \in Lines(committed'[c]) : m.vers = l.vers
  <1>2. IInv /\ Kept /\ [PublishNext]_publishVars => Kept' /\ Step
    BY KeptKeeps
  <1> HIDE DEF Step
  <1>3. PublishSpec => [][Step]_publishVars
    BY <1>1, <1>2, Initially, StepKeeps, PTL DEF PublishSpec
  <1> QED
    BY <1>3 DEF VersionsKept, Step

-----------------------------------------------------------------------------
\* PlaceholdersAreUnfinished needs the same of the index, which is committed
\* next, and that the index has a checksum where CommitEntry says it has.
Open == unfinished \cup Left

Owed(file, c) ==
    \A k \in DOMAIN file : file[k].cksum = Placeholder => <<c, file[k].vers>> \in Open

OwedInv == \A c \in Crate : Owed(index[c], c) /\ Owed(committed[c], c)

FilledInv ==
    run.at = "commit" => \A k \in DOMAIN index[run.order[run.next]] :
        index[run.order[run.next]][k].vers = Vers(run.next)
            => index[run.order[run.next]][k].cksum # Placeholder

\* What is to be done stays to be done or is unfinished, and placeholders that
\* are added are to be done.
LEMMA OwedKeeps ==
    ASSUME PublishTypeOK, OwedInv,
           Open \subseteq Open',
           \A c \in Crate : \A k \in DOMAIN index'[c] :
              \/ \E j \in DOMAIN index[c] : index[c][j] = index'[c][k]
              \/ index'[c][k].cksum = Placeholder => <<c, index'[c][k].vers>> \in Open',
           committed' \in {committed, index}
    PROVE  OwedInv'
  <1> SUFFICES ASSUME NEW c \in Crate PROVE Owed(index[c], c)' /\ Owed(committed[c], c)'
    BY DEF OwedInv
  <1>1. Owed(index[c], c) /\ Owed(committed[c], c)
    BY DEF OwedInv
  <1> HIDE DEF Open
  <1>2. Owed(index[c], c)'
    BY <1>1 DEF Owed
  <1>3. Owed(committed[c], c)'
    BY <1>1 DEF Owed
  <1> QED
    BY <1>2, <1>3

\* A run that ends early leaves behind what it had to do.
LEMMA LeftOpen ==
    ASSUME IInv, run' = Idle, unfinished' = unfinished \cup Left
    PROVE  /\ Open \subseteq Open'
           /\ InOrder(run.next) => <<Current, source[Current].vers>> \in unfinished'
           /\ FilledInv'
  <1>1. Open \subseteq Open'
    BY DEF Open
  <1>2. InOrder(run.next) => <<Current, source[Current].vers>> \in Left
    BY DEF IInv, PublishTypeOK, Run, InOrder, Current, Left
  <1> QED
    BY <1>1, <1>2 DEF Open, FilledInv, Idle

\* The lines of an index file that is written again.
LEMMA NewLines ==
    ASSUME PublishTypeOK, NEW c \in Crate, NEW e \in Line,
           index' = [index EXCEPT ![c] = UpsertEntry(index[c], e)]
    PROVE  \A d \in Crate : \A k \in DOMAIN index'[d] :
              \/ \E j \in DOMAIN index[d] : index[d][j] = index'[d][k]
              \/ d = c /\ index'[d][k] = e
  <1> SUFFICES ASSUME NEW d \in Crate, NEW k \in DOMAIN index'[d]
               PROVE  \/ \E j \in DOMAIN index[d] : index[d][j] = index'[d][k]
                      \/ d = c /\ index'[d][k] = e
    OBVIOUS
  <1>1. CASE d = c
    <2>1. index[c] \in Seq(Line) /\ index'[c] = UpsertEntry(index[c], e)
      BY DEF PublishTypeOK
    <2> QED
      BY <1>1, <2>1, UpsertLines
  <1>2. CASE d # c
    BY <1>2 DEF PublishTypeOK
  <1> QED
    BY <1>1, <1>2

\* Phase 1: the placeholder of a crate is one that the run has to replace.
LEMMA RegisterOwes == ASSUME IInv, OwedInv, Register PROVE OwedInv' /\ FilledInv'
  <1>1. PublishTypeOK /\ InOrder(run.next) /\ run.at = "register"
    BY DEF IInv, Register, At, InOrder
  <1>2. Current \in Crate /\ Entry(Placeholder) \in Line
    BY <1>1, AtCrate, LineType DEF Entry
  <1>3. /\ run'.at = "register" /\ run'.order = run.order
        /\ UNCHANGED <<source, committed, unfinished>>
    BY <1>1 DEF Register, PublishTypeOK, Run
  <1>4. Open \subseteq Open'
    BY <1>1, <1>3 DEF Open, Left
  <1>5. <<Current, source[Current].vers>> \in Open'
    BY <1>1, <1>3 DEF Open, Left, InOrder, Current
  <1>6. index' = [index EXCEPT ![Current] = UpsertEntry(index[Current], Entry(Placeholder))]
    BY DEF Register
  <1>7. Entry(Placeholder).vers = source[Current].vers
    BY DEF Entry
  <1>8. \A d \in Crate : \A k \in DOMAIN index'[d] :
            \/ \E j \in DOMAIN index[d] : index[d][j] = index'[d][k]
            \/ d = Current /\ index'[d][k] = Entry(Placeholder)
    BY <1>1, <1>2, <1>6, NewLines
  <1>9. \A d \in Crate : \A k \in DOMAIN index'[d] :
            \/ \E j \in DOMAIN index[d] : index[d][j] = index'[d][k]
            \/ index'[d][k].cksum = Placeholder => <<d, index'[d][k].vers>> \in Open'
    <2> SUFFICES ASSUME NEW d \in Crate, NEW k \in DOMAIN index'[d],
                        d = Current, index'[d][k] = Entry(Placeholder)
                 PROVE  <<d, index'[d][k].vers>> \in Open'
      BY <1>8
    <2>1. index'[d][k].vers = source[Current].vers
      BY <1>7
    <2> QED
      BY <2>1, <1>5
  <1> QED
    BY <1>1, <1>3, <1>4, <1>9, OwedKeeps DEF FilledInv

\* Phase 2: upsert_entry leaves no placeholder for the version.
LEMMA UpdateIndexOwes == ASSUME IInv, OwedInv, UpdateIndex PROVE OwedInv' /\ FilledInv'
  <1> DEFINE e == Entry(run.body)
             new == UpsertEntry(index[Current], e)
  <1>1. /\ PublishTypeOK /\ InOrder(run.next) /\ run.at = "index"
        /\ run.body \in Body /\ run.body # Placeholder
    BY BodyAssumption DEF IInv, UpdateIndex, At, InOrder, PublishTypeOK
  <1>2. /\ Current \in Crate /\ e \in Line /\ index[Current] \in Seq(Line)
        /\ e.vers = source[Current].vers /\ e.cksum = run.body
        /\ Current = run.order[run.next] /\ Vers(run.next) = source[Current].vers
    BY <1>1, AtCrate, LineType DEF Entry
  <1>3. /\ run'.at = "commit" /\ run'.order = run.order /\ run'.next = run.next
        /\ UNCHANGED <<source, committed, unfinished>>
    BY <1>1 DEF UpdateIndex, PublishTypeOK, Run
  <1>4. Open \subseteq Open'
    BY <1>1, <1>3 DEF Open, Left
  <1>5. index' = [index EXCEPT ![Current] = new]
    BY DEF UpdateIndex
  <1>6. \A k \in DOMAIN new : new[k] = e \/ new[k].vers # e.vers
    BY <1>2, UpsertLines
  <1>7. index'[Current] = new
    BY <1>1, <1>2, <1>5 DEF PublishTypeOK
  <1>8. \A d \in Crate : \A k \in DOMAIN index'[d] :
            \/ \E j \in DOMAIN index[d] : index[d][j] = index'[d][k]
            \/ d = Current /\ index'[d][k] = e
    BY <1>1, <1>2, <1>5, NewLines
  <1> HIDE DEF e, new
  <1>9. OwedInv'
    BY <1>1, <1>2, <1>3, <1>4, <1>8, OwedKeeps
  <1>10. FilledInv'
    BY <1>1, <1>2, <1>3, <1>6, <1>7 DEF FilledInv, Vers
  <1> QED
    BY <1>9, <1>10

\* git_commit_index takes the crate's placeholder out of what is committed.
LEMMA CommitEntryOwes ==
    ASSUME IInv, OwedInv, FilledInv, CommitEntry PROVE OwedInv' /\ FilledInv'
  <1> DEFINE c == run.order[run.next]
             v == Vers(run.next)
  <1>1. /\ PublishTypeOK /\ InOrder(run.next) /\ run.at = "commit" /\ run \in Run
        /\ Current = c /\ source[Current].vers = v
    BY DEF IInv, CommitEntry, At, InOrder, PublishTypeOK, Current, Vers
  <1>2. /\ committed' = index /\ index' = index /\ source' = source
        /\ unfinished' = unfinished \ {<<c, v>>}
    BY <1>1 DEF CommitEntry
  <1>3. run' = IF run.next = Len(run.order) THEN Idle
               ELSE [at |-> "package", order |-> run.order,
                     next |-> run.next + 1, body |-> None]
    BY DEF CommitEntry
  <1>4. FilledInv'
    BY <1>3 DEF FilledInv, Idle
  <1>5. Open \ {<<c, v>>} \subseteq Open'
    <2> SUFFICES ASSUME NEW x \in Left, x # <<c, v>> PROVE x \in Left'
      BY <1>2 DEF Open
    <2>1. PICK k \in DOMAIN run.order : k >= run.next /\ x = <<run.order[k], Vers(k)>>
      BY <1>1 DEF Left, Vers
    <2>2. k > run.next /\ k <= Len(run.order) /\ run.next # Len(run.order)
      BY <1>1, <2>1 DEF Run, InOrder
    <2> HIDE DEF c, v
    <2>3. run'.order = run.order /\ run'.next = run.next + 1
      BY <1>3, <2>2
    <2>4. k >= run.next + 1
      BY <1>1, <2>2 DEF Run
    <2> QED
      BY <1>2, <2>1, <2>3, <2>4 DEF Left, Vers
  <1>6. ASSUME NEW d \in Crate, NEW k \in DOMAIN index[d], index[d][k].cksum = Placeholder
        PROVE  <<d, index[d][k].vers>> \in Open'
    <2>1. <<d, index[d][k].vers>> \in Open
      BY <1>6 DEF OwedInv, Owed
    <2>2. ~(d = c /\ index[d][k].vers = v)
      BY <1>1, <1>6 DEF FilledInv
    <2> QED
      BY <1>5, <2>1, <2>2
  <1>7. OwedInv'
    BY <1>2, <1>6 DEF OwedInv, Owed
  <1> QED
    BY <1>4, <1>7

\* A file that is cut short holds lines of the file that was being written.
LEMMA TearOwes == ASSUME IInv, OwedInv, Tear PROVE OwedInv' /\ FilledInv'
  <1> DEFINE ck == IF run.at = "register" THEN Placeholder ELSE run.body
             e == Entry(ck)
             file == UpsertEntry(index[Current], e)
  <1>1. /\ PublishTypeOK /\ InOrder(run.next) /\ ck \in Body \cup {Placeholder}
    BY DEF IInv, Tear, At, InOrder, PublishTypeOK
  <1>2. /\ Current \in Crate /\ e \in Line /\ e.vers = source[Current].vers
        /\ index[Current] \in Seq(Line)
    BY <1>1, AtCrate, LineType DEF Entry
  <1>3. PICK n \in 0..Len(file) - 1 : index' = [index EXCEPT ![Current] = SubSeq(file, 1, n)]
    BY DEF Tear
  <1>4. run' = Idle /\ unfinished' = unfinished \cup Left /\ UNCHANGED <<source, committed>>
    BY DEF Tear
  <1>5. /\ Open \subseteq Open'
        /\ <<Current, source[Current].vers>> \in unfinished'
        /\ FilledInv'
    BY <1>1, <1>4, LeftOpen
  <1>6. file \in Seq(Line)
    BY <1>2, UpsertType
  <1>7. \A k \in DOMAIN file : file[k] = e \/ \E j \in DOMAIN index[Current] : index[Current][j] = file[k]
    BY <1>2, UpsertLines
  <1> HIDE DEF ck, e, file
  <1>8. \A k \in DOMAIN SubSeq(file, 1, n) :
            k \in DOMAIN file /\ SubSeq(file, 1, n)[k] = file[k]
    BY <1>3, <1>6
  <1>9. \A d \in Crate : \A k \in DOMAIN index'[d] :
            \/ \E j \in DOMAIN index[d] : index[d][j] = index'[d][k]
            \/ d = Current /\ index'[d][k] = e
    BY <1>1, <1>2, <1>3, <1>7, <1>8 DEF PublishTypeOK
  <1>10. \A d \in Crate : \A k \in DOMAIN index'[d] :
            \/ \E j \in DOMAIN index[d] : index[d][j] = index'[d][k]
            \/ index'[d][k].cksum = Placeholder => <<d, index'[d][k].vers>> \in Open'
    BY <1>2, <1>5, <1>9 DEF Open
  <1>11. OwedInv'
    BY <1>1, <1>4, <1>5, <1>10, OwedKeeps
  <1> QED
    BY <1>5, <1>11

\* Every step keeps what is owed.
LEMMA OwedStep ==
    IInv /\ OwedInv /\ FilledInv /\ [PublishNext]_publishVars => OwedInv' /\ FilledInv'
  <1> SUFFICES ASSUME IInv, OwedInv, FilledInv, [PublishNext]_publishVars
               PROVE  OwedInv' /\ FilledInv'
    OBVIOUS
  <1>1. PublishTypeOK
    BY DEF IInv
  <1>2. ASSUME UNCHANGED index, committed' \in {committed, index}, FilledInv',
               Open \subseteq Open'
        PROVE  OwedInv' /\ FilledInv'
    <2>1. \A c \in Crate : \A k \in DOMAIN index'[c] :
              \E j \in DOMAIN index[c] : index[c][j] = index'[c][k]
      BY <1>2
    <2> QED
      BY <1>1, <1>2, <2>1, OwedKeeps
  <1>3. ASSUME NEW c \in Crate, Edit(c) PROVE OwedInv' /\ FilledInv'
    <2>1. UNCHANGED <<index, committed, run, unfinished>>
      BY <1>3 DEF Edit
    <2>2. run # Idle => \A d \in Crate : source'[d].vers = source[d].vers
      BY <1>1, <1>3 DEF Edit, PublishTypeOK
    <2>3. \A k \in DOMAIN run.order : Vers(k)' = Vers(k)
      BY <1>1, <2>1, <2>2 DEF PublishTypeOK, Run, Vers, Idle
    <2>4. run.at = "commit" => InOrder(run.next)
      BY DEF IInv, RunInv
    <2>5. FilledInv'
      BY <2>1, <2>3, <2>4 DEF FilledInv, InOrder
    <2>6. Open \subseteq Open'
      BY <2>1, <2>3 DEF Open, Left, Vers
    <2> QED
      BY <1>2, <2>1, <2>5, <2>6
  <1>4. CASE Begin
    <2>1. run = Idle /\ run'.at = "register" /\ UNCHANGED <<index, committed, unfinished>>
      BY <1>4 DEF Begin, Idle
    <2>2. Open \subseteq Open'
      BY <2>1 DEF Open, Left, Idle
    <2> QED
      BY <1>2, <2>1, <2>2 DEF FilledInv
  <1>5. CASE CommitStubs \/ Package \/ Copy
    <2>1. /\ UNCHANGED <<index, source, unfinished>> /\ committed' \in {committed, index}
          /\ run'.order = run.order /\ run'.at \in {"package", "copy", "index"}
          /\ run'.next = IF run.at = "register" THEN 1 ELSE run.next
      BY <1>1, <1>5 DEF CommitStubs, Package, Copy, At, PublishTypeOK, Run
    <2>2. Open \subseteq Open'
      BY <1>1, <2>1 DEF Open, Left, PublishTypeOK, Run
    <2> QED
      BY <1>2, <2>1, <2>2 DEF FilledInv
  <1>6. CASE Stop
    <2>1. /\ run' = Idle /\ unfinished' = unfinished \cup Left
          /\ UNCHANGED <<index, committed>>
      BY <1>6 DEF Stop
    <2> QED
      BY <1>2, <2>1, LeftOpen
  <1>7. CASE UNCHANGED publishVars
    <2>1. UNCHANGED <<source, index, committed, run, unfinished>>
      BY <1>7 DEF publishVars
    <2>2. Open \subseteq Open'
      BY <2>1 DEF Open, Left
    <2>3. FilledInv'
      BY <2>1 DEF FilledInv, Vers
    <2> QED
      BY <1>2, <2>1, <2>2, <2>3
  <1> QED
    BY <1>3, <1>4, <1>5, <1>6, <1>7, RegisterOwes, UpdateIndexOwes, CommitEntryOwes,
       TearOwes DEF PublishNext

\* Phase 1 and what ends a run early: a placeholder that cargo reads is that of
\* a run that goes on, or of one that ended early and was not made up for.
THEOREM PlaceholdersOwed == PublishSpec => []PlaceholdersAreUnfinished
  <1>1. PublishInit => OwedInv /\ FilledInv
    BY DEF PublishInit, OwedInv, Owed, FilledInv, Idle
  <1>2. OwedInv => PlaceholdersAreUnfinished
    BY DEF OwedInv, Owed, Open, Left, PlaceholdersAreUnfinished, Lines, Idle
  <1> QED
    BY <1>1, <1>2, Initially, StepKeeps, OwedStep, PTL DEF PublishSpec

-----------------------------------------------------------------------------
\* DependenciesFirst needs that every crate of the run before the next is
\* published: in the index, which is committed next, and in what is committed.
Published(file, c) ==
    \E k \in DOMAIN file : file[k].vers = source[c].vers /\ file[k].cksum # Placeholder

DoneInv ==
    /\ run.at \in {"package", "copy", "index", "commit"} =>
          \A k \in DOMAIN run.order : k < run.next =>
              /\ Published(index[run.order[k]], run.order[k])
              /\ Published(committed[run.order[k]], run.order[k])
    /\ run.at = "commit" => Published(index[run.order[run.next]], run.order[run.next])

OrderInv == InSortedOrder(Lines(run.order), run.order)

LEMMA UpsertHas ==
    ASSUME NEW file \in Seq(Line), NEW e \in Line
    PROVE  \E k \in DOMAIN UpsertEntry(file, e) : UpsertEntry(file, e)[k] = e
  <1>1. CASE \E k \in DOMAIN file : file[k].vers = e.vers
    BY <1>1 DEF UpsertEntry
  <1>2. CASE ~\E k \in DOMAIN file : file[k].vers = e.vers
    <2>1. UpsertEntry(file, e) = Append(file, e)
      BY <1>2 DEF UpsertEntry
    <2>2. /\ Len(file) + 1 \in DOMAIN Append(file, e)
          /\ Append(file, e)[Len(file) + 1] = e
      OBVIOUS
    <2> QED
      BY <2>1, <2>2
  <1> QED
    BY <1>1, <1>2

\* A run begins with a sorted order, and keeps it.
LEMMA OrderKeeps ==
    ASSUME IInv, OrderInv, [PublishNext]_publishVars PROVE OrderInv'
  <1>1. CASE run'.order = run.order
    BY <1>1 DEF OrderInv, InSortedOrder, Lines
  <1>2. CASE run' = Idle
    <2>1. \A s : s = <<>> => DOMAIN s = {}
      OBVIOUS
    <2>2. DOMAIN run'.order = {}
      BY <1>2, <2>1 DEF Idle
    <2> QED
      BY <2>2 DEF OrderInv, InSortedOrder
  <1>3. CASE Begin
    <2>1. PICK names \in Requests : \E s \in [1..Len(names) -> Crate] :
            /\ s = TopologicalSort(names)
            /\ run' = [Idle EXCEPT !.at = "register", !.order = s]
      BY <1>3 DEF Begin
    <2>2. PICK s : s = TopologicalSort(names) /\ run'.order = s
      BY <2>1 DEF Idle
    <2>3. names \in Seq(Crate)
      BY CrateAssumption
    <2>4. s \in Seq(Lines(names)) /\ InSortedOrder(Lines(names), s)
      BY <2>2, <2>3, SortOrders
    <2>5. Lines(s) \subseteq Lines(names)
      BY <2>4 DEF Lines
    <2>6. WorkspaceDeps(Lines(s)) \subseteq WorkspaceDeps(Lines(names))
      BY <2>5 DEF WorkspaceDeps
    <2>7. InSortedOrder(Lines(s), s)
      BY <2>4, <2>6 DEF InSortedOrder
    <2>8. OrderInv' = InSortedOrder(Lines(run'.order), run'.order)
      BY DEF OrderInv, InSortedOrder, Lines
    <2> QED
      BY <2>2, <2>7, <2>8
  <1>4. run \in Run
    BY DEF IInv, PublishTypeOK
  <1>5. CASE Register \/ CommitStubs \/ Package \/ Copy \/ UpdateIndex
    <2>1. run'.order = run.order
      BY <1>4, <1>5 DEF Register, CommitStubs, Package, Copy, UpdateIndex, Run
    <2> QED
      BY <1>1, <2>1
  <1>6. CASE CommitEntry \/ Stop \/ Tear
    <2>1. run' = Idle \/ run'.order = run.order
      BY <1>6 DEF CommitEntry, Stop, Tear
    <2> QED
      BY <1>1, <1>2, <2>1
  <1>7. CASE UNCHANGED run
    BY <1>1, <1>7
  <1> QED
    BY <1>3, <1>5, <1>6, <1>7 DEF PublishNext, Edit, publishVars

LEMMA DoneKeeps ==
    ASSUME IInv, DoneInv, [PublishNext]_publishVars PROVE DoneInv'
  <1>0. PublishTypeOK /\ RunInv /\ run \in Run
    BY DEF IInv, PublishTypeOK
  <1>1. CASE run'.at \in {"idle", "register"}
    BY <1>1 DEF DoneInv
  <1>2. ASSUME NEW c \in Crate, Edit(c) PROVE DoneInv'
    <2>1. UNCHANGED <<index, committed, run>>
      BY <1>2 DEF Edit
    <2>2. run.at # "idle" => \A d \in Crate : source'[d].vers = source[d].vers
      BY <1>0, <1>2 DEF Edit, PublishTypeOK, Idle
    <2>3. \A k \in DOMAIN run.order : run.order[k] \in Crate
      BY <1>0 DEF Run
    <2>4. run.at = "commit" => run.next \in DOMAIN run.order
      BY <1>0 DEF RunInv, InOrder
    <2> QED
      BY <2>1, <2>2, <2>3, <2>4 DEF DoneInv, Published
  <1>3. CASE CommitStubs
    <2>1. run'.next = 1 /\ run'.order = run.order /\ run'.at = "package"
      BY <1>0, <1>3 DEF CommitStubs, Run
    <2>2. \A k \in DOMAIN run.order : k >= 1 /\ k \in Nat
      BY <1>0 DEF Run
    <2> QED
      BY <2>1, <2>2 DEF DoneInv
  <1>4. CASE Package \/ Copy
    <2>1. /\ UNCHANGED <<source, index, committed>>
          /\ run'.next = run.next /\ run'.order = run.order
          /\ run.at \in {"package", "copy"} /\ run'.at \in {"copy", "index"}
      BY <1>0, <1>4 DEF Package, Copy, At, Run
    <2> QED
      BY <2>1 DEF DoneInv, Published
  <1>5. CASE UpdateIndex
    <2>1. /\ UNCHANGED <<source, committed>> /\ run.at = "index" /\ InOrder(run.next)
          /\ index' = [index EXCEPT ![Current] = UpsertEntry(@, Entry(run.body))]
          /\ run'.next = run.next /\ run'.order = run.order /\ run'.at = "commit"
      BY <1>0, <1>5 DEF UpdateIndex, At, Run, InOrder
    <2>2. /\ Current \in Crate /\ source[Current].vers \in Version
          /\ Current = run.order[run.next] /\ index[Current] \in Seq(Line)
          /\ run.body \in Body
      BY <1>0, <2>1, AtCrate DEF PublishTypeOK
    <2>3. Entry(run.body) \in Line /\ Entry(run.body).vers = source[Current].vers
          /\ Entry(run.body).cksum # Placeholder
      BY <2>2, LineType, BodyAssumption DEF Entry
    <2>4. index'[Current] = UpsertEntry(index[Current], Entry(run.body))
          /\ \A d \in Crate : d # Current => index'[d] = index[d]
      BY <1>0, <2>1, <2>2 DEF PublishTypeOK
    <2>5. Published(index[Current], Current)'
      <3>1. PICK k \in DOMAIN index'[Current] : index'[Current][k] = Entry(run.body)
        BY <2>2, <2>3, <2>4, UpsertHas
      <3>2. Current' = Current
        BY <2>1 DEF Current
      <3> QED
        BY <3>1, <3>2, <2>1, <2>3 DEF Published
    <2>6. ASSUME NEW k \in DOMAIN run.order, k < run.next
          PROVE  index'[run.order[k]] = index[run.order[k]]
      <3>1. run.order[k] # Current /\ run.order[k] \in Crate
        BY <1>0, <2>1, <2>2, <2>6 DEF RunInv, InOrder, Run
      <3> QED
        BY <2>4, <3>1
    <2>8. ASSUME NEW k \in DOMAIN run.order, k < run.next
          PROVE  /\ Published(index[run.order[k]], run.order[k])'
                 /\ Published(committed[run.order[k]], run.order[k])'
      <3> DEFINE c == run.order[k]
      <3>1. Published(index[c], c) /\ Published(committed[c], c)
        BY <2>1, <2>8 DEF DoneInv
      <3>2. c' = c /\ index'[c] = index[c] /\ committed'[c] = committed[c]
        BY <2>1, <2>6, <2>8
      <3>3. source' = source
        BY <2>1
      <3> HIDE DEF c
      <3>4. Published(index[c], c)' /\ Published(committed[c], c)'
        BY <3>1, <3>2, <3>3 DEF Published
      <3> QED
        BY <3>4 DEF c
    <2>9. Published(index[run.order[run.next]], run.order[run.next])'
      BY <2>5 DEF Current
    <2>10. /\ DOMAIN run'.order = DOMAIN run.order /\ run'.next = run.next
           /\ run'.order = run.order
      BY <2>1
    <2> QED
      BY <2>8, <2>9, <2>10 DEF DoneInv, Published
  <1>6. CASE CommitEntry /\ run'.at \notin {"idle"}
    <2>1. /\ committed' = index /\ UNCHANGED <<source, index>> /\ run.at = "commit"
          /\ run'.next = run.next + 1 /\ run'.order = run.order /\ run'.at = "package"
      BY <1>0, <1>6 DEF CommitEntry, At, Idle, Run
    <2>2. \A k \in DOMAIN run.order : k < run.next + 1 => k < run.next \/ k = run.next
      BY <1>0 DEF Run
    <2> QED
      BY <2>1, <2>2 DEF DoneInv, Published
  <1>7. CASE UNCHANGED publishVars
    BY <1>7 DEF DoneInv, Published, publishVars
  <1>8. CASE Begin \/ Register \/ Stop \/ Tear
    <2>1. CASE Begin
      BY <1>1, <2>1 DEF Begin, Idle
    <2>2. CASE Register
      BY <1>0, <1>1, <2>2 DEF Register, At, Run
    <2>3. CASE Stop \/ Tear
      BY <1>1, <2>3 DEF Stop, Tear, Idle
    <2> QED
      BY <1>8, <2>1, <2>2, <2>3
  <1> QED
    BY <1>1, <1>2, <1>3, <1>4, <1>5, <1>6, <1>7, <1>8 DEF PublishNext

\* topological_sort and phase 2: the crates a crate of the run depends on are in
\* the committed index with their checksums when cargo packages it.
THEOREM PackagedInOrder == PublishSpec => []DependenciesFirst
  <1>1. PublishInit => DoneInv /\ OrderInv
    <2>1. \A s : s = <<>> => DOMAIN s = {}
      OBVIOUS
    <2> QED
      BY <2>1 DEF PublishInit, Idle, DoneInv, OrderInv, InSortedOrder
  <1>2. IInv /\ DoneInv /\ OrderInv => DependenciesFirst
    <2> SUFFICES ASSUME IInv, DoneInv, OrderInv, run.at = "package",
                        NEW d \in WorkspaceDeps(Lines(run.order)), d.from = Current
                 PROVE  \E l \in Lines(committed[d.to]) : l.vers = source[d.to].vers
                                                          /\ l.cksum # Placeholder
      BY DEF DependenciesFirst
    <2>1. run.next \in DOMAIN run.order /\ Current = run.order[run.next]
      BY DEF IInv, RunInv, InOrder, Current
    <2>2. PICK j \in DOMAIN run.order : j < run.next /\ run.order[j] = d.to
      BY <2>1 DEF OrderInv, InSortedOrder
    <2>3. Published(committed[d.to], d.to)
      BY <2>2 DEF DoneInv
    <2> QED
      BY <2>3 DEF Published, Lines
  <1> QED
    BY <1>1, <1>2, Initially, StepKeeps, DoneKeeps, OrderKeeps, PTL DEF PublishSpec

-----------------------------------------------------------------------------
\* The crates are in directories that are there.
DiskInv == \A p \in Packages : disk[p] \in dirs

LEMMA MoveDirKeeps ==
    ASSUME DiskInv, NEW from, NEW to, MoveDir(from, to) PROVE DiskInv'
  BY DEF DiskInv, MoveDir

LEMMA DiskKeeps == ASSUME DiskInv, [WsNext]_wsVars PROVE DiskInv'
  <1>1. ASSUME NEW from, NEW to, MoveDir(from, to) PROVE DiskInv'
    BY <1>1, MoveDirKeeps
  <1>2. CASE UNCHANGED <<disk, dirs>>
    BY <1>2 DEF DiskInv
  <1>3. CASE RenameDir
    BY <1>1, <1>3 DEF RenameDir
  <1>4. CASE BulkMove
    BY <1>1, <1>2, <1>4 DEF BulkMove
  <1>5. CASE RenameFails \/ BulkFails
    BY <1>5 DEF RenameFails, BulkFails, MakeParents, DiskInv
  <1> QED
    BY <1>2, <1>3, <1>4, <1>5 DEF WsNext, UpdateCargoToml, BulkRename, UpdateCargoTomlBulk,
       Interrupt, Sync, wsVars

LEMMA SyncFinds == ASSUME DiskInv, Sync PROVE SyncRepairs'
  <1> DEFINE Lost(i) == ~Exists(members[i]) /\ FindCrateByName(members[i]) # {}
             New(i) == disk[CHOOSE p \in FindCrateByName(members[i]) : TRUE]
  <1>1. /\ members' = [i \in DOMAIN members |-> IF Lost(i) THEN New(i) ELSE members[i]]
        /\ UNCHANGED dirs
    BY DEF Sync
  <1> SUFFICES ASSUME NEW i \in DOMAIN members
               PROVE  Exists(members'[i]) \/ FileName(members'[i]) \notin Packages
    BY <1>1 DEF SyncRepairs, Members, Exists
  <1>2. CASE Lost(i)
    <2>1. (CHOOSE p \in FindCrateByName(members[i]) : TRUE) \in Packages
      BY <1>2 DEF FindCrateByName
    <2> QED
      BY <1>1, <1>2, <2>1 DEF DiskInv, Exists
  <1>3. CASE ~Lost(i)
    <2>1. members'[i] = members[i]
      BY <1>1, <1>3
    <2>2. Exists(members[i]) \/ FileName(members[i]) \notin Packages
      BY <1>3 DEF FindCrateByName
    <2> QED
      BY <2>1, <2>2
  <1> QED
    BY <1>2, <1>3

\* sync: a member that leads nowhere afterwards is one whose last part is the
\* name of no crate.
THEOREM SyncFindsCrates == WsSpec => []SyncRepairs
  <1>1. WsInit => DiskInv /\ SyncRepairs
    BY DEF WsInit, DiskInv, SyncRepairs, Resting
  <1>2. DiskInv /\ SyncRepairs /\ [WsNext]_wsVars => DiskInv' /\ SyncRepairs'
    <2> SUFFICES ASSUME DiskInv, SyncRepairs, [WsNext]_wsVars PROVE SyncRepairs'
      BY DiskKeeps
    <2>1. CASE cmd'.at # "synced"
      BY <2>1 DEF SyncRepairs
    <2>2. CASE Sync
      BY <2>2, SyncFinds
    <2>3. CASE UNCHANGED wsVars
      <3>1. UNCHANGED <<cmd, dirs, members>>
        BY <2>3 DEF wsVars
      <3> QED
        BY <3>1 DEF SyncRepairs, Members, Exists
    <2>4. CASE RenameDir \/ RenameFails \/ BulkRename
      <3>1. \E at \in {"rename", "idle", "bulk"} : \E paths : Command(at, paths)
        <4>1. RenameDir => \E paths : Command("rename", paths)
          BY DEF RenameDir
        <4>2. RenameFails => \E paths : Command("idle", paths)
          BY DEF RenameFails
        <4>3. BulkRename => \E paths : Command("bulk", paths)
          BY Zenon DEF BulkRename
        <4> QED
          BY <2>4, <4>1, <4>2, <4>3
      <3>2. cmd'.at # "synced"
        BY <3>1 DEF Command
      <3> QED
        BY <3>2 DEF SyncRepairs
    <2>5. CASE UpdateCargoToml \/ UpdateCargoTomlBulk \/ BulkFails \/ Interrupt
      <3>1. cmd' = Resting
        BY <2>5 DEF UpdateCargoToml, UpdateCargoTomlBulk, BulkFails, Interrupt
      <3>2. Resting.at # "synced"
        BY DEF Resting
      <3> QED
        BY <3>1, <3>2 DEF SyncRepairs
    <2>6. CASE BulkMove
      <3>1. cmd.at = "bulk" /\ cmd' = [cmd EXCEPT !.left = @ - 1]
        BY <2>6 DEF BulkMove
      <3>2. cmd'.at = cmd.at
        BY <3>1
      <3> QED
        BY <2>1, <3>1, <3>2
    <2> QED
      BY <2>2, <2>3, <2>4, <2>5, <2>6 DEF WsNext
  <1> QED
    BY <1>1, <1>2, PTL DEF WsSpec

-----------------------------------------------------------------------------
\* Text from a place on.
LEMMA FromText ==
    ASSUME NEW path \in Path
    PROVE  /\ From(path, 1) = path /\ From(path, Len(path) + 1) = <<>>
           /\ \A k \in 1..Len(path) + 1 : From(path, k) \in Path
           /\ \A k \in 1..Len(path) : From(path, k) = <<path[k]>> \o From(path, k + 1)
  <1>1. Len(path) \in Nat
    BY DEF Path
  <1>2. From(path, 1) = path
    BY SubSeqFull DEF Path, From
  <1>3. From(path, Len(path) + 1) = <<>>
    BY <1>1, SubSeqEmpty DEF From
  <1>4. \A k \in 1..Len(path) + 1 : From(path, k) \in Path
    <2> SUFFICES ASSUME NEW k \in 1..Len(path) + 1 PROVE From(path, k) \in Path
      OBVIOUS
    <2>1. \A i \in k..Len(path) : path[i] \in Letter
      BY <1>1 DEF Path
    <2> QED
      BY <1>1, <2>1, SubSeqProperties DEF Path, From
  <1>5. ASSUME NEW k \in 1..Len(path) PROVE From(path, k) = <<path[k]>> \o From(path, k + 1)
    <2>1. Len(path) \in k..Len(path)
      BY <1>1
    <2> QED
      BY <2>1, SubSeqRecursiveFirst DEF Path, From
  <1> QED
    BY <1>2, <1>3, <1>4, <1>5

\* What a text begins with is no longer than it.
LEMMA BeginsText ==
    ASSUME NEW path \in Path, NEW from \in Path \ {<<>>}, StartsWith(path, from)
    PROVE  Len(from) \in 1..Len(path)
  <1>1. Len(from) \in Nat /\ Len(from) # 0
    BY DEF Path
  <1> QED
    BY <1>1 DEF StartsWith

\* A directory above a path, as text, is at its beginning.
LEMMA UnderText ==
    ASSUME NEW path \in Path, NEW from \in Path \ {<<>>}, Under(path, from)
    PROVE  StartsWith(path, from)
  <1>1. CASE path = from
    BY <1>1, SubSeqFull DEF StartsWith, Path
  <1>2. CASE StartsWith(path, from \o Slash)
    <2> DEFINE n == Len(from)
    <2>1. PICK t \in Path : t = from \o Slash
      <3>1. <<"/">> \in Seq(Letter)
        BY LayoutAssumption
      <3> QED
        BY <3>1, ConcatProperties DEF Path, Slash
    <2>2. Len(t) = n + 1 /\ n \in Nat /\ Len(path) \in Nat
      BY <2>1 DEF Slash, Path
    <2>3. n + 1 <= Len(path) /\ SubSeq(path, 1, n + 1) = t
      BY <1>2, <2>1, <2>2 DEF StartsWith
    <2>4. \A i \in 1..n : path[i] = from[i]
      BY <2>1, <2>2, <2>3 DEF Path, Slash
    <2>5. SubSeq(path, 1, n) \in Path /\ Len(SubSeq(path, 1, n)) = n
          /\ \A i \in 1..n : SubSeq(path, 1, n)[i] = path[i]
      <3>1. \A i \in 1..n : path[i] \in Letter
        BY <2>2, <2>3 DEF Path
      <3> QED
        BY <2>2, <3>1, SubSeqProperties DEF Path
    <2>6. SubSeq(path, 1, n) = from
      BY <2>4, <2>5, SeqEqual DEF Path
    <2> QED
      BY <2>2, <2>3, <2>6 DEF StartsWith
  <1> QED
    BY <1>1, <1>2 DEF Under

Replaced(f, path, from, to) ==
    f = [i \in 1..Len(path) + 1 |->
            IF i > Len(path) THEN <<>>
            ELSE IF StartsWith(From(path, i), from)
            THEN to \o f[i + Len(from)] ELSE <<path[i]>> \o f[i + 1]]

\* str::replace on a path that is not ambiguous is what fs::rename does to what
\* is in the directory.
LEMMA ReplaceRebases ==
    ASSUME NEW path \in Path, NEW from \in Path \ {<<>>}, NEW to \in Path,
           ~Ambiguous(path, from)
    PROVE  Replace(path, from, to) = Rebase(path, from, to)
  <1> DEFINE n == Len(path)
             Occurs(i) == StartsWith(From(path, i), from)
             whole == Rebase(path, from, to)
  <1>1. n \in Nat /\ DOMAIN path = 1..n
    BY DEF Path
  <1>2. \A i \in 2..n : ~Occurs(i)
    BY <1>1 DEF Ambiguous
  <1>3. 1 <= n /\ Occurs(1) => Under(path, from)
    BY <1>1 DEF Ambiguous
  <1>4. Under(path, from) => n >= 1 /\ Occurs(1) /\ Len(from) \in 1..n
    BY <1>1, UnderText, BeginsText, FromText
  <1>5. whole = IF Under(path, from) THEN to \o From(path, Len(from) + 1) ELSE path
    BY DEF Rebase
  <1>6. /\ From(path, 1) = path /\ From(path, n + 1) = <<>>
        /\ \A k \in 1..n : From(path, k) = <<path[k]>> \o From(path, k + 1)
    BY FromText
  <1>7. Len(from) \in Nat
    BY DEF Path
  <1> HIDE DEF n, Occurs, whole
  <1>8. \E f : Replaced(f, path, from, to)
    <2> DEFINE f == [i \in 1..n + 1 |-> IF i = 1 THEN whole ELSE From(path, i)]
    <2>1. ASSUME NEW i \in 1..n + 1
          PROVE  f[i] = IF i > n THEN <<>>
                        ELSE IF Occurs(i) THEN to \o f[i + Len(from)]
                        ELSE <<path[i]>> \o f[i + 1]
      <3>1. CASE i > n
        <4>1. i = n + 1
          BY <1>1, <3>1
        <4>2. i = 1 => path = <<>> /\ whole = <<>>
          BY <1>1, <1>4, <1>5, <1>6, <4>1
        <4> QED
          BY <1>1, <1>6, <3>1, <4>1, <4>2
      <3>2. CASE i <= n /\ i # 1
        <4>1. i \in 2..n /\ i + 1 \in 1..n + 1 /\ i + 1 # 1 /\ ~(i > n)
          BY <1>1, <3>2
        <4> QED
          BY <1>2, <1>6, <3>2, <4>1
      <3>3. CASE i = 1 /\ 1 <= n
        <4>1. CASE Under(path, from)
          <5>1. Len(from) + 1 \in 1..n + 1 /\ Len(from) + 1 # 1
                /\ i + Len(from) = Len(from) + 1
            BY <1>1, <1>4, <3>3, <4>1
          <5>2. f[i + Len(from)] = From(path, Len(from) + 1)
            BY <5>1
          <5> QED
            BY <1>1, <1>4, <1>5, <3>3, <4>1, <5>2
        <4>2. CASE ~Under(path, from)
          <5>1. 2 \in 1..n + 1 /\ ~Occurs(1)
            BY <1>1, <1>3, <3>3, <4>2
          <5>2. path = <<path[1]>> \o From(path, 1 + 1)
            BY <1>1, <1>6, <3>3
          <5> QED
            BY <1>1, <1>5, <3>3, <4>2, <5>1, <5>2
        <4> QED
          BY <4>1, <4>2
      <3> QED
        BY <1>1, <3>1, <3>2, <3>3
    <2>2. f = [i \in 1..n + 1 |-> IF i > n THEN <<>>
                        ELSE IF Occurs(i) THEN to \o f[i + Len(from)]
                        ELSE <<path[i]>> \o f[i + 1]]
      BY <2>1
    <2> HIDE DEF f
    <2> QED
      BY <2>2 DEF Replaced, n, Occurs
  <1>9. PICK rest : Replaced(rest, path, from, to) /\ Replace(path, from, to) = rest[1]
    <2> DEFINE rest == CHOOSE f : Replaced(f, path, from, to)
    <2>1. Replaced(rest, path, from, to)
      BY <1>8
    <2>2. Replace(path, from, to) = rest[1]
      BY DEF Replace, Replaced
    <2> QED
      BY <2>1, <2>2
  <1>10. \A i \in 1..n + 1 : rest[i] = IF i > n THEN <<>>
                        ELSE IF Occurs(i) THEN to \o rest[i + Len(from)]
                        ELSE <<path[i]>> \o rest[i + 1]
    BY <1>9 DEF Replaced, n, Occurs
  <1> DEFINE I == {k \in Nat : k < n => rest[n + 1 - k] = From(path, n + 1 - k)}
  <1>11. 0 \in I
    <2>1. n + 1 \in 1..n + 1 /\ n + 1 > n /\ n + 1 - 0 = n + 1
      BY <1>1
    <2>2. rest[n + 1] = <<>>
      BY <1>10, <2>1
    <2> QED
      BY <1>6, <2>1, <2>2
  <1>12. ASSUME NEW k \in Nat, k \in I PROVE k + 1 \in I
    <2> SUFFICES ASSUME k + 1 < n PROVE rest[n + 1 - (k + 1)] = From(path, n + 1 - (k + 1))
      OBVIOUS
    <2> DEFINE i == n - k
    <2>1. i \in 2..n /\ i + 1 \in 1..n + 1 /\ n + 1 - (k + 1) = i /\ n + 1 - k = i + 1
          /\ i \in 1..n + 1 /\ i \in 1..n /\ ~(i > n) /\ k < n
      BY <1>1
    <2>2. rest[i + 1] = From(path, i + 1)
      BY <1>12, <2>1
    <2> HIDE DEF i
    <2>3. rest[i] = <<path[i]>> \o rest[i + 1]
      BY <1>2, <1>10, <2>1
    <2> QED
      BY <1>6, <2>1, <2>2, <2>3
  <1>13. \A i \in 2..n + 1 : rest[i] = From(path, i)
    <2> SUFFICES ASSUME NEW i \in 2..n + 1 PROVE rest[i] = From(path, i)
      OBVIOUS
    <2>1. n + 1 - i \in Nat /\ n + 1 - i < n /\ n + 1 - (n + 1 - i) = i
      BY <1>1
    <2> HIDE DEF I
    <2>2. n + 1 - i \in I
      BY <1>11, <1>12, <2>1, Induction
    <2> QED
      BY <2>1, <2>2 DEF I
  <1> HIDE DEF I
  <1>14. rest[1] = whole
    <2>1. CASE n = 0
      BY <2>1, <1>1, <1>4, <1>5, <1>6, <1>10
    <2>2. CASE n # 0 /\ Under(path, from)
      <3>1. 1 + Len(from) \in 2..n + 1 /\ 1 + Len(from) = Len(from) + 1
        BY <1>1, <1>4, <2>2
      <3>2. rest[1 + Len(from)] = From(path, Len(from) + 1)
        BY <1>13, <3>1
      <3>3. 1 \in 1..n + 1 /\ ~(1 > n) /\ Occurs(1)
        BY <1>1, <1>4, <2>2
      <3>4. rest[1] = to \o rest[1 + Len(from)]
        BY <1>10, <3>3
      <3> QED
        BY <1>5, <2>2, <3>2, <3>4
    <2>3. CASE n # 0 /\ ~Under(path, from)
      <3>1. 2 \in 2..n + 1 /\ 1 \in 1..n /\ ~Occurs(1) /\ ~(1 > n) /\ 1 \in 1..n + 1
        BY <1>1, <1>3, <2>3
      <3>2. rest[2] = From(path, 1 + 1)
        BY <1>13, <3>1
      <3>3. rest[1] = <<path[1]>> \o rest[1 + 1]
        BY <1>10, <3>1
      <3> QED
        BY <1>5, <1>6, <2>3, <3>1, <3>2, <3>3
    <2> QED
      BY <2>1, <2>2, <2>3
  <1> QED
    BY <1>9, <1>14 DEF whole

-----------------------------------------------------------------------------
\* Moving a directory leaves paths paths.
LEMMA RebaseTyped ==
    ASSUME NEW path \in Path, NEW from \in Path \ {<<>>}, NEW to \in Path
    PROVE  Rebase(path, from, to) \in Path
  <1>1. CASE Under(path, from)
    <2>1. Len(from) \in 1..Len(path)
      BY <1>1, UnderText, BeginsText
    <2>2. Len(from) + 1 \in 1..Len(path) + 1
      BY <2>1 DEF Path
    <2>3. From(path, Len(from) + 1) \in Path
      BY <2>2, FromText
    <2> QED
      BY <1>1, <2>3, ConcatProperties DEF Rebase, Path
  <1>2. CASE ~Under(path, from)
    BY <1>2 DEF Rebase
  <1> QED
    BY <1>1, <1>2

\* Cargo.toml is the directories, or, while a rename has moved one and not yet
\* written it, the directories as they were.
Moved(from, to) ==
    /\ Members = {deps[p] : p \in Packages}
    /\ disk = [p \in Packages |-> Rebase(deps[p], from, to)]
    /\ \A p \in Packages : ~Ambiguous(deps[p], from)
TomlTyped == deps \in [Packages -> Path] /\ members \in Seq(Path)
TomlInv ==
    /\ cmd.at \in {"idle", "synced", "rename"}
    /\ Ended => RenameKeepsPaths
    /\ cmd.at = "rename" => /\ cmd.paths[1] \in Renames
                            /\ Moved(cmd.paths[1][1], cmd.paths[1][2])
RenameInv == DiskInv /\ (untidy = {} => TomlTyped /\ TomlInv)

LEMMA RenameInvInit == WsInit => RenameInv
  <1> SUFFICES ASSUME WsInit PROVE RenameInv
    OBVIOUS
  <1> DEFINE paths == {Layout[p] : p \in Packages}
  <1>1. Layout \in [Packages -> Path] /\ paths \subseteq Path
    BY LayoutAssumption
  <1>2. PICK n \in Nat : Cardinality(paths) = n
    <2>1. IsFiniteSet(paths)
      <3>1. Layout \in Surjection(Packages, paths)
        BY <1>1 DEF Surjection
      <3> QED
        BY <3>1, LayoutAssumption, FS_Surjection
    <2> QED
      BY <2>1, FS_CardinalityType
  <1>3. members \in [1..n -> paths] /\ {members[i] : i \in DOMAIN members} = paths
    BY <1>2 DEF WsInit
  <1>4. members \in Seq(Path)
    <2>1. members \in [1..n -> Path]
      BY <1>1, <1>3
    <2> QED
      BY <2>1
  <1>5. DiskInv /\ disk = Layout /\ deps = Layout /\ cmd.at = "idle"
    BY DEF WsInit, DiskInv, Resting
  <1>6. Members = {disk[p] : p \in Packages}
    BY <1>3, <1>5 DEF Members
  <1> QED
    BY <1>1, <1>4, <1>5, <1>6 DEF RenameInv, TomlTyped, TomlInv, RenameKeepsPaths

LEMMA RenameDirKeeps == ASSUME RenameInv, RenameDir PROVE untidy' = {} => TomlTyped' /\ TomlInv'
  <1> SUFFICES ASSUME untidy' = {} PROVE TomlTyped' /\ TomlInv'
    OBVIOUS
  <1>1. PICK r \in Renames :
           /\ Command("rename", <<r>>) /\ MoveDir(Resolve(r[1]), Resolve(r[2]))
           /\ untidy' = untidy
                 \cup (IF Respelled(r) THEN {"respelled"} ELSE {})
                 \cup (IF \E path \in {members[i] : i \in DOMAIN members}
                                       \cup {deps[p] : p \in Packages} : Ambiguous(path, r[1])
                       THEN {"ambiguous"} ELSE {})
           /\ UNCHANGED <<members, deps>>
    BY DEF RenameDir
  <1>2. ~Respelled(r) /\ untidy = {} /\ \A p \in Packages : ~Ambiguous(deps[p], r[1])
    BY <1>1
  <1>3. Ended /\ Members = {disk[p] : p \in Packages} /\ deps = disk /\ TomlTyped
    BY <1>1, <1>2 DEF RenameInv, TomlInv, RenameKeepsPaths, Command
  <1>4. cmd'.at = "rename" /\ cmd'.paths[1] = r
    BY <1>1 DEF Command
  <1>5. disk' = [p \in Packages |-> Rebase(deps'[p], r[1], r[2])]
    <2>1. MoveDir(r[1], r[2])
      BY <1>1, <1>2 DEF Respelled
    <2> QED
      BY <1>1, <1>3, <2>1 DEF MoveDir
  <1>6. Members' = {deps'[p] : p \in Packages}
    BY <1>1, <1>3 DEF Members
  <1>7. \A p \in Packages : ~Ambiguous(deps'[p], r[1])
    BY <1>1, <1>2
  <1>8. Moved(r[1], r[2])'
    BY <1>5, <1>6, <1>7 DEF Moved
  <1> QED
    BY <1>1, <1>3, <1>4, <1>8 DEF TomlTyped, TomlInv, Ended

LEMMA RenameFailsKeeps ==
    ASSUME RenameInv, RenameFails PROVE untidy' = {} => TomlTyped' /\ TomlInv'
  <1> SUFFICES ASSUME untidy = {} PROVE TomlTyped' /\ TomlInv'
    BY DEF RenameFails
  <1>1. /\ Ended /\ cmd'.at = "idle"
        /\ UNCHANGED <<disk, members, deps, untidy>>
    BY DEF RenameFails, MakeParents, Command
  <1>2. TomlTyped /\ RenameKeepsPaths
    BY <1>1 DEF RenameInv, TomlInv
  <1> QED
    BY <1>1, <1>2 DEF TomlTyped, TomlInv, RenameKeepsPaths, Members, Ended

LEMMA UpdateKeeps == ASSUME RenameInv, UpdateCargoToml PROVE untidy' = {} => TomlTyped' /\ TomlInv'
  <1> SUFFICES ASSUME untidy = {} PROVE TomlTyped' /\ TomlInv'
    BY DEF UpdateCargoToml
  <1> DEFINE from == cmd.paths[1][1]
             to == cmd.paths[1][2]
             Touched(i) == StartsWith(members[i], from) \/ ContainsText(members[i], Slash \o from)
  <1>1. /\ cmd.at = "rename"
        /\ members' = [i \in DOMAIN members |->
                          IF Touched(i) THEN Replace(members[i], from, to) ELSE members[i]]
        /\ deps' = [p \in Packages |-> Replace(deps[p], from, to)]
        /\ cmd' = Resting /\ UNCHANGED disk
    BY DEF UpdateCargoToml, UpdateDependencyPaths
  <1>2. TomlTyped /\ cmd.paths[1] \in Renames /\ Moved(from, to)
    BY <1>1 DEF RenameInv, TomlInv
  <1>3. from \in Path \ {<<>>} /\ to \in Path
    <2>1. cmd.paths[1] \in (Path \ {<<>>}) \X Path
      BY <1>2, ArgumentAssumption
    <2> QED
      BY <2>1
  <1> HIDE DEF from, to
  <1>4. ASSUME NEW p \in Packages
        PROVE  /\ Replace(deps[p], from, to) = Rebase(deps[p], from, to)
               /\ Rebase(deps[p], from, to) \in Path
               /\ disk[p] = Rebase(deps[p], from, to)
               /\ ~StartsWith(deps[p], from) => Rebase(deps[p], from, to) = deps[p]
    <2>1. deps[p] \in Path /\ ~Ambiguous(deps[p], from)
      BY <1>2 DEF TomlTyped, Moved
    <2>2. disk[p] = Rebase(deps[p], from, to)
      BY <1>2 DEF Moved
    <2>3. ~StartsWith(deps[p], from) => Rebase(deps[p], from, to) = deps[p]
      BY <1>3, <2>1, UnderText DEF Rebase
    <2> QED
      BY <1>3, <2>1, <2>2, <2>3, ReplaceRebases, RebaseTyped
  <1>5. deps' = disk /\ deps' \in [Packages -> Path]
    <2>1. disk = [p \in Packages |-> Rebase(deps[p], from, to)]
      BY <1>2 DEF Moved
    <2> QED
      BY <1>1, <1>4, <2>1
  <1>6. \A i \in DOMAIN members : \A p \in Packages : members[i] = deps[p] => members'[i] = disk[p]
    BY <1>1, <1>4
  <1>7. Members = {deps[p] : p \in Packages} /\ DOMAIN members' = DOMAIN members
    BY <1>1, <1>2 DEF Moved
  <1>8. \A i \in DOMAIN members : \E p \in Packages : members[i] = deps[p]
    BY <1>7 DEF Members
  <1>9. \A p \in Packages : \E i \in DOMAIN members : members[i] = deps[p]
    BY <1>7 DEF Members
  <1>10. \A i \in DOMAIN members : \E p \in Packages : members'[i] = disk[p]
    BY <1>6, <1>8
  <1>11. \A p \in Packages : \E i \in DOMAIN members : members'[i] = disk[p]
    BY <1>6, <1>9
  <1>12. Members' = {disk[p] : p \in Packages}
    BY <1>7, <1>10, <1>11 DEF Members
  <1>13. members' \in Seq(Path)
    <2>1. PICK n \in Nat : DOMAIN members = 1..n
      BY <1>2 DEF TomlTyped
    <2>2. \A i \in 1..n : members'[i] \in Path
      BY <1>4, <1>10, <2>1
    <2>3. members' \in [1..n -> Path]
      BY <1>1, <2>1, <2>2
    <2> QED
      BY <2>3
  <1>14. cmd'.at = "idle" /\ UNCHANGED disk
    BY <1>1 DEF Resting
  <1> QED
    BY <1>5, <1>12, <1>13, <1>14 DEF TomlTyped, TomlInv, RenameKeepsPaths, Ended

LEMMA SyncKeeps == ASSUME RenameInv, Sync PROVE untidy' = {} => TomlTyped' /\ TomlInv'
  <1> SUFFICES ASSUME untidy = {} PROVE TomlTyped' /\ TomlInv'
    BY DEF Sync
  <1> DEFINE Lost(i) == ~Exists(members[i]) /\ FindCrateByName(members[i]) # {}
             New(i) == disk[CHOOSE p \in FindCrateByName(members[i]) : TRUE]
             n == Len(members)
             Runs(f) == f = [i \in 0..n |->
                 IF i = 0 THEN deps
                 ELSE IF Lost(i) THEN UpdateDependencyPaths(f[i - 1], members[i], New(i))
                 ELSE f[i - 1]]
             synced == CHOOSE f : Runs(f)
  <1>1. /\ Command("synced", <<>>)
        /\ members' = [i \in DOMAIN members |-> IF Lost(i) THEN New(i) ELSE members[i]]
        /\ deps' = synced[n]
        /\ UNCHANGED disk
    BY DEF Sync
  <1>2. TomlTyped /\ Members = {disk[p] : p \in Packages} /\ deps = disk
    BY <1>1 DEF RenameInv, TomlInv, RenameKeepsPaths, Command
  <1>3. n \in Nat /\ DOMAIN members = 1..n
    BY <1>2 DEF TomlTyped
  <1>4. \A i \in 1..n : ~Lost(i)
    BY <1>2, <1>3 DEF RenameInv, DiskInv, Members, Exists
  <1> HIDE DEF n, Lost, New
  <1>5. members' = members
    <2>1. members' = [i \in 1..n |-> members[i]]
      BY <1>1, <1>3, <1>4
    <2> QED
      BY <1>2, <1>3, <2>1 DEF TomlTyped
  <1>6. deps' = deps
    <2>1. \E f : Runs(f)
      <3>1. Runs([i \in 0..n |-> deps])
        BY <1>3, <1>4
      <3> HIDE DEF Runs
      <3> QED
        BY <3>1
    <2>2. Runs(synced)
      <3> HIDE DEF Runs
      <3> QED
        BY <2>1
    <2> HIDE DEF synced
    <2>3. \A i \in 0..n : synced[i] = IF i = 0 THEN deps ELSE synced[i - 1]
      BY <1>3, <1>4, <2>2
    <2> DEFINE I == {i \in Nat : i <= n => synced[i] = deps}
    <2>4. 0 \in I
      BY <1>3, <2>3
    <2>5. \A i \in Nat : i \in I => i + 1 \in I
      BY <1>3, <2>3
    <2> HIDE DEF I
    <2>6. n \in I
      BY <1>3, <2>4, <2>5, Induction
    <2> QED
      BY <1>1, <1>3, <2>6 DEF I
  <1>7. cmd'.at = "synced"
    BY <1>1 DEF Command
  <1>8. Members' = Members
    BY <1>5 DEF Members
  <1> QED
    BY <1>1, <1>2, <1>5, <1>6, <1>7, <1>8 DEF TomlTyped, TomlInv, RenameKeepsPaths, Ended

LEMMA RenameInvKeeps == RenameInv /\ [WsNext]_wsVars => RenameInv'
  <1> SUFFICES ASSUME RenameInv, [WsNext]_wsVars PROVE untidy' = {} => TomlTyped' /\ TomlInv'
    BY DiskKeeps DEF RenameInv
  <1>1. CASE RenameDir
    BY <1>1, RenameDirKeeps
  <1>2. CASE UpdateCargoToml
    BY <1>2, UpdateKeeps
  <1>3. CASE BulkRename \/ BulkFails \/ Interrupt
    BY <1>3 DEF BulkRename, BulkFails, Interrupt
  <1>4. CASE BulkMove \/ UpdateCargoTomlBulk
    <2>1. cmd.at = "bulk" /\ untidy' = untidy
      BY <1>4 DEF BulkMove, UpdateCargoTomlBulk
    <2> QED
      BY <2>1 DEF RenameInv, TomlInv
  <1>5. CASE Sync
    BY <1>5, SyncKeeps
  <1>6. CASE UNCHANGED wsVars
    <2>1. UNCHANGED <<disk, members, deps, cmd, untidy>>
      BY <1>6 DEF wsVars
    <2>2. TomlTyped' = TomlTyped
      BY <2>1 DEF TomlTyped
    <2>3. Members' = Members /\ Ended' = Ended
      BY <2>1 DEF Members, Ended
    <2>4. RenameKeepsPaths => RenameKeepsPaths'
      BY <2>1, <2>3 DEF RenameKeepsPaths
    <2>5. ASSUME NEW from, NEW to, Moved(from, to) PROVE Moved(from, to)'
      BY <2>1, <2>3, <2>5 DEF Moved
    <2>6. TomlInv => TomlInv'
      BY <2>1, <2>3, <2>4, <2>5 DEF TomlInv
    <2> QED
      BY <2>1, <2>2, <2>6 DEF RenameInv
  <1>7. CASE RenameFails
    BY <1>7, RenameFailsKeeps
  <1> QED
    BY <1>1, <1>2, <1>3, <1>4, <1>5, <1>6, <1>7 DEF WsNext

\* rename, mv and sync leave the members and the dependencies the crates'
\* directories, whichever moves fail, if directories are spelled as Cargo.toml
\* spells them, no path's text is ambiguous and no command is cut short.
THEOREM RenamesKeepPaths == WsSpec => []RenameKeepsPaths
  <1>1. RenameInv => RenameKeepsPaths
    BY DEF RenameInv, TomlInv, RenameKeepsPaths
  <1> QED
    BY <1>1, RenameInvInit, RenameInvKeeps, PTL DEF WsSpec
=============================================================================
