---------------------------- MODULE ServiceProofs ----------------------------
(***************************************************************************)
(* Proofs about MemoryDatabase, DaemonRunner, ConsoleNotifier,             *)
(* RetryMiddleware, RestClient and Configuration, for any value of their   *)
(* constants.  Each section starts with the inductive invariant of its     *)
(* component.                                                              *)
(***************************************************************************)
EXTENDS MemoryDatabase, DaemonRunner, ConsoleNotifier, RetryMiddleware,
        RestClient, Configuration, SequenceTheorems, FiniteSetTheorems,
        WellFoundedInduction, TLAPS

\* MemoryDatabase.  RowsUnderTheirIds needs that a call which waits for the
\* write lock finds its table, RowsAddUp that tables are finite and that the rows
\* a batch counts are as many as the rows it adds, and PagesAreTheTable that a
\* reader's pages are the beginning of one listing of the table.

\* Tables are kept by id, and a call that has run ensure_table has its table:
\* no operation takes one away.
DbInv ==
    /\ DOMAIN tables \subseteq Table
    /\ \A t \in DOMAIN tables : DOMAIN tables[t] \subseteq Id
    /\ DOMAIN call = Client
    /\ \A c \in Client : call[c] # NoCall =>
          /\ call[c].table \in DOMAIN tables
          /\ call[c].records \in Seq(Inserts)
    /\ reported \in [Table -> Int]

-----------------------------------------------------------------------------
LEMMA IdsFinite == IsFiniteSet(Id)
  <1>1. Id \in SUBSET Value
    BY DEF Id
  <1> QED
    BY <1>1, ValueAssumption, FS_Subset

\* Rows that are added to a table.
LEMMA AddedRows ==
    ASSUME NEW t \in DOMAIN tables, NEW records, NEW ids, NEW added,
           NEW new, new = AddRows(t, records, ids, added)
    PROVE  /\ DOMAIN new = DOMAIN tables
           /\ \A u \in DOMAIN tables : u # t => new[u] = tables[u]
           /\ DOMAIN new[t] = DOMAIN tables[t] \cup {ids[i] : i \in added}
           /\ \A k \in DOMAIN new[t] :
                 IF k \in DOMAIN tables[t] THEN new[t][k] = tables[t][k]
                 ELSE \E i \in added : new[t][k] = WithId(records[i], k)
  BY DEF AddRows

LEMMA HasItsId == ASSUME NEW r, NEW k PROVE Get(WithId(r, k), IdField) = k
  BY DEF Get, WithId

\* A call that waits keeps its table.
LEMMA CallsKept ==
    ASSUME DbInv, NEW c \in Client, DOMAIN tables \subseteq DOMAIN tables',
           call' = [call EXCEPT ![c] = NoCall]
    PROVE  /\ DOMAIN call' = Client
           /\ \A d \in Client : call'[d] # NoCall =>
                 /\ call'[d].table \in DOMAIN tables'
                 /\ call'[d].records \in Seq(Inserts)
  BY DEF DbInv

\* The rows a batch accepts have ids of their own, that no row had.
LEMMA AcceptedRows ==
    ASSUME NEW records \in Seq(Inserts), NEW taken \in SUBSET Id,
           NEW ids \in [1..Len(records) -> Id]
    PROVE  LET added == Accepted(ids, taken)
               new == {ids[i] : i \in added}
           IN  /\ new \subseteq Id /\ new \cap taken = {}
               /\ IsFiniteSet(new) /\ Cardinality(new) = Cardinality(added)
  <1> DEFINE added == Accepted(ids, taken)
             new == {ids[i] : i \in added}
             f == [i \in added |-> ids[i]]
  <1>1. added \subseteq 1..Len(records) /\ Len(records) \in Nat
    BY DEF Accepted
  <1>2. new \subseteq Id /\ new \cap taken = {}
    BY <1>1 DEF Accepted
  <1>3. \A i, j \in added : ids[i] = ids[j] => i = j
    BY <1>1 DEF Accepted
  <1>4. IsFiniteSet(added)
    <2>1. IsFiniteSet(1..Len(records))
      BY <1>1, FS_Interval
    <2> QED
      BY <1>1, <2>1, FS_Subset
  <1>5. ExistsBijection(added, new)
    <2>1. f \in [added -> new]
      OBVIOUS
    <2>2. \A i, j \in added : f[i] = f[j] => i = j
      BY <1>3
    <2>3. \A k \in new : \E i \in added : f[i] = k
      OBVIOUS
    <2> HIDE DEF added, new, f
    <2> QED
      BY <2>1, <2>2, <2>3 DEF ExistsBijection, Bijection, Injection, Surjection, IsInjective
  <1> HIDE DEF added, new, f
  <1>6. IsFiniteSet(new) /\ Cardinality(new) = Cardinality(added)
    BY <1>4, <1>5, FS_Bijection
  <1> QED
    BY <1>2, <1>6 DEF added, new

-----------------------------------------------------------------------------
IInv == DbInv /\ RowsUnderTheirIds /\ RowsAddUp

LEMMA RowsFinite == ASSUME DbInv, NEW t \in Table
                    PROVE  /\ Rows(t) \subseteq Id /\ IsFiniteSet(Rows(t))
                           /\ Cardinality(Rows(t)) \in Nat
  <1>1. Rows(t) \in SUBSET Id
    BY DEF DbInv, Rows
  <1>2. IsFiniteSet(Rows(t))
    BY <1>1, IdsFinite, FS_Subset
  <1> QED
    BY <1>1, <1>2, FS_CardinalityType

LEMMA Initially == DbInit => IInv
  <1> SUFFICES ASSUME DbInit PROVE IInv
    OBVIOUS
  <1>1. PICK T \in SUBSET Table : tables = [t \in T |-> <<>>]
    BY DEF DbInit
  <1>2. DbInv
    BY <1>1 DEF DbInit, DbInv
  <1>3. RowsUnderTheirIds
    BY <1>1 DEF RowsUnderTheirIds
  <1>4. \A t \in Table : Rows(t) = {} /\ reported[t] = 0
    BY <1>1 DEF Rows, DbInit
  <1>5. RowsAddUp
    BY <1>4, FS_EmptySet DEF RowsAddUp
  <1> QED
    BY <1>2, <1>3, <1>5 DEF IInv

\* ensure_table puts an empty table where there is none.
LEMMA EnsureTableKeeps == ASSUME IInv, NEW c \in Client, EnsureTable(c) PROVE IInv'
  <1> USE DEF IInv
  <1>1. PICK t \in Table, r \in Inserts, s \in Inserts, op \in {"insert", "batch"} :
          /\ call' = [call EXCEPT ![c] =
                         [op |-> op, table |-> t,
                          records |-> IF op = "insert" THEN <<r>> ELSE <<r, s>>]]
          /\ tables' = IF t \in DOMAIN tables THEN tables
                       ELSE [u \in DOMAIN tables \cup {t} |->
                                IF u = t THEN <<>> ELSE tables[u]]
    BY DEF EnsureTable
  <1>2. UNCHANGED <<reported, inserted, renamed, pager>>
    BY DEF EnsureTable
  <1>3. /\ DOMAIN tables' = DOMAIN tables \cup {t}
        /\ \A u \in DOMAIN tables : tables'[u] = tables[u]
        /\ t \notin DOMAIN tables => DOMAIN tables'[t] = {}
    BY <1>1
  <1>4. /\ DOMAIN call' = Client
        /\ \A d \in Client : call'[d] # NoCall =>
              /\ call'[d].table \in DOMAIN tables'
              /\ call'[d].records \in Seq(Inserts)
    BY <1>1, <1>3 DEF DbInv
  <1>5. DbInv'
    BY <1>1, <1>2, <1>3, <1>4 DEF DbInv
  <1>6. RowsUnderTheirIds'
    BY <1>2, <1>3 DEF RowsUnderTheirIds
  <1>7. \A u \in Table : Rows(u)' = Rows(u)
    BY <1>3 DEF Rows
  <1>8. RowsAddUp'
    BY <1>2, <1>7 DEF RowsAddUp
  <1> QED
    BY <1>5, <1>6, <1>8

\* The rows stored are those counted, each under the id it has been given.
LEMMA StoreKeeps ==
    ASSUME IInv, NEW c \in Client, NEW op, Store(c, op) PROVE IInv'
  <1> USE DEF IInv
  <1>0. PICK t, records : t = call[c].table /\ records = call[c].records
    OBVIOUS
  <1>1. PICK ids \in IdsOf(records, DOMAIN tables[t]) :
          LET added == Accepted(ids, DOMAIN tables[t])
          IN  /\ tables' = AddRows(t, records, ids, added)
              /\ reported' = [reported EXCEPT ![t] = @ + Cardinality(added)]
    BY <1>0 DEF Store
  <1>2. /\ call' = [call EXCEPT ![c] = NoCall]
        /\ UNCHANGED renamed
    BY DEF Store
  <1> DEFINE added == Accepted(ids, DOMAIN tables[t])
             new == {ids[i] : i \in added}
  <1>3. t \in DOMAIN tables /\ t \in Table /\ records \in Seq(Inserts)
        /\ DOMAIN tables[t] \in SUBSET Id
    BY <1>0 DEF Store, DbInv
  <1>4. ids \in [1..Len(records) -> Id]
    BY DEF IdsOf
  <1>5. /\ new \subseteq Id /\ new \cap DOMAIN tables[t] = {}
        /\ IsFiniteSet(new) /\ Cardinality(new) = Cardinality(added)
    BY <1>3, <1>4, AcceptedRows
  <1>6. /\ DOMAIN tables' = DOMAIN tables
        /\ \A u \in DOMAIN tables : u # t => tables'[u] = tables[u]
        /\ DOMAIN tables'[t] = DOMAIN tables[t] \cup new
        /\ \A k \in DOMAIN tables'[t] :
              IF k \in DOMAIN tables[t] THEN tables'[t][k] = tables[t][k]
              ELSE \E i \in added : tables'[t][k] = WithId(records[i], k)
    BY <1>1, <1>3, AddedRows
  <1>7. reported' = [reported EXCEPT ![t] = @ + Cardinality(added)]
    BY <1>1
  <1> HIDE DEF added, new
  <1>8. Cardinality(added) \in Nat
    BY <1>5, FS_CardinalityType
  <1>9. /\ DOMAIN call' = Client
        /\ \A d \in Client : call'[d] # NoCall =>
              /\ call'[d].table \in DOMAIN tables'
              /\ call'[d].records \in Seq(Inserts)
    BY <1>2, <1>6, CallsKept
  <1>10. DbInv'
    <2>1. reported' \in [Table -> Int]
      BY <1>3, <1>7, <1>8 DEF DbInv
    <2>2. \A u \in DOMAIN tables' : DOMAIN tables'[u] \subseteq Id
      BY <1>3, <1>5, <1>6 DEF DbInv
    <2> QED
      BY <2>1, <2>2, <1>6, <1>9 DEF DbInv
  <1>11. RowsUnderTheirIds'
    <2> SUFFICES ASSUME NEW u \in DOMAIN tables, NEW k \in DOMAIN tables'[u]
                 PROVE  <<u, k>> \in renamed \/ Get(tables'[u][k], IdField) = k
      BY <1>2, <1>6 DEF RowsUnderTheirIds
    <2>1. CASE u # t
      BY <2>1, <1>6 DEF RowsUnderTheirIds
    <2>2. CASE u = t /\ k \in DOMAIN tables[t]
      BY <2>2, <1>6 DEF RowsUnderTheirIds
    <2>3. CASE u = t /\ k \notin DOMAIN tables[t]
      <3>1. PICK r : tables'[t][k] = WithId(r, k)
        BY <2>3, <1>6
      <3> QED
        BY <2>3, <3>1, HasItsId
    <2> QED
      BY <2>1, <2>2, <2>3
  <1>12. RowsAddUp'
    <2> SUFFICES ASSUME NEW u \in Table PROVE reported'[u] = Cardinality(Rows(u)')
      BY DEF RowsAddUp
    <2>1. CASE u # t
      <3>1. Rows(u)' = Rows(u)
        BY <2>1, <1>6 DEF Rows
      <3> QED
        BY <2>1, <3>1, <1>7 DEF RowsAddUp, DbInv
    <2>2. CASE u = t
      <3>1. Rows(t)' = Rows(t) \cup new /\ Rows(t) \cap new = {}
        BY <1>3, <1>5, <1>6 DEF Rows
      <3>2. IsFiniteSet(Rows(t)) /\ Cardinality(Rows(t)) \in Nat
        BY <1>3, RowsFinite
      <3>3. Cardinality(Rows(t) \cup new)
              = Cardinality(Rows(t)) + Cardinality(new) - Cardinality({})
        BY <3>1, <3>2, <1>5, FS_Union
      <3>4. Cardinality({}) = 0
        BY FS_EmptySet
      <3>5. reported'[t] = reported[t] + Cardinality(added)
        BY <1>3, <1>7 DEF DbInv
      <3>6. reported[t] = Cardinality(Rows(t))
        BY <1>3 DEF RowsAddUp
      <3> QED
        BY <2>2, <3>1, <3>2, <3>3, <3>4, <3>5, <3>6, <1>5, <1>8
    <2> QED
      BY <2>1, <2>2
  <1> QED
    BY <1>10, <1>11, <1>12

\* update and update_where: the rows stay; those whose id field may have been
\* set are in renamed.
LEMMA UpdateRowsKeeps ==
    ASSUME IInv, NEW t \in DOMAIN tables, NEW ids, NEW u, UpdateRows(t, ids, u)
    PROVE  IInv'
  <1> USE DEF IInv
  <1>1. /\ DOMAIN tables' = DOMAIN tables
        /\ \A s \in DOMAIN tables : DOMAIN tables'[s] = DOMAIN tables[s]
        /\ \A s \in DOMAIN tables : s # t => tables'[s] = tables[s]
        /\ \A k \in DOMAIN tables[t] :
              tables'[t][k] = IF k \in ids THEN Merge(tables[t][k], u) ELSE tables[t][k]
    BY DEF UpdateRows
  <1>2. /\ renamed' = IF IdField \in DOMAIN u THEN renamed \cup ({t} \X ids) ELSE renamed
        /\ UNCHANGED <<call, reported, inserted>>
    BY DEF UpdateRows
  <1>3. DbInv'
    BY <1>1, <1>2 DEF DbInv
  <1>4. RowsUnderTheirIds'
    <2> SUFFICES ASSUME NEW s \in DOMAIN tables, NEW k \in DOMAIN tables[s]
                 PROVE  <<s, k>> \in renamed' \/ Get(tables'[s][k], IdField) = k
      BY <1>1 DEF RowsUnderTheirIds
    <2>1. <<s, k>> \in renamed \/ Get(tables[s][k], IdField) = k
      BY DEF RowsUnderTheirIds
    <2>2. renamed \subseteq renamed'
      BY <1>2
    <2>3. CASE s # t \/ k \notin ids
      BY <2>1, <2>2, <2>3, <1>1
    <2>4. CASE s = t /\ k \in ids /\ IdField \in DOMAIN u
      BY <2>4, <1>2
    <2>5. CASE s = t /\ k \in ids /\ IdField \notin DOMAIN u
      <3>1. tables'[s][k] = Merge(tables[s][k], u)
        BY <2>5, <1>1
      <3>2. Get(Merge(tables[s][k], u), IdField) = Get(tables[s][k], IdField)
        BY <2>5 DEF Get, Merge
      <3> QED
        BY <2>1, <2>2, <3>1, <3>2
    <2> QED
      BY <2>3, <2>4, <2>5
  <1>5. \A s \in Table : Rows(s)' = Rows(s)
    BY <1>1 DEF Rows
  <1>6. RowsAddUp'
    BY <1>2, <1>5 DEF RowsAddUp
  <1> QED
    BY <1>3, <1>4, <1>6

\* delete and delete_where: what is counted is what is taken away.
LEMMA DeleteRowsKeeps ==
    ASSUME IInv, NEW t \in DOMAIN tables, NEW ids, DeleteRows(t, ids) PROVE IInv'
  <1> USE DEF IInv
  <1>1. /\ DOMAIN tables' = DOMAIN tables
        /\ \A s \in DOMAIN tables : s # t => tables'[s] = tables[s]
        /\ DOMAIN tables'[t] = DOMAIN tables[t] \ ids
        /\ \A k \in DOMAIN tables'[t] : tables'[t][k] = tables[t][k]
    BY DEF DeleteRows
  <1>2. /\ reported' = [reported EXCEPT ![t] = @ - Cardinality(ids \cap DOMAIN tables[t])]
        /\ renamed' = renamed \ ({t} \X ids)
        /\ UNCHANGED <<call, inserted>>
    BY DEF DeleteRows
  <1>3. t \in Table /\ Rows(t) = DOMAIN tables[t]
    BY DEF DbInv, Rows
  <1>4. IsFiniteSet(Rows(t)) /\ Cardinality(Rows(t)) \in Nat
    BY <1>3, RowsFinite
  <1> DEFINE gone == ids \cap DOMAIN tables[t]
             left == DOMAIN tables[t] \ ids
  <1>5. /\ IsFiniteSet(gone) /\ Cardinality(gone) \in Nat
        /\ IsFiniteSet(left) /\ Cardinality(left) \in Nat
    <2>1. gone \in SUBSET Rows(t) /\ left \in SUBSET Rows(t)
      BY <1>3
    <2> HIDE DEF gone, left
    <2>2. IsFiniteSet(gone) /\ IsFiniteSet(left)
      BY <1>4, <2>1, FS_Subset
    <2> QED
      BY <2>2, FS_CardinalityType
  <1>6. Cardinality(Rows(t)) = Cardinality(left) + Cardinality(gone)
    <2>1. Rows(t) = left \cup gone /\ left \cap gone = {}
      BY <1>3
    <2> HIDE DEF gone, left
    <2>2. Cardinality(left \cup gone)
            = Cardinality(left) + Cardinality(gone) - Cardinality({})
      BY <1>5, <2>1, FS_Union
    <2>3. Cardinality({}) = 0
      BY FS_EmptySet
    <2> QED
      BY <2>1, <2>2, <2>3, <1>5
  <1>7. reported' = [reported EXCEPT ![t] = @ - Cardinality(gone)]
    BY <1>2
  <1>8. DOMAIN tables'[t] = left
    BY <1>1
  <1> HIDE DEF gone, left
  <1>9. DbInv'
    <2>1. reported' \in [Table -> Int]
      BY <1>3, <1>5, <1>7 DEF DbInv
    <2> QED
      BY <2>1, <1>1, <1>2 DEF DbInv
  <1>10. RowsUnderTheirIds'
    BY <1>1, <1>2 DEF RowsUnderTheirIds
  <1>11. RowsAddUp'
    <2> SUFFICES ASSUME NEW s \in Table PROVE reported'[s] = Cardinality(Rows(s)')
      BY DEF RowsAddUp
    <2>1. CASE s # t
      <3>1. Rows(s)' = Rows(s)
        BY <2>1, <1>1 DEF Rows
      <3> QED
        BY <2>1, <3>1, <1>7 DEF RowsAddUp, DbInv
    <2>2. CASE s = t
      <3>1. Rows(t)' = left
        BY <1>1, <1>8 DEF Rows
      <3>2. reported'[t] = reported[t] - Cardinality(gone)
        BY <1>3, <1>7 DEF DbInv
      <3>3. reported[t] = Cardinality(Rows(t))
        BY <1>3 DEF RowsAddUp
      <3> QED
        BY <2>2, <3>1, <3>2, <3>3, <1>5, <1>6
    <2> QED
      BY <2>1, <2>2
  <1> QED
    BY <1>9, <1>10, <1>11

\* Every step keeps the invariant; readers change nothing.
LEMMA StepKeeps == IInv /\ [DbNext]_dbVars => IInv'
  <1> SUFFICES ASSUME IInv, [DbNext]_dbVars PROVE IInv'
    OBVIOUS
  <1>1. CASE \E c \in Client : EnsureTable(c) \/ Insert(c) \/ BatchInsert(c)
    BY <1>1, EnsureTableKeeps, StoreKeeps DEF Insert, BatchInsert
  <1>2. ASSUME NEW t \in Table, Update(t) \/ UpdateWhere(t) PROVE IInv'
    <2>1. PICK ids, u : UpdateRows(t, ids, u)
      BY <1>2 DEF Update, UpdateWhere
    <2>2. t \in DOMAIN tables
      BY <1>2 DEF Update, UpdateWhere, Rows
    <2> QED
      BY <2>1, <2>2, UpdateRowsKeeps
  <1>3. ASSUME NEW t \in Table, Delete(t) \/ DeleteWhere(t) PROVE IInv'
    <2>1. PICK ids : DeleteRows(t, ids)
      BY <1>3 DEF Delete, DeleteWhere
    <2> QED
      BY <2>1, <1>3, DeleteRowsKeeps DEF Delete, DeleteWhere
  <1>4. ASSUME UNCHANGED <<tables, call, reported, inserted, renamed>> PROVE IInv'
    BY <1>4 DEF IInv, DbInv, RowsUnderTheirIds, RowsAddUp, Rows
  <1>5. CASE \/ \E t \in Table : StartReading(t)
             \/ QueryPage \/ StopReading \/ UNCHANGED dbVars
    BY <1>4, <1>5 DEF StartReading, QueryPage, StopReading, dbVars
  <1> QED
    BY <1>1, <1>2, <1>3, <1>5 DEF DbNext

\* insert, batch_insert, update, update_where, delete and delete_where: a row is
\* found by its id field under its key unless an update has set that field.
THEOREM RowsKeepTheirIds == DbSpec => []RowsUnderTheirIds
  <1>1. IInv => RowsUnderTheirIds
    BY DEF IInv
  <1> QED
    BY <1>1, Initially, StepKeeps, PTL DEF DbSpec

\* The counts insert, batch_insert and the deletes report add up to the table,
\* for any number of clients: ensure_table and the write lock are two sections.
THEOREM ReportsAddUp == DbSpec => []RowsAddUp
  <1>1. IInv => RowsAddUp
    BY DEF IInv
  <1> QED
    BY <1>1, Initially, StepKeeps, PTL DEF DbSpec

-----------------------------------------------------------------------------
\* Two pages, one after the other, are the page of both.
LEMMA PagesJoin ==
    ASSUME NEW S, NEW s \in Seq(S), NEW m \in Nat, NEW n \in Nat \ {0}
    PROVE  /\ Paginate(s, m, n) \in Seq(S)
           /\ Paginate(s, 0, m) \in Seq(S)
           /\ Paginate(s, 0, m) \o Paginate(s, m, n) = Paginate(s, 0, m + n)
           /\ Paginate(s, m, n) = <<>> => m >= Len(s)
  <1> DEFINE page == Paginate(s, m, n)
             end(k) == IF k < Len(s) THEN k ELSE Len(s)
  <1>1. page = SubSeq(s, m + 1, end(m + n))
        /\ Paginate(s, 0, m) = SubSeq(s, 1, end(m))
        /\ Paginate(s, 0, m + n) = SubSeq(s, 1, end(m + n))
    BY DEF Paginate
  <1> HIDE DEF page
  <1>2. end(m) \in 0..Len(s) /\ end(m + n) \in 0..Len(s) /\ Len(s) \in Nat
    OBVIOUS
  <1>3. SubSeq(s, 1, end(m)) \in Seq(S)
    BY <1>2, SubSeqProperties
  <1>4. page \in Seq(S) /\ Len(page) = IF m + 1 <= end(m + n) THEN end(m + n) - m ELSE 0
    <2>1. \A i \in (m + 1)..end(m + n) : s[i] \in S
      BY <1>2
    <2> HIDE DEF end
    <2> QED
      BY <2>1, <1>1, <1>2, SubSeqProperties
  <1>5. SubSeq(s, 1, end(m)) \o page = SubSeq(s, 1, end(m + n))
    <2>1. CASE m <= Len(s)
      <3>1. end(m) = m /\ end(m + n) \in m..Len(s)
        BY <2>1
      <3>2. PICK e \in m..Len(s) : e = end(m + n)
        BY <3>1
      <3>3. 1 \in 1..Len(s) + 1 /\ m \in 1 - 1..Len(s)
        BY <2>1
      <3>4. SubSeq(s, 1, m) \o SubSeq(s, m + 1, e) = SubSeq(s, 1, e)
        BY <3>2, <3>3, ConcatAdjacentSubSeq
      <3> HIDE DEF end
      <3> QED
        BY <3>1, <3>2, <3>4, <1>1
    <2>2. CASE m > Len(s)
      <3>1. page = <<>> /\ end(m) = Len(s) /\ end(m + n) = Len(s)
        BY <2>2, <1>1, SubSeqEmpty
      <3> HIDE DEF end
      <3> QED
        BY <3>1, <1>3
    <2> QED
      BY <2>1, <2>2, <1>2
  <1>6. page = <<>> => m >= Len(s)
    BY <1>4
  <1> QED
    BY <1>1, <1>3, <1>4, <1>5, <1>6 DEF page

\* A row holds values: those it came with, those merged into it, and its id.
RowsTyped ==
    \A t \in DOMAIN tables : \A k \in DOMAIN tables[t] :
        \A f \in DOMAIN tables[t][k] : tables[t][k][f] \in Value

Reading == [table : Table, filters : Filters, order : Orders, limit : PageSize,
            listing : Seq(Id), read : Seq(Id), offset : Nat, done : BOOLEAN]

\* What a reader has read is the beginning of the table's listing, up to the
\* offset of its next page.
PagerInv ==
    pager # NoCall =>
        /\ pager \in Reading
        /\ pager.read = Paginate(pager.listing, 0, pager.offset)
        /\ pager.offset > 0 =>
              IsListing(pager.listing, pager.table, pager.filters, pager.order)
        /\ pager.done => pager.offset > 0 /\ pager.offset >= Len(pager.listing)

\* Of numbers and nulls, the comparison is by size, nulls last.
LEMMA CompareNumbers ==
    ASSUME NEW a, NEW b, NEW order,
           NEW v, v = Get(a, order.by), NEW w, w = Get(b, order.by),
           v.num \in Int, w.num \in Int,
           Absent(v) \/ v.kind = "num", Absent(w) \/ w.kind = "num"
    PROVE  CompareRows(a, b, order) <= 0
             <=> \/ Absent(w)
                 \/ ~Absent(v) /\ (IF order.desc THEN v.num >= w.num
                                                 ELSE v.num <= w.num)
  BY DEF CompareRows, CompareValues, Sign, Absent

\* It is transitive, so a listing is in order.
LEMMA NumbersInOrder ==
    ASSUME DbInv, RowsTyped, NEW t \in Table, NEW filters, NEW order, NEW s \in Seq(Id),
           IsListing(s, t, filters, order),
           \A k \in Matching(t, filters) :
              \/ Absent(Get(tables[t][k], order.by))
              \/ Get(tables[t][k], order.by).kind = "num",
           NEW i \in 1..Len(s), NEW j \in 1..Len(s), i < j
    PROVE  \/ Absent(Get(tables[t][s[j]], order.by))
           \/ /\ ~Absent(Get(tables[t][s[i]], order.by))
              /\ IF order.desc THEN Get(tables[t][s[i]], order.by).num >= Get(tables[t][s[j]], order.by).num
                 ELSE Get(tables[t][s[i]], order.by).num <= Get(tables[t][s[j]], order.by).num
  <1> DEFINE I == 1..Len(s)
             V(k) == Get(tables[t][s[k]], order.by)
             Cmp(k, l) == CompareRows(tables[t][s[k]], tables[t][s[l]], order)
             Precedes(v, w) == \/ Absent(w)
                               \/ ~Absent(v) /\ (IF order.desc THEN v.num >= w.num
                                                               ELSE v.num <= w.num)
  <1>1. \A k \in I : s[k] \in Matching(t, filters)
    BY DEF IsListing
  <1>2. \A k \in I : V(k).num \in Int /\ (Absent(V(k)) \/ V(k).kind = "num")
    <2> SUFFICES ASSUME NEW k \in I PROVE V(k).num \in Int
      BY <1>1
    <2>1. t \in DOMAIN tables /\ s[k] \in DOMAIN tables[t]
      BY <1>1 DEF Matching, Rows
    <2>2. V(k) \in Value \/ V(k) = Missing
      BY <2>1 DEF Get, RowsTyped
    <2> QED
      BY <2>2, ValueAssumption DEF Missing
  <1>3. \A k, l \in I : Cmp(k, l) <= 0 <=> Precedes(V(k), V(l))
    <2> SUFFICES ASSUME NEW k \in I, NEW l \in I
                 PROVE  Cmp(k, l) <= 0 <=> Precedes(V(k), V(l))
      OBVIOUS
    <2> QED
      BY <1>2, CompareNumbers
  <1> HIDE DEF V, Cmp
  <1>4. \A k, l, m \in I : Cmp(k, l) <= 0 /\ Cmp(l, m) <= 0 => Cmp(k, m) <= 0
    BY <1>2, <1>3
  <1>5. Cmp(i, j) <= 0
    BY <1>4 DEF IsListing, Cmp
  <1>6. Precedes(V(i), V(j))
    BY <1>3, <1>5
  <1> QED
    BY <1>6 DEF V

\* What a reader sees is the same when no row has changed.
LEMMA SameRows ==
    ASSUME NEW t \in Table, Rows(t)' = Rows(t),
           \A k \in Rows(t) : tables'[t][k] = tables[t][k],
           NEW s, NEW filters, NEW order, IsListing(s, t, filters, order)
    PROVE  IsListing(s, t, filters, order)'
  <1>1. Matching(t, filters)' = Matching(t, filters)
    BY DEF Matching
  <1>2. \A i \in 1..Len(s) : tables'[t][s[i]] = tables[t][s[i]]
    BY DEF IsListing, Matching
  <1> QED
    BY <1>1, <1>2 DEF IsListing

LEMMA ReaderStays ==
    ASSUME PagerInv, pager' = pager,
           \A t \in Table : /\ Rows(t)' = Rows(t)
                            /\ \A k \in Rows(t) : tables'[t][k] = tables[t][k]
    PROVE  PagerInv'
  <1> SUFFICES ASSUME pager # NoCall
               PROVE  pager.offset > 0 =>
                 IsListing(pager.listing, pager.table, pager.filters, pager.order)'
    BY DEF PagerInv
  <1> QED
    BY SameRows DEF PagerInv, Reading

\* A page continues the pages before it.
LEMMA QueryPageKeeps ==
    ASSUME DbInv, PagerInv, QueryPage PROVE PagerInv'
  <1>1. /\ pager # NoCall /\ pager \in Reading
        /\ pager.read = Paginate(pager.listing, 0, pager.offset)
    BY DEF QueryPage, PagerInv
  <1> DEFINE Read(s, page) ==
          /\ page = Paginate(s, pager.offset, pager.limit)
          /\ IsListing(s, pager.table, pager.filters, pager.order)
          /\ pager.offset > 0 => s = pager.listing
          /\ pager' = [pager EXCEPT !.listing = s, !.read = @ \o page,
                                    !.offset = @ + pager.limit,
                                    !.done = (page = <<>>)]
  <1>0. PICK s \in [1..Cardinality(Matching(pager.table, pager.filters)) -> Id] :
           \E page : Read(s, page)
    BY DEF QueryPage
  <1>2. PICK page : Read(s, page)
    BY <1>0
  <1>3. UNCHANGED tables
    BY DEF QueryPage
  <1>4. Len(s) \in Nat /\ s \in Seq(Id)
    <2>1. Cardinality(Matching(pager.table, pager.filters)) \in Nat
      <3>1. Matching(pager.table, pager.filters) \in SUBSET Rows(pager.table)
        BY DEF Matching
      <3> HIDE DEF Id
      <3> QED
        BY <3>1, <1>1, RowsFinite, FS_Subset, FS_CardinalityType DEF Reading
    <2> QED
      BY <2>1
  <1>5. pager.limit \in Nat \ {0} /\ pager.offset \in Nat
    BY <1>1, BoundAssumption DEF Reading
  <1>6. /\ page \in Seq(Id)
        /\ Paginate(s, 0, pager.offset) \in Seq(Id)
        /\ Paginate(s, 0, pager.offset) \o page = Paginate(s, 0, pager.offset + pager.limit)
        /\ page = <<>> => pager.offset >= Len(s)
    <2>1. PICK m \in Nat, n \in Nat \ {0} : m = pager.offset /\ n = pager.limit
      BY <1>5
    <2>2. page = Paginate(s, m, n)
      BY <1>2, <2>1
    <2>3. s \in Seq(Id)
      BY <1>4
    <2> HIDE DEF Id
    <2>4. /\ Paginate(s, m, n) \in Seq(Id)
          /\ Paginate(s, 0, m) \in Seq(Id)
          /\ Paginate(s, 0, m) \o Paginate(s, m, n) = Paginate(s, 0, m + n)
          /\ Paginate(s, m, n) = <<>> => m >= Len(s)
      BY <2>3, PagesJoin
    <2> QED
      BY <2>1, <2>2, <2>4
  <1>7. pager.read = Paginate(s, 0, pager.offset)
    <2>1. CASE pager.offset > 0
      BY <2>1, <1>1, <1>2
    <2>2. CASE pager.offset = 0
      <3>1. pager.listing \in Seq(Id) /\ Len(pager.listing) \in Nat
        BY <1>1 DEF Reading
      <3>2. Paginate(s, 0, 0) = <<>> /\ Paginate(pager.listing, 0, 0) = <<>>
        BY <1>4, <3>1, SubSeqEmpty DEF Paginate
      <3> QED
        BY <2>2, <3>2, <1>1
    <2> QED
      BY <2>1, <2>2, <1>5
  <1>8. /\ pager' \in Reading
        /\ pager'.listing = s /\ pager'.read = pager.read \o page
        /\ pager'.offset = pager.offset + pager.limit
        /\ pager'.done = (page = <<>>)
        /\ pager'.table = pager.table /\ pager'.filters = pager.filters
        /\ pager'.order = pager.order
    <2>1. pager.read \in Seq(Id) /\ pager.read \o page \in Seq(Id)
      BY <1>6, <1>7
    <2>2. pager.offset + pager.limit \in Nat /\ (page = <<>>) \in BOOLEAN
      BY <1>5
    <2>3. pager' = [table |-> pager.table, filters |-> pager.filters,
                    order |-> pager.order, limit |-> pager.limit, listing |-> s,
                    read |-> pager.read \o page,
                    offset |-> pager.offset + pager.limit, done |-> (page = <<>>)]
      BY <1>1, <1>2 DEF Reading
    <2> QED
      BY <1>1, <1>4, <2>1, <2>2, <2>3 DEF Reading
  <1>9. IsListing(s, pager.table, pager.filters, pager.order)'
    BY <1>2, <1>3, <1>8 DEF IsListing, Matching, Rows
  <1>10. IsListing(pager.listing, pager.table, pager.filters, pager.order)'
    BY <1>8, <1>9
  <1>11. pager'.read = Paginate(pager'.listing, 0, pager'.offset)
    BY <1>6, <1>7, <1>8
  <1>12. pager'.done => pager'.offset > 0 /\ pager'.offset >= Len(pager'.listing)
    <2> SUFFICES ASSUME pager'.done
                 PROVE  pager.offset + pager.limit > 0 /\ pager.offset + pager.limit >= Len(s)
      BY <1>8
    <2>1. page = <<>>
      BY <1>8, Zenon
    <2>2. pager.offset >= Len(s)
      BY <2>1, <1>6
    <2> QED
      BY <2>2, <1>4, <1>5
  <1>13. Paginate(pager.listing, 0, pager.offset)'
           = Paginate(pager'.listing, 0, pager'.offset)
    BY DEF Paginate
  <1> QED
    BY <1>8, <1>10, <1>11, <1>12, <1>13 DEF PagerInv

\* Once a page is empty, what was read is the listing.
LEMMA PagesFollow == DbInv /\ RowsTyped /\ PagerInv => PagesAreTheTable
  <1> SUFFICES ASSUME DbInv, RowsTyped, PagerInv, pager # NoCall
               PROVE  PagesAreTheTable
    BY DEF PagesAreTheTable, PagesCoverTable, PagesInOrder
  <1> DEFINE s == pager.listing
             r == pager.read
             t == pager.table
  <1>1. pager \in Reading /\ s \in Seq(Id) /\ Len(s) \in Nat /\ pager.offset \in Nat
        /\ r = Paginate(s, 0, pager.offset)
    BY DEF PagerInv, Reading
  <1>2. PICK n \in 0..Len(s) : /\ r = SubSeq(s, 1, n)
                               /\ n = IF pager.offset < Len(s) THEN pager.offset ELSE Len(s)
    <2>1. PICK m \in Nat : m = pager.offset
      BY <1>1
    <2>2. r = SubSeq(s, 1, IF m < Len(s) THEN m ELSE Len(s))
      BY <1>1, <2>1 DEF Paginate
    <2>3. (IF m < Len(s) THEN m ELSE Len(s)) \in 0..Len(s)
      BY <1>1
    <2> QED
      BY <2>1, <2>2, <2>3
  <1>3. PagesCoverTable
    <2> SUFFICES ASSUME pager.done
                 PROVE  /\ {r[i] : i \in DOMAIN r} = Matching(t, pager.filters)
                        /\ Len(r) = Cardinality(Matching(t, pager.filters))
      BY DEF PagesCoverTable
    <2>1. pager.offset > 0 /\ n = Len(s)
      BY <1>2 DEF PagerInv
    <2>2. r = s
      BY <2>1, <1>1, <1>2, SubSeqFull
    <2>3. IsListing(s, t, pager.filters, pager.order)
      BY <2>1 DEF PagerInv
    <2>4. DOMAIN s = 1..Len(s)
      BY <1>1
    <2> QED
      BY <2>2, <2>3, <2>4 DEF IsListing
  <1>4. PagesInOrder
    <2> DEFINE V(k) == Get(tables[t][k], pager.order.by)
               Precedes(v, w) == \/ Absent(w)
                                 \/ ~Absent(v) /\ (IF pager.order.desc THEN v.num >= w.num
                                                                       ELSE v.num <= w.num)
    <2> SUFFICES ASSUME \A k \in Matching(t, pager.filters) : Absent(V(k)) \/ V(k).kind = "num",
                        NEW i \in DOMAIN r, NEW j \in DOMAIN r, i < j
                 PROVE  Precedes(V(r[i]), V(r[j]))
      BY DEF PagesInOrder
    <2>1. DOMAIN r = 1..n /\ \A k \in 1..n : r[k] = s[k]
      BY <1>1, <1>2
    <2>2. i \in 1..Len(s) /\ j \in 1..Len(s) /\ r[i] = s[i] /\ r[j] = s[j]
      BY <2>1, <1>2
    <2>3. IsListing(s, t, pager.filters, pager.order)
      BY <2>1, <1>1, <1>2 DEF PagerInv
    <2>4. t \in Table
      BY <1>1 DEF Reading
    <2>5. Precedes(V(s[i]), V(s[j]))
      BY <1>1, <2>2, <2>3, <2>4, NumbersInOrder
    <2> QED
      BY <2>2, <2>5
  <1> QED
    BY <1>3, <1>4 DEF PagesAreTheTable

LEMMA RowsStayTyped == IInv /\ RowsTyped /\ [DbNext]_dbVars => RowsTyped'
  <1> SUFFICES ASSUME IInv, RowsTyped, [DbNext]_dbVars PROVE RowsTyped'
    OBVIOUS
  <1>0. /\ \A r \in Inserts : \A f \in DOMAIN r : r[f] \in Value
        /\ \A u \in Updates : \A f \in DOMAIN u : u[f] \in Value
    BY InputAssumption DEF Record
  <1>1. ASSUME NEW c \in Client, EnsureTable(c) PROVE RowsTyped'
    BY <1>1 DEF EnsureTable, RowsTyped
  <1>2. ASSUME NEW c \in Client, NEW op, Store(c, op) PROVE RowsTyped'
    <2>1. PICK t, records : t = call[c].table /\ records = call[c].records
      OBVIOUS
    <2>0. PICK ids \in IdsOf(records, DOMAIN tables[t]) :
             tables' = AddRows(t, records, ids, Accepted(ids, DOMAIN tables[t]))
      BY <1>2, <2>1 DEF Store
    <2>2. PICK added : /\ added = Accepted(ids, DOMAIN tables[t])
                       /\ tables' = AddRows(t, records, ids, added)
      BY <2>0
    <2>3. t \in DOMAIN tables /\ records \in Seq(Inserts)
      BY <1>2, <2>1 DEF Store, IInv, DbInv
    <2>4. /\ ids \in [1..Len(records) -> Id]
          /\ \A i \in added : ids[i] \in Id /\ records[i] \in Inserts
      BY <2>0, <2>2, <2>3 DEF IdsOf, Accepted
    <2>5. /\ DOMAIN tables' = DOMAIN tables
          /\ \A u \in DOMAIN tables : u # t => tables'[u] = tables[u]
          /\ DOMAIN tables'[t] = DOMAIN tables[t] \cup {ids[i] : i \in added}
          /\ \A k \in DOMAIN tables'[t] :
                IF k \in DOMAIN tables[t] THEN tables'[t][k] = tables[t][k]
                ELSE \E i \in added : tables'[t][k] = WithId(records[i], k)
      BY <2>2, <2>3, AddedRows
    <2> SUFFICES ASSUME NEW k \in DOMAIN tables'[t], k \notin DOMAIN tables[t],
                        NEW f \in DOMAIN tables'[t][k]
                 PROVE  tables'[t][k][f] \in Value
      BY <2>3, <2>5 DEF RowsTyped
    <2>6. PICK i \in added : tables'[t][k] = WithId(records[i], k)
      BY <2>5
    <2>7. k \in Value
      BY <2>4, <2>5 DEF Id
    <2> QED
      BY <1>0, <2>4, <2>6, <2>7 DEF WithId
  <1>3. ASSUME NEW t \in DOMAIN tables, NEW ids, NEW u \in Updates, UpdateRows(t, ids, u)
        PROVE  RowsTyped'
    BY <1>0, <1>3 DEF UpdateRows, RowsTyped, Merge
  <1>4. ASSUME NEW t \in DOMAIN tables, NEW ids, DeleteRows(t, ids) PROVE RowsTyped'
    BY <1>4 DEF DeleteRows, RowsTyped
  <1>5. CASE UNCHANGED tables
    BY <1>5 DEF RowsTyped
  <1> QED
    BY <1>1, <1>2, <1>3, <1>4, <1>5
    DEF DbNext, Insert, BatchInsert, Update, UpdateWhere, Delete, DeleteWhere, Rows,
        StartReading, QueryPage, StopReading, dbVars

\* A write that changes a table stops the reader.
LEMMA ReaderKeeps == IInv /\ PagerInv /\ [DbNext]_dbVars => PagerInv'
  <1> SUFFICES ASSUME IInv, PagerInv, [DbNext]_dbVars PROVE PagerInv'
    OBVIOUS
  <1>1. CASE pager' = NoCall
    BY <1>1 DEF PagerInv
  <1>2. CASE UNCHANGED <<pager, tables>>
    BY <1>2, ReaderStays DEF Rows
  <1>3. CASE Unsettle
    BY <1>1, <1>2, <1>3 DEF Unsettle
  <1>4. ASSUME NEW c \in Client, EnsureTable(c) PROVE PagerInv'
    <2>1. /\ DOMAIN tables \subseteq DOMAIN tables' /\ pager' = pager
          /\ \A u \in DOMAIN tables : tables'[u] = tables[u]
          /\ \A u \in DOMAIN tables' \ DOMAIN tables : DOMAIN tables'[u] = {}
      BY <1>4 DEF EnsureTable
    <2> QED
      BY <2>1, ReaderStays DEF Rows
  <1>5. ASSUME NEW t \in Table, StartReading(t) PROVE PagerInv'
    <2>1. PICK f \in Filters, o \in Orders, limit \in PageSize :
             pager' = [table |-> t, filters |-> f, order |-> o, limit |-> limit,
                       listing |-> <<>>, read |-> <<>>, offset |-> 0,
                       done |-> FALSE]
      BY <1>5 DEF StartReading
    <2>2. pager' \in Reading
      BY <2>1 DEF Reading
    <2>3. Paginate(<<>>, 0, 0) = <<>>
      BY SubSeqEmpty DEF Paginate
    <2>4. Paginate(pager.listing, 0, pager.offset)'
            = Paginate(pager'.listing, 0, pager'.offset)
      BY DEF Paginate
    <2> QED
      BY <2>1, <2>2, <2>3, <2>4 DEF PagerInv
  <1>6. CASE QueryPage
    BY <1>6, QueryPageKeeps DEF IInv
  <1> QED
    BY <1>1, <1>2, <1>3, <1>4, <1>5, <1>6
    DEF DbNext, Insert, BatchInsert, Store, Update, UpdateWhere, UpdateRows, Delete,
        DeleteWhere, DeleteRows, StopReading, dbVars

\* query with an offset and a limit: the pages one after the other, with no write
\* in between, are the rows that match, each once, in the order asked for.
THEOREM PagesHold == DbSpec => []PagesAreTheTable
  <1>1. DbInit => IInv /\ RowsTyped /\ PagerInv
    BY Initially DEF DbInit, RowsTyped, PagerInv
  <1>2. IInv /\ RowsTyped /\ PagerInv => PagesAreTheTable
    BY PagesFollow DEF IInv
  <1> QED
    BY <1>1, <1>2, StepKeeps, RowsStayTyped, ReaderKeeps, PTL DEF DbSpec

-----------------------------------------------------------------------------
\* DaemonRunner, for any backends and ports: nothing holds a sidecar before run,
\* and what without_observability has set no other method takes back.
Runner == [bindOk : BOOLEAN, backend : Backend \cup {"sidecar"},
           port : Port \cup {DefaultPort}, skip : BOOLEAN]

Method == {"bind", "backend", "port", "without"}

DaemonInv ==
    /\ runner \in Runner
    /\ asked \in Seq(Method)
    /\ phase = "builder" => sidecar = {}
    /\ (\E k \in DOMAIN asked : asked[k] = "without") => runner.skip
    /\ NoStraySidecar

LEMMA BuilderKeeps ==
    ASSUME DaemonInv, NEW name \in Method, NEW r, Builder(name, r),
           r \in Runner, runner.skip \/ name = "without" => r.skip
    PROVE  DaemonInv'
  <1>1. /\ asked' = Append(asked, name) /\ runner' = r
        /\ UNCHANGED <<phase, sidecar, ctx>> /\ phase = "builder"
    BY DEF Builder
  <1>2. asked' \in Seq(Method) /\ (\E k \in DOMAIN asked' : asked'[k] = "without") => r.skip
    BY <1>1 DEF DaemonInv
  <1>3. NoStraySidecar'
    BY <1>1 DEF DaemonInv, NoStraySidecar
  <1> QED
    BY <1>1, <1>2, <1>3 DEF DaemonInv

LEMMA DaemonStepKeeps == DaemonInv /\ [DaemonNext]_daemonVars => DaemonInv'
  <1> SUFFICES ASSUME DaemonInv, [DaemonNext]_daemonVars PROVE DaemonInv'
    OBVIOUS
  <1>1. CASE WithBind
    <2>1. PICK ok \in BOOLEAN : Builder("bind", [runner EXCEPT !.bindOk = ok])
      BY <1>1 DEF WithBind
    <2> DEFINE r == [runner EXCEPT !.bindOk = ok]
    <2>2. r \in Runner /\ (runner.skip => r.skip)
      BY DEF DaemonInv, Runner
    <2>3. Builder("bind", r)
      BY <2>1
    <2> HIDE DEF r
    <2> QED
      BY <2>2, <2>3, BuilderKeeps DEF Method
  <1>2. CASE WithBackend
    <2>1. PICK b \in Backend : Builder("backend", [runner EXCEPT !.backend = b])
      BY <1>2 DEF WithBackend
    <2> DEFINE r == [runner EXCEPT !.backend = b]
    <2>2. r \in Runner /\ (runner.skip => r.skip)
      BY DEF DaemonInv, Runner
    <2>3. Builder("backend", r)
      BY <2>1
    <2> HIDE DEF r
    <2> QED
      BY <2>2, <2>3, BuilderKeeps DEF Method
  <1>3. CASE WithObsrvPort
    <2>1. PICK p \in Port : Builder("port", [runner EXCEPT !.port = p])
      BY <1>3 DEF WithObsrvPort
    <2> DEFINE r == [runner EXCEPT !.port = p]
    <2>2. r \in Runner /\ (runner.skip => r.skip)
      BY DEF DaemonInv, Runner
    <2>3. Builder("port", r)
      BY <2>1
    <2> HIDE DEF r
    <2> QED
      BY <2>2, <2>3, BuilderKeeps DEF Method
  <1>4. CASE WithoutObservability
    <2> DEFINE r == [runner EXCEPT !.skip = TRUE]
    <2>1. r \in Runner /\ r.skip
      BY DEF DaemonInv, Runner
    <2>2. Builder("without", r)
      BY <1>4 DEF WithoutObservability
    <2> HIDE DEF r
    <2> QED
      BY <2>1, <2>2, BuilderKeeps DEF Method
  <1>5. CASE RefuseBind \/ ServerReturns
    BY <1>5 DEF RefuseBind, ServerReturns, DaemonInv, NoStraySidecar
  <1>6. CASE RunLightweight
    BY <1>6 DEF RunLightweight, DaemonInv, NoStraySidecar
  <1>7. CASE RunObserved
    BY <1>7 DEF RunObserved, DaemonInv, NoStraySidecar
  <1>8. CASE UNCHANGED daemonVars
    BY <1>8 DEF daemonVars, DaemonInv, NoStraySidecar
  <1> QED
    BY <1>1, <1>2, <1>3, <1>4, <1>5, <1>6, <1>7, <1>8 DEF DaemonNext

\* without_observability and the handle that run holds: for any sequence of the
\* builder's calls, no sidecar runs unasked or longer than the server function.
THEOREM SidecarsHeld == DaemonSpec => []NoStraySidecar
  <1>1. DaemonInit => DaemonInv
    BY DEF DaemonInit, DaemonInv, NoStraySidecar, Runner
  <1>2. DaemonInv => NoStraySidecar
    BY DEF DaemonInv
  <1> QED
    BY <1>1, <1>2, DaemonStepKeeps, PTL DEF DaemonSpec

-----------------------------------------------------------------------------
\* ConsoleNotifier, for any callers and batches: also the receipts a batch has so
\* far stand, nothing that is kept is pending, and provider ids grow.
Receipt == [id : {n.id : n \in Notification}, provider : Nat]

Sending == [left : Seq(Notification), printed : BOOLEAN, receipts : SUBSET Receipt]

Stands(r) == /\ r.id \in DOMAIN sent /\ sent[r.id].status = "delivered"
             /\ sent[r.id].provider >= r.provider

NotifierInv ==
    /\ providers \in Nat
    /\ \A i \in DOMAIN sent :
          sent[i] \in [provider : 0..providers, status : {"delivered"}]
    /\ sending \in [Sender -> Sending]
    /\ answered \subseteq Receipt
    /\ \A r \in answered : Stands(r)
    /\ \A c \in Sender : \A r \in sending[c].receipts : Stands(r)

LEMMA StoreReceiptKeeps ==
    ASSUME NotifierInv, NEW c \in Sender, StoreReceipt(c) PROVE NotifierInv'
  <1> DEFINE i == Current(c).id
             new == [provider |-> providers + 1, status |-> "delivered"]
             mine == [id |-> i, provider |-> providers + 1]
             got == sending[c].receipts \cup {mine}
  <1>1. /\ sending[c].left # <<>> /\ providers' = providers + 1
        /\ sent' = [j \in DOMAIN sent \cup {i} |-> IF j = i THEN new ELSE sent[j]]
    BY DEF StoreReceipt, Busy, WithReceipt
  <1>2. /\ sending[c] \in Sending
        /\ Current(c) \in Notification
        /\ Tail(sending[c].left) \in Seq(Notification)
    BY <1>1 DEF NotifierInv, Current, Sending
  <1>3. mine \in Receipt /\ got \subseteq Receipt /\ providers + 1 \in Nat
    BY <1>2 DEF Receipt, NotifierInv, Sending
  <1>4. /\ sending' \in [Sender -> Sending]
        /\ \A d \in Sender : \A r \in sending'[d].receipts : r \in got \/ r \in sending[d].receipts
        /\ answered' \subseteq answered \cup got
    <2>1. CASE Len(sending[c].left) = 1
      <3>1. /\ sending' = [sending EXCEPT ![c] = Nothing]
            /\ answered' = answered \cup got
        BY <2>1 DEF StoreReceipt
      <3> QED
        BY <3>1 DEF NotifierInv, Nothing, Sending
    <2>2. CASE Len(sending[c].left) # 1
      <3>1. /\ sending' = [sending EXCEPT ![c] =
                              [left |-> Tail(sending[c].left), printed |-> FALSE, receipts |-> got]]
            /\ answered' = answered
        BY <2>2 DEF StoreReceipt
      <3> QED
        BY <3>1, <1>2, <1>3 DEF NotifierInv, Sending
    <2> QED
      BY <2>1, <2>2
  <1>5. \A r \in Receipt : Stands(r) => Stands(r)'
    BY <1>1 DEF Stands, NotifierInv, Receipt
  <1>6. \A r : r = mine => Stands(r)'
    BY <1>1, <1>3 DEF Stands
  <1>7. \A j \in DOMAIN sent' :
            sent'[j] \in [provider : 0..providers', status : {"delivered"}]
    BY <1>1, <1>3 DEF NotifierInv
  <1> HIDE DEF i, new, mine
  <1>8. \A r \in got : Stands(r)'
    BY <1>3, <1>5, <1>6 DEF NotifierInv
  <1>9. \A d \in Sender : sending[d].receipts \subseteq Receipt
    BY DEF NotifierInv, Sending
  <1> HIDE DEF got
  <1> QED
    BY <1>1, <1>3, <1>4, <1>5, <1>7, <1>8, <1>9 DEF NotifierInv

LEMMA NotifierStepKeeps == NotifierInv /\ [NotifierNext]_notifierVars => NotifierInv'
  <1> SUFFICES ASSUME NotifierInv, [NotifierNext]_notifierVars PROVE NotifierInv'
    OBVIOUS
  <1>1. ASSUME UNCHANGED <<sent, providers, answered>>,
               sending' \in [Sender -> Sending],
               \A c \in Sender : sending'[c].receipts \subseteq sending[c].receipts
        PROVE  NotifierInv'
    BY <1>1 DEF NotifierInv, Stands
  <1>2. ASSUME NEW c \in Sender, Send(c) PROVE NotifierInv'
    <2>1. PICK batch \in Batches : sending' = [sending EXCEPT ![c] = [Nothing EXCEPT !.left = batch]]
      BY <1>2 DEF Send
    <2>2. [Nothing EXCEPT !.left = batch] \in
              [left : Seq(Notification), printed : BOOLEAN, receipts : {{}}]
      BY BatchAssumption DEF Nothing
    <2> QED
      BY <1>1, <1>2, <2>1, <2>2 DEF Send, NotifierInv, Sending
  <1>3. ASSUME NEW c \in Sender, PrintBox(c) PROVE NotifierInv'
    <2>1. /\ sending' = [sending EXCEPT ![c] = [@ EXCEPT !.printed = TRUE]]
          /\ UNCHANGED <<sent, providers, answered>>
      BY <1>3 DEF PrintBox
    <2>2. \A s \in Sending : /\ [s EXCEPT !.printed = TRUE] \in Sending
                             /\ [s EXCEPT !.printed = TRUE].receipts = s.receipts
      BY DEF Sending
    <2>3. sending \in [Sender -> Sending]
      BY DEF NotifierInv
    <2> QED
      BY <1>1, <2>1, <2>2, <2>3
  <1>4. ASSUME NEW c \in Sender, Panic(c) PROVE NotifierInv'
    BY <1>1, <1>4 DEF Panic, NotifierInv, Nothing, Sending
  <1>5. ASSUME NEW n \in Notification, Cancel(n.id) PROVE NotifierInv'
    <2>1. UNCHANGED notifierVars
      BY <1>5 DEF Cancel, NotifierInv, notifierVars
    <2> QED
      BY <1>1, <2>1 DEF NotifierInv, notifierVars
  <1>6. CASE UNCHANGED notifierVars
    BY <1>1, <1>6 DEF NotifierInv, notifierVars
  <1> QED
    BY <1>2, <1>3, <1>4, <1>5, <1>6, StoreReceiptKeeps DEF NotifierNext

\* send, send_batch and cancel: a receipt that was handed out is not taken back.
THEOREM ReceiptsHold == NotifierSpec => []ReceiptsStand
  <1>1. NotifierInit => NotifierInv
    BY DEF NotifierInit, NotifierInv, Nothing, Sending
  <1>2. NotifierInv => ReceiptsStand
    BY DEF NotifierInv, ReceiptsStand, Stands, GetStatus
  <1> QED
    BY <1>1, <1>2, NotifierStepKeeps, PTL DEF NotifierSpec

-----------------------------------------------------------------------------
\* RetryMiddleware, for any limits, delays and width of its integers: between
\* two calls the loop has waited once for each error.
Backoff == [kind : {"fixed", "exponential"}, millis : 0..MaxMillis, jitter : BOOLEAN]
Policy == [max : Nat \ {0}, backoff : Backoff, retried : Predicates \cup {IsRetryable}]
Plain(backoff) == backoff.kind = "fixed" => ~backoff.jitter

\* The k-th wait, w, after error e, is as BacksOff says.
Exact(p, k) == IF p.backoff.kind = "fixed" THEN p.backoff.millis
               ELSE p.backoff.millis * 2 ^ (k - 1)
WaitHolds(p, k, w, e) == /\ w >= Exact(p, k) \/ w = MaxMillis
                         /\ w <= (IF p.backoff.jitter THEN 2 ELSE 1) * Exact(p, k)
                         /\ e \in p.retried

RetryInv ==
    /\ policy \in Policy
    /\ Plain(policy.backoff)
    /\ loop \in {"builder", "calling", "sleeping", "ok"} \cup GatewayError
    /\ errors \in Seq(GatewayError) /\ waits \in Seq(0..MaxMillis)
    /\ loop = "builder" => errors = <<>> /\ waits = <<>>
    /\ loop \in {"calling", "sleeping"} => Len(errors) < policy.max
    /\ loop \notin GatewayError => Len(waits) = Len(errors)
    /\ BacksOff

\* 2^n is the number of subsets of a set with n elements.
LEMMA PowerIsNat == ASSUME NEW n \in Nat PROVE 2 ^ n \in Nat
  <1>1. IsFiniteSet(1..n) /\ Cardinality(1..n) = n
    BY FS_Interval
  <1>2. IsFiniteSet(SUBSET (1..n)) /\ Cardinality(SUBSET (1..n)) = 2 ^ n
    BY <1>1, FS_SUBSET
  <1> QED
    BY <1>2, FS_CardinalityType

\* What u64 arithmetic makes of base * 2^attempt.
LEMMA SaturatedProduct ==
    ASSUME NEW base \in 0..MaxMillis, NEW p \in Nat,
           NEW d, d = SaturatingMul(base, Capped(p))
    PROVE  /\ d \in 0..MaxMillis /\ base * p \in Nat
           /\ d <= base * p
           /\ d >= base * p \/ d = MaxMillis
  <1>1. MaxMillis \in Nat /\ base \in Nat /\ base * p \in Nat /\ base * MaxMillis \in Nat
    BY MillisAssumption
  <1>2. CASE p <= MaxMillis
    BY <1>1, <1>2 DEF SaturatingMul, Capped
  <1>3. CASE p > MaxMillis
    <2>1. base * MaxMillis <= base * p
      BY <1>1, <1>3
    <2>2. d = Capped(base * MaxMillis)
      BY <1>3 DEF SaturatingMul, Capped
    <2>3. base = 0 \/ base * MaxMillis >= MaxMillis
      BY <1>1
    <2>4. base = 0 => base * p = 0 /\ base * MaxMillis = 0
      BY <1>1
    <2> QED
      BY <1>1, <2>1, <2>2, <2>3, <2>4 DEF Capped
  <1> QED
    BY <1>1, <1>2, <1>3

\* compute_delay, and the jitter it adds.
LEMMA DelayBounds ==
    ASSUME NEW backoff \in Backoff, Plain(backoff), NEW n \in Nat,
           NEW d \in ComputeDelay(backoff, n),
           NEW exact, exact = IF backoff.kind = "fixed" THEN backoff.millis
                              ELSE backoff.millis * 2 ^ n
    PROVE  /\ d \in 0..MaxMillis
           /\ d >= exact \/ d = MaxMillis
           /\ d <= (IF backoff.jitter THEN 2 ELSE 1) * exact
  <1> DEFINE base == backoff.millis
             delay == SaturatingMul(base, SaturatingPow2(n))
  <1>1. MaxMillis \in Nat /\ base \in 0..MaxMillis /\ backoff.jitter \in BOOLEAN
    BY MillisAssumption DEF Backoff
  <1>2. CASE backoff.kind = "fixed"
    <2>1. d = base /\ exact = base
      BY <1>2 DEF ComputeDelay
    <2> QED
      BY <1>1, <1>2, <2>1 DEF Plain
  <1>3. CASE backoff.kind # "fixed"
    <2>1. exact = base * 2 ^ n
      BY <1>3
    <2>2. /\ delay \in 0..MaxMillis /\ exact \in Nat /\ delay <= exact
          /\ delay >= exact \/ delay = MaxMillis
      <3>1. PICK p \in Nat : p = 2 ^ n
        BY PowerIsNat
      <3>2. exact = base * p /\ delay = SaturatingMul(base, Capped(p))
        BY <2>1, <3>1 DEF SaturatingPow2
      <3> HIDE DEF delay, base
      <3>3. /\ delay \in 0..MaxMillis /\ base * p \in Nat /\ delay <= base * p
            /\ delay >= base * p \/ delay = MaxMillis
        BY <1>1, <3>2, SaturatedProduct
      <3> QED
        BY <3>2, <3>3
    <2>3. IF backoff.jitter
          THEN \E j \in IF delay > 0 THEN {k % delay : k \in Nanos} ELSE {0} :
                  d = SaturatingAdd(delay, j)
          ELSE d = delay
      BY <1>3 DEF ComputeDelay
    <2> HIDE DEF delay
    <2>4. CASE backoff.jitter
      <3>1. PICK j : /\ d = SaturatingAdd(delay, j)
                     /\ j \in IF delay > 0 THEN {k % delay : k \in Nanos} ELSE {0}
        BY <2>3, <2>4
      <3>2. j \in Nat /\ j <= delay
        BY <2>2, <3>1, MillisAssumption
      <3> QED
        BY <1>1, <2>2, <2>4, <3>1, <3>2 DEF SaturatingAdd, Capped
    <2>5. CASE ~backoff.jitter
      BY <1>1, <2>2, <2>3, <2>5
    <2> QED
      BY <2>4, <2>5
  <1> QED
    BY <1>2, <1>3

\* The loop goes to sleep after an error that is retried.
LEMMA SleepKeeps ==
    ASSUME RetryInv, NEW e \in GatewayError, InnerFails(e), loop' = "sleeping"
    PROVE  RetryInv'
  <1> DEFINE n == Len(errors)
  <1>1. /\ loop = "calling" /\ errors' = Append(errors, e) /\ policy' = policy
        /\ ~(n + 1 >= policy.max) /\ e \in policy.retried
        /\ \E d \in ComputeDelay(policy.backoff, n) : waits' = Append(waits, d)
    BY DEF InnerFails, GatewayError
  <1>2. PICK d \in ComputeDelay(policy.backoff, n) : waits' = Append(waits, d)
    BY <1>1
  <1>3. /\ policy.max \in Nat
        /\ n \in Nat /\ Len(waits) = n /\ policy.backoff \in Backoff
        /\ Plain(policy.backoff) /\ errors \in Seq(GatewayError)
        /\ waits \in Seq(0..MaxMillis)
    BY <1>1 DEF RetryInv, GatewayError, Policy
  <1>4. \A k \in DOMAIN waits : WaitHolds(policy, k, waits[k], errors[k])
    BY DEF RetryInv, BacksOff, WaitHolds, Exact
  <1>5. d \in 0..MaxMillis /\ WaitHolds(policy, n + 1, d, e)
    <2>1. (n + 1) - 1 = n
      BY <1>3
    <2> QED
      BY <1>1, <1>2, <1>3, <2>1, DelayBounds DEF WaitHolds, Exact
  <1>6. /\ errors' \in Seq(GatewayError) /\ Len(errors') = n + 1
        /\ waits' \in Seq(0..MaxMillis) /\ Len(waits') = n + 1
        /\ DOMAIN waits = 1..n /\ DOMAIN waits' = 1..n + 1
        /\ errors'[n + 1] = e /\ waits'[n + 1] = d
        /\ \A k \in 1..n : errors'[k] = errors[k] /\ waits'[k] = waits[k]
    BY <1>1, <1>2, <1>3, <1>5
  <1>7. \A k \in DOMAIN waits' : WaitHolds(policy, k, waits'[k], errors'[k])
    BY <1>3, <1>4, <1>5, <1>6
  <1>8. loop' \notin GatewayError
    BY DEF GatewayError
  <1>9. BacksOff'
    BY <1>1, <1>7, <1>8 DEF BacksOff, WaitHolds, Exact
  <1> QED
    BY <1>1, <1>3, <1>6, <1>8, <1>9 DEF RetryInv

\* The loop ends with an error.
LEMMA LoopFailsKeeps ==
    ASSUME RetryInv, NEW e \in GatewayError, InnerFails(e), loop' # "sleeping"
    PROVE  RetryInv'
  <1>1. /\ loop = "calling" /\ errors' = Append(errors, e) /\ loop' = e
        /\ UNCHANGED <<policy, waits>>
    BY DEF InnerFails
  <1>2. /\ Len(waits) = Len(errors) /\ Len(errors) < policy.max
        /\ errors \in Seq(GatewayError) /\ waits \in Seq(0..MaxMillis)
        /\ policy.max \in Nat
    BY <1>1 DEF RetryInv, GatewayError, Policy
  <1>3. /\ errors' \in Seq(GatewayError) /\ Len(errors') = Len(errors) + 1
        /\ errors'[Len(errors')] = e /\ DOMAIN waits = 1..Len(errors)
        /\ \A k \in 1..Len(errors) : errors'[k] = errors[k]
    BY <1>1, <1>2
  <1>4. BacksOff'
    <2>1. \A k \in DOMAIN waits : WaitHolds(policy, k, waits[k], errors[k])
      BY DEF RetryInv, BacksOff, WaitHolds, Exact
    <2>2. \A k \in DOMAIN waits' : WaitHolds(policy, k, waits'[k], errors'[k])
      BY <1>1, <1>3, <2>1
    <2>3. /\ loop' = errors'[Len(errors')] /\ Len(waits') = Len(errors') - 1
          /\ Len(errors') <= policy'.max
      BY <1>1, <1>2, <1>3
    <2> QED
      BY <1>1, <2>2, <2>3 DEF BacksOff, WaitHolds, Exact
  <1>5. e \notin {"builder", "calling", "sleeping", "ok"}
    BY DEF GatewayError
  <1> QED
    BY <1>1, <1>3, <1>4, <1>5 DEF RetryInv

\* The builder, before the loop has run.
LEMMA SetKeeps ==
    ASSUME RetryInv, NEW p, Set(p), Plain(p.backoff),
           p \in Policy
    PROVE  RetryInv'
  BY DEF RetryInv, Set, BacksOff, GatewayError

LEMMA RetryStepKeeps == RetryInv /\ [RetryNext]_retryVars => RetryInv'
  <1> SUFFICES ASSUME RetryInv, [RetryNext]_retryVars PROVE RetryInv'
    OBVIOUS
  <1>1. policy \in Policy /\ Plain(policy.backoff)
    BY DEF RetryInv
  <1>2. CASE SetMaxAttempts
    <2>1. PICK n \in Limits : Set([policy EXCEPT !.max = n])
      BY <1>2 DEF SetMaxAttempts
    <2> DEFINE p == [policy EXCEPT !.max = n]
    <2>2. p \in Policy /\ p.backoff = policy.backoff
      BY <1>1, LimitAssumption DEF Policy
    <2>3. Set(p)
      BY <2>1
    <2> HIDE DEF p
    <2> QED
      BY <1>1, <2>2, <2>3, SetKeeps
  <1>3. ASSUME NEW b \in Backoff, Plain(b), Set([policy EXCEPT !.backoff = b])
        PROVE  RetryInv'
    <2> DEFINE p == [policy EXCEPT !.backoff = b]
    <2>1. p \in Policy /\ p.backoff = b
      BY <1>1 DEF Policy
    <2>2. Set(p)
      BY <1>3
    <2> HIDE DEF p
    <2> QED
      BY <1>3, <2>1, <2>2, SetKeeps
  <1>4. CASE FixedBackoff
    <2>1. PICK d \in Millis : Set([policy EXCEPT !.backoff = Fixed(d)])
      BY <1>4 DEF FixedBackoff
    <2>2. Fixed(d) \in Backoff /\ Plain(Fixed(d))
      BY MillisAssumption DEF Fixed, Backoff, Plain
    <2> QED
      BY <1>3, <2>1, <2>2
  <1>5. CASE ExponentialBackoff
    <2>1. PICK b \in Millis, j \in BOOLEAN : Set([policy EXCEPT !.backoff = Exponential(b, j)])
      BY <1>5 DEF ExponentialBackoff
    <2>2. Exponential(b, j) \in Backoff /\ Plain(Exponential(b, j))
      BY MillisAssumption DEF Exponential, Backoff, Plain
    <2> QED
      BY <1>3, <2>1, <2>2
  <1>6. CASE RetryPredicate
    <2>1. PICK accepted \in Predicates : Set([policy EXCEPT !.retried = accepted])
      BY <1>6 DEF RetryPredicate
    <2> DEFINE p == [policy EXCEPT !.retried = accepted]
    <2>2. p \in Policy /\ p.backoff = policy.backoff
      BY <1>1 DEF Policy
    <2>3. Set(p)
      BY <2>1
    <2> HIDE DEF p
    <2> QED
      BY <1>1, <2>2, <2>3, SetKeeps
  <1>7. CASE BuildWith
    BY <1>7 DEF BuildWith, RetryInv, BacksOff, GatewayError, Policy
  <1>8. CASE InnerSucceeds \/ Awake
    BY <1>8 DEF InnerSucceeds, Awake, RetryInv, BacksOff, GatewayError
  <1>9. ASSUME NEW e \in GatewayError, InnerFails(e) PROVE RetryInv'
    BY <1>9, SleepKeeps, LoopFailsKeeps
  <1>10. CASE UNCHANGED retryVars
    BY <1>10 DEF retryVars, RetryInv, BacksOff
  <1> QED
    BY <1>2, <1>4, <1>5, <1>6, <1>7, <1>8, <1>9, <1>10 DEF RetryNext

\* compute_delay and the loop around it, for any base, attempt and number of
\* attempts: saturating arithmetic never makes a wait too short.
THEOREM BacksOffEnough == RetrySpec => []BacksOff
  <1>1. RetryInit => RetryInv
    <2> SUFFICES ASSUME RetryInit PROVE RetryInv
      OBVIOUS
    <2>1. PICK m \in Millis : policy = [max |-> 3, backoff |-> Exponential(m, TRUE),
                                        retried |-> IsRetryable]
      BY DEF RetryInit
    <2>2. Exponential(m, TRUE) \in Backoff /\ Plain(Exponential(m, TRUE))
      BY MillisAssumption DEF Exponential, Backoff, Plain
    <2>3. loop = "builder" /\ errors = <<>> /\ waits = <<>>
      BY DEF RetryInit
    <2>4. BacksOff
      BY <2>3 DEF BacksOff, GatewayError
    <2>5. \A b \in Backoff :
             [max |-> 3, backoff |-> b, retried |-> IsRetryable] \in
                Policy
      BY DEF Policy
    <2>6. /\ policy \in Policy
          /\ Plain(policy.backoff)
      BY <2>1, <2>2, <2>5
    <2>7. errors \in Seq(GatewayError) /\ waits \in Seq(0..MaxMillis) /\ loop \notin GatewayError
      BY <2>3 DEF GatewayError
    <2> QED
      BY <2>3, <2>4, <2>6, <2>7 DEF RetryInv
  <1>2. RetryInv => BacksOff
    BY DEF RetryInv
  <1> QED
    BY <1>1, <1>2, RetryStepKeeps, PTL DEF RetrySpec

-----------------------------------------------------------------------------
\* RestClient, for any headers, bodies, credentials and URLs.
LEMMA LeastExists ==
    ASSUME NEW T \in SUBSET Nat, T # {}
    PROVE  \E k \in T : \A j \in T : k <= j
  <1> DEFINE R == {ss \in Nat \X Nat : ss[1] < ss[2]}
  <1>1. IsWellFoundedOn(R, Nat)
    BY NatLessThanWellFounded DEF OpToRel
  <1>2. \A j, k \in Nat : j < k => <<j, k>> \in R
    OBVIOUS
  <1> HIDE DEF R
  <1>3. PICK k \in T : \A j \in T : <<j, k>> \notin R
    BY <1>1, WFMin
  <1>4. ASSUME NEW j \in T PROVE k <= j
    <2>1. j \in Nat /\ k \in Nat /\ ~(j < k)
      BY <1>2, <1>3
    <2> QED
      BY <2>1
  <1> QED
    BY <1>4

LEMMA GreatestExists ==
    ASSUME NEW n \in Nat, NEW T \in SUBSET (0..n), T # {}
    PROVE  \E k \in T : \A j \in T : j <= k
  <1> DEFINE U == {n - k : k \in T}
  <1>1. U \in SUBSET Nat /\ U # {}
    <2>1. \A k \in T : n - k \in Nat
      OBVIOUS
    <2>2. PICK k \in T : TRUE
      OBVIOUS
    <2>3. n - k \in U
      OBVIOUS
    <2> QED
      BY <2>1, <2>3
  <1>2. PICK u \in U : \A v \in U : u <= v
    <2> HIDE DEF U
    <2> QED
      BY <1>1, LeastExists
  <1>3. PICK k \in T : u = n - k
    OBVIOUS
  <1>4. ASSUME NEW j \in T PROVE j <= k
    <2>1. n - k <= n - j
      BY <1>2, <1>3
    <2> QED
      BY <2>1
  <1> QED
    BY <1>4

\* trim_end_matches takes all the slashes at the end, and only them;
LEMMA TrimsEnd ==
    ASSUME NEW S, NEW url \in Seq(S)
    PROVE  \E n \in 0..Len(url) : /\ TrimEnd(url) = SubSeq(url, 1, n)
                                  /\ n = 0 \/ url[n] # "/"
                                  /\ Slashes(url, n + 1..Len(url))
  <1> DEFINE Ends(n) == (n = 0 \/ url[n] # "/") /\ Slashes(url, n + 1..Len(url))
             T == {n \in 0..Len(url) : Slashes(url, n + 1..Len(url))}
  <1>1. Len(url) \in Nat
    OBVIOUS
  <1>2. Len(url) \in T
    BY <1>1 DEF Slashes
  <1>3. PICK n \in T : \A j \in T : n <= j
    <2>1. T \in SUBSET Nat
      OBVIOUS
    <2> HIDE DEF T
    <2> QED
      BY <1>2, <2>1, LeastExists
  <1>4. ASSUME n # 0, url[n] = "/" PROVE FALSE
    <2>1. n - 1 \in 0..Len(url)
      BY <1>1, <1>4
    <2>2. Slashes(url, (n - 1) + 1..Len(url))
      BY <1>1, <1>3, <1>4 DEF Slashes
    <2>3. n <= n - 1
      BY <1>3, <2>1, <2>2
    <2> QED
      BY <1>1, <2>3
  <1>5. n \in 0..Len(url) /\ Ends(n)
    BY <1>3, <1>4
  <1> HIDE DEF Ends
  <1>6. PICK k \in 0..Len(url) : Ends(k) /\ TrimEnd(url) = SubSeq(url, 1, k)
    <2>1. Ends(CHOOSE k \in 0..Len(url) : Ends(k)) /\ (CHOOSE k \in 0..Len(url) : Ends(k)) \in 0..Len(url)
      BY <1>5
    <2>2. TrimEnd(url) = SubSeq(url, 1, CHOOSE k \in 0..Len(url) : Ends(k))
      BY DEF TrimEnd, Ends
    <2> QED
      BY <2>1, <2>2
  <1> QED
    BY <1>6 DEF Ends

\* and trim_start_matches at the start.
LEMMA TrimsStart ==
    ASSUME NEW S, NEW url \in Seq(S)
    PROVE  \E n \in 1..Len(url) + 1 : /\ TrimStart(url) = SubSeq(url, n, Len(url))
                                      /\ n = Len(url) + 1 \/ url[n] # "/"
                                      /\ Slashes(url, 1..n - 1)
  <1> DEFINE Starts(n) == (n > Len(url) \/ url[n] # "/") /\ Slashes(url, 1..n - 1)
             T == {n \in 0..Len(url) : Slashes(url, 1..n)}
  <1>1. Len(url) \in Nat
    OBVIOUS
  <1>2. 0 \in T
    BY <1>1 DEF Slashes
  <1>3. PICK n \in T : \A j \in T : j <= n
    <2>1. T \in SUBSET (0..Len(url))
      OBVIOUS
    <2> HIDE DEF T
    <2> QED
      BY <1>1, <1>2, <2>1, GreatestExists
  <1>4. ASSUME n + 1 <= Len(url), url[n + 1] = "/" PROVE FALSE
    <2>1. n + 1 \in 0..Len(url)
      BY <1>1, <1>4
    <2>2. Slashes(url, 1..n + 1)
      BY <1>1, <1>3, <1>4 DEF Slashes
    <2>3. n + 1 <= n
      BY <1>3, <2>1, <2>2
    <2> QED
      BY <1>1, <2>3
  <1>5. n + 1 \in 1..Len(url) + 1 /\ Starts(n + 1)
    <2>1. n \in Nat /\ n <= Len(url) /\ (n + 1) - 1 = n /\ Slashes(url, 1..n)
      BY <1>1, <1>3
    <2> QED
      BY <1>1, <1>4, <2>1
  <1> HIDE DEF Starts
  <1>6. PICK k \in 1..Len(url) + 1 : Starts(k) /\ TrimStart(url) = SubSeq(url, k, Len(url))
    <2>1. Starts(CHOOSE k \in 1..Len(url) + 1 : Starts(k)) /\ (CHOOSE k \in 1..Len(url) + 1 : Starts(k)) \in 1..Len(url) + 1
      BY <1>5
    <2>2. TrimStart(url) = SubSeq(url, CHOOSE k \in 1..Len(url) + 1 : Starts(k), Len(url))
      BY DEF TrimStart, Starts
    <2> QED
      BY <2>1, <2>2
  <1>7. k = Len(url) + 1 \/ url[k] # "/"
    BY <1>1, <1>6 DEF Starts
  <1>8. Slashes(url, 1..k - 1)
    BY <1>6 DEF Starts
  <1> QED
    BY <1>6, <1>7, <1>8

GivenHeader == {[name |-> h.name, value |-> h.value] : h \in Headers}
         \cup {[name |-> ContentType, value |-> type] : type \in BodyTypes}

\* The k-th of what the builder was given is the last of its name.
IsLast(k, g) == k \in DOMAIN g /\ \A j \in DOMAIN g : g[j].name = g[k].name => j <= k

\* The headers of the request are what its builder was given last.
RestInv ==
    /\ DOMAIN client = {"base", "defaults", "auth"} /\ client.base \in Bases
    /\ DOMAIN request = {"url", "headers", "body"} /\ request.url \in Urls \cup {<<>>}
    /\ given \in Seq(GivenHeader)
    /\ exchange \in {"client", "request", "sent", "handled"}
    /\ exchange = "client" => given = <<>>
    /\ exchange # "client" => request.url \in Urls
    /\ DOMAIN request.headers = {given[k].name : k \in DOMAIN given}
    /\ \A k \in DOMAIN given :
          IsLast(k, given) => request.headers[given[k].name] = given[k].value
    /\ OwnHeadersWin

LEMMA GiveKeeps ==
    ASSUME RestInv, NEW name, NEW value, NEW body,
           [name |-> name, value |-> value] \in GivenHeader, Give(name, value, body)
    PROVE  RestInv'
  <1> DEFINE n == Len(given)
             g == [name |-> name, value |-> value]
  <1>1. /\ exchange = "request" /\ given' = Append(given, g)
        /\ UNCHANGED <<client, exchange, outgoing, response>>
    BY DEF Give
  <1>2. /\ DOMAIN request' = {"url", "headers", "body"} /\ request'.url = request.url
        /\ request'.headers = PutHeader(request.headers, name, value)
    BY DEF Give, RestInv
  <1>3. n \in Nat /\ given \in Seq(GivenHeader)
    BY DEF RestInv
  <1>4. /\ given' \in Seq(GivenHeader) /\ DOMAIN given = 1..n /\ DOMAIN given' = 1..n + 1
        /\ given'[n + 1] = g /\ \A k \in 1..n : given'[k] = given[k]
    BY <1>1, <1>3
  <1>5. /\ DOMAIN request'.headers = DOMAIN request.headers \cup {name}
        /\ request'.headers[name] = value
        /\ \A m \in DOMAIN request.headers : m # name => request'.headers[m] = request.headers[m]
    BY <1>2 DEF PutHeader
  <1>6. g.name = name /\ g.value = value
    OBVIOUS
  <1> HIDE DEF g
  <1>7. DOMAIN request'.headers = {given'[k].name : k \in DOMAIN given'}
    <2>1. \A k \in DOMAIN given' : given'[k].name \in DOMAIN request'.headers
      BY <1>3, <1>4, <1>5, <1>6 DEF RestInv
    <2>2. \A m \in DOMAIN request'.headers : \E k \in DOMAIN given' : m = given'[k].name
      <3>1. ASSUME NEW m \in DOMAIN request.headers
            PROVE  \E k \in DOMAIN given' : m = given'[k].name
        <4>1. PICK k \in 1..n : m = given[k].name
          BY <1>4 DEF RestInv
        <4> QED
          BY <1>3, <1>4, <4>1
      <3>2. n + 1 \in DOMAIN given' /\ name = given'[n + 1].name
        BY <1>3, <1>4, <1>6
      <3> QED
        BY <1>5, <3>1, <3>2
    <2> QED
      BY <2>1, <2>2
  <1>8. ASSUME NEW k \in DOMAIN given', IsLast(k, given')
        PROVE  request'.headers[given'[k].name] = given'[k].value
    <2>1. CASE k = n + 1
      BY <1>4, <1>5, <1>6, <2>1
    <2>2. CASE k # n + 1
      <3>1. k \in 1..n /\ given'[k] = given[k] /\ ~(n + 1 <= k)
        BY <1>3, <1>4, <2>2
      <3>2. given[k].name # name
        BY <1>3, <1>4, <1>6, <1>8, <3>1 DEF IsLast
      <3>3. IsLast(k, given)
        BY <1>3, <1>4, <1>8, <3>1 DEF IsLast
      <3> QED
        BY <1>4, <1>5, <3>1, <3>2, <3>3 DEF RestInv
    <2> QED
      BY <2>1, <2>2
  <1>9. OwnHeadersWin'
    BY <1>1 DEF OwnHeadersWin
  <1> QED
    BY <1>1, <1>2, <1>4, <1>7, <1>8, <1>9 DEF RestInv

\* resolve_url, for an absolute base and a relative URL.
LEMMA ResolvedUrl ==
    ASSUME NEW base \in Bases, NEW url \in Urls, Absolute(base), ~Absolute(url)
    PROVE  Joined(ResolveUrl(base, url), base, url)
  <1>1. PICK i \in 0..Len(base) : /\ TrimEnd(base) = SubSeq(base, 1, i)
                                  /\ i = 0 \/ base[i] # "/"
                                  /\ Slashes(base, i + 1..Len(base))
    BY UrlAssumption, TrimsEnd
  <1>2. PICK j \in 1..Len(url) + 1 : /\ TrimStart(url) = SubSeq(url, j, Len(url))
                                     /\ j = Len(url) + 1 \/ url[j] # "/"
                                     /\ Slashes(url, 1..j - 1)
    BY UrlAssumption, TrimsStart
  <1>3. base \in Seq({base[k] : k \in DOMAIN base})
    BY UrlAssumption
  <1>4. base # <<>> /\ base[1] # "/"
    BY DEF Absolute, Scheme
  <1>5. Len(base) \in Nat /\ Len(base) >= 1 /\ DOMAIN base = 1..Len(base)
    BY <1>3, <1>4
  <1>6. i # 0
    <2>1. i = 0 => 1 \in i + 1..Len(base)
      BY <1>5
    <2> QED
      BY <1>1, <1>4, <2>1 DEF Slashes
  <1>7. i \in DOMAIN base
    BY <1>1, <1>5, <1>6
  <1>8. ResolveUrl(base, url) = SubSeq(base, 1, i) \o <<"/">> \o SubSeq(url, j, Len(url))
    BY <1>1, <1>2, <1>4 DEF ResolveUrl
  <1> QED
    BY <1>1, <1>2, <1>6, <1>7, <1>8 DEF Joined

LEMMA SendKeeps == ASSUME RestInv, SendRequest PROVE RestInv'
  <1> DEFINE auth == client.auth
             filled == ApplyDefaults(request.headers, client.defaults)
             sent_headers == ApplyAuth(filled, auth)
             names == {given[k].name : k \in DOMAIN given}
  <1>1. /\ exchange = "request" /\ exchange' = "sent"
        /\ UNCHANGED <<client, request, given>>
        /\ outgoing'.headers = sent_headers
        /\ response' = MockResponse(ResolveUrl(client.base, request.url))
    BY DEF SendRequest, RestInv
  <1>2. /\ DOMAIN filled = names \cup DOMAIN client.defaults
        /\ \A n \in names : filled[n] = request.headers[n]
        /\ \A n \in DOMAIN client.defaults \ names : filled[n] = client.defaults[n]
    BY DEF ApplyDefaults, RestInv
  <1>3. /\ DOMAIN sent_headers = DOMAIN filled
              \cup IF auth.kind = "none" THEN {} ELSE {AuthHeader(auth)}
        /\ \A n \in DOMAIN sent_headers :
              sent_headers[n] = IF auth.kind # "none" /\ AuthHeader(auth) = n
                                THEN Credentials(auth) ELSE filled[n]
    BY DEF ApplyAuth, PutHeader
  <1> HIDE DEF filled, sent_headers
  <1>4. ASSUME NEW n \in names
        PROVE  GivenAs(given, n) # {} /\ request.headers[n] = LastGiven(given, n)
    <2> DEFINE own == GivenAs(given, n)
               last == CHOOSE k \in own : \A j \in own : j <= k
    <2>1. own # {} /\ own \in SUBSET (0..Len(given)) /\ Len(given) \in Nat
      BY DEF RestInv, GivenAs
    <2>2. \E k \in own : \A j \in own : j <= k
      <3> HIDE DEF own
      <3> QED
        BY <2>1, GreatestExists
    <2>3. last \in own /\ \A j \in own : j <= last
      <3> HIDE DEF own
      <3> QED
        BY <2>2
    <2> HIDE DEF last
    <2>4. IsLast(last, given) /\ last \in DOMAIN given /\ given[last].name = n
      BY <2>3 DEF IsLast, GivenAs
    <2>5. request.headers[n] = given[last].value
      BY <2>4 DEF RestInv
    <2> QED
      BY <2>1, <2>5 DEF last, LastGiven
  <1>5. ASSUME NEW n \in DOMAIN sent_headers
        PROVE  sent_headers[n] =
                  IF auth.kind # "none" /\ AuthHeader(auth) = n THEN Credentials(auth)
                  ELSE IF GivenAs(given, n) # {} THEN LastGiven(given, n)
                  ELSE client.defaults[n]
    <2>1. GivenAs(given, n) # {} <=> n \in names
      BY DEF GivenAs
    <2>2. n \notin names /\ ~(auth.kind # "none" /\ AuthHeader(auth) = n)
             => n \in DOMAIN client.defaults
      BY <1>2, <1>3
    <2> QED
      BY <1>2, <1>3, <1>4, <2>1, <2>2
  <1>6. /\ response'.url = ResolveUrl(client.base, request.url)
        /\ response'.headers = PutHeader(<<>>, Lower(ContentType), "application/json")
    BY <1>1 DEF MockResponse
  <1>7. HeaderOf(response'.headers, ContentType) = HeaderOf(response'.headers, Lower(ContentType))
    BY <1>6 DEF HeaderOf, PutHeader, Lower, ContentType
  <1>8. request.url \in Urls /\ client.base \in Bases
    BY <1>1 DEF RestInv
  <1>9. OwnHeadersWin'
    <2>1. DOMAIN sent_headers = names \cup DOMAIN client.defaults
             \cup IF auth.kind = "none" THEN {} ELSE {AuthHeader(auth)}
      BY <1>2, <1>3
    <2>2. ~Absolute(request.url) /\ Absolute(client.base) =>
              Joined(response'.url, client.base, request.url)
      BY <1>6, <1>8, ResolvedUrl
    <2> QED
      BY <1>1, <1>5, <1>7, <2>1, <2>2 DEF OwnHeadersWin
  <1> QED
    BY <1>1, <1>8, <1>9 DEF RestInv

LEMMA RestStepKeeps == RestInv /\ [RestNext]_restVars => RestInv'
  <1> SUFFICES ASSUME RestInv, [RestNext]_restVars PROVE RestInv'
    OBVIOUS
  <1>1. CASE WithDefault
    <2>1. PICK h \in Headers :
             client' = [client EXCEPT !.defaults = PutHeader(client.defaults, h.name, h.value)]
      BY <1>1 DEF WithDefault, RestInv
    <2>2. DOMAIN client' = {"base", "defaults", "auth"} /\ client'.base = client.base
      BY <2>1 DEF RestInv
    <2> QED
      BY <1>1, <2>2 DEF WithDefault, RestInv, OwnHeadersWin
  <1>2. CASE WithAuth
    <2>1. PICK auth \in Auths : client' = [client EXCEPT !.auth = auth]
      BY <1>2 DEF WithAuth
    <2>2. DOMAIN client' = {"base", "defaults", "auth"} /\ client'.base = client.base
      BY <2>1 DEF RestInv
    <2> QED
      BY <1>2, <2>2 DEF WithAuth, RestInv, OwnHeadersWin
  <1>3. CASE NewRequest
    <2>1. PICK url \in Urls : request' = [NoRequest EXCEPT !.url = url]
      BY <1>3 DEF NewRequest
    <2>2. /\ DOMAIN request' = {"url", "headers", "body"} /\ request'.url = url
          /\ request'.headers = <<>> /\ given' = <<>>
      BY <1>3, <2>1 DEF NoRequest, NewRequest, RestInv
    <2> QED
      BY <1>3, <2>2 DEF NewRequest, RestInv, OwnHeadersWin
  <1>4. CASE WithHeader
    <2>1. PICK h \in Headers : Give(h.name, h.value, request.body)
      BY <1>4 DEF WithHeader
    <2>2. [name |-> h.name, value |-> h.value] \in GivenHeader
      BY DEF GivenHeader
    <2> QED
      BY <2>1, <2>2, GiveKeeps
  <1>5. CASE WithBody
    <2>1. PICK type \in BodyTypes : Give(ContentType, type, type)
      BY <1>5 DEF WithBody
    <2>2. [name |-> ContentType, value |-> type] \in GivenHeader
      BY DEF GivenHeader
    <2> QED
      BY <2>1, <2>2, GiveKeeps
  <1>6. CASE Handle
    BY <1>6 DEF Handle, RestInv, OwnHeadersWin
  <1>7. CASE UNCHANGED restVars
    <2>1. UNCHANGED <<client, request, given, exchange, outgoing, response>>
      BY <1>7 DEF restVars
    <2>2. OwnHeadersWin'
      BY <2>1 DEF RestInv, OwnHeadersWin
    <2> QED
      BY <2>1, <2>2 DEF RestInv
  <1> QED
    BY <1>1, <1>2, <1>3, <1>4, <1>5, <1>6, <1>7, SendKeeps DEF RestNext

\* with_header, with_body and send, in any order and for any names: what a caller
\* asks for is what is sent.
THEOREM OwnHeadersSent == RestSpec => []OwnHeadersWin
  <1>1. RestInit => RestInv
    <2> SUFFICES ASSUME RestInit PROVE RestInv
      OBVIOUS
    <2>1. DOMAIN client = {"base", "defaults", "auth"} /\ client.base \in Bases
      BY DEF RestInit
    <2>2. /\ DOMAIN request = {"url", "headers", "body"} /\ request.url = <<>>
          /\ DOMAIN request.headers = {}
      <3>1. request = [url |-> <<>>, headers |-> <<>>, body |-> ""]
        BY DEF RestInit, NoRequest
      <3>2. \A s : s = <<>> => DOMAIN s = {}
        OBVIOUS
      <3> QED
        BY <3>1, <3>2
    <2>3. given = <<>> /\ DOMAIN given = {} /\ given \in Seq(GivenHeader) /\ exchange = "client"
      BY DEF RestInit
    <2> QED
      BY <2>1, <2>2, <2>3 DEF RestInv, OwnHeadersWin
  <1>2. RestInv => OwnHeadersWin
    BY DEF RestInv
  <1> QED
    BY <1>1, <1>2, RestStepKeeps, PTL DEF RestSpec

-----------------------------------------------------------------------------
\* Configuration, for any files, environments and overrides.

\* What was validated, and what a report failed on, is the configuration as it
\* is: loading is over, and an override takes both back.
SinkInv ==
    /\ verdict = {} => /\ load = "loaded"
                       /\ Is("sink_type", {"file"}) => Given("path")
    /\ report = "invalid_input" => /\ load = "loaded"
                                   /\ Is("sink_type", {"file"}) /\ ~Given("path")

LEMMA SinkInvKeeps == SinkInv /\ [ConfigNext]_configVars => SinkInv'
  <1> SUFFICES ASSUME SinkInv, [ConfigNext]_configVars PROVE SinkInv'
    OBVIOUS
  <1>1. CASE LoadConfig
    BY <1>1 DEF LoadConfig, SinkInv
  <1>2. CASE ExpandText
    BY <1>2 DEF ExpandText, SinkInv
  <1>3. CASE FromStr
    BY <1>3 DEF FromStr, SinkInv
  <1>4. CASE ExpandEnv
    BY <1>4 DEF ExpandEnv, SinkInv
  <1>5. CASE With
    <2>1. NotValidated # {} /\ "" # "invalid_input"
      BY DEF NotValidated
    <2> QED
      BY <1>5, <2>1 DEF With, SinkInv
  <1>6. CASE Validate
    <2>1. MissingFields = {} => (Is("sink_type", {"file"}) => Given("path"))
      BY DEF MissingFields
    <2> QED
      BY <1>6, <2>1 DEF Validate, SinkInv, Is, Given
  <1>7. CASE Build
    BY <1>7 DEF Build, SinkInv, Is, Given
  <1>8. CASE WriteReport
    BY <1>8 DEF WriteReport, SinkInv, Is, Given
  <1>9. CASE UNCHANGED configVars
    BY <1>9 DEF configVars, SinkInv, Is, Given
  <1> QED
    BY <1>1, <1>2, <1>3, <1>4, <1>5, <1>6, <1>7, <1>8, <1>9 DEF ConfigNext

\* validate and ConfiguredOutputSink: what validate accepts has a sink that can
\* be written, whatever was in the file, the environment and the overrides.
THEOREM SinksWrite == ConfigSpec => []ValidatedSinkWrites
  <1>1. ConfigInit => SinkInv
    <2> SUFFICES ASSUME ConfigInit PROVE SinkInv
      OBVIOUS
    <2>1. verdict = NotValidated
      BY Zenon DEF ConfigInit
    <2>2. report = ""
      BY Zenon DEF ConfigInit
    <2>3. "" # "invalid_input" /\ NotValidated # {}
      BY DEF NotValidated
    <2> QED
      BY <2>1, <2>2, <2>3 DEF SinkInv
  <1>2. SinkInv => ValidatedSinkWrites
    BY DEF SinkInv, ValidatedSinkWrites
  <1> QED
    BY <1>1, <1>2, SinkInvKeeps, PTL DEF ConfigSpec
-----------------------------------------------------------------------------
\* Expansion: what expand_env_vars makes of a text is what it makes of its parts,
\* as long as every reference is closed in its part.  The recursion is over the
\* places of a text; inductions are over sets of numbers.

\* What holds at 0 and of every next number holds of all of them.
LEMMA Induction ==
    ASSUME NEW S, 0 \in S, \A n \in Nat : n \in S => n + 1 \in S
    PROVE  Nat \subseteq S
  <1> DEFINE R == {ss \in Nat \X Nat : ss[1] < ss[2]}
             T == Nat \ S
  <1>1. IsWellFoundedOn(R, Nat)
    BY NatLessThanWellFounded DEF OpToRel
  <1>2. \A m, n \in Nat : m < n => <<m, n>> \in R
    OBVIOUS
  <1> HIDE DEF R
  <1>3. SUFFICES ASSUME T # {} PROVE FALSE
    OBVIOUS
  <1>4. T \subseteq Nat
    OBVIOUS
  <1>5. \E x \in T : \A y \in T : <<y, x>> \notin R
    <2> HIDE DEF T
    <2> QED
      BY <1>1, <1>3, <1>4, WFMin
  <1>6. PICK x \in T : \A y \in T : <<y, x>> \notin R
    BY <1>5
  <1>7. x - 1 \in T /\ x - 1 < x
    OBVIOUS
  <1> QED
    BY <1>2, <1>6, <1>7

-----------------------------------------------------------------------------
\* Parts of two texts that have the same tokens, d places apart.
LEMMA SameParts ==
    ASSUME NEW S, NEW s \in Seq(S), NEW t \in Seq(S),
           NEW m \in Int, NEW n \in Int, NEW d \in Int,
           NEW p, NEW q, p = m + d, q = n + d,
           \A k \in m..n : k \in 1..Len(s) /\ k + d \in 1..Len(t) /\ s[k] = t[k + d]
    PROVE  SubSeq(s, m, n) = SubSeq(t, p, q)
  <1> DEFINE x == SubSeq(s, m, n)
             y == SubSeq(t, p, q)
  <1>1. p \in Int /\ q \in Int
    OBVIOUS
  <1>2. /\ x \in Seq(S) /\ Len(x) = IF m <= n THEN n - m + 1 ELSE 0
        /\ \A i \in 1..n - m + 1 : x[i] = s[m + i - 1]
    <2>1. \A k \in m..n : s[k] \in S
      OBVIOUS
    <2> QED
      BY <2>1, SubSeqProperties
  <1>3. /\ y \in Seq(S) /\ Len(y) = IF p <= q THEN q - p + 1 ELSE 0
        /\ \A i \in 1..q - p + 1 : y[i] = t[p + i - 1]
    <2>1. \A k \in p..q : t[k] \in S
      <3> SUFFICES ASSUME NEW k \in p..q PROVE t[k] \in S
        OBVIOUS
      <3>1. k - d \in m..n /\ (k - d) + d = k
        OBVIOUS
      <3>2. k \in 1..Len(t)
        BY <3>1
      <3> QED
        BY <3>2, ElementOfSeq
    <2> QED
      BY <1>1, <2>1, SubSeqProperties
  <1>4. Len(x) = Len(y)
    BY <1>2, <1>3
  <1>5. ASSUME NEW i \in 1..Len(x) PROVE x[i] = y[i]
    <2>1. i \in 1..n - m + 1 /\ m + i - 1 \in m..n /\ i \in 1..q - p + 1
      BY <1>2, SMTT(30)
    <2>2. x[i] = s[m + i - 1] /\ y[i] = t[p + i - 1]
      BY <1>2, <1>3, <2>1
    <2>3. p + i - 1 = (m + i - 1) + d
      OBVIOUS
    <2> QED
      BY <2>1, <2>2, <2>3
  <1> HIDE DEF x, y
  <1>6. x = y
    BY <1>2, <1>3, <1>4, <1>5, SeqEqual
  <1> QED
    BY <1>6 DEF x, y

\* A pattern stands in a text at i if its tokens do.
LEMMA PrefixAt ==
    ASSUME NEW S, NEW p \in Seq(S), NEW s \in Seq(S), NEW i \in 1..Len(s) + 1
    PROVE  Seqs!IsPrefix(p, SubSeq(s, i, Len(s))) <=>
             Len(p) <= Len(s) - i + 1 /\ \A j \in 1..Len(p) : p[j] = s[i + j - 1]
  <1> DEFINE t == SubSeq(s, i, Len(s))
             q == SubSeq(t, 1, Len(p))
  <1>1. t \in Seq(S) /\ Len(t) = Len(s) - i + 1 /\ \A j \in 1..Len(t) : t[j] = s[i + j - 1]
    <2>1. \A k \in i..Len(s) : s[k] \in S
      OBVIOUS
    <2> QED
      BY <2>1, SubSeqProperties
  <1>2. SubSeq(p, 1, Len(p)) = p
    BY SubSeqFull
  <1>3. Len(p) <= Len(t) =>
           /\ q \in Seq(S) /\ Len(q) = Len(p)
           /\ \A j \in 1..Len(p) : q[j] = t[j]
    <2> HIDE DEF t
    <2> SUFFICES ASSUME Len(p) <= Len(t)
                 PROVE  q \in Seq(S) /\ Len(q) = Len(p) /\ \A j \in 1..Len(p) : q[j] = t[j]
      OBVIOUS
    <2>1. Len(p) \in Nat /\ \A k \in 1..Len(p) : t[k] \in S
      BY <1>1
    <2>2. /\ q \in Seq(S) /\ Len(q) = IF 1 <= Len(p) THEN Len(p) - 1 + 1 ELSE 0
          /\ \A j \in 1..Len(p) - 1 + 1 : q[j] = t[1 + j - 1]
      BY <2>1, SubSeqProperties
    <2>3. Len(p) - 1 + 1 = Len(p) /\ Len(q) = Len(p)
      BY <2>1, <2>2
    <2>4. \A j \in 1..Len(p) : 1 + j - 1 = j
      OBVIOUS
    <2> QED
      BY <2>2, <2>3, <2>4
  <1>4. Seqs!IsPrefix(p, t) <=> Len(p) <= Len(t) /\ p = q
    BY <1>2 DEF Seqs!IsPrefix
  <1> HIDE DEF t, q
  <1>5. Len(p) <= Len(t) => (p = q <=> \A j \in 1..Len(p) : p[j] = t[j])
    BY <1>3, SeqEqual
  <1>6. Len(p) <= Len(t) => \A j \in 1..Len(p) : t[j] = s[i + j - 1]
    BY <1>1
  <1>7. Seqs!IsPrefix(p, t) <=>
          Len(p) <= Len(s) - i + 1 /\ \A j \in 1..Len(p) : p[j] = s[i + j - 1]
    BY <1>1, <1>4, <1>5, <1>6
  <1> QED
    BY <1>7 DEF t

\* A text stays one when there are more tokens.
LEMMA MoreTokens ==
    ASSUME NEW S, NEW s \in Seq(S), NEW T, S \subseteq T
    PROVE  s \in Seq(T)
  OBVIOUS

\* Where a pattern of one token stands.
LEMMA TokenAt ==
    ASSUME NEW U, NEW s \in Seq(U), NEW p \in Seq(U), Len(p) = 1, NEW i \in 1..Len(s)
    PROVE  Seqs!IsPrefix(p, SubSeq(s, i, Len(s))) <=> s[i] = p[1]
  <1>1. i \in 1..Len(s) + 1 /\ 1 <= Len(s) - i + 1 /\ i + 1 - 1 = i
    OBVIOUS
  <1>2. Seqs!IsPrefix(p, SubSeq(s, i, Len(s))) <=>
           Len(p) <= Len(s) - i + 1 /\ \A j \in 1..Len(p) : p[j] = s[i + j - 1]
    BY <1>1, PrefixAt, Zenon
  <1>3. 1 \in 1..1 /\ \A j \in 1..1 : j = 1
    OBVIOUS
  <1> QED
    BY <1>1, <1>2, <1>3

\* Where a pattern of two tokens stands.
LEMMA PairAt ==
    ASSUME NEW U, NEW s \in Seq(U), NEW p \in Seq(U), Len(p) = 2, NEW i \in 1..Len(s)
    PROVE  Seqs!IsPrefix(p, SubSeq(s, i, Len(s))) <=>
             i < Len(s) /\ s[i] = p[1] /\ s[i + 1] = p[2]
  <1>1. i + 1 - 1 = i /\ i + 2 - 1 = i + 1 /\ Len(s) \in Nat /\ i \in 1..Len(s) + 1
    OBVIOUS
  <1>2. Len(p) <= Len(s) - i + 1 <=> i < Len(s)
    BY <1>1
  <1>3. (\A j \in 1..2 : p[j] = s[i + j - 1]) <=> p[1] = s[i + 1 - 1] /\ p[2] = s[i + 2 - 1]
    <2>1. 1 \in 1..2 /\ 2 \in 1..2 /\ \A j \in 1..2 : j = 1 \/ j = 2
      OBVIOUS
    <2> QED
      BY <2>1, Zenon
  <1>4. Seqs!IsPrefix(p, SubSeq(s, i, Len(s))) <=>
           Len(p) <= Len(s) - i + 1 /\ \A j \in 1..Len(p) : p[j] = s[i + j - 1]
    BY <1>1, PrefixAt, ZenonT(60)
  <1> QED
    BY <1>1, <1>2, <1>3, <1>4

\* Where a reference opens.
LEMMA OpensAt ==
    ASSUME NEW S, NEW s \in Seq(S), NEW i \in 1..Len(s)
    PROVE  Opens(s, i) <=> i < Len(s) /\ s[i] = "$" /\ s[i + 1] = "{"
  <1> DEFINE U == S \cup {"$", "{"}
  <1>1. s \in Seq(U)
    BY MoreTokens
  <1>2. Opening \in Seq(U)
    BY DEF Opening
  <1>3. Len(Opening) = 2 /\ Opening[1] = "$" /\ Opening[2] = "{"
    BY DEF Opening
  <1> HIDE DEF U
  <1>4. Seqs!IsPrefix(Opening, SubSeq(s, i, Len(s))) <=>
             i < Len(s) /\ s[i] = Opening[1] /\ s[i + 1] = Opening[2]
    BY <1>1, <1>2, <1>3, PairAt, Zenon
  <1> QED
    BY <1>3, <1>4, Zenon DEF Opens

\* find: the first place of a pattern of one token.
LEMMA FindsFirst ==
    ASSUME NEW S, NEW s \in Seq(S), NEW c, NEW i \in Nat \ {0}, NEW at, at = FindFrom(s, <<c>>, i)
    PROVE  /\ at \in {0} \cup (i..Len(s))
           /\ at = 0 => \A k \in i..Len(s) : s[k] # c
           /\ at # 0 => s[at] = c /\ \A k \in i..at - 1 : s[k] # c
  <1> DEFINE U == S \cup {c}
             p == <<c>>
             T == {k \in i..Len(s) : Seqs!IsPrefix(p, SubSeq(s, k, Len(s)))}
  <1>1. s \in Seq(U) /\ Len(s) \in Nat
    BY MoreTokens
  <1>2. p \in Seq(U) /\ Len(p) = 1 /\ p[1] = c
    OBVIOUS
  <1>3. at = IF T = {} THEN 0 ELSE CHOOSE k \in T : \A j \in T : k <= j
    BY DEF FindFrom
  <1>4. T \in SUBSET Nat /\ T \subseteq i..Len(s)
    BY <1>1
  <1> HIDE DEF p, U
  <1>5. ASSUME NEW k \in i..Len(s) PROVE k \in T <=> s[k] = c
    <2>1. k \in 1..Len(s)
      BY <1>1
    <2>2. Seqs!IsPrefix(p, SubSeq(s, k, Len(s))) <=> s[k] = p[1]
      BY <1>1, <1>2, <2>1, TokenAt, ZenonT(60)
    <2> QED
      BY <1>2, <2>2
  <1> HIDE DEF T
  <1>6. CASE T = {}
    BY <1>5, <1>3, <1>6
  <1>7. CASE T # {}
    <2>1. \E k \in T : \A j \in T : k <= j
      BY <1>4, <1>7, LeastExists
    <2>2. at \in T /\ \A j \in T : at <= j
      BY <1>3, <1>7, <2>1
    <2>3. at \in i..Len(s) /\ at # 0
      BY <1>4, <2>2
    <2>4. ASSUME NEW k \in i..at - 1 PROVE s[k] # c
      <3>1. k \in i..Len(s) /\ ~(at <= k)
        BY <1>1, <2>3
      <3> QED
        BY <1>5, <2>2, <3>1
    <2> QED
      BY <1>5, <2>2, <2>3, <2>4
  <1> QED
    BY <1>6, <1>7
-----------------------------------------------------------------------------
\* What the expansion of a text over S can be.
Result(S) == {Failed("env_var")} \cup {Done(t) : t \in Seq(S)}

EnvIn(S, e) == \A n \in DOMAIN e : e[n] \in Seq(S)

\* expand_env_vars fails, or it returns a text.
LEMMA ResultCases ==
    ASSUME NEW S, NEW r \in Result(S)
    PROVE  \/ r = Failed("env_var")
           \/ r.text \in Seq(S) /\ r = Done(r.text) /\ r.error = ""
  <1>1. ASSUME NEW t \in Seq(S), r = Done(t) PROVE r.text \in Seq(S) /\ r = Done(r.text) /\ r.error = ""
    BY <1>1 DEF Done
  <1> QED
    BY <1>1 DEF Result

\* Failing and returning a text are results.
LEMMA ResultType ==
    ASSUME NEW S
    PROVE  /\ Failed("env_var") \in Result(S) /\ Failed("env_var").error # ""
           /\ \A t \in Seq(S) : Done(t) \in Result(S) /\ Done(t).text = t /\ Done(t).error = ""
  BY DEF Result, Failed, Done

\* Two pieces give a text if neither failed.
LEMMA JoinCases ==
    ASSUME NEW S, NEW r \in Result(S), NEW q \in Result(S)
    PROVE  /\ r.error # "" => r = Failed("env_var") /\ Join(r, q) = Failed("env_var")
           /\ q.error # "" => q = Failed("env_var") /\ Join(r, q) = Failed("env_var")
           /\ r.error = "" /\ q.error = "" => Join(r, q) = Done(r.text \o q.text)
  <1>1. \A p \in Result(S) : p.error # "" => p = Failed("env_var")
    BY ResultCases
  <1> QED
    BY <1>1 DEF Join

\* What is joined is a result.
LEMMA JoinType ==
    ASSUME NEW S, NEW r \in Result(S), NEW q \in Result(S)
    PROVE  Join(r, q) \in Result(S)
  <1>1. CASE r.error = "" /\ q.error = ""
    <2>1. r.text \in Seq(S) /\ q.text \in Seq(S)
      BY <1>1, ResultCases, ResultType
    <2>2. r.text \o q.text \in Seq(S)
      BY <2>1, ConcatProperties
    <2>3. Join(r, q) = Done(r.text \o q.text)
      BY <1>1, JoinCases, Zenon
    <2> QED
      BY <2>2, <2>3, ResultType, Zenon
  <1>2. CASE ~(r.error = "" /\ q.error = "")
    <2>1. Join(r, q) = Failed("env_var")
      BY <1>2, JoinCases, Zenon
    <2> QED
      BY <2>1, ResultType, Zenon
  <1> QED
    BY <1>1, <1>2

\* What was joined, if nothing failed.
LEMMA JoinOk ==
    ASSUME NEW S, NEW r \in Result(S), NEW q \in Result(S)
    PROVE  /\ r.error = "" /\ q.error = "" =>
                 Join(r, q).error = "" /\ Join(r, q).text = r.text \o q.text
           /\ ~(r.error = "" /\ q.error = "") =>
                 Join(r, q) = Failed("env_var") /\ Join(r, q).error # ""
  <1>1. r.error = "" /\ q.error = "" => Join(r, q).error = "" /\ Join(r, q).text = r.text \o q.text
    <2>1. \A t : Done(t).error = "" /\ Done(t).text = t
      BY DEF Done
    <2> QED
      BY <2>1, JoinCases, ZenonT(60)
  <1>2. ~(r.error = "" /\ q.error = "") => Join(r, q) = Failed("env_var")
    BY JoinCases, Zenon
  <1>3. Failed("env_var").error # ""
    BY ResultType, Zenon
  <1> QED
    BY <1>1, <1>2, <1>3, Zenon

\* Pieces may be joined in any order.
LEMMA JoinAssoc ==
    ASSUME NEW S, NEW p \in Result(S), NEW q \in Result(S), NEW r \in Result(S)
    PROVE  Join(p, Join(q, r)) = Join(Join(p, q), r)
  <1> DEFINE x == Join(q, r)
             y == Join(p, q)
  <1>1. x \in Result(S) /\ y \in Result(S)
    BY JoinType
  <1>2. CASE p.error = "" /\ q.error = "" /\ r.error = ""
    <2>1. p.text \in Seq(S) /\ q.text \in Seq(S) /\ r.text \in Seq(S)
      BY <1>2, ResultCases, ResultType
    <2>2. /\ x.error = "" /\ x.text = q.text \o r.text
          /\ y.error = "" /\ y.text = p.text \o q.text
      BY <1>2, JoinOk
    <2> HIDE DEF x, y
    <2>3. Join(p, x) = Done(p.text \o (q.text \o r.text))
      BY <1>1, <1>2, <2>2, JoinCases, Zenon
    <2>4. Join(y, r) = Done((p.text \o q.text) \o r.text)
      BY <1>1, <1>2, <2>2, JoinCases, Zenon
    <2>5. \A t \in Seq(S), u \in Seq(S), v \in Seq(S) : (t \o u) \o v = t \o (u \o v)
      BY ConcatAssociative
    <2>6. p.text \o (q.text \o r.text) = (p.text \o q.text) \o r.text
      BY <2>1, <2>5, Zenon
    <2> QED
      BY <2>3, <2>4, <2>6, Zenon DEF x, y
  <1>3. CASE ~(p.error = "" /\ q.error = "" /\ r.error = "")
    <2>1. /\ ~(q.error = "" /\ r.error = "") => x.error # ""
          /\ ~(p.error = "" /\ q.error = "") => y.error # ""
      BY JoinOk, Zenon
    <2> HIDE DEF x, y
    <2>2. Join(p, x) = Failed("env_var")
      BY <1>1, <1>3, <2>1, JoinCases, Zenon
    <2>3. Join(y, r) = Failed("env_var")
      BY <1>1, <1>3, <2>1, JoinCases, Zenon
    <2> QED
      BY <2>2, <2>3, Zenon DEF x, y
  <1> QED
    BY <1>2, <1>3

\* Nothing behind a piece leaves it as it is.
LEMMA JoinNothing ==
    ASSUME NEW S, NEW r \in Result(S)
    PROVE  Join(Done(<<>>), r) = r /\ Join(r, Done(<<>>)) = r
  <1>1. <<>> \in Seq(S)
    OBVIOUS
  <1>2. Done(<<>>) \in Result(S) /\ Done(<<>>).text = <<>> /\ Done(<<>>).error = ""
    BY <1>1, ResultType, Zenon
  <1>3. CASE r.error = ""
    <2>1. r.text \in Seq(S) /\ r = Done(r.text)
      BY <1>3, ResultCases, ResultType
    <2>2. <<>> \o r.text = r.text /\ r.text \o <<>> = r.text
      BY <2>1, ConcatEmptySeq
    <2>3. /\ Join(Done(<<>>), r) = Done(<<>> \o r.text)
          /\ Join(r, Done(<<>>)) = Done(r.text \o <<>>)
      BY <1>2, <1>3, JoinCases, Zenon
    <2> QED
      BY <2>1, <2>2, <2>3, Zenon
  <1>4. CASE r.error # ""
    <2>1. r = Failed("env_var")
      BY <1>2, <1>4, JoinCases, Zenon
    <2> QED
      BY <1>2, <1>4, <2>1, JoinCases, Zenon
  <1> QED
    BY <1>3, <1>4

\* A reference gives a text, of the environment or its own default.
LEMMA ReferenceType ==
    ASSUME NEW S, NEW s \in Seq(S), NEW e, EnvIn(S, e)
    PROVE  Reference(s, e) \in Result(S)
  <1> DEFINE mark == FindFrom(s, <<":-">>, 1)
             name == IF mark = 0 THEN s ELSE SubSeq(s, 1, mark - 1)
  <1>1. mark \in {0} \cup (1..Len(s))
    BY FindsFirst
  <1>2. mark # 0 => SubSeq(s, mark + 1, Len(s)) \in Seq(S)
    <2>1. mark # 0 => \A k \in mark + 1..Len(s) : s[k] \in S
      BY <1>1
    <2> QED
      BY <1>1, <2>1, SubSeqProperties
  <1>3. name \in DOMAIN e => e[name] \in Seq(S)
    BY DEF EnvIn
  <1>4. Reference(s, e) = IF name \in DOMAIN e THEN Done(e[name])
                          ELSE IF mark # 0 THEN Done(SubSeq(s, mark + 1, Len(s)))
                          ELSE Failed("env_var")
    BY DEF Reference
  <1> HIDE DEF mark, name
  <1> QED
    BY <1>2, <1>3, <1>4, ResultType

\* A turn of the loop goes on behind the piece it has read.
LEMMA AfterLater ==
    ASSUME NEW S, NEW s \in Seq(S), NEW i \in 1..Len(s)
    PROVE  After(s, i) \in i + 1..Len(s) + 1
  <1> DEFINE close == CloseBrace(s, i + 2)
  <1>1. close \in {0} \cup (i + 2..Len(s))
    <2>1. i + 2 \in Nat \ {0}
      OBVIOUS
    <2> QED
      BY <2>1, FindsFirst DEF CloseBrace
  <1>2. After(s, i) = IF ~Opens(s, i) THEN i + 1 ELSE IF close = 0 THEN Len(s) + 1 ELSE close + 1
    BY DEF After
  <1> HIDE DEF close
  <1> QED
    BY <1>1, <1>2

\* A piece gives a result.
LEMMA PieceType ==
    ASSUME NEW S, NEW s \in Seq(S), NEW e, EnvIn(S, e), NEW i \in 1..Len(s)
    PROVE  Piece(s, e, i) \in Result(S)
  <1> DEFINE close == CloseBrace(s, i + 2)
             x == SubSeq(s, i + 2, close - 1)
  <1>1. close \in {0} \cup (i + 2..Len(s))
    <2>1. i + 2 \in Nat \ {0}
      OBVIOUS
    <2> QED
      BY <2>1, FindsFirst DEF CloseBrace
  <1>2. Piece(s, e, i) = IF ~Opens(s, i) THEN Done(<<s[i]>>)
                         ELSE IF close = 0 THEN Done(SubSeq(s, i, Len(s)))
                         ELSE Reference(x, e)
    BY DEF Piece
  <1>3. close # 0 => x \in Seq(S)
    <2> HIDE DEF close
    <2>1. close # 0 => i + 2 \in Int /\ close - 1 \in Int /\ \A k \in i + 2..close - 1 : s[k] \in S
      BY <1>1
    <2> QED
      BY <2>1, SubSeqProperties
  <1>4. <<s[i]>> \in Seq(S) /\ SubSeq(s, i, Len(s)) \in Seq(S)
    <2>1. s[i] \in S /\ \A k \in i..Len(s) : s[k] \in S
      OBVIOUS
    <2> QED
      BY <2>1, SubSeqProperties
  <1> HIDE DEF close, x
  <1>5. close # 0 => Reference(x, e) \in Result(S)
    BY <1>3, ReferenceType
  <1> QED
    BY <1>2, <1>4, <1>5, ResultType
-----------------------------------------------------------------------------
\* The results of the loop from each place of a text on.
Scanned(f, s, e, S) ==
    /\ f \in [1..Len(s) + 1 -> Result(S)]
    /\ f[Len(s) + 1] = Done(<<>>)
    /\ \A i \in 1..Len(s) : f[i] = Join(Piece(s, e, i), f[After(s, i)])

\* The loop ends, place by place from the text's end.
LEMMA Scans ==
    ASSUME NEW S, NEW s \in Seq(S), NEW e, EnvIn(S, e)
    PROVE  \E f : Scanned(f, s, e, S) /\ ExpandEnvVars(s, e) = f[1]
  <1> DEFINE L == Len(s)
             R == Result(S)
             P(i) == Piece(s, e, i)
             A(i) == After(s, i)
             Step(f, i) == IF i > L THEN Done(<<>>) ELSE Join(P(i), f[A(i)])
             From(m) == {f \in [1..L + 1 -> R] : \A i \in 1..L + 1 : i > m => f[i] = Step(f, i)}
             Ms == {m \in Nat : m <= L + 1 => From(L + 1 - m) # {}}
  <1>1. L \in Nat /\ Done(<<>>) \in R
    <2>1. <<>> \in Seq(S) /\ Len(s) \in Nat
      OBVIOUS
    <2>2. Done(<<>>) \in Result(S)
      BY <2>1, ResultType, Zenon
    <2> QED
      BY <2>1, <2>2
  <1>2. \A i \in 1..L : P(i) \in R /\ A(i) \in i + 1..L + 1
    BY PieceType, AfterLater
  <1>3. \A r, q \in R : Join(r, q) \in R
    BY JoinType
  <1>4. ExpandEnvVars(s, e) = (CHOOSE f : f = [i \in 1..L + 1 |-> Step(f, i)])[1]
    BY DEF ExpandEnvVars
  <1>5. \A f \in [1..L + 1 -> R] : Scanned(f, s, e, S) <=> \A i \in 1..L + 1 : f[i] = Step(f, i)
    <2> SUFFICES ASSUME NEW f \in [1..L + 1 -> R]
                 PROVE  Scanned(f, s, e, S) <=> \A i \in 1..L + 1 : f[i] = Step(f, i)
      OBVIOUS
    <2>1. \A i \in 1..L + 1 : i = L + 1 \/ i \in 1..L
      BY <1>1
    <2>2. L + 1 \in 1..L + 1 /\ L + 1 > L /\ \A i \in 1..L : i \in 1..L + 1 /\ ~(i > L)
      BY <1>1
    <2> QED
      BY <2>1, <2>2 DEF Scanned
  <1> HIDE DEF L, R, P, A
  <1>6. \A f, g \in [1..L + 1 -> R], i \in 1..L + 1 :
           (\A j \in 1..L + 1 : j > i => f[j] = g[j]) => Step(f, i) = Step(g, i)
    <2> SUFFICES ASSUME NEW f \in [1..L + 1 -> R], NEW g \in [1..L + 1 -> R], NEW i \in 1..L + 1,
                        \A j \in 1..L + 1 : j > i => f[j] = g[j]
                 PROVE  Step(f, i) = Step(g, i)
      OBVIOUS
    <2>1. i > L \/ (i \in 1..L /\ A(i) \in 1..L + 1 /\ A(i) > i)
      BY <1>1, <1>2
    <2> QED
      BY <2>1
  <1>7. 0 \in Ms
    <2>1. [i \in 1..L + 1 |-> Done(<<>>)] \in From(L + 1)
      BY <1>1
    <2>2. L + 1 - 0 = L + 1
      BY <1>1
    <2> QED
      BY <2>1, <2>2
  <1>8. ASSUME NEW m \in Nat, m \in Ms PROVE m + 1 \in Ms
    <2> SUFFICES ASSUME m + 1 <= L + 1 PROVE From(L + 1 - (m + 1)) # {}
      OBVIOUS
    <2> DEFINE k == L + 1 - m
    <2>1. k \in 1..L + 1 /\ k - 1 = L + 1 - (m + 1) /\ m <= L + 1
      BY <1>1
    <2>2. PICK f \in From(k) : TRUE
      BY <1>8, <2>1
    <2> DEFINE g == [f EXCEPT ![k] = Step(f, k)]
    <2> HIDE DEF k
    <2>3. Step(f, k) \in R
      BY <1>1, <1>2, <1>3, <2>1, <2>2
    <2>4. g \in [1..L + 1 -> R] /\ g[k] = Step(f, k) /\ \A j \in 1..L + 1 : j # k => g[j] = f[j]
      BY <2>1, <2>2, <2>3
    <2> HIDE DEF g
    <2>5. ASSUME NEW i \in 1..L + 1, i > k - 1 PROVE g[i] = Step(g, i)
      <3>1. i = k \/ i > k
        BY <1>1, <2>1, <2>5
      <3>2. g[i] = Step(f, i)
        BY <2>1, <2>2, <2>4, <3>1
      <3>3. \A j \in 1..L + 1 : j > i => g[j] = f[j]
        BY <1>1, <2>1, <2>4, <3>1
      <3>4. Step(g, i) = Step(f, i)
        BY <1>6, <2>2, <2>4, <3>3
      <3> QED
        BY <3>2, <3>4
    <2>6. g \in From(k - 1)
      BY <2>4, <2>5
    <2> QED
      BY <2>1, <2>6
  <1>9. From(0) # {}
    <2>1. Nat \subseteq Ms
      <3> HIDE DEF Ms
      <3> QED
        BY <1>7, <1>8, Induction
    <2>2. L + 1 \in Nat /\ L + 1 - (L + 1) = 0
      BY <1>1
    <2>3. L + 1 \in Ms
      BY <2>1, <2>2
    <2>4. From(L + 1 - (L + 1)) # {}
      BY <2>2, <2>3
    <2> QED
      BY <2>2, <2>4
  <1>10. PICK f \in From(0) : TRUE
    BY <1>9
  <1>11. f \in [1..L + 1 -> R] /\ \A i \in 1..L + 1 : f[i] = Step(f, i)
    BY <1>10
  <1> DEFINE g == CHOOSE h : h = [i \in 1..L + 1 |-> Step(h, i)]
  <1>12. g = [i \in 1..L + 1 |-> Step(g, i)]
    <2>1. f = [i \in 1..L + 1 |-> Step(f, i)]
      BY <1>11
    <2> QED
      BY <2>1, Zenon
  <1> HIDE DEF g
  <1> DEFINE Same == {m \in Nat : \A i \in 1..L + 1 : i >= L + 1 - m => g[i] = f[i]}
  <1>13. 0 \in Same
    <2>1. L + 1 \in 1..L + 1 /\ L + 1 > L /\ \A i \in 1..L + 1 : i >= L + 1 - 0 => i = L + 1
      BY <1>1
    <2>2. g[L + 1] = Done(<<>>) /\ f[L + 1] = Done(<<>>)
      BY <1>11, <1>12, <2>1
    <2> QED
      BY <2>1, <2>2
  <1>14. ASSUME NEW m \in Nat, m \in Same PROVE m + 1 \in Same
    <2>1. ASSUME NEW i \in 1..L + 1, i >= L + 1 - (m + 1) PROVE g[i] = f[i]
      <3>1. CASE i > L
        BY <1>11, <1>12, <3>1
      <3>2. CASE ~(i > L)
        <4>1. i \in 1..L /\ A(i) \in 1..L + 1 /\ A(i) >= L + 1 - m
          BY <1>1, <1>2, <2>1, <3>2
        <4>2. g[A(i)] = f[A(i)]
          BY <1>14, <4>1
        <4>3. g[i] = Join(P(i), g[A(i)]) /\ f[i] = Join(P(i), f[A(i)])
          BY <1>11, <1>12, <3>2
        <4> QED
          BY <4>2, <4>3
      <3> QED
        BY <3>1, <3>2
    <2> QED
      BY <2>1
  <1>15. g[1] = f[1]
    <2>1. Nat \subseteq Same
      <3> HIDE DEF Same
      <3> QED
        BY <1>13, <1>14, Induction
    <2>2. 1 \in 1..L + 1 /\ 1 >= L + 1 - L
      BY <1>1
    <2>3. L \in Same
      <3> HIDE DEF Same
      <3> QED
        BY <1>1, <2>1
    <2> QED
      BY <2>2, <2>3
  <1>16. Scanned(f, s, e, S)
    BY <1>11, <1>5
  <1> QED
    BY <1>4, <1>15, <1>16 DEF g
-----------------------------------------------------------------------------
\* find returns the place of c that has none before it.
LEMMA FirstIs ==
    ASSUME NEW S, NEW s \in Seq(S), NEW c, NEW i \in Nat \ {0}
    PROVE  /\ \A k \in i..Len(s) : s[k] = c /\ (\A j \in i..k - 1 : s[j] # c) =>
                 FindFrom(s, <<c>>, i) = k
           /\ (\A k \in i..Len(s) : s[k] # c) => FindFrom(s, <<c>>, i) = 0
  <1> DEFINE at == FindFrom(s, <<c>>, i)
  <1>1. /\ at \in {0} \cup (i..Len(s))
        /\ at = 0 => \A k \in i..Len(s) : s[k] # c
        /\ at # 0 => s[at] = c /\ \A k \in i..at - 1 : s[k] # c
    BY FindsFirst
  <1> HIDE DEF at
  <1>2. ASSUME NEW k \in i..Len(s), s[k] = c, \A j \in i..k - 1 : s[j] # c PROVE at = k
    <2>1. at # 0 /\ at \in i..Len(s)
      BY <1>1, <1>2
    <2>2. at < k => at \in i..k - 1
      BY <2>1
    <2>3. k < at => k \in i..at - 1
      BY <2>1
    <2> QED
      BY <1>1, <1>2, <2>1, <2>2, <2>3
  <1>3. (\A k \in i..Len(s) : s[k] # c) => at = 0
    BY <1>1
  <1> QED
    BY <1>2, <1>3 DEF at

\* The closing brace that ends a reference is the first behind its opening.
LEMMA ClosesFirst ==
    ASSUME NEW S, NEW s \in Seq(S), NEW i \in Nat \ {0}
    PROVE  /\ CloseBrace(s, i) \in {0} \cup (i..Len(s))
           /\ CloseBrace(s, i) = 0 => \A k \in i..Len(s) : s[k] # "}"
           /\ CloseBrace(s, i) # 0 =>
                 s[CloseBrace(s, i)] = "}" /\ \A k \in i..CloseBrace(s, i) - 1 : s[k] # "}"
           /\ \A k \in i..Len(s) : s[k] = "}" /\ (\A j \in i..k - 1 : s[j] # "}") =>
                 CloseBrace(s, i) = k
           /\ (\A k \in i..Len(s) : s[k] # "}") => CloseBrace(s, i) = 0
  <1> DEFINE at == FindFrom(s, <<"}">>, i)
  <1>1. /\ at \in {0} \cup (i..Len(s))
        /\ at = 0 => \A k \in i..Len(s) : s[k] # "}"
        /\ at # 0 => s[at] = "}" /\ \A k \in i..at - 1 : s[k] # "}"
    BY FindsFirst
  <1>2. /\ \A k \in i..Len(s) : s[k] = "}" /\ (\A j \in i..k - 1 : s[j] # "}") => at = k
        /\ (\A k \in i..Len(s) : s[k] # "}") => at = 0
    BY FirstIs
  <1>3. CloseBrace(s, i) = at
    BY DEF CloseBrace
  <1> HIDE DEF at
  <1> QED
    BY <1>1, <1>2, <1>3

\* A closing brace with none before it ends the reference.
LEMMA ClosesAt ==
    ASSUME NEW S, NEW s \in Seq(S), NEW i \in Nat \ {0}, NEW k \in i..Len(s), s[k] = "}",
           \A j \in i..k - 1 : s[j] # "}"
    PROVE  CloseBrace(s, i) = k
  BY ClosesFirst

\* The tokens of two texts, one behind the other.
LEMMA Behind ==
    ASSUME NEW S, NEW a \in Seq(S), NEW b \in Seq(S), NEW t, t = a \o b, NEW n, n = Len(a)
    PROVE  /\ t \in Seq(S) /\ n \in Nat /\ Len(b) \in Nat /\ Len(t) = n + Len(b)
           /\ \A k \in 1..n : k \in 1..Len(t) /\ t[k] = a[k]
           /\ \A k \in 1..Len(b) : k + n \in 1..Len(t) /\ t[k + n] = b[k]
  <1>1. t \in Seq(S) /\ Len(t) = n + Len(b) /\ n \in Nat /\ Len(b) \in Nat
    BY ConcatProperties
  <1>2. \A k \in 1..n + Len(b) : t[k] = IF k <= n THEN a[k] ELSE b[k - n]
    BY ConcatProperties
  <1>3. \A k \in 1..Len(b) : k + n \in 1..n + Len(b) /\ ~(k + n <= n) /\ (k + n) - n = k
    OBVIOUS
  <1>4. \A k \in 1..n : k \in 1..n + Len(b) /\ k <= n
    BY <1>1
  <1>5. \A k \in 1..n : t[k] = a[k]
    BY <1>2, <1>4
  <1>6. \A k \in 1..Len(b) : t[k + n] = b[k]
    BY <1>2, <1>3
  <1> QED
    BY <1>1, <1>3, <1>4, <1>5, <1>6

\* The text t holds b, n places further on, to its end.
Shifted(t, b, n) ==
    /\ Len(t) = n + Len(b)
    /\ \A k \in 1..Len(b) : k + n \in 1..Len(t) /\ t[k + n] = b[k]

\* Further on, references open where they open in the text alone.
LEMMA OpensShifted ==
    ASSUME NEW S, NEW b \in Seq(S), NEW t \in Seq(S), NEW n \in Nat, Shifted(t, b, n),
           NEW j \in 1..Len(b), NEW q, q = j + n
    PROVE  Opens(t, q) <=> Opens(b, j)
  <1>1. /\ t \in Seq(S) /\ n \in Nat /\ Len(b) \in Nat /\ Len(t) = n + Len(b)
        /\ \A k \in 1..Len(b) : k + n \in 1..Len(t) /\ t[k + n] = b[k]
    BY DEF Shifted
  <1>2. q \in 1..Len(t) /\ t[q] = b[j] /\ j \in Nat
    BY <1>1
  <1>3. Opens(t, q) <=> q < Len(t) /\ t[q] = "$" /\ t[q + 1] = "{"
    BY <1>1, <1>2, OpensAt
  <1>4. Opens(b, j) <=> j < Len(b) /\ b[j] = "$" /\ b[j + 1] = "{"
    BY OpensAt
  <1>5. q < Len(t) <=> j < Len(b)
    BY <1>1, <1>2
  <1>6. j < Len(b) => j + 1 \in 1..Len(b) /\ q + 1 = (j + 1) + n
    BY <1>1, <1>2
  <1>7. j < Len(b) => t[q + 1] = b[j + 1]
    BY <1>1, <1>6
  <1> QED
    BY <1>2, <1>3, <1>4, <1>5, <1>7

\* There, the loop reads what it reads in b.
SamePieces(t, b, n, e) ==
    \A j \in 1..Len(b) :
        Piece(t, e, j + n) = Piece(b, e, j) /\ After(t, j + n) = After(b, j) + n

\* Further on, a piece is expanded as it is alone.
LEMMA PieceShifted ==
    ASSUME NEW S, NEW b \in Seq(S), NEW t \in Seq(S), NEW n \in Nat, Shifted(t, b, n), NEW e
    PROVE  SamePieces(t, b, n, e)
  <1> SUFFICES ASSUME NEW j \in 1..Len(b), NEW q, q = j + n
               PROVE  Piece(t, e, q) = Piece(b, e, j) /\ After(t, q) = After(b, j) + n
    BY DEF SamePieces
  <1>1. /\ t \in Seq(S) /\ n \in Nat /\ Len(b) \in Nat /\ Len(t) = n + Len(b)
        /\ \A k \in 1..Len(b) : k + n \in 1..Len(t) /\ t[k + n] = b[k]
    BY DEF Shifted
  <1>2. q \in 1..Len(t) /\ t[q] = b[j] /\ j \in Nat /\ j \in Int /\ n \in Int /\ q \in Nat
    BY <1>1
  <1>3. Opens(t, q) <=> Opens(b, j)
    BY OpensShifted
  <1>4. CASE ~Opens(b, j)
    <2>1. ~Opens(t, q) /\ b[j] = t[q]
      BY <1>2, <1>3, <1>4
    <2>2. /\ Piece(b, e, j) = Done(<<b[j]>>) /\ Piece(t, e, q) = Done(<<t[q]>>)
          /\ After(b, j) = j + 1 /\ After(t, q) = q + 1
      BY <1>4, <2>1, Zenon DEF Piece, After
    <2>3. q + 1 = (j + 1) + n
      BY <1>2
    <2> QED
      BY <2>1, <2>2, <2>3
  <1> DEFINE c == CloseBrace(b, j + 2)
             d == CloseBrace(t, q + 2)
  <1>5. /\ c \in {0} \cup (j + 2..Len(b))
        /\ c = 0 => \A k \in j + 2..Len(b) : b[k] # "}"
        /\ c # 0 => b[c] = "}" /\ \A k \in j + 2..c - 1 : b[k] # "}"
    <2>1. j + 2 \in Nat \ {0}
      BY <1>2
    <2> QED
      BY <2>1, ClosesFirst
  <1>6. /\ \A k \in q + 2..Len(t) : t[k] = "}" /\ (\A i \in q + 2..k - 1 : t[i] # "}") => d = k
        /\ (\A k \in q + 2..Len(t) : t[k] # "}") => d = 0
    <2> DEFINE m == q + 2
    <2>1. m \in Nat \ {0}
      BY <1>1, <1>2
    <2> HIDE DEF m
    <2>2. /\ \A k \in m..Len(t) : t[k] = "}" /\ (\A i \in m..k - 1 : t[i] # "}") => CloseBrace(t, m) = k
          /\ (\A k \in m..Len(t) : t[k] # "}") => CloseBrace(t, m) = 0
      BY <1>1, <2>1, ClosesFirst, ZenonT(60)
    <2> QED
      BY <2>2 DEF m
  <1> HIDE DEF c, d
  <1>7. \A k \in q + 2..Len(t) : k - n \in j + 2..Len(b) /\ t[k] = b[k - n]
    <2>1. \A k \in q + 2..Len(t) : k - n \in j + 2..Len(b) /\ k - n \in 1..Len(b) /\ (k - n) + n = k
      BY <1>1, <1>2
    <2> QED
      BY <1>1, <2>1
  <1>8. CASE Opens(b, j) /\ c # 0
    <2>1. c \in j + 2..Len(b)
      BY <1>5, <1>8
    <2>2. c + n \in q + 2..Len(t) /\ c + n \in 1..Len(t) /\ (c + n) - n = c /\ c \in Int
      BY <1>1, <1>2, <2>1
    <2>3. ASSUME NEW i \in q + 2..(c + n) - 1 PROVE t[i] # "}"
      <3>1. Len(t) = n + Len(b) /\ Len(b) \in Nat /\ c \in Nat /\ c <= Len(b)
        BY <1>1, <1>2, <2>1
      <3>2. i \in q + 2..Len(t) /\ i - n \in j + 2..c - 1
        BY <3>1
      <3> QED
        BY <1>5, <1>7, <1>8, <3>2
    <2>4. d = c + n
      BY <1>5, <1>6, <1>7, <1>8, <2>2, <2>3
    <2>5. \A k \in j..c : b[k] = t[k + n]
      <3>1. \A k \in j..c : k \in 1..Len(b)
        BY <1>2, <2>1
      <3> QED
        BY <1>1, <3>1
    <2>6. d \in 1..Len(t) /\ Opens(t, q)
      BY <1>3, <1>8, <2>2, <2>4
    <2>7. c = CloseBrace(b, j + 2) /\ d = CloseBrace(t, q + 2)
      BY DEF c, d
    <2>8. SubSeq(b, j + 2, c - 1) = SubSeq(t, q + 2, d - 1)
      <3> DEFINE l == j + 2
                 m == c - 1
                 x == q + 2
                 y == d - 1
      <3>1. \A k \in l..m : k \in 1..Len(b) /\ k + n \in 1..Len(t) /\ b[k] = t[k + n]
        <4>1. \A k \in l..m : k \in j..c /\ k \in 1..Len(b)
          BY <1>2, <2>1
        <4> QED
          BY <1>1, <4>1
      <3>2. l \in Int /\ m \in Int /\ x = l + n /\ y = m + n
        BY <1>2, <2>2, <2>4
      <3> HIDE DEF l, m, x, y
      <3>3. SubSeq(b, l, m) = SubSeq(t, x, y)
        BY <1>1, <1>2, <3>1, <3>2, SameParts
      <3> QED
        BY <3>3 DEF l, m, x, y
    <2>9. c # 0 /\ d # 0 /\ d + 1 = (c + 1) + n
      BY <1>1, <1>8, <2>2, <2>4
    <2>10. Piece(b, e, j) = Reference(SubSeq(b, j + 2, c - 1), e) /\ After(b, j) = c + 1
      BY <1>8, <2>7, <2>9, Zenon DEF Piece, After
    <2>11. Piece(t, e, q) = Reference(SubSeq(t, q + 2, d - 1), e) /\ After(t, q) = d + 1
      BY <2>6, <2>7, <2>9, Zenon DEF Piece, After
    <2> QED
      BY <2>8, <2>9, <2>10, <2>11
  <1>9. CASE Opens(b, j) /\ c = 0
    <2>1. d = 0
      BY <1>5, <1>6, <1>7, <1>9, ZenonT(60)
    <2>2. Piece(b, e, j) = Done(SubSeq(b, j, Len(b))) /\ After(b, j) = Len(b) + 1
      BY <1>9, Zenon DEF Piece, After, c
    <2>3. Piece(t, e, q) = Done(SubSeq(t, q, Len(t))) /\ After(t, q) = Len(t) + 1
      <3>1. Opens(t, q) /\ CloseBrace(t, q + 2) = 0
        BY <1>3, <1>9, <2>1 DEF d
      <3> QED
        BY <3>1, Zenon DEF Piece, After
    <2>4. SubSeq(b, j, Len(b)) = SubSeq(t, q, Len(t))
      <3> DEFINE m == Len(b)
                 y == Len(t)
      <3>1. \A k \in j..m : k \in 1..Len(b) /\ k + n \in 1..Len(t) /\ b[k] = t[k + n]
        BY <1>1, <1>2
      <3>2. m \in Int /\ y = m + n /\ j \in Int /\ n \in Int /\ q = j + n
        BY <1>1, <1>2
      <3> HIDE DEF m, y
      <3>3. SubSeq(b, j, m) = SubSeq(t, q, y)
        BY <1>1, <3>1, <3>2, SameParts
      <3> QED
        BY <3>3 DEF m, y
    <2>5. Len(b) + n = Len(t) /\ (Len(b) + 1) + n = Len(t) + 1
      BY <1>1
    <2> QED
      BY <2>2, <2>3, <2>4, <2>5
  <1> QED
    BY <1>4, <1>8, <1>9

\* Behind a text, references open as in the text alone.
LEMMA OpensBehind ==
    ASSUME NEW S, NEW a \in Seq(S), NEW b \in Seq(S), NEW t, t = a \o b, NEW n, n = Len(a),
           NEW j \in 1..Len(b), NEW q, q = j + n
    PROVE  Opens(t, q) <=> Opens(b, j)
  <1>1. t \in Seq(S) /\ n \in Nat /\ Shifted(t, b, n)
    BY Behind DEF Shifted
  <1> QED
    BY <1>1, OpensShifted

\* Behind a text, another one is expanded as it is alone.
LEMMA PieceBehind ==
    ASSUME NEW S, NEW a \in Seq(S), NEW b \in Seq(S), NEW e
    PROVE  \A j \in 1..Len(b) :
              /\ Piece(a \o b, e, j + Len(a)) = Piece(b, e, j)
              /\ After(a \o b, j + Len(a)) = After(b, j) + Len(a)
  <1>1. a \o b \in Seq(S) /\ Len(a) \in Nat /\ Shifted(a \o b, b, Len(a))
    <2> SUFFICES ASSUME NEW t, t = a \o b, NEW n, n = Len(a)
                 PROVE  t \in Seq(S) /\ n \in Nat /\ Shifted(t, b, n)
      OBVIOUS
    <2> QED
      BY Behind DEF Shifted
  <1>2. SamePieces(a \o b, b, Len(a), e)
    BY <1>1, PieceShifted
  <1> QED
    BY <1>2, Zenon DEF SamePieces

\* A text goes on behind a without touching a's last reference.
Separate(a, b) ==
    /\ Closed(a)
    /\ Len(a) > 0 /\ Len(b) > 0 => ~(a[Len(a)] = "$" /\ b[1] = "{")

\* Ahead of another text too, if none opens between the two.
LEMMA OpensAhead ==
    ASSUME NEW S, NEW a \in Seq(S), NEW b \in Seq(S), Separate(a, b), NEW t, t = a \o b,
           NEW i \in 1..Len(a)
    PROVE  Opens(t, i) <=> Opens(a, i)
  <1> DEFINE n == Len(a)
  <1>1. /\ t \in Seq(S) /\ n \in Nat /\ Len(b) \in Nat /\ Len(t) = n + Len(b)
        /\ \A k \in 1..n : k \in 1..Len(t) /\ t[k] = a[k]
        /\ \A k \in 1..Len(b) : k + n \in 1..Len(t) /\ t[k + n] = b[k]
    BY Behind
  <1>2. Len(b) > 0 => t[n + 1] = b[1]
    <2>1. Len(b) > 0 => 1 \in 1..Len(b) /\ 1 + n = n + 1
      BY <1>1
    <2> QED
      BY <1>1, <2>1
  <1>3. i \in 1..Len(t) /\ t[i] = a[i] /\ i \in Nat /\ i \in 1..n
    BY <1>1
  <1>4. Opens(a, i) <=> i < n /\ a[i] = "$" /\ a[i + 1] = "{"
    BY OpensAt
  <1>5. Opens(t, i) <=> i < Len(t) /\ t[i] = "$" /\ t[i + 1] = "{"
    BY <1>1, <1>3, OpensAt
  <1> HIDE DEF n
  <1>6. CASE i < n
    <2>1. i + 1 \in 1..n /\ i < Len(t)
      BY <1>1, <1>3, <1>6
    <2>2. t[i + 1] = a[i + 1]
      BY <1>1, <2>1
    <2> QED
      BY <1>3, <1>4, <1>5, <1>6, <2>1, <2>2
  <1>7. CASE ~(i < n)
    <2>1. i = n /\ n > 0 /\ (i < Len(t) => Len(b) > 0)
      BY <1>1, <1>3, <1>7
    <2>2. Len(b) > 0 => ~(a[n] = "$" /\ b[1] = "{")
      BY <2>1 DEF Separate, n
    <2>3. ~Opens(a, i)
      BY <1>4, <1>7
    <2> QED
      BY <1>1, <1>3, <1>5, <1>2, <2>1, <2>2, <2>3
  <1> QED
    BY <1>6, <1>7

\* Ahead of another one, a text whose references are closed is expanded as it is
\* alone.
LEMMA PieceAhead ==
    ASSUME NEW S, NEW a \in Seq(S), NEW b \in Seq(S), Separate(a, b), NEW e, NEW i \in 1..Len(a),
           NEW t, t = a \o b
    PROVE  Piece(t, e, i) = Piece(a, e, i) /\ After(t, i) = After(a, i)
  <1> DEFINE n == Len(a)
  <1>1. /\ t \in Seq(S) /\ n \in Nat /\ Len(b) \in Nat /\ Len(t) = n + Len(b)
        /\ \A k \in 1..n : k \in 1..Len(t) /\ t[k] = a[k]
    BY Behind
  <1>2. i \in 1..Len(t) /\ t[i] = a[i] /\ i \in Nat /\ i \in 1..n
    BY <1>1
  <1>3. Opens(a, i) <=> i < n /\ a[i] = "$" /\ a[i + 1] = "{"
    BY OpensAt
  <1>4. Opens(t, i) <=> Opens(a, i)
    BY OpensAhead
  <1> HIDE DEF n
  <1>5. CASE ~Opens(a, i)
    <2>1. ~Opens(t, i)
      BY <1>4, <1>5
    <2>2. /\ Piece(a, e, i) = Done(<<a[i]>>) /\ Piece(t, e, i) = Done(<<t[i]>>)
          /\ After(a, i) = i + 1 /\ After(t, i) = i + 1
      BY <1>5, <2>1, Zenon DEF Piece, After
    <2> QED
      BY <1>2, <2>2
  <1>6. CASE Opens(a, i)
    <2> DEFINE m == i + 2
               c == CloseBrace(a, m)
    <2>1. m \in Nat \ {0}
      BY <1>2
    <2>2. /\ c \in {0} \cup (m..n)
          /\ c = 0 => \A k \in m..n : a[k] # "}"
          /\ c # 0 => a[c] = "}" /\ \A k \in m..c - 1 : a[k] # "}"
      <3> HIDE DEF m
      <3> QED
        BY <2>1, ClosesFirst DEF n
    <2> HIDE DEF c
    <2>3. PICK j \in 1..n : j > i /\ a[j] = "}"
      <3>1. DOMAIN a = 1..n
        BY DEF n
      <3>2. i \in DOMAIN a
        BY <1>2, <3>1
      <3> QED
        BY <1>6, <3>1, <3>2 DEF Separate, Closed
    <2>4. j \in m..n
      <3>1. j # i + 1
        BY <1>3, <1>6, <2>3
      <3> QED
        <4>1. i \in Nat /\ n \in Nat /\ j \in Nat /\ j > i /\ j <= n
          <5>1. i \in Nat /\ n \in Nat
            BY <1>1, <1>2, Zenon
          <5>2. j > i /\ j \in 1..n
            BY <2>3, Zenon
          <5> QED
            BY <5>1, <5>2
        <4> QED
          BY <3>1, <4>1
    <2>5. c \in m..n
      BY <2>2, <2>3, <2>4
    <2>6. c # 0 /\ c \in m..Len(t) /\ c \in Int /\ m \in Int /\ c - 1 \in Int
      BY <1>1, <1>2, <2>5
    <2>7. \A k \in m..c : k \in 1..n /\ k \in 1..Len(t) /\ t[k] = a[k]
      <3>1. \A k \in m..c : k \in 1..n
        BY <1>1, <1>2, <2>5
      <3> QED
        BY <1>1, <3>1
    <2>8. CloseBrace(t, m) = c
      <3>1. \A k \in m..c - 1 : k \in m..c
        BY <2>6
      <3>2. c \in m..c
        BY <2>5, <2>6
      <3> QED
        <4>1. t[c] = "}" /\ \A k \in m..c - 1 : t[k] # "}"
          BY <2>2, <2>6, <2>7, <3>1, <3>2
        <4> HIDE DEF m
        <4> QED
          BY <1>1, <2>1, <2>6, <4>1, ClosesAt
    <2>9. SubSeq(a, m, c - 1) = SubSeq(t, m, c - 1)
      <3>1. \A k \in m..c - 1 : k \in 1..Len(a) /\ k + 0 \in 1..Len(t) /\ a[k] = t[k + 0]
        <4>1. \A k \in m..c - 1 : k \in m..c /\ k + 0 = k
          BY <2>6
        <4> QED
          BY <2>7, <4>1 DEF n
      <3>2. m = m + 0 /\ c - 1 = (c - 1) + 0 /\ 0 \in Int
        BY <2>6
      <3> DEFINE y == c - 1
      <3>3. y \in Int /\ y = y + 0
        BY <2>6
      <3> HIDE DEF y, m
      <3>4. SubSeq(a, m, y) = SubSeq(t, m, y)
        BY <1>1, <2>6, <3>1, <3>2, <3>3, SameParts DEF y
      <3> QED
        BY <3>4 DEF y
    <2>10. Piece(a, e, i) = Reference(SubSeq(a, m, c - 1), e) /\ After(a, i) = c + 1
      BY <1>6, <2>6, Zenon DEF Piece, After, c
    <2>11. Piece(t, e, i) = Reference(SubSeq(t, m, c - 1), e) /\ After(t, i) = c + 1
      <3>1. Opens(t, i)
        BY <1>4, <1>6
      <3> QED
        BY <2>6, <2>8, <3>1, Zenon DEF Piece, After
    <2> QED
      BY <2>9, <2>10, <2>11
  <1> QED
    BY <1>5, <1>6

\* Two texts are expanded together as they are alone.
LEMMA ExpandsApart ==
    ASSUME NEW S, NEW a \in Seq(S), NEW b \in Seq(S), NEW e, EnvIn(S, e), Separate(a, b)
    PROVE  /\ ExpandEnvVars(a, e) \in Result(S) /\ ExpandEnvVars(b, e) \in Result(S)
           /\ ExpandEnvVars(a \o b, e) = Join(ExpandEnvVars(a, e), ExpandEnvVars(b, e))
  <1> DEFINE t == a \o b
             n == Len(a)
             l == Len(b)
  <1>1. /\ t \in Seq(S) /\ n \in Nat /\ l \in Nat /\ Len(t) = n + l
    BY ConcatProperties
  <1>2. PICK f : Scanned(f, a, e, S) /\ ExpandEnvVars(a, e) = f[1]
    BY Scans
  <1>3. PICK g : Scanned(g, b, e, S) /\ ExpandEnvVars(b, e) = g[1]
    BY Scans
  <1>4. PICK h : Scanned(h, t, e, S) /\ ExpandEnvVars(t, e) = h[1]
    BY <1>1, Scans
  <1>5. \A j \in 1..l : Piece(t, e, j + n) = Piece(b, e, j) /\ After(t, j + n) = After(b, j) + n
    BY PieceBehind
  <1>6. \A i \in 1..n : Piece(t, e, i) = Piece(a, e, i) /\ After(t, i) = After(a, i)
    BY PieceAhead, ZenonT(60)
  <1>7. \A j \in 1..l : After(b, j) \in j + 1..l + 1
    BY AfterLater
  <1>8. \A i \in 1..n : After(a, i) \in i + 1..n + 1 /\ Piece(a, e, i) \in Result(S)
    BY AfterLater, PieceType
  <1>9. /\ f \in [1..n + 1 -> Result(S)] /\ f[n + 1] = Done(<<>>)
        /\ \A i \in 1..n : f[i] = Join(Piece(a, e, i), f[After(a, i)])
    BY <1>2 DEF Scanned
  <1>10. /\ g \in [1..l + 1 -> Result(S)] /\ g[l + 1] = Done(<<>>)
         /\ \A i \in 1..l : g[i] = Join(Piece(b, e, i), g[After(b, i)])
    BY <1>3 DEF Scanned
  <1>11. /\ h \in [1..(n + l) + 1 -> Result(S)] /\ h[(n + l) + 1] = Done(<<>>)
         /\ \A i \in 1..n + l : h[i] = Join(Piece(t, e, i), h[After(t, i)])
    BY <1>1, <1>4 DEF Scanned
  <1> HIDE DEF t, n, l
  <1> DEFINE Rest == {m \in Nat : \A j \in 1..l + 1 : j >= l + 1 - m => h[j + n] = g[j]}
  <1>12. 0 \in Rest
    <2>1. \A j \in 1..l + 1 : j >= l + 1 - 0 => j = l + 1
      BY <1>1
    <2>2. (l + 1) + n = (n + l) + 1
      BY <1>1
    <2> QED
      BY <1>10, <1>11, <2>1, <2>2
  <1>13. ASSUME NEW m \in Nat, m \in Rest PROVE m + 1 \in Rest
    <2>1. ASSUME NEW j \in 1..l + 1, j >= l + 1 - (m + 1) PROVE h[j + n] = g[j]
      <3>1. CASE j = l + 1
        BY <1>10, <1>11, <1>12, <3>1
      <3>2. CASE j # l + 1
        <4>1. j \in 1..l /\ j + n \in 1..n + l
          BY <1>1, <3>2
        <4>2. After(b, j) \in 1..l + 1 /\ After(b, j) >= l + 1 - m
          <5>1. After(b, j) \in j + 1..l + 1
            BY <1>7, <4>1
          <5> QED
            BY <1>1, <2>1, <4>1, <5>1
        <4>3. h[After(b, j) + n] = g[After(b, j)]
          BY <1>13, <4>2
        <4>4. h[j + n] = Join(Piece(t, e, j + n), h[After(t, j + n)])
          BY <1>11, <4>1
        <4>5. g[j] = Join(Piece(b, e, j), g[After(b, j)])
          BY <1>10, <4>1
        <4>6. Piece(t, e, j + n) = Piece(b, e, j) /\ After(t, j + n) = After(b, j) + n
          BY <1>5, <4>1
        <4> QED
          BY <4>3, <4>4, <4>5, <4>6
      <3> QED
        BY <3>1, <3>2
    <2> QED
      BY <2>1
  <1>14. h[n + 1] = g[1]
    <2>1. Nat \subseteq Rest
      <3> HIDE DEF Rest
      <3> QED
        BY <1>12, <1>13, Induction
    <2>2. l \in Rest
      <3> HIDE DEF Rest
      <3> QED
        BY <1>1, <2>1
    <2>3. 1 \in 1..l + 1 /\ 1 >= l + 1 - l /\ 1 + n = n + 1
      BY <1>1
    <2> QED
      BY <2>2, <2>3
  <1>15. g[1] \in Result(S) /\ f[1] \in Result(S)
    BY <1>1, <1>9, <1>10
  <1> DEFINE Front == {m \in Nat : \A i \in 1..n + 1 : i >= n + 1 - m => h[i] = Join(f[i], g[1])}
  <1>16. 0 \in Front
    <2>1. \A i \in 1..n + 1 : i >= n + 1 - 0 => i = n + 1
      BY <1>1
    <2>2. h[n + 1] = Join(f[n + 1], g[1])
      BY <1>9, <1>14, <1>15, JoinNothing
    <2> QED
      BY <2>1, <2>2
  <1>17. ASSUME NEW m \in Nat, m \in Front PROVE m + 1 \in Front
    <2>1. ASSUME NEW i \in 1..n + 1, i >= n + 1 - (m + 1) PROVE h[i] = Join(f[i], g[1])
      <3>1. CASE i = n + 1
        BY <1>9, <1>14, <1>15, <3>1, JoinNothing
      <3>2. CASE i # n + 1
        <4>1. i \in 1..n /\ i \in 1..n + l
          BY <1>1, <3>2
        <4> DEFINE k == After(a, i)
                   p == Piece(a, e, i)
        <4>2. k \in i + 1..n + 1 /\ p \in Result(S)
          BY <1>8, <4>1
        <4>3. h[i] = Join(p, h[k]) /\ f[i] = Join(p, f[k])
          <5>1. h[i] = Join(Piece(t, e, i), h[After(t, i)])
            BY <1>11, <4>1
          <5>2. Piece(t, e, i) = p /\ After(t, i) = k
            BY <1>6, <4>1
          <5>3. f[i] = Join(p, f[k])
            BY <1>9, <4>1
          <5> QED
            BY <5>1, <5>2, <5>3
        <4> HIDE DEF k, p
        <4>4. k \in 1..n + 1 /\ k >= n + 1 - m
          BY <1>1, <2>1, <4>1, <4>2
        <4>5. h[k] = Join(f[k], g[1]) /\ f[k] \in Result(S)
          BY <1>9, <1>17, <4>4
        <4>6. Join(p, Join(f[k], g[1])) = Join(Join(p, f[k]), g[1])
          BY <1>15, <4>2, <4>5, JoinAssoc
        <4> QED
          BY <4>3, <4>5, <4>6
      <3> QED
        BY <3>1, <3>2
    <2> QED
      BY <2>1
  <1>18. h[1] = Join(f[1], g[1])
    <2>1. Nat \subseteq Front
      <3> HIDE DEF Front
      <3> QED
        BY <1>16, <1>17, Induction
    <2>2. n \in Front
      <3> HIDE DEF Front
      <3> QED
        BY <1>1, <2>1
    <2>3. 1 \in 1..n + 1 /\ 1 >= n + 1 - n
      BY <1>1
    <2> QED
      BY <2>2, <2>3
  <1> QED
    BY <1>2, <1>3, <1>4, <1>15, <1>18 DEF t
-----------------------------------------------------------------------------
\* Two texts whose references are closed, if no reference opens between them.
LEMMA ClosedBoth ==
    ASSUME NEW S, NEW a \in Seq(S), NEW b \in Seq(S), Separate(a, b), Closed(b)
    PROVE  Closed(a \o b)
  <1> DEFINE t == a \o b
             n == Len(a)
  <1>1. /\ t \in Seq(S) /\ n \in Nat /\ Len(b) \in Nat /\ Len(t) = n + Len(b)
        /\ \A k \in 1..n : k \in 1..Len(t) /\ t[k] = a[k]
        /\ \A k \in 1..Len(b) : k + n \in 1..Len(t) /\ t[k + n] = b[k]
    BY Behind
  <1>2. \A i \in 1..n : Opens(t, i) <=> Opens(a, i)
    BY OpensAhead
  <1>3. \A j \in 1..Len(b) : Opens(t, j + n) <=> Opens(b, j)
    BY OpensBehind
  <1>4. \A i \in 1..n : Opens(a, i) => \E j \in 1..n : j > i /\ a[j] = "}"
    <2>1. DOMAIN a = 1..n
      OBVIOUS
    <2> QED
      BY <2>1 DEF Separate, Closed
  <1>5. \A i \in 1..Len(b) : Opens(b, i) => \E j \in 1..Len(b) : j > i /\ b[j] = "}"
    <2>1. DOMAIN b = 1..Len(b)
      OBVIOUS
    <2> QED
      BY <2>1 DEF Closed
  <1>6. DOMAIN t = 1..Len(t)
    BY <1>1
  <1> HIDE DEF t, n
  <1>7. ASSUME NEW i \in 1..Len(t), Opens(t, i) PROVE \E j \in 1..Len(t) : j > i /\ t[j] = "}"
    <2>1. CASE i \in 1..n
      BY <1>1, <1>2, <1>4, <1>7, <2>1
    <2>2. CASE i \notin 1..n
      <3> DEFINE k == i - n
      <3>1. k \in 1..Len(b) /\ k + n = i
        BY <1>1, <2>2
      <3> HIDE DEF k
      <3>2. PICK j \in 1..Len(b) : j > k /\ b[j] = "}"
        BY <1>3, <1>5, <1>7, <3>1
      <3>3. j + n \in 1..Len(t) /\ t[j + n] = "}"
        BY <1>1, <3>2
      <3>4. j + n > i
        <4>1. n \in Nat /\ j > k /\ k + n = i
          BY <1>1, <3>1, <3>2, Zenon
        <4>2. k \in Int /\ j \in Int
          BY <3>1
        <4> QED
          BY <4>1, <4>2
      <3> QED
        BY <3>3, <3>4
    <2> QED
      BY <2>1, <2>2
  <1> QED
    BY <1>6, <1>7 DEF Closed, t

\* A text of one token, and one of none.
LEMMA OneToken ==
    ASSUME NEW S, NEW c \in S, NEW e, EnvIn(S, e)
    PROVE  <<c>> \in Seq(S) /\ Closed(<<c>>) /\ ExpandEnvVars(<<c>>, e) = Done(<<c>>)
  <1> DEFINE s == <<c>>
  <1>1. s \in Seq(S) /\ Len(s) = 1 /\ s[1] = c /\ DOMAIN s = 1..1
    OBVIOUS
  <1> HIDE DEF s
  <1>2. 1 \in 1..Len(s) /\ ~(1 < Len(s)) /\ 1 + 1 = 2
    BY <1>1
  <1>3. ~Opens(s, 1)
    BY <1>1, <1>2, OpensAt
  <1>4. Closed(s)
    <2>1. \A i \in DOMAIN s : i = 1
      BY <1>1
    <2> QED
      BY <1>3, <2>1 DEF Closed
  <1>5. PICK f : Scanned(f, s, e, S) /\ ExpandEnvVars(s, e) = f[1]
    BY <1>1, Scans
  <1>6. Piece(s, e, 1) = Done(<<s[1]>>) /\ After(s, 1) = 1 + 1
    BY <1>3, Zenon DEF Piece, After
  <1>7. f[Len(s) + 1] = Done(<<>>) /\ f[1] = Join(Piece(s, e, 1), f[After(s, 1)])
    BY <1>2, <1>5 DEF Scanned
  <1>8. f[1] = Join(Done(s), Done(<<>>))
    <2>1. Len(s) + 1 = 1 + 1 /\ <<s[1]>> = s
      BY <1>1 DEF s
    <2> QED
      BY <1>6, <1>7, <2>1
  <1>9. Done(s) \in Result(S)
    BY <1>1, ResultType
  <1>10. f[1] = Done(s)
    BY <1>8, <1>9, JoinNothing
  <1> QED
    BY <1>1, <1>4, <1>5, <1>10 DEF s

\* An empty text is expanded to itself.
LEMMA NoToken ==
    ASSUME NEW S, NEW e, EnvIn(S, e)
    PROVE  <<>> \in Seq(S) /\ Closed(<<>>) /\ ExpandEnvVars(<<>>, e) = Done(<<>>)
  <1> DEFINE s == <<>>
  <1>1. s \in Seq(S) /\ Len(s) = 0 /\ DOMAIN s = {}
    OBVIOUS
  <1> HIDE DEF s
  <1>2. PICK f : Scanned(f, s, e, S) /\ ExpandEnvVars(s, e) = f[1]
    BY <1>1, Scans
  <1>3. f[0 + 1] = Done(<<>>)
    BY <1>1, <1>2 DEF Scanned
  <1>4. f[1] = Done(<<>>)
    <2>1. 0 + 1 = 1
      OBVIOUS
    <2> QED
      BY <1>3, <2>1
  <1>5. Closed(s)
    BY <1>1 DEF Closed
  <1> QED
    BY <1>1, <1>2, <1>4, <1>5 DEF s

-----------------------------------------------------------------------------
\* The tokens of a file.
Written == Fields \cup Tokens \cup {Newline, Quote}

\* The line of field f with value x stands in s.
LineIn(s, f, x) ==
    \E p \in 1..Len(s) :
        /\ p + Len(x) + 1 \in 1..Len(s)
        /\ p = 1 \/ s[p - 1] = Newline
        /\ s[p] = f /\ s[p + Len(x) + 1] = Newline
        /\ \A k \in 1..Len(x) : s[p + k] = x[k]

\* s is lines, each with its end.
Lines(s) == Len(s) > 0 => s[Len(s)] = Newline

\* A line stays in a text when another is written behind it.
LEMMA LineStays ==
    ASSUME NEW S, NEW s \in Seq(S), NEW t \in Seq(S), NEW f, NEW x \in Seq(S), LineIn(s, f, x)
    PROVE  LineIn(s \o t, f, x)
  <1> DEFINE u == s \o t
             n == Len(s)
             m == Len(x)
  <1>1. /\ n \in Nat /\ Len(t) \in Nat /\ Len(u) = n + Len(t) /\ m \in Nat
        /\ \A k \in 1..n : k \in 1..Len(u) /\ u[k] = s[k]
    BY Behind
  <1>2. PICK p \in 1..n :
           /\ p + m + 1 \in 1..n
           /\ p = 1 \/ s[p - 1] = Newline
           /\ s[p] = f /\ s[p + m + 1] = Newline
           /\ \A k \in 1..m : s[p + k] = x[k]
    BY DEF LineIn
  <1> HIDE DEF u, n, m
  <1>3. p = 1 \/ p - 1 \in 1..n
    BY <1>1
  <1>4. \A k \in 1..m : p + k \in 1..n
    BY <1>1, <1>2
  <1>5. /\ p \in 1..Len(u) /\ p + m + 1 \in 1..Len(u)
        /\ p = 1 \/ u[p - 1] = Newline
        /\ u[p] = f /\ u[p + m + 1] = Newline
        /\ \A k \in 1..m : u[p + k] = x[k]
    BY <1>1, <1>2, <1>3, <1>4
  <1> QED
    BY <1>5 DEF LineIn, u, m

\* A line behind lines is in the text.
LEMMA LineAdded ==
    ASSUME NEW S, NEW s \in Seq(S), NEW f \in S, NEW x \in Seq(S), Newline \in S, Lines(s),
           NEW u, u = s \o ((<<f>> \o x) \o <<Newline>>)
    PROVE  u \in Seq(S) /\ Lines(u) /\ LineIn(u, f, x)
  <1> DEFINE n == Len(s)
             m == Len(x)
             y == <<f>> \o x
             l == y \o <<Newline>>
  <1>1. <<f>> \in Seq(S) /\ Len(<<f>>) = 1 /\ <<f>>[1] = f
    OBVIOUS
  <1>2. <<Newline>> \in Seq(S) /\ Len(<<Newline>>) = 1 /\ <<Newline>>[1] = Newline
    OBVIOUS
  <1>3. /\ y \in Seq(S) /\ m \in Nat /\ Len(y) = 1 + m /\ y[1] = f
        /\ \A k \in 1..m : y[k + 1] = x[k]
    <2> DEFINE g == <<f>>
    <2> HIDE DEF g
    <2>1. /\ g \o x \in Seq(S) /\ m \in Nat /\ Len(g \o x) = Len(g) + m
          /\ \A k \in 1..Len(g) : (g \o x)[k] = g[k]
          /\ \A k \in 1..m : (g \o x)[k + Len(g)] = x[k]
      BY <1>1, Behind DEF g
    <2>2. Len(g) = 1 /\ g[1] = f /\ 1 \in 1..1
      BY <1>1 DEF g
    <2> QED
      BY <2>1, <2>2 DEF g
  <1> HIDE DEF y
  <1>4. /\ l \in Seq(S) /\ Len(l) = m + 2 /\ l[m + 2] = Newline /\ l[1] = f
        /\ \A k \in 1..m : l[k + 1] = x[k]
    <2> DEFINE g == <<Newline>>
    <2> HIDE DEF g
    <2>1. /\ y \o g \in Seq(S) /\ Len(y \o g) = Len(y) + Len(g)
          /\ \A k \in 1..Len(y) : (y \o g)[k] = y[k]
          /\ \A k \in 1..Len(g) : (y \o g)[k + Len(y)] = g[k]
      BY <1>2, <1>3, Behind DEF g
    <2>2. Len(g) = 1 /\ g[1] = Newline /\ 1 \in 1..1
      BY <1>2 DEF g
    <2>3. 1 + Len(y) = m + 2 /\ 1 \in 1..Len(y) /\ \A k \in 1..m : k + 1 \in 1..Len(y)
      BY <1>3
    <2> QED
      BY <1>3, <2>1, <2>2, <2>3 DEF g
  <1> HIDE DEF l
  <1>5. /\ u \in Seq(S) /\ n \in Nat /\ Len(u) = n + (m + 2)
        /\ \A k \in 1..n : k \in 1..Len(u) /\ u[k] = s[k]
        /\ \A k \in 1..Len(l) : k + n \in 1..Len(u) /\ u[k + n] = l[k]
    <2>1. u = s \o l
      BY DEF l, y
    <2> QED
      BY <1>4, <2>1, Behind
  <1>6. Lines(u)
    <2>1. m + 2 \in 1..Len(l) /\ (m + 2) + n = Len(u)
      BY <1>3, <1>4, <1>5
    <2> QED
      BY <1>4, <1>5, <2>1 DEF Lines
  <1>7. LineIn(u, f, x)
    <2> DEFINE p == 1 + n
    <2>1. p \in 1..Len(u) /\ p + m + 1 \in 1..Len(u) /\ p + m + 1 = (m + 2) + n
      BY <1>3, <1>5
    <2>2. p = 1 \/ u[p - 1] = Newline
      <3>1. n > 0 => p - 1 = n /\ n \in 1..n
        BY <1>5
      <3>2. n > 0 => s[n] = Newline
        BY DEF Lines
      <3>3. n = 0 => p = 1
        OBVIOUS
      <3> QED
        BY <1>5, <3>1, <3>2, <3>3
    <2>3. u[p] = f
      <3>1. 1 \in 1..Len(l)
        BY <1>3, <1>4
      <3> QED
        BY <1>4, <1>5, <3>1
    <2>4. u[p + m + 1] = Newline
      <3>1. m + 2 \in 1..Len(l)
        BY <1>3, <1>4
      <3> QED
        BY <1>4, <1>5, <2>1, <3>1
    <2>5. ASSUME NEW k \in 1..m PROVE u[p + k] = x[k]
      <3>1. k + 1 \in 1..Len(l) /\ (k + 1) + n = p + k
        BY <1>3, <1>4, <1>5
      <3> QED
        BY <1>4, <1>5, <3>1
    <2> HIDE DEF p
    <2> QED
      BY <2>1, <2>2, <2>3, <2>4, <2>5 DEF LineIn
  <1> QED
    BY <1>5, <1>6, <1>7
-----------------------------------------------------------------------------
\* What a file is made of.
LEMMA FileTyped ==
    ASSUME NEW file \in Files
    PROVE  /\ \A k \in 1..Len(file) : file[k] \in [field : Fields, value : Seq(Tokens)]
           /\ \A k \in 1..Len(file) : file[k].field \in Fields /\ file[k].value \in Seq(Tokens)
           /\ Len(file) \in Nat /\ DOMAIN file = 1..Len(file)
           /\ \A f \in Fields : f # "$" /\ f # Newline /\ f # Comment
  <1>1. file \in Seq([field : Fields, value : Seq(Tokens)])
    BY TextAssumption
  <1>2. \A k \in 1..Len(file) : file[k] \in [field : Fields, value : Seq(Tokens)]
    <2> DEFINE R == [field : Fields, value : Seq(Tokens)]
    <2> HIDE DEF R
    <2>1. file \in Seq(R)
      BY <1>1 DEF R
    <2>2. \A k \in 1..Len(file) : file[k] \in R
      BY <2>1, ElementOfSeq
    <2> QED
      BY <2>2 DEF R
  <1> QED
    BY <1>1, <1>2, TextAssumption

\* A text between two tokens that neither open nor close a reference is expanded
\* as it is alone.
Apart(f, c) == f # "$" /\ c # "{"

Encloses(S, f, v, c, e) ==
    LET l == (<<f>> \o v) \o <<c>>
    IN  /\ l \in Seq(S) /\ Closed(l) /\ Len(l) > 0 /\ l[1] = f
        /\ ExpandEnvVars(l, e) \in Result(S)
        /\ ExpandEnvVars(v, e) \in Result(S)
        /\ ExpandEnvVars(l, e).error = "" =>
              /\ ExpandEnvVars(v, e).error = ""
              /\ ExpandEnvVars(l, e).text = (<<f>> \o ExpandEnvVars(v, e).text) \o <<c>>

LEMMA EnclosedExpands ==
    ASSUME NEW S, NEW f \in S, NEW v \in Seq(S), NEW c \in S, NEW e,
           Apart(f, c), Closed(v), EnvIn(S, e)
    PROVE  Encloses(S, f, v, c, e)
  <1> DEFINE l == (<<f>> \o v) \o <<c>>
             r == ExpandEnvVars(v, e)
  <1>1. Closed(v) /\ l = (<<f>> \o v) \o <<c>> /\ r = ExpandEnvVars(v, e)
    OBVIOUS
  <1> HIDE DEF l, r
  <1> DEFINE a == <<f>>
             z == <<c>>
             y == a \o v
  <1>2. f \in S /\ c \in S /\ v \in Seq(S)
    OBVIOUS
  <1>3. /\ a \in Seq(S) /\ Closed(a) /\ ExpandEnvVars(a, e) = Done(a)
        /\ z \in Seq(S) /\ Closed(z) /\ ExpandEnvVars(z, e) = Done(z)
    BY <1>2, OneToken
  <1>4. Len(a) = 1 /\ a[1] = f /\ Len(z) = 1 /\ z[1] = c
    OBVIOUS
  <1> HIDE DEF a, z
  <1>5. Separate(a, v)
    BY <1>1, <1>3, <1>4 DEF Separate, Apart
  <1>6. y \in Seq(S) /\ Closed(y) /\ Len(y) > 0 /\ y[1] = f
    <2>1. Closed(y)
      BY <1>1, <1>2, <1>3, <1>5, ClosedBoth
    <2>2. /\ y \in Seq(S) /\ Len(v) \in Nat /\ Len(y) = Len(a) + Len(v)
          /\ \A k \in 1..Len(a) : y[k] = a[k]
      BY <1>2, <1>3, Behind
    <2>3. Len(a) = 1 /\ a[1] = f
      BY <1>4, Zenon
    <2>4. y[1] = f /\ Len(y) > 0
      <3> DEFINE m == Len(a)
      <3> HIDE DEF y, m
      <3>1. m = 1 /\ Len(v) \in Nat /\ Len(y) = m + Len(v) /\ \A k \in 1..m : y[k] = a[k]
        BY <2>2, <2>3, Zenon DEF m
      <3>2. 1 \in 1..m /\ Len(y) > 0
        BY <3>1
      <3> QED
        BY <2>3, <3>1, <3>2
    <2> QED
      BY <2>1, <2>2, <2>4, Zenon
  <1>7. /\ ExpandEnvVars(a, e) \in Result(S) /\ ExpandEnvVars(v, e) \in Result(S)
        /\ ExpandEnvVars(y, e) = Join(ExpandEnvVars(a, e), ExpandEnvVars(v, e))
    BY <1>2, <1>3, <1>5, ExpandsApart
  <1> HIDE DEF y
  <1>8. Separate(y, z)
    BY <1>4, <1>6 DEF Separate, Apart
  <1>9. /\ ExpandEnvVars(y, e) \in Result(S) /\ ExpandEnvVars(z, e) \in Result(S)
        /\ ExpandEnvVars(y \o z, e) = Join(ExpandEnvVars(y, e), ExpandEnvVars(z, e))
    BY <1>3, <1>6, <1>8, ExpandsApart
  <1>10. l = y \o z
    BY <1>1 DEF y, a, z
  <1>11. l \in Seq(S) /\ Closed(l) /\ Len(l) > 0 /\ l[1] = f
    <2>1. Closed(y \o z)
      BY <1>3, <1>6, <1>8, ClosedBoth
    <2>2. /\ y \o z \in Seq(S) /\ Len(y) \in Nat /\ Len(y \o z) = Len(y) + Len(z)
          /\ \A k \in 1..Len(y) : (y \o z)[k] = y[k]
      BY <1>3, <1>6, Behind
    <2>3. 1 \in 1..Len(y) /\ Len(y) + Len(z) > 0
      <3> DEFINE m == Len(y)
      <3>1. m \in Nat /\ m > 0 /\ Len(z) = 1
        BY <1>4, <1>6, <2>2
      <3> HIDE DEF m
      <3>2. 1 \in 1..m /\ m + Len(z) > 0
        BY <3>1
      <3> QED
        BY <3>2 DEF m
    <2> QED
      BY <1>6, <1>10, <2>1, <2>2, <2>3
  <1>12. ExpandEnvVars(l, e) = Join(Join(Done(a), r), Done(z))
    BY <1>1, <1>3, <1>7, <1>9, <1>10
  <1>13. r \in Result(S) /\ Done(a) \in Result(S) /\ Done(z) \in Result(S)
         /\ Done(a).text = a /\ Done(z).text = z /\ Done(a).error = ""
    <2>1. \A t \in Seq(S) : Done(t) \in Result(S) /\ Done(t).text = t /\ Done(t).error = ""
      BY ResultType
    <2> QED
      BY <1>1, <1>3, <1>7, <2>1
  <1>14. \A p, o \in Result(S) : Join(p, o).error = "" =>
           p.error = "" /\ o.error = "" /\ Join(p, o).text = p.text \o o.text
    BY JoinOk, ZenonT(60)
  <1> DEFINE q == Join(Done(a), r)
  <1>15. q \in Result(S)
    BY <1>13, JoinType
  <1>16. /\ q.error = "" => r.error = "" /\ q.text = a \o r.text
    <2>1. Join(Done(a), r).error = "" => r.error = "" /\ Join(Done(a), r).text = Done(a).text \o r.text
      BY <1>13, <1>14, Zenon
    <2> QED
      BY <1>13, <2>1, Zenon
  <1> HIDE DEF q
  <1>17. Join(q, Done(z)) \in Result(S)
    BY <1>13, <1>15, JoinType
  <1>18. Join(q, Done(z)).error = "" => q.error = "" /\ Join(q, Done(z)).text = q.text \o z
    <2>1. Join(q, Done(z)).error = "" => q.error = "" /\ Join(q, Done(z)).text = q.text \o Done(z).text
      BY <1>13, <1>15, <1>14, Zenon
    <2> QED
      BY <1>13, <2>1, Zenon
  <1>19. ExpandEnvVars(l, e) = Join(q, Done(z))
    BY <1>12 DEF q
  <1>20. ExpandEnvVars(l, e).error = "" => r.error = "" /\ ExpandEnvVars(l, e).text = (a \o r.text) \o z
    BY <1>16, <1>18, <1>19
  <1> QED
    BY <1>11, <1>13, <1>17, <1>19, <1>20 DEF a, z, l, r, Encloses

\* A line whose value has its references closed is expanded as its value is.
LEMMA LineExpands ==
    ASSUME NEW g \in [field : Fields, value : Seq(Tokens)], Closed(g.value),
           NEW e, EnvIn(Written, e)
    PROVE  /\ Line(g) \in Seq(Written) /\ Closed(Line(g))
           /\ Len(Line(g)) > 0 /\ Line(g)[1] = g.field
           /\ ExpandEnvVars(Line(g), e) \in Result(Written)
           /\ ExpandEnvVars(g.value, e) \in Result(Written)
           /\ ExpandEnvVars(Line(g), e).error = "" =>
                 /\ ExpandEnvVars(g.value, e).error = ""
                 /\ ExpandEnvVars(Line(g), e).text =
                       (<<g.field>> \o Quoted(ExpandEnvVars(g.value, e).text)) \o <<Newline>>
  <1> DEFINE f == g.field
             v == g.value
             w == Quoted(v)
             x == ExpandEnvVars(v, e).text
  <1>1. Line(g) = (<<f>> \o w) \o <<Newline>>
    BY DEF Line
  <1>2. f \in Fields /\ v \in Seq(Tokens) /\ Closed(v)
    OBVIOUS
  <1>3. f \in Written /\ Newline \in Written /\ Quote \in Written /\ v \in Seq(Written)
    <2>1. Tokens \subseteq Written
      BY DEF Written
    <2> QED
      BY <1>2, <2>1, MoreTokens DEF Written
  <1>4. Apart(f, Newline) /\ Apart(Quote, Quote)
    BY <1>2, TextAssumption DEF Apart, Newline, Quote
  <1>5. w = (<<Quote>> \o v) \o <<Quote>> /\ Quoted(x) = (<<Quote>> \o x) \o <<Quote>>
    BY DEF Quoted
  <1> HIDE DEF f, v, w, x
  <1>6. /\ w \in Seq(Written) /\ Closed(w)
        /\ ExpandEnvVars(w, e) \in Result(Written) /\ ExpandEnvVars(v, e) \in Result(Written)
        /\ ExpandEnvVars(w, e).error = "" =>
              ExpandEnvVars(v, e).error = "" /\ ExpandEnvVars(w, e).text = Quoted(x)
    <2>1. Encloses(Written, Quote, v, Quote, e)
      BY <1>2, <1>3, <1>4, EnclosedExpands
    <2> QED
      BY <1>5, <2>1 DEF x, Encloses
  <1> DEFINE l == (<<f>> \o w) \o <<Newline>>
  <1>7. /\ l \in Seq(Written) /\ Closed(l) /\ Len(l) > 0 /\ l[1] = f
        /\ ExpandEnvVars(l, e) \in Result(Written)
        /\ ExpandEnvVars(l, e).error = "" =>
              /\ ExpandEnvVars(w, e).error = ""
              /\ ExpandEnvVars(l, e).text = (<<f>> \o ExpandEnvVars(w, e).text) \o <<Newline>>
    <2>1. Encloses(Written, f, w, Newline, e)
      BY <1>2, <1>3, <1>4, <1>6, EnclosedExpands
    <2> QED
      BY <2>1 DEF Encloses
  <1> HIDE DEF l
  <1>8. Line(g) = l
    BY <1>1 DEF l
  <1> QED
    BY <1>6, <1>7, <1>8 DEF f, v, x

\* A text in quotes.
LEMMA QuotedTyped ==
    ASSUME NEW x \in Seq(Written)
    PROVE  /\ Quoted(x) \in Seq(Written) /\ Len(x) \in Nat /\ Len(Quoted(x)) = Len(x) + 2
           /\ Quoted(x)[1] = Quote /\ Quoted(x)[Len(x) + 2] = Quote
           /\ \A k \in 1..Len(x) : Quoted(x)[k + 1] = x[k]
  <1>1. Quote \in Written
    BY DEF Written
  <1> HIDE DEF Written
  <1> QED
    BY <1>1 DEF Quoted

\* A line is written with the tokens of files.
LEMMA LineTyped ==
    ASSUME NEW file \in Files, NEW k \in 1..Len(file)
    PROVE  Line(file[k]) \in Seq(Written)
  <1> DEFINE f == file[k].field
             v == file[k].value
  <1>1. f \in Fields /\ v \in Seq(Tokens)
    BY FileTyped
  <1>2. Line(file[k]) = (<<f>> \o Quoted(v)) \o <<Newline>>
    BY DEF Line
  <1> HIDE DEF f, v
  <1>3. f \in Written /\ Newline \in Written /\ v \in Seq(Written)
    <2>1. Tokens \subseteq Written
      BY DEF Written
    <2> QED
      BY <1>1, <2>1, MoreTokens DEF Written
  <1>4. <<f>> \in Seq(Written) /\ <<Newline>> \in Seq(Written) /\ Quoted(v) \in Seq(Written)
    BY <1>3, QuotedTyped
  <1>5. (<<f>> \o Quoted(v)) \in Seq(Written)
    BY <1>4, ConcatProperties
  <1> QED
    BY <1>2, <1>4, <1>5, ConcatProperties

\* A file's text, line after line.
LEMMA TextGrows ==
    ASSUME NEW file \in Files
    PROVE  \E upto :
              /\ upto[0] = <<>>
              /\ \A k \in 1..Len(file) : upto[k] = upto[k - 1] \o Line(file[k])
              /\ TextOf(file) = upto[Len(file)]
  <1> DEFINE L == Len(file)
             R == Seq(Written)
             E == <<>>
             N(k) == Line(file[k])
             Step(f, k) == IF k = 0 THEN E ELSE f[k - 1] \o N(k)
             To(m) == {f \in [0..L -> R] : \A k \in 0..L : k <= m => f[k] = Step(f, k)}
             Ms == {m \in Nat : To(m) # {}}
  <1>1. L \in Nat /\ E \in R
    BY FileTyped
  <1>2. \A k \in 1..L : N(k) \in R
    BY LineTyped
  <1>3. TextOf(file) = (CHOOSE f : f = [k \in 0..L |-> Step(f, k)])[L]
    BY DEF TextOf
  <1>4. \A s, t \in R : s \o t \in R
    BY ConcatProperties
  <1> HIDE DEF L, R, E, N
  <1>5. 0 \in Ms
    <2>1. [k \in 0..L |-> E] \in To(0)
      BY <1>1
    <2> QED
      BY <2>1
  <1>6. ASSUME NEW m \in Nat, m \in Ms PROVE m + 1 \in Ms
    <2>1. PICK f \in To(m) : TRUE
      BY <1>6
    <2>2. CASE m + 1 \in 0..L
      <3> DEFINE g == [f EXCEPT ![m + 1] = Step(f, m + 1)]
      <3>1. m \in 0..L /\ m + 1 \in 1..L /\ (m + 1) - 1 = m
        BY <1>1, <2>2
      <3>2. Step(f, m + 1) \in R
        BY <1>2, <1>4, <2>1, <3>1
      <3>3. g \in [0..L -> R] /\ g[m + 1] = Step(f, m + 1) /\ \A j \in 0..L : j # m + 1 => g[j] = f[j]
        BY <2>1, <2>2, <3>2
      <3> HIDE DEF g
      <3>4. ASSUME NEW k \in 0..L, k <= m + 1 PROVE g[k] = Step(g, k)
        <4>1. k = 0 \/ (k - 1 \in 0..L /\ k - 1 # m + 1)
          BY <1>1, <3>4
        <4>2. Step(g, k) = Step(f, k)
          BY <3>3, <4>1
        <4>3. k = m + 1 \/ k <= m
          BY <3>4
        <4>4. g[k] = Step(f, k)
          BY <2>1, <3>3, <4>3
        <4> QED
          BY <4>2, <4>4
      <3>5. m + 1 \in Nat /\ g \in To(m + 1)
        BY <3>3, <3>4
      <3> QED
        BY <3>5
    <2>3. CASE m + 1 \notin 0..L
      <3>1. \A k \in 0..L : k <= m
        BY <1>1, <2>3
      <3>2. f \in To(m + 1)
        BY <2>1, <3>1
      <3>3. m + 1 \in Nat /\ To(m + 1) # {}
        <4> HIDE DEF To
        <4> QED
          BY <3>2
      <3> QED
        BY <3>3
    <2> QED
      BY <2>2, <2>3
  <1>7. PICK f \in To(L) : TRUE
    <2>1. Nat \subseteq Ms
      <3> HIDE DEF Ms
      <3> QED
        BY <1>5, <1>6, Induction
    <2> QED
      BY <1>1, <2>1
  <1> DEFINE g == CHOOSE h : h = [k \in 0..L |-> Step(h, k)]
  <1>8. g = [k \in 0..L |-> Step(g, k)]
    <2>1. \A k \in 0..L : k <= L
      BY <1>1
    <2>2. f \in [0..L -> R] /\ \A k \in 0..L : f[k] = Step(f, k)
      BY <1>7, <2>1
    <2>3. f = [k \in 0..L |-> Step(f, k)]
      BY <2>2
    <2> QED
      BY <2>3, Zenon
  <1>9. TextOf(file) = g[L]
    BY <1>3
  <1> HIDE DEF g
  <1>10. g[0] = E /\ \A k \in 1..L : g[k] = g[k - 1] \o N(k)
    <2>1. 0 \in 0..L /\ \A k \in 1..L : k \in 0..L /\ k # 0
      BY <1>1
    <2> QED
      BY <1>8, <2>1
  <1> QED
    BY <1>9, <1>10 DEF L, E, N
\* expand_env_vars gives a result.
LEMMA ExpandsTyped ==
    ASSUME NEW S, NEW s \in Seq(S), NEW e, EnvIn(S, e)
    PROVE  ExpandEnvVars(s, e) \in Result(S)
  <1>1. PICK f : Scanned(f, s, e, S) /\ ExpandEnvVars(s, e) = f[1]
    BY Scans
  <1>2. f \in [1..Len(s) + 1 -> Result(S)] /\ 1 \in 1..Len(s) + 1
    BY <1>1 DEF Scanned
  <1> QED
    BY <1>1, <1>2

\* In the expansion of a file every field has its line, which holds what its own
\* value expands to.
LEMMA FileExpands ==
    ASSUME NEW file \in Files, NEW e, EnvIn(Written, e),
           \A k \in 1..Len(file) : Closed(file[k].value),
           NEW r, r = ExpandEnvVars(TextOf(file), e)
    PROVE  r.error = "" =>
              /\ r.text \in Seq(Written)
              /\ \A k \in 1..Len(file) :
                    /\ ExpandEnvVars(file[k].value, e).error = ""
                    /\ LineIn(r.text, file[k].field, Quoted(ExpandEnvVars(file[k].value, e).text))
  <1>1. PICK upto :
              /\ upto[0] = <<>>
              /\ \A k \in 1..Len(file) : upto[k] = upto[k - 1] \o Line(file[k])
              /\ TextOf(file) = upto[Len(file)]
    BY TextGrows
  <1> DEFINE L == Len(file)
             F(k) == file[k].field
             V(k) == file[k].value
             X(k) == ExpandEnvVars(V(k), e)
             R(k) == ExpandEnvVars(upto[k], e)
             Good(k) ==
                /\ upto[k] \in Seq(Written) /\ Closed(upto[k]) /\ Lines(upto[k])
                /\ R(k) \in Result(Written)
                /\ R(k).error = "" =>
                      /\ Lines(R(k).text)
                      /\ \A j \in 1..k : X(j).error = "" /\ LineIn(R(k).text, F(j), Quoted(X(j).text))
  <1>2. L \in Nat /\ \A k \in 1..L : F(k) \in Fields /\ V(k) \in Seq(Tokens) /\ F(k) # "$" /\ F(k) # Newline
    BY FileTyped
  <1>3. \A k \in 1..L : Line(file[k]) = (<<F(k)>> \o Quoted(V(k))) \o <<Newline>> /\ Closed(V(k))
    BY DEF Line
  <1>4. Newline \in Written /\ Fields \subseteq Written /\ \A s \in Seq(Tokens) : s \in Seq(Written)
    <2>1. Tokens \subseteq Written
      BY DEF Written
    <2> QED
      BY <2>1, MoreTokens DEF Written
  <1>5. \A k \in 1..L : X(k) \in Result(Written)
    BY <1>2, <1>4, ExpandsTyped
  <1>6. Good(0)
    <2>1. <<>> \in Seq(Written) /\ Closed(<<>>) /\ ExpandEnvVars(<<>>, e) = Done(<<>>)
      BY NoToken
    <2>2. Lines(<<>>)
      <3>1. Len(<<>>) = 0 /\ ~(0 > 0)
        OBVIOUS
      <3> QED
        BY <3>1, Zenon DEF Lines
    <2>3. R(0) = Done(<<>>) /\ Done(<<>>) \in Result(Written) /\ Done(<<>>).text = <<>>
      BY <1>1, <2>1, ResultType
    <2>4. \A j \in 1..0 : FALSE
      OBVIOUS
    <2> HIDE DEF R, X
    <2> QED
      BY <1>1, <2>1, <2>2, <2>3, <2>4
  <1>7. ASSUME NEW n \in 1..L, Good(n - 1) PROVE Good(n)
    <2> DEFINE k == n - 1
               f == F(n)
               v == V(n)
               x == X(n)
               a == upto[k]
               l == Line(file[n])
    <2>1. Good(k)
      BY <1>7
    <2>2. n \in 1..L /\ k \in Nat /\ k + 1 = n
      BY <1>2
    <2>3. f \in Fields /\ v \in Seq(Tokens) /\ f # "$" /\ Closed(v) /\ l = (<<f>> \o Quoted(v)) \o <<Newline>>
      BY <1>2, <1>3, <2>2
    <2>4. upto[n] = a \o l
      BY <1>1, <2>2
    <2>5. x = ExpandEnvVars(v, e) /\ x \in Result(Written)
      BY <1>5, <2>2
    <2>6. a \in Seq(Written) /\ Closed(a) /\ Lines(a) /\ R(k) \in Result(Written) /\ R(k) = ExpandEnvVars(a, e)
      BY <2>1
    <2>7. R(k).error = "" =>
             /\ Lines(R(k).text)
             /\ \A j \in 1..k : X(j).error = "" /\ LineIn(R(k).text, F(j), Quoted(X(j).text))
      BY <2>1
    <2>8. R(n) = ExpandEnvVars(upto[n], e)
      OBVIOUS
    <2>9. \A j \in 1..n : j = n \/ (j \in 1..k /\ j \in 1..L)
      BY <1>2, <2>2
    <2>10. x = X(n) /\ f = F(n)
      OBVIOUS
    <2>11. /\ l \in Seq(Written) /\ Closed(l) /\ Len(l) > 0 /\ l[1] = f
           /\ ExpandEnvVars(l, e) \in Result(Written)
           /\ ExpandEnvVars(l, e).error = "" =>
                 x.error = "" /\ ExpandEnvVars(l, e).text = (<<f>> \o Quoted(x.text)) \o <<Newline>>
      <3>1. file[n] \in [field : Fields, value : Seq(Tokens)] /\ Closed(file[n].value)
        BY FileTyped
      <3> QED
        BY <3>1, LineExpands
    <2> HIDE DEF k, f, v, x, a, l, R, X, F, V
    <2>12. Separate(a, l)
      <3>1. Newline # "$"
        BY DEF Newline
      <3> QED
        BY <2>6, <3>1 DEF Separate, Lines
    <2>13. R(n) = Join(R(k), ExpandEnvVars(l, e))
      <3>1. a \in Seq(Written) /\ l \in Seq(Written)
        BY <2>6, <2>11, Zenon
      <3>2. ExpandEnvVars(a \o l, e) = Join(ExpandEnvVars(a, e), ExpandEnvVars(l, e))
        BY <2>12, <3>1, ExpandsApart
      <3> QED
        BY <2>4, <2>6, <2>8, <3>2, Zenon
    <2>14. Closed(upto[n])
      BY <2>4, <2>6, <2>11, <2>12, ClosedBoth
    <2>15. upto[n] \in Seq(Written) /\ Lines(upto[n])
      <3>1. f \in Written /\ Quoted(v) \in Seq(Written) /\ Newline \in Written
        BY <1>4, <2>3, QuotedTyped
      <3>2. upto[n] = a \o ((<<f>> \o Quoted(v)) \o <<Newline>>)
        BY <2>3, <2>4
      <3> QED
        BY <2>6, <3>1, <3>2, LineAdded
    <2>16. R(n) \in Result(Written)
      BY <2>6, <2>11, <2>13, JoinType
    <2>17. ASSUME R(n).error = ""
           PROVE  /\ Lines(R(n).text)
                  /\ \A j \in 1..n : X(j).error = "" /\ LineIn(R(n).text, F(j), Quoted(X(j).text))
      <3> DEFINE b == R(k).text
                 c == ExpandEnvVars(l, e).text
      <3>1. R(k).error = "" /\ ExpandEnvVars(l, e).error = "" /\ R(n).text = b \o c
        BY <2>6, <2>11, <2>13, <2>17, JoinOk
      <3>2. b \in Seq(Written) /\ c \in Seq(Written) /\ Lines(b)
        BY <2>6, <2>7, <2>11, <3>1, ResultCases, ResultType
      <3>3. x.error = "" /\ c = (<<f>> \o Quoted(x.text)) \o <<Newline>>
        BY <2>11, <3>1
      <3>4. Quoted(x.text) \in Seq(Written)
        BY <2>5, <3>3, ResultCases, ResultType, QuotedTyped
      <3> HIDE DEF b, c
      <3>5. Lines(R(n).text) /\ LineIn(R(n).text, f, Quoted(x.text))
        <4>1. f \in Written /\ Newline \in Written
          BY <1>4, <2>3
        <4>2. R(n).text = b \o ((<<f>> \o Quoted(x.text)) \o <<Newline>>)
          BY <3>1, <3>3
        <4> QED
          BY <3>2, <3>4, <4>1, <4>2, LineAdded
      <3>6. ASSUME NEW j \in 1..k, j \in 1..L
            PROVE  X(j).error = "" /\ LineIn(R(n).text, F(j), Quoted(X(j).text))
        <4>1. X(j).error = "" /\ LineIn(b, F(j), Quoted(X(j).text))
          BY <2>7, <3>1 DEF b
        <4>2. Quoted(X(j).text) \in Seq(Written)
          BY <1>5, <3>6, <4>1, ResultCases, ResultType, QuotedTyped
        <4> QED
          BY <3>1, <3>2, <4>1, <4>2, LineStays
      <3> QED
        BY <2>9, <2>10, <3>3, <3>5, <3>6
    <2> QED
      BY <2>14, <2>15, <2>16, <2>17
  <1>8. Good(L)
    <2> DEFINE Ks == {k \in Nat : k <= L => Good(k)}
    <2> HIDE DEF Good
    <2>1. 0 \in Ks
      BY <1>6
    <2>2. ASSUME NEW k \in Nat, k \in Ks PROVE k + 1 \in Ks
      <3>1. k + 1 <= L => k + 1 \in 1..L /\ k <= L /\ (k + 1) - 1 = k
        BY <1>2
      <3>2. k + 1 <= L => Good(k + 1)
        BY <1>7, <2>2, <3>1
      <3> QED
        BY <3>2
    <2> HIDE DEF Ks
    <2>3. L \in Ks
      BY <1>2, <2>1, <2>2, Induction
    <2>4. L <= L
      BY <1>2
    <2> QED
      BY <2>3, <2>4 DEF Ks
  <1>9. R(L) = r
    BY <1>1
  <1> HIDE DEF R, X, F, V, L
  <1>10. r.error = "" =>
            r.text \in Seq(Written) /\ \A j \in 1..L : X(j).error = "" /\ LineIn(r.text, F(j), Quoted(X(j).text))
    BY <1>8, <1>9, ResultCases, ResultType
  <1> QED
    BY <1>10 DEF X, F, V, L

-----------------------------------------------------------------------------
\* Where a line starts and an end of a line follows, there is a line.
LEMMA LineFrom ==
    ASSUME NEW S, NEW s \in Seq(S), NEW p \in 1..Len(s), p = 1 \/ s[p - 1] = Newline,
           NEW q \in p..Len(s), s[q] = Newline
    PROVE  \E m \in p..q : [first |-> p, end |-> m] \in LinesOf(s)
  <1> DEFINE T == {k \in p..q : s[k] = Newline}
  <1>1. T \in SUBSET Nat /\ T # {}
    <2>1. q \in T
      OBVIOUS
    <2>2. \A k \in p..q : k \in Nat
      OBVIOUS
    <2> QED
      BY <2>1, <2>2
  <1>2. PICK m \in T : \A j \in T : m <= j
    <2> HIDE DEF T
    <2> QED
      BY <1>1, LeastExists
  <1>3. m \in p..q /\ s[m] = Newline /\ m \in 1..Len(s)
    BY <1>2
  <1>4. ASSUME NEW k \in p..m - 1 PROVE s[k] # Newline
    <2>1. k \in p..q /\ ~(m <= k)
      BY <1>3
    <2> QED
      BY <1>2, <2>1
  <1> DEFINE l == [first |-> p, end |-> m]
  <1>5. DOMAIN s = 1..Len(s)
    OBVIOUS
  <1>6. l \in [first : DOMAIN s, end : DOMAIN s] /\ l.first = p /\ l.end = m
    BY <1>3, <1>5
  <1>7. p <= m
    BY <1>3
  <1> HIDE DEF l, T
  <1>8. l \in LinesOf(s)
    BY <1>3, <1>4, <1>6, <1>7 DEF LinesOf
  <1> QED
    BY <1>3, <1>8 DEF l

\* A string with neither quotes nor backslashes is read as it is.
LEMMA StringAlone ==
    ASSUME NEW S, NEW t \in Seq(S), NEW x \in Seq(S), Unquoted(x),
           Len(t) = Len(x) + 1, t[Len(x) + 1] = Quote, \A k \in 1..Len(x) : t[k] = x[k]
    PROVE  StringOf(t) = x
  <1> DEFINE n == Len(x)
  <1>1. n \in Nat /\ DOMAIN x = 1..n /\ Len(t) = n + 1 /\ t[n + 1] = Quote
    OBVIOUS
  <1>2. \A k \in 1..n : t[k] = x[k] /\ t[k] # Quote /\ t[k] # Backslash
    BY <1>1 DEF Unquoted
  <1>3. \A k \in 1..n : ~Escapes(t, k)
    BY <1>2 DEF Escapes
  <1>4. ~Escaped(t, n + 1)
    <2> DEFINE B == {j \in 1..(n + 1) - 1 : \A m \in j..(n + 1) - 1 : t[m] = Backslash}
    <2>1. B = {}
      <3> SUFFICES ASSUME NEW j \in B PROVE FALSE
        OBVIOUS
      <3>1. j \in 1..n /\ j \in j..(n + 1) - 1
        BY <1>1
      <3> QED
        BY <1>2, <3>1
    <2> HIDE DEF B
    <2>2. Cardinality(B) = 0
      BY <2>1, FS_EmptySet
    <2>3. Cardinality(B) % 2 # 1
      BY <2>2
    <2> QED
      BY <2>3 DEF Escaped, B
  <1>5. Closings(t) = {n + 1}
    <2>1. n + 1 \in Closings(t)
      BY <1>1, <1>4 DEF Closings
    <2>2. ASSUME NEW k \in Closings(t) PROVE k = n + 1
      <3>1. k \in 1..n + 1 /\ t[k] = Quote
        BY <1>1 DEF Closings
      <3>2. k \notin 1..n
        BY <1>2, <3>1
      <3> QED
        BY <1>1, <3>1, <3>2
    <2> QED
      BY <2>1, <2>2
  <1>6. Closing(t) = n + 1
    <2>1. \A k \in {n + 1} : \A j \in {n + 1} : k <= j
      BY <1>1
    <2> QED
      BY <1>5, <2>1 DEF Closing
  <1> DEFINE Step(u, k) == IF k = 0 THEN <<>>
                           ELSE IF Escapes(t, k) THEN u[k - 1] ELSE Append(u[k - 1], t[k])
             f == [k \in 0..n |-> SubSeq(x, 1, k)]
             g == CHOOSE h : h = [k \in 0..n |-> Step(h, k)]
  <1>7. StringOf(t) = g[n]
    <2>1. Closing(t) - 1 = n
      BY <1>1, <1>6
    <2> QED
      BY <2>1 DEF StringOf
  <1>8. \A k \in 1..n : Step(f, k) = Append(f[k - 1], t[k])
    BY <1>1, <1>3
  <1> HIDE DEF n
  <1>9. f[0] = <<>> /\ f[n] = x /\ \A k \in 1..n : f[k] = Append(f[k - 1], t[k])
    <2>1. 0 \in 0..n /\ n \in 0..n /\ \A k \in 1..n : k \in 0..n /\ k - 1 \in 0..n
      BY <1>1
    <2>2. SubSeq(x, 1, 0) = <<>> /\ SubSeq(x, 1, n) = x
      BY SubSeqEmpty, SubSeqFull DEF n
    <2>3. \A k \in 1..n : SubSeq(x, 1, k) = Append(SubSeq(x, 1, k - 1), x[k])
      BY <1>1 DEF n
    <2> QED
      BY <1>2, <2>1, <2>2, <2>3
  <1>10. f = [k \in 0..n |-> Step(f, k)]
    <2> SUFFICES ASSUME NEW k \in 0..n PROVE f[k] = Step(f, k)
      OBVIOUS
    <2>1. k = 0 \/ k \in 1..n
      BY <1>1
    <2> HIDE DEF f
    <2> QED
      BY <1>8, <1>9, <2>1
  <1>11. g = [k \in 0..n |-> Step(g, k)]
    <2> HIDE DEF f
    <2> QED
      BY <1>10, Zenon
  <1>12. g[0] = <<>> /\ \A k \in 1..n : g[k] = Append(g[k - 1], t[k])
    <2>1. 0 \in 0..n /\ \A k \in 1..n : k \in 0..n /\ k # 0
      BY <1>1
    <2> HIDE DEF g
    <2> QED
      BY <1>3, <1>11, <2>1
  <1> HIDE DEF f, g, Step
  <1> DEFINE Ks == {k \in Nat : k <= n => g[k] = f[k]}
  <1>13. 0 \in Ks
    BY <1>9, <1>12
  <1>14. ASSUME NEW k \in Nat, k \in Ks PROVE k + 1 \in Ks
    <2> SUFFICES ASSUME k + 1 <= n PROVE g[k + 1] = f[k + 1]
      OBVIOUS
    <2>1. k + 1 \in 1..n /\ (k + 1) - 1 = k /\ k <= n
      BY <1>1
    <2> QED
      BY <1>9, <1>12, <1>14, <2>1
  <1>15. n \in Ks
    <2> HIDE DEF Ks
    <2> QED
      BY <1>1, <1>13, <1>14, Induction
  <1>16. g[n] = f[n]
    <2>1. n <= n
      BY <1>1
    <2> QED
      BY <1>15, <2>1
  <1> QED
    BY <1>7, <1>9, <1>16

\* A line whose value has neither quotes nor backslashes is what is parsed: an end
\* of a line in it would leave a string without an end.
LEMMA LineParses ==
    ASSUME NEW s \in Seq(Written), Parses(s), NEW f \in Fields, NEW x \in Seq(Written),
           Unquoted(x), LineIn(s, f, Quoted(x))
    PROVE  f \in DOMAIN Parse(s) /\ Parse(s)[f] = x
  <1> DEFINE n == Len(x)
  <1>1. /\ n \in Nat /\ Len(s) \in Nat /\ Len(Quoted(x)) = n + 2
        /\ Quoted(x)[1] = Quote /\ Quoted(x)[n + 2] = Quote
        /\ \A k \in 1..n : Quoted(x)[k + 1] = x[k]
    BY QuotedTyped
  <1>2. \A k \in 1..n : x[k] # Quote
    BY DEF Unquoted
  <1> HIDE DEF n
  <1>3. PICK p \in 1..Len(s) :
           /\ p + Len(Quoted(x)) + 1 \in 1..Len(s)
           /\ p = 1 \/ s[p - 1] = Newline
           /\ s[p] = f /\ s[p + Len(Quoted(x)) + 1] = Newline
           /\ \A k \in 1..Len(Quoted(x)) : s[p + k] = Quoted(x)[k]
    BY DEF LineIn
  <1> DEFINE q == p + n + 3
  <1>4. q \in p..Len(s) /\ s[q] = Newline /\ q \in Int
    <2>1. p + Len(Quoted(x)) + 1 = q
      BY <1>1
    <2> HIDE DEF q
    <2> QED
      BY <1>3, <2>1
  <1>5. s[p + 1] = Quote /\ s[p + (n + 2)] = Quote /\ \A k \in 1..n : s[p + (k + 1)] = x[k]
    <2>1. 1 \in 1..n + 2 /\ n + 2 \in 1..n + 2 /\ \A k \in 1..n : k + 1 \in 1..n + 2
      BY <1>1
    <2> QED
      BY <1>1, <1>3, <2>1
  <1>6. f # Newline /\ f # Comment
    BY TextAssumption
  <1>7. Newline # Quote
    BY DEF Newline, Quote
  <1>8. PICK m \in p..q : [first |-> p, end |-> m] \in LinesOf(s)
    <2> HIDE DEF q
    <2> QED
      BY <1>3, <1>4, LineFrom
  <1> DEFINE l == [first |-> p, end |-> m]
             t == Opened(s, l)
  <1>9. l \in FieldLines(s) /\ l.first = p /\ l.end = m
    <2>1. l.first = p /\ l.end = m
      OBVIOUS
    <2> HIDE DEF l
    <2> QED
      BY <1>3, <1>6, <1>8, <2>1 DEF FieldLines, l
  <1>10. s[m] = Newline
    BY <1>8 DEF LinesOf
  <1> HIDE DEF l
  <1>11. t = SubSeq(s, p + 2, m - 1)
    BY <1>9 DEF Opened
  <1>12. IsString(t)
    BY <1>9 DEF Parses
  <1> HIDE DEF t
  <1>13. m \in Nat /\ m <= Len(s) /\ m # p /\ m # p + 1 /\ m # p + (n + 2)
    BY <1>3, <1>4, <1>5, <1>6, <1>7, <1>8, <1>10
  <1>14. /\ t \in Seq(Written) /\ Len(t) = m - p - 2
         /\ \A k \in 1..m - p - 2 : t[k] = s[p + (k + 1)]
    <2>1. p + 2 \in Nat \ {0} /\ m - 1 \in Nat /\ m - 1 <= Len(s) /\ p + 2 <= (m - 1) + 1
      BY <1>3, <1>13, <1>8
    <2>2. \A i \in (p + 2)..(m - 1) : s[i] \in Written
      <3>1. \A i \in (p + 2)..(m - 1) : i \in 1..Len(s)
        BY <2>1
      <3> QED
        BY <3>1, ElementOfSeq
    <2> DEFINE i == p + 2
               j == m - 1
    <2>3. i \in Int /\ j \in Int /\ i <= j + 1
      BY <2>1
    <2> HIDE DEF i, j
    <2>4. /\ SubSeq(s, i, j) \in Seq(Written)
          /\ Len(SubSeq(s, i, j)) = IF i <= j THEN j - i + 1 ELSE 0
          /\ \A k \in 1..j - i + 1 : SubSeq(s, i, j)[k] = s[i + k - 1]
      BY <2>2, <2>3, SubSeqProperties DEF i, j
    <2>5. j - i + 1 = m - p - 2 /\ \A k \in Int : i + k - 1 = p + (k + 1)
      BY <1>3, <1>13 DEF i, j
    <2>6. \A k \in 1..j - i + 1 : k \in Int
      BY <2>3
    <2>7. t = SubSeq(s, i, j)
      BY <1>11 DEF i, j
    <2>8. i <= j => j - i + 1 = m - p - 2
      BY <2>5
    <2>9. ~(i <= j) => 0 = m - p - 2
      BY <2>3, <2>5
    <2> QED
      BY <2>4, <2>5, <2>6, <2>7, <2>8, <2>9
  <1>15. m = q
    <2> SUFFICES ASSUME m # q PROVE FALSE
      OBVIOUS
    <2>1. m - p - 2 <= n
      BY <1>1, <1>3, <1>8, <1>13
    <2>2. \A k \in 1..m - p - 2 : t[k] # Quote
      <3>1. \A k \in 1..m - p - 2 : k \in 1..n
        BY <1>1, <1>3, <1>13, <2>1
      <3> QED
        BY <1>2, <1>5, <1>14, <3>1
    <2>3. Closings(t) = {}
      BY <1>14, <2>2 DEF Closings
    <2> QED
      BY <1>12, <2>3 DEF IsString
  <1>16. StringOf(t) = x
    <2>1. m - p - 2 = n + 1
      BY <1>1, <1>3, <1>15
    <2>2. Len(t) = Len(x) + 1 /\ t[Len(x) + 1] = Quote /\ \A k \in 1..Len(x) : t[k] = x[k]
      <3>1. n + 1 \in 1..n + 1 /\ (n + 1) + 1 = n + 2 /\ \A k \in 1..n : k \in 1..n + 1
        BY <1>1
      <3> QED
        BY <1>5, <1>14, <2>1, <3>1 DEF n
    <2> QED
      BY <1>14, <2>2, StringAlone
  <1>17. s[l.first] = f
    BY <1>3, <1>9
  <1>18. \A j \in FieldLines(s) : s[j.first] = f => j = l
    BY <1>9, <1>17 DEF Parses
  <1>19. f \in DOMAIN Parse(s)
    BY <1>9, <1>17 DEF Parse
  <1> DEFINE c == CHOOSE j \in FieldLines(s) : s[j.first] = f
  <1>20. c = l
    <2>1. c \in FieldLines(s) /\ s[c.first] = f
      BY <1>9, <1>17
    <2> HIDE DEF c
    <2> QED
      BY <1>18, <2>1
  <1>21. Parse(s)[f] = StringOf(Opened(s, c))
    BY <1>19 DEF Parse
  <1> HIDE DEF c
  <1> QED
    BY <1>16, <1>19, <1>20, <1>21 DEF t

\* A file's text is written with the tokens of the file.
LEMMA TextTyped ==
    ASSUME NEW file \in Files
    PROVE  TextOf(file) \in Seq(Written)
  <1>1. PICK upto :
              /\ upto[0] = <<>>
              /\ \A k \in 1..Len(file) : upto[k] = upto[k - 1] \o Line(file[k])
              /\ TextOf(file) = upto[Len(file)]
    BY TextGrows
  <1> DEFINE Ks == {k \in Nat : k <= Len(file) => upto[k] \in Seq(Written)}
  <1>2. Len(file) \in Nat
    BY FileTyped
  <1>3. 0 \in Ks
    <2>1. <<>> \in Seq(Written)
      OBVIOUS
    <2> QED
      BY <1>1, <2>1
  <1>4. ASSUME NEW k \in Nat, k \in Ks PROVE k + 1 \in Ks
    <2> SUFFICES ASSUME k + 1 <= Len(file) PROVE upto[k + 1] \in Seq(Written)
      OBVIOUS
    <2>1. k + 1 \in 1..Len(file) /\ (k + 1) - 1 = k /\ k <= Len(file)
      BY <1>2
    <2>2. upto[k] \in Seq(Written) /\ upto[k + 1] = upto[k] \o Line(file[k + 1])
      BY <1>1, <1>4, <2>1
    <2>3. Line(file[k + 1]) \in Seq(Written)
      BY <2>1, LineTyped
    <2> QED
      BY <2>2, <2>3, ConcatProperties
  <1>5. Nat \subseteq Ks
    <2> HIDE DEF Ks
    <2> QED
      BY <1>3, <1>4, Induction
  <1>6. Len(file) \in Ks /\ Len(file) <= Len(file)
    <2> HIDE DEF Ks
    <2> QED
      BY <1>2, <1>5
  <1> QED
    BY <1>1, <1>6

-----------------------------------------------------------------------------
\* What variables are written with.
LEMMA EnvTyped ==
    ASSUME NEW e \in Environment
    PROVE  EnvIn(Tokens, e) /\ EnvIn(Written, e)
  <1>1. \A n \in DOMAIN e : e[n] \in Seq(Tokens)
    BY TextAssumption
  <1>2. Tokens \subseteq Written
    BY DEF Written
  <1>3. \A n \in DOMAIN e : e[n] \in Seq(Written)
    BY <1>1, <1>2, MoreTokens
  <1> QED
    BY <1>1, <1>3 DEF EnvIn

\* A value that has neither, as a text of the other tokens.
LEMMA UnquotedTyped ==
    ASSUME NEW v \in Seq(Tokens)
    PROVE  Unquoted(v) <=> v \in Seq(Tokens \ {Quote, Backslash})
  <1> DEFINE T == Tokens \ {Quote, Backslash}
             n == Len(v)
  <1>1. DOMAIN v = 1..n /\ n \in Nat /\ \A i \in 1..n : v[i] \in Tokens
    BY ElementOfSeq
  <1>2. v = [i \in 1..n |-> v[i]]
    BY <1>1
  <1>3. ASSUME Unquoted(v) PROVE v \in Seq(T)
    <2>1. \A i \in 1..n : v[i] \in T
      BY <1>1, <1>3 DEF Unquoted
    <2> HIDE DEF T, n
    <2>2. [i \in 1..n |-> v[i]] \in Seq(T)
      BY <1>1, <2>1, IsASeq
    <2> QED
      BY <1>2, <2>2
  <1>4. ASSUME v \in Seq(T) PROVE Unquoted(v)
    <2>1. \A i \in 1..n : v[i] \in T
      <3> HIDE DEF T
      <3> QED
        BY <1>4, ElementOfSeq
    <2> QED
      BY <1>1, <2>1 DEF Unquoted
  <1> QED
    BY <1>3, <1>4

\* What such a value expands to is such a value, if every variable is.
LEMMA UnquotedExpands ==
    ASSUME NEW v \in Seq(Tokens), Unquoted(v), NEW e \in Environment,
           \A n \in DOMAIN e : Unquoted(e[n]), NEW r, r = ExpandEnvVars(v, e)
    PROVE  r.error = "" => r.text \in Seq(Written) /\ Unquoted(r.text)
  <1> DEFINE T == Tokens \ {Quote, Backslash}
  <1>1. v \in Seq(T) /\ EnvIn(T, e)
    BY EnvTyped, UnquotedTyped DEF EnvIn
  <1>2. T \subseteq Tokens /\ T \subseteq Written
    BY DEF Written
  <1> HIDE DEF T
  <1>3. r \in Result(T)
    BY <1>1, ExpandsTyped
  <1>4. r.error = "" => r.text \in Seq(T)
    BY <1>3, ResultCases, ResultType
  <1>5. \A t \in Seq(T) : t \in Seq(Written) /\ t \in Seq(Tokens)
    BY <1>2, MoreTokens
  <1>6. \A t \in Seq(T) : Unquoted(t)
    BY <1>5, UnquotedTyped DEF T
  <1> QED
    BY <1>4, <1>5, <1>6, Zenon

\* What is parsed of an expanded file, its values taken one by one.
LEMMA ParsedAsWritten ==
    ASSUME NEW file \in Files, NEW e \in Environment,
           \A k \in DOMAIN file : Closed(file[k].value) /\ Unquoted(file[k].value),
           \A n \in DOMAIN e : Unquoted(e[n]), NEW k \in DOMAIN file
    PROVE  ExpandEnvVars(TextOf(file), e).error = "" /\ Parses(ExpandEnvVars(TextOf(file), e).text) =>
              /\ ExpandEnvVars(file[k].value, e).error = ""
              /\ file[k].field \in DOMAIN Parse(ExpandEnvVars(TextOf(file), e).text)
              /\ Parse(ExpandEnvVars(TextOf(file), e).text)[file[k].field]
                    = ExpandEnvVars(file[k].value, e).text
  <1> SUFFICES ASSUME NEW r, r = ExpandEnvVars(TextOf(file), e),
                      NEW x, x = ExpandEnvVars(file[k].value, e)
               PROVE  r.error = "" /\ Parses(r.text) =>
                         /\ x.error = ""
                         /\ file[k].field \in DOMAIN Parse(r.text)
                         /\ Parse(r.text)[file[k].field] = x.text
    OBVIOUS
  <1>1. DOMAIN file = 1..Len(file) /\ file[k].field \in Fields /\ file[k].value \in Seq(Tokens)
    BY FileTyped
  <1>2. EnvIn(Written, e)
    BY EnvTyped
  <1>3. r.error = "" => r.text \in Seq(Written) /\ x.error = "" /\ LineIn(r.text, file[k].field, Quoted(x.text))
    BY <1>1, <1>2, FileExpands
  <1>4. x.error = "" => x.text \in Seq(Written) /\ Unquoted(x.text)
    BY <1>1, UnquotedExpands
  <1> DEFINE f == file[k].field
             s == r.text
             y == x.text
  <1>5. ASSUME s \in Seq(Written), Parses(s), f \in Fields, y \in Seq(Written), Unquoted(y),
               LineIn(s, f, Quoted(y))
        PROVE  f \in DOMAIN Parse(s) /\ Parse(s)[f] = y
    <2> HIDE DEF f, s, y
    <2> QED
      BY <1>5, LineParses
  <1> QED
    BY <1>1, <1>3, <1>4, <1>5, Zenon

-----------------------------------------------------------------------------
\* Directory d has the file that is loaded.
Nearest(d) == found[d] # <<>> /\ \A o \in 1..d - 1 : found[o] = <<>>

(***************************************************************************)
(* The invariant: as long as loading goes on, what it has so far is what   *)
(* the steps behind it make of the nearest file.                           *)
(***************************************************************************)
LoadInv ==
    /\ env \in Environment
    /\ \A d \in 1..Depth : found[d] \in Files \cup {<<>>}
    /\ overridden \in Nat
    /\ load = "expand" => \E d \in 1..Depth : Nearest(d)
    /\ \A d \in 1..Depth : Nearest(d) =>
          LET r == ExpandEnvVars(TextOf(found[d]), env)
          IN  /\ load = "expand" => text = TextOf(found[d])
              /\ load \in {"parse", "expand_env"} => r.error = "" /\ text = r.text
    /\ load = "expand_env" => Parses(text) /\ config = Parse(text)
    /\ FieldsAsWritten

\* There is one nearest file.
LEMMA OneNearest ==
    ASSUME NEW d \in 1..Depth, NEW c \in 1..Depth, Nearest(d), Nearest(c)
    PROVE  c = d
  <1>1. c < d => c \in 1..d - 1
    OBVIOUS
  <1>2. d < c => d \in 1..c - 1
    OBVIOUS
  <1>3. ~(c < d) /\ ~(d < c)
    BY <1>1, <1>2 DEF Nearest
  <1> QED
    BY <1>3

\* The nearest file is found, or there is none.
LEMMA LoadKeeps == LoadInv /\ LoadConfig => LoadInv'
  <1> SUFFICES ASSUME LoadInv, LoadConfig PROVE LoadInv'
    OBVIOUS
  <1> DEFINE dirs == {d \in 1..Depth : found[d] # <<>>}
  <1>1. UNCHANGED <<env, found, config, overridden>> /\ load = "search"
    BY DEF LoadConfig
  <1>2. \A d \in 1..Depth : Nearest(d)' <=> Nearest(d)
    BY <1>1 DEF Nearest
  <1>3. CASE dirs = {}
    <2>1. load' = "loaded"
      BY <1>3 DEF LoadConfig
    <2>2. \A d \in 1..Depth : found[d] = <<>> /\ ~Nearest(d)
      BY <1>3 DEF Nearest
    <2>3. FieldsAsWritten'
      BY <1>1, <2>2 DEF FieldsAsWritten
    <2> QED
      BY <1>1, <1>2, <2>1, <2>2, <2>3 DEF LoadInv
  <1>4. CASE dirs # {}
    <2> DEFINE c == CHOOSE d \in dirs : \A o \in dirs : d <= o
    <2>1. load' = "expand" /\ text' = TextOf(found[c])
      BY <1>4 DEF LoadConfig
    <2>2. c \in dirs /\ \A o \in dirs : c <= o
      <3>1. dirs \in SUBSET Nat
        OBVIOUS
      <3>2. \E d \in dirs : \A o \in dirs : d <= o
        <4> HIDE DEF dirs
        <4> QED
          BY <1>4, <3>1, LeastExists
      <3> HIDE DEF dirs
      <3> QED
        BY <3>2
    <2> HIDE DEF c
    <2>3. c \in 1..Depth /\ Nearest(c)
      <3>1. ASSUME NEW o \in 1..c - 1 PROVE found[o] = <<>>
        <4>1. o \in 1..Depth /\ ~(c <= o)
          <5>1. c \in 1..Depth
            BY <2>2
          <5> QED
            BY <5>1, DepthAssumption
        <4> QED
          BY <2>2, <4>1
      <3> QED
        BY <2>2, <3>1 DEF Nearest
    <2>4. \A d \in 1..Depth : Nearest(d) => text' = TextOf(found[d])
      BY <2>1, <2>3, OneNearest
    <2>5. FieldsAsWritten'
      BY <2>1 DEF FieldsAsWritten
    <2>6. "expand" \notin {"parse", "expand_env"} /\ "expand" # "expand_env"
      OBVIOUS
    <2> QED
      BY <1>1, <1>2, <2>1, <2>3, <2>4, <2>5, <2>6 DEF LoadInv
  <1> QED
    BY <1>3, <1>4

\* The text is expanded.
LEMMA ExpandKeeps == LoadInv /\ ExpandText => LoadInv'
  <1> SUFFICES ASSUME LoadInv, ExpandText PROVE LoadInv'
    OBVIOUS
  <1> DEFINE r == ExpandEnvVars(text, env)
  <1>1. UNCHANGED <<env, found, config, overridden>> /\ load = "expand"
    BY DEF ExpandText
  <1>2. PICK c \in 1..Depth : Nearest(c)
    BY <1>1 DEF LoadInv
  <1>3. text = TextOf(found[c]) /\ found[c] \in Files /\ env \in Environment
    BY <1>1, <1>2 DEF LoadInv, Nearest
  <1>4. r \in Result(Written)
    BY <1>3, TextTyped, EnvTyped, ExpandsTyped
  <1>5. IF r.error # "" THEN load' = r.error ELSE load' = "parse" /\ text' = r.text
    BY DEF ExpandText
  <1>6. r.error # "" => r.error = "env_var"
    <2>1. Failed("env_var").error = "env_var"
      BY DEF Failed
    <2> QED
      BY <1>4, <2>1, ResultCases, Zenon
  <1>7. \A d \in 1..Depth : Nearest(d)' <=> Nearest(d)
    BY <1>1 DEF Nearest
  <1>8. \A d \in 1..Depth : Nearest(d) => r = ExpandEnvVars(TextOf(found[d]), env)
    BY <1>2, <1>3, OneNearest
  <1> HIDE DEF r
  <1>9. load' = "env_var" \/ (load' = "parse" /\ r.error = "" /\ text' = r.text)
    BY <1>5, <1>6
  <1>10. FieldsAsWritten'
    BY <1>9 DEF FieldsAsWritten
  <1> QED
    BY <1>1, <1>7, <1>8, <1>9, <1>10 DEF LoadInv

\* What is read depends on the text alone.
LEMMA SameText ==
    ASSUME text' = text
    PROVE  (Parses(text)' <=> Parses(text)) /\ Parse(text)' = Parse(text)
  <1>1. Parses(text)' <=> Parses(text)
    BY DEF Parses, LinesOf, FieldLines, Opened, IsString, Closings, Closing, Escapes, Escaped
  <1>2. Parse(text)' = Parse(text)
    BY DEF Parse, StringOf, LinesOf, FieldLines, Opened, Closings, Closing, Escapes, Escaped
  <1> QED
    BY <1>1, <1>2

\* The text is parsed.
LEMMA FromStrKeeps == LoadInv /\ FromStr => LoadInv'
  <1> SUFFICES ASSUME LoadInv, FromStr PROVE LoadInv'
    OBVIOUS
  <1>1. UNCHANGED <<env, found, text, overridden>> /\ load = "parse"
    BY DEF FromStr
  <1>2. \/ load' \in {"parse_error", "many_lines"}
        \/ load' = "expand_env" /\ Parses(text) /\ config' = Parse(text)
    BY DEF FromStr
  <1>3. \A d \in 1..Depth : Nearest(d)' <=> Nearest(d)
    BY <1>1 DEF Nearest
  <1>4. FieldsAsWritten'
    BY <1>2 DEF FieldsAsWritten
  <1>5. (Parses(text)' <=> Parses(text)) /\ Parse(text)' = Parse(text)
    BY <1>1, SameText
  <1> QED
    BY <1>1, <1>2, <1>3, <1>4, <1>5 DEF LoadInv

-----------------------------------------------------------------------------
\* Parsed, every field of the nearest file holds what its value expands to.
LEMMA ParsedFields ==
    ASSUME LoadInv, load = "expand_env", NEW d \in 1..Depth, Nearest(d),
           \A k \in DOMAIN found[d] : Closed(found[d][k].value) /\ Unquoted(found[d][k].value),
           \A n \in DOMAIN env : Unquoted(env[n]), NEW k \in DOMAIN found[d]
    PROVE  /\ ExpandEnvVars(found[d][k].value, env).error = ""
           /\ found[d][k].field \in DOMAIN config
           /\ config[found[d][k].field] = ExpandEnvVars(found[d][k].value, env).text
  <1> DEFINE r == ExpandEnvVars(TextOf(found[d]), env)
  <1>1. found[d] \in Files /\ env \in Environment
    BY DEF LoadInv, Nearest
  <1>2. r.error = "" /\ text = r.text /\ Parses(text) /\ config = Parse(text)
    BY DEF LoadInv
  <1>3. r.error = "" /\ Parses(r.text) =>
           /\ ExpandEnvVars(found[d][k].value, env).error = ""
           /\ found[d][k].field \in DOMAIN Parse(r.text)
           /\ Parse(r.text)[found[d][k].field] = ExpandEnvVars(found[d][k].value, env).text
    BY <1>1, ParsedAsWritten
  <1> HIDE DEF r
  <1> QED
    BY <1>2, <1>3, Zenon

\* A text with no reference in it is not expanded.
LEMMA ExpandOptOnce ==
    ASSUME NEW s, NEW e
    PROVE  FindFrom(s, Opening, 1) # 0 \/ ExpandOpt(s, e).text = s
  <1>1. Done(s).text = s
    BY DEF Done
  <1> QED
    BY <1>1, Zenon DEF ExpandOpt

\* The sensitive fields are expanded once more.
LEMMA ExpandEnvKeeps == LoadInv /\ ExpandEnv => LoadInv'
  <1> SUFFICES ASSUME LoadInv, ExpandEnv PROVE LoadInv'
    OBVIOUS
  <1> DEFINE sensitive == DOMAIN config \cap {Sensitive[k] : k \in DOMAIN Sensitive}
  <1>1. UNCHANGED <<env, found, text, overridden>> /\ load = "expand_env"
    BY DEF ExpandEnv
  <1>2. \/ load' = "env_var"
        \/ /\ load' = "loaded"
           /\ config' = [f \in DOMAIN config |->
                            IF f \in sensitive THEN ExpandOpt(config[f], env).text
                            ELSE config[f]]
    BY DEF ExpandEnv
  <1>3. \A d \in 1..Depth : Nearest(d)' <=> Nearest(d)
    BY <1>1 DEF Nearest
  <1>4. ASSUME load' = "loaded",
               NEW d \in 1..Depth, Nearest(d),
               \A k \in DOMAIN found[d] : Closed(found[d][k].value) /\ Unquoted(found[d][k].value),
               \A n \in DOMAIN env : Unquoted(env[n]), NEW k \in DOMAIN found[d]
        PROVE  LET l == found[d][k]
                   once == ExpandEnvVars(l.value, env)
               IN  /\ once.error = ""
                   /\ \/ config'[l.field] = once.text
                      \/ /\ \E i \in DOMAIN Sensitive : Sensitive[i] = l.field
                         /\ FindFrom(once.text, Opening, 1) # 0
    <2> DEFINE f == found[d][k].field
               once == ExpandEnvVars(found[d][k].value, env)
    <2>1. once.error = "" /\ f \in DOMAIN config /\ config[f] = once.text
      BY <1>1, <1>4, ParsedFields
    <2>2. config'[f] = IF f \in sensitive THEN ExpandOpt(config[f], env).text ELSE config[f]
      <3>1. load' # "env_var"
        BY <1>4
      <3> HIDE DEF sensitive, f, once
      <3> QED
        BY <1>2, <2>1, <3>1
    <2>3. f \in sensitive => \E i \in DOMAIN Sensitive : Sensitive[i] = f
      OBVIOUS
    <2>4. FindFrom(config[f], Opening, 1) # 0 \/ ExpandOpt(config[f], env).text = config[f]
      BY ExpandOptOnce
    <2>5. /\ once.error = ""
          /\ \/ config'[f] = once.text
             \/ /\ \E i \in DOMAIN Sensitive : Sensitive[i] = f
                /\ FindFrom(once.text, Opening, 1) # 0
      <3> HIDE DEF sensitive, f, once
      <3> QED
        BY <2>1, <2>2, <2>3, <2>4
    <2> QED
      BY <2>5
  <1>5. FieldsAsWritten'
    <2>1. env' = env /\ found' = found
      BY <1>1
    <2> QED
      BY <1>4, <2>1 DEF FieldsAsWritten, Nearest
  <1>6. load' \in {"env_var", "loaded"}
    BY <1>2
  <1> QED
    BY <1>1, <1>3, <1>5, <1>6 DEF LoadInv

\* A loaded configuration stays what it is until it is overridden.
LEMMA LoadedKeeps ==
    LoadInv /\ (With \/ Validate \/ Build \/ WriteReport \/ UNCHANGED configVars) => LoadInv'
  <1>1. ASSUME LoadInv, With PROVE LoadInv'
    <2>1. UNCHANGED <<env, found, load>> /\ load = "loaded" /\ overridden' = overridden + 1
      BY <1>1 DEF With
    <2>2. overridden' \in Nat /\ overridden' # 0
      BY <1>1, <2>1 DEF LoadInv
    <2>3. FieldsAsWritten'
      BY <2>2 DEF FieldsAsWritten
    <2> QED
      BY <1>1, <2>1, <2>2, <2>3 DEF LoadInv
  <1>2. ASSUME LoadInv, UNCHANGED <<env, found, text, config, load, overridden>> PROVE LoadInv'
    <2>1. FieldsAsWritten'
      BY <1>2 DEF LoadInv, FieldsAsWritten
    <2>2. \A d \in 1..Depth : Nearest(d)' <=> Nearest(d)
      BY <1>2 DEF Nearest
    <2>3. (Parses(text)' <=> Parses(text)) /\ Parse(text)' = Parse(text)
      BY <1>2, SameText
    <2> QED
      BY <1>2, <2>1, <2>2, <2>3 DEF LoadInv
  <1> QED
    BY <1>1, <1>2 DEF Validate, Build, WriteReport, configVars

\* Whatever is done with a configuration, the invariant holds.
LEMMA LoadInvHolds == ConfigSpec => []LoadInv
  <1>1. ConfigInit => LoadInv
    <2> SUFFICES ASSUME ConfigInit PROVE LoadInv
      OBVIOUS
    <2>1. env \in Environment /\ load = "search" /\ overridden = 0
      BY DEF ConfigInit
    <2>2. \A d \in 1..Depth : found[d] \in Files \cup {<<>>}
      <3>1. PICK at \in 1..Depth + 1, file \in Files :
                    found = [d \in 1..Depth |-> IF d = at THEN file ELSE <<>>]
        BY DEF ConfigInit
      <3> QED
        BY <3>1
    <2>3. FieldsAsWritten
      BY <2>1 DEF FieldsAsWritten
    <2> QED
      BY <2>1, <2>2, <2>3 DEF LoadInv
  <1>2. LoadInv /\ [ConfigNext]_configVars => LoadInv'
    BY LoadKeeps, ExpandKeeps, FromStrKeeps, ExpandEnvKeeps, LoadedKeeps DEF ConfigNext
  <1> QED
    BY <1>1, <1>2, PTL DEF ConfigSpec

(***************************************************************************)
(* load_config_from_str expands the file as one text (expand_env_vars),    *)
(* parses it (toml::from_str) and expands the sensitive fields again       *)
(* (expand_env): for every file, environment and number of directories, a  *)
(* field then holds what its own value expands to, whatever stands in the  *)
(* other lines.                                                            *)
(***************************************************************************)
THEOREM FieldsHold == ConfigSpec => []FieldsAsWritten
  <1>1. LoadInv => FieldsAsWritten
    BY DEF LoadInv
  <1> QED
    BY <1>1, LoadInvHolds, PTL
=============================================================================
