--------------------------- MODULE MemoryDatabase ---------------------------
(***************************************************************************)
(* MemoryDatabase (src/core/database/memory.rs): tables of records by id   *)
(* under one RwLock.  Every operation is one critical section, but insert  *)
(* and batch_insert, which create their table in a section of its own.     *)
(*                                                                         *)
(* A JSON value keeps what the code looks at: its kind, its number, and    *)
(* the place of its text among all texts.  Operations that fail with       *)
(* NotFound or Conflict change nothing and, but for insert, are no steps.  *)
(***************************************************************************)
EXTENDS Integers, Sequences, FiniteSets

CONSTANTS
    Client,
    Table,
    Value,          \* JSON values: [kind, num, text]
    Inserts,        \* records callers insert
    Updates,        \* records callers merge into rows
    Filters,        \* filters: functions from filter keys to conditions
    Orders,         \* [by, desc]: what readers order by
    PageSize,       \* limits of paginated queries
    Within,         \* <<p, v>>: text p, in lower case, occurs in text v
    MaxRows         \* bound on the rows ever inserted

Missing == [kind |-> "missing", num |-> 0, text |-> 0]
Absent(v) == v.kind \in {"missing", "null"}

\* A field, or a filter key, is the sequence of its words between "__".
IdField == <<"id">>
Field == {<<"id">>, <<"_id">>, <<"n">>}
Record == UNION {[F -> Value] : F \in SUBSET Field}

Id == {v \in Value : v.kind = "text"}

ASSUME ValueAssumption ==
    /\ Value \subseteq [kind : {"null", "num", "text"}, num : Int, text : Nat]
    /\ IsFiniteSet(Value)
ASSUME InputAssumption == Inserts \subseteq Record /\ Updates \subseteq Record
ASSUME BoundAssumption == MaxRows \in Nat /\ PageSize \subseteq Nat \ {0}

NoCall == <<>>

VARIABLES
    tables,         \* tables[t]: id -> record, for the tables there are
    call,           \* call[c]: NoCall, or the insert c has a table for
    reported,       \* rows reported inserted less rows reported deleted
    inserted,       \* rows inserted so far
    renamed,        \* rows <<t, id>> whose id field an update has set
    pager           \* a reader of whole tables, page after page

dbVars == <<tables, call, reported, inserted, renamed, pager>>

Rows(t) == IF t \in DOMAIN tables THEN DOMAIN tables[t] ELSE {}

-----------------------------------------------------------------------------
Get(record, field) ==
    IF field \in DOMAIN record THEN record[field] ELSE Missing

\* Only a text is an id; another value of the field is passed over.
ExtractIds(record) ==
    LET id == Get(record, IdField)
        _id == Get(record, <<"_id">>)
    IN  IF id \in Id THEN {id} ELSE {_id} \cap Id

Sign(n) == IF n < 0 THEN -1 ELSE IF n > 0 THEN 1 ELSE 0

\* A slip: numbers compared by their text.
CompareTexts(a, b) ==
    IF Absent(a) \/ Absent(b)
    THEN (IF Absent(a) THEN 1 ELSE 0) - (IF Absent(b) THEN 1 ELSE 0)
    ELSE Sign(a.text - b.text)

\* -1, 0 and 1 for Less, Equal and Greater.
CompareValues(a, b) ==
    IF Absent(a) \/ Absent(b)
    THEN (IF Absent(a) THEN 1 ELSE 0) - (IF Absent(b) THEN 1 ELSE 0)
    ELSE IF a.kind = "num" /\ b.kind = "num" THEN Sign(a.num - b.num)
                                             ELSE Sign(a.text - b.text)

Operators == {"gte", "lte", "gt", "lt", "like", "in"}

ParseFilterKey(key) ==
    IF Len(key) > 1 /\ key[Len(key)] \in Operators
    THEN [field |-> SubSeq(key, 1, Len(key) - 1), op |-> key[Len(key)]]
    ELSE [field |-> key, op |-> "eq"]

\* A condition is a scalar, or an array and the set of its elements.
Scalar(v) == [array |-> FALSE, of |-> {v}]

MatchesFilterCondition(v, op, condition) ==
    LET w == CHOOSE x \in condition.of : TRUE
        c == CompareValues(v, w)
    IN  CASE op = "eq" -> ~condition.array /\ v = w
          [] op = "in" -> v \in condition.of
          [] op = "like" -> v.kind = "text" /\ w.kind = "text"
                            /\ ~condition.array /\ <<w, v>> \in Within
          [] op = "gt" -> ~Absent(v) /\ c > 0
          [] op = "lt" -> ~Absent(v) /\ c < 0
          [] op = "gte" -> ~Absent(v) /\ c >= 0
          [] op = "lte" -> ~Absent(v) /\ c <= 0

MatchesFilters(record, filters) ==
    \A key \in DOMAIN filters :
        LET parsed == ParseFilterKey(key)
        IN  MatchesFilterCondition(Get(record, parsed.field), parsed.op,
                                   filters[key])

Matching(t, filters) == {k \in Rows(t) : MatchesFilters(tables[t][k], filters)}

-----------------------------------------------------------------------------
\* The comparison of apply_pagination: nulls last in either direction.
CompareRows(a, b, order) ==
    LET v == Get(a, order.by)
        w == Get(b, order.by)
    IN  IF order.desc /\ ~Absent(v) /\ ~Absent(w) THEN CompareValues(w, v)
                                                  ELSE CompareValues(v, w)

\* sort_by of a table, which is iterated in any order and sorted stably.
\* Where the comparison is no total order, any order may come out.
IsListing(s, t, filters, order) ==
    LET Cmp(i, j) == CompareRows(tables[t][s[i]], tables[t][s[j]], order)
        I == 1..Len(s)
        total == \A i, j, k \in I : Cmp(i, j) <= 0 /\ Cmp(j, k) <= 0
                                      => Cmp(i, k) <= 0
    IN  /\ {s[i] : i \in I} = Matching(t, filters)
        /\ Len(s) = Cardinality(Matching(t, filters))
        /\ total => \A i, j \in I : i < j => Cmp(i, j) <= 0

\* The offset and the limit of apply_pagination.
Paginate(s, offset, limit) ==
    LET end == offset + limit
    IN  SubSeq(s, offset + 1, IF end < Len(s) THEN end ELSE Len(s))

-----------------------------------------------------------------------------
DbInit ==
    /\ \E T \in SUBSET Table : tables = [t \in T |-> <<>>]
    /\ call = [c \in Client |-> NoCall]
    /\ reported = [t \in Table |-> 0]
    /\ inserted = 0
    /\ renamed = {}
    /\ pager = NoCall

\* A reader that has a write between two pages is not followed any further.
Unsettle == pager' = IF tables' = tables THEN pager ELSE NoCall

\* ensure_table, the first section of insert and of batch_insert.
EnsureTable(c) ==
    /\ call[c] = NoCall
    /\ \E t \in Table, r, s \in Inserts, op \in {"insert", "batch"} :
          /\ op = "insert" => r = s
          /\ call' = [call EXCEPT ![c] =
                         [op |-> op, table |-> t,
                          records |-> IF op = "insert" THEN <<r>> ELSE <<r, s>>]]
          /\ tables' = IF t \in DOMAIN tables THEN tables
                       ELSE [u \in DOMAIN tables \cup {t} |->
                                IF u = t THEN <<>> ELSE tables[u]]
    /\ UNCHANGED <<reported, inserted, renamed, pager>>

\* The ids of a batch: its own, or new ones (uuid v4, never taken).
IdsOf(records, taken) ==
    {ids \in [1..Len(records) -> Id] : \A i \in 1..Len(records) :
        LET own == ExtractIds(records[i])
        IN  IF own # {} THEN ids[i] \in own
            ELSE /\ ids[i] \notin taken
                 /\ \A j \in 1..Len(records) : j # i => ids[j] # ids[i]
                 /\ \A r \in Inserts : ids[i] \notin ExtractIds(r)}

\* A slip: the record is stored as it came.
WithoutId(record, id) == record

WithId(record, id) ==
    [f \in DOMAIN record \cup {IdField} |-> IF f = IdField THEN id ELSE record[f]]

\* A slip: two records of a batch with the same id count twice.
AcceptedTwice(ids, taken) == {i \in DOMAIN ids : ids[i] \notin taken}

\* The records of a batch that find no row of their id.
Accepted(ids, taken) ==
    {i \in DOMAIN ids : ids[i] \notin taken /\ \A j \in 1..(i - 1) : ids[j] # ids[i]}

AddRows(t, records, ids, added) ==
    [tables EXCEPT ![t] =
        [k \in DOMAIN tables[t] \cup {ids[i] : i \in added} |->
            IF k \in DOMAIN tables[t] THEN tables[t][k]
            ELSE WithId(records[CHOOSE i \in added : ids[i] = k], k)]]

\* The second section of insert and of batch_insert, under the write lock.
Store(c, op) ==
    /\ call[c] # NoCall /\ call[c].op = op
    /\ LET t == call[c].table
           records == call[c].records
       IN  \E ids \in IdsOf(records, DOMAIN tables[t]) :
              LET added == Accepted(ids, DOMAIN tables[t])
                  n == Cardinality(added)
              IN  /\ inserted + n <= MaxRows
                  /\ tables' = AddRows(t, records, ids, added)
                  /\ reported' = [reported EXCEPT ![t] = @ + n]
                  /\ inserted' = inserted + n
    /\ call' = [call EXCEPT ![c] = NoCall]
    /\ Unsettle
    /\ UNCHANGED renamed

\* One row, or Err(Conflict) if there is a row of that id.
Insert(c) == Store(c, "insert")

\* The rows stored are counted; the others are passed over in silence.
BatchInsert(c) == Store(c, "batch")

Merge(record, updates) ==
    [f \in DOMAIN record \cup DOMAIN updates |->
        IF f \in DOMAIN updates THEN updates[f] ELSE record[f]]

UpdateRows(t, ids, updates) ==
    /\ tables' = [tables EXCEPT ![t] =
          [k \in DOMAIN tables[t] |->
              IF k \in ids THEN Merge(tables[t][k], updates) ELSE tables[t][k]]]
    /\ renamed' = IF IdField \in DOMAIN updates
                  THEN renamed \cup ({t} \X ids) ELSE renamed
    /\ Unsettle
    /\ UNCHANGED <<call, reported, inserted>>

\* The rows reported are those of the ids that there were.
DeleteRows(t, ids) ==
    /\ tables' = [tables EXCEPT ![t] =
                     [k \in DOMAIN tables[t] \ ids |-> tables[t][k]]]
    /\ reported' = [reported EXCEPT ![t] = @ - Cardinality(ids \cap DOMAIN tables[t])]
    /\ renamed' = renamed \ ({t} \X ids)
    /\ Unsettle
    /\ UNCHANGED <<call, inserted>>

\* Err(NotFound) without the table or the row.
Update(t) == \E k \in Rows(t), u \in Updates : UpdateRows(t, {k}, u)

UpdateWhere(t) ==
    /\ t \in DOMAIN tables
    /\ \E f \in Filters, u \in Updates : UpdateRows(t, Matching(t, f), u)

\* No row of that id is no error.
Delete(t) == t \in DOMAIN tables /\ \E k \in Id : DeleteRows(t, {k})

DeleteWhere(t) ==
    /\ t \in DOMAIN tables
    /\ \E f \in Filters : DeleteRows(t, Matching(t, f))

-----------------------------------------------------------------------------
\* A reader asks for a table in pages until one comes back empty.
StartReading(t) ==
    /\ pager = NoCall
    /\ \E f \in Filters, o \in Orders, limit \in PageSize :
          pager' = [table |-> t, filters |-> f, order |-> o, limit |-> limit,
                    listing |-> <<>>, read |-> <<>>, offset |-> 0,
                    done |-> FALSE]
    /\ UNCHANGED <<tables, call, reported, inserted, renamed>>

\* query with an offset and a limit.  A table nobody writes to is iterated in
\* the same order again, which the first page fixes.
QueryPage ==
    /\ pager # NoCall /\ ~pager.done
    /\ \E s \in [1..Cardinality(Matching(pager.table, pager.filters)) -> Id] :
          LET page == Paginate(s, pager.offset, pager.limit)
          IN  /\ IsListing(s, pager.table, pager.filters, pager.order)
              /\ pager.offset > 0 => s = pager.listing
              /\ pager' = [pager EXCEPT !.listing = s, !.read = @ \o page,
                                        !.offset = @ + pager.limit,
                                        !.done = (page = <<>>)]
    /\ UNCHANGED <<tables, call, reported, inserted, renamed>>

StopReading ==
    /\ pager # NoCall /\ pager.done
    /\ pager' = NoCall
    /\ UNCHANGED <<tables, call, reported, inserted, renamed>>

DbNext ==
    \/ \E c \in Client : EnsureTable(c) \/ Insert(c) \/ BatchInsert(c)
    \/ \E t \in Table : \/ Update(t) \/ UpdateWhere(t)
                         \/ Delete(t) \/ DeleteWhere(t) \/ StartReading(t)
    \/ QueryPage
    \/ StopReading

DbSpec == DbInit /\ [][DbNext]_dbVars

-----------------------------------------------------------------------------
\* However the calls of clients overlap, the rows insert and batch_insert say
\* they stored, less the rows the deletes say they removed, are there.
RowsAddUp == \A t \in Table : reported[t] = Cardinality(Rows(t))

\* A row is found by its id field under the key it is stored under, unless an
\* update has set the field: update and update_where leave the key alone.
RowsUnderTheirIds ==
    \A t \in DOMAIN tables : \A k \in DOMAIN tables[t] :
        <<t, k>> \in renamed \/ Get(tables[t][k], IdField) = k

\* A reader of a table has each matching row once,
PagesCoverTable ==
    pager # NoCall /\ pager.done =>
        /\ {pager.read[i] : i \in DOMAIN pager.read} =
              Matching(pager.table, pager.filters)
        /\ Len(pager.read) = Cardinality(Matching(pager.table, pager.filters))

\* and has them in order, if the column holds numbers and nulls: numbers by their
\* size, and rows without a value last in either direction.
PagesInOrder ==
    pager # NoCall =>
        LET V(k) == Get(tables[pager.table][k], pager.order.by)
            r == pager.read
            Precedes(v, w) ==
                \/ Absent(w)
                \/ ~Absent(v) /\ (IF pager.order.desc THEN v.num >= w.num
                                                      ELSE v.num <= w.num)
        IN  (\A k \in Matching(pager.table, pager.filters) :
                 Absent(V(k)) \/ V(k).kind = "num")
            => \A i, j \in DOMAIN r : i < j => Precedes(V(r[i]), V(r[j]))

\* Pages that are read one after the other, with no write in between, are the
\* table's matching rows, in order.
PagesAreTheTable == PagesCoverTable /\ PagesInOrder
=============================================================================
