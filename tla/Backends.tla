------------------------------ MODULE Backends ------------------------------
(* One caller, two backends: the same sequence of calls on the session and    *)
(* query interfaces of backends/protocols.py, answered by the SQLAlchemy      *)
(* adapters (backends/sqlalchemy.py) and by the in-memory reference backend   *)
(* (backends/memory.py) side by side.  The module says where the two agree.   *)
(*                                                                            *)
(* A request opens a session, works on one object of one model, and ends with *)
(* a commit or a rollback.  A row is known by `born', the how-manieth object  *)
(* made; the database's keys are never reused and stand for it, the memory    *)
(* backend's ids are what _next_id gave.                                      *)
EXTENDS Naturals, Sequences, FiniteSets, SequencesExt

CONSTANTS Sessions, Values,
          Null,         \* a column's None
          Absent,       \* no such row
          MaxRows,      \* bound: objects made
          MaxRequests,  \* bound: sessions opened
          Queries       \* the queries asked: see QueryType

ASSUME BackendsAssumption == MaxRows \in Nat /\ Absent \notin Values \cup {Null}

Cells == Values \cup {Null}
Rows == 1 .. MaxRows

\* An object in the caller's hands: the row it stands for, its id and cells
\* in each world, what the unit of work has to do for it, and whether the
\* memory store holds what the caller wrote.
NoObject == [row |-> 0, id |-> 0, sql |-> Null, mem |-> Null, op |-> "none",
             wrote |-> FALSE, saved |-> TRUE]

VARIABLES store,    \* the memory backend's table: a sequence of records
          db,       \* the database's rows, committed
          at, obj,  \* per session: its progress and its object
          flushed,  \* per session: the flushed operation, not committed
          read,     \* per session: what its load found in each world
          issued,   \* history: the memory id of every row made
          blame,    \* history: why the worlds may differ on a row
          strays,   \* history: writes in memory that hit another row
          requests

vars == <<store, db, at, obj, flushed, read, issued, blame, strays, requests>>

NoRead == [row |-> 0, sql |-> Absent, mem |-> Absent]

Init ==
    /\ store = <<>>
    /\ db = [b \in Rows |-> Absent]
    /\ at = [s \in Sessions |-> "closed"]
    /\ obj = [s \in Sessions |-> NoObject]
    /\ flushed = [s \in Sessions |-> "none"]
    /\ read = [s \in Sessions |-> NoRead]
    /\ issued = [b \in Rows |-> 0]
    /\ blame = [b \in Rows |-> {}]
    /\ strays = {}
    /\ requests = 0

Made == {b \in Rows : issued[b] # 0}
Holders(b) == {s \in Sessions : obj[s].row = b}

-----------------------------------------------------------------------------
(* The memory session.                                                        *)

Ids == {store[i].id : i \in DOMAIN store}

\* Mutant: ids count the rows there are.
NextIdByLength == Len(store) + 1

\* _next_id: one more than the largest id present.
NextId == Cardinality({n \in 1 .. MaxRows : \E i \in Ids : n <= i}) + 1

PlaceOf(id) == SelectInSeq(store, LAMBDA r : r.id = id)

\* add of an object that has its id: overwrite the record with that id, or
\* append one.
Put(o) ==
    IF PlaceOf(o.id) = 0
    THEN Append(store, [id |-> o.id, born |-> o.row, cell |-> o.mem])
    ELSE [store EXCEPT ![PlaceOf(o.id)].cell = o.mem]

\* Mutant: a record is not found when it is the first.
WithoutButFirst(id) ==
    IF PlaceOf(id) \in {0, 1} THEN store ELSE RemoveAt(store, PlaceOf(id))

\* delete: the first record with the object's id, if there is one.
Without(id) ==
    IF PlaceOf(id) = 0 THEN store ELSE RemoveAt(store, PlaceOf(id))

\* The row a write through an object's id would hit, if it is another one.
Stray(o) ==
    {<<o.row, store[i].born>> : i \in {j \in DOMAIN store :
        store[j].id = o.id /\ store[j].born # o.row}}

MemoryCell(id) ==
    IF PlaceOf(id) = 0 THEN Absent ELSE store[PlaceOf(id)].cell

-----------------------------------------------------------------------------
(* The unit of work.                                                          *)

\* A row an open transaction has written is locked.
Free(s, b) == \A t \in Holders(b) \ {s} : flushed[t] = "none"

\* An UPDATE that matches no row raises StaleDataError; a DELETE that
\* matches none only warns.
Stale(s) == obj[s].op = "update" /\ db[obj[s].row] = Absent

Applied(s) ==
    CASE flushed[s] = "none" -> db
      [] flushed[s] = "delete" -> [db EXCEPT ![obj[s].row] = Absent]
      [] OTHER -> [db EXCEPT ![obj[s].row] = obj[s].sql]

-----------------------------------------------------------------------------
(* The caller.                                                                *)

Open(s) ==
    /\ at[s] = "closed" /\ requests < MaxRequests
    /\ requests' = requests + 1
    /\ at' = [at EXCEPT ![s] = "open"]
    /\ UNCHANGED <<store, db, obj, flushed, read, issued, blame, strays>>

\* A new object, filled in and added: the unit of work keeps it for the next
\* flush; the memory session appends it at once and gives it an id, which
\* may have belonged to a row since deleted.
Create(s, c) ==
    LET b == Cardinality(Made) + 1
        old == {a \in Made : issued[a] = NextId}
        o == [NoObject EXCEPT !.row = b, !.id = NextId, !.sql = c, !.mem = c,
                              !.op = "insert", !.wrote = TRUE]
    IN
    /\ at[s] = "open" /\ obj[s] = NoObject /\ b \in Rows
    /\ store' = Append(store, [id |-> NextId, born |-> b, cell |-> c])
    /\ obj' = [obj EXCEPT ![s] = o]
    /\ issued' = [issued EXCEPT ![b] = NextId]
    /\ blame' = [a \in Rows |-> IF old # {} /\ a \in old \cup {b}
                                THEN blame[a] \cup {"reissued"} ELSE blame[a]]
    /\ UNCHANGED <<db, at, flushed, read, strays, requests>>

\* get by the id of a row once shown: an object of the unit of work, a
\* detached copy of the memory record.  When one world has no such row the
\* caller answers 404 there and the two part: the session ends.
Load(s, b) ==
    LET found == [row |-> b, sql |-> db[b], mem |-> MemoryCell(issued[b])] IN
    /\ at[s] = "open" /\ obj[s] = NoObject /\ b \in Made
    /\ read' = [read EXCEPT ![s] = found]
    /\ IF Absent \in {found.sql, found.mem}
       THEN /\ at' = [at EXCEPT ![s] = "failed"]
            /\ UNCHANGED <<obj>>
       ELSE /\ obj' = [obj EXCEPT ![s] =
                 [NoObject EXCEPT !.row = b, !.id = issued[b],
                                  !.sql = found.sql, !.mem = found.mem]]
            /\ UNCHANGED <<at>>
    /\ blame' = [blame EXCEPT ![b] =
                   IF Holders(b) # {} THEN @ \cup {"shared"} ELSE @]
    /\ UNCHANGED <<store, db, flushed, issued, strays, requests>>

\* setattr: the unit of work notices, the memory session does not.
Edit(s, c) ==
    /\ at[s] = "open" /\ obj[s].op = "none" /\ obj[s].row # 0
    /\ obj' = [obj EXCEPT ![s].sql = c, ![s].mem = c, ![s].op = "update",
                          ![s].saved = FALSE]
    /\ UNCHANGED <<store, db, at, flushed, read, issued, blame, strays, requests>>

\* add of an object already there: nothing to the unit of work, the write to
\* the memory session.
AddAgain(s) ==
    /\ at[s] = "open" /\ obj[s].op = "update" /\ ~obj[s].saved
    /\ store' = Put(obj[s])
    /\ strays' = strays \cup Stray(obj[s])
    /\ obj' = [obj EXCEPT ![s].saved = TRUE, ![s].wrote = TRUE]
    /\ UNCHANGED <<db, at, flushed, read, issued, blame, requests>>

Delete(s) ==
    /\ at[s] = "open" /\ obj[s].op = "none" /\ obj[s].row # 0
    /\ store' = Without(obj[s].id)
    /\ strays' = strays \cup Stray(obj[s])
    /\ obj' = [obj EXCEPT ![s].op = "delete", ![s].wrote = TRUE]
    /\ UNCHANGED <<db, at, flushed, read, issued, blame, requests>>

Flush(s) ==
    /\ at[s] = "open" /\ obj[s].op # "none" /\ flushed[s] = "none"
    /\ Free(s, obj[s].row)
    /\ IF Stale(s) THEN at' = [at EXCEPT ![s] = "failed"] /\ UNCHANGED flushed
       ELSE flushed' = [flushed EXCEPT ![s] = obj[s].op] /\ UNCHANGED at
    /\ UNCHANGED <<store, db, obj, read, issued, blame, strays, requests>>

Closed(s) ==
    /\ at' = [at EXCEPT ![s] = "closed"]
    /\ obj' = [obj EXCEPT ![s] = NoObject]
    /\ flushed' = [flushed EXCEPT ![s] = "none"]
    /\ read' = [read EXCEPT ![s] = NoRead]

\* commit, which flushes first; to the memory session it is nothing.
Commit(s) ==
    /\ at[s] = "open" /\ flushed[s] = obj[s].op
    /\ db' = Applied(s)
    /\ blame' = [b \in Rows |-> IF b = obj[s].row /\ ~obj[s].saved
                                THEN blame[b] \cup {"unsaved"} ELSE blame[b]]
    /\ Closed(s)
    /\ UNCHANGED <<store, issued, strays, requests>>

\* rollback, by choice or because a flush failed; to the memory session it
\* is nothing either.
BlamedRollback(s) ==
    [b \in Rows |-> IF b = obj[s].row /\ obj[s].wrote
                    THEN blame[b] \cup {"undone"} ELSE blame[b]]

Rollback(s) ==
    /\ at[s] \in {"open", "failed"}
    /\ blame' = BlamedRollback(s)
    /\ Closed(s)
    /\ UNCHANGED <<store, db, issued, strays, requests>>

Next ==
    \E s \in Sessions :
        \/ Open(s) \/ AddAgain(s) \/ Delete(s) \/ Flush(s) \/ Commit(s) \/ Rollback(s)
        \/ \E c \in Cells : Create(s, c) \/ Edit(s, c)
        \/ \E b \in Rows : Load(s, b)

Spec == Init /\ [][Next]_vars

-----------------------------------------------------------------------------
(* Queries.                                                                   *)

\* A condition is a comparison with a value or a disjunction; an order names
\* a column, as a descriptor or as a string.
Comparisons == [op : {"eq", "ne", "gt", "in"}, than : SUBSET Cells]
OrderType == [by : {"id", "cell"}, desc : BOOLEAN, string : BOOLEAN]
QueryType == [where : SUBSET (SUBSET Comparisons), order : Seq(OrderType),
              offset : Nat, limit : Nat]

Value(e) == CHOOSE v \in e.than : TRUE

\* Mutant: NULL is less than everything.
CompareNullLow(c, e) ==
    CASE e.op = "eq" -> c = Value(e)
      [] e.op = "ne" -> c # Value(e)
      [] e.op = "gt" -> c = Null \/ c > Value(e)
      [] e.op = "in" -> c \in e.than

\* _matches on one comparison.
Compare(c, e) ==
    CASE e.op = "eq" -> c = Value(e)
      [] e.op = "ne" -> c # Value(e)
      [] e.op = "gt" -> c # Null /\ c > Value(e)
      [] e.op = "in" -> c \in e.than

\* SQL: a comparison with NULL is unknown, and an unknown row is left out.
\* column == None and column != None are IS NULL and IS NOT NULL.
CompareSql(c, e) ==
    CASE e.op = "eq" -> c = Value(e)
      [] e.op = "ne" -> c # Value(e) /\ (c # Null \/ Value(e) = Null)
      [] e.op = "gt" -> c # Null /\ c > Value(e)
      [] e.op = "in" -> c # Null /\ c \in e.than

\* All conditions of the query, each the or_ of its comparisons.
Selects(q, r) == \A clause \in q.where : \E e \in clause : Compare(r.cell, e)
SelectsSql(q, r) == \A clause \in q.where : \E e \in clause : CompareSql(r.cell, e)

\* _sort_key: None after every value.
Before(x, y) == IF x = Null THEN FALSE ELSE y = Null \/ x < y

\* "-name" is taken for a column of that name, which every record lacks.
Sorts(o) == ~(o.string /\ o.desc)
Key(r, o) == IF o.by = "id" THEN r.id ELSE r.cell
Precedes(a, b, o) ==
    IF o.desc THEN Before(Key(b, o), Key(a, o)) ELSE Before(Key(a, o), Key(b, o))

\* list.sort, which is stable.
Sorted(rows, o) ==
    IF ~Sorts(o) THEN rows
    ELSE LET inOrder == SetToSortSeq(DOMAIN rows,
                 LAMBDA i, j : \/ Precedes(rows[i], rows[j], o)
                               \/ ~Precedes(rows[j], rows[i], o) /\ i < j)
         IN  [n \in DOMAIN rows |-> rows[inOrder[n]]]

\* _rows sorts by one order after the other.
MemoryRows(q) ==
    FoldLeft(Sorted, SelectSeq(store, LAMBDA r : Selects(q, r)), q.order)

\* all: slice by offset and limit.
Page(rows, q) == SubSeq(rows, q.offset + 1,
                        IF q.offset + q.limit < Len(rows) THEN q.offset + q.limit
                                                          ELSE Len(rows))

\* count: offset and limit play no part, as in the query SQL is given to
\* count, which the caller builds before the page's.
MemoryCount(q) == Len(MemoryRows(q))

\* What ORDER BY asks of two rows in sequence: by the first order that tells
\* them apart, the later one does not come first.
InOrder(a, b, orders) ==
    LET telling == {i \in DOMAIN orders :
            Precedes(a, b, orders[i]) \/ Precedes(b, a, orders[i])}
    IN  \A i \in telling : (\A j \in telling : i <= j) => Precedes(a, b, orders[i])

\* The pages SQL may answer: of some arrangement of the selected rows that
\* ORDER BY allows.
SqlMayAnswer(q, orders, answer) ==
    LET chosen == {store[i] : i \in {j \in DOMAIN store : SelectsSql(q, store[j])}}
    IN  \E rows \in SetToSeqs(chosen) :
            /\ \A i, j \in DOMAIN rows : i < j => InOrder(rows[i], rows[j], orders)
            /\ answer = Page(rows, q)

\* Null is compared in a way the two languages read differently.
NullSensitive(q) ==
    \E clause \in q.where : \E e \in clause :
        \/ e.op = "ne" /\ Value(e) # Null
        \/ e.op = "in" /\ Null \in e.than

-----------------------------------------------------------------------------
(* Properties.                                                                *)

TypeOK ==
    /\ \A i \in DOMAIN store :
         store[i] \in [id : Rows, born : Rows, cell : Cells]
    /\ db \in [Rows -> Cells \cup {Absent}]
    /\ at \in [Sessions -> {"closed", "open", "failed"}]
    /\ \A s \in Sessions :
         /\ obj[s].row \in Rows \cup {0} /\ obj[s].op \in {"none", "insert", "update", "delete"}
         /\ flushed[s] \in {"none", obj[s].op}
    /\ issued \in [Rows -> Rows \cup {0}]

SqlCell(b) == db[b]
StoredCell(b) ==
    LET i == SelectInSeq(store, LAMBDA r : r.born = b)
    IN  IF i = 0 THEN Absent ELSE store[i].cell

\* The reference backend stands in for the database.  A row nobody is working
\* on is the same in both, and so is what a session reads of a row, unless
\* its history holds one of four things: a write that was rolled back, an
\* edit that was not added again, two sessions at work on it at once, or an
\* id given a second time.
BackendsAgree ==
    /\ \A b \in Rows : blame[b] = {} /\ Holders(b) = {} => StoredCell(b) = SqlCell(b)
    /\ \A s \in Sessions : read[s] # NoRead /\ blame[read[s].row] = {} =>
         read[s].sql = read[s].mem

\* An id belongs to one record at a time, so a write in memory hits another
\* row only if the two were given the same id: the one made later got that of
\* the other, deleted before.  The hit may go either way, since an object of
\* the deleted row that is added again takes its id back.
StraysNeedReissue ==
    /\ TypeOK
    /\ \A i, j \in DOMAIN store : store[i].id = store[j].id => i = j
    /\ \A p \in strays : /\ p[1] # p[2] /\ issued[p[1]] = issued[p[2]]
                         /\ "reissued" \in blame[p[1]] \cap blame[p[2]]

\* On the same rows the memory backend answers a query with a page that SQL
\* may answer: with the orders in the opposite order of importance, since
\* each sort overrides the one before, and only if no condition compares
\* NULL with != or IN.  With at most one order the two languages agree, and
\* on the number of rows with any.
QueriesAgree ==
    (\A s \in Sessions : at[s] = "closed") =>
    \A q \in Queries : ~NullSensitive(q) =>
        /\ MemoryCount(q) =
             Cardinality({j \in DOMAIN store : SelectsSql(q, store[j])})
        /\ SqlMayAnswer(q, SelectSeq(Reverse(q.order), Sorts), Page(MemoryRows(q), q))
=============================================================================
