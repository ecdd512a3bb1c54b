--------------------------- MODULE BackendsProofs ---------------------------
(* Theorems about the database: two sessions of the memory backend and of     *)
(* SQLAlchemy (Backends), and the migrations of a SQLite database             *)
(* (Migrations).                                                              *)
EXTENDS Backends, Migrations, FiniteSetTheorems, SequenceTheorems, WellFoundedInduction, TLAPS

-----------------------------------------------------------------------------
(* Backends: tables of records, each with an id and a row of its own.         *)

Record == [id : Rows, born : Rows, cell : Cells]

\* No two records of a table have one id, or one row.
OneIdEach(st) == \A i, j \in DOMAIN st : st[i].id = st[j].id => i = j
OneRowEach(st) == \A i, j \in DOMAIN st : st[i].born = st[j].born => i = j

\* Where a table has the record of a row or of an id, and what it holds.
PlaceIn(st, b) == SelectInSeq(st, LAMBDA r : r.born = b)
CellIn(st, b) == IF PlaceIn(st, b) = 0 THEN Absent ELSE st[PlaceIn(st, b)].cell
PlaceOfIn(st, id) == SelectInSeq(st, LAMBDA r : r.id = id)

\* The least of one number is that number.
LEMMA LeastOfOne ==
    ASSUME NEW i \in Nat
    PROVE  Min({i}) = i
BY DEF Min

\* The place of an id is that of the record that has it, or none.
LEMMA PlaceOfAnId ==
    ASSUME NEW st \in Seq(Record), OneIdEach(st), NEW id
    PROVE  /\ \A i \in DOMAIN st : st[i].id = id => PlaceOfIn(st, id) = i
           /\ (\A i \in DOMAIN st : st[i].id # id) => PlaceOfIn(st, id) = 0
<1> DEFINE I == {i \in 1 .. Len(st) : st[i].id = id}
<1>1. PlaceOfIn(st, id) = IF I # {} THEN Min(I) ELSE 0
  BY DEF PlaceOfIn, SelectInSeq
<1>2. ASSUME NEW i \in DOMAIN st, st[i].id = id
      PROVE  PlaceOfIn(st, id) = i
  <2>1. I = {i}
    BY <1>2 DEF OneIdEach
  <2>2. i \in Nat
    OBVIOUS
  <2> QED
    BY <1>1, <2>1, <2>2, LeastOfOne
<1>3. ASSUME \A i \in DOMAIN st : st[i].id # id
      PROVE  PlaceOfIn(st, id) = 0
  BY <1>1, <1>3
<1> QED
  BY <1>2, <1>3

\* The same of a row.
LEMMA PlaceOfARow ==
    ASSUME NEW st \in Seq(Record), OneRowEach(st), NEW b
    PROVE  /\ \A i \in DOMAIN st : st[i].born = b =>
                PlaceIn(st, b) = i /\ CellIn(st, b) = st[i].cell
           /\ (\A i \in DOMAIN st : st[i].born # b) =>
                PlaceIn(st, b) = 0 /\ CellIn(st, b) = Absent
<1> DEFINE I == {i \in 1 .. Len(st) : st[i].born = b}
<1>1. PlaceIn(st, b) = IF I # {} THEN Min(I) ELSE 0
  BY DEF PlaceIn, SelectInSeq
<1>2. ASSUME NEW i \in DOMAIN st, st[i].born = b
      PROVE  PlaceIn(st, b) = i
  <2>1. I = {i}
    BY <1>2 DEF OneRowEach
  <2>2. i \in Nat
    OBVIOUS
  <2> QED
    BY <1>1, <2>1, <2>2, LeastOfOne
<1>3. ASSUME \A i \in DOMAIN st : st[i].born # b
      PROVE  PlaceIn(st, b) = 0
  BY <1>1, <1>3
<1>4. \A i \in DOMAIN st : i # 0
  OBVIOUS
<1> QED
  BY <1>2, <1>3, <1>4 DEF CellIn

\* A table whose records are those of another, place by place, but for cells.
LEMMA TableAppended ==
    ASSUME NEW st \in Seq(Record), OneIdEach(st), OneRowEach(st),
           NEW rec \in Record,
           \A i \in DOMAIN st : st[i].id # rec.id /\ st[i].born # rec.born
    PROVE  /\ Append(st, rec) \in Seq(Record)
           /\ OneIdEach(Append(st, rec)) /\ OneRowEach(Append(st, rec))
           /\ \A i \in DOMAIN Append(st, rec) :
                \/ Append(st, rec)[i] = rec
                \/ \E j \in DOMAIN st : Append(st, rec)[i] = st[j]
           /\ \A b : CellIn(Append(st, rec), b) =
                       IF b = rec.born THEN rec.cell ELSE CellIn(st, b)
<1> DEFINE tt == Append(st, rec)
           n == Len(st) + 1
<1>1. /\ tt \in Seq(Record) /\ DOMAIN tt = 1 .. n /\ DOMAIN st = 1 .. Len(st)
      /\ n \in DOMAIN tt /\ tt[n] = rec /\ n \in Nat /\ Len(st) \in Nat
      /\ \A i \in DOMAIN st : i \in DOMAIN tt /\ tt[i] = st[i] /\ i # n
      /\ \A i \in DOMAIN tt : i = n \/ i \in DOMAIN st
  OBVIOUS
<1> HIDE DEF tt, n
<1>2. OneIdEach(tt)
  BY <1>1 DEF OneIdEach
<1>3. OneRowEach(tt)
  BY <1>1 DEF OneRowEach
<1>4. \A i \in DOMAIN tt : tt[i] = rec \/ \E j \in DOMAIN st : tt[i] = st[j]
  BY <1>1
<1>5. ASSUME NEW b
      PROVE  CellIn(tt, b) = IF b = rec.born THEN rec.cell ELSE CellIn(st, b)
  <2>1. CASE b = rec.born
    BY <2>1, <1>1, <1>3, PlaceOfARow
  <2>2. CASE b # rec.born /\ \E i \in DOMAIN st : st[i].born = b
    BY <2>2, <1>1, <1>3, PlaceOfARow
  <2>3. CASE b # rec.born /\ \A i \in DOMAIN st : st[i].born # b
    <3>1. \A i \in DOMAIN tt : tt[i].born # b
      BY <2>3, <1>4
    <3> QED
      BY <2>3, <3>1, <1>1, <1>3, PlaceOfARow
  <2> QED
    BY <2>1, <2>2, <2>3
<1> QED
  BY <1>1, <1>2, <1>3, <1>4, <1>5 DEF tt

Overwritten(st, i, c) == [st EXCEPT ![i].cell = c]

LEMMA TableOverwritten ==
    ASSUME NEW st \in Seq(Record), OneIdEach(st), OneRowEach(st),
           NEW i \in DOMAIN st, NEW c \in Cells
    PROVE  LET tt == Overwritten(st, i, c)
           IN  /\ tt \in Seq(Record) /\ OneIdEach(tt) /\ OneRowEach(tt)
               /\ DOMAIN tt = DOMAIN st
               /\ \A j \in DOMAIN st : tt[j].id = st[j].id /\ tt[j].born = st[j].born
               /\ \A b : CellIn(tt, b) = IF b = st[i].born THEN c ELSE CellIn(st, b)
<1> DEFINE tt == Overwritten(st, i, c)
<1>1. /\ tt \in Seq(Record) /\ DOMAIN tt = DOMAIN st
      /\ \A j \in DOMAIN st : tt[j].id = st[j].id /\ tt[j].born = st[j].born
                                /\ (j # i => tt[j].cell = st[j].cell)
      /\ tt[i].cell = c
  <2> DEFINE r == [st[i] EXCEPT !.cell = c]
  <2>1. st[i] \in Record
    OBVIOUS
  <2>2. r \in Record /\ r.id = st[i].id /\ r.born = st[i].born /\ r.cell = c
    BY <2>1 DEF Record
  <2>3. tt = [st EXCEPT ![i] = r]
    BY DEF Overwritten
  <2> HIDE DEF r, tt
  <2>4. DOMAIN tt = DOMAIN st /\ tt[i] = r /\ \A j \in DOMAIN st : j # i => tt[j] = st[j]
    BY <2>3
  <2>5. tt \in Seq(Record)
    BY <2>2, <2>3
  <2> QED
    BY <2>2, <2>4, <2>5
<1> HIDE DEF tt
<1>2. OneIdEach(tt)
  BY <1>1 DEF OneIdEach
<1>3. OneRowEach(tt)
  BY <1>1 DEF OneRowEach
<1>5. ASSUME NEW b
      PROVE  CellIn(tt, b) = IF b = st[i].born THEN c ELSE CellIn(st, b)
  <2>1. CASE b = st[i].born
    BY <2>1, <1>1, <1>3, PlaceOfARow
  <2>2. CASE b # st[i].born /\ \E j \in DOMAIN st : st[j].born = b
    BY <2>2, <1>1, <1>3, PlaceOfARow
  <2>3. CASE b # st[i].born /\ \A j \in DOMAIN st : st[j].born # b
    <3>1. \A j \in DOMAIN tt : tt[j].born # b
      BY <2>3, <1>1
    <3> QED
      BY <2>3, <3>1, <1>1, <1>3, PlaceOfARow
  <2> QED
    BY <2>1, <2>2, <2>3
<1> QED
  BY <1>1, <1>2, <1>3, <1>5 DEF tt

LEMMA TableShortened ==
    ASSUME NEW st \in Seq(Record), OneIdEach(st), OneRowEach(st), NEW i \in DOMAIN st
    PROVE  /\ RemoveAt(st, i) \in Seq(Record)
           /\ OneIdEach(RemoveAt(st, i)) /\ OneRowEach(RemoveAt(st, i))
           /\ \A j \in DOMAIN RemoveAt(st, i) : \E k \in DOMAIN st :
                RemoveAt(st, i)[j] = st[k]
           /\ \A b : CellIn(RemoveAt(st, i), b) =
                       IF b = st[i].born THEN Absent ELSE CellIn(st, b)
<1> DEFINE tt == RemoveAt(st, i)
           Old(j) == IF j < i THEN j ELSE j + 1
<1>1. /\ tt \in Seq(Record) /\ Len(st) \in Nat /\ DOMAIN st = 1 .. Len(st) /\ i \in 1 .. Len(st)
      /\ DOMAIN tt = 1 .. (Len(st) - 1)
      /\ \A j \in DOMAIN tt : Old(j) \in DOMAIN st /\ tt[j] = st[Old(j)] /\ Old(j) # i
  <2> DEFINE front == SubSeq(st, 1, i - 1)
             back == SubSeq(st, i + 1, Len(st))
  <2>1. Len(st) \in Nat /\ DOMAIN st = 1 .. Len(st) /\ i \in 1 .. Len(st)
    OBVIOUS
  <2>2. front \in Seq(Record) /\ Len(front) = i - 1 /\ \A j \in 1 .. i - 1 : front[j] = st[j]
    BY <2>1
  <2>3. back \in Seq(Record) /\ Len(back) = Len(st) - i
    BY <2>1
  <2>4. \A j \in 1 .. Len(st) - i : back[j] = st[i + j]
    BY <2>1
  <2>5. tt = front \o back
    BY DEF RemoveAt
  <2> HIDE DEF front, back, tt
  <2>6. /\ tt \in Seq(Record) /\ Len(tt) = i - 1 + (Len(st) - i)
        /\ \A j \in 1 .. i - 1 + (Len(st) - i) :
              tt[j] = IF j <= i - 1 THEN front[j] ELSE back[j - (i - 1)]
    <3>1. /\ front \o back \in Seq(Record) /\ Len(front \o back) = Len(front) + Len(back)
          /\ \A j \in 1 .. Len(front) + Len(back) :
                (front \o back)[j] = IF j <= Len(front) THEN front[j] ELSE back[j - Len(front)]
      BY <2>2, <2>3, ConcatProperties
    <3> QED
      BY <3>1, <2>2, <2>3, <2>5, Zenon
  <2>7. \A j \in 1 .. Len(st) - 1 : tt[j] = IF j < i THEN front[j] ELSE back[j - (i - 1)]
    BY <2>1, <2>6
  <2>8. ASSUME NEW j \in 1 .. Len(st) - 1
        PROVE  Old(j) \in DOMAIN st /\ tt[j] = st[Old(j)] /\ Old(j) # i
    <3>1. CASE j < i
      BY <3>1, <2>1, <2>2, <2>7
    <3>2. CASE ~(j < i)
      <4>1. j - (i - 1) \in 1 .. Len(st) - i /\ i + (j - (i - 1)) = j + 1
        BY <3>2, <2>1
      <4> QED
        BY <3>2, <4>1, <2>1, <2>4, <2>7
    <3> QED
      BY <3>1, <3>2
  <2> QED
    BY <2>1, <2>6, <2>8
<1>2. \A j, k \in DOMAIN tt : Old(j) = Old(k) => j = k
  BY <1>1
<1>3. \A k \in DOMAIN st : k # i => \E j \in DOMAIN tt : Old(j) = k
  <2>1. SUFFICES ASSUME NEW k \in DOMAIN st, k # i
                 PROVE  \E j \in DOMAIN tt : Old(j) = k
    OBVIOUS
  <2>2. CASE k < i
    BY <2>2, <1>1
  <2>3. CASE k > i
    <3>1. k - 1 \in DOMAIN tt /\ Old(k - 1) = k
      BY <2>3, <1>1
    <3> QED
      BY <3>1
  <2> QED
    BY <2>1, <2>2, <2>3, <1>1
<1> HIDE DEF tt, Old
<1>4. OneIdEach(tt)
  BY <1>1, <1>2 DEF OneIdEach
<1>5. OneRowEach(tt)
  BY <1>1, <1>2 DEF OneRowEach
<1>6. \A j \in DOMAIN tt : \E k \in DOMAIN st : tt[j] = st[k]
  BY <1>1
<1>7. ASSUME NEW b
      PROVE  CellIn(tt, b) = IF b = st[i].born THEN Absent ELSE CellIn(st, b)
  <2>1. CASE b = st[i].born
    <3>1. \A j \in DOMAIN tt : tt[j].born # b
      BY <2>1, <1>1 DEF OneRowEach
    <3> QED
      BY <2>1, <3>1, <1>1, <1>5, PlaceOfARow
  <2>2. CASE b # st[i].born /\ \E k \in DOMAIN st : st[k].born = b
    <3>1. PICK k \in DOMAIN st : st[k].born = b
      BY <2>2
    <3>2. PICK j \in DOMAIN tt : Old(j) = k
      BY <2>2, <3>1, <1>3
    <3> QED
      BY <2>2, <3>1, <3>2, <1>1, <1>5, PlaceOfARow
  <2>3. CASE b # st[i].born /\ \A k \in DOMAIN st : st[k].born # b
    <3>1. \A j \in DOMAIN tt : tt[j].born # b
      BY <2>3, <1>6
    <3> QED
      BY <2>3, <3>1, <1>1, <1>5, PlaceOfARow
  <2> QED
    BY <2>1, <2>2, <2>3
<1> QED
  BY <1>1, <1>4, <1>5, <1>6, <1>7 DEF tt

-----------------------------------------------------------------------------
(* The ids that are given out.                                                *)

\* An id that no record has, and no larger than the rows made and one.
LEMMA NextIdIsNew ==
    ASSUME NEW n \in 0 .. MaxRows, Ids \subseteq 1 .. n
    PROVE  NextId \in 1 .. n + 1 /\ NextId \notin Ids
<1> DEFINE S == {k \in 1 .. MaxRows : \E i \in Ids : k <= i}
<1>1. n \in Nat /\ MaxRows \in Nat
  BY BackendsAssumption
<1>2. S \subseteq 1 .. n
  BY <1>1
<1>3. IsFiniteSet(1 .. n) /\ Cardinality(1 .. n) = n
  BY <1>1, FS_Interval
<1>4. IsFiniteSet(S) /\ Cardinality(S) <= n /\ Cardinality(S) \in Nat
  BY <1>2, <1>3, FS_Subset, FS_CardinalityType
<1>5. NextId = Cardinality(S) + 1
  BY DEF NextId
<1> HIDE DEF S
<1>6. ASSUME NextId \in Ids
      PROVE  FALSE
  <2> DEFINE k == Cardinality(S) + 1
  <2>1. k \in 1 .. n /\ k \in Ids /\ k \in Nat
    BY <1>1, <1>4, <1>5, <1>6
  <2> HIDE DEF k
  <2>2. 1 .. k \subseteq S
    <3>1. ASSUME NEW x \in 1 .. k
          PROVE  x \in 1 .. MaxRows /\ x <= k
      BY <1>1, <2>1, <3>1
    <3> QED
      BY <2>1, <3>1 DEF S
  <2>3. IsFiniteSet(1 .. k) /\ Cardinality(1 .. k) = k
    BY <2>1, FS_Interval
  <2>4. Cardinality(1 .. k) <= Cardinality(S)
    BY <1>4, <2>2, FS_Subset
  <2> QED
    BY <1>4, <2>3, <2>4 DEF k
<1> QED
  BY <1>1, <1>4, <1>5, <1>6

-----------------------------------------------------------------------------
(* The invariant.                                                             *)

Ops == {"none", "insert", "update", "delete"}
ObjectType == [row : Rows \cup {0}, id : Rows \cup {0}, sql : Cells, mem : Cells,
               op : Ops, wrote : BOOLEAN, saved : BOOLEAN]
ReadType == [row : Rows \cup {0}, sql : Cells \cup {Absent}, mem : Cells \cup {Absent}]

Typed ==
    /\ store \in Seq(Record)
    /\ db \in [Rows -> Cells \cup {Absent}]
    /\ at \in [Sessions -> {"closed", "open", "failed"}]
    /\ obj \in [Sessions -> ObjectType]
    /\ flushed \in [Sessions -> Ops]
    /\ read \in [Sessions -> ReadType]
    /\ issued \in [Rows -> Rows \cup {0}]
    /\ blame \in [Rows -> SUBSET {"shared", "reissued", "unsaved", "undone"}]
    /\ strays \in SUBSET (Rows \X Rows)

\* Rows are made in order, an id is given out below them, and two rows that
\* were given the same one know.
IdsGiven ==
    /\ \A b \in Rows : issued[b] <= b
    /\ \A a, b \in Rows : a < b /\ issued[b] # 0 => issued[a] # 0
    /\ \A a, b \in Made : a # b /\ issued[a] = issued[b] =>
         "reissued" \in blame[a] /\ "reissued" \in blame[b]
    /\ \A b \in Rows : db[b] # Absent => b \in Made

\* A record has the id its row was given, and no other record has.
RecordsKept ==
    /\ OneIdEach(store)
    /\ \A i \in DOMAIN store : store[i].id = issued[store[i].born]

\* An object has the id its row was given; nothing is left of it in a closed
\* session.
ObjectsKept ==
    \A s \in Sessions :
        /\ obj[s].row = 0 => obj[s] = NoObject
        /\ obj[s].row # 0 => obj[s].row \in Made /\ obj[s].id = issued[obj[s].row]
        /\ at[s] = "closed" => obj[s] = NoObject
        /\ flushed[s] \in {"none", obj[s].op}
        /\ obj[s].op # "update" => obj[s].saved
        /\ obj[s].mem = obj[s].sql \/ obj[s].op \in {"none", "delete"}

StraysKept ==
    \A p \in strays : /\ p[1] \in Made /\ p[2] \in Made /\ p[1] # p[2]
                      /\ issued[p[1]] = issued[p[2]]

ReadsAgree ==
    \A s \in Sessions : read[s] # NoRead =>
        /\ read[s].row \in Rows
        /\ blame[read[s].row] = {} => read[s].sql = read[s].mem

\* What the memory store and the database hold of a row that the session s,
\* and no other, is working on.
Work(s, b) ==
    /\ obj[s].op = "none" \/ ~obj[s].saved =>
         ~obj[s].wrote /\ StoredCell(b) = db[b] /\ db[b] # Absent
    /\ obj[s].op \in {"insert", "update"} /\ obj[s].saved =>
         obj[s].wrote /\ StoredCell(b) = obj[s].sql
    /\ obj[s].op = "delete" => obj[s].wrote /\ StoredCell(b) = Absent

\* A row without a reason to differ has at most one session at work on it.
RowsAgree ==
    \A b \in Rows : blame[b] = {} =>
        /\ \A s, t \in Sessions : obj[s].row = b /\ obj[t].row = b => s = t
        /\ (\A s \in Sessions : obj[s].row # b) => StoredCell(b) = db[b]
        /\ \A s \in Sessions : obj[s].row = b => Work(s, b)

BackendsInv ==
    /\ Typed /\ IdsGiven /\ RecordsKept /\ ObjectsKept
    /\ StraysKept /\ ReadsAgree /\ RowsAgree

LEMMA OneRecordARow ==
    ASSUME Typed, RecordsKept
    PROVE  OneRowEach(store)
<1>1. SUFFICES ASSUME NEW i \in DOMAIN store, NEW j \in DOMAIN store, store[i].born = store[j].born
               PROVE  i = j
  BY DEF OneRowEach
<1>2. store[i].id = store[j].id
  BY <1>1 DEF RecordsKept
<1> QED
  BY <1>2 DEF RecordsKept, OneIdEach

\* The operators of the model say the same as those of this module.
LEMMA OfTheStore ==
    /\ \A b : StoredCell(b) = CellIn(store, b)
    /\ \A b : StoredCell(b)' = CellIn(store', b)
    /\ \A id : PlaceOf(id) = PlaceOfIn(store, id)
<1>1. \A b : StoredCell(b) = CellIn(store, b)
  BY DEF StoredCell, CellIn, PlaceIn
<1>2. \A b : StoredCell(b)' = CellIn(store', b)
  BY DEF StoredCell, CellIn, PlaceIn, SelectInSeq
<1>3. \A id : PlaceOf(id) = PlaceOfIn(store, id)
  BY DEF PlaceOf, PlaceOfIn
<1> QED
  BY <1>1, <1>2, <1>3

\* The rows made are the first ones.
LEMMA MadeAreTheFirst ==
    ASSUME Typed, IdsGiven
    PROVE  \E n \in 0 .. MaxRows : Cardinality(Made) = n /\ Made = 1 .. n
<1> DEFINE n == Cardinality(Made)
<1>1. MaxRows \in Nat /\ Rows = 1 .. MaxRows /\ Made \subseteq Rows
  BY BackendsAssumption DEF Rows, Made
<1>2. IsFiniteSet(Rows) /\ Cardinality(Rows) = MaxRows
  BY <1>1, FS_Interval
<1>3. IsFiniteSet(Made) /\ n \in Nat /\ n <= MaxRows
  BY <1>1, <1>2, FS_Subset, FS_CardinalityType
<1>4. \A m \in Made : 1 .. m \subseteq Made
  BY <1>1 DEF IdsGiven, Made
<1> HIDE DEF n
<1>5. ASSUME NEW m \in Made
      PROVE  m \in 1 .. n
  <2>1. m \in Nat /\ 1 <= m
    BY <1>1
  <2>2. IsFiniteSet(1 .. m) /\ Cardinality(1 .. m) = m
    BY <2>1, FS_Interval
  <2>3. Cardinality(1 .. m) <= n
    BY <1>3, <1>4, FS_Subset DEF n
  <2> QED
    BY <1>3, <2>1, <2>2, <2>3
<1>6. IsFiniteSet(1 .. n) /\ Cardinality(1 .. n) = n
  BY <1>3, FS_Interval
<1>7. Made = 1 .. n
  <2>1. Made \in SUBSET (1 .. n) /\ Cardinality(1 .. n) = Cardinality(Made)
    BY <1>5, <1>6 DEF n
  <2> QED
    BY <2>1, <1>6, FS_Subset
<1> QED
  BY <1>1, <1>3, <1>7 DEF n

\* The record with the id of a row that shares it with none is of that row.
LEMMA RecordOfItsOwn ==
    ASSUME Typed, IdsGiven, RecordsKept,
           NEW b \in Made, blame[b] = {}, NEW i \in DOMAIN store, store[i].id = issued[b]
    PROVE  store[i].born = b
<1>1. store[i] \in Record
  BY DEF Typed
<1>2. store[i].born \in Rows /\ issued[store[i].born] = issued[b]
  BY <1>1 DEF RecordsKept, Record
<1>3. store[i].born \in Made
  BY <1>2 DEF Made
<1> QED
  BY <1>2, <1>3 DEF IdsGiven

\* A row's record, if there is one, is found by its id.
LEMMA FoundById ==
    ASSUME Typed, IdsGiven, RecordsKept, NEW b \in Made, blame[b] = {}
    PROVE  /\ MemoryCell(issued[b]) = StoredCell(b)
           /\ StoredCell(b) \in Cells \cup {Absent}
           /\ StoredCell(b) = Absent <=> PlaceOf(issued[b]) = 0
           /\ PlaceOf(issued[b]) # 0 => /\ PlaceOf(issued[b]) \in DOMAIN store
                                        /\ store[PlaceOf(issued[b])].born = b
<1>1. OneRowEach(store) /\ OneIdEach(store) /\ store \in Seq(Record)
  BY OneRecordARow DEF RecordsKept, Typed
<1>2. \A i \in DOMAIN store : store[i] \in Record /\ i # 0
  BY <1>1
<1>3. CASE \E i \in DOMAIN store : store[i].born = b
  <2>1. PICK i \in DOMAIN store : store[i].born = b
    BY <1>3
  <2>2. store[i].id = issued[b]
    BY <2>1 DEF RecordsKept
  <2>3. PlaceOf(issued[b]) = i
    BY <1>1, <2>2, PlaceOfAnId, OfTheStore
  <2>4. StoredCell(b) = store[i].cell
    BY <1>1, <2>1, PlaceOfARow, OfTheStore
  <2>5. store[i].cell \in Cells /\ store[i].cell # Absent
    BY <1>2, BackendsAssumption DEF Record, Cells
  <2> QED
    BY <1>2, <2>1, <2>3, <2>4, <2>5 DEF MemoryCell
<1>4. CASE \A i \in DOMAIN store : store[i].born # b
  <2>1. \A i \in DOMAIN store : store[i].id # issued[b]
    BY <1>4, RecordOfItsOwn
  <2>2. PlaceOf(issued[b]) = 0
    BY <1>1, <2>1, PlaceOfAnId, OfTheStore
  <2>3. StoredCell(b) = Absent
    BY <1>1, <1>4, PlaceOfARow, OfTheStore
  <2> QED
    BY <2>2, <2>3 DEF MemoryCell
<1> QED
  BY <1>3, <1>4

LEMMA BackendsInit ==
    ASSUME Init
    PROVE  BackendsInv
<1> USE DEF Init
<1>1. MaxRows \in Nat
  BY BackendsAssumption
<1>2. NoObject \in ObjectType /\ NoRead \in ReadType
  BY DEF NoObject, NoRead, ObjectType, ReadType, Ops, Cells
<1>3. Typed
  BY <1>2 DEF Typed, Ops
<1>4. Made = {} /\ IdsGiven
  BY <1>1 DEF Made, IdsGiven, Rows
<1>5. RecordsKept /\ StraysKept
  BY DEF RecordsKept, OneIdEach, StraysKept
<1>6. ObjectsKept
  BY DEF ObjectsKept, NoObject
<1>7. ReadsAgree
  BY DEF ReadsAgree
<1>8. RowsAgree
  <2>1. OneRowEach(store)
    BY <1>3, <1>5, OneRecordARow
  <2>2. \A b : CellIn(store, b) = Absent
    <3>1. store \in Seq(Record) /\ \A i \in DOMAIN store : FALSE
      OBVIOUS
    <3> QED
      BY <3>1, <2>1, PlaceOfARow
  <2>3. \A b \in Rows : StoredCell(b) = db[b]
    BY <2>2, OfTheStore
  <2>4. \A s \in Sessions, b \in Rows : obj[s].row # b
    BY <1>1 DEF NoObject, Rows
  <2> QED
    BY <2>3, <2>4 DEF RowsAgree
<1> QED
  BY <1>3, <1>4, <1>5, <1>6, <1>7, <1>8 DEF BackendsInv

-----------------------------------------------------------------------------
(* The steps.                                                                 *)

BlameGrows == \A b \in Rows : blame[b] \subseteq blame'[b]

LEMMA BlameIsKept ==
    ASSUME Typed, BlameGrows, NEW b \in Rows, blame'[b] = {}
    PROVE  blame[b] = {}
BY DEF BlameGrows

\* What was given out stays as it is when nothing new is, and a row comes to
\* the database only when it was made.
LEMMA IdsStay ==
    ASSUME Typed, IdsGiven, BlameGrows, issued' = issued,
           \A b \in Rows : db'[b] # Absent => db[b] # Absent \/ b \in Made
    PROVE  IdsGiven' /\ Made' = Made
<1>1. Made' = Made
  BY DEF Made
<1>2. Made \subseteq Rows
  BY DEF Made
<1>3. \A a, b \in Made' : a # b /\ issued'[a] = issued'[b] =>
        "reissued" \in blame'[a] /\ "reissued" \in blame'[b]
  BY <1>1, <1>2 DEF IdsGiven, BlameGrows
<1>4. \A b \in Rows : db'[b] # Absent => b \in Made'
  BY <1>1 DEF IdsGiven
<1> QED
  BY <1>1, <1>3, <1>4 DEF IdsGiven

LEMMA ReadsStay ==
    ASSUME ReadsAgree, BlameGrows, \A s \in Sessions : read'[s] \in {read[s], NoRead}
    PROVE  ReadsAgree'
<1>1. SUFFICES ASSUME NEW s \in Sessions, read'[s] # NoRead
               PROVE  /\ read'[s].row \in Rows
                      /\ blame'[read'[s].row] = {} => read'[s].sql = read'[s].mem
  BY DEF ReadsAgree
<1>2. read'[s] = read[s] /\ read[s].row \in Rows
  BY <1>1 DEF ReadsAgree
<1>3. blame[read[s].row] \subseteq blame'[read[s].row]
  BY <1>2 DEF BlameGrows
<1> QED
  BY <1>1, <1>2, <1>3 DEF ReadsAgree

LEMMA RowsStay ==
    ASSUME RowsAgree, UNCHANGED <<store, db, obj, blame>>
    PROVE  RowsAgree'
<1>1. \A b : StoredCell(b)' = StoredCell(b)
  BY OfTheStore
<1>2. ASSUME NEW s \in Sessions, NEW b \in Rows, Work(s, b)
      PROVE  Work(s, b)'
  BY <1>1, <1>2 DEF Work
<1> QED
  BY <1>1, <1>2 DEF RowsAgree

LEMMA OpenStep ==
    ASSUME BackendsInv, NEW s \in Sessions, Open(s)
    PROVE  BackendsInv'
<1> USE DEF BackendsInv
<1>1. BlameGrows
  BY DEF Open, BlameGrows
<1>2. Typed'
  BY DEF Typed, Open
<1>3. IdsGiven' /\ Made' = Made
  BY <1>1, IdsStay DEF Open
<1>4. RecordsKept' /\ StraysKept'
  BY <1>3 DEF Open, RecordsKept, StraysKept, OneIdEach
<1>5. ObjectsKept'
  BY <1>3 DEF Open, ObjectsKept, Typed
<1>6. ReadsAgree'
  BY <1>1, ReadsStay DEF Open
<1>7. RowsAgree'
  BY RowsStay DEF Open
<1> QED
  BY <1>2, <1>3, <1>4, <1>5, <1>6, <1>7

LEMMA FlushStep ==
    ASSUME BackendsInv, NEW s \in Sessions, Flush(s)
    PROVE  BackendsInv'
<1> USE DEF BackendsInv
<1>0. UNCHANGED <<store, db, obj, read, issued, blame, strays>>
  BY DEF Flush
<1>1. BlameGrows
  BY <1>0 DEF BlameGrows
<1>2. Typed'
  <2>1. obj[s].op \in Ops
    BY DEF Typed, ObjectType
  <2>2. at' \in [Sessions -> {"closed", "open", "failed"}] /\ flushed' \in [Sessions -> Ops]
    BY <2>1 DEF Typed, Flush
  <2> QED
    BY <1>0, <2>2 DEF Typed
<1>3. IdsGiven' /\ Made' = Made
  BY <1>0, <1>1, IdsStay
<1>4. RecordsKept' /\ StraysKept'
  BY <1>0, <1>3 DEF RecordsKept, StraysKept, OneIdEach
<1>5. ObjectsKept'
  <2>1. SUFFICES ASSUME NEW q \in Sessions
                 PROVE  /\ at'[q] = "closed" => obj[q] = NoObject
                        /\ flushed'[q] \in {"none", obj[q].op}
    BY <1>0, <1>3 DEF ObjectsKept
  <2> QED
    BY DEF Flush, ObjectsKept, Typed
<1>6. ReadsAgree'
  BY <1>0, <1>1, ReadsStay
<1>7. RowsAgree'
  BY <1>0, RowsStay
<1> QED
  BY <1>2, <1>3, <1>4, <1>5, <1>6, <1>7

\* An object that is changed stays the object of its row.
LEMMA EditStep ==
    ASSUME BackendsInv, NEW s \in Sessions, NEW c \in Cells, Edit(s, c)
    PROVE  BackendsInv'
<1> USE DEF BackendsInv
<1> DEFINE o == [obj[s] EXCEPT !.sql = c, !.mem = c, !.op = "update", !.saved = FALSE]
<1>0. UNCHANGED <<store, db, at, flushed, read, issued, blame, strays>>
  BY DEF Edit
<1>1. BlameGrows
  BY <1>0 DEF BlameGrows
<1>2. /\ obj' = [obj EXCEPT ![s] = o]
      /\ obj[s].op = "none" /\ obj[s].row # 0 /\ at[s] = "open"
  BY DEF Edit, Typed
<1>3. /\ o \in ObjectType /\ o.row = obj[s].row /\ o.id = obj[s].id /\ o.sql = c /\ o.mem = c
      /\ o.op = "update" /\ o.saved = FALSE /\ o.wrote = obj[s].wrote
  <2>1. obj[s] \in ObjectType
    BY DEF Typed
  <2> QED
    BY <2>1 DEF ObjectType, Ops
<1> HIDE DEF o
<1>4. obj'[s] = o /\ \A q \in Sessions \ {s} : obj'[q] = obj[q]
  BY <1>2 DEF Typed
<1>5. Typed'
  BY <1>0, <1>2, <1>3 DEF Typed
<1>6. IdsGiven' /\ Made' = Made
  BY <1>0, <1>1, IdsStay
<1>7. RecordsKept' /\ StraysKept'
  BY <1>0, <1>6 DEF RecordsKept, StraysKept, OneIdEach
<1>8. ObjectsKept'
  <2>1. ASSUME NEW q \in Sessions, q # s
        PROVE  /\ obj'[q].row = 0 => obj'[q] = NoObject
               /\ obj'[q].row # 0 => obj'[q].row \in Made' /\ obj'[q].id = issued'[obj'[q].row]
               /\ at'[q] = "closed" => obj'[q] = NoObject
               /\ flushed'[q] \in {"none", obj'[q].op}
               /\ obj'[q].op # "update" => obj'[q].saved
               /\ obj'[q].mem = obj'[q].sql \/ obj'[q].op \in {"none", "delete"}
    BY <1>0, <1>4, <1>6, <2>1 DEF ObjectsKept
  <2>2. /\ o.row # 0 /\ o.row \in Made' /\ o.id = issued'[o.row]
        /\ at'[s] # "closed" /\ flushed'[s] \in {"none", o.op}
    BY <1>0, <1>2, <1>3, <1>6 DEF ObjectsKept
  <2> QED
    BY <1>3, <1>4, <2>1, <2>2 DEF ObjectsKept
<1>9. ReadsAgree'
  BY <1>0, <1>1, ReadsStay
<1>10. RowsAgree'
  <2>1. \A b : StoredCell(b)' = StoredCell(b)
    BY <1>0, OfTheStore
  <2>2. \A q \in Sessions : obj'[q].row = obj[q].row
    BY <1>3, <1>4
  <2>3. ASSUME NEW q \in Sessions, NEW b \in Rows, obj[q].row = b, Work(q, b)
        PROVE  Work(q, b)'
    <3>1. CASE q # s
      BY <3>1, <2>3, <1>0, <1>4, <2>1 DEF Work
    <3>2. CASE q = s
      <4>1. ~obj[s].wrote /\ StoredCell(b) = db[b] /\ db[b] # Absent
        BY <3>2, <2>3, <1>2 DEF Work
      <4> QED
        BY <3>2, <4>1, <1>0, <1>3, <1>4, <2>1 DEF Work
    <3> QED
      BY <3>1, <3>2
  <2> QED
    BY <1>0, <2>1, <2>2, <2>3 DEF RowsAgree
<1> QED
  BY <1>5, <1>6, <1>7, <1>8, <1>9, <1>10

\* A write through an object's id hits another row only if that was given
\* the same id.
LEMMA StrayIsShared ==
    ASSUME Typed, IdsGiven, RecordsKept, ObjectsKept, NEW s \in Sessions, obj[s].row # 0
    PROVE  \A p \in Stray(obj[s]) :
             /\ p \in Rows \X Rows /\ p[1] \in Made /\ p[2] \in Made /\ p[1] # p[2]
             /\ issued[p[1]] = issued[p[2]]
<1>1. SUFFICES ASSUME NEW j \in DOMAIN store, store[j].id = obj[s].id, store[j].born # obj[s].row
               PROVE  /\ obj[s].row \in Made /\ store[j].born \in Made
                      /\ issued[obj[s].row] = issued[store[j].born]
  BY DEF Stray, Made
<1>2. obj[s].row \in Made /\ obj[s].id = issued[obj[s].row]
  BY DEF ObjectsKept
<1>3. store[j] \in Record
  BY DEF Typed
<1>4. store[j].born \in Rows /\ store[j].id \in Rows /\ store[j].id = issued[store[j].born]
  BY <1>3 DEF RecordsKept, Record
<1>5. store[j].born \in Made
  BY <1>4, BackendsAssumption DEF Made, Rows
<1> QED
  BY <1>1, <1>2, <1>4, <1>5

\* The store after an object was added again: what it held but for the
\* record of the object's row, if the row has no reason to differ.
LEMMA PutKeepsRecords ==
    ASSUME Typed, IdsGiven, RecordsKept, ObjectsKept, NEW s \in Sessions, obj[s].row # 0,
           NEW st, st = Put(obj[s])
    PROVE  /\ st \in Seq(Record) /\ OneIdEach(st)
           /\ \A i \in DOMAIN st : st[i].id = issued[st[i].born]
           /\ \A b \in Made : blame[b] = {} =>
                CellIn(st, b) = IF b = obj[s].row THEN obj[s].mem ELSE StoredCell(b)
<1> DEFINE o == obj[s]
           rec == [id |-> o.id, born |-> o.row, cell |-> o.mem]
<1>1. /\ o \in ObjectType /\ o.row \in Made /\ o.row \in Rows /\ o.id = issued[o.row]
      /\ o.id \in Rows /\ o.mem \in Cells
  <2>1. o \in ObjectType /\ o.row \in Made /\ o.id = issued[o.row]
    BY DEF ObjectsKept, Typed
  <2>2. o.row \in Rows /\ issued[o.row] # 0
    BY <2>1 DEF Made
  <2>3. o.mem \in Cells /\ o.id \in Rows \cup {0}
    BY <2>1 DEF ObjectType
  <2> QED
    BY <2>1, <2>2, <2>3
<1>2. rec \in Record /\ rec.id = o.id /\ rec.born = o.row /\ rec.cell = o.mem
  BY <1>1 DEF Record
<1>3. OneRowEach(store) /\ OneIdEach(store) /\ store \in Seq(Record)
  BY OneRecordARow DEF RecordsKept, Typed
<1>4. \A b : StoredCell(b) = CellIn(store, b)
  BY OfTheStore
<1>5. st = IF PlaceOf(o.id) = 0 THEN Append(store, rec)
           ELSE [store EXCEPT ![PlaceOf(o.id)].cell = o.mem]
  BY DEF Put
<1> HIDE DEF o, rec
<1>6. CASE \A i \in DOMAIN store : store[i].id # o.id
  <2>1. PlaceOf(o.id) = 0
    BY <1>3, <1>6, PlaceOfAnId, OfTheStore
  <2>2. \A i \in DOMAIN store : store[i].id # rec.id /\ store[i].born # rec.born
    BY <1>1, <1>2, <1>6 DEF RecordsKept
  <2>3. st = Append(store, rec)
    BY <1>5, <2>1
  <2>4. /\ st \in Seq(Record) /\ OneIdEach(st)
        /\ \A i \in DOMAIN st : st[i] = rec \/ \E j \in DOMAIN store : st[i] = store[j]
        /\ \A b : CellIn(st, b) = IF b = rec.born THEN rec.cell ELSE CellIn(store, b)
    BY <1>2, <1>3, <2>2, <2>3, TableAppended
  <2>5. \A i \in DOMAIN st : st[i].id = issued[st[i].born]
    BY <1>1, <1>2, <2>4 DEF RecordsKept
  <2> QED
    BY <1>2, <1>4, <2>4, <2>5 DEF o
<1>7. ASSUME NEW i \in DOMAIN store, store[i].id = o.id
      PROVE  /\ st \in Seq(Record) /\ OneIdEach(st)
             /\ \A k \in DOMAIN st : st[k].id = issued[st[k].born]
             /\ \A b \in Made : blame[b] = {} =>
                  CellIn(st, b) = IF b = o.row THEN o.mem ELSE StoredCell(b)
  <2>1. PlaceOf(o.id) = i /\ i # 0
    BY <1>3, <1>7, PlaceOfAnId, OfTheStore
  <2>2. st = Overwritten(store, i, o.mem)
    BY <1>5, <2>1 DEF Overwritten
  <2>3. /\ st \in Seq(Record) /\ OneIdEach(st) /\ DOMAIN st = DOMAIN store
        /\ \A j \in DOMAIN store : st[j].id = store[j].id /\ st[j].born = store[j].born
        /\ \A b : CellIn(st, b) = IF b = store[i].born THEN o.mem ELSE CellIn(store, b)
    <3> DEFINE tt == Overwritten(store, i, o.mem)
    <3>1. /\ tt \in Seq(Record) /\ OneIdEach(tt) /\ DOMAIN tt = DOMAIN store
          /\ \A j \in DOMAIN store : tt[j].id = store[j].id /\ tt[j].born = store[j].born
          /\ \A b : CellIn(tt, b) = IF b = store[i].born THEN o.mem ELSE CellIn(store, b)
      <4>1. o.mem \in Cells
        BY <1>1
      <4> QED
        BY <1>3, <4>1, TableOverwritten
    <3> HIDE DEF tt
    <3>2. st = tt
      BY <2>2 DEF tt
    <3> QED
      BY <3>1, <3>2
  <2>4. \A k \in DOMAIN st : st[k].id = issued[st[k].born]
    BY <2>3 DEF RecordsKept
  <2>5. ASSUME NEW b \in Made, blame[b] = {}
        PROVE  CellIn(st, b) = IF b = o.row THEN o.mem ELSE StoredCell(b)
    <3>1. CASE b = o.row
      <4>1. store[i].born = b
        BY <1>1, <1>7, <2>5, <3>1, RecordOfItsOwn
      <4> QED
        BY <2>3, <3>1, <4>1
    <3>2. CASE b # o.row
      <4>1. store[i].id # issued[b]
        BY <1>1, <1>7, <2>5, <3>2 DEF IdsGiven
      <4>2. store[i].born # b
        BY <4>1 DEF RecordsKept
      <4> QED
        BY <1>4, <2>3, <3>2, <4>2
    <3> QED
      BY <3>1, <3>2
  <2> QED
    BY <2>3, <2>4, <2>5
<1> QED
  BY <1>6, <1>7 DEF o

\* The same after an object was deleted.
LEMMA WithoutKeepsRecords ==
    ASSUME Typed, IdsGiven, RecordsKept, ObjectsKept, NEW s \in Sessions, obj[s].row # 0,
           NEW st, st = Without(obj[s].id)
    PROVE  /\ st \in Seq(Record) /\ OneIdEach(st)
           /\ \A i \in DOMAIN st : st[i].id = issued[st[i].born]
           /\ \A b \in Made : blame[b] = {} =>
                CellIn(st, b) = IF b = obj[s].row THEN Absent ELSE StoredCell(b)
<1> DEFINE o == obj[s]
<1>1. o.row \in Made /\ o.id = issued[o.row]
  BY DEF ObjectsKept
<1>3. OneRowEach(store) /\ OneIdEach(store) /\ store \in Seq(Record)
  BY OneRecordARow DEF RecordsKept, Typed
<1>4. \A b : StoredCell(b) = CellIn(store, b)
  BY OfTheStore
<1>5. st = IF PlaceOf(o.id) = 0 THEN store ELSE RemoveAt(store, PlaceOf(o.id))
  BY DEF Without
<1> HIDE DEF o
<1>6. CASE \A i \in DOMAIN store : store[i].id # o.id
  <2>1. st = store
    BY <1>3, <1>5, <1>6, PlaceOfAnId, OfTheStore
  <2>2. \A i \in DOMAIN store : store[i].born # o.row
    BY <1>1, <1>6 DEF RecordsKept
  <2>3. CellIn(st, o.row) = Absent
    BY <1>3, <2>1, <2>2, PlaceOfARow
  <2> QED
    BY <1>3, <1>4, <2>1, <2>3 DEF RecordsKept, o
<1>7. ASSUME NEW i \in DOMAIN store, store[i].id = o.id
      PROVE  /\ st \in Seq(Record) /\ OneIdEach(st)
             /\ \A k \in DOMAIN st : st[k].id = issued[st[k].born]
             /\ \A b \in Made : blame[b] = {} =>
                  CellIn(st, b) = IF b = o.row THEN Absent ELSE StoredCell(b)
  <2>1. PlaceOf(o.id) = i /\ i # 0
    BY <1>3, <1>7, PlaceOfAnId, OfTheStore
  <2>2. st = RemoveAt(store, i)
    BY <1>5, <2>1
  <2>3. /\ st \in Seq(Record) /\ OneIdEach(st)
        /\ \A j \in DOMAIN st : \E k \in DOMAIN store : st[j] = store[k]
        /\ \A b : CellIn(st, b) = IF b = store[i].born THEN Absent ELSE CellIn(store, b)
    BY <1>3, <2>2, TableShortened
  <2>4. \A k \in DOMAIN st : st[k].id = issued[st[k].born]
    BY <2>3 DEF RecordsKept
  <2>5. ASSUME NEW b \in Made, blame[b] = {}
        PROVE  CellIn(st, b) = IF b = o.row THEN Absent ELSE StoredCell(b)
    <3>1. CASE b = o.row
      <4>1. store[i].born = b
        BY <1>1, <1>7, <2>5, <3>1, RecordOfItsOwn
      <4> QED
        BY <2>3, <3>1, <4>1
    <3>2. CASE b # o.row
      <4>1. store[i].id # issued[b]
        BY <1>1, <1>7, <2>5, <3>2 DEF IdsGiven
      <4>2. store[i].born # b
        BY <4>1 DEF RecordsKept
      <4> QED
        BY <1>4, <2>3, <3>2, <4>2
    <3> QED
      BY <3>1, <3>2
  <2> QED
    BY <2>3, <2>4, <2>5
<1> QED
  BY <1>6, <1>7 DEF o

\* A write to the store for the object of one session, which then stands
\* where `o' says, keeps the invariant: it is the same for adding again and
\* for deleting.
LEMMA WriteStep ==
    ASSUME BackendsInv, NEW s \in Sessions, NEW o \in ObjectType,
           obj[s].row # 0, at[s] # "closed", o.row = obj[s].row, o.id = obj[s].id,
           o.wrote, o.saved, o.op = "update" \/ o.op = "delete",
           o.op = "update" => o.mem = o.sql, flushed[s] \in {"none", o.op},
           obj' = [obj EXCEPT ![s] = o], strays' = strays \cup Stray(obj[s]),
           UNCHANGED <<db, at, flushed, read, issued, blame>>,
           store' \in Seq(Record), OneIdEach(store'),
           \A i \in DOMAIN store' : store'[i].id = issued[store'[i].born],
           \A b \in Made : blame[b] = {} =>
             CellIn(store', b) = IF b # o.row THEN StoredCell(b)
                                 ELSE IF o.op = "update" THEN o.sql ELSE Absent
    PROVE  BackendsInv'
<1> USE DEF BackendsInv
<1>1. BlameGrows
  BY DEF BlameGrows
<1>4. obj'[s] = o /\ \A q \in Sessions \ {s} : obj'[q] = obj[q]
  BY DEF Typed
<1>2. \A p \in Stray(obj[s]) :
             /\ p \in Rows \X Rows /\ p[1] \in Made /\ p[2] \in Made /\ p[1] # p[2]
             /\ issued[p[1]] = issued[p[2]]
  BY StrayIsShared
<1>5. Typed'
  <2>1. strays' \in SUBSET (Rows \X Rows)
    BY <1>2 DEF Typed
  <2>2. obj' \in [Sessions -> ObjectType]
    BY DEF Typed
  <2> QED
    BY <2>1, <2>2 DEF Typed
<1>6. IdsGiven' /\ Made' = Made
  BY <1>1, IdsStay
<1>7. RecordsKept'
  BY DEF RecordsKept
<1>3. StraysKept'
  BY <1>2, <1>6 DEF StraysKept
<1>8. ObjectsKept'
  <2>1. ASSUME NEW q \in Sessions, q # s
        PROVE  /\ obj'[q].row = 0 => obj'[q] = NoObject
               /\ obj'[q].row # 0 => obj'[q].row \in Made' /\ obj'[q].id = issued'[obj'[q].row]
               /\ at'[q] = "closed" => obj'[q] = NoObject
               /\ flushed'[q] \in {"none", obj'[q].op}
               /\ obj'[q].op # "update" => obj'[q].saved
               /\ obj'[q].mem = obj'[q].sql \/ obj'[q].op \in {"none", "delete"}
    BY <1>4, <1>6, <2>1 DEF ObjectsKept
  <2>2. /\ o.row # 0 /\ o.row \in Made' /\ o.id = issued'[o.row]
        /\ at'[s] # "closed" /\ flushed'[s] \in {"none", o.op}
    BY <1>6 DEF ObjectsKept
  <2> QED
    BY <1>4, <2>1, <2>2 DEF ObjectsKept
<1>9. ReadsAgree'
  BY <1>1, ReadsStay
<1>10. RowsAgree'
  <2>1. \A b \in Made : blame[b] = {} =>
          StoredCell(b)' = IF b # o.row THEN StoredCell(b)
                           ELSE IF o.op = "update" THEN o.sql ELSE Absent
    BY OfTheStore
  <2>2. \A q \in Sessions : obj'[q].row = obj[q].row
    BY <1>4
  <2>3. ASSUME NEW b \in Rows, b \notin Made
        PROVE  /\ \A q \in Sessions : obj[q].row # b
               /\ StoredCell(b)' = db[b]
    <3>1. db[b] = Absent
      BY <2>3 DEF IdsGiven
    <3>2. \A i \in DOMAIN store' : store'[i].born # b
      <4>1. ASSUME NEW i \in DOMAIN store', store'[i].born = b
            PROVE  FALSE
        <5>1. store'[i] \in Record
          OBVIOUS
        <5>2. issued[b] # 0
          BY <4>1, <5>1, BackendsAssumption DEF Record, Rows
        <5> QED
          BY <2>3, <5>2 DEF Made
      <4> QED
        BY <4>1
    <3>3. OneRowEach(store')
      BY <1>5, <1>7, OneRecordARow DEF OneRowEach, OneIdEach, RecordsKept
    <3>4. CellIn(store', b) = Absent
      BY <3>2, <3>3, PlaceOfARow
    <3>5. b # 0
      BY BackendsAssumption DEF Rows
    <3> QED
      BY <2>3, <3>1, <3>4, <3>5, OfTheStore DEF ObjectsKept
  <2>4. ASSUME NEW b \in Made, blame[b] = {}, NEW q \in Sessions, obj[q].row = b
        PROVE  Work(q, b)'
    <3>0. b \in Rows
      BY DEF Made
    <3>1. CASE q = s
      <4>1. StoredCell(b)' = IF o.op = "update" THEN o.sql ELSE Absent
        BY <2>1, <2>4, <3>1
      <4> QED
        BY <3>1, <4>1, <1>4 DEF Work
    <3>2. CASE q # s
      <4>1. b # o.row /\ Work(q, b)
        BY <2>4, <3>0, <3>2 DEF RowsAgree
      <4>2. StoredCell(b)' = StoredCell(b)
        BY <2>1, <2>4, <4>1
      <4> QED
        BY <3>2, <4>1, <4>2, <1>4 DEF Work
    <3> QED
      BY <3>1, <3>2
  <2>5. ASSUME NEW b \in Rows, blame[b] = {}
        PROVE  /\ \A q, v \in Sessions : obj[q].row = b /\ obj[v].row = b => q = v
               /\ (\A q \in Sessions : obj[q].row # b) => StoredCell(b)' = db[b]
               /\ \A q \in Sessions : obj[q].row = b => Work(q, b)'
    <3>1. CASE b \in Made
      <4>1. b # o.row => StoredCell(b)' = StoredCell(b)
        BY <2>1, <2>5, <3>1
      <4> QED
        BY <2>4, <2>5, <3>1, <4>1 DEF RowsAgree
    <3>2. CASE b \notin Made
      BY <2>3, <3>2
    <3> QED
      BY <3>1, <3>2
  <2> QED
    BY <2>2, <2>5 DEF RowsAgree
<1> QED
  BY <1>3, <1>5, <1>6, <1>7, <1>8, <1>9, <1>10

LEMMA AddAgainStep ==
    ASSUME BackendsInv, NEW s \in Sessions, AddAgain(s)
    PROVE  BackendsInv'
<1> DEFINE o == [obj[s] EXCEPT !.saved = TRUE, !.wrote = TRUE]
<1>1. obj[s] \in ObjectType /\ obj[s].op = "update" /\ at[s] # "closed"
  BY DEF AddAgain, BackendsInv, Typed
<1>2. obj[s].row # 0 /\ obj[s].mem = obj[s].sql
  BY <1>1 DEF BackendsInv, ObjectsKept, NoObject
<1>3. /\ o \in ObjectType /\ o.row = obj[s].row /\ o.id = obj[s].id /\ o.sql = obj[s].sql
      /\ o.mem = obj[s].mem /\ o.op = obj[s].op /\ o.saved = TRUE /\ o.wrote = TRUE
  BY <1>1 DEF ObjectType
<1>4. /\ obj' = [obj EXCEPT ![s] = o] /\ strays' = strays \cup Stray(obj[s])
      /\ UNCHANGED <<db, at, flushed, read, issued, blame>>
      /\ store' = Put(obj[s])
  BY DEF AddAgain, BackendsInv, Typed
<1> HIDE DEF o
<1>5. /\ store' \in Seq(Record) /\ OneIdEach(store')
      /\ \A i \in DOMAIN store' : store'[i].id = issued[store'[i].born]
      /\ \A b \in Made : blame[b] = {} =>
                CellIn(store', b) = IF b = obj[s].row THEN obj[s].mem ELSE StoredCell(b)
  BY <1>2, <1>4, PutKeepsRecords DEF BackendsInv
<1>6. flushed[s] \in {"none", o.op}
  BY <1>3 DEF BackendsInv, ObjectsKept
<1>7. \A b \in Made : blame[b] = {} =>
             CellIn(store', b) = IF b # o.row THEN StoredCell(b)
                                 ELSE IF o.op = "update" THEN o.sql ELSE Absent
  BY <1>1, <1>2, <1>3, <1>5
<1>8. o.op = "update" /\ o.mem = o.sql
  BY <1>1, <1>2, <1>3
<1> QED
  BY <1>1, <1>2, <1>3, <1>4, <1>5, <1>6, <1>7, <1>8, WriteStep

LEMMA DeleteStep ==
    ASSUME BackendsInv, NEW s \in Sessions, Delete(s)
    PROVE  BackendsInv'
<1> DEFINE o == [obj[s] EXCEPT !.op = "delete", !.wrote = TRUE]
<1>1. obj[s] \in ObjectType /\ obj[s].op = "none" /\ at[s] # "closed" /\ obj[s].row # 0
  BY DEF Delete, BackendsInv, Typed
<1>2. obj[s].saved
  BY <1>1 DEF BackendsInv, ObjectsKept
<1>3. /\ o \in ObjectType /\ o.row = obj[s].row /\ o.id = obj[s].id
      /\ o.op = "delete" /\ o.saved /\ o.wrote = TRUE
  BY <1>1, <1>2 DEF ObjectType, Ops
<1>4. /\ obj' = [obj EXCEPT ![s] = o] /\ strays' = strays \cup Stray(obj[s])
      /\ UNCHANGED <<db, at, flushed, read, issued, blame>>
      /\ store' = Without(obj[s].id)
  BY DEF Delete, BackendsInv, Typed
<1> HIDE DEF o
<1>5. /\ store' \in Seq(Record) /\ OneIdEach(store')
      /\ \A i \in DOMAIN store' : store'[i].id = issued[store'[i].born]
      /\ \A b \in Made : blame[b] = {} =>
                CellIn(store', b) = IF b = obj[s].row THEN Absent ELSE StoredCell(b)
  BY <1>1, <1>4, WithoutKeepsRecords DEF BackendsInv
<1>6. flushed[s] \in {"none", o.op}
  BY <1>1, <1>3 DEF BackendsInv, ObjectsKept
<1>7. \A b \in Made : blame[b] = {} =>
             CellIn(store', b) = IF b # o.row THEN StoredCell(b)
                                 ELSE IF o.op = "update" THEN o.sql ELSE Absent
  BY <1>3, <1>5
<1>8. o.op # "update"
  BY <1>3
<1> QED
  BY <1>1, <1>3, <1>4, <1>5, <1>6, <1>7, <1>8, WriteStep

\* A session that ends leaves the other sessions as they are; the row it
\* worked on has no session at work then, and must be the same in both
\* worlds or have a reason to differ.
LEMMA CloseStep ==
    ASSUME BackendsInv, NEW s \in Sessions, Closed(s),
           UNCHANGED <<store, issued, strays>>, BlameGrows,
           blame' \in [Rows -> SUBSET {"shared", "reissued", "unsaved", "undone"}],
           db' \in [Rows -> Cells \cup {Absent}],
           \A b \in Rows : b # obj[s].row => db'[b] = db[b],
           \A b \in Rows : b = obj[s].row /\ blame'[b] = {} /\ Work(s, b) =>
             StoredCell(b) = db'[b]
    PROVE  BackendsInv'
<1> USE DEF BackendsInv
<1>1. NoObject \in ObjectType /\ NoRead \in ReadType /\ NoObject.row = 0
      /\ NoObject.op = "none" /\ NoObject.saved /\ NoObject.mem = NoObject.sql
  BY DEF NoObject, NoRead, ObjectType, ReadType, Ops, Cells
<1>2. /\ at'[s] = "closed" /\ obj'[s] = NoObject /\ flushed'[s] = "none" /\ read'[s] = NoRead
      /\ \A q \in Sessions \ {s} : /\ at'[q] = at[q] /\ obj'[q] = obj[q]
                                   /\ flushed'[q] = flushed[q] /\ read'[q] = read[q]
  BY DEF Closed, Typed
<1>3. Typed'
  <2>1. /\ at' \in [Sessions -> {"closed", "open", "failed"}]
        /\ obj' \in [Sessions -> ObjectType] /\ flushed' \in [Sessions -> Ops]
        /\ read' \in [Sessions -> ReadType]
    BY <1>1 DEF Closed, Typed, Ops
  <2> QED
    BY <2>1 DEF Typed
<1>4. IdsGiven' /\ Made' = Made
  <2>1. \A b \in Rows : b = obj[s].row => b \in Made
    BY BackendsAssumption DEF ObjectsKept, Rows
  <2> QED
    BY <2>1, IdsStay
<1>5. RecordsKept' /\ StraysKept'
  BY <1>4 DEF RecordsKept, StraysKept, OneIdEach
<1>6. ObjectsKept'
  BY <1>1, <1>2, <1>4 DEF ObjectsKept
<1>7. ReadsAgree'
  <2>1. \A q \in Sessions : read'[q] \in {read[q], NoRead}
    BY <1>2
  <2> QED
    BY <2>1, ReadsStay
<1>8. RowsAgree'
  <2>1. \A b : StoredCell(b)' = StoredCell(b)
    BY OfTheStore
  <2>2. ASSUME NEW b \in Rows, blame'[b] = {}
        PROVE  /\ \A q, v \in Sessions : obj'[q].row = b /\ obj'[v].row = b => q = v
               /\ (\A q \in Sessions : obj'[q].row # b) => StoredCell(b) = db'[b]
               /\ \A q \in Sessions : obj'[q].row = b => Work(q, b)'
    <3>1. blame[b] = {} /\ b # 0
      BY <2>2, BlameIsKept, BackendsAssumption DEF Rows
    <3>2. \A q \in Sessions : obj'[q].row = b => q # s /\ obj[q].row = b
      BY <1>1, <1>2, <3>1
    <3>3. \A q, v \in Sessions : obj'[q].row = b /\ obj'[v].row = b => q = v
      BY <3>1, <3>2 DEF RowsAgree
    <3>4. ASSUME \A q \in Sessions : obj'[q].row # b
          PROVE  StoredCell(b) = db'[b]
      <4>1. CASE b = obj[s].row
        <5>1. Work(s, b)
          BY <3>1, <4>1 DEF RowsAgree
        <5> QED
          BY <2>2, <4>1, <5>1
      <4>2. CASE b # obj[s].row
        <5>1. \A q \in Sessions : obj[q].row # b
          BY <1>2, <3>4, <4>2
        <5> QED
          BY <3>1, <4>2, <5>1 DEF RowsAgree
      <4> QED
        BY <4>1, <4>2
    <3>5. ASSUME NEW q \in Sessions, obj'[q].row = b
          PROVE  Work(q, b)'
      <4>1. q # s /\ obj[q].row = b /\ obj'[q] = obj[q]
        BY <1>2, <3>2, <3>5
      <4>2. Work(q, b) /\ b # obj[s].row
        BY <3>1, <4>1 DEF RowsAgree
      <4>3. db'[b] = db[b]
        BY <4>2
      <4> QED
        BY <2>1, <4>1, <4>2, <4>3 DEF Work
    <3> QED
      BY <3>3, <3>4, <3>5
  <2> QED
    BY <2>1, <2>2 DEF RowsAgree
<1> QED
  BY <1>3, <1>4, <1>5, <1>6, <1>7, <1>8

LEMMA CommitStep ==
    ASSUME BackendsInv, NEW s \in Sessions, Commit(s)
    PROVE  BackendsInv'
<1> USE DEF BackendsInv
<1>1. /\ flushed[s] = obj[s].op /\ db' = Applied(s) /\ Closed(s)
      /\ UNCHANGED <<store, issued, strays>>
      /\ blame' = [b \in Rows |-> IF b = obj[s].row /\ ~obj[s].saved
                                  THEN blame[b] \cup {"unsaved"} ELSE blame[b]]
  BY DEF Commit
<1>2. obj[s] \in ObjectType /\ obj[s].sql \in Cells /\ obj[s].op \in Ops
  BY DEF Typed, ObjectType
<1>3. BlameGrows
  BY <1>1 DEF BlameGrows
<1>4. blame' \in [Rows -> SUBSET {"shared", "reissued", "unsaved", "undone"}]
  BY <1>1 DEF Typed
<1>5. /\ db' \in [Rows -> Cells \cup {Absent}]
      /\ \A b \in Rows : b # obj[s].row => db'[b] = db[b]
  BY <1>1, <1>2 DEF Applied, Typed
<1>6. ASSUME NEW b \in Rows, b = obj[s].row, blame'[b] = {}, Work(s, b)
      PROVE  StoredCell(b) = db'[b]
  <2>1. obj[s].saved
    BY <1>1, <1>6
  <2>2. CASE obj[s].op = "none"
    BY <1>1, <1>6, <2>2 DEF Work, Applied
  <2>3. CASE obj[s].op = "delete"
    BY <1>1, <1>6, <2>3 DEF Work, Applied, Typed
  <2>4. CASE obj[s].op \in {"insert", "update"}
    BY <1>1, <1>6, <2>1, <2>4 DEF Work, Applied, Typed
  <2> QED
    BY <1>2, <2>2, <2>3, <2>4 DEF Ops
<1> QED
  BY <1>1, <1>3, <1>4, <1>5, <1>6, CloseStep

LEMMA RollbackStep ==
    ASSUME BackendsInv, NEW s \in Sessions, Rollback(s)
    PROVE  BackendsInv'
<1> USE DEF BackendsInv
<1>1. /\ Closed(s) /\ UNCHANGED <<store, db, issued, strays>>
      /\ blame' = [b \in Rows |-> IF b = obj[s].row /\ obj[s].wrote
                                  THEN blame[b] \cup {"undone"} ELSE blame[b]]
  BY DEF Rollback, BlamedRollback
<1>2. obj[s].op \in Ops
  BY DEF Typed, ObjectType
<1>3. BlameGrows
  BY <1>1 DEF BlameGrows
<1>4. blame' \in [Rows -> SUBSET {"shared", "reissued", "unsaved", "undone"}]
  BY <1>1 DEF Typed
<1>5. db' \in [Rows -> Cells \cup {Absent}]
  BY <1>1 DEF Typed
<1>6. ASSUME NEW b \in Rows, b = obj[s].row, blame'[b] = {}, Work(s, b)
      PROVE  StoredCell(b) = db'[b]
  <2>1. ~obj[s].wrote
    BY <1>1, <1>6
  <2> QED
    <3>1. obj[s].op = "none" \/ ~obj[s].saved
      BY <1>2, <1>6, <2>1 DEF Work, Ops
    <3> QED
      BY <1>1, <1>6, <3>1 DEF Work
<1> QED
  BY <1>1, <1>3, <1>4, <1>5, <1>6, CloseStep

\* The object of a row that was loaded, and of one that is new.
Loaded(b, id, sql, mem) == [NoObject EXCEPT !.row = b, !.id = id, !.sql = sql, !.mem = mem]

IsLoaded(o, b, id, sql, mem) ==
    /\ o \in ObjectType /\ o.row = b /\ o.id = id /\ o.sql = sql /\ o.mem = mem
    /\ o.op = "none" /\ o.wrote = FALSE /\ o.saved = TRUE

LEMMA LoadedObject ==
    ASSUME NEW b \in Rows, NEW id \in Rows \cup {0}, NEW sql \in Cells, NEW mem \in Cells
    PROVE  IsLoaded(Loaded(b, id, sql, mem), b, id, sql, mem)
<1> DEFINE o1 == [NoObject EXCEPT !.row = b]
           o2 == [o1 EXCEPT !.id = id]
           o3 == [o2 EXCEPT !.sql = sql]
           o4 == [o3 EXCEPT !.mem = mem]
<1>0. /\ NoObject \in ObjectType /\ NoObject.op = "none" /\ NoObject.wrote = FALSE
      /\ NoObject.saved = TRUE
  BY DEF NoObject, ObjectType, Ops, Cells
<1>1. /\ o1 \in ObjectType /\ o1.row = b /\ o1.op = "none" /\ o1.wrote = FALSE /\ o1.saved = TRUE
  BY <1>0 DEF ObjectType
<1>5. Loaded(b, id, sql, mem) = o4
  BY DEF Loaded
<1> HIDE DEF o1
<1>2. /\ o2 \in ObjectType /\ o2.row = b /\ o2.id = id
      /\ o2.op = "none" /\ o2.wrote = FALSE /\ o2.saved = TRUE
  BY <1>1 DEF ObjectType
<1> HIDE DEF o2
<1>3. /\ o3 \in ObjectType /\ o3.row = b /\ o3.id = id /\ o3.sql = sql
      /\ o3.op = "none" /\ o3.wrote = FALSE /\ o3.saved = TRUE
  BY <1>2 DEF ObjectType
<1> HIDE DEF o3
<1>4. /\ o4 \in ObjectType /\ o4.row = b /\ o4.id = id /\ o4.sql = sql /\ o4.mem = mem
      /\ o4.op = "none" /\ o4.wrote = FALSE /\ o4.saved = TRUE
  BY <1>3 DEF ObjectType
<1> HIDE DEF o4
<1> QED
  BY <1>4, <1>5 DEF IsLoaded

\* A row that is loaded without a reason to differ was nobody's, and is the
\* same in both worlds.
LEMMA LoadStep ==
    ASSUME BackendsInv, NEW s \in Sessions, NEW b \in Rows, Load(s, b)
    PROVE  BackendsInv'
<1> USE DEF BackendsInv
<1> DEFINE found == [row |-> b, sql |-> db[b], mem |-> MemoryCell(issued[b])]
           o == [NoObject EXCEPT !.row = b, !.id = issued[b], !.sql = found.sql, !.mem = found.mem]
<1>1. /\ at[s] = "open" /\ obj[s] = NoObject /\ b \in Made
      /\ read' = [read EXCEPT ![s] = found]
      /\ blame' = [blame EXCEPT ![b] = IF Holders(b) # {} THEN blame[b] \cup {"shared"} ELSE blame[b]]
      /\ UNCHANGED <<store, db, flushed, issued, strays>>
  BY DEF Load
<1>2. \/ at' = [at EXCEPT ![s] = "failed"] /\ obj' = obj
      \/ /\ found.sql # Absent /\ found.mem # Absent
         /\ obj' = [obj EXCEPT ![s] = o] /\ at' = at
  BY DEF Load
<1>3. MemoryCell(issued[b]) \in Cells \cup {Absent}
  <2>1. store \in Seq(Record) /\ OneIdEach(store)
    BY DEF Typed, RecordsKept
  <2>2. CASE \E i \in DOMAIN store : store[i].id = issued[b]
    <3>1. PICK i \in DOMAIN store : store[i].id = issued[b]
      BY <2>2
    <3>2. PlaceOf(issued[b]) = i /\ i # 0
      BY <2>1, <3>1, PlaceOfAnId, OfTheStore
    <3>3. store[i] \in Record
      BY <2>1
    <3> QED
      BY <3>2, <3>3 DEF MemoryCell, Record
  <2>3. CASE \A i \in DOMAIN store : store[i].id # issued[b]
    <3>1. PlaceOf(issued[b]) = 0
      BY <2>1, <2>3, PlaceOfAnId, OfTheStore
    <3> QED
      BY <3>1 DEF MemoryCell
  <2> QED
    BY <2>2, <2>3
<1>4. found \in ReadType /\ found.row = b /\ found.sql = db[b] /\ found.mem = MemoryCell(issued[b])
  BY <1>3 DEF ReadType, Typed
<1>5. \/ found.sql = Absent \/ found.mem = Absent
      \/ /\ o.row = b /\ o.id = issued[b] /\ o.sql = found.sql /\ o.mem = found.mem
         /\ o.op = "none" /\ o.wrote = FALSE /\ o.saved = TRUE /\ o \in ObjectType
  <2>1. issued[b] \in Rows \cup {0}
    BY DEF Typed
  <2>2. found.sql \in Cells \cup {Absent} /\ found.mem \in Cells \cup {Absent}
    BY <1>4 DEF ReadType
  <2>3. o = Loaded(b, issued[b], found.sql, found.mem)
    BY DEF Loaded
  <2> HIDE DEF found, o
  <2>4. ASSUME found.sql # Absent, found.mem # Absent
        PROVE  IsLoaded(o, b, issued[b], found.sql, found.mem)
    <3>1. found.sql \in Cells /\ found.mem \in Cells
      BY <2>2, <2>4
    <3>2. IsLoaded(Loaded(b, issued[b], found.sql, found.mem), b, issued[b], found.sql, found.mem)
      BY <2>1, <3>1, LoadedObject
    <3> QED
      BY <2>3, <3>2
  <2> QED
    BY <2>4 DEF IsLoaded
<1> HIDE DEF found, o
<1>6. BlameGrows /\ blame' \in [Rows -> SUBSET {"shared", "reissued", "unsaved", "undone"}]
  BY <1>1 DEF BlameGrows, Typed
<1>7. /\ read'[s] = found /\ \A q \in Sessions \ {s} : read'[q] = read[q]
      /\ \A q \in Sessions \ {s} : obj'[q] = obj[q] /\ at'[q] = at[q]
      /\ at'[s] \in {"open", "failed"} /\ flushed'[s] = flushed[s]
      /\ obj'[s] = NoObject \/ (obj'[s] = o /\ found.sql # Absent /\ found.mem # Absent)
  BY <1>1, <1>2 DEF Typed
<1>8. Typed'
  <2>1. read' \in [Sessions -> ReadType]
    BY <1>1, <1>4 DEF Typed
  <2>2. at' \in [Sessions -> {"closed", "open", "failed"}] /\ obj' \in [Sessions -> ObjectType]
    BY <1>2, <1>5 DEF Typed
  <2> QED
    BY <1>1, <1>6, <2>1, <2>2 DEF Typed
<1>9. IdsGiven' /\ Made' = Made
  BY <1>1, <1>6, IdsStay
<1>10. RecordsKept' /\ StraysKept'
  BY <1>1, <1>9 DEF RecordsKept, StraysKept, OneIdEach
<1>11. NoObject.row = 0 /\ NoObject.op = "none" /\ NoObject.saved /\ b # 0
  BY BackendsAssumption DEF NoObject, Rows
<1>12. ObjectsKept'
  <2>1. ASSUME NEW q \in Sessions, q # s
        PROVE  /\ obj'[q].row = 0 => obj'[q] = NoObject
               /\ obj'[q].row # 0 => obj'[q].row \in Made' /\ obj'[q].id = issued'[obj'[q].row]
               /\ at'[q] = "closed" => obj'[q] = NoObject
               /\ flushed'[q] \in {"none", obj'[q].op}
               /\ obj'[q].op # "update" => obj'[q].saved
               /\ obj'[q].mem = obj'[q].sql \/ obj'[q].op \in {"none", "delete"}
    BY <1>1, <1>7, <1>9, <2>1 DEF ObjectsKept
  <2>2. flushed'[s] = "none"
    BY <1>1, <1>7, <1>11 DEF ObjectsKept
  <2>3. /\ obj'[s].row = 0 => obj'[s] = NoObject
        /\ obj'[s].row # 0 => obj'[s].row \in Made' /\ obj'[s].id = issued'[obj'[s].row]
        /\ at'[s] = "closed" => obj'[s] = NoObject
        /\ obj'[s].op = "none" /\ obj'[s].saved
    BY <1>1, <1>5, <1>7, <1>9, <1>11
  <2> QED
    BY <2>1, <2>2, <2>3 DEF ObjectsKept
<1>13. ASSUME blame'[b] = {}
       PROVE  /\ blame[b] = {} /\ \A q \in Sessions : obj[q].row # b
              /\ StoredCell(b) = db[b] /\ MemoryCell(issued[b]) = StoredCell(b)
  <2>1. blame[b] = {} /\ Holders(b) = {}
    BY <1>1, <1>13 DEF Typed
  <2>2. \A q \in Sessions : obj[q].row # b
    BY <2>1 DEF Holders
  <2>3. StoredCell(b) = db[b]
    BY <2>1, <2>2 DEF RowsAgree
  <2> QED
    BY <1>1, <2>1, <2>2, <2>3, FoundById
<1>14. ReadsAgree'
  <2>1. ASSUME NEW q \in Sessions, read'[q] # NoRead
        PROVE  read'[q].row \in Rows /\ (blame'[read'[q].row] = {} => read'[q].sql = read'[q].mem)
    <3>1. CASE q = s
      BY <1>4, <1>7, <1>13, <3>1
    <3>2. CASE q # s
      <4>1. read'[q] = read[q] /\ read[q].row \in Rows
        BY <1>7, <2>1, <3>2 DEF ReadsAgree
      <4>2. blame'[read[q].row] = {} => blame[read[q].row] = {}
        BY <1>6, <4>1, BlameIsKept
      <4> QED
        BY <2>1, <4>1, <4>2 DEF ReadsAgree
    <3> QED
      BY <3>1, <3>2
  <2> QED
    BY <2>1 DEF ReadsAgree
<1>15. RowsAgree'
  <2>1. \A k : StoredCell(k)' = StoredCell(k)
    BY <1>1, OfTheStore
  <2>2. ASSUME NEW k \in Rows, blame'[k] = {}
        PROVE  /\ \A q, v \in Sessions : obj'[q].row = k /\ obj'[v].row = k => q = v
               /\ (\A q \in Sessions : obj'[q].row # k) => StoredCell(k) = db[k]
               /\ \A q \in Sessions : obj'[q].row = k => Work(q, k)'
    <3>0. blame[k] = {} /\ k # 0
      BY <1>6, <2>2, BlameIsKept, BackendsAssumption DEF Rows
    <3>1. CASE k # b
      <4>1. \A q \in Sessions : /\ obj'[q].row = k <=> obj[q].row = k
                                /\ obj'[q].row = k => obj'[q] = obj[q]
        BY <1>1, <1>5, <1>7, <1>11, <3>0, <3>1
      <4>2. \A q \in Sessions : obj'[q].row = k => Work(q, k)'
        BY <1>1, <2>1, <3>0, <4>1 DEF RowsAgree, Work
      <4> QED
        BY <3>0, <4>1, <4>2 DEF RowsAgree
    <3>2. CASE k = b
      <4>1. /\ \A q \in Sessions : obj[q].row # b
            /\ StoredCell(b) = db[b]
        BY <1>13, <2>2, <3>2
      <4>2. \A q \in Sessions : obj'[q].row = b => q = s /\ obj'[s] = o /\ found.sql # Absent
        BY <1>7, <1>11, <4>1
      <4>3. ASSUME NEW q \in Sessions, obj'[q].row = b
            PROVE  Work(q, b)'
        <5>1. q = s /\ obj'[s] = o /\ found.sql # Absent /\ found.mem # Absent
          BY <1>7, <1>11, <4>1, <4>2, <4>3
        <5>2. obj'[q].op = "none" /\ obj'[q].wrote = FALSE /\ obj'[q].saved = TRUE
          BY <1>5, <5>1
        <5>3. StoredCell(b)' = db'[b] /\ db'[b] # Absent
          BY <1>1, <1>4, <2>1, <4>1, <5>1
        <5> QED
          BY <5>2, <5>3 DEF Work
      <4> QED
        BY <3>2, <4>1, <4>2, <4>3
    <3> QED
      BY <3>1, <3>2
  <2> QED
    BY <1>1, <2>1, <2>2 DEF RowsAgree
<1> QED
  BY <1>8, <1>9, <1>10, <1>12, <1>14, <1>15

\* A new row gets an id that no record has; the rows that had it before, and
\* the new one, know.
LEMMA CreateStep ==
    ASSUME BackendsInv, NEW s \in Sessions, NEW c \in Cells, Create(s, c)
    PROVE  BackendsInv'
<1> USE DEF BackendsInv
<1> DEFINE b == Cardinality(Made) + 1
           old == {a \in Made : issued[a] = NextId}
           o == [NoObject EXCEPT !.row = b, !.id = NextId, !.sql = c, !.mem = c,
                                 !.op = "insert", !.wrote = TRUE]
           rec == [id |-> NextId, born |-> b, cell |-> c]
<1>1. /\ at[s] = "open" /\ obj[s] = NoObject /\ b \in Rows
      /\ store' = Append(store, rec)
      /\ obj' = [obj EXCEPT ![s] = o]
      /\ issued' = [issued EXCEPT ![b] = NextId]
      /\ blame' = [a \in Rows |-> IF old # {} /\ a \in old \cup {b}
                                  THEN blame[a] \cup {"reissued"} ELSE blame[a]]
      /\ UNCHANGED <<db, at, flushed, read, strays>>
  BY DEF Create
<1>2. PICK n \in 0 .. MaxRows : Cardinality(Made) = n /\ Made = 1 .. n
  BY MadeAreTheFirst
<1>3. /\ n \in Nat /\ MaxRows \in Nat /\ b = n + 1 /\ b \notin Made /\ b # 0 /\ b \in 1 .. MaxRows
      /\ Rows = 1 .. MaxRows /\ issued[b] = 0
  <2>1. MaxRows \in Nat /\ Rows = 1 .. MaxRows
    BY BackendsAssumption DEF Rows
  <2>2. n \in Nat /\ b = n + 1 /\ b \notin 1 .. n /\ b # 0
    BY <1>2, <2>1
  <2>3. issued[b] = 0
    BY <1>1, <1>2, <2>2 DEF Made
  <2> QED
    BY <1>1, <1>2, <2>1, <2>2, <2>3
<1>4. Ids \subseteq 1 .. n
  <2>1. SUFFICES ASSUME NEW i \in DOMAIN store
                 PROVE  store[i].id \in 1 .. n
    BY DEF Ids
  <2>2. store[i] \in Record
    BY DEF Typed
  <2>3. store[i].id \in Rows /\ store[i].born \in Rows /\ store[i].id = issued[store[i].born]
    BY <2>2 DEF Record, RecordsKept
  <2>4. store[i].born \in Made
    BY <1>3, <2>3 DEF Made
  <2> QED
    BY <1>2, <1>3, <2>3, <2>4 DEF IdsGiven
<1>5. NextId \in 1 .. n + 1 /\ NextId \notin Ids
  BY <1>4, NextIdIsNew
<1>6. NextId \in Rows /\ NextId <= b
  BY <1>3, <1>5
<1>7. rec \in Record /\ rec.id = NextId /\ rec.born = b /\ rec.cell = c
  BY <1>1, <1>6 DEF Record
<1>8. /\ o \in ObjectType /\ o.row = b /\ o.id = NextId /\ o.sql = c /\ o.mem = c
      /\ o.op = "insert" /\ o.wrote = TRUE /\ o.saved = TRUE
  <2> DEFINE o4 == Loaded(b, NextId, c, c)
             o5 == [o4 EXCEPT !.op = "insert"]
             o6 == [o5 EXCEPT !.wrote = TRUE]
  <2> HIDE DEF b
  <2>1. o = o6
    BY DEF Loaded
  <2>2. IsLoaded(o4, b, NextId, c, c)
    BY <1>1, <1>6, LoadedObject
  <2> HIDE DEF o4, o
  <2>3. /\ o5 \in ObjectType /\ o5.row = b /\ o5.id = NextId /\ o5.sql = c /\ o5.mem = c
        /\ o5.op = "insert" /\ o5.saved = TRUE
    BY <2>2 DEF ObjectType, Ops, IsLoaded
  <2> HIDE DEF o5
  <2>4. /\ o6 \in ObjectType /\ o6.row = b /\ o6.id = NextId /\ o6.sql = c /\ o6.mem = c
        /\ o6.op = "insert" /\ o6.wrote = TRUE /\ o6.saved = TRUE
    BY <2>3 DEF ObjectType
  <2> HIDE DEF o6
  <2> QED
    BY <2>1, <2>4
<1> HIDE DEF rec, o, b
<1>9. \A a \in old : a \in Made /\ issued[a] = NextId
  OBVIOUS
<1>10. \A a \in Made : issued[a] = NextId => a \in old
  OBVIOUS
<1> HIDE DEF old
<1>11. /\ issued'[b] = NextId /\ NextId # 0
       /\ \A a \in Rows : a # b => issued'[a] = issued[a]
       /\ issued' \in [Rows -> Rows \cup {0}]
  BY <1>1, <1>3, <1>5, <1>6 DEF Typed
<1>12. Made \subseteq Rows /\ Made' = Made \cup {b}
  BY <1>1, <1>3, <1>11 DEF Made
<1>13. BlameGrows /\ blame' \in [Rows -> SUBSET {"shared", "reissued", "unsaved", "undone"}]
  BY <1>1 DEF BlameGrows, Typed
<1>14. OneRowEach(store) /\ OneIdEach(store) /\ store \in Seq(Record)
  BY OneRecordARow DEF Typed, RecordsKept
<1>15. \A i \in DOMAIN store : /\ store[i].id # rec.id
                               /\ store[i].born \in Made /\ store[i].born # rec.born
  <2>1. ASSUME NEW i \in DOMAIN store
        PROVE  store[i].id # rec.id /\ store[i].born \in Made /\ store[i].born # rec.born
    <3>1. store[i] \in Record /\ store[i].id \in Ids
      BY <1>14 DEF Ids
    <3>2. store[i].id \in Rows /\ store[i].born \in Rows /\ store[i].id = issued[store[i].born]
      BY <3>1 DEF Record, RecordsKept
    <3>3. store[i].born \in Made
      BY <1>3, <3>2 DEF Made
    <3> QED
      BY <1>3, <1>5, <1>7, <3>1, <3>3
  <2> QED
    BY <2>1
<1>16. /\ store' \in Seq(Record) /\ OneIdEach(store') /\ OneRowEach(store')
       /\ \A i \in DOMAIN store' : store'[i] = rec \/ \E j \in DOMAIN store : store'[i] = store[j]
       /\ \A k : CellIn(store', k) = IF k = rec.born THEN rec.cell ELSE CellIn(store, k)
  BY <1>1, <1>7, <1>14, <1>15, TableAppended
<1>17. obj'[s] = o /\ \A q \in Sessions \ {s} : obj'[q] = obj[q]
  BY <1>1 DEF Typed
<1>18. Typed'
  <2>1. obj' \in [Sessions -> ObjectType]
    BY <1>1, <1>8 DEF Typed
  <2> QED
    BY <1>1, <1>11, <1>13, <1>16, <2>1 DEF Typed
<1>19. IdsGiven'
  <2>1. \A a \in Rows : issued'[a] <= a
    BY <1>6, <1>11 DEF IdsGiven
  <2>2. ASSUME NEW a \in Rows, NEW k \in Rows, a < k, issued'[k] # 0
        PROVE  issued'[a] # 0
    <3>1. CASE k = b
      <4>1. a \in 1 .. n
        BY <1>3, <2>2, <3>1
      <4> QED
        BY <1>2, <1>3, <1>11, <4>1 DEF Made
    <3>2. CASE k # b
      <4>1. issued[a] # 0
        BY <1>11, <2>2, <3>2 DEF IdsGiven
      <4> QED
        BY <1>11, <4>1
    <3> QED
      BY <3>1, <3>2
  <2>3. ASSUME NEW a \in Made', NEW k \in Made', a # k, issued'[a] = issued'[k]
        PROVE  "reissued" \in blame'[a] /\ "reissued" \in blame'[k]
    <3>1. CASE a # b /\ k # b
      BY <1>11, <1>12, <1>13, <2>3, <3>1 DEF IdsGiven, BlameGrows
    <3>2. CASE a = b
      <4>1. k \in old /\ a \in Rows
        BY <1>1, <1>10, <1>11, <1>12, <2>3, <3>2
      <4> QED
        BY <1>1, <1>9, <1>12, <3>2, <4>1
    <3>3. CASE k = b
      <4>1. a \in old /\ k \in Rows
        BY <1>1, <1>10, <1>11, <1>12, <2>3, <3>3
      <4> QED
        BY <1>1, <1>9, <1>12, <3>3, <4>1
    <3> QED
      BY <3>1, <3>2, <3>3
  <2>4. \A k \in Rows : db'[k] # Absent => k \in Made'
    BY <1>1, <1>12 DEF IdsGiven
  <2> QED
    BY <2>1, <2>2, <2>3, <2>4 DEF IdsGiven
<1>20. RecordsKept'
  <2>1. ASSUME NEW i \in DOMAIN store'
        PROVE  store'[i].id = issued'[store'[i].born]
    <3>1. CASE store'[i] = rec
      BY <1>7, <1>11, <3>1
    <3>2. CASE \E j \in DOMAIN store : store'[i] = store[j]
      <4>1. PICK j \in DOMAIN store : store'[i] = store[j]
        BY <3>2
      <4> QED
        BY <1>7, <1>11, <1>12, <1>15, <4>1 DEF RecordsKept
    <3> QED
      BY <1>16, <3>1, <3>2
  <2> QED
    BY <1>16, <2>1 DEF RecordsKept
<1>21. ObjectsKept'
  <2>1. ASSUME NEW q \in Sessions, q # s
        PROVE  /\ obj'[q].row = 0 => obj'[q] = NoObject
               /\ obj'[q].row # 0 => obj'[q].row \in Made' /\ obj'[q].id = issued'[obj'[q].row]
               /\ at'[q] = "closed" => obj'[q] = NoObject
               /\ flushed'[q] \in {"none", obj'[q].op}
               /\ obj'[q].op # "update" => obj'[q].saved
               /\ obj'[q].mem = obj'[q].sql \/ obj'[q].op \in {"none", "delete"}
    BY <1>1, <1>3, <1>11, <1>12, <1>17, <2>1 DEF ObjectsKept
  <2>2. flushed'[s] = "none" /\ at'[s] # "closed"
    BY <1>1 DEF ObjectsKept, NoObject
  <2>3. /\ obj'[s].row # 0 /\ obj'[s].row \in Made' /\ obj'[s].id = issued'[obj'[s].row]
        /\ obj'[s].saved /\ obj'[s].mem = obj'[s].sql
    BY <1>3, <1>8, <1>11, <1>12, <1>17
  <2> QED
    BY <2>1, <2>2, <2>3 DEF ObjectsKept
<1>22. StraysKept'
  BY <1>1, <1>3, <1>11, <1>12 DEF StraysKept
<1>23. ReadsAgree'
  BY <1>1, <1>13, ReadsStay
<1>24. RowsAgree'
  <2>1. ASSUME NEW k \in Rows, blame'[k] = {}
        PROVE  /\ \A q, v \in Sessions : obj'[q].row = k /\ obj'[v].row = k => q = v
               /\ (\A q \in Sessions : obj'[q].row # k) => StoredCell(k)' = db[k]
               /\ \A q \in Sessions : obj'[q].row = k => Work(q, k)'
    <3>0. blame[k] = {}
      BY <1>13, <2>1, BlameIsKept
    <3>1. CASE k # b
      <4>1. StoredCell(k)' = StoredCell(k)
        BY <1>7, <1>16, <3>1, OfTheStore
      <4>2. k # 0 /\ NoObject.row = 0
        BY <1>3 DEF NoObject
      <4>3. \A q \in Sessions : /\ obj'[q].row = k <=> obj[q].row = k
                                /\ obj'[q].row = k => obj'[q] = obj[q]
        BY <1>1, <1>8, <1>17, <3>1, <4>2
      <4>4. \A q \in Sessions : obj'[q].row = k => Work(q, k)'
        BY <1>1, <3>0, <4>1, <4>3 DEF RowsAgree, Work
      <4> QED
        BY <3>0, <4>1, <4>3, <4>4 DEF RowsAgree
    <3>2. CASE k = b
      <4>1. StoredCell(k)' = c
        BY <1>7, <1>16, <3>2, OfTheStore
      <4>2. \A q \in Sessions : obj'[q].row = k => q = s
        BY <1>3, <1>17, <3>2 DEF ObjectsKept
      <4>3. obj'[s].row = k /\ Work(s, k)'
        BY <1>8, <1>17, <3>2, <4>1 DEF Work
      <4> QED
        BY <4>2, <4>3
    <3> QED
      BY <3>1, <3>2
  <2> QED
    BY <1>1, <2>1 DEF RowsAgree
<1> QED
  BY <1>18, <1>19, <1>20, <1>21, <1>22, <1>23, <1>24

LEMMA BackendsStutter ==
    ASSUME BackendsInv, UNCHANGED vars
    PROVE  BackendsInv'
<1> USE DEF BackendsInv
<1>0. UNCHANGED <<store, db, at, obj, flushed, read, issued, blame, strays>>
  BY DEF vars
<1>1. BlameGrows
  BY <1>0 DEF BlameGrows
<1>2. Typed'
  BY <1>0 DEF Typed
<1>3. IdsGiven' /\ Made' = Made
  BY <1>0, <1>1, IdsStay
<1>4. RecordsKept' /\ StraysKept'
  BY <1>0, <1>3 DEF RecordsKept, StraysKept, OneIdEach
<1>5. ObjectsKept'
  BY <1>0, <1>3 DEF ObjectsKept
<1>6. ReadsAgree'
  BY <1>0, <1>1, ReadsStay
<1>7. RowsAgree'
  BY <1>0, RowsStay
<1> QED
  BY <1>2, <1>3, <1>4, <1>5, <1>6, <1>7

LEMMA BackendsNext ==
    ASSUME BackendsInv, [Next]_vars
    PROVE  BackendsInv'
<1>1. CASE UNCHANGED vars
  BY <1>1, BackendsStutter
<1>2. CASE Next
  <2>1. PICK s \in Sessions :
            \/ Open(s) \/ AddAgain(s) \/ Delete(s) \/ Flush(s) \/ Commit(s) \/ Rollback(s)
            \/ \E c \in Cells : Create(s, c) \/ Edit(s, c)
            \/ \E b \in Rows : Load(s, b)
    BY <1>2 DEF Next
  <2> QED
    BY <2>1, OpenStep, AddAgainStep, DeleteStep, FlushStep, CommitStep, RollbackStep,
       CreateStep, EditStep, LoadStep
<1> QED
  BY <1>1, <1>2

LEMMA BackendsInvariance == Spec => []BackendsInv
<1> QED
  BY BackendsInit, BackendsNext, PTL DEF Spec

-----------------------------------------------------------------------------
(* The theorems.                                                              *)

\* However the calls of any number of sessions interleave, no two records of
\* the memory backend have one id, and a write hits the record of another row
\* only if both rows were given one id (backends/memory.py, _next_id).
THEOREM StraysNeedAnIdTwice == Spec => []StraysNeedReissue
<1>1. BackendsInv => StraysNeedReissue
  <2> SUFFICES ASSUME BackendsInv PROVE StraysNeedReissue
    OBVIOUS
  <2> USE DEF BackendsInv
  <2>1. TypeOK
    <3>1. \A i \in DOMAIN store : store[i] \in [id : Rows, born : Rows, cell : Cells]
      <4>1. store \in Seq(Record)
        BY DEF Typed
      <4>2. \A i \in DOMAIN store : store[i] \in Record
        BY <4>1
      <4> QED
        BY <4>2 DEF Record
    <3>2. \A q \in Sessions : /\ obj[q].row \in Rows \cup {0}
                              /\ obj[q].op \in {"none", "insert", "update", "delete"}
      BY DEF Typed, ObjectType, Ops
    <3> QED
      BY <3>1, <3>2 DEF TypeOK, Typed, ObjectsKept
  <2>2. \A p \in strays : /\ p[1] # p[2] /\ issued[p[1]] = issued[p[2]]
                          /\ "reissued" \in blame[p[1]] \cap blame[p[2]]
    BY DEF StraysKept, IdsGiven
  <2> QED
    BY <2>1, <2>2 DEF StraysNeedReissue, RecordsKept, OneIdEach
<1> QED
  BY <1>1, BackendsInvariance, PTL

\* A row whose history holds no undone write, no edit that was not added
\* again, no two sessions at work at once and no id given twice is the same in
\* the memory backend as in the database when nobody works on it, and so is
\* what a session reads of it (backends/memory.py, MemorySessionBackend).
THEOREM BackendsAgreeElsewhere == Spec => []BackendsAgree
<1>1. BackendsInv => BackendsAgree
  BY DEF BackendsInv, BackendsAgree, RowsAgree, ReadsAgree, Holders, SqlCell
<1> QED
  BY <1>1, BackendsInvariance, PTL

-----------------------------------------------------------------------------
(* Migrations: the invariant.                                                 *)

Causes == {"overlap", "required", "crash"}
Database == [Tables -> Table \cup {NoTable}]
Phases == {"idle", "look", "copied", "dropped", "created", "done"}
Command == [at : Phases, named : SUBSET Tables, left : Seq(Tables),
            dropped : SUBSET KitTables, copy : SUBSET TableRow, had : SUBSET Columns]
Revision == [make : SUBSET Tables, drop : SUBSET Tables, of : Releasable]
Alembic == [there : BOOLEAN, knows : BOOLEAN, first : Nat \ {0}, versions : Seq(Revision)]
Written == [in : KitTables, cols : SUBSET Columns]

HistoryTyped ==
    /\ written \in Seq(Written) /\ Len(written) <= MaxWritten
    /\ why \in Seq(SUBSET Causes) /\ Len(why) = Len(written)
    /\ gone \in [KitTables -> SUBSET Columns]
    /\ torn \in SUBSET KitTables

AlembicTyped ==
    /\ alembic \in Alembic
    /\ stamped \in Nat /\ stamped < NextRevision(alembic)
    /\ NextRevision(alembic) <= MaxRevisions

DatabaseTyped ==
    /\ installed \in Releasable
    /\ schema \in Database
    /\ saved \in Database \cup {NoTxn}

AtTable == command.at \in {"copied", "dropped", "created"}
CommandTyped ==
    /\ command \in Command
    /\ AtTable => command.left # <<>> /\ Head(command.left) \in KitTables
    /\ command.at = "idle" => command = Idle
    /\ command.at = "done" => command.left = <<>>
    /\ saved # NoTxn => command.at \in {"look", "copied", "dropped", "created"}

\* The rows of a table with columns C, after the writes w, which was without
\* the columns g for a time: no two have one id, an id is no larger than the
\* number of the write, and nothing is lost but what was gone.
RowsFit(R, C, w, g) ==
    /\ \A r \in R : /\ r.id \in 1 .. r.born /\ r.born \in DOMAIN w
                    /\ r.kept \subseteq C /\ r.filled \subseteq C
                    /\ w[r.born].cols \ r.kept \subseteq g
    /\ \A r, s \in R : r.id = s.id => r = s

\* A table of the kit has the columns of some release, and perhaps more.
Descends(C, t) == \E i \in Releasable : Releases[i][t].cols \subseteq C

TablesFit(d, w, g) ==
    \A t \in KitTables : d[t] # NoTable =>
        RowsFit(d[t].rows, d[t].cols, w, g[t]) /\ Descends(d[t].cols, t)
DatabasesFit == TablesFit(schema, written, gone)
                    /\ (saved # NoTxn => TablesFit(saved, written, gone))

\* The table has the columns of the model and no other index.
Current(t) ==
    /\ schema[t] # NoTable
    /\ schema[t].cols = Model(t).cols /\ schema[t].indexes \subseteq Model(t).indexes

\* What the command has read of the table it is at.
CopyFits ==
    AtTable =>
        LET t == Head(command.left) IN
        /\ RowsFit(command.copy, command.had, written, gone[t]) /\ Descends(command.had, t)
        /\ command.at = "copied" => schema[t] # NoTable /\ command.had \subseteq schema[t].cols
        /\ command.at # "copied" => /\ t \in command.dropped
                                    /\ command.had \ Model(t).cols \subseteq gone[t]
        /\ command.at = "created" => Current(t)

\* A row nothing threatens is in its table, or in the copy of the table the
\* command has dropped, and what a rollback brings back has it unless the
\* command dropped its table.
Lives(d, t, b) == d[t] # NoTable /\ \E r \in d[t].rows : r.born = b
Emptied(t) == /\ command.at \in {"dropped", "created"} /\ t = Head(command.left)
              /\ t \in command.dropped
RowLives(t, b) ==
    /\ Lives(schema, t, b) \/ Emptied(t)
    /\ AtTable /\ t = Head(command.left) => \E r \in command.copy : r.born = b
    /\ saved # NoTxn /\ t \notin command.dropped => Lives(saved, t, b)
RowsLive ==
    \A b \in DOMAIN written, t \in KitTables :
        why[b] = {} /\ written[b].in = t => RowLives(t, b)

DoneIsCurrent ==
    \A t \in command.named \cap KitTables :
        (\A i \in DOMAIN command.left : command.left[i] # t) => Current(t)

In(d) == {t \in Tables : d[t] # NoTable}
NoneDrops(T) == \A i \in DOMAIN alembic.versions : alembic.versions[i].drop \cap T = {}
ProjectsStay ==
    careless \/ /\ ProjectTables \subseteq In(schema)
                /\ saved # NoTxn => ProjectTables \subseteq In(saved)
                /\ NoneDrops(ProjectTables)

DroppedComeBack ==
    \A t \in command.dropped :
        schema[t] # NoTable \/ (command.at = "dropped" /\ t = Head(command.left))

\* The tables of the revisions the database is said to be at.
Stamped(t) ==
    /\ ~bypassed /\ stamped # 0 /\ Located(alembic)
    /\ \E n \in alembic.first .. stamped : t \in alembic.versions[n - alembic.first + 1].make
StampedAreThere ==
    \A t \in KitTables : Stamped(t) =>
        t \in torn \cup command.dropped
            \/ (schema[t] # NoTable /\ (saved # NoTxn => saved[t] # NoTable))

MigrationsInv ==
    /\ DatabaseTyped /\ CommandTyped /\ AlembicTyped /\ HistoryTyped
    /\ DatabasesFit /\ CopyFits /\ RowsLive /\ DoneIsCurrent
    /\ ProjectsStay /\ NoneDrops(KitTables) /\ DroppedComeBack /\ StampedAreThere

-----------------------------------------------------------------------------
(* Tables.                                                                    *)

LEMMA NoTableIsNone ==
    ASSUME NEW tb \in Table
    PROVE  tb # NoTable
BY MigrationsAssumption DEF MigrationsAssumption

\* What table.create makes.
LEMMA CreatedTable ==
    ASSUME NEW t \in Tables, NEW i \in Releasable
    PROVE  /\ Created(t, i) \in Table /\ Created(t, i) # NoTable
           /\ Created(t, i).rows = {}
           /\ t \in KitTables => /\ Created(t, i).cols = Releases[i][t].cols
                                 /\ Created(t, i).indexes = Releases[i][t].indexes
<1>1. t \in KitTables => Releases[i][t].cols \subseteq Columns /\ Releases[i][t].indexes \subseteq Indexes
  BY DEF Releasable, Columns, Indexes
<1>2. Created(t, i) \in Table
  BY <1>1 DEF Created, Table
<1> QED
  BY <1>2, NoTableIsNone DEF Created

\* Rows fit in a table with more columns, after more writes.
LEMMA FitLasts ==
    ASSUME NEW R, NEW C, NEW D, NEW w, NEW v, NEW g, NEW h,
           RowsFit(R, C, w, g), C \subseteq D, g \subseteq h,
           \A b \in DOMAIN w : b \in DOMAIN v /\ v[b] = w[b]
    PROVE  RowsFit(R, D, v, h)
BY DEF RowsFit

LEMMA TablesLast ==
    ASSUME NEW d, NEW w, NEW v, NEW g, NEW h,
           TablesFit(d, w, g), \A t \in KitTables : g[t] \subseteq h[t],
           \A b \in DOMAIN w : b \in DOMAIN v /\ v[b] = w[b]
    PROVE  TablesFit(d, v, h)
<1> SUFFICES ASSUME NEW t \in KitTables, d[t] # NoTable
             PROVE  RowsFit(d[t].rows, d[t].cols, v, h[t]) /\ Descends(d[t].cols, t)
  BY DEF TablesFit
<1>1. RowsFit(d[t].rows, d[t].cols, w, g[t]) /\ Descends(d[t].cols, t)
  BY DEF TablesFit
<1> QED
  BY <1>1, FitLasts

\* A table just created fits.
LEMMA CreatedFits ==
    ASSUME NEW t \in KitTables, NEW i \in Releasable, NEW w, NEW g
    PROVE  RowsFit(Created(t, i).rows, Created(t, i).cols, w, g) /\ Descends(Created(t, i).cols, t)
<1>1. t \in Tables
  BY DEF Tables
<1> QED
  BY <1>1, CreatedTable DEF RowsFit, Descends

LEMMA MigrationsInitially == MigrationsInit => MigrationsInv
<1> SUFFICES ASSUME MigrationsInit PROVE MigrationsInv
  OBVIOUS
<1>1. /\ installed = 1 /\ installed \in Releasable
      /\ saved = NoTxn /\ command = Idle /\ alembic = NoAlembic /\ stamped = 0
      /\ written = <<>> /\ why = <<>> /\ gone = [t \in KitTables |-> {}]
      /\ torn = {} /\ ~careless
  BY MigrationsAssumption DEF MigrationsInit, MigrationsAssumption, Releasable
<1>2. PICK some \in {{}, KitTables} :
         schema = [t \in Tables |-> IF t \in some \cup ProjectTables THEN Created(t, 1) ELSE NoTable]
  BY DEF MigrationsInit
<1>3. DatabaseTyped
  <2>1. \A t \in Tables : Created(t, 1) \in Table
    BY <1>1, CreatedTable
  <2> QED
    BY <1>1, <1>2, <2>1 DEF DatabaseTyped, Database
<1>4. CommandTyped /\ ~AtTable
  BY <1>1 DEF CommandTyped, AtTable, Command, Phases, Idle
<1>5. AlembicTyped /\ NoneDrops(KitTables) /\ NoneDrops(ProjectTables)
  <2>1. NextRevision(alembic) = 1
    BY <1>1 DEF NextRevision, NoAlembic
  <2>2. alembic \in Alembic
    BY <1>1 DEF Alembic, NoAlembic
  <2> QED
    BY <1>1, <2>1, <2>2, MigrationsAssumption
    DEF AlembicTyped, NoneDrops, NoAlembic, MigrationsAssumption
<1>6. HistoryTyped
  BY <1>1, MigrationsAssumption DEF HistoryTyped, MigrationsAssumption
<1>7. DatabasesFit
  <2>1. ASSUME NEW t \in KitTables, schema[t] # NoTable
        PROVE  schema[t] = Created(t, 1)
    BY <1>2, <2>1 DEF Tables
  <2>2. TablesFit(schema, written, gone)
    BY <1>1, <2>1, CreatedFits DEF TablesFit
  <2> QED
    BY <1>1, <2>2 DEF DatabasesFit
<1>8. CopyFits /\ RowsLive /\ DoneIsCurrent /\ DroppedComeBack
  BY <1>1, <1>4 DEF CopyFits, RowsLive, DoneIsCurrent, DroppedComeBack, Idle
<1>9. ProjectsStay
  <2>1. \A t \in ProjectTables : t \in Tables /\ schema[t] = Created(t, 1)
    BY <1>2 DEF Tables
  <2> QED
    BY <1>1, <1>5, <2>1, CreatedTable DEF ProjectsStay, In
<1>10. StampedAreThere
  BY <1>1 DEF StampedAreThere, Stamped
<1> QED
  BY <1>3, <1>4, <1>5, <1>6, <1>7, <1>8, <1>9, <1>10 DEF MigrationsInv

-----------------------------------------------------------------------------
(* Steps that touch no table.                                                 *)

LEMMA InstallStep ==
    ASSUME MigrationsInv, Install
    PROVE  MigrationsInv'
<1> USE DEF MigrationsInv
<1>1. /\ command.at \in {"idle", "done"} /\ saved = NoTxn /\ installed' \in Releasable /\ command' = Idle
      /\ UNCHANGED <<schema, saved, alembic, stamped, written, why, gone, torn, careless, bypassed>>
  BY DEF Install, migrationHistory, CommandTyped, Releasable
<1>2. DatabaseTyped' /\ HistoryTyped' /\ AlembicTyped'
  BY <1>1 DEF DatabaseTyped, HistoryTyped, AlembicTyped, NextRevision
<1>3. CommandTyped' /\ ~AtTable'
  BY <1>1 DEF CommandTyped, AtTable, Command, Phases, Idle
<1>4. DatabasesFit'
  BY <1>1 DEF DatabasesFit
<1>5. CopyFits' /\ DoneIsCurrent' /\ DroppedComeBack'
  BY <1>1, <1>3 DEF CopyFits, DoneIsCurrent, DroppedComeBack, Idle
<1>6. RowsLive'
  BY <1>1, <1>3 DEF RowsLive, RowLives, Emptied, Lives
<1>7. ProjectsStay' /\ NoneDrops(KitTables)'
  BY <1>1 DEF ProjectsStay, NoneDrops, In
<1>8. StampedAreThere'
  <2>1. \A t \in command.dropped : schema[t] # NoTable
    BY <1>1 DEF DroppedComeBack
  <2>2. \A t \in KitTables : Stamped(t)' => Stamped(t)
    BY <1>1 DEF Stamped, Located, HeadOf
  <2> QED
    BY <1>1, <2>1, <2>2 DEF StampedAreThere
<1> QED
  BY <1>2, <1>3, <1>4, <1>5, <1>6, <1>7, <1>8

LEMMA MigrateStep ==
    ASSUME MigrationsInv, NEW ts \in Commands, Migrate(ts)
    PROVE  MigrationsInv'
<1> USE DEF MigrationsInv
<1>0. ts \in Seq(Tables)
  BY MigrationsAssumption DEF MigrationsAssumption, Tables
<1>1. /\ command.at \in {"idle", "done"} /\ saved = NoTxn
      /\ UNCHANGED <<installed, schema, saved, alembic, stamped, written, why, gone, torn, careless, bypassed>>
  BY DEF Migrate, migrationHistory, CommandTyped
<1>2. /\ command' \in Command /\ command'.at = "look" /\ command'.left = ts
      /\ command'.named = {ts[i] : i \in DOMAIN ts} /\ command'.dropped = {}
  <2>1. {ts[i] : i \in DOMAIN ts} \subseteq Tables
    BY <1>0
  <2>2. command' = [at |-> "look", named |-> {ts[i] : i \in DOMAIN ts}, left |-> ts,
                    dropped |-> {}, copy |-> {}, had |-> {}]
    BY DEF Migrate, Idle
  <2> QED
    BY <1>0, <2>1, <2>2 DEF Command, Phases
<1>3. DatabaseTyped' /\ HistoryTyped' /\ AlembicTyped'
  BY <1>1 DEF DatabaseTyped, HistoryTyped, AlembicTyped, NextRevision
<1>4. CommandTyped' /\ ~AtTable'
  BY <1>1, <1>2 DEF CommandTyped, AtTable
<1>5. DatabasesFit'
  BY <1>1 DEF DatabasesFit
<1>6. CopyFits' /\ DroppedComeBack'
  BY <1>2, <1>4 DEF CopyFits, DroppedComeBack
<1>7. DoneIsCurrent'
  BY <1>2 DEF DoneIsCurrent
<1>8. RowsLive'
  BY <1>1, <1>4 DEF RowsLive, RowLives, Emptied, Lives
<1>9. ProjectsStay' /\ NoneDrops(KitTables)'
  BY <1>1 DEF ProjectsStay, NoneDrops, In
<1>10. StampedAreThere'
  <2>1. \A t \in command.dropped : schema[t] # NoTable
    BY <1>1 DEF DroppedComeBack
  <2>2. \A t \in KitTables : Stamped(t)' => Stamped(t)
    BY <1>1 DEF Stamped, Located, HeadOf
  <2> QED
    BY <1>1, <2>1, <2>2 DEF StampedAreThere
<1> QED
  BY <1>3, <1>4, <1>5, <1>6, <1>7, <1>8, <1>9, <1>10

LEMMA CommitMigrationStep ==
    ASSUME MigrationsInv, CommitMigration
    PROVE  MigrationsInv'
<1> USE DEF MigrationsInv
<1>1. /\ command.at = "look" /\ command.left = <<>> /\ saved' = NoTxn
      /\ UNCHANGED <<installed, schema, alembic, stamped, written, why, gone, torn, careless, bypassed>>
  BY DEF CommitMigration, migrationHistory
<1>2. /\ command' \in Command /\ command'.at = "done" /\ command'.left = <<>>
      /\ command'.named = command.named /\ command'.dropped = command.dropped
  BY <1>1 DEF CommitMigration, CommandTyped, Command, Phases
<1>3. DatabaseTyped' /\ HistoryTyped' /\ AlembicTyped'
  BY <1>1 DEF DatabaseTyped, HistoryTyped, AlembicTyped, NextRevision
<1>4. CommandTyped' /\ ~AtTable'
  BY <1>1, <1>2 DEF CommandTyped, AtTable
<1>5. DatabasesFit'
  BY <1>1 DEF DatabasesFit
<1>6. CopyFits' /\ DroppedComeBack'
  BY <1>1, <1>2, <1>4 DEF CopyFits, DroppedComeBack
<1>7. DoneIsCurrent'
  BY <1>1, <1>2 DEF DoneIsCurrent, Current, Model
<1>8. RowsLive'
  BY <1>1, <1>4 DEF RowsLive, RowLives, Emptied, Lives, AtTable
<1>9. ProjectsStay' /\ NoneDrops(KitTables)'
  BY <1>1 DEF ProjectsStay, NoneDrops, In
<1>10. StampedAreThere'
  <2>1. \A t \in KitTables : Stamped(t)' => Stamped(t)
    BY <1>1 DEF Stamped, Located, HeadOf
  <2> QED
    BY <1>1, <1>2, <2>1 DEF StampedAreThere
<1> QED
  BY <1>3, <1>4, <1>5, <1>6, <1>7, <1>8, <1>9, <1>10

\* What an alembic command leaves as it is.
LEMMA AlembicAlone ==
    ASSUME MigrationsInv,
           UNCHANGED <<installed, schema, saved, command, written, why, gone, torn>>
    PROVE  /\ DatabaseTyped' /\ CommandTyped' /\ HistoryTyped'
           /\ DatabasesFit' /\ CopyFits' /\ RowsLive' /\ DoneIsCurrent' /\ DroppedComeBack'
<1> USE DEF MigrationsInv
<1>1. DatabaseTyped' /\ CommandTyped' /\ HistoryTyped'
  BY DEF DatabaseTyped, CommandTyped, AtTable, HistoryTyped
<1>2. DatabasesFit' /\ CopyFits'
  BY DEF DatabasesFit, CopyFits, AtTable, Current, Model
<1>3. RowsLive'
  BY DEF RowsLive, RowLives, Emptied, AtTable, Lives
<1>4. DoneIsCurrent' /\ DroppedComeBack'
  BY DEF DoneIsCurrent, DroppedComeBack, Current, Model
<1> QED
  BY <1>1, <1>2, <1>3, <1>4

\* A revision put after the others.
WithRevision(a, r) == [a EXCEPT !.versions = Append(@, r)]
HasMore(b, a, r) ==
    /\ b \in Alembic /\ b.first = a.first /\ Len(b.versions) = Len(a.versions) + 1
    /\ NextRevision(b) = NextRevision(a) + 1 /\ HeadOf(b) = NextRevision(a)
    /\ \A i \in DOMAIN a.versions : b.versions[i] = a.versions[i]
    /\ b.versions[Len(b.versions)] = r /\ b.versions # <<>>
    /\ DOMAIN b.versions = DOMAIN a.versions \cup {Len(b.versions)}

LEMMA RevisionAppended ==
    ASSUME NEW a \in Alembic, NEW r \in Revision
    PROVE  HasMore(WithRevision(a, r), a, r)
<1> DEFINE b == WithRevision(a, r)
<1>1. a.versions \in Seq(Revision) /\ a.first \in Nat
  BY DEF Alembic
<1>2. b.versions = Append(a.versions, r) /\ b.first = a.first /\ b \in Alembic
  BY <1>1 DEF Alembic, WithRevision
<1> HIDE DEF b
<1>3. Len(b.versions) = Len(a.versions) + 1 /\ b.versions # <<>>
  BY <1>1, <1>2
<1>4. /\ DOMAIN b.versions = 1 .. Len(a.versions) + 1 /\ DOMAIN a.versions = 1 .. Len(a.versions)
      /\ \A i \in 1 .. Len(a.versions) : b.versions[i] = a.versions[i]
      /\ b.versions[Len(a.versions) + 1] = r
  BY <1>1, <1>2
<1>5. NextRevision(b) = NextRevision(a) + 1 /\ HeadOf(b) = NextRevision(a)
  BY <1>1, <1>2, <1>3 DEF NextRevision, HeadOf
<1>6. HasMore(b, a, r)
  BY <1>2, <1>3, <1>4, <1>5 DEF HasMore
<1> QED
  BY <1>6 DEF b

\* What alembic revision --autogenerate makes: nothing, or a revision that
\* drops no table of the kit.
LEMMA AutogeneratedIs ==
    ASSUME MigrationsInv, NEW a \in Alembic
    PROVE  \/ Autogenerated(a) = a
           \/ /\ Located(a) /\ stamped = HeadOf(a)
              /\ \E r \in Revision : /\ Autogenerated(a) = WithRevision(a, r)
                                     /\ r.drop \cap KitTables = {}
<1> DEFINE r == [make |-> Target(a) \ Present, drop |-> Present \ Target(a), of |-> installed]
<1>1. r \in Revision /\ r.drop \cap KitTables = {}
  BY DEF Revision, Target, Tables, Present, MigrationsInv, DatabaseTyped
<1> QED
  BY <1>1 DEF Autogenerated, WithRevision

LEMMA EditEnvStep ==
    ASSUME MigrationsInv, EditEnv
    PROVE  MigrationsInv'
<1> USE DEF MigrationsInv
<1>1. UNCHANGED <<installed, schema, saved, command, stamped, written, why, gone, torn, careless, bypassed>>
  BY DEF EditEnv, migrationHistory
<1>2. alembic' \in Alembic /\ alembic'.first = alembic.first /\ alembic'.versions = alembic.versions
  BY DEF EditEnv, AlembicTyped, Alembic
<1>3. AlembicTyped'
  BY <1>1, <1>2 DEF AlembicTyped, NextRevision
<1>4. ProjectsStay' /\ NoneDrops(KitTables)'
  BY <1>1, <1>2 DEF ProjectsStay, NoneDrops, In
<1>5. StampedAreThere'
  BY <1>1, <1>2 DEF StampedAreThere, Stamped, Located, HeadOf
<1> QED
  BY <1>1, <1>3, <1>4, <1>5, AlembicAlone

LEMMA ReviseStep ==
    ASSUME MigrationsInv, Revise
    PROVE  MigrationsInv'
<1> USE DEF MigrationsInv
<1>1. /\ UNCHANGED <<installed, schema, saved, command, stamped, written, why, gone, torn, bypassed>>
      /\ NextRevision(alembic) < MaxRevisions
      /\ careless' = (careless \/ Makes(alembic'))
  BY DEF Revise
<1>2. alembic \in Alembic
  BY DEF AlembicTyped
<1>3. PICK r \in Revision : /\ alembic' = WithRevision(alembic, r)
                            /\ r.drop \cap KitTables = {} /\ Located(alembic) /\ stamped = HeadOf(alembic)
  BY <1>2, AutogeneratedIs DEF Revise
<1>4. /\ alembic' \in Alembic /\ alembic'.first = alembic.first
      /\ Len(alembic'.versions) = Len(alembic.versions) + 1
      /\ NextRevision(alembic)' = NextRevision(alembic) + 1 /\ HeadOf(alembic)' = NextRevision(alembic)
      /\ \A i \in DOMAIN alembic.versions : alembic'.versions[i] = alembic.versions[i]
      /\ alembic'.versions[Len(alembic'.versions)] = r /\ alembic'.versions # <<>>
      /\ DOMAIN alembic'.versions = DOMAIN alembic.versions \cup {Len(alembic'.versions)}
  BY <1>2, <1>3, RevisionAppended DEF HasMore, NextRevision, HeadOf
<1>5. AlembicTyped'
  <2>1. NextRevision(alembic) \in Nat /\ MaxRevisions \in Nat
    BY <1>2, MigrationsAssumption DEF NextRevision, Alembic, MigrationsAssumption
  <2> QED
    BY <1>1, <1>4, <2>1 DEF AlembicTyped
<1>6. NoneDrops(KitTables)'
  BY <1>3, <1>4 DEF NoneDrops
<1>7. ProjectsStay'
  <2>1. ASSUME ~careless' PROVE ~careless /\ r.drop \cap ProjectTables = {}
    <3>1. Len(alembic'.versions) > 0
      BY <1>2, <1>4 DEF Alembic
    <3> QED
      BY <1>1, <1>4, <2>1, <3>1 DEF Makes
  <2>2. ASSUME ~careless' PROVE NoneDrops(ProjectTables)'
    BY <1>4, <2>1, <2>2 DEF NoneDrops, ProjectsStay
  <2> QED
    BY <1>1, <2>1, <2>2 DEF ProjectsStay, In
<1>8. StampedAreThere'
  <2>1. ASSUME NEW t \in KitTables, Stamped(t)' PROVE Stamped(t)
    <3>1. /\ ~bypassed /\ stamped # 0
          /\ \E n \in alembic.first .. stamped : t \in alembic'.versions[n - alembic.first + 1].make
      BY <1>1, <1>4, <2>1 DEF Stamped
    <3>2. stamped \in alembic.first .. HeadOf(alembic) /\ alembic.versions \in Seq(Revision)
      BY <1>2, <1>3, <3>1 DEF Located, Alembic
    <3>3. HeadOf(alembic) = alembic.first + Len(alembic.versions) - 1
      BY <1>2, <3>1, <1>3 DEF HeadOf
    <3>4. \A n \in alembic.first .. stamped : n - alembic.first + 1 \in DOMAIN alembic.versions
      BY <1>2, <3>2, <3>3 DEF Alembic
    <3> QED
      BY <1>3, <1>4, <3>1, <3>4 DEF Stamped
  <2> QED
    BY <1>1, <2>1 DEF StampedAreThere
<1> QED
  BY <1>1, <1>5, <1>6, <1>7, <1>8, AlembicAlone

LEMMA InitAlembicStep ==
    ASSUME MigrationsInv, NEW force \in BOOLEAN, NEW auto \in BOOLEAN, NEW baseline \in BOOLEAN,
           InitAlembic(force, auto, baseline)
    PROVE  MigrationsInv'
<1> USE DEF MigrationsInv
<1> DEFINE made == IF auto THEN Autogenerated(Fresh) ELSE Fresh
           r0 == [make |-> {}, drop |-> {}, of |-> installed]
           last == IF baseline THEN Baseline(made) ELSE made
           stamps == baseline /\ Located(last)
<1>1. /\ UNCHANGED <<installed, schema, saved, command, written, why, gone, torn>>
      /\ NextRevision(alembic) + 1 < MaxRevisions
      /\ alembic' = last /\ stamped' = (IF stamps THEN HeadOf(last) ELSE stamped)
      /\ careless' = (careless \/ Makes(made))
      /\ bypassed' = (bypassed \/ (stamps /\ made.versions # <<>>))
  BY DEF InitAlembic
<1>2. /\ alembic \in Alembic /\ NextRevision(alembic) \in Nat \ {0} /\ MaxRevisions \in Nat
      /\ stamped \in Nat /\ stamped < NextRevision(alembic)
  BY MigrationsAssumption DEF AlembicTyped, Alembic, NextRevision, MigrationsAssumption
<1>3. /\ Fresh \in Alembic /\ Fresh.versions = <<>> /\ Fresh.first = NextRevision(alembic)
      /\ NextRevision(Fresh) = NextRevision(alembic)
  <2> DEFINE n == NextRevision(alembic)
  <2>0. Fresh = [NoAlembic EXCEPT !.there = TRUE, !.first = n]
    BY DEF Fresh
  <2> HIDE DEF n
  <2>1. Fresh = [there |-> TRUE, knows |-> FALSE, first |-> n, versions |-> <<>>]
    BY <2>0 DEF NoAlembic
  <2>2. NextRevision(Fresh) = NextRevision(alembic)
    BY <1>2, <2>1 DEF NextRevision, n
  <2> QED
    BY <1>2, <2>1, <2>2 DEF Alembic, n
<1>4. r0 \in Revision /\ r0.drop = {} /\ r0.make = {}
  BY DEF Revision, DatabaseTyped
<1> HIDE DEF made, last, stamps, r0
<1>5. /\ made \in Alembic /\ made.first = NextRevision(alembic)
      /\ \/ made.versions = <<>> /\ NextRevision(made) = NextRevision(alembic)
         \/ /\ NextRevision(made) = NextRevision(alembic) + 1 /\ Len(made.versions) = 1
            /\ made.versions[1].drop \cap KitTables = {}
  <2>1. CASE made = Fresh
    BY <1>3, <2>1
  <2>2. CASE made # Fresh
    <3>1. PICK r \in Revision : /\ made = WithRevision(Fresh, r)
                                /\ r.drop \cap KitTables = {}
      BY <1>3, <2>2, AutogeneratedIs DEF made
    <3>2. /\ made \in Alembic /\ made.first = Fresh.first
          /\ Len(made.versions) = Len(Fresh.versions) + 1
          /\ NextRevision(made) = NextRevision(Fresh) + 1
          /\ made.versions[Len(made.versions)] = r
      BY <1>3, <3>1, RevisionAppended DEF HasMore
    <3> QED
      BY <1>3, <3>1, <3>2
  <2> QED
    BY <2>1, <2>2
<1>6. CASE ~baseline
  <2>1. last = made /\ ~stamps
    BY <1>6 DEF last, stamps
  <2>2. AlembicTyped'
    BY <1>1, <1>2, <1>5, <2>1 DEF AlembicTyped
  <2>3. DOMAIN made.versions \subseteq {1}
    BY <1>5 DEF Alembic
  <2>4. NoneDrops(KitTables)'
    BY <1>1, <1>5, <2>1, <2>3 DEF NoneDrops
  <2>5. ProjectsStay'
    <3>1. ~Makes(made) => \A i \in DOMAIN made.versions : made.versions[i].drop \cap ProjectTables = {}
      BY <1>5, <2>3 DEF Makes
    <3> QED
      BY <1>1, <2>1, <3>1 DEF ProjectsStay, NoneDrops, In
  <2>6. StampedAreThere'
    <3>1. stamped' = 0 \/ ~Located(alembic)'
      BY <1>1, <1>2, <1>5, <2>1 DEF Located
    <3> QED
      BY <3>1 DEF StampedAreThere, Stamped
  <2> QED
    BY <1>1, <2>2, <2>4, <2>5, <2>6, AlembicAlone
<1>7. CASE baseline
  <2>1. last = WithRevision(made, r0)
    BY <1>7 DEF last, Baseline, r0, WithRevision
  <2>2. /\ last \in Alembic /\ last.first = made.first /\ Len(last.versions) = Len(made.versions) + 1
        /\ NextRevision(last) = NextRevision(made) + 1 /\ HeadOf(last) = NextRevision(made)
        /\ \A i \in DOMAIN made.versions : last.versions[i] = made.versions[i]
        /\ last.versions[Len(last.versions)] = r0 /\ last.versions # <<>>
        /\ DOMAIN last.versions = DOMAIN made.versions \cup {Len(last.versions)}
    BY <1>4, <1>5, <2>1, RevisionAppended DEF HasMore
  <2>3. AlembicTyped'
    BY <1>1, <1>2, <1>5, <2>2 DEF AlembicTyped
  <2>4. DOMAIN made.versions \subseteq {1} /\ (made.versions # <<>> => Len(made.versions) = 1)
    BY <1>5 DEF Alembic
  <2>5. NoneDrops(KitTables)'
    <3>1. \A i \in DOMAIN made.versions : made.versions[i].drop \cap KitTables = {}
      BY <1>5, <2>4
    <3> QED
      BY <1>1, <1>4, <2>2, <3>1 DEF NoneDrops
  <2>6. ProjectsStay'
    <3>1. ~Makes(made) => \A i \in DOMAIN made.versions : made.versions[i].drop \cap ProjectTables = {}
      BY <1>5, <2>4 DEF Makes
    <3>2. ~Makes(made) => \A i \in DOMAIN last.versions : last.versions[i].drop \cap ProjectTables = {}
      BY <1>4, <2>2, <3>1
    <3> QED
      BY <1>1, <3>2 DEF ProjectsStay, NoneDrops, In
  <2>7. StampedAreThere'
    <3>1. CASE ~stamps
      <4>1. ~Located(last) /\ stamped' = stamped
        BY <1>1, <1>7, <3>1 DEF stamps
      <4>2. ~Located(alembic)'
        BY <1>1, <4>1 DEF Located
      <4> QED
        BY <4>2 DEF StampedAreThere, Stamped
    <3>2. CASE stamps /\ made.versions # <<>>
      BY <1>1, <3>2 DEF StampedAreThere, Stamped
    <3>3. CASE stamps /\ made.versions = <<>>
      <4>1. stamped' = NextRevision(alembic) /\ alembic'.first = NextRevision(alembic)
        BY <1>1, <1>5, <2>2, <3>3
      <4>2. alembic'.versions[1] = r0
        BY <1>1, <2>2, <3>3
      <4>3. \A n \in alembic'.first .. stamped' : alembic'.versions[n - alembic'.first + 1].make = {}
        BY <1>2, <1>4, <4>1, <4>2
      <4> QED
        BY <4>3 DEF StampedAreThere, Stamped
    <3> QED
      BY <3>1, <3>2, <3>3
  <2> QED
    BY <1>1, <2>3, <2>5, <2>6, <2>7, AlembicAlone
<1> QED
  BY <1>6, <1>7

-----------------------------------------------------------------------------
(* Steps of fak migrate.                                                      *)

\* A failure, whatever its cause.
LEMMA AbandonedStep ==
    ASSUME MigrationsInv, NEW reason \in Causes, Abandoned(reason)
    PROVE  MigrationsInv'
<1> USE DEF MigrationsInv
<1>1. /\ schema' = (IF saved = NoTxn THEN schema ELSE saved) /\ saved' = NoTxn /\ command' = Idle
      /\ why' = Blame({b \in DOMAIN written : written[b].in \in command.dropped}, reason)
      /\ torn' = torn \cup command.dropped
      /\ UNCHANGED <<installed, alembic, stamped, written, gone, careless, bypassed>>
  BY DEF Abandoned
<1>2. DatabaseTyped' /\ AlembicTyped'
  BY <1>1 DEF DatabaseTyped, AlembicTyped, NextRevision
<1>3. CommandTyped' /\ ~AtTable' /\ command'.dropped = {} /\ command'.named = {}
  BY <1>1 DEF CommandTyped, AtTable, Command, Phases, Idle
<1>4. /\ DOMAIN why' = DOMAIN why
      /\ \A b \in DOMAIN why : why'[b] \subseteq Causes
      /\ \A b \in DOMAIN written : why'[b] = {} => why[b] = {} /\ written[b].in \notin command.dropped
  <2> DEFINE B == {b \in DOMAIN written : written[b].in \in command.dropped}
  <2>1. why' = [b \in DOMAIN why |-> IF b \in B THEN why[b] \cup {reason} ELSE why[b]]
    BY <1>1 DEF Blame
  <2>2. DOMAIN written = DOMAIN why /\ \A b \in DOMAIN why : why[b] \subseteq Causes
    <3>1. \A b \in DOMAIN why : why[b] \in SUBSET Causes
      BY DEF HistoryTyped
    <3>2. DOMAIN written = 1 .. Len(written) /\ DOMAIN why = 1 .. Len(why) /\ Len(why) = Len(written)
      BY DEF HistoryTyped
    <3> QED
      BY <3>1, <3>2
  <2> HIDE DEF MigrationsInv
  <2> QED
    BY <2>1, <2>2
<1>5. HistoryTyped'
  <2>1. why' \in Seq(SUBSET Causes) /\ Len(why') = Len(why)
    <3>1. DOMAIN why' = 1 .. Len(why) /\ Len(why) \in Nat
      BY <1>4 DEF HistoryTyped
    <3>2. why' \in [1 .. Len(why) -> SUBSET Causes]
      BY <1>1, <1>4, <3>1 DEF Blame
    <3> QED
      BY <3>1, <3>2
  <2>2. command.dropped \subseteq KitTables
    BY DEF CommandTyped, Command
  <2> QED
    BY <1>1, <2>1, <2>2 DEF HistoryTyped
<1>6. DatabasesFit'
  BY <1>1 DEF DatabasesFit
<1>7. CopyFits' /\ DoneIsCurrent' /\ DroppedComeBack'
  BY <1>3 DEF CopyFits, DoneIsCurrent, DroppedComeBack
<1>8. RowsLive'
  <2> SUFFICES ASSUME NEW b \in DOMAIN written, NEW u \in KitTables, why'[b] = {}, written[b].in = u
               PROVE  RowLives(u, b)'
    BY <1>1 DEF RowsLive
  <2>1. why[b] = {} /\ u \notin command.dropped
    BY <1>4
  <2>2. RowLives(u, b)
    BY <2>1 DEF RowsLive
  <2> QED
    BY <1>1, <1>3, <2>1, <2>2 DEF RowLives, Emptied, Lives
<1>9. ProjectsStay' /\ NoneDrops(KitTables)'
  BY <1>1 DEF ProjectsStay, NoneDrops, In
<1>10. StampedAreThere'
  <2>1. \A t \in KitTables : Stamped(t)' => Stamped(t)
    BY <1>1 DEF Stamped, Located, HeadOf
  <2> QED
    BY <1>1, <2>1 DEF StampedAreThere
<1> QED
  BY <1>2, <1>3, <1>5, <1>6, <1>7, <1>8, <1>9, <1>10

\* What going on to the next table makes of the command.
LEMMA NextTableIs ==
    ASSUME CommandTyped, command.left # <<>>
    PROVE  /\ NextTable \in Command /\ NextTable.at = "look" /\ NextTable.left = Tail(command.left)
           /\ NextTable.named = command.named /\ NextTable.dropped = command.dropped
           /\ \A t : (\A i \in DOMAIN Tail(command.left) : Tail(command.left)[i] # t) =>
                 t = Head(command.left) \/ \A i \in DOMAIN command.left : command.left[i] # t
<1>1. command \in Command /\ command.left \in Seq(Tables)
  BY DEF CommandTyped, Command
<1>2. Tail(command.left) \in Seq(Tables)
  BY <1>1
<1>3. NextTable = [at |-> "look", named |-> command.named, left |-> Tail(command.left),
                   dropped |-> command.dropped, copy |-> {}, had |-> {}]
  <2>1. command = [at |-> command.at, named |-> command.named, left |-> command.left,
                   dropped |-> command.dropped, copy |-> command.copy, had |-> command.had]
    BY <1>1 DEF Command
  <2> DEFINE l == Tail(command.left)
  <2>2. NextTable = [[[[command EXCEPT !.at = "look"] EXCEPT !.left = l] EXCEPT !.copy = {}] EXCEPT !.had = {}]
    BY DEF NextTable
  <2> HIDE DEF l
  <2>3. NextTable = [at |-> "look", named |-> command.named, left |-> l,
                     dropped |-> command.dropped, copy |-> {}, had |-> {}]
    BY <2>1, <2>2
  <2> QED
    BY <2>3 DEF l
<1>4. NextTable \in Command
  BY <1>1, <1>2, <1>3 DEF Command, Phases
<1>7. ASSUME NEW t, \A i \in DOMAIN Tail(command.left) : Tail(command.left)[i] # t,
             t # Head(command.left), NEW i \in DOMAIN command.left
      PROVE  command.left[i] # t
  <2>1. i \in 1 .. Len(command.left) /\ Head(command.left) = command.left[1]
    BY <1>1
  <2>2. CASE i = 1
    BY <1>7, <2>1, <2>2
  <2>3. CASE i # 1
    <3>1. i - 1 \in DOMAIN Tail(command.left) /\ Tail(command.left)[i - 1] = command.left[i]
      BY <1>1, <2>1, <2>3
    <3> QED
      BY <1>7, <3>1
  <2> QED
    BY <2>2, <2>3
<1> QED
  BY <1>3, <1>4, <1>7

\* The table the command is at is one of those it has left.
LEMMA HeadIsLeft ==
    ASSUME CommandTyped, command.left # <<>>
    PROVE  /\ Head(command.left) \in Tables
           /\ \E i \in DOMAIN command.left : command.left[i] = Head(command.left)
<1>1. command.left \in Seq(Tables)
  BY DEF CommandTyped, Command
<1>2. Head(command.left) \in Tables
  BY <1>1
<1>3. 1 \in DOMAIN command.left /\ command.left[1] = Head(command.left)
  BY <1>1
<1> QED
  BY <1>2, <1>3

\* Looking at a table, the command may drop indexes and create it.
Unharmed(u) ==
    /\ schema'[u] \in Table \cup {NoTable}
    /\ schema[u] # NoTable => /\ schema'[u] # NoTable
                              /\ schema'[u].rows = schema[u].rows
                              /\ schema'[u].cols = schema[u].cols
                              /\ schema'[u].indexes \subseteq schema[u].indexes
    /\ schema[u] = NoTable => schema'[u] = NoTable \/ schema'[u] = Created(u, installed)

LEMMA LookUnharmed ==
    ASSUME MigrationsInv, Look
    PROVE  /\ schema' \in Database
           /\ \A u \in Tables : Unharmed(u)
           /\ Head(command.left) \in Tables
<1> USE DEF MigrationsInv
<1> DEFINE t == Head(command.left)
           kept == [schema EXCEPT ![t].indexes = @ \cap Model(t).indexes]
<1>1. t \in Tables /\ installed \in Releasable
  BY HeadIsLeft DEF Look, DatabaseTyped
<1>2. schema \in Database
  BY DEF DatabaseTyped
<1>3. CASE schema' = schema
  BY <1>1, <1>2, <1>3 DEF Unharmed, Database
<1>4. CASE schema[t] = NoTable /\ schema' = [schema EXCEPT ![t] = Created(t, installed)]
  <2>1. Created(t, installed) \in Table
    BY <1>1, CreatedTable
  <2> QED
    BY <1>1, <1>2, <1>4, <2>1 DEF Unharmed, Database
<1>5. CASE schema[t] # NoTable /\ schema' = kept
  <2>1. schema[t] \in Table
    BY <1>1, <1>2, <1>5 DEF Database
  <2> DEFINE ix == schema[t].indexes \cap Model(t).indexes
             tb == [schema[t] EXCEPT !.indexes = ix]
  <2>2. kept = [schema EXCEPT ![t] = tb]
    OBVIOUS
  <2>3. /\ tb \in Table /\ tb.rows = schema[t].rows /\ tb.cols = schema[t].cols
        /\ tb.indexes \subseteq schema[t].indexes
    BY <2>1 DEF Table
  <2>4. tb # NoTable
    BY <2>3, NoTableIsNone
  <2> HIDE DEF tb
  <2> QED
    BY <1>1, <1>2, <1>5, <2>2, <2>3, <2>4 DEF Unharmed, Database
<1> QED
  BY <1>1, <1>3, <1>4, <1>5 DEF Look, Present

LEMMA LookStep ==
    ASSUME MigrationsInv, Look
    PROVE  MigrationsInv'
<1> USE DEF MigrationsInv
<1>0. PICK t : t = Head(command.left)
  OBVIOUS
<1>1. /\ command.at = "look" /\ command.left # <<>>
      /\ UNCHANGED <<installed, saved, alembic, stamped, written, why, gone, torn, careless, bypassed>>
  BY DEF Look, migrationHistory
<1>2. /\ schema' \in Database /\ t \in Tables /\ installed \in Releasable
      /\ \A u \in Tables : Unharmed(u)
  BY <1>0, LookUnharmed DEF DatabaseTyped
<1>3. KitTables \subseteq Tables /\ command.dropped \subseteq KitTables
  BY DEF Tables, CommandTyped, Command
<1>4. \/ /\ command' = NextTable /\ (t \in KitTables => Current(t)')
      \/ /\ t \in KitTables /\ schema[t] # NoTable
         /\ command' = [command EXCEPT !.at = "copied", !.copy = schema[t].rows, !.had = schema[t].cols]
  <2>1. CASE t \in KitTables \ Present /\ schema' = [schema EXCEPT ![t] = Created(t, installed)]
             /\ command' = NextTable
    <3>1. schema'[t] = Created(t, installed)
      BY <1>2, <2>1 DEF DatabaseTyped, Database
    <3> QED
      BY <1>1, <1>2, <2>1, <3>1, CreatedTable DEF Current, Model
  <2>2. CASE t \in KitTables \cap Present /\ schema[t].cols = Model(t).cols
             /\ schema' = [schema EXCEPT ![t].indexes = @ \cap Model(t).indexes] /\ command' = NextTable
    <3>1. schema'[t].indexes = schema[t].indexes \cap Model(t).indexes
      BY <1>2, <2>2 DEF DatabaseTyped, Database, Present, Table
    <3> QED
      BY <1>1, <1>2, <2>2, <3>1 DEF Current, Model, Unharmed, Present
  <2> QED
    BY <1>0, <2>1, <2>2 DEF Look, Present
<1>5. DatabaseTyped' /\ AlembicTyped' /\ HistoryTyped'
  BY <1>1, <1>2 DEF DatabaseTyped, AlembicTyped, HistoryTyped, NextRevision
<1>6. DatabasesFit'
  <2>1. ASSUME NEW u \in KitTables, schema'[u] # NoTable
        PROVE  RowsFit(schema'[u].rows, schema'[u].cols, written, gone[u]) /\ Descends(schema'[u].cols, u)
    <3>1. CASE schema[u] # NoTable
      BY <1>2, <1>3, <3>1 DEF Unharmed, DatabasesFit, TablesFit
    <3>2. CASE schema[u] = NoTable
      BY <1>2, <1>3, <2>1, <3>2, CreatedFits DEF Unharmed
    <3> QED
      BY <3>1, <3>2
  <2> QED
    BY <1>1, <2>1 DEF DatabasesFit, TablesFit
<1>7. \A u \in Tables : \A b : Lives(schema, u, b) => Lives(schema', u, b)
  BY <1>2 DEF Lives, Unharmed
<1>8. \A u \in KitTables : Current(u) => Current(u)'
  BY <1>1, <1>2, <1>3 DEF Current, Model, Unharmed
<1>9. ProjectsStay' /\ NoneDrops(KitTables)'
  BY <1>1, <1>2 DEF ProjectsStay, NoneDrops, In, Unharmed
<1>10. ASSUME command'.dropped = command.dropped, command'.at # "dropped"
       PROVE  DroppedComeBack' /\ StampedAreThere'
  <2>1. \A u \in KitTables : Stamped(u)' => Stamped(u)
    BY <1>1 DEF Stamped, Located, HeadOf
  <2>2. \A u \in KitTables : schema[u] # NoTable => schema'[u] # NoTable
    BY <1>2, <1>3 DEF Unharmed
  <2>3. StampedAreThere'
    BY <1>1, <1>10, <2>1, <2>2 DEF StampedAreThere
  <2> QED
    BY <1>1, <1>3, <1>10, <2>2, <2>3 DEF DroppedComeBack
<1>11. CASE command' = NextTable /\ (t \in KitTables => Current(t)')
  <2>1. /\ command' \in Command /\ command'.at = "look" /\ command'.left = Tail(command.left)
        /\ command'.named = command.named /\ command'.dropped = command.dropped
        /\ \A u : (\A i \in DOMAIN Tail(command.left) : Tail(command.left)[i] # u) =>
                 u = t \/ \A i \in DOMAIN command.left : command.left[i] # u
    BY <1>0, <1>1, <1>11, NextTableIs
  <2>2. CommandTyped' /\ ~AtTable'
    BY <2>1 DEF CommandTyped, AtTable
  <2>3. CopyFits'
    BY <2>2 DEF CopyFits
  <2>4. DoneIsCurrent'
    BY <1>8, <1>11, <2>1 DEF DoneIsCurrent
  <2>5. RowsLive'
    <3> SUFFICES ASSUME NEW b \in DOMAIN written, NEW u \in KitTables, why[b] = {}, written[b].in = u
                 PROVE  RowLives(u, b)'
      BY <1>1 DEF RowsLive
    <3>1. u \in Tables
      BY <1>3
    <3>2. RowLives(u, b)
      BY <1>1 DEF RowsLive
    <3> QED
      BY <1>1, <1>7, <2>1, <2>2, <3>1, <3>2 DEF RowLives, Emptied, Lives, AtTable
  <2> QED
    BY <1>5, <1>6, <1>9, <1>10, <2>1, <2>2, <2>3, <2>4, <2>5
<1>12. CASE /\ t \in KitTables /\ schema[t] # NoTable
            /\ command' = [command EXCEPT !.at = "copied", !.copy = schema[t].rows, !.had = schema[t].cols]
  <2>1. /\ command' \in Command /\ command'.at = "copied" /\ command'.left = command.left
        /\ command'.named = command.named /\ command'.dropped = command.dropped
        /\ command'.copy = schema[t].rows /\ command'.had = schema[t].cols
    <3>1. schema[t] \in Table
      BY <1>2, <1>12 DEF DatabaseTyped, Database
    <3>2. command = [at |-> command.at, named |-> command.named, left |-> command.left,
                     dropped |-> command.dropped, copy |-> command.copy, had |-> command.had]
      BY DEF CommandTyped, Command
    <3> DEFINE R == schema[t].rows
               C == schema[t].cols
    <3>3. command' = [[[command EXCEPT !.at = "copied"] EXCEPT !.copy = R] EXCEPT !.had = C]
      BY <1>12
    <3>4. R \subseteq TableRow /\ C \subseteq Columns
      BY <3>1 DEF Table
    <3> HIDE DEF R, C
    <3>5. command' = [at |-> "copied", named |-> command.named, left |-> command.left,
                      dropped |-> command.dropped, copy |-> R, had |-> C]
      BY <3>2, <3>3
    <3>6. command' \in Command
      BY <3>4, <3>5 DEF CommandTyped, Command, Phases
    <3> QED
      BY <3>5, <3>6 DEF R, C
  <2>2. CommandTyped' /\ AtTable'
    BY <1>0, <1>1, <1>12, <2>1 DEF CommandTyped, AtTable
  <2>3. CopyFits'
    <3>1. RowsFit(schema[t].rows, schema[t].cols, written, gone[t]) /\ Descends(schema[t].cols, t)
      BY <1>12 DEF DatabasesFit, TablesFit
    <3>2. schema'[t] # NoTable /\ schema'[t].cols = schema[t].cols
      BY <1>2, <1>12 DEF Unharmed
    <3> QED
      BY <1>0, <1>1, <2>1, <3>1, <3>2 DEF CopyFits
  <2>4. DoneIsCurrent'
    BY <1>8, <2>1 DEF DoneIsCurrent
  <2>5. RowsLive'
    <3> SUFFICES ASSUME NEW b \in DOMAIN written, NEW u \in KitTables, why[b] = {}, written[b].in = u
                 PROVE  RowLives(u, b)'
      BY <1>1 DEF RowsLive
    <3>1. u \in Tables
      BY <1>3
    <3>2. RowLives(u, b)
      BY <1>1 DEF RowsLive
    <3>3. Lives(schema, u, b)
      BY <1>1, <3>2 DEF RowLives, Emptied
    <3> QED
      BY <1>0, <1>1, <1>7, <2>1, <3>1, <3>2, <3>3 DEF RowLives, Lives
  <2> QED
    BY <1>5, <1>6, <1>9, <1>10, <2>1, <2>2, <2>3, <2>4, <2>5
<1> QED
  BY <1>4, <1>11, <1>12

LEMMA DropStep ==
    ASSUME MigrationsInv, Drop
    PROVE  MigrationsInv'
<1> USE DEF MigrationsInv
<1> DEFINE t == Head(command.left)
<1>1. /\ command.at = "copied" /\ AtTable /\ t \in KitTables /\ command.left # <<>>
      /\ UNCHANGED <<installed, saved, alembic, stamped, written, why, torn, careless, bypassed>>
  BY DEF Drop, CommandTyped, AtTable
<1>2. /\ t \in Tables /\ \E i \in DOMAIN command.left : command.left[i] = t
  BY <1>1, HeadIsLeft
<1>3. /\ schema' \in Database /\ schema'[t] = NoTable
      /\ \A u \in Tables : u # t => schema'[u] = schema[u]
  BY <1>2 DEF Drop, DatabaseTyped, Database
<1>4. /\ command' \in Command /\ command'.at = "dropped" /\ command'.dropped = command.dropped \cup {t}
      /\ command'.left = command.left /\ command'.named = command.named
      /\ command'.copy = command.copy /\ command'.had = command.had
  <2>1. command = [at |-> command.at, named |-> command.named, left |-> command.left,
                   dropped |-> command.dropped, copy |-> command.copy, had |-> command.had]
    BY DEF CommandTyped, Command
  <2> DEFINE D == command.dropped \cup {t}
  <2>2. command' = [[command EXCEPT !.at = "dropped"] EXCEPT !.dropped = D]
    BY DEF Drop
  <2>3. D \subseteq KitTables
    BY <1>1 DEF CommandTyped, Command
  <2> HIDE DEF D
  <2>4. command' = [at |-> "dropped", named |-> command.named, left |-> command.left,
                    dropped |-> D, copy |-> command.copy, had |-> command.had]
    BY <2>1, <2>2
  <2>5. command' \in Command
    BY <2>3, <2>4 DEF CommandTyped, Command, Phases
  <2> QED
    BY <2>4, <2>5 DEF D
<1>5. /\ gone' \in [KitTables -> SUBSET Columns]
      /\ \A u \in KitTables : gone[u] \subseteq gone'[u]
      /\ schema[t].cols \ Model(t).cols \subseteq gone'[t]
  <2>1. Model(t).cols \subseteq Columns
    BY <1>1 DEF Model, Columns, DatabaseTyped, Releasable
  <2>2. schema[t].cols \subseteq Columns
    <3>1. schema[t] \in Table
      BY <1>1, <1>2 DEF CopyFits, DatabaseTyped, Database
    <3> QED
      BY <3>1 DEF Table
  <2> QED
    BY <1>1, <2>1, <2>2 DEF Drop, HistoryTyped
<1>6. DatabaseTyped' /\ AlembicTyped' /\ HistoryTyped' /\ CommandTyped' /\ AtTable'
  BY <1>1, <1>3, <1>4, <1>5
  DEF DatabaseTyped, AlembicTyped, HistoryTyped, NextRevision, CommandTyped, AtTable
<1>7. DatabasesFit'
  <2>1. TablesFit(schema, written, gone') /\ (saved # NoTxn => TablesFit(saved, written, gone'))
    BY <1>5, TablesLast DEF DatabasesFit
  <2>2. TablesFit(schema', written, gone')
    BY <1>3, <2>1 DEF TablesFit, Tables
  <2> QED
    BY <1>1, <2>1, <2>2 DEF DatabasesFit
<1>8. CopyFits'
  <2>1. RowsFit(command.copy, command.had, written, gone[t]) /\ Descends(command.had, t)
        /\ command.had \subseteq schema[t].cols
    BY <1>1 DEF CopyFits
  <2>2. RowsFit(command.copy, command.had, written, gone'[t])
    BY <1>1, <1>5, <2>1, FitLasts
  <2> QED
    BY <1>1, <1>4, <1>5, <2>1, <2>2 DEF CopyFits, Model
<1>9. RowsLive'
  <2> SUFFICES ASSUME NEW b \in DOMAIN written, NEW u \in KitTables, why[b] = {}, written[b].in = u
               PROVE  RowLives(u, b)'
    BY <1>1 DEF RowsLive
  <2>1. u \in Tables
    BY DEF Tables
  <2>2. RowLives(u, b)
    BY <1>1 DEF RowsLive
  <2>3. Lives(schema, u, b)
    BY <1>1, <2>2 DEF RowLives, Emptied
  <2> QED
    BY <1>1, <1>3, <1>4, <2>1, <2>2, <2>3 DEF RowLives, Lives, Emptied
<1>10. DoneIsCurrent'
  BY <1>1, <1>2, <1>3, <1>4 DEF DoneIsCurrent, Current, Model, Tables
<1>11. ProjectsStay' /\ NoneDrops(KitTables)'
  <2>1. t \notin ProjectTables
    BY <1>1, MigrationsAssumption DEF MigrationsAssumption
  <2> QED
    BY <1>1, <1>3, <2>1 DEF ProjectsStay, NoneDrops, In
<1>12. DroppedComeBack'
  BY <1>1, <1>3, <1>4 DEF DroppedComeBack, CommandTyped, Command, Tables
<1>13. StampedAreThere'
  <2>1. \A u \in KitTables : Stamped(u)' => Stamped(u)
    BY <1>1 DEF Stamped, Located, HeadOf
  <2> QED
    BY <1>1, <1>3, <1>4, <2>1 DEF StampedAreThere, Tables
<1> QED
  BY <1>6, <1>7, <1>8, <1>9, <1>10, <1>11, <1>12, <1>13

LEMMA CreateTableStep ==
    ASSUME MigrationsInv, CreateTable
    PROVE  MigrationsInv'
<1> USE DEF MigrationsInv
<1>1. CASE Abandoned("overlap")
  BY <1>1, AbandonedStep DEF Causes
<1>2. CASE ~Abandoned("overlap")
  <2>0. PICK t : t = Head(command.left)
    OBVIOUS
  <2>1. /\ command.at = "dropped" /\ AtTable /\ t \in KitTables /\ command.left # <<>>
        /\ schema[t] = NoTable /\ schema' = [schema EXCEPT ![t] = Created(t, installed)]
        /\ command' = [command EXCEPT !.at = "created"]
        /\ UNCHANGED <<installed, saved, alembic, stamped, written, why, gone, torn, careless, bypassed>>
    BY <1>2, <2>0 DEF CreateTable, CommandTyped, AtTable, migrationHistory
  <2>2. /\ t \in Tables /\ installed \in Releasable /\ \E i \in DOMAIN command.left : command.left[i] = t
    BY <2>0, <2>1, HeadIsLeft DEF DatabaseTyped
  <2>3. /\ schema' \in Database /\ schema'[t] = Created(t, installed) /\ schema'[t] # NoTable
        /\ \A u \in Tables : u # t => schema'[u] = schema[u]
    <3>1. Created(t, installed) \in Table /\ Created(t, installed) # NoTable
      BY <2>2, CreatedTable
    <3> QED
      BY <2>1, <2>2, <3>1 DEF DatabaseTyped, Database
  <2>4. /\ command' \in Command /\ command'.at = "created" /\ command'.dropped = command.dropped
        /\ command'.left = command.left /\ command'.named = command.named
        /\ command'.copy = command.copy /\ command'.had = command.had
    BY <2>1 DEF CommandTyped, Command, Phases
  <2>5. DatabaseTyped' /\ AlembicTyped' /\ HistoryTyped' /\ CommandTyped' /\ AtTable'
    BY <2>0, <2>1, <2>3, <2>4
    DEF DatabaseTyped, AlembicTyped, HistoryTyped, NextRevision, CommandTyped, AtTable
  <2>6. DatabasesFit'
    <3>1. RowsFit(schema'[t].rows, schema'[t].cols, written, gone[t]) /\ Descends(schema'[t].cols, t)
      BY <2>1, <2>2, <2>3, CreatedFits
    <3> QED
      BY <2>1, <2>3, <3>1 DEF DatabasesFit, TablesFit, Tables
  <2>7. Current(t)'
    BY <2>1, <2>2, <2>3, CreatedTable DEF Current, Model
  <2>8. CopyFits'
    BY <2>0, <2>1, <2>4, <2>7 DEF CopyFits, Model
  <2>9. RowsLive'
    <3> SUFFICES ASSUME NEW b \in DOMAIN written, NEW u \in KitTables, why[b] = {}, written[b].in = u
                 PROVE  RowLives(u, b)'
      BY <2>1 DEF RowsLive
    <3>1. RowLives(u, b) /\ u \in Tables
      BY DEF RowsLive, Tables
    <3> QED
      BY <2>0, <2>1, <2>3, <2>4, <3>1 DEF RowLives, Lives, Emptied, AtTable
  <2>10. DoneIsCurrent'
    BY <2>1, <2>2, <2>3, <2>4 DEF DoneIsCurrent, Current, Model, Tables
  <2>11. ProjectsStay' /\ NoneDrops(KitTables)'
    BY <2>1, <2>3 DEF ProjectsStay, NoneDrops, In
  <2>12. DroppedComeBack'
    BY <2>0, <2>1, <2>3, <2>4 DEF DroppedComeBack, CommandTyped, Command, Tables
  <2>13. StampedAreThere'
    <3>1. \A u \in KitTables : Stamped(u)' => Stamped(u)
      BY <2>1 DEF Stamped, Located, HeadOf
    <3> QED
      BY <2>1, <2>3, <2>4, <3>1 DEF StampedAreThere, Tables
  <2> QED
    BY <2>5, <2>6, <2>8, <2>9, <2>10, <2>11, <2>12, <2>13
<1> QED
  BY <1>1, <1>2

\* What is put back of the rows read: the columns both tables have, and there
\* is one at least.
LEMMA PartOfRow ==
    ASSUME NEW r \in TableRow, NEW S
    PROVE  /\ Part(r, S) \in TableRow /\ Part(r, S).id = r.id /\ Part(r, S).born = r.born
           /\ Part(r, S).kept = r.kept \cap S /\ Part(r, S).filled = r.filled \cap S
<1>1. r = [id |-> r.id, born |-> r.born, kept |-> r.kept, filled |-> r.filled]
  BY DEF TableRow
<1> DEFINE k == r.kept \cap S
           f == r.filled \cap S
<1>2. Part(r, S) = [[r EXCEPT !.kept = k] EXCEPT !.filled = f]
  BY DEF Part
<1>3. k \subseteq Columns /\ f \subseteq Columns
  BY DEF TableRow
<1> HIDE DEF k, f
<1>4. Part(r, S) = [id |-> r.id, born |-> r.born, kept |-> k, filled |-> f]
  BY <1>1, <1>2
<1>5. Part(r, S) \in TableRow
  BY <1>3, <1>4 DEF TableRow
<1> QED
  BY <1>4, <1>5 DEF k, f

LEMMA RestoredRows ==
    ASSUME MigrationsInv, command.at = "created", NEW t, t = Head(command.left)
    PROVE  /\ Restored(t) \subseteq TableRow
           /\ RowsFit(Restored(t), Model(t).cols, written, gone[t])
           /\ \A b : (\E r \in command.copy : r.born = b) => \E r \in Restored(t) : r.born = b
<1> USE DEF MigrationsInv
<1> DEFINE S == Shared(t)
<1>1. /\ t \in KitTables /\ RowsFit(command.copy, command.had, written, gone[t])
      /\ Descends(command.had, t) /\ command.had \ Model(t).cols \subseteq gone[t]
      /\ command.copy \subseteq TableRow /\ installed \in Releasable
  BY DEF CommandTyped, Command, CopyFits, AtTable, DatabaseTyped
<1>2. S = command.had \cap Model(t).cols
  BY DEF Shared
<1>3. S # {}
  <2>1. PICK i \in Releasable : Releases[i][t].cols \subseteq command.had
    BY <1>1 DEF Descends
  <2>2. Releases[i][t].cols \cap Releases[installed][t].cols # {}
    BY <1>1, <2>1, MigrationsAssumption DEF MigrationsAssumption, Releasable
  <2> QED
    BY <1>2, <2>1, <2>2 DEF Model
<1>4. Restored(t) = {Part(r, S) : r \in command.copy}
  BY <1>3 DEF Restored
<1> HIDE DEF S
<1>5. \A r \in command.copy : /\ Part(r, S) \in TableRow /\ Part(r, S).id = r.id /\ Part(r, S).born = r.born
                              /\ Part(r, S).kept = r.kept \cap S /\ Part(r, S).filled = r.filled \cap S
  BY <1>1, PartOfRow
<1>6. RowsFit(Restored(t), Model(t).cols, written, gone[t])
  <2>1. ASSUME NEW r \in command.copy
        PROVE  /\ r.id \in 1 .. r.born /\ r.born \in DOMAIN written
               /\ r.kept \cap S \subseteq Model(t).cols /\ r.filled \cap S \subseteq Model(t).cols
               /\ written[r.born].cols \ (r.kept \cap S) \subseteq gone[t]
    BY <1>1, <1>2 DEF RowsFit
  <2>2. \A r, s \in command.copy : r.id = s.id => r = s
    BY <1>1 DEF RowsFit
  <2>3. ASSUME NEW r \in Restored(t)
        PROVE  /\ r.id \in 1 .. r.born /\ r.born \in DOMAIN written
               /\ r.kept \subseteq Model(t).cols /\ r.filled \subseteq Model(t).cols
               /\ written[r.born].cols \ r.kept \subseteq gone[t]
    <3>1. PICK q \in command.copy : r = Part(q, S)
      BY <1>4
    <3> QED
      BY <1>5, <2>1, <3>1
  <2>4. ASSUME NEW r \in Restored(t), NEW s \in Restored(t), r.id = s.id
        PROVE  r = s
    <3>1. PICK q \in command.copy : r = Part(q, S)
      BY <1>4
    <3>2. PICK p \in command.copy : s = Part(p, S)
      BY <1>4
    <3> QED
      BY <1>5, <2>2, <2>4, <3>1, <3>2
  <2> QED
    BY <2>3, <2>4 DEF RowsFit
<1>7. ASSUME NEW b, NEW q \in command.copy, q.born = b
      PROVE  \E r \in Restored(t) : r.born = b
  BY <1>4, <1>5, <1>7
<1>8. Restored(t) \subseteq TableRow
  BY <1>4, <1>5
<1> QED
  BY <1>6, <1>7, <1>8

\* Rows of other ids put in a table fit.
LEMMA FitTogether ==
    ASSUME NEW R, NEW Q, NEW C, NEW w, NEW g,
           RowsFit(R, C, w, g), RowsFit(Q, C, w, g),
           \A r \in R, q \in Q : r.id # q.id
    PROVE  RowsFit(R \cup Q, C, w, g)
<1>1. \A r \in R \cup Q : /\ r.id \in 1 .. r.born /\ r.born \in DOMAIN w
                          /\ r.kept \subseteq C /\ r.filled \subseteq C
                          /\ w[r.born].cols \ r.kept \subseteq g
  BY DEF RowsFit
<1>2. ASSUME NEW r \in R \cup Q, NEW s \in R \cup Q, r.id = s.id
      PROVE  r = s
  BY <1>2 DEF RowsFit
<1> QED
  BY <1>1, <1>2 DEF RowsFit

\* A table with rows put in it.
WithRows(d, t, R) == [d EXCEPT ![t].rows = @ \cup R]
IsWithRows(e, d, t, R) ==
    /\ e \in Database /\ e[t] # NoTable
    /\ e[t].rows = d[t].rows \cup R
    /\ e[t].cols = d[t].cols /\ e[t].indexes = d[t].indexes
    /\ \A u \in Tables : u # t => e[u] = d[u]

LEMMA TableWithRows ==
    ASSUME NEW d \in Database, NEW t \in Tables, d[t] # NoTable, NEW R \in SUBSET TableRow
    PROVE  IsWithRows(WithRows(d, t, R), d, t, R)
<1>1. d[t] \in Table
  BY DEF Database
<1> DEFINE Q == d[t].rows \cup R
           tb == [d[t] EXCEPT !.rows = Q]
<1>2. WithRows(d, t, R) = [d EXCEPT ![t] = tb]
  BY DEF WithRows
<1>3. tb \in Table /\ tb.rows = Q /\ tb.cols = d[t].cols /\ tb.indexes = d[t].indexes
  BY <1>1 DEF Table
<1>4. tb # NoTable
  BY <1>3, NoTableIsNone
<1> HIDE DEF tb
<1> QED
  BY <1>2, <1>3, <1>4 DEF Database, IsWithRows

LEMMA RestoreStep ==
    ASSUME MigrationsInv, Restore
    PROVE  MigrationsInv'
<1> USE DEF MigrationsInv
<1>1. CASE Abandoned("overlap") \/ Abandoned("required")
  BY <1>1, AbandonedStep DEF Causes
<1>2. CASE ~(Abandoned("overlap") \/ Abandoned("required"))
  <2>0. PICK t : t = Head(command.left)
    OBVIOUS
  <2>1. /\ command.at = "created" /\ AtTable /\ t \in KitTables /\ command.left # <<>>
        /\ ~ \E r \in Restored(t), s \in schema[t].rows : r.id = s.id
        /\ saved' = (IF saved = NoTxn /\ Restored(t) # {} THEN schema ELSE saved)
        /\ schema' = [schema EXCEPT ![t].rows = @ \cup Restored(t)]
        /\ command' = NextTable
        /\ UNCHANGED <<installed, alembic, stamped, written, why, gone, torn, careless, bypassed>>
    BY <1>2, <2>0 DEF Restore, CommandTyped, AtTable, migrationHistory
  <2>2. t \in Tables /\ schema \in Database
    BY <2>1 DEF DatabaseTyped, Tables
  <2>3. /\ Restored(t) \subseteq TableRow
        /\ RowsFit(Restored(t), Model(t).cols, written, gone[t])
        /\ \A b : (\E r \in command.copy : r.born = b) => \E r \in Restored(t) : r.born = b
    BY <2>0, <2>1, RestoredRows
  <2>4. Current(t) /\ t \in command.dropped
    BY <2>0, <2>1 DEF CopyFits
  <2>5. /\ schema' \in Database /\ schema'[t] # NoTable
        /\ schema'[t].rows = schema[t].rows \cup Restored(t)
        /\ schema'[t].cols = schema[t].cols /\ schema'[t].indexes = schema[t].indexes
        /\ \A u \in Tables : u # t => schema'[u] = schema[u]
    <3>1. IsWithRows(WithRows(schema, t, Restored(t)), schema, t, Restored(t))
      BY <2>2, <2>3, <2>4, TableWithRows DEF Current
    <3>2. schema' = WithRows(schema, t, Restored(t))
      BY <2>1 DEF WithRows
    <3> QED
      BY <3>1, <3>2 DEF IsWithRows
  <2>6. /\ command' \in Command /\ command'.at = "look" /\ command'.left = Tail(command.left)
        /\ command'.named = command.named /\ command'.dropped = command.dropped
        /\ \A u : (\A i \in DOMAIN Tail(command.left) : Tail(command.left)[i] # u) =>
                 u = t \/ \A i \in DOMAIN command.left : command.left[i] # u
    BY <2>0, <2>1, NextTableIs
  <2>7. DatabaseTyped' /\ AlembicTyped' /\ HistoryTyped'
    BY <2>1, <2>5 DEF DatabaseTyped, AlembicTyped, HistoryTyped, NextRevision
  <2>8. CommandTyped' /\ ~AtTable'
    BY <2>6 DEF CommandTyped, AtTable
  <2>9. CopyFits'
    BY <2>8 DEF CopyFits
  <2>10. DatabasesFit'
    <3>1. RowsFit(schema[t].rows, schema[t].cols, written, gone[t]) /\ Descends(schema[t].cols, t)
      BY <2>1, <2>4 DEF DatabasesFit, TablesFit, Current
    <3>2. \A r \in schema[t].rows, q \in Restored(t) : r.id # q.id
      BY <2>1
    <3>3. RowsFit(schema'[t].rows, schema'[t].cols, written, gone[t]) /\ Descends(schema'[t].cols, t)
      <4>1. RowsFit(Restored(t), schema[t].cols, written, gone[t])
        BY <2>3, <2>4 DEF Current
      <4>2. RowsFit(schema[t].rows \cup Restored(t), schema[t].cols, written, gone[t])
        BY <3>1, <3>2, <4>1, FitTogether
      <4> QED
        BY <2>5, <3>1, <4>2
    <3>4. TablesFit(schema', written, gone)
      BY <2>5, <3>3 DEF DatabasesFit, TablesFit, Tables
    <3> QED
      BY <2>1, <3>4 DEF DatabasesFit
  <2>11. DoneIsCurrent'
    BY <2>1, <2>4, <2>5, <2>6 DEF DoneIsCurrent, Current, Model, Tables
  <2>12. RowsLive'
    <3> SUFFICES ASSUME NEW b \in DOMAIN written, NEW u \in KitTables, why[b] = {}, written[b].in = u
                 PROVE  RowLives(u, b)'
      BY <2>1 DEF RowsLive
    <3>1. RowLives(u, b) /\ u \in Tables
      BY DEF RowsLive, Tables
    <3>2. CASE u = t
      <4>1. \E r \in Restored(t) : r.born = b
        BY <2>0, <2>1, <2>3, <3>1, <3>2 DEF RowLives
      <4>2. \E r \in schema'[t].rows : r.born = b
        BY <2>5, <4>1
      <4> QED
        BY <2>4, <2>5, <2>6, <2>8, <3>2, <4>2 DEF RowLives, Lives
    <3>3. CASE u # t
      <4>1. Lives(schema, u, b)
        BY <2>0, <3>1, <3>3 DEF RowLives, Emptied
      <4>2. saved' # NoTxn /\ u \notin command.dropped => Lives(saved', u, b)
        BY <2>1, <3>1, <4>1 DEF RowLives
      <4> QED
        BY <2>5, <2>6, <2>8, <3>1, <3>3, <4>1, <4>2 DEF RowLives, Lives
    <3> QED
      BY <3>2, <3>3
  <2>13. \A u \in Tables : schema[u] # NoTable => schema'[u] # NoTable
    BY <2>5
  <2>14. ProjectsStay' /\ NoneDrops(KitTables)'
    BY <2>1, <2>13 DEF ProjectsStay, NoneDrops, In
  <2>15. DroppedComeBack'
    BY <2>1, <2>6, <2>13 DEF DroppedComeBack, CommandTyped, Command, Tables
  <2>16. StampedAreThere'
    <3>1. \A u \in KitTables : Stamped(u)' => Stamped(u)
      BY <2>1 DEF Stamped, Located, HeadOf
    <3> QED
      BY <2>1, <2>6, <2>13, <3>1 DEF StampedAreThere, Tables
  <2> QED
    BY <2>7, <2>8, <2>9, <2>10, <2>11, <2>12, <2>14, <2>15, <2>16
<1> QED
  BY <1>1, <1>2

-----------------------------------------------------------------------------
(* Steps of the application.                                                  *)

\* A set of natural numbers has a least.
LEMMA LeastOf ==
    ASSUME NEW S \in SUBSET Nat, S # {}
    PROVE  \E n \in S : \A m \in S : n <= m
<1> DEFINE R == {p \in Nat \X Nat : p[1] < p[2]}
<1>1. IsWellFoundedOn(R, Nat)
  BY NatLessThanWellFounded DEF OpToRel
<1> HIDE DEF R
<1>2. S \subseteq Nat
  OBVIOUS
<1>3. \E n \in S : \A m \in S : ~(<<m, n>> \in R)
  BY <1>1, <1>2, WFMin, Zenon
<1>4. PICK n \in S : \A m \in S : ~(<<m, n>> \in R)
  BY <1>3
<1>5. ASSUME NEW m \in S PROVE n <= m
  <2>1. m \in Nat /\ n \in Nat /\ ~(<<m, n>> \in R)
    BY <1>4
  <2>2. ~(m < n)
    BY <2>1 DEF R
  <2> QED
    BY <2>1, <2>2
<1> QED
  BY <1>4, <1>5

\* SQLite finds an id, larger than those of the table and no larger than the
\* number of the write.
LEMMA FreshIdFits ==
    ASSUME MigrationsInv, NEW t \in KitTables, schema[t] # NoTable, Len(written) < MaxWritten
    PROVE  FreshId(t) \in 1 .. Len(written) + 1 /\ \A r \in schema[t].rows : r.id < FreshId(t)
<1> USE DEF MigrationsInv
<1> DEFINE R == schema[t].rows
           IsFresh(n) == /\ \A r \in R : r.id < n
                         /\ n = 1 \/ \E r \in R : r.id = n - 1
           S == {n \in 1 .. MaxWritten + 1 : \A r \in R : r.id < n}
<1>1. MaxWritten \in Nat /\ Len(written) \in Nat /\ DOMAIN written = 1 .. Len(written)
  BY MigrationsAssumption DEF MigrationsAssumption, HistoryTyped
<1>2. \A r \in R : r.id \in 1 .. r.born /\ r.born \in 1 .. Len(written)
  BY <1>1 DEF DatabasesFit, TablesFit, RowsFit
<1>3. \A r \in R : r.id \in Nat /\ r.id <= Len(written) /\ r.id >= 1
  BY <1>1, <1>2
<1> HIDE DEF R
<1>4. Len(written) + 1 \in S
  BY <1>1, <1>3
<1>5. PICK m \in S : \A n \in S : m <= n
  <2>1. S \in SUBSET Nat
    BY <1>1
  <2> HIDE DEF S
  <2> QED
    BY <1>4, <2>1, LeastOf
<1>6. IsFresh(m)
  <2>1. CASE m # 1
    <3>1. m - 1 \in 1 .. MaxWritten + 1 /\ m - 1 \notin S
      BY <1>1, <1>5, <2>1
    <3>2. PICK r \in R : ~(r.id < m - 1)
      BY <3>1
    <3>3. r.id < m
      BY <1>5
    <3> QED
      BY <1>1, <1>3, <1>5, <3>2, <3>3
  <2> QED
    BY <1>5, <2>1
<1>7. FreshId(t) \in 1 .. MaxWritten + 1 /\ IsFresh(FreshId(t))
  <2>1. \E n \in 1 .. MaxWritten + 1 : IsFresh(n)
    BY <1>5, <1>6
  <2>2. FreshId(t) = CHOOSE n \in 1 .. MaxWritten + 1 : IsFresh(n)
    BY DEF FreshId, R
  <2> HIDE DEF IsFresh
  <2> QED
    BY <2>1, <2>2
<1>8. FreshId(t) <= Len(written) + 1
  BY <1>1, <1>3, <1>7
<1> QED
  BY <1>1, <1>7, <1>8 DEF R

LEMMA InsertStep ==
    ASSUME MigrationsInv, NEW t \in KitTables, Insert(t)
    PROVE  MigrationsInv'
<1> USE DEF MigrationsInv
<1> DEFINE cols == Model(t).cols
           n == Len(written) + 1
           row == [id |-> FreshId(t), born |-> n, kept |-> cols, filled |-> cols]
           w == [in |-> t, cols |-> cols]
           reason == IF Recreating(t) THEN {"overlap"} ELSE {}
<1>1. /\ saved = NoTxn /\ Len(written) < MaxWritten /\ schema[t] # NoTable /\ schema[t].cols = cols
      /\ schema' = [schema EXCEPT ![t].rows = @ \cup {row}]
      /\ written' = Append(written, w) /\ why' = Append(why, reason)
      /\ UNCHANGED <<installed, saved, command, alembic, stamped, gone, torn, careless, bypassed>>
  BY DEF Insert, Present
<1>2. cols \subseteq Columns /\ t \in Tables /\ installed \in Releasable /\ schema \in Database
  BY DEF Model, Columns, DatabaseTyped, Releasable, Tables
<1>3. FreshId(t) \in 1 .. n /\ \A r \in schema[t].rows : r.id < FreshId(t)
  BY <1>1, FreshIdFits
<1>4. /\ written \in Seq(Written) /\ why \in Seq(SUBSET Causes) /\ n \in Nat /\ Len(why) = Len(written)
      /\ MaxWritten \in Nat /\ Len(written) \in Nat /\ DOMAIN written = 1 .. Len(written)
  BY MigrationsAssumption DEF HistoryTyped, MigrationsAssumption
<1>5. w \in Written /\ w.in = t /\ w.cols = cols /\ reason \in SUBSET Causes
  BY <1>2 DEF Written, Causes
<1>6. /\ row \in TableRow /\ row.id = FreshId(t) /\ row.born = n
      /\ row.kept = cols /\ row.filled = cols
  BY <1>2, <1>3, <1>4 DEF TableRow
<1> HIDE DEF row, w, reason
<1>7. /\ DOMAIN written' = DOMAIN written \cup {n}
      /\ \A b \in DOMAIN written : /\ b \in DOMAIN written' /\ written'[b] = written[b]
                                   /\ why'[b] = why[b] /\ b # n
      /\ written'[n] = w /\ why'[n] = reason
  BY <1>1, <1>4, <1>5
<1> HIDE DEF n
<1>8. HistoryTyped'
  BY <1>1, <1>4, <1>5 DEF HistoryTyped
<1>9. /\ schema' \in Database /\ schema'[t] # NoTable
      /\ schema'[t].rows = schema[t].rows \cup {row}
      /\ schema'[t].cols = schema[t].cols /\ schema'[t].indexes = schema[t].indexes
      /\ \A u \in Tables : u # t => schema'[u] = schema[u]
  <2>1. {row} \in SUBSET TableRow
    BY <1>6
  <2>2. IsWithRows(WithRows(schema, t, {row}), schema, t, {row})
    BY <1>1, <1>2, <2>1, TableWithRows
  <2>3. schema' = WithRows(schema, t, {row})
    BY <1>1 DEF WithRows
  <2> QED
    BY <2>2, <2>3 DEF IsWithRows
<1>10. DatabaseTyped' /\ AlembicTyped' /\ CommandTyped' /\ (AtTable' <=> AtTable)
  BY <1>1, <1>9 DEF DatabaseTyped, AlembicTyped, NextRevision, CommandTyped, AtTable
<1>11. DatabasesFit'
  <2>1. TablesFit(schema, written', gone)
    BY <1>7, TablesLast DEF DatabasesFit
  <2>2. RowsFit(schema[t].rows, cols, written', gone[t]) /\ Descends(cols, t)
    BY <1>1, <2>1 DEF TablesFit
  <2>3. RowsFit({row}, cols, written', gone[t])
    BY <1>3, <1>5, <1>6, <1>7 DEF RowsFit
  <2>4. \A r \in schema[t].rows, q \in {row} : r.id # q.id
    <3>1. \A r \in schema[t].rows : r.id \in Nat
      <4>1. schema[t] \in Table
        BY <1>1, <1>2 DEF Database
      <4> QED
        BY <4>1 DEF Table, TableRow
    <3> QED
      BY <1>3, <1>6, <3>1
  <2>5. RowsFit(schema[t].rows \cup {row}, cols, written', gone[t])
    BY <2>2, <2>3, <2>4, FitTogether
  <2> QED
    BY <1>1, <1>9, <2>1, <2>2, <2>5 DEF DatabasesFit, TablesFit, Tables
<1>12. \A u \in Tables : Current(u) => Current(u)'
  BY <1>1, <1>9 DEF Current, Model
<1>13. CopyFits'
  <2>1. SUFFICES ASSUME AtTable
                 PROVE  LET h == Head(command.left) IN
                        /\ RowsFit(command.copy, command.had, written', gone[h]) /\ Descends(command.had, h)
                        /\ command.at = "copied" => schema'[h] # NoTable /\ command.had \subseteq schema'[h].cols
                        /\ command.at # "copied" => /\ h \in command.dropped
                                                    /\ command.had \ Model(h).cols \subseteq gone[h]
                        /\ command.at = "created" => Current(h)'
    BY <1>1, <1>10 DEF CopyFits, Model, Current
  <2> DEFINE h == Head(command.left)
  <2>2. /\ RowsFit(command.copy, command.had, written, gone[h]) /\ Descends(command.had, h)
        /\ h \in Tables
    BY <2>1 DEF CopyFits, CommandTyped, Tables
  <2>3. RowsFit(command.copy, command.had, written', gone[h])
    BY <1>7, <2>2, FitLasts
  <2>4. command.at = "created" => Current(h)'
    BY <1>1, <1>9, <2>1, <2>2 DEF CopyFits, Current, Model
  <2> QED
    BY <1>9, <2>1, <2>2, <2>3, <2>4 DEF CopyFits
<1>14. RowsLive'
  <2> SUFFICES ASSUME NEW b \in DOMAIN written', NEW u \in KitTables, why'[b] = {}, written'[b].in = u
               PROVE  RowLives(u, b)'
    BY DEF RowsLive
  <2>1. CASE b # n
    <3>1. RowLives(u, b) /\ u \in Tables
      BY <1>7, <2>1 DEF RowsLive, Tables
    <3> QED
      BY <1>1, <1>9, <1>10, <3>1 DEF RowLives, Lives, Emptied
  <2>2. CASE b = n
    <3>1. u = t /\ ~Recreating(t)
      BY <1>5, <1>7, <2>2 DEF reason
    <3>2. Lives(schema', t, n)
      BY <1>6, <1>9 DEF Lives
    <3> QED
      BY <1>1, <1>10, <2>2, <3>1, <3>2 DEF RowLives, Lives, Recreating, AtTable
  <2> QED
    BY <2>1, <2>2
<1>15. DoneIsCurrent'
  BY <1>1, <1>12 DEF DoneIsCurrent, Tables
<1>16. \A u \in Tables : schema'[u] # NoTable <=> schema[u] # NoTable
  BY <1>1, <1>9
<1>17. ProjectsStay' /\ NoneDrops(KitTables)'
  BY <1>1, <1>16 DEF ProjectsStay, NoneDrops, In
<1>18. DroppedComeBack' /\ StampedAreThere'
  <2>1. \A u \in KitTables : Stamped(u)' => Stamped(u)
    BY <1>1 DEF Stamped, Located, HeadOf
  <2>2. command.dropped \subseteq KitTables /\ KitTables \subseteq Tables
    BY DEF CommandTyped, Command, Tables
  <2> QED
    BY <1>1, <1>16, <2>1, <2>2 DEF DroppedComeBack, StampedAreThere
<1> QED
  BY <1>8, <1>10, <1>11, <1>13, <1>14, <1>15, <1>17, <1>18

\* A table that was there when the application starts has the columns of the
\* model too, and its rows are as they were but for the defaults of those.
GrownRows(Q, R, cols) ==
    /\ \A q \in Q : \E r \in R : /\ q.id = r.id /\ q.born = r.born /\ q.kept = r.kept
                                 /\ q.filled \subseteq r.filled \cup cols
    /\ (\A r, s \in R : r.id = s.id => r = s) => \A p, q \in Q : p.id = q.id => p = q
    /\ \A r \in R : \E q \in Q : q.born = r.born
GrownTable(u) ==
    /\ schema'[u] \in Table /\ schema'[u] # NoTable
    /\ schema'[u].cols = schema[u].cols \cup Model(u).cols
    /\ schema'[u].indexes = schema[u].indexes
    /\ GrownRows(schema'[u].rows, schema[u].rows, Model(u).cols)

LEMMA TablesGrow ==
    ASSUME MigrationsInv, Start, NEW u \in KitTables, schema[u] # NoTable
    PROVE  GrownTable(u)
<1> USE DEF MigrationsInv
<1>1. schema[u] \in Table /\ u \in Tables /\ installed \in Releasable
  BY DEF DatabaseTyped, Database, Tables
<1> DEFINE M == Model(u).cols
           N == Model(u).required \ schema[u].cols
           G(r) == [r EXCEPT !.filled = @ \cup N]
           R == schema[u].rows
           C == schema[u].cols \cup M
           Q == {G(r) : r \in R}
<1>2. M \subseteq Columns /\ N \subseteq M
  BY <1>1, MigrationsAssumption DEF Model, Columns, Releasable, MigrationsAssumption
<1>3. schema'[u] = [schema[u] EXCEPT !.cols = C, !.rows = Q]
  <2>1. schema'[u] = Grown(u)
    BY <1>1 DEF Start
  <2> QED
    BY <2>1, Zenon DEF Grown
<1>4. /\ R \subseteq TableRow /\ C \subseteq Columns
      /\ schema[u] = [cols |-> schema[u].cols, indexes |-> schema[u].indexes, rows |-> R]
  BY <1>1, <1>2 DEF Table
<1> HIDE DEF N, M
<1>5. \A r \in R : /\ G(r) \in TableRow /\ G(r).id = r.id /\ G(r).born = r.born
                   /\ G(r).kept = r.kept /\ G(r).filled = r.filled \cup N
  BY <1>2, <1>4 DEF TableRow
<1> HIDE DEF G
<1>6. Q \subseteq TableRow
  BY <1>5
<1>7. schema'[u] = [cols |-> C, indexes |-> schema[u].indexes, rows |-> Q]
  <2> HIDE DEF Q, C, R
  <2> QED
    BY <1>3, <1>4
<1>8. schema'[u] \in Table
  BY <1>1, <1>4, <1>6, <1>7 DEF Table
<1>9. schema'[u] # NoTable
  BY <1>8, NoTableIsNone
<1>10. schema'[u].cols = C /\ schema'[u].indexes = schema[u].indexes /\ schema'[u].rows = Q
  BY <1>7
<1>11. GrownRows(Q, R, M)
  <2>1. ASSUME NEW q \in Q
        PROVE  \E r \in R : /\ q.id = r.id /\ q.born = r.born /\ q.kept = r.kept
                            /\ q.filled \subseteq r.filled \cup M
    BY <1>2, <1>5
  <2>2. ASSUME \A r, s \in R : r.id = s.id => r = s, NEW p \in Q, NEW q \in Q, p.id = q.id
        PROVE  p = q
    <3>1. PICK r \in R : q = G(r)
      OBVIOUS
    <3>2. PICK s \in R : p = G(s)
      OBVIOUS
    <3> QED
      BY <1>5, <2>2, <3>1, <3>2
  <2>3. ASSUME NEW r \in R
        PROVE  \E q \in Q : q.born = r.born
    BY <1>5
  <2> QED
    BY <2>1, <2>2, <2>3 DEF GrownRows
<1> HIDE DEF Q
<1> QED
  BY <1>8, <1>9, <1>10, <1>11 DEF GrownTable, M

LEMMA StartStep ==
    ASSUME MigrationsInv, Start
    PROVE  MigrationsInv'
<1> USE DEF MigrationsInv
<1>1. /\ saved = NoTxn
      /\ schema' = [t \in Tables |-> IF t \in KitTables THEN Grown(t) ELSE schema[t]]
      /\ UNCHANGED <<installed, saved, command, alembic, stamped, written, why, torn, careless, bypassed>>
  BY DEF Start
<1>2. \A u \in KitTables : /\ u \in Tables /\ installed \in Releasable
                           /\ schema[u] # NoTable => GrownTable(u)
                           /\ schema[u] = NoTable => schema'[u] = Created(u, installed)
  <2>1. \A u \in KitTables : schema[u] = NoTable => Grown(u) = Created(u, installed)
    BY DEF Grown
  <2>2. \A u \in KitTables : schema'[u] = Grown(u)
    BY <1>1 DEF Tables
  <2>3. \A u \in KitTables : schema[u] # NoTable => GrownTable(u)
    BY TablesGrow
  <2> QED
    BY <2>1, <2>2, <2>3 DEF Tables, DatabaseTyped
<1>3. \A u \in KitTables : schema'[u] \in Table /\ schema'[u] # NoTable
  BY <1>2, CreatedTable DEF GrownTable
<1>4. \A u \in Tables : u \notin KitTables => schema'[u] = schema[u]
  BY <1>1
<1>5. schema' \in Database
  BY <1>1, <1>3, <1>4 DEF DatabaseTyped, Database
<1>6. /\ gone' \in [KitTables -> SUBSET Columns]
      /\ \A u \in KitTables : gone[u] \subseteq gone'[u]
      /\ \A u \in KitTables : schema[u] # NoTable => Model(u).cols \ schema[u].cols \subseteq gone'[u]
  <2>1. \A u \in KitTables : Model(u).cols \subseteq Columns
    BY DEF Model, Columns, DatabaseTyped, Releasable
  <2>2. gone' = [u \in KitTables |-> gone[u] \cup (IF u \in Present THEN Model(u).cols \ schema[u].cols ELSE {})]
    BY DEF Start
  <2> QED
    BY <1>2, <2>1, <2>2 DEF HistoryTyped, Present
<1>7. DatabaseTyped' /\ AlembicTyped' /\ HistoryTyped' /\ CommandTyped' /\ (AtTable' <=> AtTable)
  BY <1>1, <1>5, <1>6
  DEF DatabaseTyped, AlembicTyped, HistoryTyped, NextRevision, CommandTyped, AtTable
<1>8. DatabasesFit'
  <2>1. ASSUME NEW u \in KitTables, schema[u] # NoTable
        PROVE  RowsFit(schema'[u].rows, schema'[u].cols, written, gone'[u]) /\ Descends(schema'[u].cols, u)
    <3>1. GrownTable(u)
      BY <1>2, <2>1
    <3>2. RowsFit(schema[u].rows, schema[u].cols, written, gone[u]) /\ Descends(schema[u].cols, u)
      BY <2>1 DEF DatabasesFit, TablesFit
    <3>3. ASSUME NEW q \in schema'[u].rows
          PROVE  /\ q.id \in 1 .. q.born /\ q.born \in DOMAIN written
                 /\ q.kept \subseteq schema'[u].cols /\ q.filled \subseteq schema'[u].cols
                 /\ written[q.born].cols \ q.kept \subseteq gone'[u]
      <4>1. PICK r \in schema[u].rows : /\ q.id = r.id /\ q.born = r.born /\ q.kept = r.kept
                                        /\ q.filled \subseteq r.filled \cup Model(u).cols
        BY <3>1 DEF GrownTable, GrownRows
      <4>2. schema'[u].cols = schema[u].cols \cup Model(u).cols
        BY <3>1 DEF GrownTable
      <4>3. /\ r.id \in 1 .. r.born /\ r.born \in DOMAIN written
            /\ r.kept \subseteq schema[u].cols /\ r.filled \subseteq schema[u].cols
            /\ written[r.born].cols \ r.kept \subseteq gone[u]
        BY <3>2 DEF RowsFit
      <4> QED
        BY <1>6, <4>1, <4>2, <4>3
    <3>4. ASSUME NEW q \in schema'[u].rows, NEW p \in schema'[u].rows, q.id = p.id
          PROVE  q = p
      BY <3>1, <3>2, <3>4 DEF GrownTable, GrownRows, RowsFit
    <3> QED
      BY <3>1, <3>2, <3>3, <3>4 DEF RowsFit, Descends, GrownTable
  <2>2. ASSUME NEW u \in KitTables, schema[u] = NoTable
        PROVE  RowsFit(schema'[u].rows, schema'[u].cols, written, gone'[u]) /\ Descends(schema'[u].cols, u)
    BY <1>2, <2>2, CreatedFits
  <2> QED
    BY <1>1, <2>1, <2>2 DEF DatabasesFit, TablesFit
<1>9. \A u \in KitTables : Current(u) => Current(u)'
  <2> SUFFICES ASSUME NEW u \in KitTables, Current(u)
               PROVE  Current(u)'
    OBVIOUS
  <2>1. GrownTable(u)
    BY <1>2 DEF Current
  <2> QED
    BY <1>1, <2>1 DEF Current, Model, GrownTable
<1>10. CopyFits'
  <2>1. CASE AtTable
    <3>1. PICK h \in KitTables : h = Head(command.left)
      BY <2>1 DEF CommandTyped
    <3>2. /\ RowsFit(command.copy, command.had, written, gone[h]) /\ Descends(command.had, h)
          /\ command.at = "copied" => schema[h] # NoTable /\ command.had \subseteq schema[h].cols
          /\ command.at # "copied" => /\ h \in command.dropped
                                      /\ command.had \ Model(h).cols \subseteq gone[h]
          /\ command.at = "created" => Current(h)
      BY <2>1, <3>1 DEF CopyFits
    <3>3. RowsFit(command.copy, command.had, written, gone'[h])
      BY <1>6, <3>2, FitLasts
    <3>4. command.at = "copied" => schema'[h] # NoTable /\ command.had \subseteq schema'[h].cols
      BY <1>2, <3>2 DEF GrownTable
    <3> QED
      BY <1>1, <1>6, <1>9, <3>1, <3>2, <3>3, <3>4 DEF CopyFits, Model
  <2> QED
    BY <1>7, <2>1 DEF CopyFits
<1>11. RowsLive'
  <2> SUFFICES ASSUME NEW b \in DOMAIN written, NEW u \in KitTables, why[b] = {}, written[b].in = u
               PROVE  RowLives(u, b)'
    BY <1>1 DEF RowsLive
  <2>1. RowLives(u, b)
    BY DEF RowsLive
  <2>2. Lives(schema, u, b) => Lives(schema', u, b)
    BY <1>2 DEF Lives, GrownTable, GrownRows
  <2> QED
    BY <1>1, <1>7, <2>1, <2>2 DEF RowLives, Emptied, Lives
<1>12. DoneIsCurrent'
  BY <1>1, <1>9 DEF DoneIsCurrent
<1>13. ProjectsStay' /\ NoneDrops(KitTables)'
  <2>1. \A u \in Tables : schema[u] # NoTable => schema'[u] # NoTable
    BY <1>3, <1>4
  <2> QED
    BY <1>1, <2>1 DEF ProjectsStay, NoneDrops, In
<1>14. DroppedComeBack' /\ StampedAreThere'
  BY <1>1, <1>3 DEF DroppedComeBack, StampedAreThere, CommandTyped, Command
<1> QED
  BY <1>7, <1>8, <1>10, <1>11, <1>12, <1>13, <1>14

-----------------------------------------------------------------------------
(* fak migrate-alembic.                                                       *)

LEMMA UpgradeOneStep ==
    ASSUME MigrationsInv, UpgradeOne
    PROVE  MigrationsInv'
<1> USE DEF MigrationsInv
<1> DEFINE k == Following - alembic.first + 1
           r == Pending
<1>1. /\ command.at \in {"idle", "done"} /\ saved = NoTxn
      /\ Located(alembic) /\ stamped < HeadOf(alembic) /\ command' = Idle
      /\ UNCHANGED <<installed, saved, alembic, written, why, gone, torn, careless, bypassed>>
  BY DEF UpgradeOne, CommandTyped, migrationHistory
<1>2. /\ alembic.versions \in Seq(Revision) /\ alembic.first \in Nat \ {0} /\ stamped \in Nat
      /\ alembic.versions # <<>>
      /\ HeadOf(alembic) = alembic.first + Len(alembic.versions) - 1
  BY <1>1 DEF AlembicTyped, Alembic, HeadOf
<1>3. /\ Following \in alembic.first .. HeadOf(alembic) /\ Following \in Nat /\ k \in DOMAIN alembic.versions
      /\ \A n \in alembic.first .. Following : n = Following \/ (stamped # 0 /\ n \in alembic.first .. stamped)
  <2>1. Len(alembic.versions) \in Nat \ {0} /\ DOMAIN alembic.versions = 1 .. Len(alembic.versions)
    BY <1>2
  <2> DEFINE L == Len(alembic.versions)
             first == alembic.first
  <2>2. stamped = 0 \/ stamped \in first .. first + L - 1
    BY <1>1, <1>2 DEF Located
  <2>3. stamped < first + L - 1 /\ first \in Nat \ {0} /\ stamped \in Nat /\ HeadOf(alembic) = first + L - 1
    BY <1>1, <1>2
  <2> HIDE DEF L, first
  <2>4. CASE stamped = 0
    <3>1. Following = first
      BY <2>4 DEF Following, first
    <3> QED
      BY <2>1, <2>3, <2>4, <3>1 DEF L, first
  <2>5. CASE stamped # 0
    <3>1. Following = stamped + 1
      BY <2>5 DEF Following
    <3> QED
      BY <2>1, <2>2, <2>3, <2>5, <3>1 DEF L, first
  <2> QED
    BY <2>4, <2>5
<1>4. r \in Revision /\ r.drop \cap KitTables = {} /\ (~careless => r.drop \cap ProjectTables = {})
  <2>1. r = alembic.versions[k]
    BY DEF Pending
  <2>2. r \in Revision
    BY <1>2, <1>3, <2>1
  <2> HIDE DEF r, k
  <2> QED
    BY <1>3, <2>1, <2>2 DEF NoneDrops, ProjectsStay
<1>5. PICK made, dropped \in SUBSET Tables :
         /\ made \cap Present = {} /\ dropped \subseteq r.drop /\ made \subseteq r.make
         /\ schema' = After(made, dropped, r.of)
         /\ stamped' = stamped \/ (stamped' = Following /\ made = r.make)
  <2>1. r.make \subseteq Tables /\ r.drop \subseteq Tables /\ {} \subseteq Tables
    BY <1>4 DEF Revision
  <2>2. \/ /\ stamped' = Following /\ r.make \cap Present = {}
           /\ schema' = After(r.make, r.drop, r.of)
        \/ /\ stamped' = stamped
           /\ \E made \in SUBSET (r.make \ Present) : schema' = After(made, {}, r.of)
    BY DEF UpgradeOne
  <2>3. CASE /\ stamped' = Following /\ r.make \cap Present = {}
             /\ schema' = After(r.make, r.drop, r.of)
    BY <2>1, <2>3
  <2>4. CASE /\ stamped' = stamped
             /\ \E made \in SUBSET (r.make \ Present) : schema' = After(made, {}, r.of)
    <3>1. PICK made \in SUBSET (r.make \ Present) : schema' = After(made, {}, r.of)
      BY <2>4
    <3> QED
      BY <2>1, <2>4, <3>1
  <2> QED
    BY <2>2, <2>3, <2>4
<1>6. r.of \in Releasable /\ \A t \in Tables : Created(t, r.of) \in Table /\ Created(t, r.of) # NoTable
  BY <1>4, CreatedTable DEF Revision
<1>7. dropped \cap KitTables = {} /\ (~careless => dropped \cap ProjectTables = {})
  BY <1>4, <1>5
<1> HIDE DEF r
<1>8. /\ \A t \in Tables : t \in made => schema[t] = NoTable /\ schema'[t] = Created(t, r.of)
      /\ \A t \in Tables : t \notin made /\ t \notin dropped => schema'[t] = schema[t]
      /\ \A t \in Tables : schema[t] # NoTable /\ t \notin dropped => schema'[t] = schema[t]
  BY <1>5 DEF Present, After
<1>9. schema' \in Database
  BY <1>5, <1>6 DEF DatabaseTyped, Database, After
<1>10. DatabaseTyped' /\ HistoryTyped'
  BY <1>1, <1>9 DEF DatabaseTyped, HistoryTyped
<1>11. AlembicTyped'
  <2>1. stamped' \in Nat /\ stamped' < NextRevision(alembic)
    <3>1. stamped < NextRevision(alembic)
      BY DEF AlembicTyped
    <3>2. NextRevision(alembic) = HeadOf(alembic) + 1
      BY <1>2 DEF NextRevision
    <3>3. HeadOf(alembic) \in Nat
      BY <1>2
    <3>4. Following \in Nat /\ Following <= HeadOf(alembic)
      BY <1>3, <1>2
    <3>5. stamped' = stamped \/ stamped' = Following
      BY <1>5
    <3>6. CASE stamped' = stamped
      BY <1>2, <3>1, <3>6
    <3>7. CASE stamped' = Following
      <4>1. Following < HeadOf(alembic) + 1
        BY <3>3, <3>4
      <4> QED
        BY <3>2, <3>4, <3>7, <4>1
    <3> QED
      BY <3>5, <3>6, <3>7
  <2> QED
    BY <1>1, <2>1 DEF AlembicTyped, NextRevision
<1>12. CommandTyped' /\ ~AtTable' /\ command'.dropped = {} /\ command'.named = {}
  BY <1>1 DEF CommandTyped, AtTable, Command, Phases, Idle
<1>13. DatabasesFit'
  <2>1. ASSUME NEW u \in KitTables, schema'[u] # NoTable
        PROVE  RowsFit(schema'[u].rows, schema'[u].cols, written, gone[u]) /\ Descends(schema'[u].cols, u)
    <3>1. u \in Tables /\ u \notin dropped
      BY <1>7 DEF Tables
    <3>2. CASE u \in made
      BY <1>6, <1>8, <3>1, <3>2, CreatedFits
    <3>3. CASE u \notin made
      BY <1>8, <2>1, <3>1, <3>3 DEF DatabasesFit, TablesFit
    <3> QED
      BY <3>2, <3>3
  <2> QED
    BY <1>1, <2>1 DEF DatabasesFit, TablesFit
<1>14. CopyFits' /\ DoneIsCurrent' /\ DroppedComeBack'
  BY <1>12 DEF CopyFits, DoneIsCurrent, DroppedComeBack
<1>15. RowsLive'
  <2> SUFFICES ASSUME NEW b \in DOMAIN written, NEW u \in KitTables, why[b] = {}, written[b].in = u
               PROVE  RowLives(u, b)'
    BY <1>1 DEF RowsLive
  <2>1. RowLives(u, b) /\ u \in Tables /\ u \notin dropped
    BY <1>7 DEF RowsLive, Tables
  <2>2. Lives(schema, u, b)
    BY <1>1, <2>1 DEF RowLives, Emptied
  <2> QED
    BY <1>1, <1>8, <1>12, <2>1, <2>2 DEF RowLives, Lives
<1>16. ProjectsStay' /\ NoneDrops(KitTables)'
  BY <1>1, <1>7, <1>8 DEF ProjectsStay, NoneDrops, In
<1>17. StampedAreThere'
  <2> SUFFICES ASSUME NEW u \in KitTables, Stamped(u)'
               PROVE  u \in torn \/ schema'[u] # NoTable
    BY <1>1 DEF StampedAreThere
  <2>1. u \in Tables /\ u \notin dropped
    BY <1>7 DEF Tables
  <2>2. CASE Stamped(u)
    <3>1. u \in torn \cup command.dropped \/ schema[u] # NoTable
      BY <2>2 DEF StampedAreThere
    <3>2. u \in torn \/ schema[u] # NoTable
      BY <1>1, <3>1 DEF DroppedComeBack
    <3> QED
      BY <1>8, <2>1, <3>2
  <2>3. CASE ~Stamped(u)
    <3>1. stamped' # stamped
      BY <1>1, <2>3 DEF Stamped, Located, HeadOf
    <3>2. stamped' = Following /\ made = r.make
      BY <1>5, <3>1
    <3>3. PICK n \in alembic.first .. Following : u \in alembic.versions[n - alembic.first + 1].make
      BY <1>1, <3>2 DEF Stamped
    <3>4. ~bypassed
      BY <1>1 DEF Stamped
    <3>5. n = Following
      BY <1>1, <1>3, <2>3, <3>3, <3>4 DEF Stamped
    <3>6. u \in made
      BY <3>2, <3>3, <3>5 DEF r, Pending
    <3> QED
      BY <1>6, <1>8, <2>1, <3>6
  <2> QED
    BY <2>2, <2>3
<1> QED
  BY <1>10, <1>11, <1>12, <1>13, <1>14, <1>15, <1>16, <1>17

-----------------------------------------------------------------------------
LEMMA MigrationsStutter ==
    ASSUME MigrationsInv, UNCHANGED migrationVars
    PROVE  MigrationsInv'
<1> USE DEF MigrationsInv
<1>1. /\ UNCHANGED <<installed, schema, saved, command, written, why, gone, torn>>
      /\ UNCHANGED <<alembic, stamped, careless, bypassed>>
  BY DEF migrationVars
<1>2. AlembicTyped' /\ ProjectsStay' /\ NoneDrops(KitTables)' /\ StampedAreThere'
  BY <1>1 DEF AlembicTyped, NextRevision, ProjectsStay, NoneDrops, In, StampedAreThere, Stamped,
              Located, HeadOf
<1> QED
  BY <1>1, <1>2, AlembicAlone

LEMMA MigrationsNextStep ==
    ASSUME MigrationsInv, [MigrationsNext]_migrationVars
    PROVE  MigrationsInv'
<1>1. CASE UNCHANGED migrationVars
  BY <1>1, MigrationsStutter
<1>2. ASSUME NEW t \in KitTables, Insert(t) PROVE MigrationsInv'
  BY <1>2, InsertStep
<1>3. ASSUME NEW ts \in Commands, Migrate(ts) PROVE MigrationsInv'
  BY <1>3, MigrateStep
<1>4. ASSUME NEW force \in BOOLEAN, NEW auto \in BOOLEAN, NEW baseline \in BOOLEAN,
             InitAlembic(force, auto, baseline)
      PROVE  MigrationsInv'
  BY <1>4, InitAlembicStep
<1>5. CASE Start \/ Install \/ EditEnv \/ Revise \/ UpgradeOne
  BY <1>5, StartStep, InstallStep, EditEnvStep, ReviseStep, UpgradeOneStep
<1>6. CASE Look \/ Drop \/ CreateTable \/ Restore \/ CommitMigration
  BY <1>6, LookStep, DropStep, CreateTableStep, RestoreStep, CommitMigrationStep
<1>7. CASE Crash
  BY <1>7, AbandonedStep DEF Crash, Causes
<1> QED
  BY <1>1, <1>2, <1>3, <1>4, <1>5, <1>6, <1>7 DEF MigrationsNext

LEMMA MigrationsInvariance == MigrationsSpec => []MigrationsInv
<1> QED
  BY MigrationsInitially, MigrationsNextStep, PTL DEF MigrationsSpec

\* However commands, crashes, releases and a serving application interleave, a
\* migration loses a row only for the causes named and a column only that the
\* table was without for a time, one that ends well leaves the tables of the
\* models, a project's table goes only by a revision that did not know it, and
\* a stamp is true but for the two ways to make it false (cli/migrate.py).
THEOREM MigrationsLoseNothingElse == MigrationsSpec => []MigrationsAreExplained
<1>1. ASSUME MigrationsInv PROVE MigrationsAreExplained
  <2> USE <1>1 DEF MigrationsInv
  <2>1. MigrationsTypeOK
    <3>1. ASSUME NEW t \in KitTables, schema[t] # NoTable
          PROVE  /\ schema[t].rows \subseteq [id : 1 .. MaxWritten, born : DOMAIN written,
                                      kept : SUBSET schema[t].cols, filled : SUBSET schema[t].cols]
                 /\ \A r, s \in schema[t].rows : r.id = s.id => r = s
      <4>1. RowsFit(schema[t].rows, schema[t].cols, written, gone[t])
        BY <3>1 DEF DatabasesFit, TablesFit
      <4>2. schema[t].rows \subseteq TableRow
        <5>1. schema[t] \in Table
          BY <3>1 DEF DatabaseTyped, Database, Tables
        <5> QED
          BY <5>1 DEF Table
      <4>3. DOMAIN written = 1 .. Len(written) /\ Len(written) \in Nat /\ Len(written) <= MaxWritten
              /\ MaxWritten \in Nat
        BY MigrationsAssumption DEF HistoryTyped, MigrationsAssumption
      <4>4. ASSUME NEW r \in schema[t].rows
            PROVE  /\ r.id \in 1 .. MaxWritten /\ r.born \in DOMAIN written
                   /\ r.kept \subseteq schema[t].cols /\ r.filled \subseteq schema[t].cols
        BY <4>1, <4>3 DEF RowsFit
      <4>5. \A r \in schema[t].rows :
              r = [id |-> r.id, born |-> r.born, kept |-> r.kept, filled |-> r.filled]
        BY <4>2 DEF TableRow
      <4> QED
        BY <4>1, <4>4, <4>5 DEF RowsFit
    <3>2. \A t \in Present \cap KitTables : t \in KitTables /\ schema[t] # NoTable
      BY DEF Present
    <3>3. stamped \in 0 .. MaxRevisions
      <4>1. NextRevision(alembic) \in Nat /\ MaxRevisions \in Nat
        BY MigrationsAssumption DEF AlembicTyped, Alembic, NextRevision, MigrationsAssumption
      <4> QED
        BY <4>1 DEF AlembicTyped
    <3> QED
      BY <3>1, <3>2, <3>3 DEF MigrationsTypeOK, DatabaseTyped, CommandTyped, Command, Phases
  <2>2. RowsSurvive
    <3> SUFFICES ASSUME command.at \in {"idle", "done"}, NEW b \in DOMAIN written, why[b] = {}
                 PROVE  \E r \in RowsOf(written[b].in) : r.born = b
      BY DEF RowsSurvive
    <3>1. written[b] \in Written
      BY DEF HistoryTyped
    <3>2. written[b].in \in KitTables
      BY <3>1 DEF Written
    <3>3. RowLives(written[b].in, b)
      BY <3>2 DEF RowsLive
    <3>4. Lives(schema, written[b].in, b)
      BY <3>3 DEF RowLives, Emptied
    <3> QED
      BY <3>2, <3>4 DEF Lives, RowsOf, Present, Tables
  <2>3. ColumnsSurvive
    <3>1. ASSUME NEW t \in KitTables, NEW r \in RowsOf(t)
          PROVE  written[r.born].cols \ r.kept \subseteq gone[t]
      <4>1. schema[t] # NoTable /\ r \in schema[t].rows
        BY <3>1 DEF RowsOf, Present
      <4> QED
        BY <4>1 DEF DatabasesFit, TablesFit, RowsFit
    <3> QED
      BY <3>1 DEF ColumnsSurvive
  <2>4. MigratedIsCurrent
    <3>1. ASSUME command.at = "done", NEW t \in command.named \cap KitTables
          PROVE  Current(t)
      <4>1. DOMAIN command.left = {}
        BY <3>1 DEF CommandTyped
      <4> QED
        BY <4>1 DEF DoneIsCurrent
    <3> QED
      BY <3>1 DEF MigratedIsCurrent, Current, Present, Tables
  <2>5. ProjectTablesSurvive
    BY DEF ProjectsStay, ProjectTablesSurvive, In, Present
  <2>6. StampIsTrue
    <3> SUFFICES ASSUME ~bypassed, stamped # 0, Located(alembic), command.at \in {"idle", "done"},
                        NEW n \in alembic.first .. stamped,
                        NEW t \in alembic.versions[n - alembic.first + 1].make \cap KitTables
                 PROVE  t \in Present \cup torn
      BY DEF StampIsTrue
    <3>1. Stamped(t)
      BY DEF Stamped
    <3>2. t \in torn \cup command.dropped \/ schema[t] # NoTable
      BY <3>1 DEF StampedAreThere
    <3>3. t \in torn \/ schema[t] # NoTable
      BY <3>2 DEF DroppedComeBack
    <3> QED
      BY <3>3 DEF Present, Tables
  <2> QED
    BY <2>1, <2>2, <2>3, <2>4, <2>5, <2>6 DEF MigrationsAreExplained
<1> QED
  BY <1>1, MigrationsInvariance, PTL
=============================================================================
