------------------------------- MODULE Records -------------------------------
(***************************************************************************)
(* The rows of a registered model: the create and edit forms with a file   *)
(* field and an inline formset, the JSON endpoints, deletion, the bulk     *)
(* action "delete_selected" and the import, in requests that overlap.      *)
(*                                                                         *)
(* Sources: views/class_views.py (CreateView, EditView, DeleteView,        *)
(* BulkView), views/renderers.py (HTMLFormParser, JSONBodyParser),         *)
(* views/file_handler.py, storage/local.py, views/model_saver.py,          *)
(* export_import/base.py (import_data), router.py (the import endpoint),   *)
(* notifications/dispatcher.py, db.py (the commit after the response).     *)
(*                                                                         *)
(* The model has a unique column "key", a plain column "note", a file      *)
(* column, and children that refer to it by a foreign key.  A transaction  *)
(* keeps the rows it wrote in tx until it commits; a statement waits for   *)
(* the transactions that wrote what it touches, and then succeeds or       *)
(* raises.  Storage has no transaction: a file saved or deleted stays so.  *)
(***************************************************************************)
EXTENDS Naturals, Sequences, FiniteSets

CONSTANTS
    Requests,   \* the requests of a behaviour, each served once
    Keys,       \* values of the unique column
    Notes,      \* values of the plain column
    Sheets,     \* the files that can be imported: sequences of lines
    Selections, \* the selections of a bulk action: sequences of ids
    MaxId,      \* how far the sequence of primary keys runs
    Bad,        \* a line of a sheet that fails validate_row
    None        \* no row, no file, no parent

\* None is nobody, no row and no file; the two rows of the start have ids, and
\* nobody writes a file "old" again.
ASSUME NoneAssumption == None \notin Requests \cup Keys \cup Nat \cup {"old"}
ASSUME NoneIsNoRow == None \notin [key : Keys, note : Notes, file : Requests \cup {"old", None}]
ASSUME IdAssumption == MaxId \in Nat /\ MaxId >= 2
ASSUME NameAssumption == "old" \notin Requests /\ 0 \notin Requests
ASSUME SheetAssumption ==
    /\ Bad \notin [key : Keys, note : Notes]
    /\ Sheets \subseteq Seq([key : Keys, note : Notes] \cup {Bad})
    /\ Selections \subseteq Seq(1 .. MaxId)

Ids == 1 .. MaxId
Kids == {0} \cup Requests           \* a child from the start, one per inline form
Files == {"old"} \cup Requests      \* an upload has a name of its own
Row == [key : Keys, note : Notes, file : Files \cup {None}]
Line == [key : Keys, note : Notes]

VARIABLES
    rows,       \* the committed rows of the model
    kids,       \* the committed children: the row each refers to
    files,      \* what the storage directory holds
    notices,    \* committed notifications: <<event, id>>
    nextId,     \* the sequence of primary keys
    notify,     \* is change_notifications enabled, with someone to notify
    kind,       \* kind[r]: the endpoint r calls
    stage,      \* stage[r]: how far r is
    job,        \* job[r]: what r asks for, and how far it is with a list
    loaded,     \* loaded[r]: the row as the session of r read it
    pend,       \* pend[r]: what the session of r emits at its next flush
    tx,         \* tx[r]: rows written by the open transaction of r
    kx,         \* kx[r]: children written by the open transaction of r
    result,     \* result[r]: what the client was told
    opened,     \* history: the row as the edit page showed it
    dropped,    \* history: the file r deleted from storage
    saved       \* history: the rows r has committed, 0 standing for children

db == <<rows, kids, nextId>>
world == <<files, notices, notify>>
session == <<pend, tx, kx>>
history == <<opened, dropped, saved>>
vars == <<db, world, kind, stage, job, loaded, session, result, history>>

Kinds == {"idle", "create", "edit", "put", "field", "delete", "bulk",
          "import"}
Stages == {"idle", "open", "parse", "save", "inline", "delete", "next", "notice",
           "line", "flush", "list", "dispatch", "commit", "done"}
Results == {"none", "ok", "missing", "invalid", "rejected", "failed"}

NoJob == [id |-> 0, post |-> <<>>, act |-> "keep", inline |-> "none", kid |-> None,
          ids |-> <<>>, list |-> <<>>, by |-> "key", pos |-> 1, made |-> {}, errors |-> 0,
          updated |-> 0, broken |-> FALSE]

Init ==
    /\ \E k1, k2 \in Keys, n \in Notes :
           /\ k1 # k2
           /\ rows = [i \in Ids |->
                        CASE i = 1 -> [key |-> k1, note |-> n, file |-> "old"]
                          [] i = 2 -> [key |-> k2, note |-> n, file |-> None]
                          [] OTHER -> None]
    /\ kids = [c \in Kids |-> IF c = 0 THEN 2 ELSE None]
    /\ files = {"old"} /\ notices = {} /\ nextId = 3 /\ notify \in BOOLEAN
    /\ kind = [r \in Requests |-> "idle"] /\ stage = [r \in Requests |-> "idle"]
    /\ job = [r \in Requests |-> NoJob] /\ loaded = [r \in Requests |-> None]
    /\ pend = [r \in Requests |-> {}]
    /\ tx = [r \in Requests |-> <<>>] /\ kx = [r \in Requests |-> <<>>]
    /\ result = [r \in Requests |-> "none"]
    /\ opened = [r \in Requests |-> None] /\ dropped = [r \in Requests |-> None]
    /\ saved = [r \in Requests |-> {}]

-----------------------------------------------------------------------------
(***************************************************************************)
(* Transactions.  A statement is [op, id, set]: set gives the columns of   *)
(* an INSERT, or those an UPDATE changes.                                  *)
(***************************************************************************)

\* f where it is defined, g elsewhere: what one writes lies over what was there.
Over(f, g) == [x \in DOMAIN f \cup DOMAIN g |-> IF x \in DOMAIN f THEN f[x] ELSE g[x]]

RowsOf(r) == Over(tx[r], rows)
KidsOf(r) == Over(kx[r], kids)
KeyOf(row) == IF row = None THEN None ELSE row.key

Insert(i, row) == [op |-> "insert", id |-> i, set |-> row]
Update(i, set) == [op |-> "update", id |-> i, set |-> set]
Delete(i) == [op |-> "delete", id |-> i, set |-> <<>>]

SetsKey(s) == "key" \in DOMAIN s.set

\* The unique index: another transaction is taking the key, or giving it up.
KeyLocked(r, k) ==
    \E q \in Requests \ {r} : \E i \in DOMAIN tx[q] :
        /\ KeyOf(tx[q][i]) # KeyOf(rows[i])
        /\ k \in {KeyOf(tx[q][i]), KeyOf(rows[i])}

\* Another transaction wrote the row, deletes or claims its key, or adds a child.
Waits(r, s) ==
    \/ \E q \in Requests \ {r} : s.id \in DOMAIN tx[q]
    \/ SetsKey(s) /\ KeyLocked(r, s.set.key)
    \/ s.op = "delete" /\ \E q \in Requests \ {r} : \E c \in DOMAIN kx[q] : kx[q][c] = s.id

\* The unique index, the foreign key, and the row count an UPDATE must reach.
\* (A DELETE of a row that is gone is only a warning.)
Raises(r, s) ==
    \/ SetsKey(s) /\ \/ \E j \in Ids \ {s.id} : KeyOf(RowsOf(r)[j]) = s.set.key
                     \/ \E t \in pend[r] \ {s} : SetsKey(t) /\ t.set.key = s.set.key
    \/ s.op = "update" /\ RowsOf(r)[s.id] = None
    \/ s.op = "delete" /\ \E c \in Kids : KidsOf(r)[c] = s.id

Written(r, s) ==
    CASE s.op = "insert" -> s.set
      [] s.op = "update" -> Over(s.set, RowsOf(r)[s.id])
      [] s.op = "delete" -> None

Goto(r, s) == stage' = [stage EXCEPT ![r] = s]

\* A commit: what r has written is what the others read from now on.
Apply(r) ==
    /\ rows' = RowsOf(r)
    /\ kids' = KidsOf(r)
    /\ saved' = [saved EXCEPT ![r] = @ \cup DOMAIN tx[r] \cup
                                     (IF kx[r] = <<>> THEN {} ELSE {0})]
    /\ tx' = [tx EXCEPT ![r] = <<>>]
    /\ kx' = [kx EXCEPT ![r] = <<>>]

\* The transaction is rolled back; the session forgets what it would have written.
Forget(r) ==
    /\ pend' = [pend EXCEPT ![r] = {}]
    /\ tx' = [tx EXCEPT ![r] = <<>>]
    /\ kx' = [kx EXCEPT ![r] = <<>>]

\* The client is answered and the session closed.
Tell(r, told) == /\ Goto(r, "done")
                 /\ result' = [result EXCEPT ![r] = told]
                 /\ loaded' = [loaded EXCEPT ![r] = None]

\* A mutant: the session is committed whatever happened.
CommitAnyway(r) == /\ Apply(r) /\ pend' = [pend EXCEPT ![r] = {}]
                   /\ Tell(r, "failed")
                   /\ UNCHANGED <<nextId, world, kind, job, opened, dropped>>

RollBack(r) == /\ Forget(r) /\ Tell(r, "failed")
               /\ UNCHANGED <<db, world, kind, job, history>>

-----------------------------------------------------------------------------
(***************************************************************************)
(* Create and edit.                                                        *)
(***************************************************************************)

\* The row a view loads for its request, None when it is gone.
GetObject(i) == rows[i]

\* The values the edit page shows, and the children in its formset.
FormOf(i) == GetObject(i)
Formset(i) == {c \in Kids : kids[c] = i}

\* GET of the edit page.
OpenForm(r) ==
    /\ stage[r] = "idle"
    /\ kind' = [kind EXCEPT ![r] = "edit"]
    /\ \E i \in Ids :
           /\ GetObject(i) # None
           /\ opened' = [opened EXCEPT ![r] = FormOf(i)]
           /\ \E kid \in Formset(i) \cup {None} :
                  job' = [job EXCEPT ![r].id = i, ![r].kid = kid]
    /\ Goto(r, "open")
    /\ UNCHANGED <<db, world, loaded, session, result, dropped, saved>>

\* POST of the edit form: it carries every column, edited or not, and a formset.
SubmitForm(r) ==
    /\ stage[r] = "open"
    /\ IF GetObject(job[r].id) = None
       THEN Tell(r, "missing") /\ UNCHANGED job
       ELSE /\ \E post \in Line, act \in {"keep", "replace", "clear"},
                  inline \in {"none", "add", "drop"} :
                  /\ inline = "drop" => job[r].kid # None
                  /\ job' = [job EXCEPT ![r] = [@ EXCEPT !.post = post, !.act = act,
                                                      !.inline = inline]]
            /\ loaded' = [loaded EXCEPT ![r] = GetObject(job[r].id)]
            /\ Goto(r, "parse")
            /\ UNCHANGED result
    /\ UNCHANGED <<db, world, kind, session, history>>

\* The row form of the list page: the columns are edited in place, no file is.
SubmitRow(r) ==
    /\ stage[r] = "open"
    /\ rows[job[r].id] # None
    /\ \E post \in Line : job' = [job EXCEPT ![r].post = post]
    /\ loaded' = [loaded EXCEPT ![r] = rows[job[r].id]]
    /\ Goto(r, "parse")
    /\ UNCHANGED <<db, world, kind, session, result, history>>

\* A switch of the list page: one column is set, unvalidated and unannounced.
SubmitField(r) ==
    /\ stage[r] = "idle"
    /\ kind' = [kind EXCEPT ![r] = "field"]
    /\ \E i \in Ids, n \in Notes :
           /\ rows[i] # None
           /\ job' = [job EXCEPT ![r].id = i]
           /\ loaded' = [loaded EXCEPT ![r] = rows[i]]
           /\ pend' = [pend EXCEPT ![r] = IF rows[i].note = n THEN {}
                                          ELSE {Update(i, [note |-> n])}]
    /\ Goto(r, "save")
    /\ UNCHANGED <<db, world, tx, kx, result, history>>

\* What the wrappers of the API leave of a body: the fields that were sent, of
\* which there is one here.  A file can only be sent, never cleared.
Payloads == [post : [{"key"} -> Keys] \cup [{"note"} -> Notes],
             act : {"keep", "replace"}]

\* PUT or PATCH of the API: only the fields of the payload change.
SubmitPut(r) ==
    /\ stage[r] = "idle"
    /\ kind' = [kind EXCEPT ![r] = "put"]
    /\ \E i \in Ids, payload \in Payloads :
           /\ GetObject(i) # None
           /\ job' = [job EXCEPT ![r] = [@ EXCEPT !.id = i, !.post = payload.post,
                                               !.act = payload.act]]
           /\ loaded' = [loaded EXCEPT ![r] = GetObject(i)]
    /\ Goto(r, "parse")
    /\ UNCHANGED <<db, world, session, result, history>>

\* POST of the create form, or of a JSON body, which has no formset.
SubmitCreate(r) ==
    /\ stage[r] = "idle"
    /\ nextId <= MaxId
    /\ kind' = [kind EXCEPT ![r] = "create"]
    /\ \E post \in Line, act \in {"keep", "replace"}, inline \in {"none", "add"} :
           job' = [job EXCEPT ![r] = [@ EXCEPT !.id = nextId, !.post = post, !.act = act,
                                               !.inline = inline]]
    /\ nextId' = nextId + 1
    /\ Goto(r, "parse")
    /\ UNCHANGED <<rows, kids, world, loaded, session, result, history>>

\* A mutant: the old file goes whatever the form asks for.
OldFileAlways(r) == IF loaded[r] = None THEN None ELSE loaded[r].file

\* The file the storage deletes: the one of the row as the session read it.
OldFile(r) ==
    IF job[r].act = "keep" \/ loaded[r] = None THEN None ELSE loaded[r].file

\* The file column after parsing.
NewFile(r) ==
    IF job[r].act = "replace" THEN r
    ELSE IF job[r].act = "clear" \/ loaded[r] = None THEN None
    ELSE loaded[r].file

\* A mutant: every posted column is written.
Posted(r, values) == DOMAIN values

\* Only the columns that differ from what the session read are written.
Changed(r, values) ==
    {c \in DOMAIN values : values[c] # loaded[r][c]}

Saving(r) ==
    LET values == Over(job[r].post, [file |-> NewFile(r)])
        changed == Changed(r, values)
    IN  IF loaded[r] = None THEN {Insert(job[r].id, values)}
        ELSE IF changed = {} THEN {}
        ELSE {Update(job[r].id, [c \in changed |-> values[c]])}

\* Parsing saves the upload and deletes the old file at once; validation follows.
Parse(r) ==
    /\ stage[r] = "parse"
    /\ files' = (files \ {OldFile(r)}) \cup (IF job[r].act = "replace" THEN {r} ELSE {})
    /\ dropped' = [dropped EXCEPT ![r] = OldFile(r)]
    /\ \/ /\ pend' = [pend EXCEPT ![r] = Saving(r)]
          /\ Goto(r, "save")
          /\ UNCHANGED <<loaded, result>>
       \/ Tell(r, "invalid") /\ UNCHANGED pend
    /\ UNCHANGED <<db, notices, notify, kind, job, tx, kx, opened, saved>>

\* An upload over the size limit is an error of its field before anything is
\* stored.
RefuseUpload(r) ==
    /\ stage[r] = "parse"
    /\ job[r].act = "replace"
    /\ Tell(r, "invalid")
    /\ UNCHANGED <<db, world, kind, job, session, history>>

AfterSave(r) ==
    IF kind[r] = "field" THEN "commit"
    ELSE IF job[r].inline = "none" THEN "dispatch" ELSE "inline"

\* The formset: a child is added to the row, or the one the page showed is deleted.
InlineWaits(r) ==
    \E q \in Requests \ {r} :
        IF job[r].inline = "add"
        THEN job[r].id \in DOMAIN tx[q] /\ tx[q][job[r].id] = None
        ELSE job[r].kid \in DOMAIN kx[q]

InlineRaises(r) == job[r].inline = "add" /\ RowsOf(r)[job[r].id] = None

SaveInline(r) ==
    /\ stage[r] = "inline"
    /\ ~InlineWaits(r) /\ ~InlineRaises(r)
    /\ kx' = [kx EXCEPT ![r] =
                 IF job[r].inline = "add" THEN [c \in {r} |-> job[r].id]
                 ELSE IF kids[job[r].kid] = None THEN <<>>
                 ELSE [c \in {job[r].kid} |-> None]]
    /\ Goto(r, "dispatch")
    /\ UNCHANGED <<db, world, kind, job, loaded, pend, tx, result, history>>

InlineFails(r) ==
    /\ stage[r] = "inline"
    /\ InlineWaits(r) \/ InlineRaises(r)
    /\ RollBack(r)

-----------------------------------------------------------------------------
(***************************************************************************)
(* Delete, and the bulk action.                                            *)
(***************************************************************************)

SubmitDelete(r) ==
    /\ stage[r] = "idle"
    /\ kind' = [kind EXCEPT ![r] = "delete"]
    /\ \E i \in Ids :
           /\ GetObject(i) # None
           /\ job' = [job EXCEPT ![r].id = i]
           /\ loaded' = [loaded EXCEPT ![r] = GetObject(i)]
           /\ pend' = [pend EXCEPT ![r] = {Delete(i)}]
    /\ Goto(r, "delete")
    /\ UNCHANGED <<db, world, tx, kx, result, history>>

SubmitBulk(r) ==
    /\ stage[r] = "idle"
    /\ kind' = [kind EXCEPT ![r] = "bulk"]
    /\ \E ids \in Selections : job' = [job EXCEPT ![r].ids = ids]
    /\ Goto(r, "next")
    /\ UNCHANGED <<db, world, loaded, session, result, history>>

\* session.get of the next id; a row that is gone is passed over.
BulkNext(r) ==
    /\ stage[r] = "next" /\ pend[r] = {}
    /\ IF job[r].pos > Len(job[r].ids)
       THEN Goto(r, "commit") /\ UNCHANGED job
       ELSE LET i == job[r].ids[job[r].pos]
            IN  /\ job' = [job EXCEPT ![r].pos = @ + 1, ![r].id = i]
                /\ Goto(r, IF RowsOf(r)[i] = None THEN "next" ELSE "notice")
    /\ UNCHANGED <<db, world, kind, loaded, session, result, history>>

\* The notification of a deletion, and the commit it brings, come before it.
BulkNotice(r) ==
    /\ stage[r] = "notice"
    /\ IF notify
       THEN Apply(r) /\ notices' = notices \cup {<<"delete", job[r].id>>}
       ELSE UNCHANGED <<rows, kids, saved, tx, kx, notices>>
    /\ pend' = [pend EXCEPT ![r] = {Delete(job[r].id)}]
    /\ Goto(r, "next")
    /\ UNCHANGED <<nextId, files, notify, kind, job, loaded, result, opened, dropped>>

-----------------------------------------------------------------------------
(***************************************************************************)
(* The import.                                                             *)
(***************************************************************************)

SubmitImport(r) ==
    /\ stage[r] = "idle"
    /\ kind' = [kind EXCEPT ![r] = "import"]
    /\ \E sheet \in Sheets, by \in {"key", "id"} :
           job' = [job EXCEPT ![r].list = sheet, ![r].by = by]
    /\ Goto(r, "line")
    /\ UNCHANGED <<db, world, loaded, session, result, history>>

ThisLine(r) == job[r].list[job[r].pos]
LinesLeft(r) == job[r].pos <= Len(job[r].list)

\* The rows a line updates: those found by the unique key; a sheet without the
\* column of the key, the primary key by default, only creates.
Found(r) ==
    {i \in Ids : /\ job[r].by = "key"
                 /\ KeyOf(RowsOf(r)[i]) = ThisLine(r).key}

\* The lookup makes the session flush what the lines before it left.
LooksUp(r) ==
    stage[r] = "line" /\ LinesLeft(r) /\ job[r].by = "key" /\ ThisLine(r) # Bad

ImportLine(r) ==
    /\ stage[r] = "line" /\ LinesLeft(r)
    /\ LooksUp(r) => pend[r] = {}
    /\ IF ThisLine(r) = Bad
       THEN /\ job' = [job EXCEPT ![r] = [@ EXCEPT !.pos = job[r].pos + 1,
                                                  !.errors = job[r].errors + 1]]
            /\ UNCHANGED <<pend, nextId>>
       ELSE IF Found(r) # {}
       THEN /\ job' = [job EXCEPT ![r] = [@ EXCEPT !.pos = job[r].pos + 1,
                                                  !.updated = job[r].updated + 1]]
            /\ pend' = [pend EXCEPT ![r] =
                          {Update(i, [note |-> ThisLine(r).note]) : i \in
                             {j \in Found(r) : RowsOf(r)[j].note # ThisLine(r).note}}]
            /\ UNCHANGED nextId
       ELSE /\ nextId <= MaxId
            /\ nextId' = nextId + 1
            /\ job' = [job EXCEPT ![r] = [@ EXCEPT !.pos = job[r].pos + 1,
                                                  !.made = job[r].made \cup {nextId}]]
            /\ pend' = [pend EXCEPT ![r] = @ \cup
                          {Insert(nextId, Over(ThisLine(r), [file |-> None]))}]
    /\ UNCHANGED <<rows, kids, world, kind, stage, loaded, tx, kx, result, history>>

EndOfSheet(r) ==
    /\ stage[r] = "line" /\ ~LinesLeft(r)
    /\ Goto(r, "flush")
    /\ UNCHANGED <<db, world, kind, job, loaded, session, result, history>>

\* Errors and nothing else: 422.  Otherwise the list is queried for the response.
ImportAnswer(r) ==
    /\ stage[r] = "flush" /\ pend[r] = {}
    /\ IF job[r].errors > 0 /\ job[r].made = {} /\ job[r].updated = 0
       THEN Tell(r, "rejected")
       ELSE Goto(r, "list") /\ UNCHANGED <<loaded, result>>
    /\ UNCHANGED <<db, world, kind, job, session, history>>

\* A session whose flush failed, and was not rolled back, refuses the query.
ListRows(r) ==
    /\ stage[r] = "list"
    /\ IF job[r].broken
       THEN RollBack(r)
       ELSE /\ Goto(r, "dispatch")
            /\ UNCHANGED <<db, world, kind, job, loaded, session, result, history>>

-----------------------------------------------------------------------------
(***************************************************************************)
(* Flush, dispatch_model_change and the commit after the response.         *)
(***************************************************************************)

Flushes(r) ==
    /\ pend[r] # {}
    /\ stage[r] \in {"save", "delete", "next", "flush"} \/ LooksUp(r)

AfterFlush(r) ==
    CASE stage[r] = "save" -> AfterSave(r)
      [] stage[r] = "delete" -> "dispatch"
      [] OTHER -> stage[r]

Flush(r) ==
    /\ Flushes(r)
    /\ \A s \in pend[r] : ~Waits(r, s) /\ ~Raises(r, s)
    /\ tx' = [tx EXCEPT ![r] = Over([i \in {s.id : s \in pend[r]} |->
                 Written(r, CHOOSE s \in pend[r] : s.id = i)], tx[r])]
    /\ pend' = [pend EXCEPT ![r] = {}]
    /\ Goto(r, AfterFlush(r))
    /\ UNCHANGED <<db, world, kind, job, loaded, kx, result, history>>

\* Nothing differs from what was read: nothing is written.
FlushNothing(r) ==
    /\ stage[r] = "save" /\ pend[r] = {}
    /\ Goto(r, AfterSave(r))
    /\ UNCHANGED <<db, world, kind, job, loaded, session, result, history>>

\* The views let the error through and the request is rolled back.
FlushFails(r) ==
    /\ Flushes(r) /\ kind[r] # "import"
    /\ \E s \in pend[r] : Waits(r, s) \/ Raises(r, s)
    /\ RollBack(r)

\* The import counts the error of a lookup and stops reading lines; a failure of
\* its last flush takes every line.
ImportFlushFails(r) ==
    /\ Flushes(r) /\ kind[r] = "import"
    /\ \E s \in pend[r] : Waits(r, s) \/ Raises(r, s)
    /\ Forget(r)
    /\ Goto(r, "flush")
    /\ job' = [job EXCEPT ![r] =
          IF stage[r] = "line"
          THEN [@ EXCEPT !.errors = job[r].errors + 1, !.broken = TRUE]
          ELSE [@ EXCEPT !.errors = Len(job[r].list), !.made = {}, !.updated = 0]]
    /\ UNCHANGED <<db, world, kind, loaded, result, history>>

Event(r) == CASE kind[r] = "delete" -> "delete"
              [] kind[r] \in {"edit", "put"} -> "update"
              [] OTHER -> "create"

\* Storing the notification commits the request's own changes with it.
Dispatch(r) ==
    /\ stage[r] = "dispatch"
    /\ IF notify
       THEN Apply(r) /\ notices' = notices \cup {<<Event(r), job[r].id>>}
       ELSE UNCHANGED <<rows, kids, saved, tx, kx, notices>>
    /\ Goto(r, "commit")
    /\ UNCHANGED <<nextId, files, notify, kind, job, loaded, pend, result, opened, dropped>>

Commit(r) ==
    /\ stage[r] = "commit"
    /\ Apply(r)
    /\ Tell(r, "ok")
    /\ UNCHANGED <<nextId, world, kind, job, pend, opened, dropped>>

\* The database refuses a commit that has something to write.
CommitFails(r) ==
    /\ stage[r] = "commit" \/ (stage[r] = "dispatch" /\ notify)
    /\ tx[r] # <<>> \/ kx[r] # <<>>
    /\ RollBack(r)

Next ==
    \E r \in Requests :
        \/ OpenForm(r) \/ SubmitForm(r) \/ SubmitRow(r) \/ SubmitField(r)
        \/ SubmitPut(r) \/ SubmitCreate(r)
        \/ Parse(r) \/ RefuseUpload(r) \/ SaveInline(r) \/ InlineFails(r)
        \/ SubmitDelete(r) \/ SubmitBulk(r) \/ BulkNext(r) \/ BulkNotice(r)
        \/ SubmitImport(r) \/ ImportLine(r) \/ EndOfSheet(r) \/ ImportAnswer(r)
        \/ ListRows(r) \/ Flush(r) \/ FlushNothing(r) \/ FlushFails(r)
        \/ ImportFlushFails(r) \/ Dispatch(r) \/ Commit(r) \/ CommitFails(r)

Spec == Init /\ [][Next]_vars

-----------------------------------------------------------------------------
(***************************************************************************)
(* Properties.                                                             *)
(***************************************************************************)

\* The types of the variables; a transaction only holds what it wrote, and a
\* request that has been answered holds nothing.
TypeOK ==
    /\ rows \in [Ids -> Row \cup {None}]
    /\ kids \in [Kids -> Ids \cup {None}]
    /\ files \subseteq Files
    /\ notices \subseteq {"create", "update", "delete"} \X (Ids \cup {0})
    /\ nextId \in Nat /\ notify \in BOOLEAN
    /\ kind \in [Requests -> Kinds]
    /\ stage \in [Requests -> Stages]
    /\ result \in [Requests -> Results]
    /\ loaded \in [Requests -> Row \cup {None}]
    /\ opened \in [Requests -> Row \cup {None}]
    /\ dropped \in [Requests -> Files \cup {None}]
    /\ \A r \in Requests :
           /\ DOMAIN tx[r] \subseteq Ids /\ DOMAIN kx[r] \subseteq Kids
           /\ \A i \in DOMAIN tx[r] : tx[r][i] \in Row \cup {None}
           /\ \A s \in pend[r] : s.id \in Ids
           /\ stage[r] = "done" => tx[r] = <<>> /\ kx[r] = <<>> /\ pend[r] = {}

\* views/file_handler.py deletes the old file of a row while it parses the form,
\* long before the commit.  A committed row refers to a file that is gone only
\* while the request that deleted it is still running, or when that request
\* failed; no pair of overlapping, successful requests leaves such a row.
MissingFileNeedsFailure ==
    \A i \in Ids :
        rows[i] # None /\ rows[i].file \notin files \cup {None} =>
            \E r \in Requests :
                /\ dropped[r] = rows[i].file
                /\ stage[r] # "done" \/ result[r] # "ok"

\* A request that is answered with an error has changed nothing: neither the row
\* without its formset nor some lines of a sheet.  The exception is a bulk action
\* whose notifications commit: it leaves a part of its selection deleted, in
\* order, and never all of it.
FailureLeavesNothing ==
    \A r \in Requests : result[r] \notin {"none", "ok"} =>
        \/ saved[r] = {}
        \/ /\ kind[r] = "bulk" /\ notify
           /\ \E n \in 0 .. Len(job[r].ids) - 1 :
                  saved[r] \subseteq {job[r].ids[k] : k \in 1 .. n}

\* A notification says that a row was deleted: the row is gone, or the bulk
\* action that announced it is still running, or failed.
DeletionNoticesAreTrue ==
    \A i \in Ids : <<"delete", i>> \in notices /\ rows[i] # None =>
        \E r \in Requests : /\ kind[r] = "bulk" /\ \E k \in DOMAIN job[r].ids : job[r].ids[k] = i
                            /\ result[r] # "ok"

\* The counts of an import that is answered with a page are the rows it has
\* committed: none it counts as created was lost with a failed flush.
ImportCountsAreTrue ==
    \A r \in Requests :
        kind[r] = "import" /\ result[r] = "ok" => job[r].made \subseteq saved[r]

\* The edit form posts every column, and the columns that differ from what the
\* session reads are written: when the commit of a form puts a column back that
\* its user had not edited, the form was already stale when it was submitted.
\* Transactions that merely overlap do not lose each other's columns.
RevertsNeedStaleForms ==
    [][\A r \in Requests, i \in Ids, c \in {"key", "note"} :
          /\ kind[r] = "edit" /\ i = job[r].id /\ opened[r] # None
          /\ tx[r] # <<>> /\ saved'[r] # saved[r]
          /\ rows[i] # None /\ rows'[i] # None
          /\ rows'[i][c] # rows[i][c]
          /\ job[r].post[c] = opened[r][c]
          => loaded[r][c] # opened[r][c]]_vars

\* Storage and rows: a file a row names is missing only after a failure.
FilesFollowRows == TypeOK /\ MissingFileNeedsFailure

\* What a client or a recipient is told is what the database holds: a failed
\* request left nothing, a notice of a deletion is followed by the deletion, and
\* the counts of an import are those of its rows.
AnswersAreTrue == FailureLeavesNothing /\ DeletionNoticesAreTrue /\ ImportCountsAreTrue
=============================================================================
