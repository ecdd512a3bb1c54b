--------------------------- MODULE RecordsProofs ---------------------------
(***************************************************************************)
(* Proofs about Records, for any number of requests, keys, sheets and      *)
(* selections: no successful form leaves a row without its file, what a    *)
(* client is told is what the database holds, and an edited column is put  *)
(* back only by a form that was stale when it was submitted.               *)
(*                                                                         *)
(* Local says what a request holds back at each of its stages; it changes  *)
(* with the steps of that request only.  The other parts relate requests   *)
(* to the committed rows; they are proved by what a step does to the rows: *)
(* nothing, a flush, or a commit.                                          *)
(***************************************************************************)
EXTENDS Records, TLAPS

-----------------------------------------------------------------------------
(***************************************************************************)
(* The strengthening, first what concerns one request alone.               *)
(***************************************************************************)
Columns == {"key", "note", "file"}
Writers == {"create", "edit", "put"}    \* the endpoints that store a form

Posts == Line \cup [{"key"} -> Keys] \cup [{"note"} -> Notes]

Jobs == [id : Ids \cup {0}, post : Posts \cup {<<>>}, act : {"keep", "replace", "clear"},
         inline : {"none", "add", "drop"}, kid : Kids \cup {None},
         ids : Selections \cup {<<>>}, list : Sheets \cup {<<>>}, by : {"key", "id"},
         pos : Nat \ {0}, made : SUBSET Ids, errors : Nat, updated : Nat, broken : BOOLEAN]

\* The rows r creates.
Mine(r) == job[r].made \cup (IF kind[r] = "create" THEN {job[r].id} ELSE {})

\* The stages of each endpoint.
Staged(r) ==
    /\ kind[r] = "idle" <=> stage[r] = "idle"
    /\ kind[r] = "create" =>
           stage[r] \in {"parse", "save", "inline", "dispatch", "commit", "done"}
    /\ kind[r] = "edit" =>
           stage[r] \in {"open", "parse", "save", "inline", "dispatch", "commit", "done"}
    /\ kind[r] = "put" => stage[r] \in {"parse", "save", "dispatch", "commit", "done"}
    /\ kind[r] = "field" => stage[r] \in {"save", "commit", "done"}
    /\ kind[r] = "delete" => stage[r] \in {"delete", "dispatch", "commit", "done"}
    /\ kind[r] = "bulk" => stage[r] \in {"next", "notice", "commit", "done"}
    /\ kind[r] = "import" =>
           stage[r] \in {"line", "flush", "list", "dispatch", "commit", "done"}
    /\ result[r] = "none" <=> stage[r] # "done"

\* What a request asks for.
Asked(r) ==
    /\ stage[r] = "idle" => job[r] = NoJob
    /\ kind[r] \in {"create", "edit", "put", "field", "delete"} => job[r].id \in Ids
    /\ kind[r] \notin {"create", "edit"} \/ stage[r] = "open" => job[r].inline = "none"
    /\ stage[r] = "open" => job[r].act = "keep"
    /\ job[r].inline = "drop" => job[r].kid \in Kids
    /\ kind[r] # "import" => job[r].made = {}
    /\ kind[r] = "bulk" => job[r].ids \in Selections
    /\ kind[r] = "import" => job[r].list \in Sheets
    /\ kind[r] \in {"create", "edit"} /\ stage[r] = "parse" => job[r].post \in Line
    /\ kind[r] = "put" /\ stage[r] = "parse" =>
           job[r].post \in [{"key"} -> Keys] \cup [{"note"} -> Notes]
    /\ kind[r] \in {"edit", "put"} /\ stage[r] = "parse" => loaded[r] # None
    /\ kind[r] \in {"idle", "create", "bulk", "import"} => loaded[r] = None
    /\ dropped[r] # None => /\ kind[r] \in {"edit", "put"}
                            /\ stage[r] \notin {"open", "parse"}

\* At which stages a request holds something back, and that it holds nothing
\* once it has committed, unless it goes on to the next of a selection.
Holds(r) ==
    /\ pend[r] # {} => stage[r] \in {"save", "delete", "next", "line", "flush"}
    /\ tx[r] # <<>> => stage[r] \in {"inline", "dispatch", "commit", "next", "notice",
                                     "line", "flush", "list"}
    /\ kx[r] # <<>> => stage[r] \in {"dispatch", "commit"} /\ kind[r] \in {"create", "edit"}
    /\ kind[r] # "bulk" /\ saved[r] # {} =>
           /\ stage[r] \in {"commit", "done"} /\ result[r] \in {"none", "ok"}
           /\ tx[r] = <<>> /\ kx[r] = <<>>
    /\ \A c \in DOMAIN kx[r] : kx[r][c] \in Ids \cup {None}

\* What an UPDATE sets.
IsSet(set) ==
    /\ DOMAIN set \subseteq Columns
    /\ "key" \in DOMAIN set => set["key"] \in Keys
    /\ "note" \in DOMAIN set => set["note"] \in Notes
    /\ "file" \in DOMAIN set => set["file"] \in Files \cup {None}

\* The file a form writes is its own upload, or none.
OwnFile(r, f) ==
    f # None => f = r /\ kind[r] \in Writers /\ job[r].act = "replace"

\* The statements of each endpoint.
Emits(r) ==
    /\ \A s \in pend[r] :
           /\ s.id \in Ids
           /\ s.op \in {"insert", "update", "delete"}
           /\ s.op = "insert" => /\ kind[r] \in {"create", "import"}
                                 /\ s.set \in Row /\ s.id \in Mine(r)
                                 /\ OwnFile(r, s.set.file)
           /\ s.op = "update" =>
                  /\ kind[r] \in {"edit", "put", "field", "import"}
                  /\ IsSet(s.set)
                  /\ "file" \in DOMAIN s.set => OwnFile(r, s.set["file"])
                  /\ kind[r] = "edit" => \A c \in DOMAIN s.set \cap {"key", "note"} :
                         s.set[c] = job[r].post[c] /\ job[r].post[c] # loaded[r][c]
           /\ s.op = "delete" => kind[r] \in {"delete", "bulk"}
           /\ kind[r] \in {"create", "edit", "put", "field", "delete"} => s.id = job[r].id
    /\ stage[r] = "delete" => pend[r] # {}

\* A form that has dropped a file is about to write another one into the row.
Replaced(r) ==
    /\ job[r].id \in DOMAIN tx[r] /\ tx[r][job[r].id] # None
    /\ tx[r][job[r].id].file # dropped[r]

Replaces(r) ==
    dropped[r] # None =>
        /\ stage[r] = "save" =>
               /\ pend[r] # {}
               /\ \A s \in pend[r] : /\ s.op = "update" /\ "file" \in DOMAIN s.set
                                     /\ s.set["file"] # dropped[r]
        /\ stage[r] \in {"inline", "dispatch"} => Replaced(r)

\* The part of a selection that is behind a bulk action, and what its
\* notifications have committed of it.
Passed(r) == {job[r].ids[k] : k \in {j \in 1 .. Len(job[r].ids) : j < job[r].pos}}
Settled(r) == {job[r].ids[k] : k \in {j \in 1 .. Len(job[r].ids) : j + 1 < job[r].pos}}

BulkForm(r) ==
    kind[r] = "bulk" =>
        /\ job[r].pos <= Len(job[r].ids) + 1
        /\ DOMAIN tx[r] \subseteq Passed(r)
        /\ \A s \in pend[r] : s.id \in Passed(r)
        /\ stage[r] = "notice" => job[r].id \in Passed(r) /\ DOMAIN tx[r] \subseteq Settled(r)
        /\ result[r] # "ok" => saved[r] \subseteq Settled(r)
        /\ result[r] # "ok" /\ saved[r] # {} => notify

\* What an import counts as created is pending, written or committed, unless a
\* flush failed that it cannot recover from.
ImportForm(r) ==
    kind[r] = "import" =>
        /\ job[r].broken => /\ stage[r] \in {"flush", "list", "done"} /\ result[r] # "ok"
                            /\ pend[r] = {}
        /\ ~job[r].broken /\ stage[r] # "done" =>
               job[r].made \subseteq {s.id : s \in pend[r]} \cup DOMAIN tx[r] \cup saved[r]
        /\ job[r].made = {} /\ job[r].updated = 0 => tx[r] = <<>> /\ pend[r] = {}
        /\ result[r] = "ok" => job[r].made \subseteq saved[r]

Local(r) ==
    /\ job[r] \in Jobs
    /\ Staged(r) /\ Asked(r) /\ Holds(r) /\ Emits(r) /\ Replaces(r)
    /\ BulkForm(r) /\ ImportForm(r)

\* The variables are functions of the requests; two keys have been given out.
Indexed ==
    /\ nextId >= 3
    /\ DOMAIN job = Requests /\ DOMAIN pend = Requests
    /\ DOMAIN tx = Requests /\ DOMAIN kx = Requests
    /\ saved \in [Requests -> SUBSET (Ids \cup {0})]

LInv == TypeOK /\ Indexed /\ \A r \in Requests : Local(r)

(***************************************************************************)
(* Then what relates requests to each other and to the committed rows.     *)
(***************************************************************************)

\* A row that was committed once, and a file that a committed row may have.
Born(i) == i \in {1, 2} \/ \E r \in Requests : i \in saved[r]
Published(q) == pend[q] = {} /\ tx[q] = <<>> /\ stage[q] \in {"commit", "done"}

\* The file f belongs to row i: that of the start, or that of the form that
\* uploaded it.
Home(f, i) ==
    \/ f = "old" /\ i = 1
    \/ /\ f \in Requests /\ kind[f] \in Writers
       /\ job[f].id = i /\ Published(f)

\* Primary keys are given out once.
OwnInv ==
    /\ \A r \in Requests : \A i \in Mine(r) : i >= 3 /\ i < nextId
    /\ \A r, q \in Requests : r # q => Mine(r) \cap Mine(q) = {}

\* A row exists from the commit of the request that creates it.
BornInv ==
    /\ \A i \in Ids : rows[i] # None => Born(i)
    /\ \A i \in Ids : Born(i) => i < nextId
    /\ \A r \in Requests : \A i \in Mine(r) : Born(i) => saved[r] # {}
    /\ \A r \in Requests : \A s \in pend[r] : s.op = "delete" => Born(s.id)
    /\ \A r \in Requests : /\ stage[r] = "notice" => Born(job[r].id)
                           /\ kind[r] \in {"edit", "put", "field", "delete"} => Born(job[r].id)

\* A row is written by one open transaction at a time.
LockInv ==
    \A r, q \in Requests : r # q => DOMAIN tx[r] \cap DOMAIN tx[q] = {}

\* How far a written row may be from the committed one.
Fits(r, i, v) ==
    /\ rows[i] = None => i \in Mine(r)
    /\ v.file # None => \/ v.file = r /\ i = job[r].id /\ OwnFile(r, v.file)
                        \/ rows[i] # None /\ v.file = rows[i].file
    /\ kind[r] = "edit" /\ rows[i] # None =>
           \A c \in {"key", "note"} : v[c] # rows[i][c] => job[r].post[c] # loaded[r][c]

WrittenRow(r, i) ==
    /\ tx[r][i] = None <=> kind[r] \in {"bulk", "delete"}
    /\ tx[r][i] = None => Born(i)
    /\ tx[r][i] # None => Fits(r, i, tx[r][i])

TxInv == \A r \in Requests : \A i \in DOMAIN tx[r] : WrittenRow(r, i)

\* An upload stays in storage until its row is committed.
UploadInv ==
    \A r \in Requests :
        /\ kind[r] \in Writers /\ job[r].act = "replace"
        /\ stage[r] \in {"save", "inline", "dispatch", "commit"} /\ ~Published(r)
        => r \in files

\* A file belongs to one row.
HomeInv ==
    /\ \A i \in Ids : rows[i] # None /\ rows[i].file # None => Home(rows[i].file, i)
    /\ \A r \in Requests :
           loaded[r] # None /\ loaded[r].file # None => Home(loaded[r].file, job[r].id)

\* Before a form that dropped a file can succeed, the row names another one.
DropInv ==
    \A r \in Requests : dropped[r] # None =>
        /\ Home(dropped[r], job[r].id)
        /\ stage[r] = "commit" =>
               \/ Replaced(r)
               \/ rows[job[r].id] = None
               \/ rows[job[r].id].file # dropped[r]

\* Who announced a deletion still has to commit it, or failed.
Deleting(r, i) ==
    /\ kind[r] = "bulk" /\ \E k \in DOMAIN job[r].ids : job[r].ids[k] = i
    /\ \/ \E s \in pend[r] : s.id = i
       \/ i \in DOMAIN tx[r]
       \/ stage[r] = "done" /\ result[r] # "ok"

NoticeInv ==
    \A i \in Ids : <<"delete", i>> \in notices =>
        Born(i) /\ (rows[i] # None => \E r \in Requests : Deleting(r, i))

\* A formset is saved when there is one; a deletion is written before it is told.
DueInv ==
    \A r \in Requests :
        /\ stage[r] = "inline" => job[r].inline # "none"
        /\ kind[r] = "delete" /\ stage[r] = "dispatch" => job[r].id \in DOMAIN tx[r]

IInv ==
    /\ LInv /\ OwnInv /\ BornInv /\ LockInv /\ TxInv /\ UploadInv /\ HomeInv /\ DropInv
    /\ NoticeInv /\ DueInv /\ MissingFileNeedsFailure

-----------------------------------------------------------------------------
(***************************************************************************)
(* Functions laid over one another, and the rows a transaction sees.       *)
(***************************************************************************)
LEMMA NothingWritten == DOMAIN <<>> = {}
OBVIOUS

LEMMA OverAt ==
    ASSUME NEW f, NEW g
    PROVE  /\ DOMAIN Over(f, g) = DOMAIN f \cup DOMAIN g
           /\ \A x \in DOMAIN f : Over(f, g)[x] = f[x]
           /\ \A x \in DOMAIN g \ DOMAIN f : Over(f, g)[x] = g[x]
BY DEF Over

LEMMA RowsOfAt ==
    ASSUME TypeOK, NEW r \in Requests
    PROVE  /\ RowsOf(r) \in [Ids -> Row \cup {None}]
           /\ \A i \in DOMAIN tx[r] : i \in Ids /\ RowsOf(r)[i] = tx[r][i]
           /\ \A i \in Ids \ DOMAIN tx[r] : RowsOf(r)[i] = rows[i]
BY DEF RowsOf, Over, TypeOK

LEMMA KidsOfAt ==
    ASSUME TypeOK, NEW r \in Requests, Holds(r)
    PROVE  KidsOf(r) \in [Kids -> Ids \cup {None}]
BY DEF KidsOf, Over, TypeOK, Holds

LEMMA RowIsSomething == None \notin Row
BY NoneIsNoRow DEF Row, Files

LEMMA NoneIsNoId == None \notin Ids /\ None \notin Kids /\ None \notin Files
BY NoneAssumption, IdAssumption DEF Ids, Kids, Files

\* A row under an UPDATE, and the row of a form.
LEMMA SetRow ==
    ASSUME NEW row \in Row, NEW set, IsSet(set)
    PROVE  /\ Over(set, row) \in Row
           /\ "file" \in DOMAIN set => Over(set, row).file = set["file"]
           /\ "file" \notin DOMAIN set => Over(set, row).file = row.file
           /\ \A c \in Columns : Over(set, row)[c] = IF c \in DOMAIN set THEN set[c] ELSE row[c]
BY DEF IsSet, Over, Row, Columns

LEMMA LineRow ==
    ASSUME NEW line \in Line, NEW f \in Files \cup {None}
    PROVE  Over(line, [file |-> f]) \in Row /\ Over(line, [file |-> f]).file = f
BY DEF Over, Line, Row

LEMMA PostSet ==
    ASSUME NEW post \in Posts, NEW f \in Files \cup {None}
    PROVE  /\ IsSet(Over(post, [file |-> f]))
           /\ Over(post, [file |-> f])["file"] = f /\ "file" \in DOMAIN Over(post, [file |-> f])
           /\ \A c \in DOMAIN Over(post, [file |-> f]) \cap {"key", "note"} :
                  Over(post, [file |-> f])[c] = post[c]
<1>1. CASE post \in Line
    BY <1>1 DEF Over, Line, IsSet, Columns
<1>2. CASE post \in [{"key"} -> Keys]
    BY <1>2 DEF Over, IsSet, Columns
<1>3. CASE post \in [{"note"} -> Notes]
    BY <1>3 DEF Over, IsSet, Columns
<1> QED BY <1>1, <1>2, <1>3 DEF Posts

-----------------------------------------------------------------------------
(***************************************************************************)
(* A step is that of one request; the others stay as they are.             *)
(***************************************************************************)
Step(r) ==
    \/ OpenForm(r) \/ SubmitForm(r) \/ SubmitRow(r) \/ SubmitField(r)
    \/ SubmitPut(r) \/ SubmitCreate(r)
    \/ Parse(r) \/ RefuseUpload(r) \/ SaveInline(r) \/ InlineFails(r)
    \/ SubmitDelete(r) \/ SubmitBulk(r) \/ BulkNext(r) \/ BulkNotice(r)
    \/ SubmitImport(r) \/ ImportLine(r) \/ EndOfSheet(r) \/ ImportAnswer(r)
    \/ ListRows(r) \/ Flush(r) \/ FlushNothing(r) \/ FlushFails(r)
    \/ ImportFlushFails(r) \/ Dispatch(r) \/ Commit(r) \/ CommitFails(r)

Still(q) ==
    /\ kind'[q] = kind[q] /\ stage'[q] = stage[q] /\ job'[q] = job[q]
    /\ loaded'[q] = loaded[q] /\ pend'[q] = pend[q] /\ tx'[q] = tx[q] /\ kx'[q] = kx[q]
    /\ result'[q] = result[q] /\ opened'[q] = opened[q] /\ dropped'[q] = dropped[q]
    /\ saved'[q] = saved[q]

LEMMA OthersStill ==
    ASSUME TypeOK, Indexed, NEW r \in Requests, Step(r)
    PROVE  /\ \A q \in Requests \ {r} : Still(q)
           /\ notify' = notify
           /\ DOMAIN job' = Requests /\ DOMAIN pend' = Requests
           /\ DOMAIN tx' = Requests /\ DOMAIN kx' = Requests
<1>1. CASE OpenForm(r)
    BY <1>1 DEF OpenForm, Goto,
       TypeOK, Indexed, Still, world, session, db, history
<1>2. CASE SubmitForm(r)
    BY ZenonT(60), <1>2 DEF SubmitForm, Goto, Tell,
       TypeOK, Indexed, Still, world, session, db, history
<1>3. CASE SubmitRow(r)
    BY <1>3 DEF SubmitRow, Goto,
       TypeOK, Indexed, Still, world, session, db, history
<1>4. CASE SubmitField(r)
    BY <1>4 DEF SubmitField, Goto,
       TypeOK, Indexed, Still, world, session, db, history
<1>5. CASE SubmitPut(r)
    BY <1>5 DEF SubmitPut, Goto,
       TypeOK, Indexed, Still, world, session, db, history
<1>6. CASE SubmitCreate(r)
    BY <1>6 DEF SubmitCreate, Goto,
       TypeOK, Indexed, Still, world, session, db, history
<1>7. CASE Parse(r)
    BY <1>7 DEF Parse, Goto, Tell,
       TypeOK, Indexed, Still, world, session, db, history
<1>8. CASE RefuseUpload(r)
    BY <1>8 DEF RefuseUpload, Goto, Tell,
       TypeOK, Indexed, Still, world, session, db, history
<1>9. CASE SaveInline(r)
    BY <1>9 DEF SaveInline, Goto,
       TypeOK, Indexed, Still, world, session, db, history
<1>10. CASE InlineFails(r)
    BY <1>10 DEF InlineFails, RollBack, Forget, Tell, Goto,
       TypeOK, Indexed, Still, world, session, db, history
<1>11. CASE SubmitDelete(r)
    BY <1>11 DEF SubmitDelete, Goto,
       TypeOK, Indexed, Still, world, session, db, history
<1>12. CASE SubmitBulk(r)
    BY <1>12 DEF SubmitBulk, Goto,
       TypeOK, Indexed, Still, world, session, db, history
<1>13. CASE BulkNext(r)
    BY <1>13 DEF BulkNext, Goto,
       TypeOK, Indexed, Still, world, session, db, history
<1>14. CASE BulkNotice(r)
    BY <1>14 DEF BulkNotice, Goto, Apply,
       TypeOK, Indexed, Still, world, session, db, history
<1>15. CASE SubmitImport(r)
    BY <1>15 DEF SubmitImport, Goto,
       TypeOK, Indexed, Still, world, session, db, history
<1>16. CASE ImportLine(r)
    BY <1>16 DEF ImportLine, Goto,
       TypeOK, Indexed, Still, world, session, db, history
<1>17. CASE EndOfSheet(r)
    BY <1>17 DEF EndOfSheet, Goto,
       TypeOK, Indexed, Still, world, session, db, history
<1>18. CASE ImportAnswer(r)
    BY <1>18 DEF ImportAnswer, Goto, Tell,
       TypeOK, Indexed, Still, world, session, db, history
<1>19. CASE ListRows(r)
    BY <1>19 DEF ListRows, RollBack, Forget, Tell, Goto,
       TypeOK, Indexed, Still, world, session, db, history
<1>20. CASE Flush(r)
    BY <1>20 DEF Flush, Goto,
       TypeOK, Indexed, Still, world, session, db, history
<1>21. CASE FlushNothing(r)
    BY <1>21 DEF FlushNothing, Goto,
       TypeOK, Indexed, Still, world, session, db, history
<1>22. CASE FlushFails(r)
    BY <1>22 DEF FlushFails, RollBack, Forget, Tell, Goto,
       TypeOK, Indexed, Still, world, session, db, history
<1>23. CASE ImportFlushFails(r)
    BY <1>23 DEF ImportFlushFails, Forget, Goto,
       TypeOK, Indexed, Still, world, session, db, history
<1>24. CASE Dispatch(r)
    BY <1>24 DEF Dispatch, Apply, Goto,
       TypeOK, Indexed, Still, world, session, db, history
<1>25. CASE Commit(r)
    BY <1>25 DEF Commit, Apply, Tell, Goto,
       TypeOK, Indexed, Still, world, session, db, history
<1>26. CASE CommitFails(r)
    BY <1>26 DEF CommitFails, RollBack, Forget, Tell, Goto,
       TypeOK, Indexed, Still, world, session, db, history
<1> QED BY <1>1, <1>2, <1>3, <1>4, <1>5, <1>6, <1>7, <1>8, <1>9, <1>10, <1>11, <1>12, <1>13,
          <1>14, <1>15, <1>16, <1>17, <1>18, <1>19, <1>20, <1>21, <1>22, <1>23, <1>24, <1>25, <1>26
       DEF Step

-----------------------------------------------------------------------------
(***************************************************************************)
(* Types.                                                                  *)
(***************************************************************************)
Flat ==
    /\ kind \in [Requests -> Kinds]
    /\ stage \in [Requests -> Stages]
    /\ result \in [Requests -> Results]
    /\ loaded \in [Requests -> Row \cup {None}]
    /\ opened \in [Requests -> Row \cup {None}]
    /\ dropped \in [Requests -> Files \cup {None}]
    /\ files \subseteq Files
    /\ notify \in BOOLEAN /\ nextId \in Nat /\ nextId >= 3

Typed(r) ==
    /\ DOMAIN tx[r] \subseteq Ids /\ DOMAIN kx[r] \subseteq Kids
    /\ \A i \in DOMAIN tx[r] : tx[r][i] \in Row \cup {None}
    /\ \A s \in pend[r] : s.id \in Ids
    /\ stage[r] = "done" => tx[r] = <<>> /\ kx[r] = <<>> /\ pend[r] = {}

Stored ==
    /\ rows \in [Ids -> Row \cup {None}]
    /\ kids \in [Kids -> Ids \cup {None}]
    /\ notices \subseteq {"create", "update", "delete"} \X (Ids \cup {0})
    /\ saved \in [Requests -> SUBSET (Ids \cup {0})]

LEMMA TypeParts == (TypeOK /\ Indexed) <=> /\ Flat /\ Stored
                                            /\ DOMAIN job = Requests /\ DOMAIN pend = Requests
                                            /\ DOMAIN tx = Requests /\ DOMAIN kx = Requests
                                            /\ \A r \in Requests : Typed(r)
BY DEF TypeOK, Indexed, Flat, Stored, Typed

LEMMA FlatNext ==
    ASSUME LInv, NEW r \in Requests, Step(r)
    PROVE  Flat'
<1>1. Flat /\ rows \in [Ids -> Row \cup {None}]
    BY TypeParts DEF LInv, Stored
<1>2. r \in Files /\ job[r] \in Jobs /\ Asked(r) /\ Staged(r)
    BY DEF LInv, Local, Files
<1>3. stage[r] = "open" => job[r].id \in Ids
    BY <1>1, <1>2 DEF Asked, Staged, Flat, Kinds
<1>4. OldFile(r) \in Files \cup {None}
    BY <1>1, RowIsSomething DEF OldFile, Flat, Row
<1>5. CASE OpenForm(r)
    BY <1>1, <1>2, <1>3, <1>4, <1>5 DEF OpenForm, Goto,
       Flat, world, session, db, history, Kinds, Stages, Results, GetObject, FormOf,
       AfterSave, AfterFlush
<1>6. CASE SubmitForm(r)
    BY <1>1, <1>2, <1>3, <1>4, <1>6 DEF SubmitForm, Goto, Tell,
       Flat, world, session, db, history, Kinds, Stages, Results, GetObject, FormOf,
       AfterSave, AfterFlush
<1>7. CASE SubmitRow(r)
    BY <1>1, <1>2, <1>3, <1>4, <1>7 DEF SubmitRow, Goto,
       Flat, world, session, db, history, Kinds, Stages, Results, GetObject, FormOf,
       AfterSave, AfterFlush
<1>8. CASE SubmitField(r)
    BY <1>1, <1>2, <1>3, <1>4, <1>8 DEF SubmitField, Goto,
       Flat, world, session, db, history, Kinds, Stages, Results, GetObject, FormOf,
       AfterSave, AfterFlush
<1>9. CASE SubmitPut(r)
    BY <1>1, <1>2, <1>3, <1>4, <1>9 DEF SubmitPut, Goto,
       Flat, world, session, db, history, Kinds, Stages, Results, GetObject, FormOf,
       AfterSave, AfterFlush
<1>10. CASE SubmitCreate(r)
    BY <1>1, <1>2, <1>3, <1>4, <1>10 DEF SubmitCreate, Goto,
       Flat, world, session, db, history, Kinds, Stages, Results, GetObject, FormOf,
       AfterSave, AfterFlush
<1>11. CASE Parse(r)
    BY <1>1, <1>2, <1>3, <1>4, <1>11 DEF Parse, Goto, Tell,
       Flat, world, session, db, history, Kinds, Stages, Results, GetObject, FormOf,
       AfterSave, AfterFlush
<1>12. CASE RefuseUpload(r)
    BY <1>1, <1>2, <1>3, <1>4, <1>12 DEF RefuseUpload, Goto, Tell,
       Flat, world, session, db, history, Kinds, Stages, Results, GetObject, FormOf,
       AfterSave, AfterFlush
<1>13. CASE SaveInline(r)
    BY <1>1, <1>2, <1>3, <1>4, <1>13 DEF SaveInline, Goto,
       Flat, world, session, db, history, Kinds, Stages, Results, GetObject, FormOf,
       AfterSave, AfterFlush
<1>14. CASE InlineFails(r)
    BY <1>1, <1>2, <1>3, <1>4, <1>14 DEF InlineFails, RollBack, Forget, Tell, Goto,
       Flat, world, session, db, history, Kinds, Stages, Results, GetObject, FormOf,
       AfterSave, AfterFlush
<1>15. CASE SubmitDelete(r)
    BY <1>1, <1>2, <1>3, <1>4, <1>15 DEF SubmitDelete, Goto,
       Flat, world, session, db, history, Kinds, Stages, Results, GetObject, FormOf,
       AfterSave, AfterFlush
<1>16. CASE SubmitBulk(r)
    BY <1>1, <1>2, <1>3, <1>4, <1>16 DEF SubmitBulk, Goto,
       Flat, world, session, db, history, Kinds, Stages, Results, GetObject, FormOf,
       AfterSave, AfterFlush
<1>17. CASE BulkNext(r)
    BY <1>1, <1>2, <1>3, <1>4, <1>17 DEF BulkNext, Goto,
       Flat, world, session, db, history, Kinds, Stages, Results, GetObject, FormOf,
       AfterSave, AfterFlush
<1>18. CASE BulkNotice(r)
    BY <1>1, <1>2, <1>3, <1>4, <1>18 DEF BulkNotice, Goto, Apply,
       Flat, world, session, db, history, Kinds, Stages, Results, GetObject, FormOf,
       AfterSave, AfterFlush
<1>19. CASE SubmitImport(r)
    BY <1>1, <1>2, <1>3, <1>4, <1>19 DEF SubmitImport, Goto,
       Flat, world, session, db, history, Kinds, Stages, Results, GetObject, FormOf,
       AfterSave, AfterFlush
<1>20. CASE ImportLine(r)
    BY <1>1, <1>2, <1>3, <1>4, <1>20 DEF ImportLine, Goto,
       Flat, world, session, db, history, Kinds, Stages, Results, GetObject, FormOf,
       AfterSave, AfterFlush
<1>21. CASE EndOfSheet(r)
    BY <1>1, <1>2, <1>3, <1>4, <1>21 DEF EndOfSheet, Goto,
       Flat, world, session, db, history, Kinds, Stages, Results, GetObject, FormOf,
       AfterSave, AfterFlush
<1>22. CASE ImportAnswer(r)
    BY <1>1, <1>2, <1>3, <1>4, <1>22 DEF ImportAnswer, Goto, Tell,
       Flat, world, session, db, history, Kinds, Stages, Results, GetObject, FormOf,
       AfterSave, AfterFlush
<1>23. CASE ListRows(r)
    BY <1>1, <1>2, <1>3, <1>4, <1>23 DEF ListRows, RollBack, Forget, Tell, Goto,
       Flat, world, session, db, history, Kinds, Stages, Results, GetObject, FormOf,
       AfterSave, AfterFlush
<1>24. CASE Flush(r)
    BY <1>1, <1>2, <1>3, <1>4, <1>24 DEF Flush, Goto,
       Flat, world, session, db, history, Kinds, Stages, Results, GetObject, FormOf,
       AfterSave, AfterFlush
<1>25. CASE FlushNothing(r)
    BY <1>1, <1>2, <1>3, <1>4, <1>25 DEF FlushNothing, Goto,
       Flat, world, session, db, history, Kinds, Stages, Results, GetObject, FormOf,
       AfterSave, AfterFlush
<1>26. CASE FlushFails(r)
    BY <1>1, <1>2, <1>3, <1>4, <1>26 DEF FlushFails, RollBack, Forget, Tell, Goto,
       Flat, world, session, db, history, Kinds, Stages, Results, GetObject, FormOf,
       AfterSave, AfterFlush
<1>27. CASE ImportFlushFails(r)
    BY <1>1, <1>2, <1>3, <1>4, <1>27 DEF ImportFlushFails, Forget, Goto,
       Flat, world, session, db, history, Kinds, Stages, Results, GetObject, FormOf,
       AfterSave, AfterFlush
<1>28. CASE Dispatch(r)
    BY <1>1, <1>2, <1>3, <1>4, <1>28 DEF Dispatch, Apply, Goto,
       Flat, world, session, db, history, Kinds, Stages, Results, GetObject, FormOf,
       AfterSave, AfterFlush
<1>29. CASE Commit(r)
    BY <1>1, <1>2, <1>3, <1>4, <1>29 DEF Commit, Apply, Tell, Goto,
       Flat, world, session, db, history, Kinds, Stages, Results, GetObject, FormOf,
       AfterSave, AfterFlush
<1>30. CASE CommitFails(r)
    BY <1>1, <1>2, <1>3, <1>4, <1>30 DEF CommitFails, RollBack, Forget, Tell, Goto,
       Flat, world, session, db, history, Kinds, Stages, Results, GetObject, FormOf,
       AfterSave, AfterFlush
<1> QED BY <1>5, <1>6, <1>7, <1>8, <1>9, <1>10, <1>11, <1>12, <1>13, <1>14, <1>15, <1>16, <1>17,
          <1>18, <1>19, <1>20, <1>21, <1>22, <1>23, <1>24, <1>25, <1>26, <1>27, <1>28, <1>29, <1>30
       DEF Step

-----------------------------------------------------------------------------
(***************************************************************************)
(* What each action does to its own request: the endpoints are called.     *)
(***************************************************************************)
LEMMA IdleIs ==
    ASSUME NEW r \in Requests, Local(r), stage[r] = "idle"
    PROVE  /\ kind[r] = "idle" /\ job[r] = NoJob /\ loaded[r] = None /\ dropped[r] = None
           /\ result[r] = "none" /\ saved[r] = {} /\ pend[r] = {}
           /\ tx[r] = <<>> /\ kx[r] = <<>>
BY DEF Local, Staged, Asked, Holds

LEMMA NoJobIs ==
    /\ NoJob \in Jobs
    /\ NoJob.act = "keep" /\ NoJob.inline = "none" /\ NoJob.kid = None /\ NoJob.made = {}
    /\ NoJob.post = <<>> /\ NoJob.pos = 1 /\ ~NoJob.broken
BY DEF NoJob, Jobs

Untouched(r) == /\ tx'[r] = tx[r] /\ kx'[r] = kx[r] /\ saved'[r] = saved[r]
                /\ dropped'[r] = dropped[r]

Calls(r, k, s) ==
    /\ stage[r] = "idle" /\ kind'[r] = k /\ stage'[r] = s
    /\ Untouched(r) /\ result'[r] = result[r]
    /\ job'[r] \in Jobs /\ job'[r].pos = 1 /\ job'[r].made = {} /\ ~job'[r].broken

LEMMA CallHolds ==
    ASSUME NEW r \in Requests, Local(r), NEW k, NEW s, Calls(r, k, s),
           s \in {"open", "save", "parse", "delete", "next", "line"},
           pend'[r] # {} => s \in {"save", "delete"} /\ k \notin {"bulk", "import"}
    PROVE  Holds(r)' /\ Replaces(r)' /\ BulkForm(r)' /\ ImportForm(r)'
<1>1. /\ tx'[r] = <<>> /\ kx'[r] = <<>> /\ saved'[r] = {} /\ dropped'[r] = None
      /\ result'[r] = "none"
    BY IdleIs DEF Calls, Untouched
<1>2. Holds(r)'
    BY <1>1, NothingWritten DEF Holds, Calls
<1>3. Replaces(r)'
    BY <1>1 DEF Replaces
<1>4. ASSUME k = "bulk" PROVE BulkForm(r)'
    <2>1. pend'[r] = {} /\ job'[r].pos = 1 /\ stage'[r] # "notice"
        BY <1>4 DEF Calls
    <2>2. Len(job'[r].ids) \in Nat
        BY SheetAssumption DEF Calls, Jobs
    <2> QED BY <1>1, <2>1, <2>2, NothingWritten DEF BulkForm
<1>5. BulkForm(r)'
    BY <1>4 DEF BulkForm, Calls
<1>6. ImportForm(r)'
    BY <1>1 DEF ImportForm, Calls
<1> QED BY <1>2, <1>3, <1>5, <1>6

LEMMA OpenFormLocal ==
    ASSUME LInv, NEW r \in Requests, OpenForm(r)
    PROVE  Local(r)'
<1>1. /\ Local(r) /\ DOMAIN job = Requests
      /\ kind \in [Requests -> Kinds] /\ stage \in [Requests -> Stages]
      /\ loaded \in [Requests -> Row \cup {None}] /\ DOMAIN pend = Requests
      /\ rows \in [Ids -> Row \cup {None}] /\ nextId \in Nat /\ nextId >= 3
    BY DEF LInv, TypeOK, Indexed
<1>2. stage[r] = "idle"
    BY DEF OpenForm
<1>3. /\ kind[r] = "idle" /\ job[r] = NoJob /\ loaded[r] = None /\ pend[r] = {}
    BY <1>1, <1>2, IdleIs
<1>4. PICK o \in Jobs : o = NoJob
    BY NoJobIs
<1>5. PICK i \in Ids, kid \in Kids \cup {None} :
         /\ job'[r] = [o EXCEPT !.id = i, !.kid = kid]
         /\ loaded'[r] = loaded[r] /\ pend'[r] = pend[r]
    BY <1>1, <1>3, <1>4, NoneIsNoId DEF OpenForm, Goto, FormOf, Formset, GetObject, db, session
<1> DEFINE p == [o EXCEPT !.id = i, !.kid = kid]
<1>6. /\ p \in Jobs /\ p.pos = 1 /\ p.made = {} /\ ~p.broken
      /\ p.id = i /\ p.inline = "none" /\ p.act = "keep"
    BY ZenonT(60), <1>4, <1>5, NoJobIs, SheetAssumption DEF Jobs, Posts
<1>7. job'[r] = p
    BY <1>5
<1> HIDE DEF p
<1>8. Calls(r, "edit", "open")
    BY <1>1, <1>2, <1>6, <1>7 DEF OpenForm, Goto, Calls, Untouched, session, history
<1>9. Holds(r)' /\ Replaces(r)' /\ BulkForm(r)' /\ ImportForm(r)'
    BY <1>1, <1>3, <1>5, <1>8, CallHolds, Zenon
<1>10. Staged(r)'
    BY <1>1, <1>2, <1>8 DEF Staged, Calls, Local
<1>11. Asked(r)'
    BY <1>1, <1>2, <1>3, <1>5, <1>6, <1>7, <1>8, IdleIs DEF Asked, Calls, Untouched
<1>12. Emits(r)'
    BY <1>3, <1>5, <1>6, <1>7, <1>8 DEF Emits, Calls, IsSet, Columns, Update, Delete, Mine
<1> QED BY <1>6, <1>7, <1>9, <1>10, <1>11, <1>12 DEF Local

LEMMA SubmitFieldLocal ==
    ASSUME LInv, NEW r \in Requests, SubmitField(r)
    PROVE  Local(r)'
<1>1. /\ Local(r) /\ DOMAIN job = Requests
      /\ kind \in [Requests -> Kinds] /\ stage \in [Requests -> Stages]
      /\ loaded \in [Requests -> Row \cup {None}] /\ DOMAIN pend = Requests
      /\ rows \in [Ids -> Row \cup {None}] /\ nextId \in Nat /\ nextId >= 3
    BY DEF LInv, TypeOK, Indexed
<1>2. stage[r] = "idle"
    BY DEF SubmitField
<1>3. /\ kind[r] = "idle" /\ job[r] = NoJob /\ loaded[r] = None /\ pend[r] = {}
    BY <1>1, <1>2, IdleIs
<1>4. PICK o \in Jobs : o = NoJob
    BY NoJobIs
<1>5. PICK i \in Ids, n \in Notes :
         /\ job'[r] = [o EXCEPT !.id = i]
         /\ rows[i] # None /\ loaded'[r] = rows[i]
         /\ pend'[r] \subseteq {Update(i, [note |-> n])}
    BY <1>1, <1>3, <1>4, NoneIsNoId DEF SubmitField, Goto, db, session
<1> DEFINE p == [o EXCEPT !.id = i]
<1>6. /\ p \in Jobs /\ p.pos = 1 /\ p.made = {} /\ ~p.broken
      /\ p.id = i /\ p.inline = "none"
    BY <1>4, <1>5, NoJobIs, SheetAssumption DEF Jobs, Posts
<1>7. job'[r] = p
    BY <1>5
<1> HIDE DEF p
<1>8. Calls(r, "field", "save")
    BY <1>1, <1>2, <1>6, <1>7 DEF SubmitField, Goto, Calls, Untouched, session, history
<1>9. Holds(r)' /\ Replaces(r)' /\ BulkForm(r)' /\ ImportForm(r)'
    BY <1>1, <1>3, <1>5, <1>8, CallHolds, Zenon
<1>10. Staged(r)'
    BY <1>1, <1>2, <1>8 DEF Staged, Calls, Local
<1>11. Asked(r)'
    BY <1>1, <1>2, <1>3, <1>5, <1>6, <1>7, <1>8, IdleIs DEF Asked, Calls, Untouched
<1>12. Emits(r)'
    BY <1>3, <1>5, <1>6, <1>7, <1>8 DEF Emits, Calls, IsSet, Columns, Update, Delete, Mine
<1> QED BY <1>6, <1>7, <1>9, <1>10, <1>11, <1>12 DEF Local

LEMMA SubmitPutLocal ==
    ASSUME LInv, NEW r \in Requests, SubmitPut(r)
    PROVE  Local(r)'
<1>1. /\ Local(r) /\ DOMAIN job = Requests
      /\ kind \in [Requests -> Kinds] /\ stage \in [Requests -> Stages]
      /\ loaded \in [Requests -> Row \cup {None}] /\ DOMAIN pend = Requests
      /\ rows \in [Ids -> Row \cup {None}] /\ nextId \in Nat /\ nextId >= 3
    BY DEF LInv, TypeOK, Indexed
<1>2. stage[r] = "idle"
    BY DEF SubmitPut
<1>3. /\ kind[r] = "idle" /\ job[r] = NoJob /\ loaded[r] = None /\ pend[r] = {}
    BY <1>1, <1>2, IdleIs
<1>4. PICK o \in Jobs : o = NoJob
    BY NoJobIs
<1>5. PICK i \in Ids, payload \in Payloads :
         /\ job'[r] = [o EXCEPT !.id = i, !.post = payload.post, !.act = payload.act]
         /\ rows[i] # None /\ loaded'[r] = rows[i]
         /\ pend'[r] = pend[r]
    BY <1>1, <1>3, <1>4, NoneIsNoId DEF SubmitPut, Goto, GetObject, db, session
<1>a. payload.post \in Posts /\ payload.act \in {"keep", "replace"}
    BY DEF Payloads, Posts
<1> DEFINE p == [o EXCEPT !.id = i, !.post = payload.post, !.act = payload.act]
<1>6. /\ p \in Jobs /\ p.pos = 1 /\ p.made = {} /\ ~p.broken
      /\ p.id = i /\ p.inline = "none" /\ p.post = payload.post
    BY ZenonT(60), <1>4, <1>5, <1>a, NoJobIs, SheetAssumption DEF Jobs
<1>7. job'[r] = p
    BY <1>5
<1> HIDE DEF p
<1>8. Calls(r, "put", "parse")
    BY <1>1, <1>2, <1>6, <1>7 DEF SubmitPut, Goto, Calls, Untouched, session, history
<1>9. Holds(r)' /\ Replaces(r)' /\ BulkForm(r)' /\ ImportForm(r)'
    BY <1>1, <1>3, <1>5, <1>8, CallHolds, Zenon
<1>10. Staged(r)'
    BY <1>1, <1>2, <1>8 DEF Staged, Calls, Local
<1>11. Asked(r)'
    BY <1>1, <1>2, <1>3, <1>5, <1>6, <1>7, <1>8, IdleIs DEF Asked, Calls, Untouched, Payloads
<1>12. Emits(r)'
    BY <1>3, <1>5, <1>6, <1>7, <1>8 DEF Emits, Calls, IsSet, Columns, Update, Delete, Mine
<1> QED BY <1>6, <1>7, <1>9, <1>10, <1>11, <1>12 DEF Local

LEMMA SubmitCreateLocal ==
    ASSUME LInv, NEW r \in Requests, SubmitCreate(r)
    PROVE  Local(r)'
<1>1. /\ Local(r) /\ DOMAIN job = Requests
      /\ kind \in [Requests -> Kinds] /\ stage \in [Requests -> Stages]
      /\ loaded \in [Requests -> Row \cup {None}] /\ DOMAIN pend = Requests
      /\ rows \in [Ids -> Row \cup {None}] /\ nextId \in Nat /\ nextId >= 3
    BY DEF LInv, TypeOK, Indexed
<1>2. stage[r] = "idle"
    BY DEF SubmitCreate
<1>3. /\ kind[r] = "idle" /\ job[r] = NoJob /\ loaded[r] = None /\ pend[r] = {}
    BY <1>1, <1>2, IdleIs
<1>4. PICK o \in Jobs : o = NoJob
    BY NoJobIs
<1>b. nextId \in Ids
    BY <1>1, IdAssumption DEF SubmitCreate, Ids
<1>5. PICK post \in Line, act \in {"keep", "replace"}, inline \in {"none", "add"} :
         /\ job'[r] = [o EXCEPT !.id = nextId, !.post = post, !.act = act, !.inline = inline]
         /\ nextId \in Ids
         /\ loaded'[r] = loaded[r] /\ pend'[r] = pend[r]
    BY <1>1, <1>3, <1>4, <1>b, NoneIsNoId DEF SubmitCreate, Goto, db, session
<1>a. post \in Posts /\ nextId \in Ids
    BY <1>5 DEF Posts
<1> DEFINE p == [o EXCEPT !.id = nextId, !.post = post, !.act = act, !.inline = inline]
<1>6. /\ p \in Jobs /\ p.pos = 1 /\ p.made = {} /\ ~p.broken
      /\ p.id = nextId /\ p.inline = inline /\ p.post = post
    BY ZenonT(60), <1>4, <1>5, <1>a, NoJobIs, SheetAssumption DEF Jobs
<1>7. job'[r] = p
    BY <1>5
<1> HIDE DEF p
<1>8. Calls(r, "create", "parse")
    BY <1>1, <1>2, <1>6, <1>7 DEF SubmitCreate, Goto, Calls, Untouched, session, history
<1>9. Holds(r)' /\ Replaces(r)' /\ BulkForm(r)' /\ ImportForm(r)'
    BY <1>1, <1>3, <1>5, <1>8, CallHolds, Zenon
<1>10. Staged(r)'
    BY <1>1, <1>2, <1>8 DEF Staged, Calls, Local
<1>11. Asked(r)'
    BY <1>1, <1>2, <1>3, <1>5, <1>6, <1>7, <1>8, IdleIs DEF Asked, Calls, Untouched
<1>12. Emits(r)'
    BY <1>3, <1>5, <1>6, <1>7, <1>8 DEF Emits, Calls, IsSet, Columns, Update, Delete, Mine
<1> QED BY <1>6, <1>7, <1>9, <1>10, <1>11, <1>12 DEF Local

LEMMA SubmitDeleteLocal ==
    ASSUME LInv, NEW r \in Requests, SubmitDelete(r)
    PROVE  Local(r)'
<1>1. /\ Local(r) /\ DOMAIN job = Requests
      /\ kind \in [Requests -> Kinds] /\ stage \in [Requests -> Stages]
      /\ loaded \in [Requests -> Row \cup {None}] /\ DOMAIN pend = Requests
      /\ rows \in [Ids -> Row \cup {None}] /\ nextId \in Nat /\ nextId >= 3
    BY DEF LInv, TypeOK, Indexed
<1>2. stage[r] = "idle"
    BY DEF SubmitDelete
<1>3. /\ kind[r] = "idle" /\ job[r] = NoJob /\ loaded[r] = None /\ pend[r] = {}
    BY <1>1, <1>2, IdleIs
<1>4. PICK o \in Jobs : o = NoJob
    BY NoJobIs
<1>5. PICK i \in Ids :
         /\ job'[r] = [o EXCEPT !.id = i]
         /\ rows[i] # None /\ loaded'[r] = rows[i]
         /\ pend'[r] = {Delete(i)}
    BY <1>1, <1>3, <1>4, NoneIsNoId DEF SubmitDelete, Goto, GetObject, db, session
<1> DEFINE p == [o EXCEPT !.id = i]
<1>6. /\ p \in Jobs /\ p.pos = 1 /\ p.made = {} /\ ~p.broken
      /\ p.id = i /\ p.inline = "none"
    BY <1>4, <1>5, NoJobIs, SheetAssumption DEF Jobs, Posts
<1>7. job'[r] = p
    BY <1>5
<1> HIDE DEF p
<1>8. Calls(r, "delete", "delete")
    BY <1>1, <1>2, <1>6, <1>7 DEF SubmitDelete, Goto, Calls, Untouched, session, history
<1>9. Holds(r)' /\ Replaces(r)' /\ BulkForm(r)' /\ ImportForm(r)'
    BY <1>1, <1>3, <1>5, <1>8, CallHolds, Zenon
<1>10. Staged(r)'
    BY <1>1, <1>2, <1>8 DEF Staged, Calls, Local
<1>11. Asked(r)'
    BY <1>1, <1>2, <1>3, <1>5, <1>6, <1>7, <1>8, IdleIs DEF Asked, Calls, Untouched
<1>12. Emits(r)'
    BY <1>3, <1>5, <1>6, <1>7, <1>8 DEF Emits, Calls, IsSet, Columns, Update, Delete, Mine
<1> QED BY <1>6, <1>7, <1>9, <1>10, <1>11, <1>12 DEF Local

LEMMA SubmitBulkLocal ==
    ASSUME LInv, NEW r \in Requests, SubmitBulk(r)
    PROVE  Local(r)'
<1>1. /\ Local(r) /\ DOMAIN job = Requests
      /\ kind \in [Requests -> Kinds] /\ stage \in [Requests -> Stages]
      /\ loaded \in [Requests -> Row \cup {None}] /\ DOMAIN pend = Requests
      /\ rows \in [Ids -> Row \cup {None}] /\ nextId \in Nat /\ nextId >= 3
    BY DEF LInv, TypeOK, Indexed
<1>2. stage[r] = "idle"
    BY DEF SubmitBulk
<1>3. /\ kind[r] = "idle" /\ job[r] = NoJob /\ loaded[r] = None /\ pend[r] = {}
    BY <1>1, <1>2, IdleIs
<1>4. PICK o \in Jobs : o = NoJob
    BY NoJobIs
<1>5. PICK ids \in Selections :
         /\ job'[r] = [o EXCEPT !.ids = ids]
         /\ loaded'[r] = loaded[r] /\ pend'[r] = pend[r]
    BY <1>1, <1>3, <1>4, NoneIsNoId DEF SubmitBulk, Goto, db, session
<1> DEFINE p == [o EXCEPT !.ids = ids]
<1>6. /\ p \in Jobs /\ p.pos = 1 /\ p.made = {} /\ ~p.broken
      /\ p.ids = ids /\ p.inline = "none"
    BY SMTT(30), <1>4, <1>5, NoJobIs, SheetAssumption DEF Jobs, Posts
<1>7. job'[r] = p
    BY <1>5
<1> HIDE DEF p
<1>8. Calls(r, "bulk", "next")
    BY <1>1, <1>2, <1>6, <1>7 DEF SubmitBulk, Goto, Calls, Untouched, session, history
<1>9. Holds(r)' /\ Replaces(r)' /\ BulkForm(r)' /\ ImportForm(r)'
    BY <1>1, <1>3, <1>5, <1>8, CallHolds, Zenon
<1>10. Staged(r)'
    BY <1>1, <1>2, <1>8 DEF Staged, Calls, Local
<1>11. Asked(r)'
    BY <1>1, <1>2, <1>3, <1>5, <1>6, <1>7, <1>8, IdleIs DEF Asked, Calls, Untouched
<1>12. Emits(r)'
    BY <1>3, <1>5, <1>6, <1>7, <1>8 DEF Emits, Calls, IsSet, Columns, Update, Delete, Mine
<1> QED BY <1>6, <1>7, <1>9, <1>10, <1>11, <1>12 DEF Local

LEMMA SubmitImportLocal ==
    ASSUME LInv, NEW r \in Requests, SubmitImport(r)
    PROVE  Local(r)'
<1>1. /\ Local(r) /\ DOMAIN job = Requests
      /\ kind \in [Requests -> Kinds] /\ stage \in [Requests -> Stages]
      /\ loaded \in [Requests -> Row \cup {None}] /\ DOMAIN pend = Requests
      /\ rows \in [Ids -> Row \cup {None}] /\ nextId \in Nat /\ nextId >= 3
    BY DEF LInv, TypeOK, Indexed
<1>2. stage[r] = "idle"
    BY DEF SubmitImport
<1>3. /\ kind[r] = "idle" /\ job[r] = NoJob /\ loaded[r] = None /\ pend[r] = {}
    BY <1>1, <1>2, IdleIs
<1>4. PICK o \in Jobs : o = NoJob
    BY NoJobIs
<1>5. PICK sheet \in Sheets, by \in {"key", "id"} :
         /\ job'[r] = [o EXCEPT !.list = sheet, !.by = by]
         /\ loaded'[r] = loaded[r] /\ pend'[r] = pend[r]
    BY <1>1, <1>3, <1>4, NoneIsNoId DEF SubmitImport, Goto, db, session
<1> DEFINE p == [o EXCEPT !.list = sheet, !.by = by]
<1>6. /\ p \in Jobs /\ p.pos = 1 /\ p.made = {} /\ ~p.broken
      /\ p.list = sheet /\ p.inline = "none"
    BY ZenonT(60), <1>4, <1>5, NoJobIs, SheetAssumption DEF Jobs, Posts
<1>7. job'[r] = p
    BY <1>5
<1> HIDE DEF p
<1>8. Calls(r, "import", "line")
    BY <1>1, <1>2, <1>6, <1>7 DEF SubmitImport, Goto, Calls, Untouched, session, history
<1>9. Holds(r)' /\ Replaces(r)' /\ BulkForm(r)' /\ ImportForm(r)'
    BY <1>1, <1>3, <1>5, <1>8, CallHolds, Zenon
<1>10. Staged(r)'
    BY <1>1, <1>2, <1>8 DEF Staged, Calls, Local
<1>11. Asked(r)'
    BY <1>1, <1>2, <1>3, <1>5, <1>6, <1>7, <1>8, IdleIs DEF Asked, Calls, Untouched
<1>12. Emits(r)'
    BY <1>3, <1>5, <1>6, <1>7, <1>8 DEF Emits, Calls, IsSet, Columns, Update, Delete, Mine
<1> QED BY <1>6, <1>7, <1>9, <1>10, <1>11, <1>12 DEF Local

-----------------------------------------------------------------------------
(***************************************************************************)
(* The steps that change neither what is asked nor what is written.        *)
(***************************************************************************)
LEMMA AskedKeeps ==
    ASSUME NEW r \in Requests, Local(r), kind'[r] = kind[r], job'[r] = job[r],
           dropped'[r] # None => kind[r] \in {"edit", "put"},
           loaded'[r] \in {loaded[r], None}, stage[r] # "idle", stage'[r] \notin {"idle", "open", "parse"}
    PROVE  Asked(r)' /\ job'[r] \in Jobs
BY DEF Local, Asked, Staged

LEMMA EmitsNothing ==
    ASSUME NEW r \in Requests, pend'[r] = {}, stage'[r] # "delete"
    PROVE  Emits(r)'
BY DEF Emits

LEMMA EmitsKeeps ==
    ASSUME NEW r \in Requests, Local(r), kind'[r] = kind[r], job'[r] = job[r],
           loaded'[r] = loaded[r], pend'[r] = pend[r], stage'[r] # "delete"
    PROVE  Emits(r)'
BY DEF Local, Emits, Mine, OwnFile

\* A request that ends without a commit leaves what it has committed before.
LEMMA EndLocal ==
    ASSUME LInv, NEW r \in Requests, kind'[r] = kind[r], job'[r] = job[r],
           dropped'[r] # None => kind[r] \in {"edit", "put"},
           saved'[r] = saved[r], loaded'[r] = None, pend'[r] = {},
           tx'[r] = <<>>, kx'[r] = <<>>, stage'[r] = "done", notify' = notify,
           result'[r] \in Results \ {"none", "ok"},
           stage[r] \notin {"idle", "done"}, kind[r] # "bulk" => saved[r] = {}
    PROVE  Local(r)'
<1>1. Local(r) /\ kind[r] \in Kinds /\ stage[r] \in Stages
    BY DEF LInv, TypeOK
<1>2. Asked(r)' /\ job'[r] \in Jobs
    BY <1>1, AskedKeeps
<1>3. Emits(r)'
    BY EmitsNothing
<1>4. Staged(r)'
    BY <1>1 DEF Local, Staged, Results
<1>5. Holds(r)'
    BY NothingWritten DEF Holds
<1>6. Replaces(r)'
    BY DEF Replaces
<1>7. BulkForm(r)'
    BY <1>1, NothingWritten DEF Local, BulkForm, Staged, Passed, Settled
<1>8. ImportForm(r)'
    BY <1>1 DEF Local, ImportForm
<1> QED BY <1>2, <1>3, <1>4, <1>5, <1>6, <1>7, <1>8 DEF Local

LEMMA RollBackLocal ==
    ASSUME LInv, NEW r \in Requests, RollBack(r), stage[r] \notin {"idle", "done"},
           kind[r] # "bulk" => saved[r] = {}
    PROVE  Local(r)'
<1>1. /\ kind'[r] = kind[r] /\ job'[r] = job[r]
      /\ dropped'[r] = dropped[r] /\ saved'[r] = saved[r] /\ loaded'[r] = None
      /\ pend'[r] = {} /\ tx'[r] = <<>> /\ kx'[r] = <<>> /\ stage'[r] = "done"
      /\ notify' = notify /\ result'[r] = "failed"
    BY DEF RollBack, Forget, Tell, Goto, world, history, LInv, TypeOK, Indexed
<1>2. "failed" \in Results \ {"none", "ok"}
    BY DEF Results
<1>3. dropped[r] # None => kind[r] \in {"edit", "put"}
    BY DEF LInv, Local, Asked
<1> QED BY <1>1, <1>2, <1>3, EndLocal

\* A request that holds nothing is told why it ends.
LEMMA TellLocal ==
    ASSUME LInv, NEW r \in Requests, NEW told \in Results \ {"none", "ok"}, Tell(r, told),
           kind'[r] = kind[r], job'[r] = job[r], saved'[r] = saved[r],
           pend'[r] = pend[r], tx'[r] = tx[r], kx'[r] = kx[r], notify' = notify,
           dropped'[r] # None => kind[r] \in {"edit", "put"}, stage[r] \in {"open", "parse"}
    PROVE  Local(r)'
<1>1. /\ loaded'[r] = None /\ stage'[r] = "done" /\ result'[r] = told
    BY DEF Tell, Goto, LInv, TypeOK
<1>2. /\ pend[r] = {} /\ tx[r] = <<>> /\ kx[r] = <<>> /\ (kind[r] # "bulk" => saved[r] = {})
    BY DEF LInv, Local, Holds
<1> QED BY <1>1, <1>2, EndLocal

\* A request that goes on without having written anything yet.
LEMMA GoOnLocal ==
    ASSUME LInv, NEW r \in Requests, Untouched(r), kind'[r] = kind[r],
           result'[r] = result[r], stage[r] \in {"open", "parse"},
           stage'[r] \in {"parse", "save"}, pend'[r] # {} => stage'[r] = "save"
    PROVE  /\ Staged(r)' /\ Holds(r)' /\ BulkForm(r)' /\ ImportForm(r)'
           /\ kind[r] \in {"edit", "create", "put"}
<1>1. Local(r) /\ kind[r] \in Kinds /\ stage[r] \in Stages
    BY DEF LInv, TypeOK
<1>2. kind[r] \in {"edit", "create", "put"}
    BY <1>1 DEF Local, Staged, Kinds
<1>3. tx[r] = <<>> /\ kx[r] = <<>> /\ saved[r] = {}
    BY <1>1, <1>2 DEF Local, Holds
<1>4. Staged(r)'
    BY <1>1, <1>2 DEF Local, Staged
<1>5. Holds(r)'
    BY <1>3, NothingWritten DEF Untouched, Holds
<1>6. BulkForm(r)' /\ ImportForm(r)'
    BY <1>2 DEF BulkForm, ImportForm
<1> QED BY <1>2, <1>4, <1>5, <1>6

LEMMA SubmitRowLocal ==
    ASSUME LInv, NEW r \in Requests, SubmitRow(r)
    PROVE  Local(r)'
<1>1. /\ Local(r) /\ DOMAIN job = Requests /\ stage \in [Requests -> Stages]
      /\ loaded \in [Requests -> Row \cup {None}] /\ rows \in [Ids -> Row \cup {None}]
    BY DEF LInv, TypeOK, Indexed
<1>2. PICK o \in Jobs : o = job[r]
    BY <1>1 DEF Local
<1>3. PICK post \in Line : job'[r] = [o EXCEPT !.post = post]
    BY <1>1, <1>2 DEF SubmitRow
<1> DEFINE p == [o EXCEPT !.post = post]
<1>4. /\ p \in Jobs /\ p.id = o.id /\ p.inline = o.inline /\ p.act = o.act /\ p.kid = o.kid
      /\ p.made = o.made /\ p.post = post
    BY DEF Jobs, Posts
<1>5. job'[r] = p
    BY <1>3
<1> HIDE DEF p
<1>6. /\ stage[r] = "open" /\ stage'[r] = "parse" /\ kind'[r] = kind[r]
      /\ Untouched(r) /\ result'[r] = result[r] /\ pend'[r] = pend[r]
      /\ loaded'[r] = rows[job[r].id] /\ rows[job[r].id] # None
    BY <1>1 DEF SubmitRow, Goto, Untouched, session, history
<1>7. pend[r] = {}
    BY <1>1, <1>6 DEF Local, Holds
<1>8. Staged(r)' /\ Holds(r)' /\ BulkForm(r)' /\ ImportForm(r)' /\ kind[r] = "edit"
    BY <1>1, <1>6, <1>7, GoOnLocal DEF Local, Staged
<1>9. Asked(r)'
    BY <1>1, <1>2, <1>4, <1>5, <1>6, <1>8 DEF Local, Asked, Untouched
<1>10. Emits(r)'
    BY <1>6, <1>7, EmitsNothing
<1>11. Replaces(r)'
    BY <1>1, <1>6 DEF Local, Asked, Replaces, Untouched
<1> QED BY <1>4, <1>5, <1>8, <1>9, <1>10, <1>11 DEF Local

LEMMA SubmitFormLocal ==
    ASSUME LInv, NEW r \in Requests, SubmitForm(r)
    PROVE  Local(r)'
<1>1. /\ Local(r) /\ DOMAIN job = Requests /\ stage \in [Requests -> Stages]
      /\ loaded \in [Requests -> Row \cup {None}] /\ rows \in [Ids -> Row \cup {None}]
    BY DEF LInv, TypeOK, Indexed
<1>2. /\ stage[r] = "open" /\ kind'[r] = kind[r] /\ Untouched(r) /\ pend'[r] = pend[r]
      /\ notify' = notify
    BY DEF SubmitForm, Untouched, session, history, world
<1>3. CASE rows[job[r].id] = None
    <2>1. Tell(r, "missing") /\ job' = job
        BY <1>3 DEF SubmitForm, GetObject
    <2>2. "missing" \in Results \ {"none", "ok"}
        BY DEF Results
    <2>3. dropped'[r] # None => kind[r] \in {"edit", "put"}
        BY <1>1, <1>2 DEF Untouched, Local, Asked
    <2> QED BY <1>2, <2>1, <2>2, <2>3, TellLocal DEF Untouched
<1>4. CASE rows[job[r].id] # None
    <2>1. PICK o \in Jobs : o = job[r]
        BY <1>1 DEF Local
    <2>a. \E post \in Line, act \in {"keep", "replace", "clear"},
             inline \in {"none", "add", "drop"} :
             /\ inline = "drop" => job[r].kid # None
             /\ job' = [job EXCEPT ![r] = [@ EXCEPT !.post = post, !.act = act,
                                                   !.inline = inline]]
        BY <1>4, Zenon DEF SubmitForm, GetObject
    <2>2. PICK post \in Line, act \in {"keep", "replace", "clear"},
               inline \in {"none", "add", "drop"} :
             /\ inline = "drop" => o.kid # None
             /\ job'[r] = [o EXCEPT !.post = post, !.act = act, !.inline = inline]
        BY <1>1, <2>1, <2>a
    <2> DEFINE p == [o EXCEPT !.post = post, !.act = act, !.inline = inline]
    <2>3. post \in Posts
        BY DEF Posts
    <2>4. /\ p \in Jobs /\ p.id = o.id /\ p.inline = inline /\ p.kid = o.kid
          /\ p.made = o.made /\ p.post = post
        BY ZenonT(60), <2>3 DEF Jobs
    <2>5. job'[r] = p
        BY <2>2
    <2> HIDE DEF p
    <2>6. /\ stage'[r] = "parse" /\ result'[r] = result[r]
          /\ loaded'[r] = rows[job[r].id]
        BY <1>1, <1>4 DEF SubmitForm, Goto, GetObject
    <2>7. pend[r] = {}
        BY <1>1, <1>2 DEF Local, Holds
    <2>8. Staged(r)' /\ Holds(r)' /\ BulkForm(r)' /\ ImportForm(r)' /\ kind[r] = "edit"
        BY <1>1, <1>2, <2>6, <2>7, GoOnLocal DEF Local, Staged
    <2>9. p.inline = "drop" => p.kid \in Kids
        BY <2>1, <2>2, <2>4, NoneIsNoId DEF Jobs
    <2>10. Asked(r)'
        BY <1>1, <1>2, <1>4, <2>1, <2>4, <2>5, <2>6, <2>8, <2>9 DEF Local, Asked, Untouched
    <2>11. Emits(r)'
        BY <1>2, <2>6, <2>7, EmitsNothing
    <2>12. Replaces(r)'
        BY <1>1, <1>2 DEF Local, Asked, Replaces, Untouched
    <2> QED BY <2>4, <2>5, <2>8, <2>10, <2>11, <2>12 DEF Local
<1> QED BY <1>3, <1>4

LEMMA RefuseUploadLocal ==
    ASSUME LInv, NEW r \in Requests, RefuseUpload(r)
    PROVE  Local(r)'
<1>1. "invalid" \in Results \ {"none", "ok"}
    BY DEF Results
<1>2. dropped[r] # None => kind[r] \in {"edit", "put"}
    BY DEF LInv, Local, Asked
<1> QED BY <1>1, <1>2, TellLocal DEF RefuseUpload, world, session, history

-----------------------------------------------------------------------------
(***************************************************************************)
(* Parsing, and the steps that end or only move on.                        *)
(***************************************************************************)

\* The upload of a form is not yet the file of any row.
LEMMA UploadIsNew ==
    ASSUME HomeInv, NEW r \in Requests, stage[r] = "parse", loaded[r] # None
    PROVE  loaded[r].file # r
<1>1. r # None
    BY NoneAssumption
<1> QED BY <1>1, NameAssumption DEF HomeInv, Home, Published

LEMMA SavingIs ==
    ASSUME LInv, NEW r \in Requests, stage[r] = "parse"
    PROVE  /\ kind[r] \in Writers /\ job[r].id \in Ids
           /\ loaded[r] = None => /\ kind[r] = "create" /\ OwnFile(r, NewFile(r))
                                  /\ \E row \in Row : /\ Saving(r) = {Insert(job[r].id, row)}
                                                      /\ row.file = NewFile(r)
           /\ loaded[r] # None =>
                /\ kind[r] \in {"edit", "put"} /\ loaded[r] \in Row
                /\ NewFile(r) # loaded[r].file => OwnFile(r, NewFile(r)) /\ Saving(r) # {}
                /\ \A s \in Saving(r) :
                     /\ s.op = "update" /\ s.id = job[r].id /\ IsSet(s.set)
                     /\ \A c \in DOMAIN s.set \cap {"key", "note"} :
                            s.set[c] = job[r].post[c] /\ job[r].post[c] # loaded[r][c]
                     /\ "file" \in DOMAIN s.set <=> NewFile(r) # loaded[r].file
                     /\ "file" \in DOMAIN s.set => s.set["file"] = NewFile(r)
<1>1. /\ Local(r) /\ kind[r] \in Kinds /\ loaded[r] \in Row \cup {None} /\ job[r] \in Jobs
    BY DEF LInv, TypeOK, Local
<1>2. /\ kind[r] \in Writers /\ job[r].id \in Ids
      /\ kind[r] \in {"edit", "put"} => loaded[r] # None
      /\ kind[r] = "create" => loaded[r] = None
    BY <1>1 DEF Local, Staged, Asked, Kinds, Writers
<1>3. job[r].act \in {"keep", "replace", "clear"}
    BY <1>1 DEF Jobs
<1>4. /\ NewFile(r) \in Files \cup {None}
      /\ loaded[r] = None \/ NewFile(r) # loaded[r].file => OwnFile(r, NewFile(r))
    BY <1>1, <1>2, <1>3 DEF NewFile, OwnFile, Files, Row
<1>5. job[r].post \in Posts /\ (kind[r] = "create" => job[r].post \in Line)
    BY <1>1, <1>2 DEF Local, Asked, Posts, Writers
<1> DEFINE values == Over(job[r].post, [file |-> NewFile(r)])
           changed == Changed(r, values)
           upd == [c \in changed |-> values[c]]
<1>6. /\ IsSet(values) /\ "file" \in DOMAIN values /\ values["file"] = NewFile(r)
      /\ \A c \in DOMAIN values \cap {"key", "note"} : values[c] = job[r].post[c]
    BY <1>4, <1>5, PostSet
<1>7. ASSUME loaded[r] = None
      PROVE  \E row \in Row : Saving(r) = {Insert(job[r].id, row)} /\ row.file = NewFile(r)
    <2>1. job[r].post \in Line
        BY <1>2, <1>5, <1>7 DEF Writers
    <2>2. values \in Row /\ values.file = NewFile(r)
        BY <1>4, <2>1, LineRow
    <2>3. Saving(r) = {Insert(job[r].id, values)}
        BY <1>7 DEF Saving
    <2> HIDE DEF values
    <2> QED BY <2>2, <2>3
<1>8. ASSUME loaded[r] # None
      PROVE  Saving(r) = IF changed = {} THEN {} ELSE {Update(job[r].id, upd)}
    BY <1>8 DEF Saving
<1>9. /\ changed \subseteq DOMAIN values
      /\ \A c \in DOMAIN values : c \in changed <=> values[c] # loaded[r][c]
    BY DEF Changed
<1> HIDE DEF values, changed
<1>10. IsSet(upd)
    BY <1>6, <1>9 DEF IsSet
<1>11. /\ \A c \in DOMAIN upd \cap {"key", "note"} :
              upd[c] = job[r].post[c] /\ job[r].post[c] # loaded[r][c]
       /\ "file" \in DOMAIN upd <=> NewFile(r) # loaded[r]["file"]
       /\ "file" \in DOMAIN upd => upd["file"] = NewFile(r)
       /\ NewFile(r) # loaded[r]["file"] => changed # {}
    BY <1>6, <1>9
<1> HIDE DEF upd
<1>12. ASSUME NEW s, s = Update(job[r].id, upd)
       PROVE  s.op = "update" /\ s.id = job[r].id /\ s.set = upd
    BY <1>12 DEF Update
<1>13. ASSUME loaded[r] # None, NEW s \in Saving(r)
       PROVE  s.op = "update" /\ s.id = job[r].id /\ s.set = upd
    BY <1>8, <1>12, <1>13
<1>14. ASSUME loaded[r] # None
       PROVE  NewFile(r) # loaded[r].file => OwnFile(r, NewFile(r)) /\ Saving(r) # {}
    BY <1>4, <1>8, <1>11, <1>14
<1> QED BY <1>1, <1>2, <1>4, <1>7, <1>10, <1>11, <1>13, <1>14 DEF Writers

LEMMA ParseLocal ==
    ASSUME LInv, HomeInv, NEW r \in Requests, Parse(r)
    PROVE  Local(r)'
<1>1. /\ Local(r) /\ stage[r] = "parse" /\ kind'[r] = kind[r] /\ job'[r] = job[r]
      /\ dropped'[r] = OldFile(r) /\ saved'[r] = saved[r] /\ tx'[r] = tx[r] /\ kx'[r] = kx[r]
      /\ notify' = notify
    BY DEF LInv, TypeOK, Indexed, Parse
<1>2. /\ kind[r] \in Writers /\ (loaded[r] # None => kind[r] \in {"edit", "put"})
    BY <1>1, SavingIs DEF Writers
<1>3. OldFile(r) # None => /\ loaded[r] # None /\ OldFile(r) = loaded[r].file
                           /\ job[r].act # "keep"
    BY DEF OldFile
<1>4. dropped'[r] # None => kind[r] \in {"edit", "put"}
    BY <1>1, <1>2, <1>3
<1>5. CASE Tell(r, "invalid") /\ UNCHANGED pend
    <2>1. "invalid" \in Results \ {"none", "ok"}
        BY DEF Results
    <2> QED BY <1>1, <1>4, <1>5, <2>1, TellLocal
<1>6. CASE /\ pend' = [pend EXCEPT ![r] = Saving(r)] /\ Goto(r, "save")
           /\ UNCHANGED <<loaded, result>>
    <2>1. /\ pend'[r] = Saving(r) /\ stage'[r] = "save" /\ loaded'[r] = loaded[r]
          /\ result'[r] = result[r]
        BY <1>6 DEF Goto, LInv, TypeOK, Indexed
    <2>2. tx[r] = <<>> /\ kx[r] = <<>> /\ saved[r] = {} /\ result[r] = "none"
        BY <1>1, <1>2 DEF Local, Holds, Staged, Writers
    <2>3. Staged(r)'
        BY <1>1, <1>2, <2>1 DEF Local, Staged, Writers
    <2>4. Holds(r)'
        BY <1>1, <2>1, <2>2, NothingWritten DEF Holds
    <2>5. BulkForm(r)' /\ ImportForm(r)'
        BY <1>1, <1>2 DEF BulkForm, ImportForm, Writers
    <2>6. Asked(r)' /\ job'[r] \in Jobs
        BY <1>1, <1>4, <2>1, AskedKeeps
    <2>7. OwnFile(r, NewFile(r))' <=> OwnFile(r, NewFile(r))
        BY <1>1, <2>1 DEF OwnFile, NewFile
    <2>8. NewFile(r) = NewFile(r)'
        BY <1>1, <2>1 DEF NewFile
    <2>9. Emits(r)'
        <3>1. CASE loaded[r] = None
            <4>1. PICK row \in Row : Saving(r) = {Insert(job[r].id, row)} /\ row.file = NewFile(r)
                BY <1>1, <3>1, SavingIs
            <4>2. kind[r] = "create" /\ OwnFile(r, row.file) /\ job[r].id \in Ids
                BY <1>1, <3>1, <4>1, SavingIs
            <4>3. OwnFile(r, row.file)' /\ job'[r].id \in Mine(r)'
                BY <1>1, <4>2 DEF OwnFile, Mine
            <4> QED BY <1>1, <2>1, <4>1, <4>2, <4>3 DEF Emits, Insert
        <3>2. CASE loaded[r] # None
            <4>1. /\ kind[r] \in {"edit", "put"} /\ job[r].id \in Ids
                  /\ NewFile(r) # loaded[r].file => OwnFile(r, NewFile(r))
                  /\ \A s \in Saving(r) :
                     /\ s.op = "update" /\ s.id = job[r].id /\ IsSet(s.set)
                     /\ \A c \in DOMAIN s.set \cap {"key", "note"} :
                            s.set[c] = job[r].post[c] /\ job[r].post[c] # loaded[r][c]
                     /\ "file" \in DOMAIN s.set => /\ NewFile(r) # loaded[r].file
                                                   /\ s.set["file"] = NewFile(r)
                BY <1>1, <3>2, SavingIs
            <4>2. ASSUME NEW s \in pend'[r], "file" \in DOMAIN s.set
                  PROVE  OwnFile(r, s.set["file"])'
                BY <1>1, <2>1, <4>1, <4>2 DEF OwnFile
            <4> QED BY <1>1, <2>1, <4>1, <4>2 DEF Emits
        <3> QED BY <3>1, <3>2
    <2>10. Replaces(r)'
        <3>1. SUFFICES ASSUME dropped'[r] # None
                       PROVE  /\ pend'[r] # {}
                              /\ \A s \in pend'[r] : /\ s.op = "update" /\ "file" \in DOMAIN s.set
                                                     /\ s.set["file"] # dropped'[r]
            BY <2>1 DEF Replaces
        <3>2. loaded[r] # None /\ dropped'[r] = loaded[r].file /\ job[r].act # "keep"
            BY <1>1, <1>3, <3>1
        <3>3. job[r].act \in {"replace", "clear"}
            BY <1>1, <3>2 DEF Local, Jobs
        <3>4. NewFile(r) # loaded[r].file
            BY <1>1, <3>1, <3>2, <3>3, UploadIsNew DEF NewFile
        <3> QED BY <1>1, <2>1, <3>2, <3>4, SavingIs
    <2> QED BY <2>3, <2>4, <2>5, <2>6, <2>9, <2>10 DEF Local
<1> QED BY <1>5, <1>6 DEF Parse

\* Kind and job stay, and the request goes on.
Goes(r) ==
    /\ kind'[r] = kind[r] /\ job'[r] = job[r] /\ dropped'[r] = dropped[r]
    /\ loaded'[r] = loaded[r] /\ result'[r] = result[r] /\ notify' = notify

LEMMA GoesLocal ==
    ASSUME NEW r \in Requests, Local(r), Goes(r), stage[r] \notin {"idle", "done"},
           stage'[r] \notin {"idle", "open", "parse", "delete", "done"},
           pend'[r] = pend[r] \/ pend'[r] = {}
    PROVE  Asked(r)' /\ job'[r] \in Jobs /\ Emits(r)'
<1>1. dropped[r] # None => kind[r] \in {"edit", "put"}
    BY DEF Local, Asked
<1>2. Asked(r)' /\ job'[r] \in Jobs
    BY <1>1, AskedKeeps DEF Goes
<1>3. Emits(r)'
    BY EmitsNothing, EmitsKeeps DEF Goes
<1> QED BY <1>2, <1>3

LEMMA FlushNothingLocal ==
    ASSUME LInv, NEW r \in Requests, FlushNothing(r)
    PROVE  Local(r)'
<1>1. /\ Local(r) /\ stage[r] = "save" /\ pend[r] = {} /\ stage'[r] = AfterSave(r)
      /\ Goes(r) /\ Untouched(r) /\ pend'[r] = pend[r] /\ kind[r] \in Kinds
    BY DEF LInv, TypeOK, FlushNothing, Goto, Goes, Untouched, world, session, history
<1>2. kind[r] \in {"create", "edit", "put", "field"}
    BY <1>1 DEF Local, Staged, Kinds
<1>3. /\ stage'[r] \in {"inline", "dispatch", "commit"}
      /\ kind[r] = "field" => stage'[r] = "commit"
      /\ kind[r] = "put" => stage'[r] = "dispatch"
      /\ kind[r] # "field" => stage'[r] # "commit"
    BY <1>1, <1>2 DEF AfterSave, Local, Asked
<1>4. tx[r] = <<>> /\ kx[r] = <<>> /\ saved[r] = {} /\ dropped[r] = None
    BY <1>1, <1>2 DEF Local, Holds, Replaces
<1>5. Asked(r)' /\ job'[r] \in Jobs /\ Emits(r)'
    BY <1>1, <1>3, GoesLocal
<1>6. Staged(r)'
    BY <1>1, <1>2, <1>3 DEF Local, Staged, Goes
<1>7. Holds(r)' /\ Replaces(r)'
    BY <1>1, <1>4, NothingWritten DEF Holds, Replaces, Untouched, Goes
<1>8. BulkForm(r)' /\ ImportForm(r)'
    BY <1>1, <1>2 DEF BulkForm, ImportForm, Goes
<1> QED BY <1>5, <1>6, <1>7, <1>8 DEF Local

LEMMA SaveInlineLocal ==
    ASSUME LInv, NEW r \in Requests, SaveInline(r)
    PROVE  Local(r)'
<1>1. /\ Local(r) /\ stage[r] = "inline" /\ stage'[r] = "dispatch" /\ kind[r] \in Kinds
      /\ Goes(r) /\ saved'[r] = saved[r] /\ tx'[r] = tx[r] /\ pend'[r] = pend[r]
      /\ DOMAIN kx = Requests
    BY DEF LInv, TypeOK, Indexed, SaveInline, Goto, Goes, world, history
<1>2. kind[r] \in {"create", "edit"}
    BY <1>1 DEF Local, Staged, Kinds
<1>3. \/ kx'[r] = [c \in {r} |-> job[r].id]
      \/ kx'[r] = <<>>
      \/ kx'[r] = [c \in {job[r].kid} |-> None]
    BY <1>1 DEF SaveInline
<1>4. /\ job[r].id \in Ids /\ pend[r] = {} /\ saved[r] = {} /\ result[r] = "none"
    BY <1>1, <1>2 DEF Local, Asked, Holds, Staged
<1>5. \A c \in DOMAIN kx'[r] : kx'[r][c] \in Ids \cup {None}
    BY <1>3, <1>4, NothingWritten
<1>6. Asked(r)' /\ job'[r] \in Jobs /\ Emits(r)'
    BY <1>1, GoesLocal
<1>7. Staged(r)'
    BY <1>1, <1>2 DEF Local, Staged, Goes
<1>8. Holds(r)'
    BY <1>1, <1>2, <1>4, <1>5 DEF Holds, Goes
<1>9. Replaces(r)'
    BY <1>1 DEF Local, Replaces, Replaced, Goes
<1>10. BulkForm(r)' /\ ImportForm(r)'
    BY <1>1, <1>2 DEF BulkForm, ImportForm, Goes
<1> QED BY <1>6, <1>7, <1>8, <1>9, <1>10 DEF Local

\* The import moves on between its stages.
LEMMA ImportMoves ==
    ASSUME LInv, NEW r \in Requests, Goes(r), Untouched(r), pend'[r] = pend[r],
           kind[r] = "import", stage[r] \in {"line", "flush", "list"},
           stage'[r] \in {"flush", "list", "dispatch"},
           stage'[r] # "flush" => pend[r] = {},
           stage'[r] = "dispatch" => ~job[r].broken,
           stage'[r] # "flush" => stage[r] # "line"
    PROVE  Local(r)'
<1>1. Local(r)
    BY DEF LInv
<1>2. Asked(r)' /\ job'[r] \in Jobs /\ Emits(r)'
    BY <1>1, GoesLocal
<1>3. Staged(r)'
    BY <1>1 DEF Local, Staged, Goes
<1>4. Holds(r)'
    BY <1>1 DEF Local, Holds, Goes, Untouched
<1>5. Replaces(r)'
    BY <1>1 DEF Local, Asked, Replaces, Goes
<1>6. BulkForm(r)'
    BY DEF BulkForm, Goes
<1>7. ImportForm(r)'
    BY <1>1 DEF Local, ImportForm, Goes, Untouched
<1> QED BY <1>2, <1>3, <1>4, <1>5, <1>6, <1>7 DEF Local

LEMMA EndOfSheetLocal ==
    ASSUME LInv, NEW r \in Requests, EndOfSheet(r)
    PROVE  Local(r)'
<1>1. /\ Goes(r) /\ Untouched(r) /\ pend'[r] = pend[r] /\ stage[r] = "line"
      /\ stage'[r] = "flush"
    BY DEF LInv, TypeOK, EndOfSheet, Goto, Goes, Untouched, world, session, history
<1>2. kind[r] = "import"
    BY <1>1 DEF LInv, TypeOK, Kinds, Local, Staged
<1> QED BY <1>1, <1>2, ImportMoves

LEMMA ImportAnswerLocal ==
    ASSUME LInv, NEW r \in Requests, ImportAnswer(r)
    PROVE  Local(r)'
<1>1. /\ Local(r) /\ stage[r] = "flush" /\ pend[r] = {} /\ kind[r] \in Kinds
      /\ Untouched(r) /\ pend'[r] = pend[r] /\ kind'[r] = kind[r] /\ job'[r] = job[r]
      /\ notify' = notify
    BY DEF LInv, TypeOK, ImportAnswer, Untouched, world, session, history
<1>2. kind[r] = "import"
    BY <1>1 DEF Kinds, Local, Staged
<1>3. CASE Tell(r, "rejected") /\ job[r].made = {} /\ job[r].updated = 0
    <2>1. stage'[r] = "done" /\ result'[r] = "rejected" /\ loaded'[r] = None
        BY <1>3 DEF Tell, Goto, LInv, TypeOK
    <2>2. tx[r] = <<>> /\ kx[r] = <<>> /\ saved[r] = {}
        BY <1>1, <1>2, <1>3 DEF Local, Holds, ImportForm
    <2>3. "rejected" \in Results \ {"none", "ok"} /\ dropped[r] = None
        BY <1>1, <1>2 DEF Results, Local, Asked
    <2> QED BY <1>1, <2>1, <2>2, <2>3, EndLocal DEF Untouched
<1>4. CASE Goto(r, "list") /\ UNCHANGED <<loaded, result>>
    <2>1. stage'[r] = "list" /\ Goes(r)
        BY <1>1, <1>4 DEF Goto, LInv, TypeOK, Goes, Untouched
    <2> QED BY <1>1, <1>2, <2>1, ImportMoves
<1> QED BY <1>3, <1>4 DEF ImportAnswer

LEMMA ListRowsLocal ==
    ASSUME LInv, NEW r \in Requests, ListRows(r)
    PROVE  Local(r)'
<1>1. Local(r) /\ stage[r] = "list" /\ kind[r] \in Kinds
    BY DEF LInv, TypeOK, ListRows
<1>2. kind[r] = "import" /\ pend[r] = {} /\ saved[r] = {}
    BY <1>1 DEF Local, Staged, Holds, Kinds
<1>3. CASE RollBack(r)
    BY <1>1, <1>2, <1>3, RollBackLocal
<1>4. CASE ~job[r].broken
    <2>1. Goes(r) /\ Untouched(r) /\ pend'[r] = pend[r] /\ stage'[r] = "dispatch"
        BY <1>4 DEF LInv, TypeOK, ListRows, Goto, Goes, Untouched, world, session, history
    <2> QED BY <1>1, <1>2, <1>4, <2>1, ImportMoves
<1> QED BY <1>3, <1>4 DEF ListRows

\* A failing statement rolls back a request that has not committed yet.
LEMMA FailsLocal ==
    ASSUME LInv, NEW r \in Requests, InlineFails(r) \/ FlushFails(r) \/ CommitFails(r)
    PROVE  Local(r)'
<1>1. Local(r) /\ kind[r] \in Kinds /\ RollBack(r)
    BY DEF LInv, TypeOK, InlineFails, FlushFails, CommitFails
<1>2. stage[r] \notin {"idle", "done"}
    BY DEF InlineFails, FlushFails, CommitFails, Flushes, LooksUp
<1>3. stage[r] # "commit" \/ tx[r] # <<>> \/ kx[r] # <<>>
    BY DEF InlineFails, FlushFails, CommitFails, Flushes, LooksUp
<1>4. kind[r] # "bulk" => saved[r] = {}
    BY <1>1, <1>2, <1>3 DEF Local, Holds
<1> QED BY <1>1, <1>2, <1>4, RollBackLocal

\* What a commit does to its request.
LEMMA ApplyOwn ==
    ASSUME TypeOK, Indexed, NEW r \in Requests, Holds(r), Apply(r)
    PROVE  /\ rows' = RowsOf(r) /\ kids' = KidsOf(r)
           /\ tx'[r] = <<>> /\ kx'[r] = <<>>
           /\ saved[r] \cup DOMAIN tx[r] \subseteq saved'[r]
           /\ saved'[r] \subseteq saved[r] \cup DOMAIN tx[r] \cup {0}
           /\ kind[r] \notin {"create", "edit"} => saved'[r] = saved[r] \cup DOMAIN tx[r]
           /\ \A q \in Requests \ {r} : saved'[q] = saved[q]
BY DEF Apply, Indexed, Holds

LEMMA DispatchLocal ==
    ASSUME LInv, NEW r \in Requests, Dispatch(r)
    PROVE  Local(r)'
<1>1. /\ Local(r) /\ stage[r] = "dispatch" /\ stage'[r] = "commit" /\ kind[r] \in Kinds
      /\ Goes(r) /\ pend'[r] = pend[r]
    BY DEF LInv, TypeOK, Dispatch, Goto, Goes
<1>2. kind[r] \in {"create", "edit", "put", "delete", "import"}
    BY <1>1 DEF Local, Staged, Kinds
<1>3. pend[r] = {} /\ saved[r] = {} /\ result[r] = "none"
    BY <1>1, <1>2 DEF Local, Holds, Staged
<1>4. \/ /\ tx'[r] = <<>> /\ kx'[r] = <<>> /\ DOMAIN tx[r] \subseteq saved'[r]
      \/ /\ tx'[r] = tx[r] /\ kx'[r] = kx[r] /\ saved'[r] = saved[r]
    BY <1>1, ApplyOwn DEF Dispatch, LInv, Local
<1>5. Asked(r)' /\ job'[r] \in Jobs /\ Emits(r)'
    BY <1>1, GoesLocal
<1>6. Staged(r)'
    BY <1>1, <1>2 DEF Local, Staged, Goes
<1>7. Holds(r)'
    BY <1>1, <1>3, <1>4, NothingWritten DEF Local, Holds, Goes
<1>8. Replaces(r)'
    BY <1>1 DEF Replaces
<1>9. BulkForm(r)'
    BY <1>1, <1>2 DEF BulkForm, Goes
<1>10. ImportForm(r)'
    BY <1>1, <1>3, <1>4 DEF Local, ImportForm, Goes
<1> QED BY <1>5, <1>6, <1>7, <1>8, <1>9, <1>10 DEF Local

LEMMA CommitLocal ==
    ASSUME LInv, NEW r \in Requests, Commit(r)
    PROVE  Local(r)'
<1>1. /\ Local(r) /\ stage[r] = "commit" /\ stage'[r] = "done" /\ kind[r] \in Kinds
      /\ kind'[r] = kind[r] /\ job'[r] = job[r] /\ dropped'[r] = dropped[r]
      /\ loaded'[r] = None /\ result'[r] = "ok" /\ pend'[r] = pend[r]
    BY DEF LInv, TypeOK, Commit, Tell, Goto
<1>2. /\ tx'[r] = <<>> /\ kx'[r] = <<>> /\ saved[r] \cup DOMAIN tx[r] \subseteq saved'[r]
    BY ApplyOwn DEF Commit, LInv, Local
<1>3. pend[r] = {} /\ result[r] = "none" /\ kind[r] # "idle"
    BY <1>1 DEF Local, Holds, Staged
<1>4. dropped'[r] # None => kind[r] \in {"edit", "put"}
    BY <1>1 DEF Local, Asked
<1>5. Asked(r)' /\ job'[r] \in Jobs
    BY <1>1, <1>4, AskedKeeps
<1>6. Emits(r)'
    BY <1>1, <1>3, EmitsNothing
<1>7. Staged(r)'
    BY <1>1 DEF Local, Staged
<1>8. Holds(r)'
    BY <1>1, <1>2, <1>3, NothingWritten DEF Holds
<1>9. Replaces(r)'
    BY <1>1 DEF Replaces
<1>10. BulkForm(r)'
    BY <1>1, <1>2, <1>3, NothingWritten DEF Local, BulkForm, Passed
<1>11. ImportForm(r)'
    BY <1>1, <1>2, <1>3 DEF Local, ImportForm
<1> QED BY <1>5, <1>6, <1>7, <1>8, <1>9, <1>10, <1>11 DEF Local

-----------------------------------------------------------------------------
(***************************************************************************)
(* The bulk action.                                                        *)
(***************************************************************************)
LEMMA SelectionIs ==
    ASSUME LInv, NEW r \in Requests, kind[r] = "bulk"
    PROVE  /\ job[r].ids \in Seq(Ids) /\ Passed(r) \subseteq Ids /\ Settled(r) \subseteq Passed(r)
           /\ job[r].pos \in Nat \ {0} /\ Len(job[r].ids) \in Nat
           /\ DOMAIN job[r].ids = 1 .. Len(job[r].ids)
<1>1. job[r].ids \in Seq(Ids) /\ job[r].pos \in Nat \ {0}
    BY SheetAssumption DEF LInv, Local, Asked, Jobs, Ids
<1> QED BY <1>1 DEF Passed, Settled

LEMMA BulkNextLocal ==
    ASSUME LInv, NEW r \in Requests, BulkNext(r)
    PROVE  Local(r)'
<1>1. /\ Local(r) /\ stage[r] = "next" /\ pend[r] = {} /\ kind'[r] = kind[r]
      /\ Untouched(r) /\ pend'[r] = pend[r] /\ loaded'[r] = loaded[r] /\ result'[r] = result[r]
      /\ notify' = notify /\ kind[r] \in Kinds /\ DOMAIN job = Requests
    BY DEF LInv, TypeOK, Indexed, BulkNext, Untouched, world, session, history
<1>2. kind[r] = "bulk" /\ dropped[r] = None /\ loaded[r] = None /\ result[r] = "none"
    BY <1>1 DEF Local, Staged, Asked, Kinds
<1>3. kx[r] = <<>> /\ job[r].inline = "none" /\ job[r].made = {}
    BY <1>1, <1>2 DEF Local, Holds, Asked
<1>4. ASSUME stage'[r] \in {"next", "notice", "commit"} PROVE Staged(r)' /\ Holds(r)'
    BY <1>1, <1>2, <1>3, <1>4, NothingWritten DEF Local, Staged, Holds, Untouched
<1>5. Replaces(r)' /\ ImportForm(r)'
    BY <1>1, <1>2 DEF Replaces, ImportForm, Untouched
<1>6. CASE job[r].pos > Len(job[r].ids)
    <2>1. stage'[r] = "commit" /\ job'[r] = job[r]
        BY <1>6 DEF BulkNext, Goto, LInv, TypeOK
    <2>2. Asked(r)' /\ job'[r] \in Jobs
        BY <1>1, <1>2, <2>1, AskedKeeps DEF Untouched
    <2>3. Emits(r)'
        BY <1>1, <2>1, EmitsNothing
    <2>4. BulkForm(r)'
        BY <1>1, <2>1 DEF Local, BulkForm, Passed, Settled, Untouched
    <2> QED BY <1>4, <1>5, <2>1, <2>2, <2>3, <2>4 DEF Local
<1>7. CASE ~(job[r].pos > Len(job[r].ids))
    <2>1. PICK o \in Jobs : o = job[r]
        BY <1>1 DEF Local
    <2>2. job'[r] = [o EXCEPT !.pos = o.pos + 1, !.id = o.ids[o.pos]]
        BY <1>1, <1>7, <2>1 DEF BulkNext
    <2>3. stage'[r] \in {"next", "notice"}
        BY <1>7 DEF BulkNext, Goto, LInv, TypeOK
    <2>4. /\ o.ids \in Seq(Ids) /\ o.pos \in Nat \ {0} /\ Len(o.ids) \in Nat
          /\ o.pos <= Len(o.ids) /\ o.ids[o.pos] \in Ids
        BY <1>2, <1>7, <2>1, SelectionIs
    <2>a. PICK n \in Nat \ {0}, i \in Ids : n = o.pos + 1 /\ i = o.ids[o.pos]
        BY <2>4
    <2> DEFINE p == [o EXCEPT !.pos = n, !.id = i]
    <2>5. p \in Jobs
        BY DEF Jobs
    <2>6. /\ p.pos = n /\ p.id = i /\ p.ids = o.ids /\ p.inline = o.inline
          /\ p.made = o.made /\ p.act = o.act /\ p.kid = o.kid
        BY DEF Jobs
    <2>7. job'[r] = p
        BY <2>2, <2>a
    <2> HIDE DEF p
    <2>8. Asked(r)'
        BY <1>1, <1>2, <1>3, <2>1, <2>3, <2>6, <2>7 DEF Local, Asked, Untouched
    <2>9. Emits(r)'
        BY <1>1, <2>3, EmitsNothing
    <2>10. BulkForm(r)'
        <3>1. Passed(r) \subseteq Settled(r)' /\ Settled(r)' \subseteq Passed(r)'
            BY SMTT(30), <2>1, <2>4, <2>6, <2>7, <2>a DEF Passed, Settled
        <3>2. job'[r].id \in Passed(r)'
            BY <2>1, <2>4, <2>6, <2>7, <2>a DEF Passed
        <3>3. Settled(r) \subseteq Passed(r)
            BY <1>2, SelectionIs
        <3>4. /\ DOMAIN tx'[r] \subseteq Settled(r)' /\ saved'[r] \subseteq Settled(r)'
              /\ saved'[r] # {} => notify'
            BY <1>1, <1>2, <3>1, <3>3 DEF Local, BulkForm, Untouched
        <3>5. job'[r].pos <= Len(job'[r].ids) + 1
            BY <2>4, <2>6, <2>7, <2>a
        <3> QED BY <1>1, <3>1, <3>2, <3>4, <3>5 DEF BulkForm
    <2> QED BY <1>4, <1>5, <2>3, <2>5, <2>7, <2>8, <2>9, <2>10 DEF Local
<1> QED BY <1>6, <1>7

LEMMA BulkNoticeLocal ==
    ASSUME LInv, NEW r \in Requests, BulkNotice(r)
    PROVE  Local(r)'
<1>1. /\ Local(r) /\ stage[r] = "notice" /\ stage'[r] = "next" /\ kind[r] \in Kinds
      /\ Goes(r) /\ pend'[r] = {Delete(job[r].id)}
    BY DEF LInv, TypeOK, Indexed, BulkNotice, Goto, Goes
<1>2. kind[r] = "bulk" /\ dropped[r] = None /\ result[r] = "none"
    BY <1>1 DEF Local, Staged, Asked, Kinds
<1>3. /\ kx[r] = <<>> /\ job[r].id \in Passed(r) /\ DOMAIN tx[r] \subseteq Settled(r)
      /\ saved[r] \subseteq Settled(r) /\ (saved[r] # {} => notify)
      /\ job[r].pos <= Len(job[r].ids) + 1
    BY <1>1, <1>2 DEF Local, Holds, BulkForm
<1>4. \/ /\ tx'[r] = <<>> /\ kx'[r] = <<>> /\ saved'[r] = saved[r] \cup DOMAIN tx[r] /\ notify
      \/ /\ tx'[r] = tx[r] /\ kx'[r] = kx[r] /\ saved'[r] = saved[r]
    BY <1>1, <1>2, ApplyOwn DEF BulkNotice, LInv, Local
<1>5. Asked(r)' /\ job'[r] \in Jobs
    BY <1>1, <1>2, AskedKeeps DEF Goes
<1>6. Staged(r)' /\ Holds(r)'
    BY <1>1, <1>2, <1>3, <1>4, NothingWritten DEF Local, Staged, Holds, Goes
<1>7. Replaces(r)' /\ ImportForm(r)'
    BY <1>1, <1>2 DEF Replaces, ImportForm, Goes
<1>8. job[r].id \in Ids /\ Settled(r) \subseteq Passed(r)
    BY <1>2, <1>3, SelectionIs
<1>9. Emits(r)'
    BY <1>1, <1>2, <1>8 DEF Emits, Delete, Goes
<1>10. Passed(r)' = Passed(r) /\ Settled(r)' = Settled(r)
    BY <1>1 DEF Passed, Settled, Goes
<1>11. BulkForm(r)'
    BY <1>1, <1>2, <1>3, <1>4, <1>8, <1>10, NothingWritten DEF BulkForm, Delete, Goes
<1> QED BY <1>5, <1>6, <1>7, <1>9, <1>11 DEF Local

-----------------------------------------------------------------------------
(***************************************************************************)
(* The import and the flush.                                               *)
(***************************************************************************)

\* A line that passes validate_row.
LEMMA LineIs ==
    ASSUME LInv, NEW r \in Requests, kind[r] = "import", LinesLeft(r), ThisLine(r) # Bad
    PROVE  ThisLine(r) \in Line
<1>1. job[r].list \in Seq(Line \cup {Bad}) /\ job[r].pos \in Nat \ {0}
    BY SheetAssumption DEF LInv, Local, Asked, Jobs, Line
<1>2. job[r].list[job[r].pos] \in Line \cup {Bad}
    BY <1>1 DEF LinesLeft
<1> QED BY <1>2 DEF ThisLine

\* An import goes to another line, or gives up its flush.
ImportGoes(r) ==
    /\ kind[r] = "import" /\ kind'[r] = kind[r] /\ dropped'[r] = dropped[r]
    /\ loaded'[r] = loaded[r] /\ result'[r] = result[r]
    /\ saved'[r] = saved[r] /\ stage'[r] \in {"line", "flush"}
    /\ stage[r] \in {"line", "flush"}
    /\ \/ tx'[r] = tx[r] /\ kx'[r] = kx[r]
       \/ tx'[r] = <<>> /\ kx'[r] = <<>>
    /\ job'[r] \in Jobs /\ job'[r].inline = job[r].inline /\ job'[r].list = job[r].list
    /\ job'[r].kid = job[r].kid

LEMMA ImportGoesLocal ==
    ASSUME NEW r \in Requests, Local(r), ImportGoes(r)
    PROVE  Staged(r)' /\ Asked(r)' /\ Holds(r)' /\ Replaces(r)' /\ BulkForm(r)'
<1>1. Staged(r)'
    BY DEF Local, Staged, ImportGoes
<1>2. Asked(r)'
    BY DEF Local, Asked, ImportGoes
<1>3. Holds(r)'
    BY NothingWritten DEF Local, Holds, ImportGoes
<1>4. Replaces(r)'
    BY DEF Local, Asked, Replaces, ImportGoes
<1>5. BulkForm(r)'
    BY DEF BulkForm, ImportGoes
<1> QED BY <1>1, <1>2, <1>3, <1>4, <1>5

LEMMA ImportLineLocal ==
    ASSUME LInv, NEW r \in Requests, ImportLine(r)
    PROVE  Local(r)'
<1>1. /\ Local(r) /\ stage[r] = "line" /\ stage'[r] = "line" /\ kind'[r] = kind[r]
      /\ Untouched(r) /\ loaded'[r] = loaded[r] /\ result'[r] = result[r]
      /\ kind[r] \in Kinds /\ DOMAIN job = Requests /\ DOMAIN pend = Requests
      /\ LinesLeft(r) /\ (LooksUp(r) => pend[r] = {}) /\ nextId \in Nat /\ nextId >= 3
    BY DEF LInv, TypeOK, Indexed, ImportLine, Untouched, history
<1>2. kind[r] = "import" /\ ~job[r].broken
    BY <1>1 DEF Local, Staged, ImportForm, Kinds
<1>3. PICK o \in Jobs : o = job[r]
    BY <1>1 DEF Local
<1>4. /\ o.pos + 1 \in Nat \ {0} /\ o.errors + 1 \in Nat /\ o.updated + 1 \in Nat \ {0}
      /\ o.made \subseteq Ids
    BY DEF Jobs
<1>5. CASE ThisLine(r) = Bad
    <2>1. job'[r] = [o EXCEPT !.pos = o.pos + 1, !.errors = o.errors + 1] /\ pend'[r] = pend[r]
        BY <1>1, <1>3, <1>5 DEF ImportLine
    <2>2. PICK n \in Nat \ {0}, m \in Nat : n = o.pos + 1 /\ m = o.errors + 1
        BY <1>4
    <2> DEFINE p == [o EXCEPT !.pos = n, !.errors = m]
    <2>3. /\ p \in Jobs /\ p.inline = o.inline /\ p.list = o.list /\ p.kid = o.kid
          /\ p.made = o.made /\ p.updated = o.updated /\ p.broken = o.broken
          /\ p.id = o.id /\ p.act = o.act
        BY DEF Jobs
    <2>4. job'[r] = p
        BY <2>1, <2>2
    <2> HIDE DEF p
    <2>5. ImportGoes(r)
        BY <1>1, <1>2, <1>3, <2>3, <2>4 DEF ImportGoes, Untouched
    <2>6. Emits(r)'
        BY <1>1, <1>2, <1>3, <2>1, <2>3, <2>4 DEF Local, Emits, Mine, OwnFile
    <2>7. ImportForm(r)'
        BY <1>1, <1>2, <1>3, <2>1, <2>3, <2>4 DEF Local, ImportForm, Untouched
    <2> QED BY <1>1, <2>3, <2>4, <2>5, <2>6, <2>7, ImportGoesLocal DEF Local
<1>6. CASE ThisLine(r) # Bad /\ Found(r) # {}
    <2>1. /\ job'[r] = [o EXCEPT !.pos = o.pos + 1, !.updated = o.updated + 1]
          /\ pend'[r] = {Update(i, [note |-> ThisLine(r).note]) : i \in
                             {j \in Found(r) : RowsOf(r)[j].note # ThisLine(r).note}}
        BY <1>1, <1>3, <1>6 DEF ImportLine
    <2>2. PICK n \in Nat \ {0}, m \in Nat \ {0} : n = o.pos + 1 /\ m = o.updated + 1
        BY <1>4
    <2> DEFINE p == [o EXCEPT !.pos = n, !.updated = m]
    <2>3. /\ p \in Jobs /\ p.inline = o.inline /\ p.list = o.list /\ p.kid = o.kid
          /\ p.made = o.made /\ p.updated = m /\ p.broken = o.broken
        BY DEF Jobs
    <2>4. job'[r] = p
        BY <2>1, <2>2
    <2> HIDE DEF p
    <2>5. ImportGoes(r)
        BY <1>1, <1>2, <1>3, <2>3, <2>4 DEF ImportGoes, Untouched
    <2>6. ThisLine(r).note \in Notes
        BY <1>1, <1>2, <1>6, LineIs DEF Line
    <2>7. ASSUME NEW s \in pend'[r]
          PROVE  s.id \in Ids /\ s.op = "update" /\ IsSet(s.set) /\ "file" \notin DOMAIN s.set
        <3>1. PICK i \in Ids : s = Update(i, [note |-> ThisLine(r).note])
            BY <2>1, <2>7 DEF Found
        <3>2. s.id = i /\ s.op = "update" /\ s.set = [note |-> ThisLine(r).note]
            BY <3>1 DEF Update
        <3> QED BY <2>6, <3>2 DEF IsSet, Columns
    <2>8. Emits(r)'
        BY <1>1, <1>2, <2>7 DEF Emits
    <2>9. pend[r] = {}
        BY <1>1, <1>6 DEF Found, LooksUp
    <2>10. ImportForm(r)'
        BY <1>1, <1>2, <1>3, <2>2, <2>3, <2>4, <2>9 DEF Local, ImportForm, Untouched, Staged
    <2> QED BY <1>1, <2>3, <2>4, <2>5, <2>8, <2>10, ImportGoesLocal DEF Local
<1>7. CASE ThisLine(r) # Bad /\ Found(r) = {}
    <2>1. /\ job'[r] = [o EXCEPT !.pos = o.pos + 1, !.made = o.made \cup {nextId}]
          /\ pend'[r] = pend[r] \cup {Insert(nextId, Over(ThisLine(r), [file |-> None]))}
          /\ nextId <= MaxId
        BY <1>1, <1>3, <1>7 DEF ImportLine
    <2>2. nextId \in Ids
        BY <1>1, <2>1, IdAssumption DEF Ids
    <2>3. PICK n \in Nat \ {0}, m \in SUBSET Ids : n = o.pos + 1 /\ m = o.made \cup {nextId}
        BY <1>4, <2>2
    <2> DEFINE p == [o EXCEPT !.pos = n, !.made = m]
    <2>4. /\ p \in Jobs /\ p.inline = o.inline /\ p.list = o.list /\ p.kid = o.kid
          /\ p.made = m /\ p.broken = o.broken /\ p.id = o.id /\ p.act = o.act
        BY DEF Jobs
    <2>5. job'[r] = p
        BY <2>1, <2>3
    <2> HIDE DEF p
    <2>6. ImportGoes(r)
        BY <1>1, <1>2, <1>3, <2>4, <2>5 DEF ImportGoes, Untouched
    <2>7. PICK row \in Row : row = Over(ThisLine(r), [file |-> None]) /\ row.file = None
        BY <1>1, <1>2, <1>7, LineIs, LineRow
    <2>8. pend'[r] = pend[r] \cup {Insert(nextId, row)}
        BY <2>1, <2>7
    <2>9. /\ Insert(nextId, row).op = "insert" /\ Insert(nextId, row).id = nextId
          /\ Insert(nextId, row).set = row
        BY DEF Insert
    <2>10. Mine(r) \subseteq Mine(r)' /\ nextId \in Mine(r)'
        BY <1>1, <1>2, <1>3, <2>3, <2>4, <2>5 DEF Mine
    <2>11. Emits(r)'
        <3>1. ASSUME NEW s \in pend[r]
              PROVE  /\ s.id \in Ids /\ s.op \in {"insert", "update"}
                     /\ s.op = "insert" => s.set \in Row /\ s.id \in Mine(r) /\ s.set.file = None
                     /\ s.op = "update" =>
                            IsSet(s.set) /\ ("file" \in DOMAIN s.set => s.set["file"] = None)
            BY <1>1, <1>2, <3>1 DEF Local, Emits, OwnFile, Writers
        <3> QED BY <1>1, <1>2, <2>2, <2>7, <2>8, <2>9, <2>10, <3>1 DEF Emits, OwnFile
    <2>12. ImportForm(r)'
        <3>1. o.made \subseteq {s.id : s \in pend[r]} \cup DOMAIN tx[r] \cup saved[r]
            BY <1>1, <1>2, <1>3 DEF Local, ImportForm
        <3>2. job'[r].made = o.made \cup {nextId} /\ ~job'[r].broken
            BY <1>2, <1>3, <2>3, <2>4, <2>5
        <3>3. result'[r] # "ok" /\ tx'[r] = tx[r] /\ saved'[r] = saved[r]
            BY <1>1 DEF Local, Staged, Untouched
        <3>4. {s.id : s \in pend[r]} \cup {nextId} \subseteq {s.id : s \in pend'[r]}
            BY <2>8, <2>9
        <3> QED BY <3>1, <3>2, <3>3, <3>4 DEF ImportForm
    <2> QED BY <1>1, <2>4, <2>5, <2>6, <2>11, <2>12, ImportGoesLocal DEF Local
<1> QED BY <1>5, <1>6, <1>7

LEMMA ImportFlushFailsLocal ==
    ASSUME LInv, NEW r \in Requests, ImportFlushFails(r)
    PROVE  Local(r)'
<1>1. /\ Local(r) /\ kind[r] = "import" /\ kind'[r] = kind[r] /\ stage'[r] = "flush"
      /\ pend[r] # {} /\ pend'[r] = {} /\ tx'[r] = <<>> /\ kx'[r] = <<>>
      /\ loaded'[r] = loaded[r] /\ result'[r] = result[r] /\ dropped'[r] = dropped[r]
      /\ saved'[r] = saved[r] /\ DOMAIN job = Requests
    BY DEF LInv, TypeOK, Indexed, ImportFlushFails, Flushes, Forget, Goto, world, history
<1>2. stage[r] \in {"line", "flush"} /\ ~job[r].broken /\ result[r] = "none"
    BY <1>1 DEF Local, Staged, ImportForm, ImportFlushFails, Flushes, LooksUp
<1>3. PICK o \in Jobs : o = job[r]
    BY <1>1 DEF Local
<1>4. CASE stage[r] = "line"
    <2>1. job'[r] = [o EXCEPT !.errors = o.errors + 1, !.broken = TRUE]
        BY <1>1, <1>3, <1>4 DEF ImportFlushFails
    <2>2. PICK m \in Nat : m = o.errors + 1
        BY DEF Jobs
    <2> DEFINE p == [o EXCEPT !.errors = m, !.broken = TRUE]
    <2>3. /\ p \in Jobs /\ p.inline = o.inline /\ p.list = o.list /\ p.kid = o.kid /\ p.broken
        BY DEF Jobs
    <2>4. job'[r] = p
        BY <2>1, <2>2
    <2> HIDE DEF p
    <2>5. ImportGoes(r)
        BY <1>1, <1>2, <1>3, <2>3, <2>4 DEF ImportGoes
    <2>6. Emits(r)' /\ ImportForm(r)'
        BY <1>1, <1>2, <2>3, <2>4, EmitsNothing DEF ImportForm
    <2> QED BY <1>1, <2>3, <2>4, <2>5, <2>6, ImportGoesLocal DEF Local
<1>5. CASE stage[r] # "line"
    <2>1. job'[r] = [o EXCEPT !.errors = Len(o.list), !.made = {}, !.updated = 0]
        BY <1>1, <1>3, <1>5 DEF ImportFlushFails
    <2>2. PICK m \in Nat : m = Len(o.list)
        <3>1. o.list \in Seq(Line \cup {Bad})
            BY <1>1, <1>3, SheetAssumption DEF Local, Asked, Line
        <3> QED BY <3>1
    <2> DEFINE p == [o EXCEPT !.errors = m, !.made = {}, !.updated = 0]
    <2>3. /\ p \in Jobs /\ p.inline = o.inline /\ p.list = o.list /\ p.kid = o.kid
          /\ p.made = {} /\ p.broken = o.broken
        BY DEF Jobs
    <2>4. job'[r] = p
        BY <2>1, <2>2
    <2> HIDE DEF p
    <2>5. ImportGoes(r)
        BY <1>1, <1>2, <1>3, <2>3, <2>4 DEF ImportGoes
    <2>6. Emits(r)' /\ ImportForm(r)'
        BY <1>1, <1>2, <1>3, <2>3, <2>4, EmitsNothing DEF ImportForm
    <2> QED BY <1>1, <2>3, <2>4, <2>5, <2>6, ImportGoesLocal DEF Local
<1> QED BY <1>4, <1>5

\* A flush writes what was pending over what was written.
LEMMA FlushIs ==
    ASSUME LInv, NEW r \in Requests, Flush(r)
    PROVE  /\ pend[r] # {} /\ pend'[r] = {} /\ Goes(r)
           /\ DOMAIN tx'[r] = {s.id : s \in pend[r]} \cup DOMAIN tx[r]
           /\ \A i \in DOMAIN tx'[r] :
                 \/ \E s \in pend[r] : s.id = i /\ tx'[r][i] = Written(r, s)
                 \/ i \in DOMAIN tx[r] /\ tx'[r][i] = tx[r][i]
           /\ \A s \in pend[r] : \E t \in pend[r] : t.id = s.id /\ tx'[r][s.id] = Written(r, t)
           /\ kx'[r] = kx[r] /\ saved'[r] = saved[r] /\ stage'[r] = AfterFlush(r)
<1>1. /\ pend[r] # {} /\ pend'[r] = {} /\ Goes(r)
      /\ kx'[r] = kx[r] /\ saved'[r] = saved[r] /\ stage'[r] = AfterFlush(r)
    BY DEF LInv, TypeOK, Indexed, Flush, Flushes, Goto, Goes, world, history
<1> DEFINE g == [i \in {s.id : s \in pend[r]} |-> Written(r, CHOOSE s \in pend[r] : s.id = i)]
<1>2. tx'[r] = Over(g, tx[r])
    BY DEF LInv, Indexed, Flush
<1>3. ASSUME NEW i \in {s.id : s \in pend[r]}
      PROVE  \E t \in pend[r] : t.id = i /\ g[i] = Written(r, t)
    <2>1. \E s \in pend[r] : s.id = i
        BY <1>3
    <2> DEFINE t == CHOOSE s \in pend[r] : s.id = i
    <2>2. t \in pend[r] /\ t.id = i
        BY <2>1
    <2>3. g[i] = Written(r, t)
        BY <1>3
    <2> HIDE DEF t
    <2> QED BY <2>2, <2>3
<1>4. DOMAIN g = {s.id : s \in pend[r]}
    OBVIOUS
<1> HIDE DEF g
<1>5. /\ DOMAIN Over(g, tx[r]) = DOMAIN g \cup DOMAIN tx[r]
      /\ \A i \in DOMAIN g : Over(g, tx[r])[i] = g[i]
      /\ \A i \in DOMAIN tx[r] \ DOMAIN g : Over(g, tx[r])[i] = tx[r][i]
    BY OverAt
<1> QED BY <1>1, <1>2, <1>3, <1>4, <1>5

\* What a statement writes.
LEMMA WrittenIs ==
    ASSUME LInv, NEW r \in Requests, NEW s \in pend[r], ~Raises(r, s)
    PROVE  /\ Written(r, s) \in Row \cup {None}
           /\ s.op = "insert" => Written(r, s) = s.set /\ s.set \in Row
           /\ s.op = "delete" => Written(r, s) = None
           /\ s.op = "update" =>
                /\ RowsOf(r)[s.id] \in Row /\ IsSet(s.set)
                /\ Written(r, s) = Over(s.set, RowsOf(r)[s.id])
                /\ Written(r, s) \in Row
<1>1. /\ s.id \in Ids /\ s.op \in {"insert", "update", "delete"}
      /\ s.op = "insert" => s.set \in Row
      /\ s.op = "update" => IsSet(s.set)
    BY DEF LInv, Local, Emits
<1>2. ASSUME s.op = "update" PROVE RowsOf(r)[s.id] \in Row
    BY <1>1, <1>2, RowsOfAt DEF Raises, LInv
<1>3. ASSUME s.op = "update"
      PROVE  Written(r, s) = Over(s.set, RowsOf(r)[s.id]) /\ Written(r, s) \in Row
    BY <1>1, <1>2, <1>3, SetRow DEF Written
<1>4. ASSUME s.op = "insert" PROVE Written(r, s) = s.set
    BY <1>4 DEF Written
<1>5. ASSUME s.op = "delete" PROVE Written(r, s) = None
    BY <1>5 DEF Written
<1> QED BY <1>1, <1>2, <1>3, <1>4, <1>5

LEMMA FlushLocal ==
    ASSUME LInv, NEW r \in Requests, Flush(r)
    PROVE  Local(r)'
<1>1. Local(r) /\ kind[r] \in Kinds /\ stage[r] \in {"save", "delete", "next", "flush", "line"}
    BY DEF LInv, TypeOK, Flush, Flushes, LooksUp
<1>2. /\ pend[r] # {} /\ pend'[r] = {} /\ Goes(r)
      /\ DOMAIN tx'[r] = {s.id : s \in pend[r]} \cup DOMAIN tx[r]
      /\ kx'[r] = kx[r] /\ saved'[r] = saved[r] /\ stage'[r] = AfterFlush(r)
    BY FlushIs
<1>3. \/ kind[r] \in {"create", "edit", "put", "field"} /\ stage[r] = "save"
      \/ kind[r] = "delete" /\ stage[r] = "delete"
      \/ kind[r] = "bulk" /\ stage[r] = "next"
      \/ kind[r] = "import" /\ stage[r] \in {"flush", "line"}
    BY <1>1 DEF Local, Staged, Kinds
<1>4. /\ stage[r] = "save" => /\ stage'[r] \in {"inline", "dispatch", "commit"}
                              /\ (kind[r] = "field") <=> (stage'[r] = "commit")
                              /\ kind[r] = "put" => stage'[r] = "dispatch"
      /\ stage[r] = "delete" => stage'[r] = "dispatch"
      /\ stage[r] \in {"next", "flush", "line"} => stage'[r] = stage[r]
    BY <1>1, <1>2, <1>3 DEF AfterFlush, AfterSave, Local, Asked
<1>5. kx[r] = <<>> /\ result[r] = "none" /\ (kind[r] # "bulk" => saved[r] = {})
    BY <1>1, <1>3 DEF Local, Holds, Staged
<1>6. Asked(r)' /\ job'[r] \in Jobs /\ Emits(r)'
    BY <1>1, <1>2, <1>3, <1>4, GoesLocal
<1>7. Staged(r)'
    BY <1>1, <1>2, <1>3, <1>4, <1>5 DEF Local, Staged, Goes
<1>8. Holds(r)'
    BY <1>2, <1>3, <1>4, <1>5, NothingWritten DEF Holds, Goes
<1>9. Replaces(r)'
    <2>1. SUFFICES ASSUME dropped[r] # None PROVE Replaced(r)'
        BY <1>2, <1>3, <1>4 DEF Replaces, Goes
    <2>2. kind[r] \in {"edit", "put"} /\ stage[r] = "save"
        BY <1>1, <1>3, <2>1 DEF Local, Asked
    <2>3. PICK s \in pend[r] : tx'[r][job[r].id] = Written(r, s)
        BY <1>1, <1>2, <2>2, FlushIs DEF Local, Emits
    <2>4. s.op = "update" /\ "file" \in DOMAIN s.set /\ s.set["file"] # dropped[r]
        BY <1>1, <2>1, <2>2, <2>3 DEF Local, Replaces
    <2>5. /\ Written(r, s) \in Row /\ Written(r, s).file = s.set["file"]
        BY <2>3, <2>4, WrittenIs, SetRow DEF Flush
    <2>6. job[r].id \in DOMAIN tx'[r]
        BY <1>1, <1>2, <2>2 DEF Local, Emits
    <2> QED BY <1>2, <2>3, <2>4, <2>5, <2>6, RowIsSomething DEF Replaced, Goes
<1>10. BulkForm(r)'
    BY <1>1, <1>2, <1>3, <1>4, <1>5 DEF Local, BulkForm, Passed, Settled, Goes
<1>11. ImportForm(r)'
    BY <1>1, <1>2, <1>3, <1>4, <1>5 DEF Local, ImportForm, Goes
<1> QED BY <1>6, <1>7, <1>8, <1>9, <1>10, <1>11 DEF Local

-----------------------------------------------------------------------------
(***************************************************************************)
(* Every step keeps what concerns one request alone.                       *)
(***************************************************************************)
LEMMA StillLocal ==
    ASSUME NEW q \in Requests, Local(q), Still(q), notify' = notify
    PROVE  Local(q)'
<1>1. Staged(q)' /\ job'[q] \in Jobs
    BY DEF Local, Staged, Still
<1>2. Asked(q)'
    BY DEF Local, Asked, Still
<1>3. Holds(q)'
    BY DEF Local, Holds, Still
<1>4. Mine(q)' = Mine(q)
    BY DEF Mine, Still
<1>5. Emits(q)'
    BY <1>4 DEF Local, Emits, OwnFile, Still
<1>6. Replaces(q)'
    BY DEF Local, Replaces, Replaced, Still
<1>7. Passed(q)' = Passed(q) /\ Settled(q)' = Settled(q)
    BY DEF Passed, Settled, Still
<1>8. BulkForm(q)'
    BY <1>7 DEF Local, BulkForm, Still
<1>9. ImportForm(q)'
    BY DEF Local, ImportForm, Still
<1> QED BY <1>1, <1>2, <1>3, <1>5, <1>6, <1>8, <1>9 DEF Local

LEMMA LocalNext ==
    ASSUME LInv, HomeInv, NEW r \in Requests, Step(r)
    PROVE  \A q \in Requests : Local(q)'
<1>1. Local(r)'
    <2>1. \/ OpenForm(r) \/ SubmitForm(r) \/ SubmitRow(r) \/ SubmitField(r) \/ SubmitPut(r)
          \/ SubmitCreate(r) \/ SubmitDelete(r) \/ SubmitBulk(r) \/ SubmitImport(r)
          => Local(r)'
        BY OpenFormLocal, SubmitFormLocal, SubmitRowLocal, SubmitFieldLocal, SubmitPutLocal,
           SubmitCreateLocal, SubmitDeleteLocal, SubmitBulkLocal, SubmitImportLocal
    <2>2. \/ Parse(r) \/ RefuseUpload(r) \/ SaveInline(r) \/ InlineFails(r) \/ FlushFails(r)
          \/ CommitFails(r) \/ BulkNext(r) \/ BulkNotice(r) \/ ImportLine(r)
          => Local(r)'
        BY ParseLocal, RefuseUploadLocal, SaveInlineLocal, FailsLocal, BulkNextLocal,
           BulkNoticeLocal, ImportLineLocal
    <2>3. \/ EndOfSheet(r) \/ ImportAnswer(r) \/ ListRows(r) \/ Flush(r) \/ FlushNothing(r)
          \/ ImportFlushFails(r) \/ Dispatch(r) \/ Commit(r)
          => Local(r)'
        BY EndOfSheetLocal, ImportAnswerLocal, ListRowsLocal, FlushLocal, FlushNothingLocal,
           ImportFlushFailsLocal, DispatchLocal, CommitLocal
    <2> QED BY <2>1, <2>2, <2>3 DEF Step
<1>2. ASSUME NEW q \in Requests \ {r} PROVE Local(q)'
    <2>1. Still(q) /\ notify' = notify
        BY OthersStill DEF LInv
    <2> QED BY <2>1, StillLocal DEF LInv
<1> QED BY <1>1, <1>2

-----------------------------------------------------------------------------
(***************************************************************************)
(* The kinds of steps, by what they do to the rows and to what r holds.    *)
(***************************************************************************)
Quiet == rows' = rows /\ kids' = kids /\ notices' = notices /\ saved' = saved

\* r is called, or sends its form.
Asks(r) ==
    /\ Quiet /\ files' = files
    /\ stage[r] \in {"idle", "open"}
    /\ stage'[r] \in {"open", "parse", "save", "delete", "next", "line"}
    /\ stage'[r] = "save" => kind'[r] = "field"
    /\ tx'[r] = <<>> /\ tx[r] = <<>> /\ saved[r] = {} /\ dropped'[r] = None
    /\ loaded'[r] = None \/ loaded'[r] = rows[job'[r].id]
    /\ kind'[r] \in {"edit", "put", "field", "delete"} => rows[job'[r].id] # None
    /\ \A s \in pend'[r] : s.op = "delete" => rows[s.id] # None
    /\ \/ nextId' = nextId /\ Mine(r)' = {}
       \/ nextId' = nextId + 1 /\ Mine(r)' = {nextId}

\* r is answered with an error.
Fails(r) ==
    /\ Quiet /\ files' = files /\ nextId' = nextId
    /\ stage[r] \notin {"idle", "done"} /\ stage'[r] = "done"
    /\ result'[r] \notin {"none", "ok"}
    /\ kind'[r] = kind[r] /\ job'[r] = job[r] /\ dropped'[r] = dropped[r] /\ loaded'[r] = None
    /\ tx'[r] = <<>> /\ pend'[r] = {}

\* r goes on, and nothing is written.
Moves(r) ==
    /\ Quiet /\ files' = files /\ nextId' = nextId
    /\ kind[r] # "bulk" /\ kind'[r] = kind[r] /\ job'[r] = job[r] /\ dropped'[r] = dropped[r]
    /\ loaded'[r] = loaded[r] /\ pend'[r] = pend[r] /\ tx'[r] = tx[r]
    /\ stage[r] \in {"save", "inline", "dispatch", "line", "flush", "list"}
    /\ stage'[r] \in {"inline", "dispatch", "commit", "flush", "list"}
    /\ stage'[r] = "commit" => kind[r] = "field" \/ stage[r] = "dispatch"
    /\ stage'[r] = "dispatch" => kind[r] # "delete"
    /\ stage'[r] = "inline" => job[r].inline # "none"

\* An import reads a line, or gives up a flush.
Imports(r) ==
    /\ Quiet /\ files' = files /\ kind[r] = "import" /\ kind'[r] = kind[r]
    /\ loaded'[r] = loaded[r] /\ dropped'[r] = dropped[r]
    /\ stage[r] \in {"line", "flush"} /\ stage'[r] \in {"line", "flush"}
    /\ tx'[r] = <<>> \/ (tx'[r] = tx[r] /\ Mine(r) \subseteq Mine(r)')
    /\ \/ nextId' = nextId /\ Mine(r)' \subseteq Mine(r)
       \/ nextId' = nextId + 1 /\ Mine(r)' \subseteq Mine(r) \cup {nextId}

LEMMA CallAsks ==
    ASSUME LInv, NEW r \in Requests,
           \/ OpenForm(r) \/ SubmitField(r) \/ SubmitPut(r) \/ SubmitCreate(r)
           \/ SubmitDelete(r) \/ SubmitBulk(r) \/ SubmitImport(r)
    PROVE  Asks(r)
<1>1. /\ Local(r) /\ DOMAIN job = Requests /\ DOMAIN pend = Requests
      /\ kind \in [Requests -> Kinds] /\ stage \in [Requests -> Stages]
      /\ loaded \in [Requests -> Row \cup {None}] /\ stage[r] = "idle"
    BY DEF LInv, TypeOK, Indexed, OpenForm, SubmitField, SubmitPut, SubmitCreate, SubmitDelete,
           SubmitBulk, SubmitImport
<1>2. /\ kind[r] = "idle" /\ job[r] = NoJob /\ loaded[r] = None /\ dropped[r] = None
      /\ saved[r] = {} /\ pend[r] = {} /\ tx[r] = <<>>
    BY <1>1, IdleIs
<1>3. PICK o \in Jobs : o = job[r] /\ o.made = {}
    BY <1>2, NoJobIs
<1>4. CASE OpenForm(r)
    <2>1. PICK i \in Ids, k \in Kids \cup {None} :
              rows[i] # None /\ job'[r] = [o EXCEPT !.id = i, !.kid = k]
        BY <1>1, <1>3, <1>4 DEF OpenForm, GetObject, Formset
    <2>2. job'[r].id = i /\ job'[r].made = {}
        BY <1>3, <2>1 DEF Jobs
    <2>3. /\ kind'[r] = "edit" /\ stage'[r] = "open" /\ loaded'[r] = None /\ pend'[r] = {}
          /\ tx'[r] = <<>> /\ dropped'[r] = None
          /\ Quiet /\ files' = files /\ nextId' = nextId
        BY <1>1, <1>2, <1>4 DEF OpenForm, Goto, db, world, session, Quiet
    <2> QED BY <1>1, <1>2, <2>1, <2>2, <2>3 DEF Asks, Mine
<1>5. CASE SubmitField(r)
    <2>1. PICK i \in Ids, n \in Notes :
              /\ rows[i] # None /\ job'[r] = [o EXCEPT !.id = i] /\ loaded'[r] = rows[i]
              /\ pend'[r] \subseteq {Update(i, [note |-> n])}
        BY <1>1, <1>3, <1>5 DEF SubmitField
    <2>2. job'[r].id = i /\ job'[r].made = {}
        BY <1>3, <2>1 DEF Jobs
    <2>3. /\ kind'[r] = "field" /\ stage'[r] = "save"
          /\ tx'[r] = <<>> /\ dropped'[r] = None
          /\ Quiet /\ files' = files /\ nextId' = nextId
        BY <1>1, <1>2, <1>5 DEF SubmitField, Goto, db, world, history, Quiet
    <2>4. \A s \in pend'[r] : s.op # "delete"
        BY <2>1 DEF Update
    <2> QED BY <1>1, <1>2, <2>1, <2>2, <2>3, <2>4 DEF Asks, Mine
<1>6. CASE SubmitPut(r)
    <2>1. PICK i \in Ids, payload \in Payloads :
              /\ rows[i] # None /\ loaded'[r] = rows[i]
              /\ job'[r] = [o EXCEPT !.id = i, !.post = payload.post, !.act = payload.act]
        BY <1>1, <1>3, <1>6 DEF SubmitPut, GetObject
    <2>2. job'[r].id = i /\ job'[r].made = {}
        BY <1>3, <2>1 DEF Jobs
    <2>3. /\ kind'[r] = "put" /\ stage'[r] = "parse" /\ pend'[r] = {}
          /\ tx'[r] = <<>> /\ dropped'[r] = None
          /\ Quiet /\ files' = files /\ nextId' = nextId
        BY <1>1, <1>2, <1>6 DEF SubmitPut, Goto, db, world, session, history, Quiet
    <2> QED BY <1>1, <1>2, <2>1, <2>2, <2>3 DEF Asks, Mine
<1>7. CASE SubmitCreate(r)
    <2>1. PICK post \in Line, act \in {"keep", "replace"}, inline \in {"none", "add"} :
              job'[r] = [o EXCEPT !.id = nextId, !.post = post, !.act = act, !.inline = inline]
        BY <1>1, <1>3, <1>7 DEF SubmitCreate
    <2>2. job'[r].id = nextId /\ job'[r].made = {}
        BY <1>3, <2>1 DEF Jobs
    <2>3. /\ kind'[r] = "create" /\ stage'[r] = "parse" /\ pend'[r] = {} /\ loaded'[r] = None
          /\ tx'[r] = <<>> /\ dropped'[r] = None
          /\ Quiet /\ files' = files /\ nextId' = nextId + 1
        BY <1>1, <1>2, <1>7 DEF SubmitCreate, Goto, world, session, history, Quiet
    <2> QED BY <1>1, <1>2, <2>2, <2>3 DEF Asks, Mine
<1>8. CASE SubmitDelete(r)
    <2>1. PICK i \in Ids :
              /\ rows[i] # None /\ loaded'[r] = rows[i] /\ job'[r] = [o EXCEPT !.id = i]
              /\ pend'[r] = {Delete(i)}
        BY <1>1, <1>3, <1>8 DEF SubmitDelete, GetObject
    <2>2. job'[r].id = i /\ job'[r].made = {}
        BY <1>3, <2>1 DEF Jobs
    <2>3. /\ kind'[r] = "delete" /\ stage'[r] = "delete"
          /\ tx'[r] = <<>> /\ dropped'[r] = None
          /\ Quiet /\ files' = files /\ nextId' = nextId
        BY <1>1, <1>2, <1>8 DEF SubmitDelete, Goto, db, world, history, Quiet
    <2>4. \A s \in pend'[r] : s.id = i
        BY <2>1 DEF Delete
    <2> QED BY <1>1, <1>2, <2>1, <2>2, <2>3, <2>4 DEF Asks, Mine
<1>9. CASE SubmitBulk(r)
    <2>1. \E ids \in Selections : job'[r] = [o EXCEPT !.ids = ids]
        BY <1>1, <1>3, <1>9 DEF SubmitBulk
    <2>2. job'[r].made = {}
        BY <1>3, <2>1 DEF Jobs
    <2>3. /\ kind'[r] = "bulk" /\ stage'[r] = "next" /\ pend'[r] = {} /\ loaded'[r] = None
          /\ tx'[r] = <<>> /\ dropped'[r] = None
          /\ Quiet /\ files' = files /\ nextId' = nextId
        BY <1>1, <1>2, <1>9 DEF SubmitBulk, Goto, db, world, session, history, Quiet
    <2> QED BY <1>1, <1>2, <2>2, <2>3 DEF Asks, Mine
<1>10. CASE SubmitImport(r)
    <2>1. \E sheet \in Sheets, by \in {"key", "id"} :
              job'[r] = [o EXCEPT !.list = sheet, !.by = by]
        BY <1>1, <1>3, <1>10 DEF SubmitImport
    <2>2. job'[r].made = {}
        BY <1>3, <2>1 DEF Jobs
    <2>3. /\ kind'[r] = "import" /\ stage'[r] = "line" /\ pend'[r] = {} /\ loaded'[r] = None
          /\ tx'[r] = <<>> /\ dropped'[r] = None
          /\ Quiet /\ files' = files /\ nextId' = nextId
        BY <1>1, <1>2, <1>10 DEF SubmitImport, Goto, db, world, session, history, Quiet
    <2> QED BY <1>1, <1>2, <2>2, <2>3 DEF Asks, Mine
<1> QED BY <1>4, <1>5, <1>6, <1>7, <1>8, <1>9, <1>10

\* The form of the page that was opened.
LEMMA FormAsks ==
    ASSUME LInv, NEW r \in Requests, SubmitForm(r) \/ SubmitRow(r)
    PROVE  Asks(r) \/ Fails(r)
<1>1. /\ Local(r) /\ DOMAIN job = Requests /\ DOMAIN pend = Requests
      /\ kind \in [Requests -> Kinds] /\ stage \in [Requests -> Stages]
      /\ result \in [Requests -> Results]
      /\ loaded \in [Requests -> Row \cup {None}] /\ stage[r] = "open"
    BY DEF LInv, TypeOK, Indexed, SubmitForm, SubmitRow
<1>2. kind[r] = "edit" /\ dropped[r] = None
    BY <1>1 DEF Local, Staged, Asked, Kinds
<1>3. saved[r] = {} /\ pend[r] = {} /\ tx[r] = <<>> /\ job[r].made = {}
    BY <1>1, <1>2 DEF Local, Holds, Asked
<1>4. /\ Quiet /\ files' = files /\ nextId' = nextId /\ kind'[r] = "edit"
      /\ pend'[r] = {} /\ tx'[r] = <<>> /\ dropped'[r] = None
    BY <1>2, <1>3 DEF SubmitForm, SubmitRow, db, world, session, history, Quiet
<1>5. PICK o \in Jobs : o = job[r]
    BY <1>1 DEF Local
<1>6. ASSUME rows[o.id] # None, loaded'[r] = rows[o.id], stage'[r] = "parse",
             job'[r].id = o.id, job'[r].made = o.made
      PROVE  Asks(r)
    BY <1>1, <1>3, <1>4, <1>5, <1>6 DEF Asks, Mine
<1>7. CASE SubmitForm(r) /\ rows[o.id] = None
    BY <1>1, <1>4, <1>5, <1>7 DEF SubmitForm, Tell, Goto, GetObject, Fails, history
<1>8. CASE SubmitForm(r) /\ rows[o.id] # None
    <2>a. \E post \in Line, act \in {"keep", "replace", "clear"},
             inline \in {"none", "add", "drop"} :
             /\ inline = "drop" => job[r].kid # None
             /\ job' = [job EXCEPT ![r] = [@ EXCEPT !.post = post, !.act = act,
                                                   !.inline = inline]]
        BY <1>5, <1>8, Zenon DEF SubmitForm, GetObject
    <2>1. PICK post \in Line, act \in {"keep", "replace", "clear"},
               inline \in {"none", "add", "drop"} :
              job'[r] = [o EXCEPT !.post = post, !.act = act, !.inline = inline]
        BY <1>1, <1>5, <2>a
    <2>2. job'[r].id = o.id /\ job'[r].made = o.made
        BY <2>1 DEF Jobs
    <2>3. loaded'[r] = rows[o.id] /\ stage'[r] = "parse"
        BY <1>1, <1>5, <1>8 DEF SubmitForm, Goto, GetObject
    <2> QED BY <1>6, <1>8, <2>2, <2>3
<1>9. CASE SubmitRow(r)
    <2>1. PICK post \in Line : job'[r] = [o EXCEPT !.post = post]
        BY <1>1, <1>5, <1>9 DEF SubmitRow
    <2>2. job'[r].id = o.id /\ job'[r].made = o.made
        BY <2>1 DEF Jobs
    <2>3. loaded'[r] = rows[o.id] /\ stage'[r] = "parse" /\ rows[o.id] # None
        BY <1>1, <1>5, <1>9 DEF SubmitRow, Goto
    <2> QED BY <1>6, <2>2, <2>3
<1> QED BY <1>7, <1>8, <1>9

LEMMA ErrorFails ==
    ASSUME LInv, NEW r \in Requests,
           \/ RefuseUpload(r) \/ InlineFails(r) \/ FlushFails(r) \/ CommitFails(r)
           \/ (ListRows(r) /\ job[r].broken)
           \/ (ImportAnswer(r) /\ stage'[r] = "done")
    PROVE  Fails(r)
<1>1. /\ Local(r) /\ DOMAIN pend = Requests /\ DOMAIN tx = Requests /\ DOMAIN kx = Requests
      /\ kind \in [Requests -> Kinds] /\ stage \in [Requests -> Stages]
      /\ result \in [Requests -> Results] /\ loaded \in [Requests -> Row \cup {None}]
    BY DEF LInv, TypeOK, Indexed
<1>2. ASSUME RollBack(r), stage[r] \notin {"idle", "done"} PROVE Fails(r)
    BY <1>1, <1>2 DEF RollBack, Forget, Tell, Goto, Fails, Quiet, db, world, history
<1>3. CASE RefuseUpload(r)
    <2>1. stage[r] = "parse" /\ kind[r] \in Writers
        BY <1>1, <1>3 DEF RefuseUpload, Local, Staged, Kinds, Writers
    <2>2. tx[r] = <<>> /\ pend[r] = {}
        BY <1>1, <2>1 DEF Local, Holds
    <2> QED BY <1>1, <1>3, <2>1, <2>2 DEF RefuseUpload, Tell, Goto, Fails, Quiet, db, world,
                                             session, history
<1>4. CASE InlineFails(r) \/ FlushFails(r) \/ CommitFails(r)
    <2>1. RollBack(r) /\ stage[r] \notin {"idle", "done"}
        BY <1>4 DEF InlineFails, FlushFails, CommitFails, Flushes, LooksUp
    <2> QED BY <1>2, <2>1
<1>5. CASE ListRows(r) /\ job[r].broken
    BY <1>2, <1>5 DEF ListRows
<1>6. CASE ImportAnswer(r) /\ stage'[r] = "done"
    <2>1. /\ stage[r] = "flush" /\ pend[r] = {} /\ Tell(r, "rejected")
          /\ job[r].made = {} /\ job[r].updated = 0
          /\ UNCHANGED <<db, world, kind, job, session, history>>
        BY <1>1, <1>6 DEF ImportAnswer, Goto
    <2>2. kind[r] = "import"
        BY <1>1, <2>1 DEF Local, Staged, Kinds
    <2>3. tx[r] = <<>>
        BY <1>1, <2>1, <2>2 DEF Local, ImportForm
    <2> QED BY <1>1, <2>1, <2>3 DEF Tell, Goto, Fails, Quiet, db, world, session, history
<1> QED BY <1>3, <1>4, <1>5, <1>6

LEMMA ProgressMoves ==
    ASSUME LInv, NEW r \in Requests,
           \/ SaveInline(r) \/ EndOfSheet(r) \/ FlushNothing(r)
           \/ (ListRows(r) /\ ~job[r].broken)
           \/ (ImportAnswer(r) /\ stage'[r] # "done")
           \/ (Dispatch(r) /\ ~notify)
    PROVE  Moves(r)
<1>1. /\ Local(r) /\ DOMAIN kx = Requests
      /\ kind \in [Requests -> Kinds] /\ stage \in [Requests -> Stages]
      /\ result \in [Requests -> Results] /\ loaded \in [Requests -> Row \cup {None}]
    BY DEF LInv, TypeOK, Indexed
<1>2. CASE SaveInline(r)
    BY <1>1, <1>2 DEF SaveInline, Goto, Moves, Quiet, db, world, history, Local, Staged
<1>3. CASE EndOfSheet(r)
    BY <1>1, <1>3 DEF EndOfSheet, Goto, Moves, Quiet, db, world, session, history, Local, Staged
<1>4. CASE FlushNothing(r)
    <2>1. kind[r] \in {"create", "edit", "put", "field"}
        BY <1>1, <1>4 DEF FlushNothing, Local, Staged, Kinds
    <2> QED BY <1>1, <1>4, <2>1 DEF FlushNothing, AfterSave, Goto, Moves, Quiet, db, world,
                                    session, history
<1>5. CASE ListRows(r) /\ ~job[r].broken
    <2>1. kind[r] = "import"
        BY <1>1, <1>5 DEF ListRows, Local, Staged, Kinds
    <2> QED BY <1>1, <1>5, <2>1 DEF ListRows, Goto, Moves, Quiet, db, world, session, history
<1>6. CASE ImportAnswer(r) /\ stage'[r] # "done"
    <2>1. kind[r] = "import"
        BY <1>1, <1>6 DEF ImportAnswer, Local, Staged, Kinds
    <2> QED BY <1>1, <1>6, <2>1 DEF ImportAnswer, Tell, Goto, Moves, Quiet, db, world,
                                     session, history
<1>7. CASE Dispatch(r) /\ ~notify
    <2>1. kind[r] # "bulk"
        BY <1>1, <1>7 DEF Dispatch, Local, Staged
    <2> QED BY <1>1, <1>7, <2>1 DEF Dispatch, Goto, Moves, Quiet
<1> QED BY <1>2, <1>3, <1>4, <1>5, <1>6, <1>7

LEMMA LineImports ==
    ASSUME LInv, NEW r \in Requests, ImportLine(r) \/ ImportFlushFails(r)
    PROVE  Imports(r)
<1>1. /\ Local(r) /\ DOMAIN job = Requests /\ DOMAIN tx = Requests
      /\ kind \in [Requests -> Kinds] /\ stage \in [Requests -> Stages]
    BY DEF LInv, TypeOK, Indexed
<1>2. PICK o \in Jobs : o = job[r]
    BY <1>1 DEF Local
<1>3. CASE ImportLine(r)
    <2>1. kind[r] = "import" /\ stage[r] = "line" /\ tx'[r] = tx[r] /\ kind' = kind /\ stage' = stage
          /\ files' = files /\ Quiet /\ loaded' = loaded /\ dropped' = dropped
        BY <1>1, <1>3 DEF ImportLine, Local, Staged, Kinds, Quiet, world, history
    <2>2. \/ nextId' = nextId /\ job'[r].made = o.made
          \/ nextId' = nextId + 1 /\ job'[r].made = o.made \cup {nextId}
        <3>1. CASE ThisLine(r) = Bad
            <4>1. /\ job'[r] = [o EXCEPT !.pos = o.pos + 1, !.errors = o.errors + 1]
                  /\ nextId' = nextId
                BY <1>1, <1>2, <1>3, <3>1 DEF ImportLine
            <4> QED BY <4>1 DEF Jobs
        <3>2. CASE ThisLine(r) # Bad /\ Found(r) # {}
            <4>1. /\ job'[r] = [o EXCEPT !.pos = o.pos + 1, !.updated = o.updated + 1]
                  /\ nextId' = nextId
                BY <1>1, <1>2, <1>3, <3>2 DEF ImportLine
            <4> QED BY <4>1 DEF Jobs
        <3>3. CASE ThisLine(r) # Bad /\ Found(r) = {}
            <4>1. /\ job'[r] = [o EXCEPT !.pos = o.pos + 1, !.made = o.made \cup {nextId}]
                  /\ nextId' = nextId + 1
                BY <1>1, <1>2, <1>3, <3>3 DEF ImportLine
            <4> QED BY <4>1 DEF Jobs
        <3> QED BY <3>1, <3>2, <3>3
    <2> QED BY <1>2, <2>1, <2>2 DEF Imports, Mine
<1>4. CASE ImportFlushFails(r)
    <2>1. kind[r] = "import" /\ stage[r] \in {"line", "flush"}
        BY <1>1, <1>4 DEF ImportFlushFails, Flushes, LooksUp, Local, Staged
    <2>2. /\ tx'[r] = <<>> /\ kind' = kind /\ stage'[r] = "flush" /\ files' = files /\ Quiet
          /\ nextId' = nextId /\ loaded' = loaded /\ dropped' = dropped
        BY <1>1, <1>4 DEF ImportFlushFails, Forget, Goto, Quiet, db, world, history
    <2>3. job'[r].made \subseteq o.made
        <3>1. CASE stage[r] = "line"
            <4>1. job'[r] = [o EXCEPT !.errors = o.errors + 1, !.broken = TRUE]
                BY <1>1, <1>2, <1>4, <3>1 DEF ImportFlushFails
            <4> QED BY <4>1 DEF Jobs
        <3>2. CASE stage[r] # "line"
            <4>1. job'[r] = [o EXCEPT !.errors = Len(o.list), !.made = {}, !.updated = 0]
                BY <1>1, <1>2, <1>4, <3>2 DEF ImportFlushFails
            <4> QED BY <4>1 DEF Jobs
        <3> QED BY <3>1, <3>2
    <2>4. Mine(r)' \subseteq Mine(r)
        BY <1>2, <2>1, <2>2, <2>3 DEF Mine
    <2> QED BY <2>1, <2>2, <2>4 DEF Imports
<1> QED BY <1>3, <1>4

LEMMA StepIs ==
    ASSUME LInv, NEW r \in Requests, Step(r)
    PROVE  \/ Asks(r) \/ Parse(r) \/ Fails(r) \/ Moves(r) \/ Flush(r) \/ Imports(r)
           \/ BulkNext(r) \/ BulkNotice(r) \/ (Dispatch(r) /\ notify) \/ Commit(r)
<1>1. \/ OpenForm(r) \/ SubmitField(r) \/ SubmitPut(r) \/ SubmitCreate(r)
      \/ SubmitDelete(r) \/ SubmitBulk(r) \/ SubmitImport(r)
      => Asks(r)
    BY CallAsks
<1>2. SubmitForm(r) \/ SubmitRow(r) => Asks(r) \/ Fails(r)
    BY FormAsks
<1>3. RefuseUpload(r) \/ InlineFails(r) \/ FlushFails(r) \/ CommitFails(r) => Fails(r)
    BY ErrorFails
<1>4. ListRows(r) \/ ImportAnswer(r) => Fails(r) \/ Moves(r)
    BY ErrorFails, ProgressMoves
<1>5. SaveInline(r) \/ EndOfSheet(r) \/ FlushNothing(r) => Moves(r)
    BY ProgressMoves
<1>6. Dispatch(r) => notify \/ Moves(r)
    BY ProgressMoves
<1>7. ImportLine(r) \/ ImportFlushFails(r) => Imports(r)
    BY LineImports
<1> QED BY <1>1, <1>2, <1>3, <1>4, <1>5, <1>6, <1>7 DEF Step

LEMMA KidsWritten ==
    ASSUME LInv, DueInv, NEW r \in Requests, Step(r)
    PROVE  DOMAIN kx'[r] \subseteq Kids
<1>1. /\ DOMAIN kx[r] \subseteq Kids /\ DOMAIN kx = Requests /\ Local(r)
    BY DEF LInv, TypeOK, Indexed
<1>2. ASSUME kx'[r] \in {kx[r], <<>>} PROVE DOMAIN kx'[r] \subseteq Kids
    BY <1>1, <1>2, NothingWritten
<1>3. \/ OpenForm(r) \/ SubmitForm(r) \/ SubmitRow(r) \/ SubmitField(r) \/ SubmitPut(r)
      \/ SubmitCreate(r) \/ SubmitDelete(r) \/ SubmitBulk(r) \/ SubmitImport(r)
      => kx' = kx
    BY DEF OpenForm, SubmitForm, SubmitRow, SubmitField, SubmitPut, SubmitCreate, SubmitDelete,
           SubmitBulk, SubmitImport, session
<1>4. \/ Parse(r) \/ RefuseUpload(r) \/ BulkNext(r) \/ ImportLine(r) \/ EndOfSheet(r)
      \/ ImportAnswer(r) \/ Flush(r) \/ FlushNothing(r)
      => kx' = kx
    BY DEF Parse, RefuseUpload, BulkNext, ImportLine, EndOfSheet, ImportAnswer, Flush,
           FlushNothing, session
<1>5. InlineFails(r) \/ FlushFails(r) \/ ImportFlushFails(r) \/ CommitFails(r) => kx'[r] = <<>>
    BY <1>1 DEF InlineFails, FlushFails, ImportFlushFails, CommitFails, RollBack, Forget
<1>6. ListRows(r) => kx'[r] \in {kx[r], <<>>}
    BY <1>1 DEF ListRows, RollBack, Forget, session
<1>7. BulkNotice(r) \/ Dispatch(r) \/ Commit(r) => kx'[r] \in {kx[r], <<>>}
    BY <1>1 DEF BulkNotice, Dispatch, Commit, Apply
<1>8. CASE SaveInline(r)
    <2>1. job[r].inline # "add" => job[r].kid \in Kids
        <3>1. job[r].inline \in {"add", "drop"}
            BY <1>1, <1>8 DEF SaveInline, Local, Jobs, DueInv
        <3> QED BY <1>1, <3>1 DEF Local, Asked
    <2>2. kx'[r] = IF job[r].inline = "add" THEN [c \in {r} |-> job[r].id]
                   ELSE IF kids[job[r].kid] = None THEN <<>>
                   ELSE [c \in {job[r].kid} |-> None]
        BY <1>1, <1>8 DEF SaveInline
    <2>3. r \in Kids
        BY DEF Kids
    <2> QED BY <2>1, <2>2, <2>3, NothingWritten
<1> QED BY <1>2, <1>3, <1>4, <1>5, <1>6, <1>7, <1>8 DEF Step

\* A commit, that of the request itself or the one a notification brings.
Commits(r) == (Dispatch(r) /\ notify) \/ (BulkNotice(r) /\ notify) \/ Commit(r)

LEMMA CommitsIs ==
    ASSUME LInv, NEW r \in Requests, Commits(r)
    PROVE  /\ Apply(r) /\ kind'[r] = kind[r] /\ job'[r] = job[r] /\ dropped'[r] = dropped[r]
           /\ files' = files /\ nextId' = nextId
           /\ loaded'[r] \in {loaded[r], None}
           /\ kind[r] # "bulk" => /\ stage[r] \in {"dispatch", "commit"} /\ pend'[r] = {}
                                  /\ stage'[r] \in {"commit", "done"}
<1>1. /\ Local(r) /\ DOMAIN pend = Requests /\ loaded \in [Requests -> Row \cup {None}]
      /\ kind \in [Requests -> Kinds] /\ stage \in [Requests -> Stages]
    BY DEF LInv, TypeOK, Indexed
<1>2. CASE Dispatch(r) /\ notify
    <2>1. pend[r] = {} /\ kind[r] # "bulk"
        BY <1>1, <1>2 DEF Dispatch, Local, Holds, Staged
    <2> QED BY <1>1, <1>2, <2>1 DEF Dispatch, Goto
<1>3. CASE BulkNotice(r) /\ notify
    <2>1. kind[r] = "bulk"
        BY <1>1, <1>3 DEF BulkNotice, Local, Staged, Kinds
    <2> QED BY <1>1, <1>3, <2>1 DEF BulkNotice
<1>4. CASE Commit(r)
    <2>1. pend[r] = {}
        BY <1>1, <1>4 DEF Commit, Local, Holds
    <2> QED BY <1>1, <1>4, <2>1 DEF Commit, Tell, Goto, world
<1> QED BY <1>2, <1>3, <1>4 DEF Commits

\* What a step does to the committed rows, and to those r has written.
LEMMA Effects ==
    ASSUME LInv, NEW r \in Requests, Step(r)
    PROVE  /\ Quiet \/ Commits(r)
           /\ Flush(r) \/ tx'[r] = tx[r] \/ tx'[r] = <<>>
<1>1. Asks(r) \/ Fails(r) \/ Moves(r) \/ Imports(r)
      => Quiet /\ (tx'[r] = tx[r] \/ tx'[r] = <<>>)
    BY DEF Asks, Fails, Moves, Imports
<1>2. Parse(r) => Quiet /\ tx'[r] = tx[r]
    BY DEF Parse, Quiet, db
<1>3. BulkNext(r) => Quiet /\ tx'[r] = tx[r]
    BY DEF BulkNext, Quiet, db, world, session, history
<1>4. Flush(r) => Quiet
    BY DEF Flush, Quiet, db, world, history
<1>5. BulkNotice(r) => \/ Quiet /\ tx'[r] = tx[r]
                       \/ BulkNotice(r) /\ notify
    BY DEF BulkNotice, Quiet
<1>6. Commits(r) => tx'[r] = <<>>
    BY CommitsIs, ApplyOwn DEF LInv, Local
<1> QED BY StepIs, <1>1, <1>2, <1>3, <1>4, <1>5, <1>6 DEF Commits

LEMMA StoredNext ==
    ASSUME LInv, NEW r \in Requests, Step(r)
    PROVE  Stored'
<1>1. Local(r) /\ Stored /\ Flat
    BY TypeParts DEF LInv
<1>2. CASE Quiet
    BY <1>1, <1>2 DEF Quiet, Stored
<1>3. CASE Commits(r)
    <2>1. rows' = RowsOf(r) /\ kids' = KidsOf(r) /\ DOMAIN tx[r] \subseteq Ids /\ Apply(r)
        BY <1>3, CommitsIs DEF Apply, LInv, TypeOK
    <2>2. saved' \in [Requests -> SUBSET (Ids \cup {0})]
        <3>1. saved' = [saved EXCEPT ![r] = @ \cup DOMAIN tx[r] \cup
                                            (IF kx[r] = <<>> THEN {} ELSE {0})]
            BY <2>1 DEF Apply
        <3>2. saved[r] \cup DOMAIN tx[r] \cup (IF kx[r] = <<>> THEN {} ELSE {0})
                  \in SUBSET (Ids \cup {0})
            BY <1>1, <2>1 DEF Stored
        <3> QED BY <1>1, <3>1, <3>2 DEF Stored
    <2>3. rows' \in [Ids -> Row \cup {None}] /\ kids' \in [Kids -> Ids \cup {None}]
        BY <1>1, <2>1, RowsOfAt, KidsOfAt DEF LInv, Local
    <2>4. notices' \subseteq {"create", "update", "delete"} \X (Ids \cup {0})
        <3>1. job[r].id \in Ids \cup {0} /\ Event(r) \in {"create", "update", "delete"}
            BY <1>1 DEF Local, Jobs, Event
        <3>2. \/ notices' = notices \/ notices' = notices \cup {<<"delete", job[r].id>>}
              \/ notices' = notices \cup {<<Event(r), job[r].id>>}
            BY <1>3 DEF Commits, Dispatch, BulkNotice, Commit, world
        <3> QED BY <1>1, <3>1, <3>2 DEF Stored
    <2> QED BY <2>2, <2>3, <2>4 DEF Stored
<1> QED BY <1>2, <1>3, Effects

LEMMA TypedNext ==
    ASSUME LInv, DueInv, NEW r \in Requests, Step(r), Local(r)'
    PROVE  Typed(r)'
<1>1. Typed(r) /\ Local(r)
    BY TypeParts DEF LInv
<1>2. DOMAIN tx'[r] \subseteq Ids /\ \A i \in DOMAIN tx'[r] : tx'[r][i] \in Row \cup {None}
    <2>1. CASE tx'[r] = tx[r] \/ tx'[r] = <<>>
        BY <1>1, <2>1, NothingWritten DEF Typed
    <2>2. CASE Flush(r)
        <3>1. \A s \in pend[r] : s.id \in Ids /\ Written(r, s) \in Row \cup {None}
            BY <1>1, <2>2, WrittenIs DEF Flush, Typed
        <3>2. /\ DOMAIN tx'[r] = {s.id : s \in pend[r]} \cup DOMAIN tx[r]
              /\ \A i \in DOMAIN tx'[r] :
                    \/ \E s \in pend[r] : s.id = i /\ tx'[r][i] = Written(r, s)
                    \/ i \in DOMAIN tx[r] /\ tx'[r][i] = tx[r][i]
            BY <2>2, FlushIs
        <3> QED BY <1>1, <3>1, <3>2 DEF Typed
    <2> QED BY <2>1, <2>2, Effects
<1>3. DOMAIN kx'[r] \subseteq Kids
    BY KidsWritten
<1>4. /\ \A s \in pend'[r] : s.id \in Ids
      /\ stage'[r] = "done" => tx'[r] = <<>> /\ kx'[r] = <<>> /\ pend'[r] = {}
    BY DEF Local, Emits, Holds
<1> QED BY <1>2, <1>3, <1>4 DEF Typed

LEMMA LInvNext ==
    ASSUME LInv, HomeInv, DueInv, NEW r \in Requests, Step(r)
    PROVE  LInv'
<1>1. \A q \in Requests : Local(q)'
    BY LocalNext
<1>2. Flat' /\ Stored' /\ Typed(r)'
    BY <1>1, FlatNext, StoredNext, TypedNext
<1>3. /\ \A q \in Requests \ {r} : Still(q)
      /\ DOMAIN job' = Requests /\ DOMAIN pend' = Requests
      /\ DOMAIN tx' = Requests /\ DOMAIN kx' = Requests
    BY OthersStill DEF LInv
<1>4. ASSUME NEW q \in Requests \ {r} PROVE Typed(q)'
    BY <1>3, TypeParts DEF LInv, Typed, Still
<1>5. (TypeOK /\ Indexed)'
    <2>1. \A q \in Requests : Typed(q)'
        BY <1>2, <1>4
    <2> QED BY <1>2, <1>3, <2>1, TypeParts DEF Flat, Stored, Typed, TypeOK, Indexed
<1> QED BY <1>1, <1>5 DEF LInv
-----------------------------------------------------------------------------
(***************************************************************************)
(* Primary keys, and the rows that were committed once.                    *)
(***************************************************************************)
LEMMA MineStep ==
    ASSUME LInv, NEW r \in Requests, Step(r)
    PROVE  \/ nextId' = nextId /\ Mine(r)' \subseteq Mine(r)
           \/ nextId' = nextId + 1 /\ Mine(r)' \subseteq Mine(r) \cup {nextId}
<1>1. CASE Asks(r)
    BY <1>1 DEF Asks
<1>2. CASE Imports(r)
    BY <1>2 DEF Imports
<1>3. ASSUME nextId' = nextId, kind'[r] = kind[r], job'[r] = job[r]
      PROVE  nextId' = nextId /\ Mine(r)' \subseteq Mine(r)
    BY <1>3 DEF Mine
<1>4. CASE Fails(r) \/ Moves(r) \/ Flush(r) \/ Parse(r)
    <2>1. nextId' = nextId /\ kind'[r] = kind[r] /\ job'[r] = job[r]
        BY <1>4 DEF Fails, Moves, Flush, Parse, db
    <2> QED BY <1>3, <2>1
<1>5. CASE BulkNotice(r)
    BY <1>3, <1>5 DEF BulkNotice
<1>6. CASE Commits(r)
    BY <1>3, <1>6, CommitsIs
<1>7. CASE BulkNext(r)
    <2>1. PICK o \in Jobs : o = job[r]
        BY DEF LInv, Local
    <2>2. \/ job'[r] = o
          \/ job'[r] = [o EXCEPT !.pos = o.pos + 1, !.id = o.ids[o.pos]]
        BY <1>7, <2>1 DEF BulkNext, LInv, Indexed
    <2>3. job'[r].made = o.made
        BY <2>2 DEF Jobs
    <2>4. kind[r] = "bulk" /\ kind'[r] = "bulk" /\ nextId' = nextId
        BY <1>7 DEF BulkNext, LInv, Local, Staged, TypeOK, Kinds, db
    <2> QED BY <2>1, <2>3, <2>4 DEF Mine
<1> QED BY <1>1, <1>2, <1>4, <1>5, <1>6, <1>7, StepIs DEF Commits

LEMMA OwnNext ==
    ASSUME IInv, NEW r \in Requests, Step(r)
    PROVE  OwnInv'
<1>1. \A q \in Requests \ {r} : Mine(q)' = Mine(q)
    BY OthersStill DEF IInv, LInv, Still, Mine
<1>2. nextId \in Nat /\ nextId >= 3 /\ OwnInv
    BY DEF IInv, LInv, TypeOK, Indexed
<1>3. \/ nextId' = nextId /\ Mine(r)' \subseteq Mine(r)
      \/ nextId' = nextId + 1 /\ Mine(r)' \subseteq Mine(r) \cup {nextId}
    BY MineStep DEF IInv
<1>4. \A q \in Requests : \A i \in Mine(q) : i >= 3 /\ i < nextId /\ i \in Nat
    BY <1>2 DEF OwnInv, IInv, LInv, Local, Jobs, Mine, Ids
<1>5. ASSUME NEW q \in Requests, NEW i \in Mine(q)' PROVE i >= 3 /\ i < nextId'
    BY <1>1, <1>2, <1>3, <1>4
<1>6. ASSUME NEW q \in Requests \ {r} PROVE Mine(r)' \cap Mine(q)' = {}
    BY <1>1, <1>2, <1>3, <1>4 DEF OwnInv
<1>7. ASSUME NEW p \in Requests, NEW q \in Requests, p # q PROVE Mine(p)' \cap Mine(q)' = {}
    BY <1>1, <1>2, <1>6, <1>7 DEF OwnInv
<1> QED BY <1>5, <1>7 DEF OwnInv

\* What was committed once stays so.
LEMMA BornStays ==
    ASSUME LInv, NEW r \in Requests, Step(r), NEW i, Born(i)
    PROVE  Born(i)'
<1>1. \A q \in Requests : saved[q] \subseteq saved'[q]
    <2>1. CASE Quiet
        BY <2>1 DEF Quiet
    <2>2. CASE Commits(r)
        BY <2>2, CommitsIs, ApplyOwn DEF LInv, Local
    <2> QED BY <2>1, <2>2, Effects
<1> QED BY <1>1 DEF Born

\* What r has written is its own, or was there before.
LEMMA WrittenIsMine ==
    ASSUME IInv, NEW r \in Requests, NEW i \in DOMAIN tx[r], ~Born(i)
    PROVE  i \in Mine(r) /\ tx[r][i] # None
<1>1. i \in Ids /\ WrittenRow(r, i)
    BY DEF IInv, LInv, TypeOK, TxInv
<1>2. tx[r][i] # None /\ Fits(r, i, tx[r][i])
    BY <1>1 DEF WrittenRow
<1>3. rows[i] = None
    BY <1>1 DEF IInv, BornInv
<1> QED BY <1>2, <1>3 DEF Fits

LEMMA NewBorn ==
    ASSUME IInv, NEW r \in Requests, Step(r), NEW i \in Ids, Born(i)', ~Born(i)
    PROVE  Commits(r) /\ i \in DOMAIN tx[r] /\ i \in Mine(r) /\ i \in saved'[r]
<1>1. LInv
    BY DEF IInv
<1>2. PICK q \in Requests : i \in saved'[q] /\ i \notin saved[q]
    BY DEF Born
<1>3. Commits(r)
    BY <1>1, <1>2, Effects DEF Quiet
<1>4. i # 0
    BY IdAssumption DEF Ids
<1>5. q = r /\ i \in DOMAIN tx[r]
    BY <1>1, <1>2, <1>3, <1>4, CommitsIs, ApplyOwn DEF LInv, Local
<1> QED BY <1>2, <1>3, <1>5, WrittenIsMine

\* Who has committed the row it creates has written everything.
LEMMA MineIsLate ==
    ASSUME IInv, NEW r \in Requests, NEW i \in Mine(r), Born(i)
    PROVE  tx[r] = <<>>
<1>1. saved[r] # {} /\ Local(r)
    BY DEF IInv, LInv, BornInv
<1>2. kind[r] # "bulk"
    BY <1>1 DEF Mine, Local, Asked
<1> QED BY <1>1, <1>2 DEF Local, Holds

\* The committed rows change by a commit; a deleted row does not come back.
LEMMA RowsStep ==
    ASSUME IInv, NEW r \in Requests, Step(r), NEW i \in Ids
    PROVE  /\ \/ rows'[i] = rows[i]
              \/ /\ Commits(r) /\ i \in DOMAIN tx[r] /\ rows'[i] = tx[r][i]
                 /\ WrittenRow(r, i)
           /\ Born(i) /\ rows[i] = None => rows'[i] = None
<1>1. LInv /\ TypeOK
    BY DEF IInv, LInv
<1>2. CASE Quiet
    BY <1>2 DEF Quiet
<1>3. CASE Commits(r)
    <2>1. rows' = RowsOf(r)
        BY <1>1, <1>3, CommitsIs DEF Apply
    <2>2. i \notin DOMAIN tx[r] => rows'[i] = rows[i]
        BY <1>1, <2>1, RowsOfAt
    <2>3. i \in DOMAIN tx[r] => rows'[i] = tx[r][i] /\ WrittenRow(r, i)
        BY <1>1, <2>1, RowsOfAt DEF IInv, TxInv
    <2>4. ASSUME Born(i), rows[i] = None, rows'[i] # None PROVE FALSE
        <3>1. i \in DOMAIN tx[r] /\ tx[r][i] # None /\ WrittenRow(r, i)
            BY <2>2, <2>3, <2>4
        <3>2. i \in Mine(r)
            BY <2>4, <3>1 DEF WrittenRow, Fits
        <3>3. tx[r] = <<>>
            BY <2>4, <3>2, MineIsLate
        <3> QED BY <3>1, <3>3, NothingWritten
    <2> QED BY <1>3, <2>2, <2>3, <2>4
<1> QED BY <1>1, <1>2, <1>3, Effects

LEMMA BornNext ==
    ASSUME IInv, NEW r \in Requests, Step(r), LInv', OwnInv'
    PROVE  BornInv'
<1>1. LInv /\ BornInv /\ OwnInv /\ nextId \in Nat /\ nextId' \in Nat
    BY DEF IInv, LInv, TypeOK
<1>2. \A q \in Requests \ {r} : Still(q)
    BY <1>1, OthersStill DEF LInv
<1>3. nextId <= nextId'
    BY <1>1, MineStep
<1>4. ASSUME NEW i \in Ids, rows'[i] # None PROVE Born(i)'
    <2>1. CASE rows'[i] = rows[i]
        BY <1>1, <1>4, <2>1, BornStays DEF BornInv
    <2>2. CASE Commits(r) /\ i \in DOMAIN tx[r]
        <3>1. i \in saved'[r]
            BY <1>1, <2>2, CommitsIs, ApplyOwn DEF LInv, Local
        <3> QED BY <3>1 DEF Born
    <2> QED BY <2>1, <2>2, RowsStep
<1>5. ASSUME NEW i \in Ids, Born(i)' PROVE i < nextId'
    <2>1. i < nextId
        BY <1>1, <1>5, NewBorn DEF BornInv, OwnInv
    <2> QED BY <1>1, <1>3, <2>1 DEF Ids
<1>6. ASSUME NEW q \in Requests, NEW i \in Mine(q)', Born(i)' PROVE saved'[q] # {}
    <2>1. i \in Ids
        BY <1>6 DEF LInv, Local, Jobs, Mine, Asked
    <2>2. CASE Born(i)
        <3>1. i < nextId
            BY <1>1, <2>1, <2>2 DEF BornInv
        <3>2. i \in Mine(q)
            <4>1. CASE q = r
                BY <1>1, <1>6, <2>1, <3>1, <4>1, MineStep DEF Ids
            <4>2. CASE q # r
                BY <1>2, <1>6, <4>2 DEF Mine, Still
            <4> QED BY <4>1, <4>2
        <3>3. saved[q] # {}
            BY <1>1, <2>2, <3>2 DEF BornInv
        <3>4. saved[q] \subseteq saved'[q]
            BY <1>1, Effects, CommitsIs, ApplyOwn DEF LInv, Local, Quiet
        <3> QED BY <3>3, <3>4
    <2>3. CASE ~Born(i)
        <3>1. i \in Mine(r) /\ i \in saved'[r]
            BY <1>6, <2>1, <2>3, NewBorn
        <3>2. CASE q = r
            BY <3>1, <3>2
        <3>3. CASE q # r
            <4>1. i \in Mine(q)
                BY <1>2, <1>6, <3>3 DEF Mine, Still
            <4> QED BY <1>1, <3>1, <3>3, <4>1 DEF OwnInv
        <3> QED BY <3>2, <3>3
    <2> QED BY <2>2, <2>3
<1>7. ASSUME NEW q \in Requests, NEW s \in pend'[q], s.op = "delete" PROVE Born(s.id)'
    <2>1. CASE s \in pend[q]
        BY <1>1, <1>7, <2>1, BornStays DEF BornInv
    <2>2. CASE s \notin pend[q]
        <3>1. q = r
            BY <1>2, <1>7, <2>2 DEF Still
        <3>2. kind'[r] \in {"delete", "bulk"} /\ s.id \in Ids
            BY <1>7, <3>1 DEF LInv, Local, Emits
        <3>3. CASE Asks(r)
            BY <1>1, <1>7, <3>1, <3>2, <3>3, BornStays DEF Asks, BornInv
        <3>4. CASE BulkNotice(r)
            <4>1. pend'[r] = {Delete(job[r].id)} /\ stage[r] = "notice"
                BY <1>1, <3>4 DEF BulkNotice, LInv, Indexed
            <4>2. s.id = job[r].id /\ Born(job[r].id)
                BY <1>1, <1>7, <3>1, <4>1 DEF Delete, BornInv
            <4> QED BY <1>1, <4>2, BornStays
        <3>5. CASE Parse(r)
            <4>1. kind[r] \in Writers /\ kind'[r] = kind[r]
                BY <1>1, <3>5 DEF Parse, LInv, Local, Staged, TypeOK, Kinds, Writers
            <4> QED BY <3>2, <4>1 DEF Writers
        <3>6. CASE Fails(r) \/ Moves(r) \/ Flush(r) \/ Imports(r) \/ BulkNext(r)
            <4>1. pend'[r] \in {{}, pend[r]} \/ kind'[r] = "import"
                BY <1>1, <3>6, FlushIs DEF Fails, Moves, Imports, BulkNext, session
            <4> QED BY <1>7, <2>2, <3>1, <3>2, <4>1
        <3>7. CASE Dispatch(r) \/ Commit(r)
            BY <1>7, <2>2, <3>1, <3>7 DEF Dispatch, Commit
        <3> QED BY <1>1, <3>3, <3>4, <3>5, <3>6, <3>7, StepIs
    <2> QED BY <2>1, <2>2
<1>8. ASSUME NEW q \in Requests,
             stage'[q] = "notice" \/ kind'[q] \in {"edit", "put", "field", "delete"}
      PROVE  Born(job[q].id)'
    <2>j. PICK j : j = job'[q].id
        OBVIOUS
    <2> SUFFICES Born(j)'
        BY <2>j DEF Born
    <2>a. ASSUME Born(j) PROVE Born(j)'
        BY <1>1, <2>a, BornStays
    <2>1. CASE q # r
        BY <1>1, <1>2, <1>8, <2>1, <2>a, <2>j DEF BornInv, Still
    <2>2. CASE q = r /\ Asks(r)
        <3>1. kind'[r] \in {"edit", "put", "field", "delete"} /\ rows[job'[r].id] # None
            BY <1>8, <2>2 DEF Asks
        <3>2. job'[r].id \in Ids
            BY <3>1 DEF LInv, Local, Asked
        <3> QED BY <1>1, <2>2, <2>a, <3>1, <3>2, <2>j DEF BornInv
    <2>3. CASE q = r /\ BulkNext(r)
        <3>1. kind[r] = "bulk" /\ kind'[r] = "bulk"
            BY <1>1, <2>3 DEF BulkNext, LInv, Local, Staged, TypeOK, Kinds
        <3>2. PICK o \in Jobs : o = job[r]
            BY <1>1 DEF LInv, Local
        <3>3. ~(o.pos > Len(o.ids)) /\ RowsOf(r)[o.ids[o.pos]] # None
            BY <1>1, <1>8, <2>3, <3>1, <3>2 DEF BulkNext, Goto, LInv, TypeOK
        <3>4. job'[r] = [o EXCEPT !.pos = o.pos + 1, !.id = o.ids[o.pos]]
            BY <1>1, <2>3, <3>2, <3>3 DEF BulkNext, LInv, Indexed
        <3>5. job'[r].id = o.ids[o.pos]
            BY <3>4 DEF Jobs
        <3>6. o.ids[o.pos] \in Ids
            BY <1>1, <3>1, <3>2, <3>3, SelectionIs
        <3>7. rows[o.ids[o.pos]] # None
            <4>1. \A i \in DOMAIN tx[r] : tx[r][i] = None
                BY <3>1 DEF IInv, TxInv, WrittenRow
            <4> QED BY <1>1, <3>3, <3>6, <4>1, RowsOfAt DEF LInv
        <3> QED BY <1>1, <2>3, <2>a, <3>5, <3>6, <3>7, <2>j DEF BornInv
    <2>4. ASSUME q = r, kind'[r] = kind[r], job'[r] = job[r], stage'[r] # "notice"
          PROVE  Born(j)'
        BY <1>1, <1>8, <2>4, <2>a, <2>j DEF BornInv
    <2>5. CASE q = r /\ (Fails(r) \/ Moves(r))
        BY <2>4, <2>5 DEF Fails, Moves
    <2>6. CASE q = r /\ (Parse(r) \/ BulkNotice(r) \/ Dispatch(r) \/ Commit(r))
        <3>1. kind'[r] = kind[r] /\ job'[r] = job[r] /\ stage'[r] # "notice"
            BY <1>1, <2>6 DEF Parse, BulkNotice, Dispatch, Commit, Tell, Goto, LInv, TypeOK
        <3> QED BY <2>4, <2>6, <3>1
    <2>7. CASE q = r /\ Flush(r)
        <3>1. kind'[r] = kind[r] /\ job'[r] = job[r] /\ stage'[r] # "notice"
            BY <1>1, <2>7, FlushIs DEF Goes, Flush, Flushes, LooksUp, AfterFlush, AfterSave
        <3> QED BY <2>4, <2>7, <3>1
    <2>8. CASE q = r /\ Imports(r)
        BY <1>8, <2>8 DEF Imports
    <2> QED BY <1>1, <2>1, <2>2, <2>3, <2>5, <2>6, <2>7, <2>8, StepIs
<1> QED BY <1>4, <1>5, <1>6, <1>7, <1>8 DEF BornInv
-----------------------------------------------------------------------------
(***************************************************************************)
(* The rows of an open transaction: whose they are, and what they change.  *)
(***************************************************************************)
LEMMA LockNext ==
    ASSUME IInv, NEW r \in Requests, Step(r)
    PROVE  LockInv'
<1>1. LInv /\ LockInv /\ \A q \in Requests \ {r} : tx'[q] = tx[q]
    BY OthersStill DEF IInv, LInv, Still
<1>2. ASSUME NEW q \in Requests \ {r} PROVE DOMAIN tx'[r] \cap DOMAIN tx[q] = {}
    <2>1. CASE Flush(r)
        <3>1. DOMAIN tx'[r] = {s.id : s \in pend[r]} \cup DOMAIN tx[r]
            BY <1>1, <2>1, FlushIs
        <3>2. \A s \in pend[r] : s.id \notin DOMAIN tx[q]
            BY <2>1 DEF Flush, Waits
        <3> QED BY <1>1, <3>1, <3>2 DEF LockInv
    <2>2. CASE tx'[r] = tx[r] \/ tx'[r] = <<>>
        BY <1>1, <2>2, NothingWritten DEF LockInv
    <2> QED BY <1>1, <2>1, <2>2, Effects
<1>3. ASSUME NEW p \in Requests, NEW q \in Requests, p # q
      PROVE  DOMAIN tx'[p] \cap DOMAIN tx'[q] = {}
    <2>1. CASE p = r
        BY <1>1, <1>2, <1>3, <2>1
    <2>2. CASE q = r
        BY <1>1, <1>2, <1>3, <2>2
    <2>3. CASE p # r /\ q # r
        BY <1>1, <1>3, <2>3 DEF LockInv
    <2> QED BY <2>1, <2>2, <2>3
<1> QED BY <1>3 DEF LockInv

\* A row as its transaction sees it.
LEMMA SeenFits ==
    ASSUME IInv, NEW r \in Requests, NEW i \in Ids, RowsOf(r)[i] # None
    PROVE  Fits(r, i, RowsOf(r)[i])
<1>1. TypeOK
    BY DEF IInv, LInv
<1>2. CASE i \in DOMAIN tx[r]
    BY <1>1, <1>2, RowsOfAt DEF IInv, TxInv, WrittenRow
<1>3. CASE i \notin DOMAIN tx[r]
    BY <1>1, <1>3, RowsOfAt DEF Fits
<1> QED BY <1>2, <1>3

\* What a statement writes over it.
LEMMA StatementFits ==
    ASSUME IInv, NEW r \in Requests, NEW s \in pend[r], ~Raises(r, s)
    PROVE  LET v == Written(r, s)
           IN  /\ v = None <=> kind[r] \in {"bulk", "delete"}
               /\ v = None => Born(s.id)
               /\ v # None => Fits(r, s.id, v)
<1>1. LInv /\ Emits(r)
    BY DEF IInv, LInv, Local
<1>2. s.id \in Ids /\ s.op \in {"insert", "update", "delete"}
    BY <1>1 DEF Emits
<1>3. CASE s.op = "delete"
    <2>1. Written(r, s) = None
        BY <1>1, <1>3, WrittenIs
    <2> QED BY <1>1, <1>3, <2>1 DEF Emits, IInv, BornInv
<1>4. CASE s.op = "insert"
    <2>1. /\ Written(r, s) = s.set /\ s.set \in Row /\ s.id \in Mine(r)
          /\ kind[r] \in {"create", "import"} /\ OwnFile(r, s.set.file)
          /\ kind[r] = "create" => s.id = job[r].id
        BY <1>1, <1>4, WrittenIs DEF Emits
    <2> QED BY <2>1, RowIsSomething DEF Fits, OwnFile, Writers
<1>5. CASE s.op = "update"
    <2> DEFINE row == RowsOf(r)[s.id]
    <2>1. /\ row \in Row /\ IsSet(s.set) /\ Written(r, s) = Over(s.set, row)
          /\ Written(r, s) \in Row
        BY <1>1, <1>5, WrittenIs
    <2>2. Fits(r, s.id, row)
        BY <1>2, <2>1, RowIsSomething, SeenFits
    <2>3. /\ kind[r] \in {"edit", "put", "field", "import"}
          /\ "file" \in DOMAIN s.set => OwnFile(r, s.set["file"])
          /\ kind[r] = "edit" => \A c \in DOMAIN s.set \cap {"key", "note"} :
                                     job[r].post[c] # loaded[r][c]
          /\ kind[r] # "import" => s.id = job[r].id
        BY <1>1, <1>5 DEF Emits
    <2> HIDE DEF row
    <2>4. /\ "file" \in DOMAIN s.set => Over(s.set, row).file = s.set["file"]
          /\ "file" \notin DOMAIN s.set => Over(s.set, row).file = row.file
          /\ \A c \in Columns : Over(s.set, row)[c] = IF c \in DOMAIN s.set THEN s.set[c] ELSE row[c]
        BY <2>1, SetRow
    <2>5. Fits(r, s.id, Over(s.set, row))
        <3>1. Over(s.set, row).file # None =>
                  \/ /\ Over(s.set, row).file = r /\ s.id = job[r].id
                     /\ OwnFile(r, Over(s.set, row).file)
                  \/ rows[s.id] # None /\ Over(s.set, row).file = rows[s.id].file
            BY <2>2, <2>3, <2>4 DEF Fits, OwnFile, Writers
        <3>2. kind[r] = "edit" /\ rows[s.id] # None =>
                  \A c \in {"key", "note"} : Over(s.set, row)[c] # rows[s.id][c]
                                             => job[r].post[c] # loaded[r][c]
            BY <2>2, <2>3, <2>4 DEF Fits, Columns
        <3> QED BY <2>2, <3>1, <3>2 DEF Fits
    <2> QED BY <2>1, <2>3, <2>5, RowIsSomething
<1> QED BY <1>2, <1>3, <1>4, <1>5

\* While a transaction keeps what it has written, what it was asked for stays.
LEMMA KeepsAsking ==
    ASSUME IInv, NEW r \in Requests, Step(r), tx'[r] # <<>>
    PROVE  /\ Quiet /\ kind'[r] = kind[r] /\ Mine(r) \subseteq Mine(r)'
           /\ kind[r] \notin {"import", "bulk"} => job'[r] = job[r]
           /\ kind[r] = "edit" => loaded'[r] = loaded[r]
<1>1. LInv /\ Local(r)
    BY DEF IInv, LInv
<1>2. ~Commits(r)
    BY <1>1, CommitsIs, ApplyOwn DEF LInv, Local
<1>3. ~Asks(r) /\ ~Fails(r)
    BY DEF Asks, Fails
<1>4. ~Parse(r)
    <2>1. ASSUME Parse(r) PROVE FALSE
        <3>1. tx[r] = <<>>
            BY <1>1, <2>1 DEF Parse, Local, Holds
        <3> QED BY <2>1, <3>1 DEF Parse
    <2> QED BY <2>1
<1>5. CASE Moves(r)
    BY <1>5 DEF Moves, Mine
<1>6. CASE Flush(r)
    BY <1>1, <1>2, <1>6, Effects, FlushIs DEF Goes, Mine
<1>7. CASE Imports(r)
    BY <1>7 DEF Imports
<1>8. CASE BulkNext(r) \/ BulkNotice(r)
    <2>1. kind[r] = "bulk" /\ kind'[r] = kind[r] /\ job[r].made = {}
        BY <1>1, <1>8 DEF BulkNext, BulkNotice, LInv, Local, Staged, Asked, TypeOK, Kinds
    <2> QED BY <1>1, <1>2, <2>1, Effects DEF Mine
<1> QED BY <1>1, <1>2, <1>3, <1>4, <1>5, <1>6, <1>7, <1>8, StepIs DEF Commits

LEMMA TxNext ==
    ASSUME IInv, NEW r \in Requests, Step(r), LInv'
    PROVE  TxInv'
<1>1. LInv /\ LockInv /\ TxInv
    BY DEF IInv
<1>2. \A q \in Requests \ {r} : Still(q)
    BY <1>1, OthersStill DEF LInv
<1>3. ASSUME NEW q \in Requests \ {r}, NEW i \in DOMAIN tx'[q] PROVE WrittenRow(q, i)'
    <2>1. Still(q) /\ i \in DOMAIN tx[q] /\ i \in Ids /\ WrittenRow(q, i)
        BY <1>1, <1>2, <1>3 DEF Still, TxInv, LInv, TypeOK
    <2>2. i \notin DOMAIN tx[r]
        BY <1>1, <2>1 DEF LockInv
    <2>3. rows'[i] = rows[i]
        BY <2>1, <2>2, RowsStep
    <2>4. tx'[q][i] = None => Born(i)'
        BY <1>1, <2>1, BornStays DEF WrittenRow, Still
    <2> QED BY <2>1, <2>3, <2>4 DEF WrittenRow, Fits, OwnFile, Mine, Still
<1>4. ASSUME NEW i \in DOMAIN tx'[r] PROVE WrittenRow(r, i)'
    <2>1. tx'[r] # <<>>
        BY <1>4, NothingWritten
    <2>2. /\ Quiet /\ kind'[r] = kind[r] /\ Mine(r) \subseteq Mine(r)'
          /\ kind[r] \notin {"import", "bulk"} => job'[r] = job[r]
          /\ kind[r] = "edit" => loaded'[r] = loaded[r]
        BY <2>1, KeepsAsking
    <2>3. LET v == tx'[r][i]
          IN  /\ v = None <=> kind[r] \in {"bulk", "delete"}
              /\ v = None => Born(i)
              /\ v # None => Fits(r, i, v)
        <3>1. CASE i \in DOMAIN tx[r] /\ tx'[r][i] = tx[r][i]
            BY <1>1, <3>1 DEF TxInv, WrittenRow
        <3>2. CASE Flush(r) /\ \E s \in pend[r] : s.id = i /\ tx'[r][i] = Written(r, s)
            BY <3>2, StatementFits DEF Flush
        <3> QED BY <1>1, <1>4, <2>1, <3>1, <3>2, Effects, FlushIs
    <2>4. PICK v : v = tx'[r][i]
        OBVIOUS
    <2>5. v # None => Fits(r, i, v)'
        <3>1. SUFFICES ASSUME v # None PROVE Fits(r, i, v)'
            OBVIOUS
        <3>2. Fits(r, i, v) /\ kind[r] \notin {"bulk", "delete"} /\ rows' = rows
            BY <2>2, <2>3, <2>4, <3>1 DEF Quiet
        <3>3. kind[r] = "import" => ~OwnFile(r, v.file) \/ v.file = None
            BY DEF OwnFile, Writers
        <3>4. CASE kind[r] = "import"
            BY <2>2, <3>2, <3>3, <3>4 DEF Fits
        <3>5. CASE kind[r] # "import"
            BY <2>2, <3>2, <3>5 DEF Fits, OwnFile
        <3> QED BY <3>4, <3>5
    <2>6. v = None => Born(i)'
        BY <1>1, <2>3, <2>4, BornStays
    <2> QED BY <2>2, <2>3, <2>4, <2>5, <2>6 DEF WrittenRow, Fits
<1> QED BY <1>3, <1>4 DEF TxInv
-----------------------------------------------------------------------------
(***************************************************************************)
(* The files: whose row each belongs to.                                   *)
(***************************************************************************)
LEMMA PublishedStays ==
    ASSUME LInv, NEW r \in Requests, Step(r), NEW q \in Requests, Published(q)
    PROVE  Published(q)' /\ kind'[q] = kind[q] /\ job'[q] = job[q]
<1>1. CASE q # r
    BY <1>1, OthersStill DEF LInv, Still, Published
<1>2. CASE q = r
    <2>1. stage[r] \in {"commit", "done"} /\ pend[r] = {} /\ tx[r] = <<>> /\ Local(r)
        BY <1>2 DEF Published, LInv
    <2>2. ~Asks(r) /\ ~Moves(r) /\ ~Imports(r)
        BY <2>1 DEF Asks, Moves, Imports
    <2>3. ~Parse(r) /\ ~Flush(r) /\ ~BulkNext(r) /\ ~BulkNotice(r) /\ ~Dispatch(r)
        BY <2>1 DEF Parse, Flush, Flushes, BulkNext, BulkNotice, Dispatch
    <2>4. CASE Fails(r)
        BY <1>2, <2>4 DEF Fails, Published
    <2>5. CASE Commit(r)
        BY <1>2, <2>1, <2>5 DEF Commit, Apply, Tell, Goto, Published, LInv, TypeOK, Indexed
    <2> QED BY <2>2, <2>3, <2>4, <2>5, StepIs
<1> QED BY <1>1, <1>2

LEMMA HomeStays ==
    ASSUME LInv, NEW r \in Requests, Step(r), NEW f, NEW i, Home(f, i)
    PROVE  Home(f, i)'
BY PublishedStays DEF Home

LEMMA HomeIs ==
    ASSUME NEW f, NEW i, Home(f, i)
    PROVE  /\ \A j : Home(f, j) => j = i
           /\ f \in Requests => Published(f) /\ f # "old"
BY NameAssumption DEF Home

LEMMA LoadedIs ==
    ASSUME LInv, NEW r \in Requests, Step(r)
    PROVE  \/ loaded'[r] = None
           \/ loaded'[r] = loaded[r] /\ job'[r].id = job[r].id
           \/ loaded'[r] = rows[job'[r].id]
<1>1. Local(r) /\ loaded \in [Requests -> Row \cup {None}] /\ kind[r] \in Kinds
    BY DEF LInv, TypeOK
<1>2. Asks(r) \/ Fails(r) => loaded'[r] = None \/ loaded'[r] = rows[job'[r].id]
    BY DEF Asks, Fails
<1>3. Moves(r) => loaded'[r] = loaded[r] /\ job'[r].id = job[r].id
    BY DEF Moves
<1>4. Parse(r) => (loaded'[r] = loaded[r] \/ loaded'[r] = None) /\ job' = job
    BY <1>1 DEF Parse, Tell
<1>5. Flush(r) => loaded'[r] = loaded[r] /\ job' = job
    BY DEF Flush
<1>6. Imports(r) => loaded'[r] = None
    BY <1>1 DEF Imports, Local, Asked
<1>7. BulkNext(r) \/ BulkNotice(r) => loaded'[r] = None
    BY <1>1 DEF BulkNext, BulkNotice, Local, Asked, Staged, Kinds
<1>8. Commits(r) => (loaded'[r] = loaded[r] \/ loaded'[r] = None) /\ job'[r] = job[r]
    BY CommitsIs
<1> QED BY <1>2, <1>3, <1>4, <1>5, <1>6, <1>7, <1>8, StepIs DEF Commits

LEMMA HomeNext ==
    ASSUME IInv, NEW r \in Requests, Step(r), LInv'
    PROVE  HomeInv'
<1>1. LInv /\ HomeInv
    BY DEF IInv
<1>2. ASSUME NEW i \in Ids, NEW f, rows'[i] # None, f = rows'[i].file, f # None PROVE Home(f, i)'
    <2>1. CASE rows[i] # None /\ rows[i].file = f
        BY <1>1, <1>2, <2>1, HomeStays DEF HomeInv
    <2>2. CASE Commits(r) /\ tx[r][i] = rows'[i] /\ WrittenRow(r, i)
        <3>1. CASE f = r /\ i = job[r].id /\ OwnFile(r, f)
            <4>1. kind[r] \in Writers /\ kind[r] # "bulk"
                BY <1>2, <3>1 DEF OwnFile, Writers
            <4>2. /\ kind'[r] = kind[r] /\ job'[r] = job[r] /\ pend'[r] = {} /\ tx'[r] = <<>>
                  /\ stage'[r] \in {"commit", "done"}
                BY <1>1, <2>2, <4>1, CommitsIs, ApplyOwn DEF LInv, Local
            <4> QED BY <3>1, <4>1, <4>2 DEF Home, Published
        <3> QED BY <1>2, <2>1, <2>2, <3>1 DEF WrittenRow, Fits
    <2> QED BY <1>2, <2>1, <2>2, RowsStep
<1>3. ASSUME NEW q \in Requests, NEW f, NEW i,
             loaded'[q] # None, f = loaded'[q].file, f # None, i = job'[q].id
      PROVE  Home(f, i)'
    <2>1. Home(f, i) => Home(f, i)'
        BY <1>1, HomeStays
    <2>2. CASE loaded'[q] = loaded[q] /\ job'[q].id = job[q].id
        BY <1>1, <1>3, <2>1, <2>2 DEF HomeInv
    <2>3. CASE loaded'[q] = rows[job'[q].id]
        <3>1. kind'[q] \in {"create", "edit", "put", "field", "delete"}
            BY <1>3 DEF LInv, Local, Asked, TypeOK, Kinds
        <3>2. i \in Ids
            BY <1>3, <3>1 DEF LInv, Local, Asked
        <3> QED BY <1>1, <1>3, <2>1, <2>3, <3>2 DEF HomeInv
    <2>4. CASE q # r
        BY <1>1, <2>2, <2>4, OthersStill DEF LInv, Still
    <2> QED BY <1>1, <1>3, <2>2, <2>3, <2>4, LoadedIs
<1>4. \A i \in Ids : rows'[i] # None /\ rows'[i].file # None => Home(rows[i].file, i)'
    <2>1. TAKE i \in Ids
    <2>2. HAVE rows'[i] # None /\ rows'[i].file # None
    <2>3. PICK f : f = rows'[i].file
        OBVIOUS
    <2>4. Home(f, i)'
        BY <1>2, <2>2, <2>3
    <2> QED BY <2>3, <2>4 DEF Home
<1>5. \A q \in Requests : loaded'[q] # None /\ loaded'[q].file # None
                          => Home(loaded[q].file, job[q].id)'
    <2>1. TAKE q \in Requests
    <2>2. HAVE loaded'[q] # None /\ loaded'[q].file # None
    <2>3. PICK f, i : f = loaded'[q].file /\ i = job'[q].id
        OBVIOUS
    <2>4. Home(f, i)'
        BY <1>3, <2>2, <2>3
    <2> QED BY <2>3, <2>4 DEF Home
<1> QED BY <1>4, <1>5 DEF HomeInv

\* Storage changes when a form is parsed.
LEMMA FilesStep ==
    ASSUME LInv, NEW r \in Requests, Step(r)
    PROVE  files' = files \/ Parse(r)
<1>1. Asks(r) \/ Fails(r) \/ Moves(r) \/ Imports(r) => files' = files
    BY DEF Asks, Fails, Moves, Imports
<1>2. Flush(r) \/ BulkNext(r) \/ BulkNotice(r) \/ Dispatch(r) \/ Commit(r) => files' = files
    BY DEF Flush, BulkNext, BulkNotice, Dispatch, Commit, world
<1> QED BY <1>1, <1>2, StepIs

\* Where a form that stores an upload comes from.
LEMMA UploadStep ==
    ASSUME LInv, NEW r \in Requests, Step(r), ~Parse(r), kind'[r] \in Writers,
           stage'[r] \in {"save", "inline", "dispatch", "commit"}
    PROVE  /\ stage[r] \in {"save", "inline", "dispatch", "commit"}
           /\ kind'[r] = kind[r] /\ job'[r] = job[r]
<1>1. Local(r) /\ kind[r] \in Kinds
    BY DEF LInv, TypeOK
<1>2. ~Asks(r) /\ ~Fails(r) /\ ~Imports(r)
    BY DEF Asks, Fails, Imports, Writers
<1>3. ~BulkNext(r) /\ ~BulkNotice(r)
    BY <1>1 DEF BulkNext, BulkNotice, Local, Staged, Kinds, Writers
<1>4. CASE Moves(r)
    BY <1>1, <1>4 DEF Moves, Local, Staged, Writers
<1>5. CASE Flush(r)
    <2>1. kind'[r] = kind[r] /\ job'[r] = job[r]
        BY <1>5 DEF Flush
    <2>2. stage[r] = "save"
        BY <1>1, <1>5, <2>1 DEF Flush, Flushes, LooksUp, Local, Staged, Writers
    <2> QED BY <2>1, <2>2
<1>6. CASE Commits(r)
    <2>1. kind'[r] = kind[r] /\ job'[r] = job[r]
        BY <1>6, CommitsIs
    <2>2. kind[r] # "bulk"
        BY <2>1 DEF Writers
    <2> QED BY <1>6, <2>1, <2>2, CommitsIs
<1> QED BY <1>2, <1>3, <1>4, <1>5, <1>6, StepIs DEF Commits

LEMMA UploadNext ==
    ASSUME IInv, NEW r \in Requests, Step(r), LInv'
    PROVE  UploadInv'
<1>1. LInv /\ HomeInv /\ UploadInv
    BY DEF IInv
<1>2. SUFFICES ASSUME NEW q \in Requests, kind'[q] \in Writers, job'[q].act = "replace",
                      stage'[q] \in {"save", "inline", "dispatch", "commit"}, ~Published(q)'
               PROVE  q \in files'
    BY DEF UploadInv
<1>3. ~Published(q)
    BY <1>1, <1>2, PublishedStays
<1>4. CASE q = r /\ Parse(r)
    BY <1>2, <1>4 DEF Parse
<1>5. CASE ~(q = r /\ Parse(r))
    <2>1. q \in files
        <3>1. CASE q # r
            BY <1>1, <1>2, <1>3, <3>1, OthersStill DEF LInv, Still, UploadInv
        <3>2. CASE q = r
            BY <1>1, <1>2, <1>3, <1>5, <3>2, UploadStep DEF UploadInv
        <3> QED BY <3>1, <3>2
    <2>2. CASE files' = files
        BY <2>1, <2>2
    <2>3. CASE Parse(r)
        <3>1. ASSUME OldFile(r) = q PROVE FALSE
            <4>1. q # None
                BY NoneAssumption
            <4>2. loaded[r] # None /\ loaded[r].file = q
                BY <3>1, <4>1 DEF OldFile
            <4>3. Home(q, job[r].id)
                BY <1>1, <4>1, <4>2 DEF HomeInv
            <4> QED BY <1>3, <4>3, HomeIs
        <3> QED BY <2>1, <2>3, <3>1 DEF Parse
    <2> QED BY <1>1, <2>2, <2>3, FilesStep
<1> QED BY <1>4, <1>5

\* A form drops a file once, when it is parsed.
LEMMA DroppedIs ==
    ASSUME LInv, NEW r \in Requests, Step(r), dropped'[r] # None, ~Parse(r)
    PROVE  /\ dropped'[r] = dropped[r] /\ kind[r] \in {"edit", "put"}
           /\ kind'[r] = kind[r] /\ job'[r] = job[r]
<1>1. Local(r) /\ kind[r] \in Kinds
    BY DEF LInv, TypeOK
<1>2. ~Asks(r)
    BY DEF Asks
<1>3. ~Imports(r) /\ ~BulkNext(r) /\ ~BulkNotice(r)
    <2>1. Imports(r) => kind[r] = "import" /\ dropped'[r] = dropped[r]
        BY DEF Imports
    <2>2. BulkNext(r) \/ BulkNotice(r) => kind[r] = "bulk" /\ dropped' = dropped
        BY <1>1 DEF BulkNext, BulkNotice, Local, Staged, Kinds, history
    <2> QED BY <1>1, <2>1, <2>2 DEF Local, Asked
<1>4. Fails(r) \/ Moves(r) => dropped'[r] = dropped[r] /\ kind'[r] = kind[r] /\ job'[r] = job[r]
    BY DEF Fails, Moves
<1>5. Flush(r) => dropped' = dropped /\ kind' = kind /\ job' = job
    BY DEF Flush, history
<1>6. Commits(r) => dropped'[r] = dropped[r] /\ kind'[r] = kind[r] /\ job'[r] = job[r]
    BY CommitsIs
<1>7. dropped'[r] = dropped[r] /\ kind'[r] = kind[r] /\ job'[r] = job[r]
    BY <1>2, <1>3, <1>4, <1>5, <1>6, StepIs DEF Commits
<1> QED BY <1>1, <1>7 DEF Local, Asked

LEMMA DropNext ==
    ASSUME IInv, NEW r \in Requests, Step(r), LInv'
    PROVE  DropInv'
<1>1. LInv /\ HomeInv /\ DropInv /\ BornInv /\ TypeOK
    BY DEF IInv, LInv
<1>2. \A q \in Requests \ {r} : Still(q)
    BY <1>1, OthersStill DEF LInv
<1>3. ASSUME NEW q \in Requests, NEW d, NEW i, d = dropped'[q], i = job'[q].id, d # None
      PROVE  /\ Home(d, i)'
             /\ stage'[q] = "commit" =>
                    Replaced(q)' \/ rows'[i] = None \/ rows'[i].file # d
    <2>1. CASE q = r /\ Parse(r)
        <3>1. d = OldFile(r) /\ i = job[r].id /\ stage'[r] \in {"save", "done"}
            BY <1>1, <1>3, <2>1 DEF Parse, Goto, Tell, LInv, TypeOK
        <3>2. loaded[r] # None /\ loaded[r].file = d
            BY <1>3, <3>1 DEF OldFile
        <3>3. Home(d, i)
            BY <1>1, <1>3, <3>1, <3>2 DEF HomeInv
        <3> QED BY <1>1, <2>1, <3>1, <3>3, HomeStays
    <2>2. CASE ~(q = r /\ Parse(r))
        <3>1. /\ d = dropped[q] /\ i = job[q].id /\ job'[q] = job[q] /\ dropped'[q] = dropped[q]
              /\ kind[q] \in {"edit", "put"}
            <4>1. CASE q = r
                BY <1>1, <1>3, <2>2, <4>1, DroppedIs
            <4>2. CASE q # r
                BY <1>1, <1>2, <1>3, <4>2 DEF Still, LInv, Local, Asked
            <4> QED BY <4>1, <4>2
        <3>2. Home(d, i) /\ Born(i) /\ i \in Ids
            BY <1>1, <1>3, <3>1 DEF DropInv, BornInv, LInv, Local, Asked
        <3>3. ASSUME rows[i] # None, rows[i].file # d, rows'[i] # None PROVE rows'[i].file # d
            <4>1. CASE rows'[i] = rows[i]
                BY <3>3, <4>1
            <4>2. CASE i \in DOMAIN tx[r] /\ rows'[i] = tx[r][i] /\ WrittenRow(r, i)
                <5>1. CASE tx[r][i].file = r
                    <6>1. d # r
                        <7>1. ASSUME d = r PROVE FALSE
                            <8>1. tx[r] = <<>>
                                BY <3>2, <7>1, HomeIs DEF Published
                            <8> QED BY <4>2, <8>1, NothingWritten
                        <7> QED BY <7>1
                    <6> QED BY <4>2, <5>1, <6>1
                <5> QED BY <1>3, <3>3, <4>2, <5>1 DEF WrittenRow, Fits
            <4> QED BY <3>2, <4>1, <4>2, RowsStep
        <3>4. rows[i] = None => rows'[i] = None
            BY <3>2, RowsStep
        <3>5. ASSUME stage'[q] = "commit"
              PROVE  Replaced(q)' \/ rows'[i] = None \/ rows'[i].file # d
            <4>1. CASE q # r
                <5>1. Replaced(q) => Replaced(q)'
                    BY <1>2, <4>1 DEF Replaced, Still
                <5>2. Replaced(q) \/ rows[i] = None \/ rows[i].file # d
                    BY <1>1, <1>2, <1>3, <3>1, <3>5, <4>1 DEF DropInv, Still
                <5> QED BY <3>3, <3>4, <5>1, <5>2
            <4>2. CASE q = r
                <5>1. ~Asks(r) /\ ~Fails(r) /\ ~Parse(r) /\ ~Imports(r) /\ ~Commit(r)
                    <6>1. ~Asks(r) /\ ~Fails(r) /\ ~Imports(r)
                        BY <3>5, <4>2 DEF Asks, Fails, Imports
                    <6>2. ~Commit(r)
                        BY <1>1, <3>5, <4>2 DEF Commit, Tell, Goto, LInv, TypeOK
                    <6> QED BY <2>2, <4>2, <6>1, <6>2
                <5>2. ~Flush(r) /\ ~BulkNext(r) /\ ~BulkNotice(r)
                    <6>1. ~BulkNext(r) /\ ~BulkNotice(r)
                        BY <1>1, <3>1, <4>2 DEF BulkNext, BulkNotice, LInv, Local, Staged
                    <6>2. ASSUME Flush(r) PROVE FALSE
                        <7>1. stage'[r] = AfterFlush(r)
                            BY <1>1, <6>2, FlushIs
                        <7>2. stage[r] \in {"save", "delete", "next", "flush", "line"}
                            BY <6>2 DEF Flush, Flushes, LooksUp
                        <7> QED BY <3>1, <3>5, <4>2, <7>1, <7>2 DEF AfterFlush, AfterSave
                    <6> QED BY <6>1, <6>2
                <5>3. stage[r] = "dispatch" /\ (Moves(r) \/ (Dispatch(r) /\ notify))
                    <6>1. Moves(r) \/ (Dispatch(r) /\ notify)
                        BY <1>1, <5>1, <5>2, StepIs
                    <6> QED BY <3>1, <3>5, <4>2, <6>1 DEF Moves, Dispatch
                <5>4. Replaced(r)
                    BY <1>1, <1>3, <3>1, <4>2, <5>3 DEF LInv, Local, Replaces
                <5>5. CASE Moves(r)
                    BY <3>1, <4>2, <5>4, <5>5 DEF Moves, Replaced
                <5>6. CASE Dispatch(r) /\ notify
                    <6>1. rows' = RowsOf(r)
                        BY <5>6 DEF Dispatch, Apply
                    <6>2. rows'[i] = tx[r][i]
                        BY <1>1, <3>1, <4>2, <5>4, <6>1, RowsOfAt DEF Replaced
                    <6> QED BY <3>1, <4>2, <5>4, <6>2 DEF Replaced
                <5> QED BY <5>3, <5>5, <5>6
            <4> QED BY <4>1, <4>2
        <3> QED BY <1>1, <3>2, <3>5, HomeStays
    <2> QED BY <2>1, <2>2
<1>4. SUFFICES ASSUME NEW q \in Requests, dropped'[q] # None
               PROVE  /\ Home(dropped[q], job[q].id)'
                      /\ stage'[q] = "commit" =>
                            \/ Replaced(q)'
                            \/ rows'[job'[q].id] = None
                            \/ rows'[job'[q].id].file # dropped'[q]
    BY DEF DropInv
<1>5. PICK d, i : d = dropped'[q] /\ i = job'[q].id
    OBVIOUS
<1>6. Home(d, i)' => Home(dropped[q], job[q].id)'
    BY <1>5 DEF Home
<1> QED BY <1>3, <1>4, <1>5, <1>6

-----------------------------------------------------------------------------
(***************************************************************************)
(* What is announced, and what is missing.                                 *)
(***************************************************************************)
LEMMA DueNext ==
    ASSUME IInv, NEW r \in Requests, Step(r), LInv'
    PROVE  DueInv'
<1>1. LInv /\ DueInv
    BY DEF IInv
<1>2. ASSUME NEW q \in Requests \ {r}
      PROVE  /\ stage'[q] = "inline" => job'[q].inline # "none"
             /\ kind'[q] = "delete" /\ stage'[q] = "dispatch" => job'[q].id \in DOMAIN tx'[q]
    BY <1>1, OthersStill DEF LInv, Still, DueInv
<1>3. ASSUME stage'[r] = "inline" PROVE job'[r].inline # "none"
    <2>1. ~Asks(r) /\ ~Fails(r) /\ ~Imports(r)
        BY <1>3 DEF Asks, Fails, Imports
    <2>2. ~Parse(r) /\ ~BulkNext(r) /\ ~BulkNotice(r) /\ ~Dispatch(r) /\ ~Commit(r)
        BY <1>1, <1>3 DEF Parse, BulkNext, BulkNotice, Dispatch, Commit, Tell, Goto, LInv, TypeOK
    <2>3. CASE Moves(r)
        BY <1>3, <2>3 DEF Moves
    <2>4. CASE Flush(r)
        <3>1. stage'[r] = AfterFlush(r) /\ job'[r] = job[r]
            BY <1>1, <2>4, FlushIs DEF Goes
        <3>2. stage[r] # "inline"
            BY <2>4 DEF Flush, Flushes, LooksUp
        <3> QED BY <1>3, <3>1, <3>2 DEF AfterFlush, AfterSave
    <2> QED BY <1>1, <2>1, <2>2, <2>3, <2>4, StepIs
<1>4. ASSUME kind'[r] = "delete", stage'[r] = "dispatch" PROVE job'[r].id \in DOMAIN tx'[r]
    <2>1. ~Asks(r) /\ ~Fails(r) /\ ~Imports(r) /\ ~Moves(r)
        BY <1>4 DEF Asks, Fails, Imports, Moves
    <2>2. ~Parse(r) /\ ~BulkNext(r) /\ ~BulkNotice(r) /\ ~Dispatch(r) /\ ~Commit(r)
        BY <1>1, <1>4 DEF Parse, BulkNext, BulkNotice, Dispatch, Commit, Tell, Goto, LInv, TypeOK
    <2>3. Flush(r)
        BY <1>1, <2>1, <2>2, StepIs
    <2>4. /\ kind[r] = "delete" /\ job'[r] = job[r] /\ pend[r] # {}
          /\ DOMAIN tx'[r] = {s.id : s \in pend[r]} \cup DOMAIN tx[r]
        BY <1>1, <1>4, <2>3, FlushIs DEF Goes
    <2>5. \A s \in pend[r] : s.id = job[r].id
        BY <1>1, <2>4 DEF LInv, Local, Emits
    <2> QED BY <2>4, <2>5
<1> QED BY <1>2, <1>3, <1>4 DEF DueInv

\* A bulk action that announced a deletion holds on to it.
LEMMA DeletingStays ==
    ASSUME IInv, NEW r \in Requests, Step(r), NEW i \in Ids, Deleting(r, i), rows'[i] # None
    PROVE  Deleting(r, i)'
<1>1. LInv /\ TypeOK /\ TxInv /\ Local(r) /\ kind[r] = "bulk"
    BY DEF IInv, LInv, Deleting
<1>2. ASSUME kind'[r] = "bulk", job'[r].ids = job[r].ids,
             \/ \E s \in pend'[r] : s.id = i
             \/ i \in DOMAIN tx'[r]
             \/ stage'[r] = "done" /\ result'[r] # "ok"
      PROVE  Deleting(r, i)'
    BY <1>2 DEF Deleting
<1>3. ~Asks(r) /\ ~Moves(r) /\ ~Imports(r) /\ ~Parse(r) /\ ~Dispatch(r)
    BY <1>1 DEF Asks, Moves, Imports, Parse, Dispatch, Local, Staged
<1>4. ASSUME Apply(r), i \in DOMAIN tx[r] PROVE FALSE
    <2>1. rows'[i] = tx[r][i]
        BY <1>1, <1>4, RowsOfAt DEF Apply
    <2>2. tx[r][i] = None
        BY <1>1, <1>4 DEF TxInv, WrittenRow
    <2> QED BY <2>1, <2>2
<1>5. CASE Fails(r)
    BY <1>1, <1>2, <1>5 DEF Fails
<1>6. CASE Flush(r)
    <2>1. /\ kind'[r] = kind[r] /\ job'[r] = job[r]
          /\ DOMAIN tx'[r] = {s.id : s \in pend[r]} \cup DOMAIN tx[r]
        BY <1>1, <1>6, FlushIs DEF Goes
    <2>2. i \in DOMAIN tx'[r]
        BY <1>6, <2>1 DEF Deleting, Flush, Flushes, LooksUp
    <2> QED BY <1>1, <1>2, <2>1, <2>2
<1>7. CASE BulkNext(r)
    <2>1. PICK o \in Jobs : o = job[r]
        BY <1>1 DEF Local
    <2>2. \/ job'[r] = o
          \/ job'[r] = [o EXCEPT !.pos = o.pos + 1, !.id = o.ids[o.pos]]
        BY <1>1, <1>7, <2>1 DEF BulkNext, LInv, Indexed
    <2>3. job'[r].ids = o.ids
        BY <2>2 DEF Jobs
    <2>4. kind' = kind /\ pend' = pend /\ tx' = tx /\ stage[r] # "done"
        BY <1>7 DEF BulkNext, session
    <2> QED BY <1>1, <1>2, <2>1, <2>3, <2>4 DEF Deleting
<1>8. CASE BulkNotice(r) \/ Commit(r)
    <2>1. pend[r] = {} /\ stage[r] # "done" /\ kind' = kind /\ job' = job
        BY <1>1, <1>8 DEF BulkNotice, Commit, Local, Holds
    <2>2. i \in DOMAIN tx[r]
        BY <2>1 DEF Deleting
    <2>3. tx' = tx
        BY <1>4, <1>8, <2>2 DEF BulkNotice, Commit
    <2> QED BY <1>1, <1>2, <2>1, <2>2, <2>3
<1> QED BY <1>1, <1>3, <1>5, <1>6, <1>7, <1>8, StepIs

LEMMA NoticeNext ==
    ASSUME IInv, NEW r \in Requests, Step(r), LInv'
    PROVE  NoticeInv'
<1>1. LInv /\ TypeOK /\ NoticeInv /\ Local(r)
    BY DEF IInv, LInv
<1>2. ASSUME NEW i \in Ids, <<"delete", i>> \in notices
      PROVE  Born(i)' /\ (rows'[i] # None => \E q \in Requests : Deleting(q, i)')
    <2>1. Born(i)' /\ (rows'[i] # None => \E q \in Requests : Deleting(q, i))
        BY <1>1, <1>2, BornStays, RowsStep DEF NoticeInv
    <2>2. ASSUME NEW q \in Requests \ {r}, Deleting(q, i) PROVE Deleting(q, i)'
        BY <1>1, <2>2, OthersStill DEF LInv, Still, Deleting
    <2>3. Deleting(r, i) /\ rows'[i] # None => Deleting(r, i)'
        BY DeletingStays
    <2> QED BY <2>1, <2>2, <2>3
<1>3. ASSUME NEW i \in Ids, <<"delete", i>> \in notices', <<"delete", i>> \notin notices
      PROVE  Born(i)' /\ (rows'[i] # None => Deleting(r, i)')
    <2>1. Commits(r) /\ ~Commit(r)
        BY <1>1, <1>3, Effects DEF Quiet, Commit, world
    <2>2. CASE Dispatch(r) /\ notify
        <3>1. i = job[r].id /\ Event(r) = "delete" /\ Apply(r) /\ stage[r] = "dispatch"
            BY <1>3, <2>2 DEF Dispatch
        <3>2. kind[r] = "delete"
            BY <3>1 DEF Event
        <3>3. i \in DOMAIN tx[r] /\ Born(i)
            BY <3>1, <3>2 DEF IInv, DueInv, BornInv
        <3>4. rows'[i] = tx[r][i]
            BY <1>1, <3>1, <3>3, RowsOfAt DEF Apply
        <3>5. tx[r][i] = None
            BY <3>2, <3>3 DEF IInv, TxInv, WrittenRow
        <3> QED BY <1>1, <3>3, <3>4, <3>5, BornStays
    <2>3. CASE BulkNotice(r) /\ notify
        <3>1. /\ i = job[r].id /\ stage[r] = "notice" /\ kind' = kind /\ job' = job
              /\ pend'[r] = {Delete(i)}
            BY <1>1, <1>3, <2>3 DEF BulkNotice, LInv, Indexed
        <3>2. Born(i) /\ kind[r] = "bulk"
            BY <1>1, <3>1 DEF IInv, BornInv, Local, Staged, Kinds, TypeOK
        <3>3. \E k \in DOMAIN job[r].ids : job[r].ids[k] = i
            BY <1>1, <3>1, <3>2, SelectionIs DEF Local, BulkForm, Passed
        <3>4. \E s \in pend'[r] : s.id = i
            BY <3>1 DEF Delete
        <3> QED BY <1>1, <3>1, <3>2, <3>3, <3>4, BornStays DEF Deleting
    <2> QED BY <2>1, <2>2, <2>3 DEF Commits
<1> QED BY <1>2, <1>3 DEF NoticeInv

\* The file of row i is missing, and w is to blame.
Blames(w, f) == dropped[w] = f /\ (stage[w] # "done" \/ result[w] # "ok")

LEMMA MissingNext ==
    ASSUME IInv, NEW r \in Requests, Step(r), LInv'
    PROVE  MissingFileNeedsFailure'
<1>1. LInv /\ TypeOK /\ HomeInv /\ DropInv /\ UploadInv /\ Local(r)
    BY DEF IInv, LInv
<1>2. SUFFICES ASSUME NEW i \in Ids, NEW f, rows'[i] # None, f = rows'[i].file,
                      f \notin files' \cup {None}
               PROVE  \E w \in Requests : Blames(w, f)'
    BY DEF MissingFileNeedsFailure, Blames
<1>3. CASE rows[i] # None /\ f = rows[i].file /\ f \notin files
    <2>1. PICK w \in Requests : Blames(w, f)
        BY <1>2, <1>3 DEF IInv, MissingFileNeedsFailure, Blames
    <2>2. CASE w # r
        BY <1>1, <2>1, <2>2, OthersStill DEF LInv, Still, Blames
    <2>3. CASE w = r
        <3>1. /\ dropped[r] = f /\ kind[r] \in {"edit", "put"}
              /\ stage[r] \notin {"idle", "open", "parse"}
              /\ (stage[r] # "done" \/ result[r] # "ok")
            BY <1>1, <1>2, <2>1, <2>3 DEF Blames, Local, Asked, Staged
        <3>2. ~Parse(r) /\ ~Asks(r)
            BY <3>1 DEF Parse, Asks
        <3>3. ~Commit(r)
            <4>1. SUFFICES ASSUME Commit(r) PROVE FALSE
                OBVIOUS
            <4>2. stage[r] = "commit" /\ rows' = RowsOf(r)
                BY <4>1 DEF Commit, Apply
            <4>3. Home(f, i) /\ Home(f, job[r].id)
                BY <1>1, <1>2, <1>3, <3>1 DEF HomeInv, DropInv
            <4>4. job[r].id = i
                BY <4>3, HomeIs
            <4>5. Replaced(r)
                BY <1>1, <1>2, <1>3, <3>1, <4>2, <4>4 DEF DropInv
            <4>6. rows'[i] = tx[r][i]
                BY <1>1, <4>2, <4>4, <4>5, RowsOfAt DEF Replaced
            <4> QED BY <1>2, <3>1, <4>4, <4>5, <4>6 DEF Replaced
        <3>4. dropped'[r] = dropped[r]
            <4>1. Fails(r) \/ Moves(r) \/ Imports(r) => dropped'[r] = dropped[r]
                BY DEF Fails, Moves, Imports
            <4>2. Flush(r) \/ BulkNext(r) \/ BulkNotice(r) \/ Dispatch(r) \/ Commit(r)
                  => dropped'[r] = dropped[r]
                BY DEF Flush, BulkNext, BulkNotice, Dispatch, Commit, history
            <4> QED BY <1>1, <3>2, <4>1, <4>2, StepIs
        <3>5. stage'[r] # "done" \/ result'[r] # "ok"
            <4>1. CASE Fails(r)
                BY <4>1 DEF Fails
            <4>2. CASE Moves(r) \/ Imports(r)
                BY <4>2 DEF Moves, Imports
            <4>3. CASE Flush(r) \/ BulkNext(r) \/ BulkNotice(r) \/ Dispatch(r)
                <5>1. stage'[r] # "done"
                    BY <1>1, <4>3, FlushIs DEF Flush, Flushes, LooksUp, AfterFlush, AfterSave,
                       BulkNext, BulkNotice, Dispatch, Goto, TypeOK
                <5> QED BY <5>1
            <4> QED BY <1>1, <3>2, <3>3, <4>1, <4>2, <4>3, StepIs
        <3> QED BY <3>1, <3>4, <3>5 DEF Blames
    <2> QED BY <2>2, <2>3
<1>4. CASE f \in files
    <2>1. Parse(r)
        BY <1>1, <1>2, <1>4, FilesStep
    <2>2. f = OldFile(r) /\ dropped'[r] = OldFile(r)
        BY <1>1, <1>2, <1>4, <2>1 DEF Parse, TypeOK
    <2>3. stage'[r] # "done" \/ result'[r] # "ok"
        BY <1>1, <2>1 DEF Parse, Goto, Tell, TypeOK
    <2> QED BY <2>2, <2>3 DEF Blames
<1>5. CASE ~(rows[i] # None /\ f = rows[i].file)
    <2>1. Commits(r) /\ i \in DOMAIN tx[r] /\ rows'[i] = tx[r][i] /\ WrittenRow(r, i)
        BY <1>2, <1>5, RowsStep
    <2>2. f = r /\ OwnFile(r, f)
        BY <1>2, <1>5, <2>1 DEF WrittenRow, Fits
    <2>3. kind[r] \in Writers /\ job[r].act = "replace" /\ kind[r] # "bulk"
        BY <1>2, <2>2 DEF OwnFile, Writers
    <2>4. stage[r] \in {"dispatch", "commit"} /\ files' = files
        BY <1>1, <2>1, <2>3, CommitsIs
    <2>5. tx[r] # <<>>
        BY <2>1, NothingWritten
    <2>6. r \in files
        BY <1>1, <2>3, <2>4, <2>5 DEF UploadInv, Published
    <2> QED BY <1>2, <2>2, <2>4, <2>6
<1> QED BY <1>3, <1>4, <1>5

-----------------------------------------------------------------------------
(***************************************************************************)
(* The invariant.                                                          *)
(***************************************************************************)
LEMMA InitLocal ==
    ASSUME Init, NEW r \in Requests
    PROVE  Local(r) /\ Typed(r) /\ Mine(r) = {} /\ ~Published(r) /\ dropped[r] = None
           /\ saved[r] = {} /\ tx[r] = <<>> /\ pend[r] = {} /\ kind[r] = "idle" /\ loaded[r] = None
           /\ stage[r] = "idle"
<1>1. /\ kind[r] = "idle" /\ stage[r] = "idle" /\ job[r] = NoJob /\ loaded[r] = None
      /\ pend[r] = {} /\ tx[r] = <<>> /\ kx[r] = <<>> /\ result[r] = "none"
      /\ dropped[r] = None /\ saved[r] = {}
    BY DEF Init
<1>2. Staged(r) /\ Asked(r) /\ job[r] \in Jobs
    BY <1>1, NoJobIs DEF Staged, Asked
<1>3. Holds(r) /\ Emits(r) /\ Replaces(r)
    BY <1>1, NothingWritten DEF Holds, Emits, Replaces
<1>4. BulkForm(r) /\ ImportForm(r)
    BY <1>1 DEF BulkForm, ImportForm
<1>5. Typed(r) /\ Mine(r) = {} /\ ~Published(r)
    BY <1>1, NothingWritten, NoJobIs DEF Typed, Mine, Published
<1> QED BY <1>1, <1>2, <1>3, <1>4, <1>5 DEF Local

LEMMA IInvInit == Init => IInv
<1> SUFFICES ASSUME Init PROVE IInv
    OBVIOUS
<1>1. PICK k1 \in Keys, k2 \in Keys, n \in Notes :
          rows = [i \in Ids |->
                    CASE i = 1 -> [key |-> k1, note |-> n, file |-> "old"]
                      [] i = 2 -> [key |-> k2, note |-> n, file |-> None]
                      [] OTHER -> None]
    BY DEF Init
<1>2. /\ 1 \in Ids /\ 2 \in Ids
      /\ rows[1] = [key |-> k1, note |-> n, file |-> "old"]
      /\ rows[2] = [key |-> k2, note |-> n, file |-> None]
      /\ \A i \in Ids \ {1, 2} : rows[i] = None
    BY <1>1, IdAssumption DEF Ids
<1>3. rows \in [Ids -> Row \cup {None}]
    <2>1. \A i \in Ids : rows[i] \in Row \cup {None}
        BY <1>2 DEF Row, Files
    <2> QED BY <1>1, <2>1
<1>4. kids \in [Kids -> Ids \cup {None}]
    BY <1>2 DEF Init
<1>5. Stored
    BY <1>3, <1>4 DEF Init, Stored
<1>6. Flat
    BY DEF Init, Flat, Kinds, Stages, Results, Files
<1>7. \A r \in Requests : Local(r) /\ Typed(r)
    BY InitLocal
<1>8. LInv
    BY <1>5, <1>6, <1>7, TypeParts DEF LInv, Init
<1>9. OwnInv /\ LockInv /\ TxInv
    BY InitLocal, NothingWritten DEF OwnInv, LockInv, TxInv
<1>10. BornInv
    <2>1. \A i \in Ids : rows[i] # None => Born(i)
        BY <1>2 DEF Born
    <2>2. \A i \in Ids : Born(i) => i < nextId
        BY InitLocal DEF Born, Init
    <2> QED BY <2>1, <2>2, InitLocal DEF BornInv
<1>11. UploadInv /\ DropInv /\ DueInv
    BY InitLocal DEF UploadInv, DropInv, DueInv
<1>12. HomeInv
    BY <1>2, InitLocal DEF HomeInv, Home
<1>13. NoticeInv
    BY DEF NoticeInv, Init
<1>14. MissingFileNeedsFailure
    BY <1>2 DEF MissingFileNeedsFailure, Init
<1> QED BY <1>8, <1>9, <1>10, <1>11, <1>12, <1>13, <1>14 DEF IInv

LEMMA IInvNext == IInv /\ [Next]_vars => IInv'
<1>1. ASSUME IInv, NEW r \in Requests, Step(r) PROVE IInv'
    <2>1. LInv' /\ OwnInv'
        BY <1>1, LInvNext, OwnNext DEF IInv
    <2>2. BornInv' /\ LockInv' /\ TxInv'
        BY <1>1, <2>1, BornNext, LockNext, TxNext
    <2>3. UploadInv' /\ HomeInv' /\ DropInv'
        BY <1>1, <2>1, UploadNext, HomeNext, DropNext
    <2>4. NoticeInv' /\ DueInv' /\ MissingFileNeedsFailure'
        BY <1>1, <2>1, NoticeNext, DueNext, MissingNext
    <2> QED BY <2>1, <2>2, <2>3, <2>4 DEF IInv
<1>2. ASSUME IInv, UNCHANGED vars PROVE IInv'
    <2>1. /\ rows' = rows /\ kids' = kids /\ nextId' = nextId /\ files' = files
          /\ notices' = notices /\ notify' = notify /\ kind' = kind /\ stage' = stage
          /\ job' = job /\ loaded' = loaded /\ pend' = pend /\ tx' = tx /\ kx' = kx
          /\ result' = result /\ opened' = opened /\ dropped' = dropped /\ saved' = saved
        BY <1>2 DEF vars, db, world, session, history
    <2>2. LInv'
        <3>1. \A r \in Requests : Local(r)'
            BY <1>2, <2>1, StillLocal DEF Still, IInv, LInv
        <3>2. TypeOK' /\ Indexed'
            BY <1>2, <2>1 DEF IInv, LInv, TypeOK, Indexed
        <3> QED BY <3>1, <3>2 DEF LInv
    <2>3. OwnInv' /\ BornInv' /\ LockInv'
        BY <1>2, <2>1 DEF IInv, OwnInv, BornInv, LockInv, Born, Mine
    <2>4. TxInv'
        BY <1>2, <2>1 DEF IInv, TxInv, WrittenRow, Fits, OwnFile, Born, Mine
    <2>5. UploadInv' /\ HomeInv' /\ DropInv'
        BY <1>2, <2>1 DEF IInv, UploadInv, HomeInv, DropInv, Home, Published, Replaced
    <2>6. NoticeInv' /\ DueInv' /\ MissingFileNeedsFailure'
        BY <1>2, <2>1 DEF IInv, NoticeInv, DueInv, MissingFileNeedsFailure, Deleting, Born
    <2> QED BY <2>2, <2>3, <2>4, <2>5, <2>6 DEF IInv
<1> QED BY <1>1, <1>2 DEF Next, Step

-----------------------------------------------------------------------------
(***************************************************************************)
(* The theorems.                                                           *)
(***************************************************************************)

\* Every reachable state satisfies the invariant: what each request holds back
\* at its stage, whose the rows and files are, and how far a written row is from
\* the committed one.
THEOREM RecordsInvariance == Spec => []IInv
BY IInvInit, IInvNext, PTL DEF Spec

\* file_handler.py deletes the old file of a row long before the commit; a row
\* whose file is gone has a request to blame that is still running, or failed.
THEOREM FilesFollow == Spec => []FilesFollowRows
<1>1. IInv => FilesFollowRows
    BY DEF IInv, LInv, FilesFollowRows
<1> QED BY <1>1, RecordsInvariance, PTL

LEMMA FailureSuffices == IInv => FailureLeavesNothing
<1>1. SUFFICES ASSUME IInv, NEW r \in Requests, result[r] \notin {"none", "ok"}, saved[r] # {}
               PROVE  /\ kind[r] = "bulk" /\ notify
                      /\ \E n \in 0 .. Len(job[r].ids) - 1 :
                             saved[r] \subseteq {job[r].ids[k] : k \in 1 .. n}
    BY DEF FailureLeavesNothing
<1>2. LInv /\ Local(r)
    BY <1>1 DEF IInv, LInv
<1>3. kind[r] = "bulk"
    BY <1>1, <1>2 DEF Local, Holds
<1>4. notify /\ saved[r] \subseteq Settled(r) /\ job[r].pos <= Len(job[r].ids) + 1
    BY <1>1, <1>2, <1>3 DEF Local, BulkForm
<1>5. job[r].pos \in Nat \ {0} /\ Len(job[r].ids) \in Nat
    BY <1>2, <1>3, SelectionIs
<1> DEFINE n == Len(job[r].ids) - 1
<1>6. \A k \in 1 .. Len(job[r].ids) : k + 1 < job[r].pos => k \in 1 .. n
    BY <1>4, <1>5
<1>7. Settled(r) \subseteq {job[r].ids[k] : k \in 1 .. n}
    BY <1>6 DEF Settled
<1>8. n \in 0 .. Len(job[r].ids) - 1
    <2>1. \E k \in 1 .. Len(job[r].ids) : TRUE
        BY <1>1, <1>4 DEF Settled
    <2> QED BY <1>5, <2>1
<1> QED BY <1>3, <1>4, <1>7, <1>8

LEMMA NoticesSuffice == IInv => DeletionNoticesAreTrue
<1>1. SUFFICES ASSUME IInv, NEW i \in Ids, <<"delete", i>> \in notices, rows[i] # None
               PROVE  \E r \in Requests : /\ kind[r] = "bulk"
                                          /\ \E k \in DOMAIN job[r].ids : job[r].ids[k] = i
                                          /\ result[r] # "ok"
    BY DEF DeletionNoticesAreTrue
<1>2. PICK r \in Requests : Deleting(r, i)
    BY <1>1 DEF IInv, NoticeInv
<1>3. stage[r] # "done" => result[r] = "none"
    BY <1>1 DEF IInv, LInv, Local, Staged
<1>4. stage[r] = "done" => pend[r] = {} /\ tx[r] = <<>>
    BY <1>1 DEF IInv, LInv, TypeOK
<1>5. result[r] # "ok"
    BY <1>2, <1>3, <1>4, NothingWritten DEF Deleting
<1> QED BY <1>2, <1>5 DEF Deleting

\* What a client or a recipient is told is what the database holds: the rollback
\* of get_db leaves nothing of a failed request, but for what the notifications
\* of a bulk action have committed; a notice of a deletion is followed by it; and
\* import_data counts no row that is lost.
THEOREM AnswersTrue == Spec => []AnswersAreTrue
<1>1. IInv => ImportCountsAreTrue
    BY DEF IInv, LInv, Local, ImportForm, ImportCountsAreTrue
<1>2. IInv => AnswersAreTrue
    BY <1>1, FailureSuffices, NoticesSuffice DEF AnswersAreTrue
<1> QED BY <1>2, RecordsInvariance, PTL

\* model_saver.py writes the columns that differ from the row its session read:
\* a commit puts a column back that its user had not edited only if the form was
\* stale when it was submitted.
THEOREM StaleForms == Spec => RevertsNeedStaleForms
<1> DEFINE Reverts ==
        \A r \in Requests, i \in Ids, c \in {"key", "note"} :
          /\ kind[r] = "edit" /\ i = job[r].id /\ opened[r] # None
          /\ tx[r] # <<>> /\ saved'[r] # saved[r]
          /\ rows[i] # None /\ rows'[i] # None
          /\ rows'[i][c] # rows[i][c]
          /\ job[r].post[c] = opened[r][c]
          => loaded[r][c] # opened[r][c]
<1>1. ASSUME IInv, NEW q \in Requests, Step(q) PROVE Reverts
    <2>1. SUFFICES ASSUME NEW r \in Requests, NEW i \in Ids, NEW c \in {"key", "note"},
                          kind[r] = "edit", saved'[r] # saved[r], rows[i] # None,
                          rows'[i] # None, rows'[i][c] # rows[i][c],
                          job[r].post[c] = opened[r][c]
                   PROVE  loaded[r][c] # opened[r][c]
        OBVIOUS
    <2>2. q = r
        BY <1>1, <2>1, OthersStill DEF IInv, LInv, Still
    <2>3. rows'[i] = tx[r][i] /\ WrittenRow(r, i)
        BY <1>1, <2>1, <2>2, RowsStep
    <2>4. job[r].post[c] # loaded[r][c]
        BY <2>1, <2>3 DEF WrittenRow, Fits
    <2> QED BY <2>1, <2>4
<1>2. IInv /\ [Next]_vars => [Reverts]_vars
    BY <1>1 DEF Next, Step
<1> QED BY <1>2, RecordsInvariance, PTL DEF Spec, RevertsNeedStaleForms
=============================================================================
