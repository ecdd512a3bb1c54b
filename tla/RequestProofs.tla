---------------------------- MODULE RequestProofs ----------------------------
(***************************************************************************)
(* Theorems about the unit of work of a request (RequestAudit): type       *)
(* correctness, the two directions of the tie between committed changes    *)
(* and committed audit rows, one row per change, and whose row it is.      *)
(* And about the list of a model that requests read page by page and sort  *)
(* (Changelist): what a walk through it shows and misses, and where a sort *)
(* leaves the rows.                                                        *)
(***************************************************************************)
EXTENDS RequestAudit, Changelist, FiniteSetTheorems, SequenceTheorems, TLAPS

\* A row built for a change is a row.
LEMMA RowForType ==
    ASSUME TypeOK, NEW c \in Changes
    PROVE  RowFor(c) \in Rows /\ RowFor(c).change = c
BY DEF TypeOK, RowFor, Rows

\* The change a handler makes is a change.
LEMMA NewChangeType ==
    ASSUME TypeOK, NEW r \in Requests, NEW op \in Ops
    PROVE  [req |-> r, n |-> step[r] + 1, op |-> op] \in Changes
BY DEF TypeOK, Changes

LEMMA TypeInit == Init => TypeOK
BY DEF Init, TypeOK, Places

\* The part of TypeOK about the session a request changes.
LEMMA TypeChange ==
    ASSUME TypeOK, NEW r \in Requests, NEW op \in Ops, Change(r, op)
    PROVE  /\ step' \in [Requests -> Nat]
           /\ mem' \in [Requests -> SUBSET Changes]
BY NewChangeType DEF TypeOK, Change

LEMMA TypeLifecycle ==
    ASSUME TypeOK, NEW r \in Requests, Lifecycle(r)
    PROVE  TypeOK'
<1>1. CASE Arrive(r)
  BY <1>1 DEF TypeOK, Arrive, ContextOnArrival, Places, InService, sessionVars, dbVars
<1>2. CASE OpenSession(r)
  BY <1>2 DEF TypeOK, OpenSession, Places, sessionVars, dbVars
<1>3. CASE Authenticate(r)
  BY <1>3 DEF TypeOK, Authenticate, ContextOnAuth, Places, sessionVars, dbVars
<1>4. CASE Refuse(r)
  BY <1>4 DEF TypeOK, Refuse, Places, sessionVars, dbVars
<1>5. CASE Respond(r)
  BY <1>5 DEF TypeOK, Respond, ContextOnClear, AwaitCommit, Places, sessionVars, dbVars
<1>6. CASE Close(r)
  BY <1>6 DEF TypeOK, Close, Places, sessionVars, dbVars
<1>7. CASE Abort(r)
  BY <1>7 DEF TypeOK, Abort, RolledBack, Places, dbVars
<1>8. CASE RespondBroken(r)
  BY <1>8 DEF TypeOK, RespondBroken, ContextOnClear, Places, sessionVars, dbVars
<1>9. QED
  BY <1>1, <1>2, <1>3, <1>4, <1>5, <1>6, <1>7, <1>8 DEF Lifecycle

LEMMA TypeHandler ==
    ASSUME TypeOK, NEW r \in Requests, Handler(r)
    PROVE  TypeOK'
<1>1. CASE SaveObject(r)
  <2>1. PICK op \in Ops : Change(r, op)
    BY <1>1 DEF SaveObject
  <2>2. QED
    BY <1>1, <2>1, TypeChange DEF TypeOK, SaveObject, Change, AwaitFlush, Places, dbVars
<1>2. CASE SaveInline(r)
  <2>1. CASE \E op \in Ops : Change(r, op)
    <3>1. PICK op \in Ops : Change(r, op)
      BY <2>1
    <3>2. call' \in [Requests -> {"run", "flush", "commit"}]
      BY <1>2 DEF TypeOK, SaveInline, AwaitFlush
    <3>3. QED
      BY <1>2, <3>1, <3>2, TypeChange DEF TypeOK, SaveInline, Change, Places, dbVars
  <2>2. CASE UNCHANGED <<step, sessionVars, call>>
    BY <1>2, <2>2 DEF TypeOK, SaveInline, Places, sessionVars, dbVars
  <2>3. QED
    BY <1>2, <2>1, <2>2 DEF SaveInline
<1>3. CASE NotifyRecipient(r)
  BY <1>3 DEF TypeOK, NotifyRecipient, AwaitCommit, sessionVars, dbVars
<1>4. CASE EndDispatch(r)
  BY <1>4 DEF TypeOK, EndDispatch, Places, sessionVars, dbVars
<1>5. CASE HandlerRaises(r)
  BY <1>5 DEF TypeOK, HandlerRaises, Places, sessionVars, dbVars
<1>6. CASE PermOps(r)
  <2>1. CASE \E op \in {"create", "unaudited"} : Change(r, op)
    <3>1. PICK op \in Ops : Change(r, op)
      BY <2>1 DEF Ops
    <3>2. QED
      BY <1>6, <3>1, TypeChange DEF TypeOK, PermOps, Change, Places, dbVars
  <2>2. CASE UNCHANGED <<step, sessionVars>>
    BY <1>6, <2>2 DEF TypeOK, PermOps, Places, sessionVars, dbVars
  <2>3. QED
    BY <1>6, <2>1, <2>2 DEF PermOps
<1>7. CASE BulkDelete(r)
  <2>1. Change(r, "delete") /\ "delete" \in Ops
    BY <1>7 DEF BulkDelete, Ops
  <2>2. QED
    BY <1>7, <2>1, TypeChange DEF TypeOK, BulkDelete, Change, Places, dbVars
<1>8. CASE BulkFlush(r)
  BY <1>8 DEF TypeOK, BulkFlush, AwaitFlush, Places, sessionVars, dbVars
<1>9. CASE ImportRow(r)
  <2>1. PICK op \in Ops : Change(r, op)
    BY <1>9 DEF ImportRow, Ops
  <2>2. QED
    BY <1>9, <2>1, TypeChange DEF TypeOK, ImportRow, Change, dbVars
<1>10. CASE Query(r)
  BY <1>10 DEF TypeOK, Query, AwaitFlush, sessionVars, dbVars
<1>11. CASE ImportFlush(r)
  BY <1>11 DEF TypeOK, ImportFlush, AwaitFlush, Places, sessionVars, dbVars
<1>12. CASE ImportLog(r)
  <2>1. mem' \in [Requests -> SUBSET Changes]
    BY <1>12, NewChangeType DEF TypeOK, ImportLog, Ops
  <2>2. QED
    BY <1>12, <2>1 DEF TypeOK, ImportLog, AwaitFlush, Places, dbVars
<1>13. CASE HookRefuses(r)
  BY <1>13 DEF TypeOK, HookRefuses, RolledBack, Places, sessionVars, dbVars
<1>14. QED
  BY <1>1, <1>2, <1>3, <1>4, <1>5, <1>6, <1>7, <1>8, <1>9, <1>10, <1>11, <1>12, <1>13
     DEF Handler

LEMMA TypeUnitOfWork ==
    ASSUME TypeOK, NEW r \in Requests, UnitOfWork(r), busy[r] => addr[r] # None
    PROVE  TypeOK'
<1>1. CASE BeginFlush(r)
  <2>1. DirtyRows(r) \subseteq Rows
    BY RowForType DEF TypeOK, DirtyRows
  <2>2. rowsMem' \in [Requests -> SUBSET Rows]
    BY <1>1, <2>1 DEF TypeOK, BeginFlush
  <2>3. pending' \in [Addresses -> SUBSET Changes]
    BY <1>1 DEF TypeOK, BeginFlush, Capture, NewItems
  <2>4. QED
    BY <1>1, <2>2, <2>3 DEF TypeOK, BeginFlush, dbVars
<1>2. CASE EndFlush(r)
  <2>1. addr[r] \in Addresses
    BY <1>2 DEF TypeOK, EndFlush
  <2>2. CreateRows(r) \subseteq Rows
    BY <2>1, RowForType DEF TypeOK, CreateRows
  <2>3. pending' \in [Addresses -> SUBSET Changes]
    BY <1>2 DEF TypeOK, EndFlush, PopPending
  <2>4. QED
    BY <1>2, <2>2, <2>3 DEF TypeOK, EndFlush, dbVars
<1>3. CASE SkipFlush(r)
  BY <1>3 DEF TypeOK, SkipFlush, sessionVars, dbVars
<1>4. CASE FailFlush(r)
  BY <1>4 DEF TypeOK, FailFlush, RolledBack, AfterFailure, Places, dbVars
<1>5. CASE Commit(r)
  BY <1>5 DEF TypeOK, Commit
<1>6. CASE FailCommit(r)
  BY <1>6 DEF TypeOK, FailCommit, RolledBack, AfterFailure, Places, dbVars
<1>7. QED
  BY <1>1, <1>2, <1>3, <1>4, <1>5, <1>6 DEF UnitOfWork

-----------------------------------------------------------------------------
(***************************************************************************)
(* Control: sessions are open when they are used.                          *)
(***************************************************************************)

LEMMA ControlInit == Init => ControlInv /\ AddressInv
BY NoneAssumption DEF Init, ControlInv, AddressInv

LEMMA ControlLifecycle ==
    ASSUME TypeOK, ControlInv, NEW r \in Requests, Lifecycle(r)
    PROVE  ControlInv'
<1>1. CASE Arrive(r)
  BY <1>1 DEF TypeOK, ControlInv, Arrive
<1>2. CASE OpenSession(r)
  BY <1>2, NoneAssumption DEF TypeOK, ControlInv, OpenSession
<1>3. CASE Authenticate(r)
  BY <1>3 DEF TypeOK, ControlInv, Authenticate
<1>4. CASE Refuse(r)
  BY <1>4 DEF TypeOK, ControlInv, Refuse
<1>5. CASE Respond(r)
  BY <1>5 DEF TypeOK, ControlInv, Respond, AwaitCommit
<1>6. CASE Close(r)
  BY <1>6 DEF TypeOK, ControlInv, Close
<1>7. CASE Abort(r)
  BY <1>7 DEF TypeOK, ControlInv, Abort
<1>8. CASE RespondBroken(r)
  BY <1>8 DEF TypeOK, ControlInv, RespondBroken
<1>9. QED
  BY <1>1, <1>2, <1>3, <1>4, <1>5, <1>6, <1>7, <1>8 DEF Lifecycle

LEMMA ControlHandler ==
    ASSUME TypeOK, ControlInv, NEW r \in Requests, Handler(r)
    PROVE  ControlInv'
<1>1. CASE SaveObject(r)
  BY <1>1 DEF TypeOK, ControlInv, SaveObject, AwaitFlush
<1>2. CASE SaveInline(r)
  BY <1>2 DEF TypeOK, ControlInv, SaveInline, AwaitFlush
<1>3. CASE NotifyRecipient(r)
  BY <1>3 DEF TypeOK, ControlInv, NotifyRecipient, AwaitCommit
<1>4. CASE EndDispatch(r)
  BY <1>4 DEF TypeOK, ControlInv, EndDispatch
<1>5. CASE HandlerRaises(r)
  BY <1>5 DEF TypeOK, ControlInv, HandlerRaises
<1>6. CASE PermOps(r)
  BY <1>6 DEF TypeOK, ControlInv, PermOps
<1>7. CASE BulkDelete(r)
  BY <1>7 DEF TypeOK, ControlInv, BulkDelete
<1>8. CASE BulkFlush(r)
  BY <1>8 DEF TypeOK, ControlInv, BulkFlush, AwaitFlush
<1>9. CASE ImportRow(r)
  BY <1>9 DEF TypeOK, ControlInv, ImportRow
<1>10. CASE Query(r)
  BY <1>10 DEF TypeOK, ControlInv, Query, AwaitFlush
<1>11. CASE ImportFlush(r)
  BY <1>11 DEF TypeOK, ControlInv, ImportFlush, AwaitFlush
<1>12. CASE ImportLog(r)
  BY <1>12 DEF TypeOK, ControlInv, ImportLog, AwaitFlush
<1>13. CASE HookRefuses(r)
  BY <1>13 DEF TypeOK, ControlInv, HookRefuses
<1>14. QED
  BY <1>1, <1>2, <1>3, <1>4, <1>5, <1>6, <1>7, <1>8, <1>9, <1>10, <1>11, <1>12, <1>13
     DEF Handler

LEMMA ControlUnitOfWork ==
    ASSUME TypeOK, ControlInv, NEW r \in Requests, UnitOfWork(r)
    PROVE  ControlInv'
<1>1. CASE BeginFlush(r)
  BY <1>1 DEF TypeOK, ControlInv, BeginFlush
<1>2. CASE EndFlush(r)
  BY <1>2 DEF TypeOK, ControlInv, EndFlush
<1>3. CASE SkipFlush(r)
  BY <1>3 DEF TypeOK, ControlInv, SkipFlush
<1>4. CASE FailFlush(r)
  BY <1>4 DEF TypeOK, ControlInv, FailFlush, AfterFailure, Recovers, Swallows, Raises
<1>5. CASE Commit(r)
  BY <1>5 DEF TypeOK, ControlInv, Commit
<1>6. CASE FailCommit(r)
  BY <1>6 DEF TypeOK, ControlInv, FailCommit, AfterFailure, Recovers, Swallows, Raises
<1>7. QED
  BY <1>1, <1>2, <1>3, <1>4, <1>5, <1>6 DEF UnitOfWork

\* Only opening, closing and aborting touch the addresses.
LEMMA AddressStep ==
    ASSUME TypeOK, AddressInv, NEW r \in Requests,
           Lifecycle(r) \/ Handler(r) \/ UnitOfWork(r)
    PROVE  AddressInv'
<1>1. CASE OpenSession(r)
  BY <1>1 DEF TypeOK, AddressInv, OpenSession
<1>2. CASE Close(r)
  BY <1>2 DEF TypeOK, AddressInv, Close
<1>3. CASE Abort(r)
  BY <1>3 DEF TypeOK, AddressInv, Abort
<1>4. CASE UNCHANGED addr
  BY <1>4 DEF AddressInv
<1>5. UNCHANGED addr \/ OpenSession(r) \/ Close(r) \/ Abort(r)
  <2>1. CASE Lifecycle(r)
    BY <2>1 DEF Lifecycle, Arrive, Authenticate, Refuse, Respond, RespondBroken
  <2>2. CASE Handler(r)
    BY <2>2 DEF Handler, SaveObject, SaveInline, NotifyRecipient, EndDispatch,
       HandlerRaises, HookRefuses, PermOps, BulkDelete, BulkFlush, ImportRow, Query,
       ImportFlush, ImportLog
  <2>3. CASE UnitOfWork(r)
    BY <2>3 DEF UnitOfWork, BeginFlush, EndFlush, SkipFlush, FailFlush, Commit, FailCommit
  <2>4. QED
    BY <2>1, <2>2, <2>3
<1>6. QED
  BY <1>1, <1>2, <1>3, <1>4, <1>5

-----------------------------------------------------------------------------
(***************************************************************************)
(* The tie between changes and rows.  Most steps leave both alone; a       *)
(* handler adds a change to an idle session; the unit of work moves them.  *)
(***************************************************************************)

AuditInv ==
    FlushInv /\ TxInv /\ DirtyInv /\ CommittedIsAudited /\ DirtyRowsAreReal

LEMMA AuditInit == Init => AuditInv
BY DEF Init, AuditInv, FlushInv, TxInv, DirtyInv, CommittedIsAudited, DirtyRowsAreReal

\* A step that leaves the sessions, the database, the flushes and the
\* address of every flushing session alone.
LEMMA AuditQuiet ==
    ASSUME AuditInv, UNCHANGED <<sessionVars, dbVars, busy>>,
           \A q \in Requests : busy[q] => addr'[q] = addr[q]
    PROVE  AuditInv'
BY DEF AuditInv, FlushInv, TxInv, DirtyInv, CommittedIsAudited, DirtyRowsAreReal,
   sessionVars, dbVars

\* A handler adds to session.new, session.dirty or session.deleted of a
\* session that is not flushing.
LEMMA AuditChange ==
    ASSUME TypeOK, AuditInv, NEW r \in Requests, ~busy[r], NEW c,
           mem' = [mem EXCEPT ![r] = @ \cup {c}],
           UNCHANGED <<rowsMem, tx, rowsTx, pending, dbVars, busy, addr>>
    PROVE  AuditInv'
<1>1. FlushInv'
  BY DEF TypeOK, AuditInv, FlushInv
<1>2. TxInv'
  BY DEF TypeOK, AuditInv, TxInv
<1>3. DirtyInv'
  BY DEF TypeOK, AuditInv, DirtyInv
<1>4. CommittedIsAudited' /\ DirtyRowsAreReal'
  BY DEF AuditInv, CommittedIsAudited, DirtyRowsAreReal, dbVars
<1>5. QED
  BY <1>1, <1>2, <1>3, <1>4 DEF AuditInv

\* A rollback empties one session and touches no other.
LEMMA AuditRollback ==
    ASSUME TypeOK, AuditInv, NEW r \in Requests, RolledBack(r), UNCHANGED dbVars,
           \A q \in Requests \ {r} : busy'[q] = busy[q] /\ addr'[q] = addr[q]
    PROVE  AuditInv'
<1>1. FlushInv'
  BY DEF TypeOK, AuditInv, FlushInv, RolledBack
<1>2. TxInv'
  BY DEF TypeOK, AuditInv, TxInv, RolledBack
<1>3. DirtyInv'
  BY DEF TypeOK, AuditInv, DirtyInv, RolledBack
<1>4. CommittedIsAudited' /\ DirtyRowsAreReal'
  BY DEF AuditInv, CommittedIsAudited, DirtyRowsAreReal, dbVars
<1>5. QED
  BY <1>1, <1>2, <1>3, <1>4 DEF AuditInv

LEMMA AuditBeginFlush ==
    ASSUME TypeOK, ControlInv, AddressInv, AuditInv, NEW r \in Requests, BeginFlush(r)
    PROVE  AuditInv'
<1>1. addr[r] \in Addresses
  BY DEF TypeOK, ControlInv, BeginFlush
<1>2. \A q \in Requests \ {r} : busy[q] => addr[q] # addr[r]
  BY <1>1, NoneAssumption DEF TypeOK, AddressInv
<1>3. \A q \in Requests \ {r} : busy[q] => pending'[addr[q]] = pending[addr[q]]
  BY <1>1, <1>2 DEF TypeOK, BeginFlush, Capture
<1>4. \A c \in NewItems(r) : c \in pending'[addr[r]]
  BY <1>1 DEF TypeOK, BeginFlush, Capture
<1>5. \A c \in mem[r] : c.op \in {"update", "delete"} =>
        \E row \in DirtyRows(r) : row.change = c
  <2>1. SUFFICES ASSUME NEW c \in mem[r], c.op \in {"update", "delete"}
                 PROVE  RowFor(c) \in DirtyRows(r) /\ RowFor(c).change = c
    OBVIOUS
  <2>2. QED
    BY <2>1, RowForType DEF TypeOK, DirtyRows
<1>6. \A row \in DirtyRows(r) : row.change \in mem[r]
  BY RowForType DEF TypeOK, DirtyRows
<1>7. FlushInv'
  <2>1. SUFFICES ASSUME NEW q \in Requests, busy'[q], NEW c \in mem[q]
                 PROVE  /\ c.op = "create" => c \in pending'[addr[q]]
                        /\ c.op \in {"update", "delete"} =>
                             \E row \in rowsMem'[q] : row.change = c
    BY DEF FlushInv, BeginFlush
  <2>2. CASE q = r
    BY <2>1, <2>2, <1>4, <1>5 DEF TypeOK, BeginFlush, NewItems
  <2>3. CASE q # r
    BY <2>1, <2>3, <1>3 DEF TypeOK, AuditInv, FlushInv, BeginFlush
  <2>4. QED
    BY <2>2, <2>3
<1>8. TxInv'
  BY DEF TypeOK, AuditInv, TxInv, BeginFlush
<1>9. DirtyInv'
  <2>1. \A a \in Addresses : \A c \in pending'[a] : c.op = "create"
    BY <1>1 DEF TypeOK, AuditInv, DirtyInv, BeginFlush, Capture, NewItems
  <2>2. \A q \in Requests : \A row \in rowsMem'[q] :
          row.change.op \in {"update", "delete"} => busy'[q] /\ row.change \in mem'[q]
    BY <1>6 DEF TypeOK, AuditInv, DirtyInv, BeginFlush
  <2>3. QED
    BY <2>1, <2>2 DEF AuditInv, DirtyInv, BeginFlush
<1>10. CommittedIsAudited' /\ DirtyRowsAreReal'
  BY DEF AuditInv, CommittedIsAudited, DirtyRowsAreReal, BeginFlush, dbVars
<1>11. QED
  BY <1>7, <1>8, <1>9, <1>10 DEF AuditInv

LEMMA AuditEndFlush ==
    ASSUME TypeOK, ControlInv, AddressInv, AuditInv, NEW r \in Requests, EndFlush(r)
    PROVE  AuditInv'
<1>1. addr[r] \in Addresses
  BY DEF TypeOK, ControlInv, EndFlush
<1>2. \A q \in Requests \ {r} : busy[q] => addr[q] # addr[r]
  BY <1>1, NoneAssumption DEF TypeOK, AddressInv
<1>3. \A q \in Requests \ {r} : busy[q] => pending'[addr[q]] = pending[addr[q]]
  BY <1>1, <1>2 DEF TypeOK, EndFlush, PopPending
<1>4. \A c \in pending[addr[r]] : \E row \in CreateRows(r) : row.change = c
  <2>1. SUFFICES ASSUME NEW c \in pending[addr[r]]
                 PROVE  RowFor(c) \in CreateRows(r) /\ RowFor(c).change = c
    OBVIOUS
  <2>2. QED
    BY <2>1, <1>1, RowForType DEF TypeOK, CreateRows
<1>5. \A row \in CreateRows(r) : row.change \in pending[addr[r]]
  BY <1>1, RowForType DEF TypeOK, CreateRows
<1>6. FlushInv'
  BY <1>3 DEF TypeOK, AuditInv, FlushInv, EndFlush
<1>7. TxInv'
  <2>1. SUFFICES ASSUME NEW q \in Requests, NEW c \in tx'[q], c.op # "unaudited"
                 PROVE  \E row \in rowsTx'[q] \cup rowsMem'[q] : row.change = c
    BY DEF TxInv
  <2>2. CASE q # r
    BY <2>1, <2>2 DEF TypeOK, AuditInv, TxInv, EndFlush
  <2>3. CASE q = r /\ c \in tx[r]
    BY <2>1, <2>3 DEF TypeOK, AuditInv, TxInv, EndFlush
  <2>4. CASE q = r /\ c \in mem[r]
    <3>1. c.op \in Ops
      BY <2>4 DEF TypeOK, Changes
    <3>2. CASE c.op = "create"
      BY <2>4, <3>2, <1>4 DEF TypeOK, AuditInv, FlushInv, EndFlush
    <3>3. CASE c.op \in {"update", "delete"}
      BY <2>4, <3>3 DEF TypeOK, AuditInv, FlushInv, EndFlush
    <3>4. QED
      BY <2>1, <3>1, <3>2, <3>3 DEF Ops
  <2>5. QED
    BY <2>1, <2>2, <2>3, <2>4 DEF TypeOK, EndFlush
<1>8. DirtyInv'
  <2>1. \A a \in Addresses : \A c \in pending'[a] : c.op = "create"
    BY DEF TypeOK, AuditInv, DirtyInv, EndFlush, PopPending
  <2>2. \A row \in CreateRows(r) : row.change.op = "create"
    BY <1>1, <1>5 DEF AuditInv, DirtyInv
  <2>3. \A q \in Requests : \A row \in rowsMem'[q] :
          row.change.op \in {"update", "delete"} => busy'[q] /\ row.change \in mem'[q]
    BY <2>2 DEF TypeOK, AuditInv, DirtyInv, EndFlush
  <2>4. \A q \in Requests : \A row \in rowsTx'[q] :
          row.change.op \in {"update", "delete"} => row.change \in tx'[q]
    BY DEF TypeOK, AuditInv, DirtyInv, EndFlush
  <2>5. QED
    BY <2>1, <2>3, <2>4 DEF DirtyInv
<1>9. CommittedIsAudited' /\ DirtyRowsAreReal'
  BY DEF AuditInv, CommittedIsAudited, DirtyRowsAreReal, EndFlush, dbVars
<1>10. QED
  BY <1>6, <1>7, <1>8, <1>9 DEF AuditInv

LEMMA AuditCommit ==
    ASSUME TypeOK, AuditInv, NEW r \in Requests, Commit(r)
    PROVE  AuditInv'
<1>1. rowsMem[r] = {}
  BY DEF Commit, Clean
<1>2. FlushInv'
  BY DEF TypeOK, AuditInv, FlushInv, Commit
<1>3. TxInv'
  BY DEF TypeOK, AuditInv, TxInv, Commit
<1>4. DirtyInv'
  BY DEF TypeOK, AuditInv, DirtyInv, Commit
<1>5. CommittedIsAudited'
  BY <1>1 DEF TypeOK, AuditInv, TxInv, CommittedIsAudited, Commit
<1>6. DirtyRowsAreReal'
  BY DEF TypeOK, AuditInv, DirtyInv, DirtyRowsAreReal, Commit
<1>7. QED
  BY <1>2, <1>3, <1>4, <1>5, <1>6 DEF AuditInv

LEMMA AuditUnitOfWork ==
    ASSUME TypeOK, ControlInv, AddressInv, AuditInv, NEW r \in Requests, UnitOfWork(r)
    PROVE  AuditInv'
<1>1. CASE SkipFlush(r)
  BY <1>1, AuditQuiet DEF SkipFlush
<1>2. CASE FailFlush(r)
  BY <1>2, AuditRollback DEF TypeOK, FailFlush
<1>3. CASE FailCommit(r)
  BY <1>3, AuditRollback DEF FailCommit
<1>4. QED
  BY <1>1, <1>2, <1>3, AuditBeginFlush, AuditEndFlush, AuditCommit DEF UnitOfWork

LEMMA AuditLifecycle ==
    ASSUME TypeOK, ControlInv, AuditInv, NEW r \in Requests, Lifecycle(r)
    PROVE  AuditInv'
<1>1. CASE Arrive(r) \/ Authenticate(r) \/ Refuse(r) \/ Respond(r) \/ RespondBroken(r)
  BY <1>1, AuditQuiet DEF Arrive, Authenticate, Refuse, Respond, RespondBroken
<1>2. CASE OpenSession(r)
  <2>1. ~busy[r]
    BY <1>2 DEF ControlInv, OpenSession
  <2>2. QED
    BY <1>2, <2>1, AuditQuiet DEF TypeOK, OpenSession
<1>3. CASE Close(r)
  <2>1. ~busy[r]
    BY <1>3 DEF ControlInv, Close
  <2>2. QED
    BY <1>3, <2>1, AuditQuiet DEF TypeOK, Close
<1>4. CASE Abort(r)
  BY <1>4, AuditRollback DEF TypeOK, Abort
<1>5. QED
  BY <1>1, <1>2, <1>3, <1>4 DEF Lifecycle

LEMMA AuditHandler ==
    ASSUME TypeOK, ControlInv, AuditInv, NEW r \in Requests, Handler(r)
    PROVE  AuditInv'
<1>1. CASE NotifyRecipient(r) \/ EndDispatch(r) \/ HandlerRaises(r) \/ BulkFlush(r)
           \/ Query(r) \/ ImportFlush(r)
  BY <1>1, AuditQuiet DEF NotifyRecipient, EndDispatch, HandlerRaises, BulkFlush,
     Query, ImportFlush
<1>2. ASSUME call[r] = "run", UNCHANGED <<dbVars, busy, addr>>,
             NEW op \in Ops, Change(r, op)
      PROVE  AuditInv'
  <2>1. ~busy[r]
    BY <1>2 DEF ControlInv
  <2>2. QED
    BY <1>2, <2>1, AuditChange DEF Change
<1>3. CASE SaveObject(r)
  BY <1>2, <1>3 DEF SaveObject
<1>4. CASE SaveInline(r)
  BY <1>2, <1>4, AuditQuiet DEF SaveInline
<1>5. CASE PermOps(r)
  BY <1>2, <1>5, AuditQuiet DEF PermOps, Ops
<1>6. CASE BulkDelete(r)
  BY <1>2, <1>6 DEF BulkDelete, Ops
<1>7. CASE ImportRow(r)
  BY <1>2, <1>7 DEF ImportRow, Ops
<1>8. CASE ImportLog(r)
  <2>1. ~busy[r]
    BY <1>8 DEF ControlInv, ImportLog
  <2>2. QED
    BY <1>8, <2>1, AuditChange DEF ImportLog
<1>9. CASE HookRefuses(r)
  <2>1. CASE RolledBack(r)
    BY <1>9, <2>1, AuditRollback DEF TypeOK, HookRefuses
  <2>2. CASE UNCHANGED sessionVars
    BY <1>9, <2>2, AuditQuiet DEF HookRefuses
  <2>3. QED
    BY <1>9, <2>1, <2>2 DEF HookRefuses
<1>10. QED
  BY <1>1, <1>3, <1>4, <1>5, <1>6, <1>7, <1>8, <1>9 DEF Handler

-----------------------------------------------------------------------------
(***************************************************************************)
(* The theorems.                                                           *)
(***************************************************************************)

\* The inductive invariant: sessions, flushes, pending creations and the
\* audit rows stay tied together through every interleaving.
THEOREM Invariance == Spec => []IInv
<1>1. Init => IInv
  BY TypeInit, ControlInit, AuditInit DEF IInv, AuditInv
<1>2. IInv /\ [Next]_vars => IInv'
  <2>1. SUFFICES ASSUME IInv, [Next]_vars
                 PROVE  IInv'
    OBVIOUS
  <2>2. CASE Next
    <3>1. PICK r \in Requests : Lifecycle(r) \/ Handler(r) \/ UnitOfWork(r)
      BY <2>2 DEF Next
    <3>2. AuditInv
      BY <2>1 DEF IInv, AuditInv
    <3>3. busy[r] => addr[r] # None
      BY <2>1 DEF IInv, ControlInv
    <3>4. TypeOK'
      BY <2>1, <3>1, <3>3, TypeLifecycle, TypeHandler, TypeUnitOfWork DEF IInv
    <3>5. ControlInv'
      BY <2>1, <3>1, ControlLifecycle, ControlHandler, ControlUnitOfWork DEF IInv
    <3>6. AddressInv'
      BY <2>1, <3>1, AddressStep DEF IInv
    <3>7. AuditInv'
      BY <2>1, <3>1, <3>2, AuditLifecycle, AuditHandler, AuditUnitOfWork DEF IInv
    <3>8. QED
      BY <3>4, <3>5, <3>6, <3>7 DEF IInv, AuditInv
  <2>3. CASE UNCHANGED vars
    BY <2>1, <2>3 DEF IInv, TypeOK, ControlInv, AddressInv, FlushInv, TxInv, DirtyInv,
       CommittedIsAudited, DirtyRowsAreReal, vars
  <2>4. QED
    BY <2>1, <2>2, <2>3
<1>3. QED
  BY <1>1, <1>2, PTL DEF Spec

\* Every variable keeps its type, for any number of requests.
THEOREM TypeCorrect == Spec => []TypeOK
<1>1. IInv => TypeOK
  BY DEF IInv
<1>2. QED
  BY <1>1, Invariance, PTL

\* No committed change of a registered model is missing from the audit log,
\* whichever commit made it durable and however requests interleave.
THEOREM AuditComplete == Spec => []CommittedIsAudited
<1>1. IInv => CommittedIsAudited
  BY DEF IInv
<1>2. QED
  BY <1>1, Invariance, PTL

\* No UPDATE or DELETE row survives the rollback of its change.
THEOREM DirtyRowsSound == Spec => []DirtyRowsAreReal
<1>1. IInv => DirtyRowsAreReal
  BY DEF IInv
<1>2. QED
  BY <1>1, Invariance, PTL

-----------------------------------------------------------------------------
(***************************************************************************)
(* One row per change, and whose row it is.  A change is followed from the *)
(* session it is made in to its commit or to its end; what a failed flush  *)
(* leaves in _pending_creates is a dead change, which nothing commits.     *)
(***************************************************************************)

Audited(c) == c.op # "unaudited"

\* The change was made: the counter of its request has passed it.
Made(c) == c.n <= step[c.req]

\* It was rolled back: no session holds it and no commit will.
Dead(c) == Made(c) /\ c \notin mem[c.req] \cup tx[c.req] \cup committed

\* Changes stay with their request and are new when they enter a session.
ChangeInv ==
    /\ \A r \in Requests : \A c \in mem[r] \cup tx[r] :
         c.req = r /\ (Audited(c) => Made(c))
    /\ \A c \in committed : Audited(c) => Made(c)
    /\ \A r \in Requests : \A c \in mem[r] :
         Audited(c) => c \notin tx[r] \cup committed

\* The flush of the request is writing c, captured under its address.
BeingWritten(c, a) == addr[c.req] = a /\ busy[c.req] /\ c \in mem[c.req]

\* What _pending_creates holds is being written, or dead.
PendingInv ==
    /\ \A a \in Addresses : \A c \in pending[a] : Dead(c) \/ BeingWritten(c, a)
    /\ \A a, b \in Addresses : pending[a] \cap pending[b] # {} => a = b

HasNoRow(c) == \A row \in KnownRows : row.change # c

\* Rows are built for changes that were made, and not yet for those that the
\* next listener will build them for.
UnrecordedInv ==
    /\ \A row \in KnownRows : Audited(row.change) /\ Made(row.change)
    /\ \A a \in Addresses : \A c \in pending[a] : HasNoRow(c)
    /\ \A r \in Requests : \A c \in mem[r] :
         Audited(c) /\ (c.op = "create" \/ ~busy[r]) => HasNoRow(c)

HInv == ChangeInv /\ PendingInv /\ UnrecordedInv

(***************************************************************************)
(* The kinds of steps.  Most leave the sessions alone, a handler adds one  *)
(* change to an idle session, a rollback empties a session; the rest is    *)
(* the unit of work.                                                       *)
(***************************************************************************)

Quiet ==
    /\ UNCHANGED <<step, sessionVars, dbVars, busy>>
    /\ \A q \in Requests : busy[q] => addr'[q] = addr[q]

Adds(r) ==
    /\ ~busy[r]
    /\ UNCHANGED <<rowsMem, tx, rowsTx, pending, dbVars, busy, addr>>
    /\ \A q \in Requests : step[q] <= step'[q]
    /\ \E c \in Changes :
         /\ c.req = r /\ mem' = [mem EXCEPT ![r] = @ \cup {c}]
         /\ Audited(c) => c.n = step[r] + 1 /\ step'[r] = step[r] + 1

Drops(r) ==
    /\ RolledBack(r)
    /\ UNCHANGED <<step, dbVars>>
    /\ ~busy'[r]
    /\ \A q \in Requests \ {r} : busy'[q] = busy[q] /\ addr'[q] = addr[q]

\* A change of a handler takes the next number.
LEMMA ChangeAdds ==
    ASSUME TypeOK, ControlInv, NEW r \in Requests, NEW op \in Ops, Change(r, op),
           call[r] = "run", UNCHANGED <<dbVars, busy, addr>>
    PROVE  Adds(r)
<1> DEFINE c == [req |-> r, n |-> step[r] + 1, op |-> op]
<1>1. c \in Changes /\ c.req = r /\ c.n = step[r] + 1
  BY NewChangeType
<1>2. ~busy[r]
  BY DEF ControlInv, TypeOK
<1>3. step'[r] = step[r] + 1 /\ \A q \in Requests : step[q] <= step'[q]
  BY DEF Change, TypeOK
<1>4. mem' = [mem EXCEPT ![r] = @ \cup {c}]
  BY DEF Change
<1>5. UNCHANGED <<rowsMem, tx, rowsTx, pending>>
  BY DEF Change
<1> QED
  BY <1>1, <1>2, <1>3, <1>4, <1>5 DEF Adds, Audited

LEMMA HandlerKinds ==
    ASSUME TypeOK, ControlInv, NEW r \in Requests, Handler(r)
    PROVE  Quiet \/ Adds(r) \/ Drops(r)
<1>1. CASE NotifyRecipient(r) \/ EndDispatch(r) \/ HandlerRaises(r) \/ BulkFlush(r)
           \/ Query(r) \/ ImportFlush(r)
  BY <1>1 DEF Quiet, NotifyRecipient, EndDispatch, HandlerRaises, BulkFlush, Query, ImportFlush
<1>2. CASE SaveObject(r)
  BY <1>2, ChangeAdds DEF SaveObject
<1>3. CASE SaveInline(r)
  BY <1>3, ChangeAdds DEF Quiet, SaveInline
<1>4. CASE PermOps(r)
  BY <1>4, ChangeAdds DEF Quiet, PermOps, Ops
<1>5. CASE BulkDelete(r)
  BY <1>5, ChangeAdds DEF BulkDelete, Ops
<1>6. CASE ImportRow(r)
  BY <1>6, ChangeAdds DEF ImportRow, Ops
<1>7. CASE ImportLog(r)
  <2> DEFINE c == [req |-> r, n |-> step[r] + 1, op |-> "unaudited"]
  <2>1. c \in Changes /\ c.req = r /\ ~Audited(c)
    BY NewChangeType DEF Ops, Audited
  <2>2. mem' = [mem EXCEPT ![r] = @ \cup {c}] /\ ~busy[r]
    BY <1>7 DEF ImportLog, ControlInv
  <2>3. UNCHANGED <<rowsMem, tx, rowsTx, pending, dbVars, busy, addr, step>>
    BY <1>7 DEF ImportLog
  <2>4. \A q \in Requests : step[q] <= step'[q]
    BY <2>3 DEF TypeOK
  <2> HIDE DEF c
  <2> QED
    BY <2>1, <2>2, <2>3, <2>4 DEF Adds
<1>8. CASE HookRefuses(r)
  <2>1. CASE RolledBack(r)
    <3>1. ~busy[r]
      BY <1>8 DEF HookRefuses, ControlInv
    <3> QED
      BY <1>8, <2>1, <3>1 DEF HookRefuses, Drops
  <2>2. CASE UNCHANGED sessionVars
    BY <1>8, <2>2 DEF HookRefuses, Quiet
  <2> QED
    BY <1>8, <2>1, <2>2 DEF HookRefuses
<1> QED
  BY <1>1, <1>2, <1>3, <1>4, <1>5, <1>6, <1>7, <1>8 DEF Handler

LEMMA StepKinds ==
    ASSUME TypeOK, ControlInv, NEW r \in Requests, Lifecycle(r) \/ Handler(r) \/ UnitOfWork(r)
    PROVE  Quiet \/ Adds(r) \/ Drops(r) \/ BeginFlush(r) \/ EndFlush(r) \/ Commit(r)
<1>1. CASE Arrive(r) \/ Authenticate(r) \/ Refuse(r) \/ Respond(r) \/ RespondBroken(r)
           \/ SkipFlush(r)
  BY <1>1 DEF Quiet, Arrive, Authenticate, Refuse, Respond, RespondBroken, SkipFlush
<1>2. CASE OpenSession(r) \/ Close(r)
  <2>1. ~busy[r]
    BY <1>2 DEF ControlInv, OpenSession, Close
  <2> QED
    BY <1>2, <2>1 DEF Quiet, OpenSession, Close, TypeOK
<1>3. CASE Abort(r)
  <2>1. ~busy[r]
    BY <1>3 DEF ControlInv, Abort
  <2> QED
    BY <1>3, <2>1 DEF Drops, Abort, TypeOK
<1>4. CASE FailFlush(r) \/ FailCommit(r)
  BY <1>4 DEF Drops, FailFlush, FailCommit, TypeOK
<1> QED
  BY <1>1, <1>2, <1>3, <1>4, HandlerKinds DEF Lifecycle, UnitOfWork

\* Counters only grow, so what was made stays made.
LEMMA MadeStays ==
    ASSUME TypeOK, ControlInv, NEW r \in Requests, Lifecycle(r) \/ Handler(r) \/ UnitOfWork(r),
           NEW c \in Changes, Made(c)
    PROVE  Made(c)'
<1>1. \A q \in Requests : step[q] <= step'[q]
  BY StepKinds DEF Quiet, Adds, Drops, BeginFlush, EndFlush, Commit, TypeOK
<1>2. TypeOK'
  BY TypeLifecycle, TypeHandler, TypeUnitOfWork DEF ControlInv
<1> QED
  BY <1>1, <1>2 DEF Made, Changes, TypeOK

\* A change that was rolled back never comes back: its number is used up.
LEMMA DeadStays ==
    ASSUME TypeOK, ControlInv, ChangeInv, NEW r \in Requests,
           Lifecycle(r) \/ Handler(r) \/ UnitOfWork(r),
           NEW c \in Changes, Audited(c), Dead(c)
    PROVE  Dead(c)'
<1>1. Made(c)'
  BY MadeStays DEF Dead
<1>2. SUFFICES c \notin mem'[c.req] \cup tx'[c.req] \cup committed'
  BY <1>1 DEF Dead
<1>3. c.req \in Requests /\ c.n \in Nat
  BY DEF Changes
<1>4. CASE Quiet
  BY <1>4 DEF Quiet, Dead, sessionVars, dbVars
<1>5. CASE Adds(r)
  <2>1. PICK d \in Changes : /\ mem' = [mem EXCEPT ![r] = @ \cup {d}]
                             /\ Audited(d) => d.n = step[r] + 1
    BY <1>5 DEF Adds
  <2>2. c.req = r => c # d
    BY <1>3, <2>1 DEF Dead, Made, TypeOK
  <2> QED
    BY <1>3, <1>5, <2>1, <2>2 DEF Adds, Dead, TypeOK, dbVars
<1>6. CASE Drops(r)
  BY <1>3, <1>6 DEF Drops, RolledBack, Dead, TypeOK, dbVars
<1>7. CASE BeginFlush(r)
  BY <1>7 DEF BeginFlush, Dead, dbVars
<1>8. CASE EndFlush(r)
  BY <1>3, <1>8 DEF EndFlush, Dead, TypeOK, dbVars
<1>9. CASE Commit(r)
  BY <1>3, <1>9 DEF Commit, Dead, TypeOK, ChangeInv
<1> QED
  BY <1>4, <1>5, <1>6, <1>7, <1>8, <1>9, StepKinds

LEMMA ChangeStep ==
    ASSUME TypeOK, ControlInv, ChangeInv, NEW r \in Requests,
           Lifecycle(r) \/ Handler(r) \/ UnitOfWork(r)
    PROVE  ChangeInv'
<1>0. \A q \in Requests : mem[q] \cup tx[q] \subseteq Changes
  BY DEF TypeOK
<1>1. committed \subseteq Changes
  BY DEF TypeOK
<1>2. \A c \in Changes : Made(c) => Made(c)'
  BY MadeStays
<1>3. CASE Quiet
  BY <1>0, <1>1, <1>2, <1>3 DEF Quiet, ChangeInv, Audited, sessionVars, dbVars
<1>4. CASE Adds(r)
  <2>1. PICK d \in Changes : /\ d.req = r /\ mem' = [mem EXCEPT ![r] = @ \cup {d}]
                             /\ Audited(d) => d.n = step[r] + 1 /\ step'[r] = step[r] + 1
    BY <1>4 DEF Adds
  <2>2. UNCHANGED <<tx, committed>>
    BY <1>4 DEF Adds, dbVars
  <2>3. \A q \in Requests : mem'[q] = IF q = r THEN mem[r] \cup {d} ELSE mem[q]
    BY <2>1 DEF TypeOK
  <2>4. Audited(d) => Made(d)' /\ ~Made(d)
    BY <2>1 DEF Made, TypeOK
  <2>5. Audited(d) => d \notin tx[r] \cup committed
    BY <2>4 DEF ChangeInv
  <2> QED
    BY <1>0, <1>1, <1>2, <2>1, <2>2, <2>3, <2>4, <2>5 DEF ChangeInv, Audited
<1>5. CASE Drops(r)
  <2>1. \A q \in Requests : mem'[q] \subseteq mem[q] /\ tx'[q] \subseteq tx[q]
    BY <1>5 DEF Drops, RolledBack, TypeOK
  <2> QED
    BY <1>0, <1>1, <1>2, <1>5, <2>1 DEF Drops, ChangeInv, Audited, dbVars
<1>6. CASE BeginFlush(r)
  BY <1>0, <1>1, <1>2, <1>6 DEF BeginFlush, ChangeInv, Audited, dbVars
<1>7. CASE EndFlush(r)
  <2>1. \A q \in Requests : /\ mem'[q] = IF q = r THEN {} ELSE mem[q]
                            /\ tx'[q] = IF q = r THEN tx[r] \cup mem[r] ELSE tx[q]
    BY <1>7 DEF EndFlush, TypeOK
  <2>2. committed' = committed
    BY <1>7 DEF EndFlush, dbVars
  <2> QED
    BY <1>0, <1>1, <1>2, <2>1, <2>2 DEF ChangeInv, Audited
<1>8. CASE Commit(r)
  <2>1. mem[r] = {} /\ mem' = mem /\ committed' = committed \cup tx[r]
    BY <1>8 DEF Commit, Clean
  <2>2. \A q \in Requests : tx'[q] = IF q = r THEN {} ELSE tx[q]
    BY <1>8 DEF Commit, TypeOK
  <2> QED
    BY <1>0, <1>1, <1>2, <2>1, <2>2 DEF ChangeInv, Audited
<1> QED
  BY <1>3, <1>4, <1>5, <1>6, <1>7, <1>8, StepKinds

\* What is held for a later listener is being written, at one address, or
\* belongs to no session any more.
LEMMA PendingStep ==
    ASSUME TypeOK, ControlInv, AddressInv, DirtyInv, ChangeInv, PendingInv, NEW r \in Requests,
           Lifecycle(r) \/ Handler(r) \/ UnitOfWork(r)
    PROVE  PendingInv'
<1>0. \A a \in Addresses : \A c \in pending[a] :
        c \in Changes /\ c.req \in Requests /\ c.op = "create" /\ Audited(c)
  BY DEF TypeOK, DirtyInv, Audited, Changes
<1>1. \A a \in Addresses : \A c \in pending[a] : Dead(c) => Dead(c)'
  BY <1>0, DeadStays
<1>2. CASE Quiet \/ Adds(r)
  <2>1. pending' = pending /\ busy' = busy
        /\ \A q \in Requests : mem[q] \subseteq mem'[q] /\ (busy[q] => addr'[q] = addr[q])
    BY <1>2 DEF Quiet, Adds, sessionVars, TypeOK
  <2> QED
    BY <1>0, <1>1, <2>1 DEF PendingInv, BeingWritten
<1>3. CASE Drops(r)
  <2>1. \A a \in Addresses : \A c \in pending[a] : BeingWritten(c, a) =>
          BeingWritten(c, a)' \/ Dead(c)'
    <3> SUFFICES ASSUME NEW a \in Addresses, NEW c \in pending[a], BeingWritten(c, a)
                 PROVE  BeingWritten(c, a)' \/ Dead(c)'
      OBVIOUS
    <3>1. CASE c.req = r
      <4>1. c \notin mem'[r] \cup tx'[r] \cup committed'
        BY <1>0, <1>3, <3>1 DEF Drops, RolledBack, BeingWritten, ChangeInv, TypeOK, dbVars
      <4>2. Made(c)'
        BY <1>0, <1>3, <3>1, MadeStays DEF BeingWritten, ChangeInv
      <4> QED
        BY <3>1, <4>1, <4>2 DEF Dead
    <3>2. CASE c.req # r
      BY <1>0, <1>3, <3>2 DEF Drops, RolledBack, BeingWritten, TypeOK
    <3> QED
      BY <3>1, <3>2
  <2> QED
    BY <1>1, <1>3, <2>1 DEF PendingInv, Drops, RolledBack
<1>4. CASE BeginFlush(r)
  <2>1. addr[r] \in Addresses /\ ~busy[r]
    BY <1>4 DEF TypeOK, ControlInv, BeginFlush
  <2>2. UNCHANGED <<mem, addr>> /\ busy'[r] /\ \A q \in Requests : busy[q] => busy'[q]
    BY <1>4 DEF BeginFlush, TypeOK
  <2>3. \A a \in Addresses : \A c \in pending'[a] :
          c \in pending[a] \/ (a = addr[r] /\ c \in NewItems(r))
    BY <1>4 DEF BeginFlush, Capture, TypeOK
  <2>4. \A c \in NewItems(r) : c \in mem[r] /\ c.req = r /\ ~Dead(c)
    BY DEF NewItems, ChangeInv, Dead, TypeOK
  <2>5. \A a \in Addresses : \A c \in pending'[a] : Dead(c)' \/ BeingWritten(c, a)'
    <3> SUFFICES ASSUME NEW a \in Addresses, NEW c \in pending'[a]
                 PROVE  Dead(c)' \/ BeingWritten(c, a)'
      OBVIOUS
    <3>1. CASE c \in pending[a]
      BY <1>0, <1>1, <2>2, <3>1 DEF PendingInv, BeingWritten
    <3>2. CASE a = addr[r] /\ c \in NewItems(r)
      BY <2>1, <2>2, <2>4, <3>2 DEF BeingWritten
    <3> QED
      BY <2>3, <3>1, <3>2
  <2>6. \A a \in Addresses : \A c \in NewItems(r) : c \in pending[a] => a = addr[r]
    BY <2>4 DEF PendingInv, BeingWritten
  <2> QED
    BY <2>3, <2>5, <2>6 DEF PendingInv
<1>5. CASE EndFlush(r)
  <2>1. addr[r] \in Addresses
    BY <1>5 DEF TypeOK, ControlInv, EndFlush
  <2>2. \A a \in Addresses : pending'[a] = IF a = addr[r] THEN {} ELSE pending[a]
    BY <1>5 DEF EndFlush, PopPending, TypeOK
  <2>3. UNCHANGED addr /\ \A q \in Requests \ {r} : busy'[q] = busy[q] /\ mem'[q] = mem[q]
    BY <1>5 DEF EndFlush, TypeOK
  <2>4. \A a \in Addresses : \A c \in pending'[a] : Dead(c)' \/ BeingWritten(c, a)'
    <3> SUFFICES ASSUME NEW a \in Addresses, NEW c \in pending'[a]
                 PROVE  Dead(c)' \/ BeingWritten(c, a)'
      OBVIOUS
    <3>1. a # addr[r] /\ c \in pending[a]
      BY <2>2
    <3>2. BeingWritten(c, a) => c.req # r
      BY <3>1 DEF BeingWritten
    <3> QED
      BY <1>0, <1>1, <2>3, <3>1, <3>2 DEF PendingInv, BeingWritten
  <2> QED
    BY <2>2, <2>4 DEF PendingInv
<1>6. CASE Commit(r)
  <2>1. UNCHANGED <<pending, busy, addr, mem>>
    BY <1>6 DEF Commit
  <2> QED
    BY <1>0, <1>1, <2>1 DEF PendingInv, BeingWritten
<1> QED
  BY <1>2, <1>3, <1>4, <1>5, <1>6, StepKinds

\* The rows a flush builds are for its own dirty objects ...
LEMMA DirtyRowsOwn ==
    ASSUME TypeOK, ChangeInv, NEW r \in Requests, NEW row \in DirtyRows(r)
    PROVE  /\ row.change \in mem[r] /\ row.change.req = r
           /\ row.change.op \in {"update", "delete"}
           /\ row.user = context.user /\ row.ip = context.ip
<1>1. PICK c \in mem[r] : c.op \in {"update", "delete"} /\ row = RowFor(c)
  BY DEF DirtyRows
<1>2. row = [change |-> c, user |-> context.user, ip |-> context.ip]
  BY <1>1 DEF RowFor
<1> QED
  BY <1>1, <1>2 DEF ChangeInv

\* ... or for what is captured under its address.
LEMMA CreateRowsHeld ==
    ASSUME NEW r \in Requests, NEW row \in CreateRows(r)
    PROVE  /\ row.change \in pending[addr[r]]
           /\ row.user = context.user /\ row.ip = context.ip
<1>1. PICK c \in pending[addr[r]] : row = RowFor(c)
  BY DEF CreateRows
<1>2. row = [change |-> c, user |-> context.user, ip |-> context.ip]
  BY <1>1 DEF RowFor
<1> QED
  BY <1>1, <1>2

\* Where the rows of the next state come from.
LEMMA NextRows ==
    ASSUME TypeOK, ControlInv, NEW r \in Requests, Lifecycle(r) \/ Handler(r) \/ UnitOfWork(r),
           NEW row \in KnownRows'
    PROVE  \/ row \in KnownRows
           \/ BeginFlush(r) /\ row \in DirtyRows(r)
           \/ EndFlush(r) /\ row \in CreateRows(r)
<1>1. row \in auditLog' \/ \E q \in Requests : row \in rowsTx'[q] \cup rowsMem'[q]
  BY DEF KnownRows
<1>2. SUFFICES ASSUME row \notin auditLog, \A q \in Requests : row \notin rowsTx[q] \cup rowsMem[q]
               PROVE  \/ BeginFlush(r) /\ row \in DirtyRows(r)
                      \/ EndFlush(r) /\ row \in CreateRows(r)
  BY DEF KnownRows
<1>3. CASE Quiet \/ Adds(r)
  BY <1>1, <1>2, <1>3 DEF Quiet, Adds, sessionVars, dbVars
<1>4. CASE Drops(r)
  BY <1>1, <1>2, <1>4 DEF Drops, RolledBack, TypeOK, dbVars
<1>5. CASE BeginFlush(r)
  BY <1>1, <1>2, <1>5 DEF BeginFlush, TypeOK, dbVars
<1>6. CASE EndFlush(r)
  BY <1>1, <1>2, <1>6 DEF EndFlush, TypeOK, dbVars
<1>7. CASE Commit(r)
  BY <1>1, <1>2, <1>7 DEF Commit, TypeOK
<1> QED
  BY <1>3, <1>4, <1>5, <1>6, <1>7, StepKinds

\* The row a listener builds is the first of its change.
LEMMA BuiltRowsAreFirst ==
    ASSUME TypeOK, ControlInv, DirtyInv, HInv, NEW r \in Requests, NEW row,
           \/ BeginFlush(r) /\ row \in DirtyRows(r)
           \/ EndFlush(r) /\ row \in CreateRows(r)
    PROVE  HasNoRow(row.change) /\ Audited(row.change) /\ Made(row.change)
           /\ row.change \in Changes
<1>1. CASE BeginFlush(r) /\ row \in DirtyRows(r)
  <2>1. /\ row.change \in mem[r] /\ Audited(row.change) /\ ~busy[r]
        /\ row.change \in Changes
    BY <1>1, DirtyRowsOwn DEF HInv, BeginFlush, Audited, TypeOK
  <2> QED
    BY <2>1 DEF HInv, ChangeInv, UnrecordedInv
<1>2. CASE EndFlush(r) /\ row \in CreateRows(r)
  <2>1. addr[r] \in Addresses
    BY <1>2 DEF TypeOK, ControlInv, EndFlush
  <2>2. row.change \in pending[addr[r]] /\ row.change.op = "create" /\ row.change \in Changes
    BY <1>2, <2>1, CreateRowsHeld DEF DirtyInv, TypeOK
  <2>3. Made(row.change)
    BY <2>1, <2>2 DEF HInv, PendingInv, ChangeInv, BeingWritten, Dead, Audited, Changes
  <2> QED
    BY <2>1, <2>2, <2>3 DEF HInv, UnrecordedInv, Audited
<1> QED
  BY <1>1, <1>2

\* A change that has no row gets none but from the listener that builds it.
LEMMA NoRowStays ==
    ASSUME TypeOK, ControlInv, NEW r \in Requests, Lifecycle(r) \/ Handler(r) \/ UnitOfWork(r),
           NEW c, HasNoRow(c),
           BeginFlush(r) => \A row \in DirtyRows(r) : row.change # c,
           EndFlush(r) => \A row \in CreateRows(r) : row.change # c
    PROVE  HasNoRow(c)'
BY NextRows DEF HasNoRow

LEMMA UnrecordedStep ==
    ASSUME TypeOK, ControlInv, AddressInv, DirtyInv, HInv, NEW r \in Requests,
           Lifecycle(r) \/ Handler(r) \/ UnitOfWork(r)
    PROVE  UnrecordedInv'
<1>1. ASSUME NEW row \in KnownRows'
      PROVE  Audited(row.change) /\ Made(row.change)'
  <2>1. CASE row \in KnownRows
    <3>1. row.change \in Changes
      BY <2>1 DEF KnownRows, TypeOK, Rows
    <3> QED
      BY <2>1, <3>1, MadeStays DEF HInv, UnrecordedInv
  <2>2. CASE row \notin KnownRows
    BY <1>1, <2>2, NextRows, BuiltRowsAreFirst, MadeStays
  <2> QED
    BY <2>1, <2>2
<1>2. ASSUME NEW a \in Addresses, NEW c \in pending'[a]
      PROVE  HasNoRow(c)'
  <2>1. CASE BeginFlush(r)
    <3>1. c \in pending[a] \/ c \in NewItems(r)
      BY <1>2, <2>1 DEF BeginFlush, Capture, TypeOK
    <3>2. HasNoRow(c) /\ c.op = "create"
      BY <3>1 DEF NewItems, HInv, UnrecordedInv, DirtyInv, Audited
    <3>3. ~EndFlush(r)
      BY <2>1 DEF BeginFlush, EndFlush
    <3> QED
      BY <3>2, <3>3, NoRowStays, DirtyRowsOwn DEF HInv
  <2>2. CASE EndFlush(r)
    <3>1. addr[r] \in Addresses
      BY <2>2 DEF TypeOK, ControlInv, EndFlush
    <3>2. a # addr[r] /\ c \in pending[a]
      BY <1>2, <2>2, <3>1 DEF EndFlush, PopPending, TypeOK
    <3>3. HasNoRow(c) /\ \A row \in CreateRows(r) : row.change # c
      BY <3>1, <3>2, CreateRowsHeld DEF HInv, UnrecordedInv, PendingInv
    <3>4. ~BeginFlush(r)
      BY <2>2 DEF BeginFlush, EndFlush
    <3> QED
      BY <3>3, <3>4, NoRowStays
  <2>3. CASE ~BeginFlush(r) /\ ~EndFlush(r)
    <3>1. pending' = pending
      BY <2>3, StepKinds DEF Quiet, Adds, Drops, RolledBack, Commit, sessionVars
    <3> QED
      BY <1>2, <2>3, <3>1, NoRowStays DEF HInv, UnrecordedInv
  <2> QED
    BY <2>1, <2>2, <2>3
<1>3. ASSUME NEW q \in Requests, NEW c \in mem'[q], Audited(c), c.op = "create" \/ ~busy'[q]
      PROVE  HasNoRow(c)'
  <2>1. CASE BeginFlush(r)
    <3>1. c \in mem[q] /\ c.req = q /\ (q = r => c.op = "create") /\ (~busy'[q] => ~busy[q])
      BY <1>3, <2>1 DEF BeginFlush, HInv, ChangeInv, TypeOK
    <3>2. HasNoRow(c) /\ \A row \in DirtyRows(r) : row.change # c
      BY <1>3, <3>1, DirtyRowsOwn DEF HInv, UnrecordedInv
    <3>3. ~EndFlush(r)
      BY <2>1 DEF BeginFlush, EndFlush
    <3> QED
      BY <3>2, <3>3, NoRowStays
  <2>2. CASE EndFlush(r)
    <3>1. addr[r] \in Addresses
      BY <2>2 DEF TypeOK, ControlInv, EndFlush
    <3>2. q # r /\ c \in mem[q] /\ busy'[q] = busy[q]
      BY <1>3, <2>2 DEF EndFlush, TypeOK
    <3>3. HasNoRow(c) /\ c.req = q /\ ~Dead(c)
      BY <1>3, <3>2 DEF HInv, UnrecordedInv, ChangeInv, Dead
    <3>4. c \notin pending[addr[r]]
      BY <3>1, <3>2, <3>3, NoneAssumption DEF HInv, PendingInv, BeingWritten, AddressInv
    <3>5. ~BeginFlush(r)
      BY <2>2 DEF BeginFlush, EndFlush
    <3> QED
      BY <3>3, <3>4, <3>5, CreateRowsHeld, NoRowStays
  <2>3. CASE ~BeginFlush(r) /\ ~EndFlush(r) /\ c \in mem[q] /\ (~busy'[q] => ~busy[q])
    BY <1>3, <2>3, NoRowStays DEF HInv, UnrecordedInv
  <2>4. CASE Adds(r) /\ c \notin mem[q]
    <3>1. PICK d \in Changes : /\ d.req = r /\ mem' = [mem EXCEPT ![r] = @ \cup {d}]
                               /\ Audited(d) => d.n = step[r] + 1
      BY <2>4 DEF Adds
    <3>2. c = d /\ c.n = step[c.req] + 1
      BY <1>3, <2>4, <3>1 DEF TypeOK
    <3>3. ~Made(c)
      BY <3>1, <3>2 DEF Made, TypeOK
    <3>4. HasNoRow(c)
      BY <3>3 DEF HasNoRow, HInv, UnrecordedInv
    <3>5. ~BeginFlush(r) /\ ~EndFlush(r)
      <4>1. mem'[r] # mem[r] /\ ~busy[r]
        BY <1>3, <2>4, <3>1 DEF TypeOK, Adds
      <4> QED
        BY <4>1 DEF BeginFlush, EndFlush
    <3> QED
      BY <3>4, <3>5, NoRowStays
  <2>5. CASE Adds(r) /\ c \in mem[q] /\ ~BeginFlush(r) /\ ~EndFlush(r)
    BY <2>3, <2>5 DEF Adds
  <2>6. CASE Quiet \/ Commit(r)
    BY <1>3, <2>1, <2>2, <2>3, <2>6 DEF Quiet, Commit, sessionVars
  <2>7. CASE Drops(r)
    <3>1. q # r /\ c \in mem[q] /\ busy'[q] = busy[q]
      BY <1>3, <2>7 DEF Drops, RolledBack, TypeOK
    <3> QED
      BY <2>1, <2>2, <2>3, <3>1
  <2> QED
    BY <2>1, <2>2, <2>4, <2>5, <2>6, <2>7, StepKinds
<1> QED
  BY <1>1, <1>2, <1>3 DEF UnrecordedInv

LEMMA HistoryNext == IInv /\ HInv /\ [Next]_vars => HInv'
<1>1. SUFFICES ASSUME IInv, HInv, [Next]_vars PROVE HInv'
  OBVIOUS
<1>2. CASE Next
  <2>1. PICK r \in Requests : Lifecycle(r) \/ Handler(r) \/ UnitOfWork(r)
    BY <1>2 DEF Next
  <2> QED
    BY <1>1, <2>1, ChangeStep, PendingStep, UnrecordedStep DEF IInv, HInv
<1>3. CASE UNCHANGED vars
  <2>1. UNCHANGED <<step, mem, tx, rowsMem, rowsTx, pending, committed, auditLog, busy, addr>>
    BY <1>3 DEF vars
  <2>2. ChangeInv' /\ PendingInv'
    BY <1>1, <2>1 DEF HInv, ChangeInv, PendingInv, Audited, Made, Dead, BeingWritten
  <2>3. KnownRows' = KnownRows
    BY <2>1 DEF KnownRows
  <2>4. UnrecordedInv'
    BY <1>1, <2>1, <2>3 DEF HInv, UnrecordedInv, HasNoRow, Audited, Made
  <2> QED
    BY <2>2, <2>4 DEF HInv
<1> QED
  BY <1>1, <1>2, <1>3

\* What the listeners hold, and what has its row, for any interleaving.
THEOREM HistoryInvariance == Spec => []HInv
<1>1. Init => HInv
  BY DEF Init, HInv, ChangeInv, PendingInv, UnrecordedInv, KnownRows
<1>2. IInv /\ HInv /\ [Next]_vars => HInv'
  BY HistoryNext
<1> QED
  BY <1>1, <1>2, Invariance, PTL DEF Spec

\* A change gets one row.  A row that a listener builds records a change that
\* has none yet (audit/listener.py: _pending_creates is popped by the flush
\* that filled it, and what a failed flush leaves there is recorded at most
\* once, by the next flush at the same address).
THEOREM RowsAreBuiltOnce == Spec => AuditedOnce
<1>1. IInv /\ HInv /\ [Next]_vars =>
        [\A r \in Requests : \A row \in (rowsMem[r])' :
           row \notin rowsMem[r] => \A old \in KnownRows : old.change # row.change]_vars
  <2>1. SUFFICES ASSUME IInv, HInv, Next, NEW q \in Requests, NEW row \in rowsMem'[q],
                        row \notin rowsMem[q]
                 PROVE  HasNoRow(row.change)
    BY DEF HasNoRow, vars
  <2>2. PICK r \in Requests : Lifecycle(r) \/ Handler(r) \/ UnitOfWork(r)
    BY <2>1 DEF Next
  <2>3. \/ BeginFlush(r) /\ row \in DirtyRows(r)
        \/ EndFlush(r) /\ row \in CreateRows(r)
    <3>1. CASE Quiet \/ Adds(r) \/ Commit(r)
      BY <2>1, <3>1 DEF Quiet, Adds, Commit, sessionVars
    <3>2. CASE Drops(r)
      BY <2>1, <3>2 DEF Drops, RolledBack, IInv, TypeOK
    <3>3. CASE BeginFlush(r)
      BY <2>1, <3>3 DEF BeginFlush, IInv, TypeOK
    <3>4. CASE EndFlush(r)
      BY <2>1, <3>4 DEF EndFlush, IInv, TypeOK
    <3> QED
      BY <2>1, <2>2, <3>1, <3>2, <3>3, <3>4, StepKinds DEF IInv
  <2> QED
    BY <2>1, <2>2, <2>3, BuiltRowsAreFirst DEF IInv
<1> QED
  BY <1>1, Invariance, HistoryInvariance, PTL DEF Spec, AuditedOnce

-----------------------------------------------------------------------------
(***************************************************************************)
(* Attribution.  The shared context names the last request that arrived    *)
(* and the last that authenticated: for whoever is in service since then,  *)
(* that is himself or somebody he overlaps.                                *)
(***************************************************************************)

Attributable(who, r) == who # None /\ (who = r \/ <<who, r>> \in overlap)

\* Requests in service together are on record as overlapping.
ServiceInv ==
    \A r, q \in Requests : r # q /\ InService(r) /\ InService(q) => <<r, q>> \in overlap

Working == {"handler", "saved", "dispatch", "perms", "bulk", "bulkdelete", "import",
            "importlog", "logged"}

\* Nothing is changed before authentication; from then on the context can
\* name the request, whose changes still wait to be flushed.
ContextInv ==
    \A r \in Requests :
        /\ at[r] \in {"idle", "arrived", "auth"} => mem[r] = {}
        /\ InService(r) => Attributable(context.ip, r)
        /\ InService(r) /\ (at[r] \in Working \/ mem[r] # {}) =>
             Attributable(context.user, r)

\* A row names its own request or one that overlapped it, or nobody will
\* ever see its change.
AttributionInv ==
    \A row \in KnownRows :
        \/ Attributable(row.user, row.change.req) /\ Attributable(row.ip, row.change.req)
        \/ Dead(row.change)

AInv == ServiceInv /\ ContextInv /\ AttributionInv

\* A call is awaited only by a request in service.
LEMMA FlushingIsServed ==
    ASSUME ControlInv, NEW r \in Requests, UnitOfWork(r)
    PROVE  InService(r)
BY DEF UnitOfWork, BeginFlush, EndFlush, SkipFlush, FailFlush, Commit, FailCommit, ControlInv,
       InService

\* A request enters service when it arrives; the pairs on record stay.
LEMMA ServiceStep ==
    ASSUME TypeOK, ControlInv, ServiceInv, NEW r \in Requests,
           Lifecycle(r) \/ Handler(r) \/ UnitOfWork(r)
    PROVE  ServiceInv' /\ overlap \subseteq overlap'
<1>1. CASE Arrive(r)
  <2>1. \A q \in Requests \ {r} : InService(q)' <=> InService(q)
    BY <1>1 DEF Arrive, InService, TypeOK
  <2>2. \A q \in Requests : InService(q) => <<r, q>> \in overlap' /\ <<q, r>> \in overlap'
    BY <1>1 DEF Arrive
  <2>3. overlap \subseteq overlap'
    BY <1>1 DEF Arrive
  <2> QED
    BY <2>1, <2>2, <2>3 DEF ServiceInv
<1>2. ASSUME overlap' = overlap, \A q \in Requests : InService(q)' => InService(q)
      PROVE  ServiceInv' /\ overlap \subseteq overlap'
  BY <1>2 DEF ServiceInv
<1>3. CASE Lifecycle(r) /\ ~Arrive(r)
  <2>1. overlap' = overlap /\ InService(r) /\ \A q \in Requests \ {r} : at'[q] = at[q]
    BY <1>3 DEF Lifecycle, OpenSession, Authenticate, Refuse, Respond, RespondBroken,
                Close, Abort, InService, TypeOK
  <2> QED
    BY <1>2, <2>1 DEF InService
<1>4. CASE Handler(r)
  <2>1. overlap' = overlap /\ InService(r) /\ \A q \in Requests \ {r} : at'[q] = at[q]
    BY <1>4 DEF Handler, Query, SaveObject, SaveInline, NotifyRecipient, EndDispatch,
                HandlerRaises, HookRefuses, PermOps, BulkDelete, BulkFlush, ImportRow,
                ImportFlush, ImportLog, InService, TypeOK
  <2> QED
    BY <1>2, <2>1 DEF InService
<1>5. CASE UnitOfWork(r)
  <2>1. overlap' = overlap /\ \A q \in Requests \ {r} : at'[q] = at[q]
    BY <1>5 DEF UnitOfWork, BeginFlush, EndFlush, SkipFlush, FailFlush, Commit, FailCommit,
                TypeOK
  <2> QED
    BY <1>2, <1>5, <2>1, FlushingIsServed DEF InService
<1> QED
  BY <1>1, <1>3, <1>4, <1>5

\* What a step of a request that neither arrives nor authenticates does to
\* it: it starts no work and, unless it is at work, changes no object.
WorksOn(r) ==
    /\ context' = context
    /\ InService(r)' => InService(r)
    /\ at'[r] \in Working => at[r] \in Working
    /\ mem'[r] \subseteq mem[r] \/ at[r] \in Working
    /\ at'[r] \in {"idle", "arrived", "auth"} =>
         at[r] \in {"idle", "arrived", "auth"} /\ mem'[r] \subseteq mem[r]
    /\ \A q \in Requests \ {r} : at'[q] = at[q] /\ mem'[q] = mem[q]

LEMMA StepWorksOn ==
    ASSUME TypeOK, ControlInv, NEW r \in Requests,
           Lifecycle(r) \/ Handler(r) \/ UnitOfWork(r), ~Arrive(r), ~Authenticate(r)
    PROVE  WorksOn(r)
<1> USE DEF TypeOK, WorksOn, Working, InService
<1>1. CASE OpenSession(r) \/ Refuse(r) \/ Respond(r) \/ RespondBroken(r) \/ Close(r)
  BY <1>1 DEF OpenSession, Refuse, Respond, RespondBroken, Close, ContextOnClear, sessionVars
<1>2. CASE Abort(r)
  BY <1>2 DEF Abort, RolledBack
<1>3. CASE Query(r) \/ NotifyRecipient(r) \/ EndDispatch(r) \/ HandlerRaises(r) \/ BulkFlush(r)
           \/ ImportFlush(r)
  BY <1>3 DEF Query, NotifyRecipient, EndDispatch, HandlerRaises, BulkFlush, ImportFlush,
              sessionVars
<1>4. CASE SaveObject(r) \/ SaveInline(r) \/ PermOps(r) \/ BulkDelete(r) \/ ImportRow(r)
           \/ ImportLog(r)
  BY <1>4 DEF SaveObject, SaveInline, PermOps, BulkDelete, ImportRow, ImportLog, Change,
              sessionVars
<1>5. CASE HookRefuses(r)
  BY <1>5 DEF HookRefuses, RolledBack, sessionVars
<1>6. CASE BeginFlush(r) \/ EndFlush(r) \/ SkipFlush(r) \/ Commit(r)
  BY <1>6 DEF BeginFlush, EndFlush, SkipFlush, Commit, sessionVars
<1>7. CASE FailFlush(r) \/ FailCommit(r)
  <2>1. InService(r)
    BY <1>7, FlushingIsServed DEF UnitOfWork
  <2>2. context' = context /\ \A q \in Requests \ {r} : at'[q] = at[q] /\ mem'[q] = mem[q]
    BY <1>7 DEF FailFlush, FailCommit, RolledBack
  <2>3. mem'[r] = {}
    BY <1>7 DEF FailFlush, FailCommit, RolledBack
  <2>4. PICK p \in AfterFailure(r) : at'[r] = p
    BY <1>7 DEF FailFlush, FailCommit
  <2>5. /\ p \in {"importlog", "broken", "abort"}
        /\ p = "importlog" => at[r] \in {"import", "importlog"}
    BY <2>4 DEF AfterFailure, Recovers
  <2> QED
    BY <2>1, <2>2, <2>3, <2>4, <2>5
<1> QED
  BY <1>1, <1>2, <1>3, <1>4, <1>5, <1>6, <1>7 DEF Lifecycle, Handler, UnitOfWork

\* An arrival overwrites the address and an authentication the identity of
\* everybody in service, all of whom overlap it.
LEMMA ContextStep ==
    ASSUME TypeOK, ControlInv, ServiceInv, ContextInv, NEW r \in Requests,
           Lifecycle(r) \/ Handler(r) \/ UnitOfWork(r)
    PROVE  ContextInv'
<1>0. overlap \subseteq overlap' /\ r # None
  BY ServiceStep, NoneAssumption
<1>2. CASE Arrive(r)
  <2>1. /\ \A q \in Requests \ {r} : at'[q] = at[q]
        /\ at[r] = "idle" /\ at'[r] = "arrived" /\ mem' = mem
        /\ context'.ip = r /\ context'.user = context.user
        /\ \A q \in Requests : InService(q) => <<r, q>> \in overlap'
    BY <1>2 DEF Arrive, ContextOnArrival, TypeOK, sessionVars
  <2>2. mem'[r] = {} /\ at'[r] \notin Working
    BY <2>1 DEF ContextInv, Working
  <2>3. \A q \in Requests : InService(q)' => q = r \/ <<r, q>> \in overlap'
    BY <2>1 DEF InService
  <2>4. \A q \in Requests \ {r} : InService(q)' <=> InService(q)
    BY <2>1 DEF InService
  <2> QED
    BY <1>0, <2>1, <2>2, <2>3, <2>4 DEF ContextInv, Attributable, Working
<1>3. CASE Authenticate(r)
  <2>1. /\ \A q \in Requests \ {r} : at'[q] = at[q]
        /\ at[r] = "auth" /\ at'[r] \in {"handler", "bulk", "import"} /\ mem' = mem
        /\ context'.user = r /\ context'.ip = context.ip
        /\ overlap' = overlap
    BY <1>3 DEF Authenticate, ContextOnAuth, TypeOK, sessionVars
  <2>2. \A q \in Requests : InService(q)' => InService(q)
    BY <2>1 DEF InService
  <2>3. \A q \in Requests : InService(q) => q = r \/ <<r, q>> \in overlap
    BY <2>1 DEF ServiceInv, InService
  <2> QED
    BY <1>0, <2>1, <2>2, <2>3 DEF ContextInv, Attributable, Working
<1>4. CASE ~Arrive(r) /\ ~Authenticate(r)
  <2>1. WorksOn(r)
    BY <1>4, StepWorksOn
  <2>2. \A q \in Requests :
          /\ InService(q)' => InService(q)
          /\ at'[q] \in {"idle", "arrived", "auth"} => mem'[q] = {}
          /\ InService(q)' /\ (at'[q] \in Working \/ mem'[q] # {}) =>
               at[q] \in Working \/ mem[q] # {}
    BY <2>1 DEF WorksOn, ContextInv, InService
  <2> QED
    BY <1>0, <2>1, <2>2 DEF WorksOn, ContextInv, Attributable, Working
<1> QED
  BY <1>2, <1>3, <1>4

LEMMA AttributionStep ==
    ASSUME IInv, HInv, AInv, NEW r \in Requests, Lifecycle(r) \/ Handler(r) \/ UnitOfWork(r)
    PROVE  AttributionInv'
<1>0. TypeOK /\ ControlInv /\ AddressInv /\ ChangeInv /\ ServiceInv /\ ContextInv
  BY DEF IInv, HInv, AInv
<1>1. overlap \subseteq overlap'
  BY <1>0, ServiceStep
<1> DEFINE Known(who, q) == who # None /\ (who = q \/ <<who, q>> \in overlap')
<1>2. ASSUME UnitOfWork(r), mem[r] # {}
      PROVE  Known(context.user, r) /\ Known(context.ip, r)
  BY <1>0, <1>1, <1>2, FlushingIsServed DEF ContextInv, Attributable
<1>3. ASSUME NEW row \in KnownRows'
      PROVE  \/ Known(row.user, row.change.req) /\ Known(row.ip, row.change.req)
             \/ Dead(row.change)'
  <2>1. CASE row \in KnownRows
    <3>1. row.change \in Changes /\ row.change.req \in Requests /\ Audited(row.change)
      BY <1>0, <2>1 DEF KnownRows, TypeOK, Rows, Changes, HInv, UnrecordedInv
    <3> QED
      BY <1>0, <1>1, <2>1, <3>1, DeadStays DEF AInv, AttributionInv, Attributable
  <2>2. CASE BeginFlush(r) /\ row \in DirtyRows(r)
    <3>1. /\ row.change \in mem[r] /\ row.change.req = r
          /\ row.user = context.user /\ row.ip = context.ip
      BY <1>0, <2>2, DirtyRowsOwn
    <3> QED
      BY <1>2, <2>2, <3>1 DEF UnitOfWork
  <2>3. CASE EndFlush(r) /\ row \in CreateRows(r)
    <3>1. addr[r] \in Addresses
      BY <1>0, <2>3 DEF TypeOK, ControlInv, EndFlush
    <3>2. /\ row.change \in pending[addr[r]]
          /\ row.user = context.user /\ row.ip = context.ip
      BY <2>3, CreateRowsHeld
    <3>3. row.change \in Changes /\ row.change.req \in Requests /\ Audited(row.change)
      BY <3>1, <3>2 DEF IInv, TypeOK, DirtyInv, Audited, Changes
    <3>4. CASE Dead(row.change)
      BY <1>0, <3>3, <3>4, DeadStays
    <3>5. CASE BeingWritten(row.change, addr[r])
      <4>1. row.change.req = r /\ mem[r] # {}
        BY <1>0, <3>1, <3>3, <3>5, NoneAssumption DEF BeingWritten, AddressInv
      <4> QED
        BY <1>2, <2>3, <3>2, <4>1 DEF UnitOfWork
    <3> QED
      BY <3>1, <3>2, <3>4, <3>5 DEF HInv, PendingInv
  <2> QED
    BY <1>0, <1>3, <2>1, <2>2, <2>3, NextRows
<1>4. ASSUME NEW row \in KnownRows'
      PROVE  \/ Attributable(row.user, row.change.req)' /\ Attributable(row.ip, row.change.req)'
             \/ Dead(row.change)'
  BY <1>3, <1>4 DEF Attributable
<1> HIDE DEF Known
<1> QED
  BY <1>4 DEF AttributionInv

LEMMA AttributionNext == IInv /\ HInv /\ AInv /\ [Next]_vars => AInv'
<1>1. SUFFICES ASSUME IInv, HInv, AInv, [Next]_vars PROVE AInv'
  OBVIOUS
<1>2. CASE Next
  <2>1. PICK r \in Requests : Lifecycle(r) \/ Handler(r) \/ UnitOfWork(r)
    BY <1>2 DEF Next
  <2>2. AttributionInv'
    BY <1>1, <2>1, AttributionStep
  <2> QED
    BY <1>1, <2>1, <2>2, ServiceStep, ContextStep DEF IInv, AInv
<1>3. CASE UNCHANGED vars
  <2>1. UNCHANGED <<context, at, step, mem, tx, rowsMem, rowsTx, committed, auditLog, overlap>>
    BY <1>3 DEF vars
  <2>2. KnownRows' = KnownRows
    BY <2>1 DEF KnownRows
  <2> QED
    BY <1>1, <2>1, <2>2 DEF AInv, ServiceInv, ContextInv, AttributionInv, InService, Working,
                            Attributable, Dead, Made
<1> QED
  BY <1>1, <1>2, <1>3

\* No row of a committed change is anonymous, and it names the request that
\* made the change or one that was in service at the same time
\* (audit/context.py: one dictionary for all tasks; audit/listener.py reads
\* it when it builds the row).
THEOREM Attribution == Spec => []MisattributionNeedsOverlap
<1>1. Init => AInv
  BY DEF Init, AInv, ServiceInv, ContextInv, AttributionInv, InService, KnownRows
<1>2. IInv /\ HInv /\ AInv /\ [Next]_vars => AInv'
  BY AttributionNext
<1>3. AInv => MisattributionNeedsOverlap
  <2>1. SUFFICES ASSUME AInv, NEW row \in auditLog, row.change \in committed
                 PROVE  Attributable(row.user, row.change.req)
                        /\ Attributable(row.ip, row.change.req)
    BY DEF MisattributionNeedsOverlap, Attributable
  <2> QED
    BY <2>1 DEF AInv, AttributionInv, KnownRows, Dead
<1> QED
  BY <1>1, <1>2, <1>3, Invariance, HistoryInvariance, PTL DEF Spec


-----------------------------------------------------------------------------
(* Changelist: the invariant.                                                 *)

JobType == [does : {"idle", "sort", "done", "failed"}, list : Seq(Ids), pos : Nat \ {0},
            read : UNION {[D -> Nat] : D \in SUBSET Ids}]
OfferType == [page : (Nat \ {0}) \cup {Missing}, after : Ids \cup {Missing}]

ListTyped ==
    /\ ListTypeOK
    /\ next \in [Readers -> OfferType]
    /\ pages \in [Readers -> Seq(Seq(Ids))]
    /\ job \in [Writers -> JobType]
    /\ asked \in [Readers -> ListQuery]
    /\ modes \in [Readers -> SUBSET {"offset", "cursor"}]
    /\ steady \in [Readers -> SUBSET Ids] /\ came \in [Readers -> SUBSET Ids]
    /\ late \in [Readers -> SUBSET Ids] /\ left \in [Readers -> SUBSET Ids]
    /\ stale \in [Writers -> SUBSET Ids]

Asking(r) == stage[r] \in {"decide", "count", "items"}
Started(r) == Asking(r) \/ stage[r] \in {"shown", "done"}

\* What a request that has not begun has left, how a page is fetched, and what a
\* list offers when it is over.
BeginInv(r) ==
    /\ stage[r] = "idle" => /\ pages[r] = <<>> /\ modes[r] = {} /\ next[r] = Nothing
                            /\ came[r] = {} /\ late[r] = {} /\ left[r] = {}
    /\ stage[r] \in {"count", "items"} => using[r] \in {"offset", "cursor"}
    /\ strategy # "dynamic" /\ ~(stage[r] \in {"exported", "failed"}) => using[r] = strategy
    /\ stage[r] = "decide" => strategy = "dynamic"
    /\ Started(r) => client[r] \in {"api", "browser"}
    /\ stage[r] = "shown" => modes[r] # {}
    /\ stage[r] = "done" => next[r] = Nothing /\ modes[r] # {}

\* The requests of a walk through one list differ by page and cursor only.
SameList(r) ==
    /\ asked[r].before = Missing /\ asked[r].after = Missing /\ asked[r].page = 1
    /\ [query[r] EXCEPT !.page = 1, !.after = Missing] = asked[r]
QueryInv(r) ==
    Started(r) =>
        /\ asked[r] = NoQuery => SameList(r)
        /\ /\ client[r] = "api" /\ asked[r].before = Missing
           /\ asked[r].after = Missing /\ asked[r].page = 1
           => SameList(r)

\* What stays in the list of r is in it.
SteadyInv(r) ==
    Walking(r) /\ SameList(r) => \A i \in steady[r] : Matches(query[r], rows[i])

\* The page and the cursor of the next request, or of the one under way.
NextPage(r) == IF Asking(r) THEN query[r].page ELSE next[r].page
NextAfter(r) == IF Asking(r) THEN query[r].after ELSE next[r].after
Over(r) == ~Asking(r) /\ next[r] = Nothing

\* A cursor comes from a page that was fetched by cursor, and instead of a page.
CursorInv(r) ==
    Started(r) /\ SameList(r) =>
        /\ modes[r] \subseteq {"offset"} => NextAfter(r) = Missing
        /\ modes[r] \subseteq {"cursor"} =>
             NextPage(r) = IF Asking(r) THEN 1 ELSE Missing
        /\ ~Over(r) => (NextAfter(r) = Missing \/ NextPage(r) \in {1, Missing})
        /\ NextAfter(r) = Missing /\ ~Over(r) => NextPage(r) \in Nat \ {0}

\* A walk by cursors has shown what is up to the cursor, once.
ByCursorInv(r) ==
    Started(r) /\ SameList(r) /\ modes[r] \subseteq {"cursor"} /\ Ordering(query[r]) = "id" =>
        \A i \in steady[r] :
            Times(r, i) = IF Over(r) \/ (NextAfter(r) # Missing /\ i <= NextAfter(r))
                          THEN 1 ELSE 0

\* How many rows of the list come before i.
Listed(r) == {j \in Ids : Matches(query[r], rows[j])}
Preceding(r, i) == {j \in Listed(r) : Before(Ordering(query[r]), j, i)}

\* What has not been shown is still ahead, unless a row before it left, or came
\* between a count and its items.
InKeyOrder(r) ==
    Ordering(query[r]) = "id" \/ (Ordering(query[r]) = "-id" /\ modes[r] \subseteq {"offset"})
Undisturbed(r, i) == \A j \in left[r] \cup late[r] : ~Before(Ordering(query[r]), j, i)
AheadInv(r) ==
    Started(r) /\ SameList(r) /\ InKeyOrder(r) =>
        \A i \in steady[r] : Times(r, i) = 0 /\ Undisturbed(r, i) =>
            /\ ~Over(r)
            /\ NextAfter(r) # Missing => i > NextAfter(r)
            /\ NextAfter(r) = Missing =>
                 Cardinality(Preceding(r, i)) >= Offset(NextPage(r))
            /\ stage[r] = "items" /\ using[r] = "offset" => Cardinality(Preceding(r, i)) < total[r]

\* While no row leaves the list, the next page is one there is.
PagesInv(r) ==
    Started(r) /\ SameList(r) /\ modes[r] \subseteq {"offset"} /\ left[r] = {} =>
        /\ Asking(r) => NextPage(r) <= TotalPages(Cardinality(Listed(r)))
        /\ stage[r] = "items" /\ using[r] = "offset" =>
             total[r] <= Cardinality(Listed(r)) /\ NextPage(r) <= TotalPages(total[r])
        /\ stage[r] = "shown" /\ NextPage(r) # Missing =>
             NextPage(r) <= TotalPages(Cardinality(Listed(r)))

\* While no row leaves the list nor comes before i, i has been shown once at
\* most, and then on a page before the next one.
OnceInv(r) ==
    Started(r) /\ SameList(r) /\ modes[r] \subseteq {"offset"} /\ left[r] = {}
        /\ Ordering(query[r]) \in {"id", "-id"} =>
        \A i \in steady[r] : (\A j \in came[r] : ~Before(Ordering(query[r]), j, i)) =>
            /\ Times(r, i) <= 1
            /\ Times(r, i) = 1 /\ ~Over(r) =>
                 Cardinality(Preceding(r, i)) < Offset(NextPage(r))

\* The page before a cursor leaves out the nearest row, when it leaves out any.
LeavesOutTheNearest(page, S) ==
    IF Cardinality(S) <= PerPage THEN page = S
    ELSE {i \in S : \A j \in page : i > j} = {CHOOSE i \in S : \A j \in S : i >= j}
GapInv(r) ==
    /\ stage[r] = "shown" /\ Len(pages[r]) = 1 /\ modes[r] = {"cursor"}
    /\ PagesBack(query[r], "cursor") /\ Ordering(query[r]) = ""
    /\ came[r] \cup left[r] = {}
    => LeavesOutTheNearest({pages[r][1][n] : n \in DOMAIN pages[r][1]},
                           Selected(query[r], "cursor"))

\* A sort has read the places of rows, and they stand unless the row is stale.
JobInv(w) ==
    /\ job[w].does = "sort" =>
         \A i \in DOMAIN job[w].read \ stale[w] :
             rows[i] # Missing /\ rows[i].place = job[w].read[i]
    /\ job[w].does = "idle" => job[w].read = <<>>
    /\ \A i \in DOMAIN job[w].read : \E k \in DOMAIN job[w].list : job[w].list[k] = i

ReaderInv(r) ==
    /\ BeginInv(r) /\ QueryInv(r) /\ SteadyInv(r) /\ CursorInv(r) /\ ByCursorInv(r)
    /\ AheadInv(r) /\ PagesInv(r) /\ OnceInv(r) /\ GapInv(r)

ListInv ==
    /\ ListTyped
    /\ \A r \in Readers : ReaderInv(r)
    /\ \A w \in Writers : JobInv(w)

-----------------------------------------------------------------------------
(* Sequences of ids and their parts.                                          *)

\* A set of ids is finite, and no larger than the sequence of keys is long.
LEMMA IdsAreFinite ==
    ASSUME NEW S \in SUBSET Ids
    PROVE  IsFiniteSet(S) /\ Cardinality(S) \in 0 .. MaxId
<1>1. MaxId \in Nat
  BY ChangelistAssumption DEF ChangelistAssumption
<1>2. IsFiniteSet(1 .. MaxId) /\ Cardinality(1 .. MaxId) = MaxId
  BY <1>1, FS_Interval
<1>3. IsFiniteSet(S) /\ Cardinality(S) <= MaxId
  BY <1>2, FS_Subset DEF Ids
<1> QED
  BY <1>1, <1>3, FS_CardinalityType

\* Ids are numbers, and the mark of a missing row is none.
LEMMA IdsAreNumbers ==
    /\ \A i \in Ids : i \in Nat /\ i > 0
    /\ Missing \notin Nat /\ Missing \notin Ids
    /\ PerPage \in Nat \ {0} /\ MaxId \in Nat
BY ChangelistAssumption DEF ChangelistAssumption, Ids

\* A set in some order: each of its elements once.
LEMMA InSomeOrder ==
    ASSUME NEW S \in SUBSET Ids, NEW s \in SetToSeqs(S)
    PROVE  /\ s \in Seq(S) /\ s \in Seq(Ids) /\ Len(s) = Cardinality(S)
           /\ \A k \in 1 .. Len(s) : s[k] \in S /\ s[k] \in Ids /\ s[k] \in Nat
           /\ \A j, k \in 1 .. Len(s) : s[j] = s[k] => j = k
           /\ \A i \in S : \E k \in 1 .. Len(s) : s[k] = i
<1> DEFINE D == 1 .. Cardinality(S)
<1>1. Cardinality(S) \in Nat /\ IsFiniteSet(S)
  BY IdsAreFinite
<1>2. s \in [D -> S] /\ \A j, k \in D : j # k => s[j] # s[k]
  BY DEF SetToSeqs
<1>3. s \in Seq(S) /\ Len(s) = Cardinality(S) /\ s \in Seq(Ids)
  <2>1. s \in Seq(S) /\ Len(s) = Cardinality(S)
    BY <1>1, <1>2
  <2> QED
    BY <2>1
<1>4. s \in Injection(D, S)
  BY <1>2 DEF Injection, IsInjective
<1>5. IsFiniteSet(D) /\ Cardinality(D) = Cardinality(S)
  BY <1>1, FS_Interval
<1> HIDE DEF D
<1>6. s \in Surjection(D, S)
  BY <1>1, <1>4, <1>5, FS_Injection
<1>7. ASSUME NEW k \in 1 .. Len(s)
      PROVE  s[k] \in S /\ s[k] \in Ids /\ s[k] \in Nat
  <2>1. s[k] \in S
    BY <1>3
  <2> QED
    BY <2>1, IdsAreNumbers
<1> QED
  BY <1>2, <1>3, <1>6, <1>7 DEF Surjection, D

\* A part of a sequence.
LEMMA SliceIs ==
    ASSUME NEW s \in Seq(Ids), NEW from \in Nat, NEW n \in Nat
    PROVE  /\ Slice(s, from, n) \in Seq(Ids)
           /\ Len(Slice(s, from, n)) <= n
           /\ \A k \in 1 .. Len(Slice(s, from, n)) :
                from + k \in 1 .. Len(s) /\ Slice(s, from, n)[k] = s[from + k]
           /\ \A k \in 1 .. Len(s) :
                from < k /\ k <= from + n =>
                    k - from \in 1 .. Len(Slice(s, from, n)) /\ Slice(s, from, n)[k - from] = s[k]
<1> DEFINE m == IF from + n > Len(s) THEN Len(s) ELSE from + n
<1>1. m \in Nat /\ m <= Len(s) /\ m <= from + n /\ Slice(s, from, n) = SubSeq(s, from + 1, m)
  BY DEF Slice
<1>1a. (m = Len(s) \/ m = from + n) /\ Len(s) \in Nat
  OBVIOUS
<1> HIDE DEF m
<1>2. \A i \in from + 1 .. m : s[i] \in Ids
  BY <1>1
<1>3. /\ SubSeq(s, from + 1, m) \in Seq(Ids)
      /\ Len(SubSeq(s, from + 1, m)) = IF from + 1 <= m THEN m - (from + 1) + 1 ELSE 0
      /\ \A i \in 1 .. m - (from + 1) + 1 : SubSeq(s, from + 1, m)[i] = s[from + 1 + i - 1]
  BY <1>1, <1>2, SubSeqProperties
<1>4. Len(SubSeq(s, from + 1, m)) = IF from < m THEN m - from ELSE 0
  BY <1>1, <1>3
<1>5. ASSUME NEW k \in 1 .. Len(SubSeq(s, from + 1, m))
      PROVE  from + k \in 1 .. Len(s) /\ SubSeq(s, from + 1, m)[k] = s[from + k]
  <2>1. from < m /\ k \in 1 .. m - (from + 1) + 1 /\ k <= m - from
    BY <1>1, <1>4
  <2>2. from + 1 + k - 1 = from + k
    BY <2>1
  <2> QED
    BY <1>1, <1>3, <2>1, <2>2
<1>6. ASSUME NEW k \in 1 .. Len(s), from < k, k <= from + n
      PROVE  k - from \in 1 .. Len(SubSeq(s, from + 1, m))
  BY <1>1, <1>1a, <1>4, <1>6
<1>7. ASSUME NEW k \in 1 .. Len(s), from < k, k <= from + n
      PROVE  SubSeq(s, from + 1, m)[k - from] = s[k]
  <2>1. from + (k - from) = k
    OBVIOUS
  <2> QED
    BY <1>5, <1>6, <1>7, <2>1
<1>8. Len(SubSeq(s, from + 1, m)) <= n
  BY <1>1, <1>4
<1> QED
  BY <1>1, <1>3, <1>5, <1>6, <1>7, <1>8

\* A sequence from its end.
LEMMA ReverseIs ==
    ASSUME NEW s \in Seq(Ids)
    PROVE  /\ Reverse(s) \in Seq(Ids) /\ Len(Reverse(s)) = Len(s)
           /\ \A k \in 1 .. Len(s) : Reverse(s)[k] = s[Len(s) - k + 1]
           /\ \A k \in 1 .. Len(s) : Reverse(s)[Len(s) - k + 1] = s[k]
<1>1. Reverse(s) = [k \in 1 .. Len(s) |-> s[(Len(s) - k) + 1]]
  BY DEF Reverse
<1>2. ASSUME NEW k \in 1 .. Len(s)
      PROVE  (Len(s) - k) + 1 \in 1 .. Len(s) /\ (Len(s) - ((Len(s) - k) + 1)) + 1 = k
  OBVIOUS
<1>3. Reverse(s) \in Seq(Ids) /\ Len(Reverse(s)) = Len(s)
  BY <1>1, <1>2
<1> QED
  BY <1>1, <1>2, <1>3

\* A sequence in which no element occurs twice, and its ids in order.
OnceEach(s) == \A j, k \in 1 .. Len(s) : s[j] = s[k] => j = k
Rising(s) == \A j, k \in 1 .. Len(s) : j < k => s[j] < s[k]
Falling(s) == \A j, k \in 1 .. Len(s) : j < k => s[j] > s[k]

\* The order of the key puts ids in the order of numbers, or the other way round.
LEMMA InKeyOrderRises ==
    ASSUME NEW S \in SUBSET Ids
    PROVE  /\ \A s \in Sorted(S, "id") : Rising(s)
           /\ \A s \in Sorted(S, "-id") : Falling(s)
<1>1. ASSUME NEW ord, NEW s \in Sorted(S, ord)
      PROVE  /\ \A j, k \in 1 .. Len(s) : j < k => ~Before(ord, s[k], s[j])
             /\ s \in Seq(S) /\ OnceEach(s) /\ \A k \in 1 .. Len(s) : s[k] \in Nat
  <2>1. s \in SetToSeqs(S) /\ \A k \in DOMAIN s : \A j \in 1 .. k - 1 : ~Before(ord, s[k], s[j])
    BY DEF Sorted
  <2>2. s \in Seq(S) /\ OnceEach(s) /\ \A k \in 1 .. Len(s) : s[k] \in Nat
    BY <2>1, InSomeOrder DEF OnceEach
  <2>3. ASSUME NEW j \in 1 .. Len(s), NEW k \in 1 .. Len(s), j < k
        PROVE  ~Before(ord, s[k], s[j])
    <3>1. k \in DOMAIN s /\ j \in 1 .. k - 1
      BY <2>2, <2>3
    <3> QED
      BY <2>1, <3>1
  <2> QED
    BY <2>2, <2>3
<1>2. ASSUME NEW s \in Sorted(S, "id"), NEW j \in 1 .. Len(s), NEW k \in 1 .. Len(s), j < k
      PROVE  s[j] < s[k]
  <2>1. ~(s[k] < s[j])
    BY <1>1, <1>2 DEF Before
  <2>2. s[j] # s[k] /\ s[j] \in Nat /\ s[k] \in Nat
    BY <1>1, <1>2 DEF OnceEach
  <2> QED
    BY <2>1, <2>2
<1>3. ASSUME NEW s \in Sorted(S, "-id"), NEW j \in 1 .. Len(s), NEW k \in 1 .. Len(s), j < k
      PROVE  s[j] > s[k]
  <2>1. ~(s[k] > s[j])
    BY <1>1, <1>3 DEF Before
  <2>2. s[j] # s[k] /\ s[j] \in Nat /\ s[k] \in Nat
    BY <1>1, <1>3 DEF OnceEach
  <2> QED
    BY <2>1, <2>2
<1> QED
  BY <1>2, <1>3 DEF Rising, Falling

\* In the order of the key, k - 1 ids come before the one in place k.
LEMMA PlaceInKeyOrder ==
    ASSUME NEW S \in SUBSET Ids, NEW ord \in {"id", "-id"}, NEW s \in Sorted(S, ord),
           NEW k \in 1 .. Len(s)
    PROVE  Cardinality({j \in S : Before(ord, j, s[k])}) = k - 1
<1> DEFINE T == {j \in S : Before(ord, j, s[k])}
           f == [n \in 1 .. k - 1 |-> s[n]]
<1>1. /\ s \in Seq(S) /\ OnceEach(s) /\ (\A i \in S : \E n \in 1 .. Len(s) : s[n] = i)
      /\ \A n \in 1 .. Len(s) : s[n] \in Nat
  BY InSomeOrder DEF Sorted, OnceEach
<1>2. \A n \in 1 .. Len(s) : Before(ord, s[n], s[k]) <=> n < k
  <2>1. CASE ord = "id"
    <3>1. Rising(s)
      BY <2>1, InKeyOrderRises
    <3>2. ASSUME NEW n \in 1 .. Len(s)
          PROVE  s[n] < s[k] <=> n < k
      <4>1. s[n] \in Nat /\ s[k] \in Nat
        BY <1>1
      <4>2. CASE n < k
        BY <3>1, <4>2 DEF Rising
      <4>3. CASE n = k
        BY <4>1, <4>3
      <4>4. CASE k < n
        BY <3>1, <4>1, <4>4 DEF Rising
      <4> QED
        BY <4>2, <4>3, <4>4
    <3> QED
      BY <2>1, <3>2 DEF Before
  <2>2. CASE ord = "-id"
    <3>1. Falling(s)
      BY <2>2, InKeyOrderRises
    <3>2. ASSUME NEW n \in 1 .. Len(s)
          PROVE  s[n] > s[k] <=> n < k
      <4>1. s[n] \in Nat /\ s[k] \in Nat
        BY <1>1
      <4>2. CASE n < k
        BY <3>1, <4>2 DEF Falling
      <4>3. CASE n = k
        BY <4>1, <4>3
      <4>4. CASE k < n
        BY <3>1, <4>1, <4>4 DEF Falling
      <4> QED
        BY <4>2, <4>3, <4>4
    <3> QED
      BY <2>2, <3>2 DEF Before
  <2> QED
    BY <2>1, <2>2
<1>3. k \in Nat /\ k <= Len(s) /\ \A n \in 1 .. k - 1 : n \in 1 .. Len(s) /\ n < k
  BY <1>1
<1>4. f \in [1 .. k - 1 -> T]
  BY <1>1, <1>2, <1>3
<1>5. \A i \in T : \E n \in 1 .. k - 1 : f[n] = i
  <2>1. ASSUME NEW i \in T
        PROVE  \E n \in 1 .. k - 1 : f[n] = i
    <3>1. PICK n \in 1 .. Len(s) : s[n] = i
      BY <1>1
    <3>2. n < k
      BY <1>2, <3>1
    <3> QED
      BY <1>3, <3>1, <3>2
  <2> QED
    BY <2>1
<1>6. f \in Injection(1 .. k - 1, T)
  BY <1>1, <1>3, <1>4 DEF OnceEach, Injection, IsInjective
<1>7. IsFiniteSet(T)
  BY IdsAreFinite
<1>8. f \in Surjection(1 .. k - 1, T)
  BY <1>4, <1>5 DEF Surjection
<1>9. Cardinality(1 .. k - 1) = k - 1
  BY <1>3, FS_Interval
<1> HIDE DEF T, f
<1>10. Cardinality(1 .. k - 1) = Cardinality(T)
  BY <1>6, <1>7, <1>8, FS_Injection
<1> QED
  BY <1>9, <1>10 DEF T

-----------------------------------------------------------------------------
(* Numbers of pages, and how often a row was shown.                           *)

\* The pages of a list hold all of it, and a longer list has no fewer pages.
LEMMA PagesCover ==
    /\ \A n \in Nat : TotalPages(n) \in Nat \ {0} /\ Offset(TotalPages(n) + 1) >= n
    /\ \A m, n \in Nat : m <= n => TotalPages(m) <= TotalPages(n)
<1> DEFINE q(n) == (n + PerPage - 1) \div PerPage
<1>1. \A n \in Nat : /\ q(n) \in Nat
                     /\ q(n) * PerPage <= n + PerPage - 1
                     /\ n + PerPage - 1 < q(n) * PerPage + PerPage
  BY IdsAreNumbers
<1>2. \A n \in Nat : TotalPages(n) = IF q(n) < 1 THEN 1 ELSE q(n)
  BY DEF TotalPages, AtLeastOne
<1> HIDE DEF q
<1>3. ASSUME NEW n \in Nat
      PROVE  TotalPages(n) \in Nat \ {0} /\ TotalPages(n) * PerPage >= n
  <2>1. q(n) \in Nat /\ n <= q(n) * PerPage
    BY <1>1, IdsAreNumbers
  <2>2. CASE q(n) < 1
    BY <1>2, <2>1, <2>2, IdsAreNumbers
  <2>3. CASE ~(q(n) < 1)
    BY <1>2, <2>1, <2>3
  <2> QED
    BY <2>2, <2>3
<1>4. ASSUME NEW n \in Nat
      PROVE  Offset(TotalPages(n) + 1) >= n
  <2>1. (TotalPages(n) + 1) - 1 = TotalPages(n)
    BY <1>3
  <2> QED
    BY <1>3, <2>1 DEF Offset
<1>5. ASSUME NEW m \in Nat, NEW n \in Nat, m <= n
      PROVE  TotalPages(m) <= TotalPages(n)
  <2>1. q(m) <= q(n)
    <3>1. SUFFICES ASSUME q(n) < q(m)
                   PROVE  FALSE
      BY <1>1
    <3>2. q(n) + 1 <= q(m) /\ q(n) \in Nat /\ q(m) \in Nat /\ PerPage \in Nat
      BY <1>1, <3>1, IdsAreNumbers
    <3>3. (q(n) + 1) * PerPage <= q(m) * PerPage
      BY <3>2
    <3>4. (q(n) + 1) * PerPage = q(n) * PerPage + PerPage
      BY <3>2
    <3> DEFINE a == q(n) * PerPage
               b == q(m) * PerPage
    <3>5. /\ a \in Nat /\ b \in Nat /\ a + PerPage <= b /\ b <= m + PerPage - 1
          /\ n + PerPage - 1 < a + PerPage
      BY <1>1, <3>2, <3>3, <3>4
    <3> HIDE DEF a, b
    <3> QED
      BY <1>5, <3>2, <3>5
  <2> QED
    BY <1>1, <1>2, <2>1
<1> QED
  BY <1>3, <1>4, <1>5

\* The offsets of pages are a page apart.
LEMMA Offsets ==
    /\ Offset(1) = 0
    /\ \A p \in Nat \ {0} : Offset(p) \in Nat /\ Offset(p + 1) = Offset(p) + PerPage
    /\ \A p, q \in Nat \ {0} : p <= q => Offset(p) <= Offset(q)
<1>1. PerPage \in Nat
  BY IdsAreNumbers
<1>2. Offset(1) = 0
  BY <1>1 DEF Offset
<1>3. ASSUME NEW p \in Nat \ {0}
      PROVE  Offset(p) \in Nat /\ Offset(p + 1) = Offset(p) + PerPage
  <2>1. PICK m \in Nat : p = m + 1
    BY p - 1 \in Nat, p = (p - 1) + 1
  <2>2. (m + 1) - 1 = m /\ (m + 1 + 1) - 1 = m + 1
    BY <2>1
  <2>3. Offset(p) = m * PerPage /\ Offset(p + 1) = (m + 1) * PerPage
    BY <2>1, <2>2 DEF Offset
  <2>4. m * PerPage \in Nat /\ (m + 1) * PerPage = m * PerPage + PerPage
    BY <1>1
  <2> QED
    BY <2>3, <2>4
<1>4. ASSUME NEW p \in Nat \ {0}, NEW q \in Nat \ {0}, p <= q
      PROVE  Offset(p) <= Offset(q)
  <2>1. p - 1 \in Nat /\ q - 1 \in Nat /\ p - 1 <= q - 1
    BY <1>4
  <2>2. \A a, b \in Nat : a <= b => a * PerPage <= b * PerPage
    BY <1>1
  <2> QED
    BY <2>1, <2>2 DEF Offset
<1> QED
  BY <1>2, <1>3, <1>4

OnPage(page, i) == \E n \in DOMAIN page : page[n] = i

\* How often a row was shown is a number.
LEMMA TimesIsANumber ==
    ASSUME NEW r \in Readers, ListTyped, NEW i
    PROVE  Times(r, i) \in Nat
<1>1. pages[r] \in Seq(Seq(Ids))
  BY DEF ListTyped
<1>2. IsFiniteSet(1 .. Len(pages[r]))
  BY <1>1, FS_Interval
<1>3. IsFiniteSet({k \in DOMAIN pages[r] : \E n \in DOMAIN pages[r][k] : pages[r][k][n] = i})
  BY <1>1, <1>2, FS_Subset
<1> QED
  BY <1>3, FS_CardinalityType DEF Times

\* A row was never shown while no page was.
LEMMA TimesOfNone ==
    ASSUME NEW r \in Readers, pages'[r] = <<>>, NEW i
    PROVE  Times(r, i)' = 0
<1>1. {k \in DOMAIN pages'[r] : \E n \in DOMAIN pages'[r][k] : pages'[r][k][n] = i} = {}
  OBVIOUS
<1> QED
  BY <1>1, FS_EmptySet DEF Times

\* Another page shows the rows that are on it once more.
LEMMA TimesAfterAPage ==
    ASSUME NEW r \in Readers, ListTyped, NEW page, pages'[r] = Append(pages[r], page), NEW i
    PROVE  Times(r, i)' = Times(r, i) + (IF OnPage(page, i) THEN 1 ELSE 0)
<1> DEFINE old == {k \in DOMAIN pages[r] : OnPage(pages[r][k], i)}
           new == {k \in DOMAIN pages'[r] : OnPage(pages'[r][k], i)}
           n == Len(pages[r])
<1>1. pages[r] \in Seq(Seq(Ids)) /\ n \in Nat
  BY DEF ListTyped
<1>2. /\ DOMAIN pages[r] = 1 .. n /\ DOMAIN pages'[r] = 1 .. n + 1
      /\ \A k \in 1 .. n : pages'[r][k] = pages[r][k]
      /\ pages'[r][n + 1] = page
  <2> DEFINE s == pages[r]
             t == Append(s, page)
  <2>1. s \in Seq(Seq(Ids)) /\ t = pages'[r] /\ n = Len(s)
    BY <1>1
  <2>2. DOMAIN s = 1 .. Len(s) /\ DOMAIN t = 1 .. Len(s) + 1 /\ t[Len(s) + 1] = page
    BY <2>1
  <2>3. \A k \in 1 .. Len(s) : t[k] = s[k]
    BY <2>1
  <2> HIDE DEF s, t
  <2>4. pages[r] = s
    BY DEF s
  <2> QED
    BY <2>1, <2>2, <2>3, <2>4
<1>3. Times(r, i) = Cardinality(old) /\ Times(r, i)' = Cardinality(new)
  BY DEF Times, OnPage
<1>4. new = IF OnPage(page, i) THEN old \cup {n + 1} ELSE old
  <2>1. \A k : k \in 1 .. n + 1 <=> k \in 1 .. n \/ k = n + 1
    BY <1>1
  <2>2. n + 1 \notin 1 .. n
    BY <1>1
  <2>3. ASSUME NEW k
        PROVE  k \in new <=> k \in old \/ (k = n + 1 /\ OnPage(page, i))
    BY <1>2, <2>1, <2>2
  <2> QED
    BY <2>3
<1>5. IsFiniteSet(old) /\ n + 1 \notin old
  <2>1. old \subseteq 1 .. n
    BY <1>2
  <2>2. IsFiniteSet(1 .. n)
    BY <1>1, FS_Interval
  <2> QED
    BY <1>1, <2>1, <2>2, FS_Subset
<1> HIDE DEF old, new, n
<1>6. Cardinality(old) \in Nat
  BY <1>5, FS_CardinalityType
<1>7. Cardinality(old \cup {n + 1}) = Cardinality(old) + 1
  BY <1>5, FS_AddElement
<1> QED
  BY <1>3, <1>4, <1>6, <1>7

-----------------------------------------------------------------------------
(* What a step leaves as it is.                                               *)

\* The list r walks through stays the same while no row changes and the query
\* asks for the same.
LEMMA ListStands ==
    ASSUME NEW r \in Readers, rows' = rows, Ordering(query[r])' = Ordering(query[r]),
           \A row : Matches(query'[r], row) <=> Matches(query[r], row)
    PROVE  /\ \A i, j : Before(Ordering(query[r]), j, i)' <=> Before(Ordering(query[r]), j, i)
           /\ Listed(r)' = Listed(r)
           /\ \A i : Preceding(r, i)' = Preceding(r, i)
<1>1. \A i, j : Before(Ordering(query[r]), j, i)' <=> Before(Ordering(query[r]), j, i)
  BY DEF Before
<1>2. Listed(r)' = Listed(r)
  BY DEF Listed
<1>3. \A i : Preceding(r, i)' = Preceding(r, i)
  BY <1>1, <1>2 DEF Preceding
<1> QED
  BY <1>1, <1>2, <1>3

KeepsWalk(r) ==
    /\ rows' = rows /\ strategy' = strategy /\ ordering' = ordering
    /\ client'[r] = client[r] /\ query'[r] = query[r] /\ pages'[r] = pages[r]
    /\ asked'[r] = asked[r] /\ modes'[r] = modes[r] /\ steady'[r] = steady[r]
    /\ came'[r] = came[r] /\ late'[r] = late[r] /\ left'[r] = left[r]

WalkIsAsBefore(r) ==
    /\ Ordering(query[r])' = Ordering(query[r])
    /\ \A i, j : Before(Ordering(query[r]), j, i)' <=> Before(Ordering(query[r]), j, i)
    /\ Listed(r)' = Listed(r)
    /\ \A i : Preceding(r, i)' = Preceding(r, i)
    /\ \A i : Times(r, i)' = Times(r, i)
    /\ SameList(r)' <=> SameList(r)
    /\ InKeyOrder(r)' <=> InKeyOrder(r)
    /\ \A i : Undisturbed(r, i)' <=> Undisturbed(r, i)
    /\ \A i : Matches(query'[r], rows'[i]) <=> Matches(query[r], rows[i])
    /\ Selected(query[r], "cursor")' = Selected(query[r], "cursor")
    /\ PagesBack(query'[r], "cursor") <=> PagesBack(query[r], "cursor")

\* A request that keeps its walk keeps what the invariant says of it.
LEMMA WalkStands ==
    ASSUME NEW r \in Readers, KeepsWalk(r)
    PROVE  WalkIsAsBefore(r)
<1>1. Ordering(query[r])' = Ordering(query[r])
  BY DEF Ordering, KeepsWalk
<1>2. /\ \A i, j : Before(Ordering(query[r]), j, i)' <=> Before(Ordering(query[r]), j, i)
      /\ Listed(r)' = Listed(r)
      /\ \A i : Preceding(r, i)' = Preceding(r, i)
  BY <1>1, ListStands DEF KeepsWalk
<1>3. \A i : Times(r, i)' = Times(r, i)
  BY DEF Times, KeepsWalk
<1>4. (SameList(r)' <=> SameList(r)) /\ (InKeyOrder(r)' <=> InKeyOrder(r))
  BY <1>1 DEF SameList, InKeyOrder, KeepsWalk
<1>5. \A i : Undisturbed(r, i)' <=> Undisturbed(r, i)
  BY <1>2 DEF Undisturbed, KeepsWalk
<1>6. \A i : Matches(query'[r], rows'[i]) <=> Matches(query[r], rows[i])
  BY DEF KeepsWalk
<1>7. Selected(query[r], "cursor")' = Selected(query[r], "cursor")
  BY DEF Selected, KeepsWalk
<1>8. PagesBack(query'[r], "cursor") <=> PagesBack(query[r], "cursor")
  BY DEF KeepsWalk
<1> QED
  BY <1>1, <1>2, <1>3, <1>4, <1>5, <1>6, <1>7, <1>8 DEF WalkIsAsBefore

\* A request nothing happens to.
LEMMA ReaderStands ==
    ASSUME NEW r \in Readers, ReaderInv(r), KeepsWalk(r), stage'[r] = stage[r],
           using'[r] = using[r], total'[r] = total[r], next'[r] = next[r]
    PROVE  ReaderInv(r)'
<1>1. WalkIsAsBefore(r)
  BY WalkStands
<1>2. /\ Asking(r)' <=> Asking(r)
      /\ Started(r)' <=> Started(r)
      /\ Walking(r)' <=> Walking(r)
  BY DEF Asking, Started, Walking
<1>3. NextPage(r)' = NextPage(r) /\ NextAfter(r)' = NextAfter(r) /\ (Over(r)' <=> Over(r))
  BY <1>2 DEF NextPage, NextAfter, Over, KeepsWalk
<1>4. BeginInv(r)'
  BY <1>2 DEF BeginInv, ReaderInv, KeepsWalk
<1>5. QueryInv(r)'
  BY <1>1, <1>2 DEF QueryInv, ReaderInv, KeepsWalk, WalkIsAsBefore
<1>6. SteadyInv(r)'
  BY <1>1, <1>2 DEF SteadyInv, ReaderInv, KeepsWalk, WalkIsAsBefore
<1>7. CursorInv(r)'
  BY <1>1, <1>2, <1>3 DEF CursorInv, ReaderInv, KeepsWalk, WalkIsAsBefore
<1>8. ByCursorInv(r)'
  BY <1>1, <1>2, <1>3 DEF ByCursorInv, ReaderInv, KeepsWalk, WalkIsAsBefore
<1>9. AheadInv(r)'
  BY <1>1, <1>2, <1>3 DEF AheadInv, ReaderInv, KeepsWalk, WalkIsAsBefore
<1>10. PagesInv(r)'
  BY <1>1, <1>2, <1>3 DEF PagesInv, ReaderInv, KeepsWalk, WalkIsAsBefore
<1>11. OnceInv(r)'
  BY <1>1, <1>2, <1>3 DEF OnceInv, ReaderInv, KeepsWalk, WalkIsAsBefore
<1>12. GapInv(r)'
  BY <1>1 DEF GapInv, ReaderInv, KeepsWalk, WalkIsAsBefore
<1> QED
  BY <1>4, <1>5, <1>6, <1>7, <1>8, <1>9, <1>10, <1>11, <1>12 DEF ReaderInv

-----------------------------------------------------------------------------
(* The steps of a reader.                                                     *)

OthersRead(r) ==
    \A u \in Readers \ {r} :
        /\ client'[u] = client[u] /\ query'[u] = query[u] /\ pages'[u] = pages[u]
        /\ asked'[u] = asked[u] /\ modes'[u] = modes[u] /\ steady'[u] = steady[u]
        /\ came'[u] = came[u] /\ late'[u] = late[u] /\ left'[u] = left[u]
        /\ stage'[u] = stage[u] /\ using'[u] = using[u] /\ total'[u] = total[u]
        /\ next'[u] = next[u]

\* A step of a reader changes no row and nothing of another reader.
LEMMA ReadersMind ==
    ASSUME NEW r \in Readers, ListTyped,
           Ask(r) \/ Decide(r) \/ Count(r) \/ Items(r) \/ Follow(r) \/ Finish(r) \/ Export(r)
    PROVE  /\ OthersRead(r) /\ rows' = rows /\ nextId' = nextId /\ strategy' = strategy
           /\ ordering' = ordering /\ job' = job /\ stale' = stale
           /\ came' = came /\ late' = late /\ left' = left
<1>1. CASE Ask(r)
  BY <1>1 DEF Ask, OthersRead, ListTyped, ListTypeOK, table, config
<1>2. CASE Decide(r)
  BY <1>2 DEF Decide, OthersRead, ListTyped, ListTypeOK, table, config, history
<1>3. CASE Count(r)
  BY <1>3 DEF Count, OthersRead, ListTyped, ListTypeOK, table, config, history
<1>4. CASE Items(r)
  BY <1>4 DEF Items, OthersRead, ListTyped, ListTypeOK, table, config, history
<1>5. CASE Follow(r)
  BY <1>5 DEF Follow, OthersRead, ListTyped, ListTypeOK, table, config, history
<1>6. CASE Finish(r)
  BY <1>6 DEF Finish, OthersRead, ListTyped, ListTypeOK, table, config, history
<1>7. CASE Export(r)
  BY <1>7 DEF Export, OthersRead, ListTyped, ListTypeOK, table, config, history
<1> QED
  BY <1>1, <1>2, <1>3, <1>4, <1>5, <1>6, <1>7

\* A step of one reader is none of another.
LEMMA OthersStand ==
    ASSUME NEW r \in Readers, NEW u \in Readers, u # r, ListTyped, ReaderInv(u),
           Ask(r) \/ Decide(r) \/ Count(r) \/ Items(r) \/ Follow(r) \/ Finish(r) \/ Export(r)
    PROVE  ReaderInv(u)'
<1>1. /\ OthersRead(r) /\ rows' = rows /\ strategy' = strategy /\ ordering' = ordering
      /\ came' = came /\ late' = late /\ left' = left
  BY ReadersMind
<1>2. /\ KeepsWalk(u) /\ stage'[u] = stage[u] /\ using'[u] = using[u]
      /\ total'[u] = total[u] /\ next'[u] = next[u]
  BY <1>1 DEF OthersRead, KeepsWalk
<1> QED
  BY <1>2, ReaderStands

\* The choice of a strategy (DynamicPagination) moves nothing else.
LEMMA DecideKeeps ==
    ASSUME NEW r \in Readers, ListTyped, ReaderInv(r), Decide(r)
    PROVE  ReaderInv(r)'
<1>1. /\ KeepsWalk(r) /\ stage[r] = "decide" /\ stage'[r] = "count"
      /\ next'[r] = next[r] /\ using'[r] \in {"offset", "cursor"}
  BY DEF Decide, KeepsWalk, ListTyped, ListTypeOK, table, config, history
<1>2. WalkIsAsBefore(r)
  BY <1>1, WalkStands
<1>3. Asking(r) /\ Asking(r)' /\ Started(r) /\ Started(r)' /\ Walking(r) /\ Walking(r)'
  BY <1>1 DEF Asking, Started, Walking
<1>4. NextPage(r)' = NextPage(r) /\ NextAfter(r)' = NextAfter(r) /\ ~Over(r) /\ ~Over(r)'
  BY <1>1, <1>3 DEF NextPage, NextAfter, Over, KeepsWalk
<1>5. BeginInv(r)'
  BY <1>1, <1>3 DEF BeginInv, ReaderInv, KeepsWalk
<1>6. QueryInv(r)' /\ SteadyInv(r)' /\ CursorInv(r)'
  BY <1>1, <1>2, <1>3, <1>4 DEF QueryInv, SteadyInv, CursorInv, ReaderInv, KeepsWalk, WalkIsAsBefore
<1>7. ByCursorInv(r)' /\ PagesInv(r)'
  BY <1>1, <1>2, <1>3, <1>4 DEF ByCursorInv, PagesInv, ReaderInv, KeepsWalk, WalkIsAsBefore
<1>8. AheadInv(r)' /\ OnceInv(r)'
  BY <1>1, <1>2, <1>3, <1>4 DEF AheadInv, OnceInv, ReaderInv, KeepsWalk, WalkIsAsBefore
<1>9. GapInv(r)'
  BY <1>1 DEF GapInv
<1> QED
  BY <1>5, <1>6, <1>7, <1>8, <1>9 DEF ReaderInv

\* The end of a walk.
LEMMA FinishKeeps ==
    ASSUME NEW r \in Readers, ListTyped, ReaderInv(r), Finish(r)
    PROVE  ReaderInv(r)'
<1>1. /\ KeepsWalk(r) /\ stage[r] = "shown" /\ stage'[r] = "done" /\ next[r] = Nothing
      /\ next'[r] = next[r] /\ using'[r] = using[r]
  BY DEF Finish, KeepsWalk, ListTyped, ListTypeOK, table, config, history
<1>2. WalkIsAsBefore(r)
  BY <1>1, WalkStands
<1>3. ~Asking(r) /\ ~Asking(r)' /\ Started(r) /\ Started(r)' /\ ~Walking(r)'
  BY <1>1 DEF Asking, Started, Walking
<1>4. NextPage(r)' = NextPage(r) /\ NextAfter(r)' = NextAfter(r) /\ Over(r) /\ Over(r)'
  BY <1>1, <1>3 DEF NextPage, NextAfter, Over, KeepsWalk
<1>5. BeginInv(r)'
  BY <1>1, <1>3 DEF BeginInv, ReaderInv, KeepsWalk
<1>6. QueryInv(r)' /\ SteadyInv(r)' /\ CursorInv(r)'
  BY <1>1, <1>2, <1>3, <1>4 DEF QueryInv, SteadyInv, CursorInv, ReaderInv, KeepsWalk, WalkIsAsBefore
<1>7. ByCursorInv(r)' /\ PagesInv(r)'
  BY <1>1, <1>2, <1>3, <1>4 DEF ByCursorInv, PagesInv, ReaderInv, KeepsWalk, WalkIsAsBefore
<1>8. AheadInv(r)' /\ OnceInv(r)'
  BY <1>1, <1>2, <1>3, <1>4 DEF AheadInv, OnceInv, ReaderInv, KeepsWalk, WalkIsAsBefore
<1>9. GapInv(r)'
  BY <1>1 DEF GapInv
<1> QED
  BY <1>5, <1>6, <1>7, <1>8, <1>9 DEF ReaderInv

\* An export is no walk.
LEMMA ExportKeeps ==
    ASSUME NEW r \in Readers, ListTyped, ReaderInv(r), Export(r)
    PROVE  ReaderInv(r)'
<1>1. stage'[r] \in {"exported", "failed"} /\ strategy' = strategy /\ using'[r] = using[r]
  BY DEF Export, ListTyped, ListTypeOK, config
<1>2. ~Asking(r)' /\ ~Started(r)' /\ ~Walking(r)'
  BY <1>1 DEF Asking, Started, Walking
<1>3. BeginInv(r)'
  BY <1>1, <1>2 DEF BeginInv
<1>4. /\ QueryInv(r)' /\ SteadyInv(r)' /\ CursorInv(r)' /\ ByCursorInv(r)' /\ AheadInv(r)'
      /\ PagesInv(r)' /\ OnceInv(r)'
  BY <1>2 DEF QueryInv, SteadyInv, CursorInv, ByCursorInv, AheadInv, PagesInv, OnceInv
<1>5. GapInv(r)'
  BY <1>1 DEF GapInv
<1> QED
  BY <1>3, <1>4, <1>5 DEF ReaderInv

\* An empty query asks for the first page.
LEMMA NoQueryIs ==
    /\ NoQuery.before = Missing /\ NoQuery.after = Missing /\ NoQuery.page = 1
    /\ [NoQuery EXCEPT !.page = 1, !.after = Missing] = NoQuery
<1>1. NoQuery.before = Missing /\ NoQuery.after = Missing /\ NoQuery.page = 1
  BY DEF NoQuery
<1> DEFINE R == [ordering : {""}, filter : {<<>>}, q : {Missing}, page : {1},
                 after : {Missing}, before : {Missing}]
<1>2. NoQuery \in R
  BY DEF NoQuery
<1>3. ASSUME NEW p \in R
      PROVE  [p EXCEPT !.page = 1, !.after = Missing] = p
  OBVIOUS
<1> QED
  BY <1>1, <1>2, <1>3

\* The first request of a walk.
LEMMA AskKeeps ==
    ASSUME NEW r \in Readers, ListTyped, ReaderInv(r), Ask(r)
    PROVE  ReaderInv(r)'
<1>1. PICK p \in Queries :
        /\ query' = [query EXCEPT ![r] = p] /\ asked' = [asked EXCEPT ![r] = p]
        /\ steady' = [steady EXCEPT ![r] = {i \in Ids : Matches(p, rows[i])}]
  BY DEF Ask
<1>2. /\ query'[r] = p /\ asked'[r] = p /\ steady'[r] = {i \in Ids : Matches(p, rows[i])}
      /\ stage[r] = "idle" /\ stage'[r] \in {"decide", "count"}
      /\ stage'[r] = "decide" <=> strategy = "dynamic"
      /\ client'[r] \in {"api", "browser"}
      /\ rows' = rows /\ strategy' = strategy /\ using' = using /\ next' = next /\ pages' = pages
      /\ modes' = modes /\ came' = came /\ late' = late /\ left' = left
  <2>1. stage' = [stage EXCEPT ![r] = IF strategy = "dynamic" THEN "decide" ELSE "count"]
    BY DEF Ask
  <2>2. \E c \in {"browser", "api"} : client' = [client EXCEPT ![r] = c]
    BY DEF Ask
  <2>3. /\ stage[r] = "idle"
        /\ UNCHANGED <<table, config, using, total, next, pages, job, modes, came, late, left,
                       stale>>
    BY DEF Ask
  <2> QED
    BY <1>1, <2>1, <2>2, <2>3 DEF ListTyped, ListTypeOK, table, config
<1>3. /\ pages[r] = <<>> /\ modes[r] = {} /\ next[r] = Nothing
      /\ came[r] = {} /\ late[r] = {} /\ left[r] = {}
  BY <1>2 DEF ReaderInv, BeginInv
<1>4. Asking(r)' /\ Started(r)' /\ Walking(r)' /\ ~Over(r)'
  BY <1>2 DEF Asking, Started, Walking, Over
<1>5. p \in ListQuery
  BY <1>2, ChangelistAssumption DEF ChangelistAssumption
<1>6. p.before = Missing /\ p.after = Missing /\ p.page = 1 => SameList(r)'
  <2>1. SUFFICES ASSUME p.before = Missing, p.after = Missing, p.page = 1
                 PROVE  SameList(r)'
    OBVIOUS
  <2>2. [p EXCEPT !.page = 1, !.after = Missing] = p
    BY <1>5, <2>1 DEF ListQuery
  <2> QED
    BY <1>2, <2>1, <2>2 DEF SameList
<1>7. SameList(r)' => p.page = 1 /\ p.after = Missing
  BY <1>2 DEF SameList
<1>8. NextPage(r)' = p.page /\ NextAfter(r)' = p.after
  BY <1>2, <1>4 DEF NextPage, NextAfter
<1>9. \A i : Times(r, i)' = 0
  BY <1>2, <1>3, TimesOfNone
<1>10. BeginInv(r)'
  <2>1. using[r] \in Strategies /\ strategy \in Strategies
    BY DEF ListTyped, ListTypeOK
  <2>2. strategy # "dynamic" => using[r] = strategy
    BY <1>2 DEF ReaderInv, BeginInv
  <2> QED
    BY <1>2, <2>1, <2>2 DEF BeginInv, Strategies
<1>11. QueryInv(r)'
  <2>1. p = NoQuery => p.before = Missing /\ p.after = Missing /\ p.page = 1
    BY NoQueryIs
  <2> QED
    BY <1>2, <1>6, <2>1 DEF QueryInv
<1>12. SteadyInv(r)'
  BY <1>2 DEF SteadyInv
<1>13. CursorInv(r)'
  BY <1>2, <1>3, <1>4, <1>7, <1>8 DEF CursorInv
<1>14. ByCursorInv(r)'
  BY <1>4, <1>7, <1>8, <1>9 DEF ByCursorInv
<1>15. AheadInv(r)'
  <2>1. \A i : Cardinality(Preceding(r, i)') >= Offset(1)
    <3>1. ASSUME NEW i
          PROVE  Preceding(r, i)' \subseteq Ids
      BY DEF Preceding, Listed
    <3> QED
      BY <3>1, IdsAreFinite, Offsets
  <2>2. \A i : Cardinality(Preceding(r, i))' >= Offset(1)
    BY <2>1
  <2>3. stage'[r] # "items"
    BY <1>2
  <2>4. SameList(r)' => NextPage(r)' = 1 /\ NextAfter(r)' = Missing
    BY <1>7, <1>8
  <2>5. SameList(r)' => Offset(NextPage(r))' = Offset(1)
    BY <2>4 DEF Offset
  <2> QED
    BY <1>4, <2>2, <2>3, <2>4, <2>5 DEF AheadInv
<1>16. PagesInv(r)'
  <2>1. Listed(r)' \subseteq Ids
    BY DEF Listed
  <2>2. Cardinality(Listed(r)') \in Nat
    BY <2>1, IdsAreFinite
  <2>3. 1 <= TotalPages(Cardinality(Listed(r)'))
    BY <2>2, PagesCover
  <2>4. stage'[r] \notin {"items", "shown"}
    BY <1>2
  <2> QED
    BY <1>7, <1>8, <2>3, <2>4 DEF PagesInv
<1>17. OnceInv(r)'
  BY <1>9 DEF OnceInv
<1>18. GapInv(r)'
  BY <1>2 DEF GapInv
<1> QED
  BY <1>10, <1>11, <1>12, <1>13, <1>14, <1>15, <1>16, <1>17, <1>18 DEF ReaderInv

\* Which rows a list in key order has before i: never i itself.
LEMMA PrecedingIs ==
    ASSUME NEW r \in Readers, NEW i \in Ids
    PROVE  /\ Listed(r) \subseteq Ids /\ Preceding(r, i) \subseteq Listed(r)
           /\ Cardinality(Listed(r)) \in Nat /\ Cardinality(Preceding(r, i)) \in Nat
           /\ Ordering(query[r]) \in {"id", "-id"} /\ i \in Listed(r) =>
                Cardinality(Preceding(r, i)) < Cardinality(Listed(r))
<1>1. Listed(r) \subseteq Ids /\ Preceding(r, i) \subseteq Listed(r)
  BY DEF Listed, Preceding
<1>2. /\ Cardinality(Listed(r)) \in Nat /\ Cardinality(Preceding(r, i)) \in Nat
      /\ IsFiniteSet(Listed(r))
  BY <1>1, IdsAreFinite
<1>3. ASSUME Ordering(query[r]) \in {"id", "-id"}, i \in Listed(r)
      PROVE  Cardinality(Preceding(r, i)) < Cardinality(Listed(r))
  <2>1. i \in Nat /\ ~(i < i) /\ ~(i > i)
    BY IdsAreNumbers
  <2>2a. ~Before(Ordering(query[r]), i, i)
    BY <1>3, <2>1 DEF Before
  <2>2. i \notin Preceding(r, i)
    BY <2>2a DEF Preceding
  <2>3. Cardinality(Preceding(r, i)) # Cardinality(Listed(r))
    BY <1>1, <1>2, <1>3, <2>2, FS_Subset
  <2>4. Cardinality(Preceding(r, i)) <= Cardinality(Listed(r))
    BY <1>1, <1>2, FS_Subset
  <2> QED
    BY <1>2, <2>3, <2>4
<1> QED
  BY <1>1, <1>2, <1>3

\* The count of a request is that of the list as it is then.
LEMMA CountKeeps ==
    ASSUME NEW r \in Readers, ListTyped, ReaderInv(r), Count(r)
    PROVE  ReaderInv(r)'
<1>1. /\ KeepsWalk(r) /\ stage[r] = "count" /\ stage'[r] = "items"
      /\ next'[r] = next[r] /\ using'[r] = using[r]
      /\ total'[r] = Cardinality(Selected(query[r], using[r]))
  BY DEF Count, KeepsWalk, ListTyped, ListTypeOK, table, config, history
<1>2. WalkIsAsBefore(r)
  BY <1>1, WalkStands
<1>3. Asking(r) /\ Asking(r)' /\ Started(r) /\ Started(r)' /\ Walking(r) /\ Walking(r)'
  BY <1>1 DEF Asking, Started, Walking
<1>4. NextPage(r)' = NextPage(r) /\ NextAfter(r)' = NextAfter(r) /\ ~Over(r) /\ ~Over(r)'
  BY <1>1, <1>3 DEF NextPage, NextAfter, Over, KeepsWalk
<1>5. using[r] = "offset" => total'[r] = Cardinality(Listed(r))
  <2>1. Selected(query[r], "offset") = Listed(r)
    BY DEF Selected, Listed
  <2> QED
    BY <1>1, <2>1
<1>6. BeginInv(r)'
  BY <1>1, <1>3 DEF BeginInv, ReaderInv, KeepsWalk
<1>7. QueryInv(r)' /\ SteadyInv(r)' /\ CursorInv(r)'
  BY <1>1, <1>2, <1>3, <1>4 DEF QueryInv, SteadyInv, CursorInv, ReaderInv, KeepsWalk, WalkIsAsBefore
<1>8. ByCursorInv(r)'
  BY <1>1, <1>2, <1>3, <1>4 DEF ByCursorInv, ReaderInv, KeepsWalk, WalkIsAsBefore
<1>9. PagesInv(r)'
  <2>1. Cardinality(Listed(r)) \in Nat
    <3>1. Listed(r) \subseteq Ids
      BY DEF Listed
    <3> QED
      BY <3>1, IdsAreFinite
  <2>2. Started(r) /\ SameList(r) /\ modes[r] \subseteq {"offset"} /\ left[r] = {} =>
          NextPage(r) <= TotalPages(Cardinality(Listed(r)))
    BY <1>3 DEF PagesInv, ReaderInv
  <2> QED
    BY <1>1, <1>2, <1>3, <1>4, <1>5, <2>1, <2>2 DEF PagesInv, KeepsWalk, WalkIsAsBefore
<1>10. AheadInv(r)'
  <2>1. SUFFICES ASSUME SameList(r), InKeyOrder(r), NEW i \in steady[r],
                        Times(r, i) = 0, Undisturbed(r, i)
                 PROVE  /\ NextAfter(r) # Missing => i > NextAfter(r)
                        /\ NextAfter(r) = Missing =>
                             Cardinality(Preceding(r, i)) >= Offset(NextPage(r))
                        /\ using[r] = "offset" => Cardinality(Preceding(r, i)) < total'[r]
    BY <1>1, <1>2, <1>3, <1>4 DEF AheadInv, KeepsWalk, WalkIsAsBefore
  <2>2. i \in Ids /\ Matches(query[r], rows[i])
    BY <1>3, <2>1 DEF SteadyInv, ReaderInv, ListTyped
  <2>3. i \in Listed(r)
    BY <2>2 DEF Listed
  <2>4. Ordering(query[r]) \in {"id", "-id"}
    BY <2>1 DEF InKeyOrder
  <2>5. Cardinality(Preceding(r, i)) < Cardinality(Listed(r))
    BY <2>2, <2>3, <2>4, PrecedingIs
  <2> QED
    BY <1>3, <1>5, <2>1, <2>5 DEF AheadInv, ReaderInv
<1>11. OnceInv(r)'
  BY <1>1, <1>2, <1>3, <1>4 DEF OnceInv, ReaderInv, KeepsWalk, WalkIsAsBefore
<1>12. GapInv(r)'
  BY <1>1 DEF GapInv
<1> QED
  BY <1>6, <1>7, <1>8, <1>9, <1>10, <1>11, <1>12 DEF ReaderInv

\* The next request of a walk asks for the same list.
LEMMA FollowKeeps ==
    ASSUME NEW r \in Readers, ListTyped, ReaderInv(r), Follow(r)
    PROVE  ReaderInv(r)'
<1>1. /\ stage[r] = "shown" /\ next[r] # Nothing /\ query'[r] = Link(r)
      /\ stage'[r] \in {"decide", "count"} /\ (stage'[r] = "decide" <=> strategy = "dynamic")
      /\ rows' = rows /\ strategy' = strategy /\ ordering' = ordering
      /\ client'[r] = client[r] /\ pages'[r] = pages[r] /\ next'[r] = next[r]
      /\ using'[r] = using[r] /\ asked'[r] = asked[r] /\ modes'[r] = modes[r]
      /\ steady'[r] = steady[r] /\ came'[r] = came[r] /\ late'[r] = late[r] /\ left'[r] = left[r]
  BY DEF Follow, ListTyped, ListTypeOK, table, config, history
<1>2. ~Asking(r) /\ Asking(r)' /\ Started(r) /\ Started(r)' /\ Walking(r) /\ Walking(r)'
  BY <1>1 DEF Asking, Started, Walking
<1>3. ~Over(r) /\ ~Over(r)'
  BY <1>1, <1>2 DEF Over
<1> DEFINE p == IF client[r] = "api" THEN [query[r] EXCEPT !.before = Missing] ELSE NoQuery
           start(q) == [q EXCEPT !.page = 1, !.after = Missing]
<1>4. query[r] \in ListQuery /\ asked[r] \in ListQuery /\ next[r] \in OfferType
      /\ client[r] \in {"api", "browser"}
  BY <1>2 DEF ListTyped, ListTypeOK, ReaderInv, BeginInv
<1>5. NoQuery \in [ordering : {""} \cup {"unknown"} \cup Columns, filter : {<<>>},
                   q : Groups \cup {Missing}, page : Nat \ {0}, after : Ids \cup {Missing},
                   before : Ids \cup {Missing}]
  BY DEF NoQuery
<1> DEFINE Q == [ordering : {query[r].ordering, NoQuery.ordering},
                 filter : {query[r].filter, NoQuery.filter}, q : Groups \cup {Missing},
                 page : Nat \ {0}, after : Ids \cup {Missing}, before : Ids \cup {Missing}]
<1>6. p \in Q /\ p.before = Missing
  <2>1. CASE client[r] = "api"
    BY <1>4, <2>1 DEF ListQuery
  <2>2. CASE client[r] # "api"
    BY <1>5, <2>2 DEF NoQuery
  <2> QED
    BY <2>1, <2>2
<1>7. /\ next[r].after # Missing =>
           query'[r] = [p EXCEPT !.after = next[r].after, !.page = 1]
      /\ next[r].after = Missing =>
           query'[r] = [p EXCEPT !.page = next[r].page, !.after = Missing]
  BY <1>1 DEF Link
<1>8. start(query'[r]) = start(p)
  <2> HIDE DEF p
  <2> QED
    BY <1>6, <1>7
<1>9. /\ query'[r].after = next[r].after
      /\ query'[r].page = IF next[r].after # Missing THEN 1 ELSE next[r].page
  <2> HIDE DEF p
  <2> QED
    BY <1>6, <1>7
<1>10. \A row : Matches(query'[r], row) <=> Matches(p, row)
  <2> HIDE DEF p
  <2>1. query'[r].filter = p.filter /\ query'[r].q = p.q
    BY <1>6, <1>7
  <2> QED
    BY <2>1 DEF Matches
<1>11. query'[r].ordering = p.ordering /\ query'[r].before = Missing
  <2> HIDE DEF p
  <2> QED
    BY <1>6, <1>7
<1>12. SameList(r)' => SameList(r) /\ start(p) = start(query[r])
  <2>1. SUFFICES ASSUME SameList(r)'
                 PROVE  SameList(r) /\ start(p) = start(query[r])
    OBVIOUS
  <2>2. /\ start(p) = asked[r] /\ asked[r].before = Missing
        /\ asked[r].after = Missing /\ asked[r].page = 1
    BY <1>1, <1>8, <2>1 DEF SameList
  <2>3. SameList(r)
    <3>1. CASE client[r] = "api"
      BY <1>2, <2>2, <3>1 DEF QueryInv, ReaderInv
    <3>2. CASE client[r] # "api"
      <4>1. asked[r] = NoQuery
        BY <2>2, <3>2, NoQueryIs
      <4> QED
        BY <1>2, <4>1 DEF QueryInv, ReaderInv
    <3> QED
      BY <3>1, <3>2
  <2> HIDE DEF p
  <2> QED
    BY <2>2, <2>3 DEF SameList
<1>13. SameList(r)' =>
         /\ Ordering(query[r])' = Ordering(query[r])
         /\ \A row : Matches(query'[r], row) <=> Matches(query[r], row)
  <2>1. SUFFICES ASSUME SameList(r)'
                 PROVE  /\ Ordering(query[r])' = Ordering(query[r])
                        /\ \A row : Matches(query'[r], row) <=> Matches(query[r], row)
    OBVIOUS
  <2>2. /\ p.ordering = start(p).ordering /\ p.filter = start(p).filter /\ p.q = start(p).q
        /\ query[r].ordering = start(query[r]).ordering
        /\ query[r].filter = start(query[r]).filter /\ query[r].q = start(query[r]).q
    <3> HIDE DEF p
    <3> QED
      BY <1>4, <1>6 DEF ListQuery
  <2> HIDE DEF p, start
  <2>3. p.ordering = query[r].ordering /\ p.filter = query[r].filter /\ p.q = query[r].q
    BY <1>12, <2>1, <2>2
  <2>4. \A row : Matches(query'[r], row) <=> Matches(query[r], row)
    BY <1>10, <2>3 DEF Matches
  <2>5. Ordering(query[r])' = Ordering(query[r])
    BY <1>1, <1>11, <2>3 DEF Ordering
  <2> QED
    BY <2>4, <2>5
<1> HIDE DEF p, start, Q
<1>14. /\ NextAfter(r) = next[r].after /\ NextPage(r) = next[r].page
       /\ NextAfter(r)' = next[r].after
       /\ NextPage(r)' = IF next[r].after # Missing THEN 1 ELSE next[r].page
  BY <1>2, <1>9 DEF NextPage, NextAfter
<1>15. SameList(r)' =>
         /\ \A i, j : Before(Ordering(query[r]), j, i)' <=> Before(Ordering(query[r]), j, i)
         /\ Listed(r)' = Listed(r)
         /\ \A i : Preceding(r, i)' = Preceding(r, i)
  BY <1>1, <1>13, ListStands
<1>16. \A i : Times(r, i)' = Times(r, i)
  BY <1>1 DEF Times
<1>17. SameList(r)' => (InKeyOrder(r)' <=> InKeyOrder(r))
                       /\ \A i : Undisturbed(r, i)' <=> Undisturbed(r, i)
  BY <1>1, <1>13, <1>15 DEF InKeyOrder, Undisturbed
<1>18. SameList(r)' => CursorInv(r) /\ SameList(r)
  BY <1>12 DEF ReaderInv
<1>19. BeginInv(r)'
  <2>1. using[r] \in Strategies /\ strategy \in Strategies
    BY DEF ListTyped, ListTypeOK
  <2>2. strategy # "dynamic" => using[r] = strategy
    BY <1>1 DEF ReaderInv, BeginInv
  <2> QED
    BY <1>1, <1>4, <2>1, <2>2 DEF BeginInv, Strategies
<1>20. QueryInv(r)'
  <2>1. asked[r] = NoQuery \/ (client[r] = "api" /\ asked[r].before = Missing
                               /\ asked[r].after = Missing /\ asked[r].page = 1)
          => SameList(r)
    BY <1>2 DEF QueryInv, ReaderInv
  <2>2. ASSUME SameList(r), asked[r] = NoQuery \/ client[r] = "api"
        PROVE  SameList(r)'
    <3>1. start(query[r]) = asked[r] /\ asked[r].before = Missing
      BY <2>2 DEF SameList, start
    <3>2. query[r].before = Missing
      BY <1>4, <3>1 DEF ListQuery, start
    <3>3. start(p) = asked[r]
      <4>1. CASE client[r] = "api"
        <5>1. p = query[r]
          BY <1>4, <3>2, <4>1 DEF p, ListQuery
        <5> QED
          BY <3>1, <5>1
      <4>2. CASE client[r] # "api"
        BY <2>2, <4>2, NoQueryIs DEF p, start
      <4> QED
        BY <4>1, <4>2
    <3>4. start(query'[r]) = asked'[r]
      BY <1>1, <1>8, <3>3
    <3> QED
      BY <1>1, <2>2, <3>4 DEF SameList, start
  <2> QED
    BY <1>1, <2>1, <2>2 DEF QueryInv
<1>21. SteadyInv(r)'
  BY <1>1, <1>2, <1>12, <1>13 DEF SteadyInv, ReaderInv
<1>22. CursorInv(r)'
  <2>1. SUFFICES ASSUME SameList(r)'
                 PROVE  CursorInv(r)'
    BY DEF CursorInv
  <2>2. /\ modes[r] \subseteq {"offset"} => next[r].after = Missing
        /\ modes[r] \subseteq {"cursor"} => next[r].page = Missing
        /\ next[r].after = Missing => next[r].page \in Nat \ {0}
    BY <1>2, <1>3, <1>14, <1>18, <2>1 DEF CursorInv
  <2>3. next[r].page = Missing => next[r].after # Missing
    BY <1>4, <2>2, IdsAreNumbers
  <2> QED
    BY <1>1, <1>2, <1>3, <1>14, <2>2, <2>3 DEF CursorInv
<1>23. ByCursorInv(r)'
  BY <1>1, <1>2, <1>3, <1>12, <1>13, <1>14, <1>16 DEF ByCursorInv, ReaderInv
<1>24. AheadInv(r)'
  <2>1. SUFFICES ASSUME SameList(r)', InKeyOrder(r), NEW i \in steady[r],
                        Times(r, i) = 0, Undisturbed(r, i)
                 PROVE  /\ next[r].after # Missing => i > next[r].after
                        /\ next[r].after = Missing =>
                             Cardinality(Preceding(r, i)) >= Offset(next[r].page)
    <3>1. stage'[r] # "items"
      BY <1>1
    <3>2. next[r].after = Missing => Offset(NextPage(r))' = Offset(next[r].page)
      BY <1>14 DEF Offset
    <3> QED
      BY <1>1, <1>3, <1>14, <1>15, <1>16, <1>17, <3>1, <3>2 DEF AheadInv
  <2>2. SameList(r) /\ Started(r)
    BY <1>2, <1>12, <2>1
  <2> QED
    BY <1>14, <2>1, <2>2 DEF AheadInv, ReaderInv
<1>25. PagesInv(r)'
  <2>1. SUFFICES ASSUME SameList(r)', modes[r] \subseteq {"offset"}, left[r] = {}
                 PROVE  NextPage(r)' <= TotalPages(Cardinality(Listed(r)))
    <3>1. stage'[r] \notin {"items", "shown"}
      BY <1>1
    <3>2. SameList(r)' => TotalPages(Cardinality(Listed(r)))' = TotalPages(Cardinality(Listed(r)))
      BY <1>15 DEF TotalPages, AtLeastOne
    <3> QED
      BY <1>1, <1>2, <2>1, <3>1, <3>2 DEF PagesInv
  <2>2. SameList(r) /\ Started(r) /\ CursorInv(r)
    BY <1>2, <1>18, <2>1
  <2>3. next[r].after = Missing /\ next[r].page \in Nat \ {0}
    BY <1>3, <1>14, <2>1, <2>2 DEF CursorInv
  <2>4. next[r].page # Missing
    BY <2>3, IdsAreNumbers
  <2> QED
    BY <1>1, <1>14, <2>1, <2>2, <2>3, <2>4 DEF PagesInv, ReaderInv
<1>26. OnceInv(r)'
  <2>1. SUFFICES ASSUME SameList(r)', modes[r] \subseteq {"offset"}, left[r] = {},
                        Ordering(query[r]) \in {"id", "-id"}, NEW i \in steady[r],
                        \A j \in came[r] : ~Before(Ordering(query[r]), j, i)
                 PROVE  /\ Times(r, i) <= 1
                        /\ Times(r, i) = 1 =>
                             Cardinality(Preceding(r, i)) < Offset(NextPage(r)')
    <3>1. Offset(NextPage(r))' = Offset(NextPage(r)')
      BY DEF Offset
    <3> QED
      BY <1>1, <1>3, <1>13, <1>15, <1>16, <2>1, <3>1 DEF OnceInv
  <2>2. SameList(r) /\ Started(r) /\ CursorInv(r)
    BY <1>2, <1>18, <2>1
  <2>3. next[r].after = Missing
    BY <1>3, <1>14, <2>1, <2>2 DEF CursorInv
  <2> QED
    BY <1>3, <1>14, <2>1, <2>2, <2>3 DEF OnceInv, ReaderInv
<1>27. GapInv(r)'
  BY <1>1 DEF GapInv
<1> QED
  BY <1>19, <1>20, <1>21, <1>22, <1>23, <1>24, <1>25, <1>26, <1>27 DEF ReaderInv

-----------------------------------------------------------------------------
(* The pages of a list.                                                       *)

\* A page of one row more than a page, as it is shown.
LEMMA ShownIs ==
    ASSUME NEW s \in Seq(Ids)
    PROVE  /\ Slice(s, 0, PerPage + 1) \in Seq(Ids)
           /\ Len(Slice(s, 0, PerPage + 1)) = IF Len(s) > PerPage THEN PerPage + 1 ELSE Len(s)
           /\ \A k \in 1 .. Len(Slice(s, 0, PerPage + 1)) :
                k \in 1 .. Len(s) /\ Slice(s, 0, PerPage + 1)[k] = s[k]
           /\ Shown(s) \in Seq(Ids)
           /\ Len(Shown(s)) = IF Len(s) > PerPage THEN PerPage ELSE Len(s)
           /\ \A k \in 1 .. Len(Shown(s)) : k \in 1 .. Len(s) /\ Shown(s)[k] = s[k]
<1>1. PerPage \in Nat /\ PerPage > 0
  BY IdsAreNumbers
<1>2. ASSUME NEW n \in Nat
      PROVE  /\ Slice(s, 0, n) \in Seq(Ids)
             /\ Len(Slice(s, 0, n)) = IF Len(s) > n THEN n ELSE Len(s)
             /\ \A k \in 1 .. Len(Slice(s, 0, n)) : k \in 1 .. Len(s) /\ Slice(s, 0, n)[k] = s[k]
  <2> DEFINE t == Slice(s, 0, n)
  <2>1. /\ t \in Seq(Ids) /\ Len(t) <= n
        /\ \A k \in 1 .. Len(t) : 0 + k \in 1 .. Len(s) /\ t[k] = s[0 + k]
        /\ \A k \in 1 .. Len(s) : 0 < k /\ k <= 0 + n => k - 0 \in 1 .. Len(t) /\ t[k - 0] = s[k]
    BY SliceIs
  <2> HIDE DEF t
  <2>2. \A k \in 1 .. Len(t) : k \in 1 .. Len(s) /\ t[k] = s[k]
    BY <2>1
  <2>3. \A k \in 1 .. Len(s) : k <= n => k \in 1 .. Len(t)
    BY <2>1
  <2>4. Len(t) \in Nat /\ Len(s) \in Nat
    BY <2>1
  <2>5. Len(t) <= Len(s)
    BY <2>2, <2>4
  <2>6. CASE Len(s) > n
    <3>1. n \in 1 .. Len(t) \/ n = 0
      BY <2>3, <2>4, <2>6
    <3> QED
      BY <2>1, <2>2, <2>4, <2>6, <3>1 DEF t
  <2>7. CASE ~(Len(s) > n)
    <3>1. Len(s) \in 1 .. Len(t) \/ Len(s) = 0
      BY <2>3, <2>4, <2>7
    <3> QED
      BY <2>1, <2>2, <2>4, <2>5, <2>7, <3>1 DEF t
  <2> QED
    BY <2>6, <2>7
<1>3. ASSUME NEW m \in Nat, m = PerPage + 1
      PROVE  Len(s) > m => Len(s) > PerPage
  BY <1>1, <1>3
<1>4. Len(s) \in Nat /\ PerPage + 1 \in Nat
  BY <1>1
<1>5. (IF Len(s) > PerPage + 1 THEN PerPage + 1 ELSE Len(s))
        = IF Len(s) > PerPage THEN PerPage + 1 ELSE Len(s)
  BY <1>1, <1>4
<1>6. /\ Slice(s, 0, PerPage + 1) \in Seq(Ids)
      /\ Len(Slice(s, 0, PerPage + 1)) = IF Len(s) > PerPage THEN PerPage + 1 ELSE Len(s)
      /\ \A k \in 1 .. Len(Slice(s, 0, PerPage + 1)) :
           k \in 1 .. Len(s) /\ Slice(s, 0, PerPage + 1)[k] = s[k]
  <2> DEFINE m == PerPage + 1
  <2>1. m \in Nat /\ (IF Len(s) > m THEN m ELSE Len(s)) = IF Len(s) > PerPage THEN m ELSE Len(s)
    BY <1>4, <1>5
  <2> HIDE DEF m
  <2>2. /\ Slice(s, 0, m) \in Seq(Ids)
        /\ Len(Slice(s, 0, m)) = IF Len(s) > m THEN m ELSE Len(s)
        /\ \A k \in 1 .. Len(Slice(s, 0, m)) : k \in 1 .. Len(s) /\ Slice(s, 0, m)[k] = s[k]
    BY <1>2, <2>1
  <2> QED
    BY <2>1, <2>2 DEF m
<1>7. Shown(s) = Slice(s, 0, PerPage)
  BY DEF Shown
<1> QED
  BY <1>1, <1>2, <1>6, <1>7

\* A page forward by cursor shows the rows up to the one it gives as cursor, and
\* all of them when there is none.
LEMMA PageForward ==
    ASSUME NEW S \in SUBSET Ids, NEW s \in Sorted(S, "id"),
           NEW fetched, fetched = Slice(s, 0, PerPage + 1)
    PROVE  /\ HasNext(fetched) => NextCursor(fetched) \in S
           /\ \A i \in S : OnPage(Shown(fetched), i)
                             <=> (HasNext(fetched) => i <= NextCursor(fetched))
           /\ \A i : OnPage(Shown(fetched), i) => i \in S
<1>1. /\ s \in Seq(Ids) /\ Len(s) \in Nat
      /\ \A k \in 1 .. Len(s) : s[k] \in S /\ s[k] \in Nat
      /\ \A i \in S : \E k \in 1 .. Len(s) : s[k] = i
  BY InSomeOrder DEF Sorted, OnceEach
<1>2. PerPage \in Nat /\ PerPage > 0
  BY IdsAreNumbers
<1>3. /\ fetched \in Seq(Ids)
      /\ Len(fetched) = IF Len(s) > PerPage THEN PerPage + 1 ELSE Len(s)
      /\ \A k \in 1 .. Len(fetched) : k \in 1 .. Len(s) /\ fetched[k] = s[k]
  BY <1>1, ShownIs
<1> DEFINE page == Shown(fetched)
<1>4. /\ page \in Seq(Ids)
      /\ Len(page) = IF Len(fetched) > PerPage THEN PerPage ELSE Len(fetched)
      /\ \A k \in 1 .. Len(page) : k \in 1 .. Len(fetched) /\ page[k] = fetched[k]
  BY <1>3, ShownIs
<1>5. NextCursor(fetched) = page[Len(page)] /\ (HasNext(fetched) <=> Len(fetched) > PerPage)
  BY DEF NextCursor, HasNext
<1>6. \A i : OnPage(page, i) <=> \E n \in 1 .. Len(page) : page[n] = i
  BY <1>4 DEF OnPage
<1> HIDE DEF page
<1>7. /\ Len(page) = IF Len(s) > PerPage THEN PerPage ELSE Len(s)
      /\ \A k \in 1 .. Len(page) : k \in 1 .. Len(s) /\ page[k] = s[k]
      /\ HasNext(fetched) <=> Len(s) > PerPage
  BY <1>1, <1>2, <1>3, <1>4, <1>5
<1>8. Rising(s)
  BY InKeyOrderRises
<1>9. ASSUME HasNext(fetched)
      PROVE  /\ NextCursor(fetched) = s[PerPage] /\ PerPage \in 1 .. Len(s)
             /\ NextCursor(fetched) \in S
  <2>1. Len(page) = PerPage /\ PerPage \in 1 .. Len(page)
    BY <1>2, <1>7, <1>9
  <2>2. PerPage \in 1 .. Len(s) /\ page[PerPage] = s[PerPage]
    BY <1>7, <2>1
  <2> QED
    BY <1>1, <1>5, <2>1, <2>2
<1>10. ASSUME NEW i, OnPage(page, i)
       PROVE  i \in S
  BY <1>1, <1>6, <1>7, <1>10
<1>11. ASSUME NEW i \in S
       PROVE  OnPage(page, i) <=> (HasNext(fetched) => i <= NextCursor(fetched))
  <2>1. PICK k \in 1 .. Len(s) : s[k] = i
    BY <1>1
  <2>2. k \in Nat /\ 1 <= k /\ k <= Len(s) /\ i \in Nat
    BY <1>1, <2>1
  <2>3. CASE HasNext(fetched)
    <3>1. /\ NextCursor(fetched) = s[PerPage] /\ PerPage \in 1 .. Len(s)
          /\ s[PerPage] \in Nat /\ Len(page) = PerPage
      BY <1>1, <1>7, <1>9, <2>3
    <3>2. CASE k <= PerPage
      <4>1. k \in 1 .. Len(page)
        BY <2>2, <3>1, <3>2
      <4>2. OnPage(page, i)
        BY <1>6, <1>7, <2>1, <4>1
      <4>3. s[k] <= s[PerPage]
        BY <1>2, <1>8, <2>1, <2>2, <3>1, <3>2 DEF Rising
      <4> QED
        BY <2>1, <3>1, <4>2, <4>3
    <3>3. CASE k > PerPage
      <4>1. s[PerPage] < s[k]
        BY <1>2, <1>8, <2>1, <2>2, <3>1, <3>3 DEF Rising
      <4>2. ~(i <= NextCursor(fetched))
        BY <2>1, <2>2, <3>1, <4>1
      <4>3. ASSUME OnPage(page, i)
            PROVE  FALSE
        <5>1. PICK n \in 1 .. Len(page) : page[n] = i
          BY <1>6, <4>3
        <5>2. n \in 1 .. Len(s) /\ s[n] = i /\ n \in Nat /\ n <= PerPage /\ n < k
          BY <1>2, <1>7, <2>2, <3>1, <3>3, <5>1
        <5>3. s[n] < s[k]
          BY <1>8, <2>1, <5>2 DEF Rising
        <5> QED
          BY <2>1, <2>2, <5>2, <5>3
      <4> QED
        BY <2>3, <4>2, <4>3
    <3> QED
      BY <1>2, <2>2, <3>2, <3>3
  <2>4. CASE ~HasNext(fetched)
    <3>1. k \in 1 .. Len(page)
      BY <1>1, <1>2, <1>7, <2>2, <2>4
    <3>2. OnPage(page, i)
      BY <1>6, <1>7, <2>1, <3>1
    <3> QED
      BY <2>4, <3>2
  <2> QED
    BY <2>3, <2>4
<1> QED
  BY <1>9, <1>10, <1>11 DEF page

\* A page by number shows the rows that as many rows come before as its offset,
\* or more, but not a page more.
LEMMA PageByNumber ==
    ASSUME NEW S \in SUBSET Ids, NEW ord \in {"id", "-id"}, NEW s \in Sorted(S, ord),
           NEW from \in Nat, NEW i \in S
    PROVE  LET rank == Cardinality({j \in S : Before(ord, j, i)})
           IN  OnPage(Slice(s, from, PerPage), i) <=> from <= rank /\ rank < from + PerPage
<1>1. /\ s \in Seq(Ids) /\ Len(s) \in Nat /\ OnceEach(s)
      /\ \E k \in 1 .. Len(s) : s[k] = i
  BY InSomeOrder DEF Sorted, OnceEach
<1>2. PICK k \in 1 .. Len(s) : s[k] = i
  BY <1>1
<1>3. Cardinality({j \in S : Before(ord, j, i)}) = k - 1
  BY <1>2, PlaceInKeyOrder
<1>4. PerPage \in Nat /\ k \in Nat /\ k >= 1
  BY IdsAreNumbers
<1> DEFINE t == Slice(s, from, PerPage)
<1>5. /\ t \in Seq(Ids) /\ Len(t) <= PerPage
      /\ \A n \in 1 .. Len(t) : from + n \in 1 .. Len(s) /\ t[n] = s[from + n]
      /\ \A n \in 1 .. Len(s) : from < n /\ n <= from + PerPage =>
           n - from \in 1 .. Len(t) /\ t[n - from] = s[n]
  BY <1>1, <1>4, SliceIs
<1> HIDE DEF t
<1>6. OnPage(t, i) <=> \E n \in 1 .. Len(t) : t[n] = i
  BY <1>5 DEF OnPage
<1>7. ASSUME OnPage(t, i)
      PROVE  from < k /\ k <= from + PerPage
  <2>1. PICK n \in 1 .. Len(t) : t[n] = i
    BY <1>6, <1>7
  <2>2. from + n \in 1 .. Len(s) /\ s[from + n] = i
    BY <1>5, <2>1
  <2>3. from + n = k
    BY <1>1, <1>2, <2>2 DEF OnceEach
  <2>4. n \in Nat /\ n >= 1 /\ n <= PerPage
    BY <1>4, <1>5, <2>1
  <2> QED
    BY <1>4, <2>3, <2>4
<1>8. ASSUME from < k, k <= from + PerPage
      PROVE  OnPage(t, i)
  BY <1>2, <1>5, <1>6, <1>8
<1> QED
  BY <1>3, <1>4, <1>7, <1>8 DEF t

\* A page back by cursor leaves out the nearest row when there is more than a
\* page before the cursor.
LEMMA PageBackward ==
    ASSUME NEW S \in SUBSET Ids, NEW s \in Sorted(S, "-id"),
           NEW page, page = Shown(Reverse(Slice(s, 0, PerPage + 1)))
    PROVE  LeavesOutTheNearest({page[n] : n \in DOMAIN page}, S)
<1>1. /\ s \in Seq(Ids) /\ Len(s) \in Nat /\ Len(s) = Cardinality(S)
      /\ \A k \in 1 .. Len(s) : s[k] \in S /\ s[k] \in Nat
      /\ \A i \in S : \E k \in 1 .. Len(s) : s[k] = i
  BY InSomeOrder DEF Sorted, OnceEach
<1>2. PerPage \in Nat /\ PerPage > 0
  BY IdsAreNumbers
<1>3. \A j, k \in 1 .. Len(s) : j < k => s[j] > s[k]
  BY InKeyOrderRises DEF Falling
<1> DEFINE t == Slice(s, 0, PerPage + 1)
           u == Reverse(t)
           shown == {page[n] : n \in DOMAIN page}
<1>4. /\ t \in Seq(Ids)
      /\ Len(t) = IF Len(s) > PerPage THEN PerPage + 1 ELSE Len(s)
      /\ \A k \in 1 .. Len(t) : k \in 1 .. Len(s) /\ t[k] = s[k]
  BY <1>1, ShownIs
<1> HIDE DEF t
<1>5. /\ u \in Seq(Ids) /\ Len(u) = Len(t)
      /\ \A k \in 1 .. Len(t) : u[k] = t[Len(t) - k + 1]
  BY <1>4, ReverseIs
<1>6. page = Shown(u)
  BY DEF t
<1> HIDE DEF u
<1>7. /\ page \in Seq(Ids)
      /\ Len(page) = IF Len(u) > PerPage THEN PerPage ELSE Len(u)
      /\ \A k \in 1 .. Len(page) : k \in 1 .. Len(u) /\ page[k] = u[k]
  <2>1. /\ Shown(u) \in Seq(Ids)
        /\ Len(Shown(u)) = IF Len(u) > PerPage THEN PerPage ELSE Len(u)
        /\ \A k \in 1 .. Len(Shown(u)) : k \in 1 .. Len(u) /\ Shown(u)[k] = u[k]
    BY <1>5, ShownIs
  <2> QED
    BY <1>6, <2>1
<1>8. \A i : i \in shown <=> \E n \in 1 .. Len(page) : page[n] = i
  BY <1>7
<1> HIDE DEF shown
<1>9. CASE ~(Len(s) > PerPage)
  <2>1. Len(t) = Len(s) /\ Len(u) = Len(s) /\ Len(page) = Len(s)
    BY <1>1, <1>2, <1>4, <1>5, <1>7, <1>9
  <2>2. ASSUME NEW k \in 1 .. Len(s)
        PROVE  Len(s) - k + 1 \in 1 .. Len(s) /\ page[k] = s[Len(s) - k + 1]
               /\ Len(s) - (Len(s) - k + 1) + 1 = k
    <3>1. Len(s) - k + 1 \in 1 .. Len(s) /\ Len(s) - (Len(s) - k + 1) + 1 = k
      BY <1>1
    <3> QED
      BY <1>4, <1>5, <1>7, <2>1, <3>1
  <2>3. ASSUME NEW i \in shown
        PROVE  i \in S
    <3>1. PICK n \in 1 .. Len(s) : page[n] = i
      BY <1>8, <2>1, <2>3
    <3>2. Len(s) - n + 1 \in 1 .. Len(s) /\ i = s[Len(s) - n + 1]
      BY <2>2, <3>1
    <3> QED
      BY <1>1, <3>2
  <2>4. ASSUME NEW i \in S
        PROVE  i \in shown
    <3>1. PICK k \in 1 .. Len(s) : s[k] = i
      BY <1>1
    <3>2. Len(s) - k + 1 \in 1 .. Len(s) /\ page[Len(s) - k + 1] = s[k]
      BY <2>2
    <3> QED
      BY <1>8, <2>1, <3>1, <3>2
  <2>5. shown = S
    BY <2>3, <2>4
  <2>6. Cardinality(S) <= PerPage
    BY <1>1, <1>2, <1>9
  <2> QED
    BY <2>5, <2>6 DEF LeavesOutTheNearest, shown
<1>10. CASE Len(s) > PerPage
  <2>1. Len(t) = PerPage + 1 /\ Len(u) = PerPage + 1 /\ Len(page) = PerPage
    BY <1>1, <1>2, <1>4, <1>5, <1>7, <1>10
  <2>2. ASSUME NEW k \in 1 .. PerPage
        PROVE  PerPage + 2 - k \in 2 .. PerPage + 1 /\ PerPage + 2 - k \in 1 .. Len(s)
               /\ page[k] = s[PerPage + 2 - k]
    <3>1. /\ PerPage + 2 - k \in 2 .. PerPage + 1 /\ PerPage + 2 - k \in 1 .. Len(s)
          /\ PerPage + 2 - k \in 1 .. Len(t) /\ k \in 1 .. Len(t) /\ k \in 1 .. Len(page)
          /\ Len(t) - k + 1 = PerPage + 2 - k
      BY <1>1, <1>2, <1>10, <2>1
    <3>2. page[k] = u[k] /\ u[k] = t[Len(t) - k + 1]
      BY <1>5, <1>7, <3>1
    <3>3. t[PerPage + 2 - k] = s[PerPage + 2 - k]
      BY <1>4, <3>1
    <3> QED
      BY <3>1, <3>2, <3>3
  <2>3. 1 \in 1 .. Len(s) /\ 2 \in 1 .. Len(s) /\ s[1] \in S /\ s[1] \in Nat
    BY <1>1, <1>2, <1>10
  <2>4. \A j \in shown : s[1] > j
    <3>1. ASSUME NEW j \in shown
          PROVE  s[1] > j
      <4>1. PICK n \in 1 .. PerPage : page[n] = j
        BY <1>8, <2>1
      <4>2. PerPage + 2 - n \in 1 .. Len(s) /\ j = s[PerPage + 2 - n] /\ 1 < PerPage + 2 - n
        BY <1>2, <2>2, <4>1
      <4> QED
        BY <1>3, <2>3, <4>2
    <3> QED
      BY <3>1
  <2>5. s[2] \in shown
    <3>1. PerPage \in 1 .. PerPage /\ PerPage + 2 - PerPage = 2
      BY <1>2
    <3>2. page[PerPage] = s[2]
      BY <2>2, <3>1
    <3> QED
      BY <1>8, <2>1, <3>1, <3>2
  <2>6. \A i \in S : i # s[1] => i <= s[2] /\ i < s[1] /\ i \in Nat
    <3>1. ASSUME NEW i \in S, i # s[1]
          PROVE  i <= s[2] /\ i < s[1] /\ i \in Nat
      <4>1. PICK k \in 1 .. Len(s) : s[k] = i
        BY <1>1
      <4>2. k \in Nat /\ k # 1 /\ k > 1 /\ (k = 2 \/ k > 2) /\ s[k] \in Nat /\ s[2] \in Nat
        BY <1>1, <2>3, <3>1, <4>1
      <4>3. s[1] > s[k] /\ (k > 2 => s[2] > s[k])
        BY <1>3, <2>3, <4>2
      <4> QED
        BY <2>3, <4>1, <4>2, <4>3
    <3> QED
      BY <3>1
  <2>7. {i \in S : \A j \in shown : i > j} = {s[1]}
    <3>1. s[2] \in Nat
      BY <1>1, <2>3
    <3>2. \A i \in S : (\A j \in shown : i > j) => i = s[1]
      BY <2>5, <2>6, <3>1
    <3> QED
      BY <2>3, <2>4, <3>2
  <2>8. (CHOOSE i \in S : \A j \in S : i >= j) = s[1]
    <3>1. \A j \in S : s[1] >= j
      BY <2>3, <2>6
    <3>2. \A i \in S : (\A j \in S : i >= j) => i = s[1]
      BY <2>3, <2>6
    <3> QED
      BY <2>3, <3>1, <3>2
  <2>9. ~(Cardinality(S) <= PerPage)
    BY <1>1, <1>2, <1>10
  <2> QED
    BY <2>7, <2>8, <2>9 DEF LeavesOutTheNearest, shown
<1> QED
  BY <1>9, <1>10

\* The page a request shows, and what it offers.
LEMMA ItemsAre ==
    ASSUME NEW r \in Readers, ListTyped, Items(r)
    PROVE  \E s \in Sorted(Selected(query[r], using[r]), CursorOrder(query[r], using[r])) :
           \E page :
             /\ page = IF using[r] = "cursor" THEN Shown(Fetched(s, query[r], using[r]))
                       ELSE Slice(s, Offset(Clamped(query[r].page, total[r])), PerPage)
             /\ pages'[r] = Append(pages[r], page)
             /\ next'[r] = Offers(r, Fetched(s, query[r], using[r]))
             /\ pages' = [pages EXCEPT ![r] = Append(pages[r], page)]
<1>1. PICK s \in Sorted(Selected(query[r], using[r]), CursorOrder(query[r], using[r])) :
        LET fetched == Fetched(s, query[r], using[r])
            page == IF using[r] = "cursor" THEN Shown(fetched)
                    ELSE Slice(s, Offset(Clamped(query[r].page, total[r])), PerPage)
        IN  /\ pages' = [pages EXCEPT ![r] = Append(@, page)]
            /\ next' = [next EXCEPT ![r] = Offers(r, fetched)]
  BY DEF Items
<1> DEFINE page == IF using[r] = "cursor" THEN Shown(Fetched(s, query[r], using[r]))
                   ELSE Slice(s, Offset(Clamped(query[r].page, total[r])), PerPage)
<1>2. /\ pages' = [pages EXCEPT ![r] = Append(pages[r], page)]
      /\ next' = [next EXCEPT ![r] = Offers(r, Fetched(s, query[r], using[r]))]
  BY <1>1
<1> HIDE DEF page
<1>3. pages'[r] = Append(pages[r], page) /\ next'[r] = Offers(r, Fetched(s, query[r], using[r]))
  BY <1>2 DEF ListTyped
<1> QED
  BY <1>2, <1>3 DEF page

\* What a response offers: a cursor that is an id, or a page.
LEMMA OffersAre ==
    ASSUME NEW r \in Readers, NEW fetched
    PROVE  /\ using[r] = "cursor" =>
                /\ Offers(r, fetched).page = Missing
                /\ Offers(r, fetched).after =
                     IF HasNext(fetched) THEN NextCursor(fetched) ELSE Missing
                /\ ~HasNext(fetched) => Offers(r, fetched) = Nothing
           /\ using[r] # "cursor" =>
                LET page == Clamped(query[r].page, total[r])
                IN  /\ Offers(r, fetched).after = Missing
                    /\ Offers(r, fetched).page =
                         IF page < TotalPages(total[r]) THEN page + 1 ELSE Missing
                    /\ ~(page < TotalPages(total[r])) => Offers(r, fetched) = Nothing
<1> DEFINE N == [page : {Missing}, after : {Missing}]
<1>1. Nothing \in N
  BY DEF Nothing
<1>2. \A x : [Nothing EXCEPT !.after = x] = [page |-> Missing, after |-> x]
  BY DEF Nothing
<1>3. \A x : [Nothing EXCEPT !.page = x] = [page |-> x, after |-> Missing]
  BY DEF Nothing
<1>4. Nothing = [page |-> Missing, after |-> Missing]
  BY DEF Nothing
<1>5. CASE using[r] = "cursor"
  <2>1. Offers(r, fetched) =
          [page |-> Missing, after |-> IF HasNext(fetched) THEN NextCursor(fetched) ELSE Missing]
    BY <1>2, <1>5 DEF Offers
  <2> QED
    BY <1>4, <1>5, <2>1
<1>6. CASE using[r] # "cursor"
  <2> DEFINE page == Clamped(query[r].page, total[r])
  <2>1. Offers(r, fetched) =
          [page |-> IF page < TotalPages(total[r]) THEN page + 1 ELSE Missing, after |-> Missing]
    BY <1>3, <1>6 DEF Offers
  <2> HIDE DEF page
  <2> QED
    BY <1>4, <1>6, <2>1 DEF page
<1> QED
  BY <1>5, <1>6

ItemsSame(r) ==
    /\ stage[r] = "items" /\ stage'[r] = "shown"
    /\ rows' = rows /\ strategy' = strategy /\ ordering' = ordering
    /\ client'[r] = client[r] /\ query'[r] = query[r] /\ asked'[r] = asked[r]
    /\ using'[r] = using[r] /\ total'[r] = total[r] /\ modes'[r] = modes[r] \cup {using[r]}
    /\ steady'[r] = steady[r] /\ came'[r] = came[r] /\ late'[r] = late[r] /\ left'[r] = left[r]

\* What a read of items leaves as it is.
LEMMA ItemsSameIs ==
    ASSUME NEW r \in Readers, ListTyped, ReaderInv(r), Items(r)
    PROVE  /\ ItemsSame(r) /\ using[r] \in {"offset", "cursor"}
           /\ query[r] \in ListQuery /\ total[r] \in Nat
<1>1. ItemsSame(r)
  BY DEF Items, ItemsSame, ListTyped, ListTypeOK, table, config
<1>2. using[r] \in {"offset", "cursor"}
  BY <1>1 DEF ItemsSame, BeginInv, ReaderInv
<1>3. total[r] \in 0 .. MaxId /\ MaxId \in Nat
  BY IdsAreNumbers DEF ListTyped, ListTypeOK
<1>4. total[r] \in Nat
  BY <1>3
<1>5. query \in [Readers -> ListQuery]
  BY DEF ListTyped, ListTypeOK
<1>6. query[r] \in ListQuery
  BY <1>5
<1> QED
  BY <1>1, <1>2, <1>4, <1>6

\* The page a request asks for, when it is there.
LEMMA ClampedIs ==
    ASSUME NEW p \in Nat \ {0}, NEW n \in Nat
    PROVE  /\ Clamped(p, n) \in Nat \ {0} /\ Clamped(p, n) <= p
           /\ p <= TotalPages(n) => Clamped(p, n) = p
           /\ Clamped(p, n) # p => Offset(p) >= n
           /\ ~(Clamped(p, n) < TotalPages(n)) => Offset(Clamped(p, n) + 1) >= n
           /\ Clamped(p, n) < TotalPages(n) => Clamped(p, n) + 1 <= TotalPages(n)
<1>1. TotalPages(n) \in Nat \ {0} /\ Offset(TotalPages(n) + 1) >= n
  BY PagesCover
<1>2. Clamped(p, n) = IF p > TotalPages(n) THEN TotalPages(n) ELSE p
  BY DEF Clamped
<1>3. ASSUME p > TotalPages(n)
      PROVE  Offset(p) >= n
  <2>1. TotalPages(n) + 1 <= p /\ TotalPages(n) + 1 \in Nat \ {0}
    BY <1>1, <1>3
  <2>2. Offset(TotalPages(n) + 1) <= Offset(p)
    BY <2>1, Offsets
  <2>3. Offset(TotalPages(n) + 1) \in Nat /\ Offset(p) \in Nat
    BY <2>1, Offsets
  <2> QED
    BY <1>1, <2>2, <2>3
<1>4. ASSUME ~(Clamped(p, n) < TotalPages(n))
      PROVE  Clamped(p, n) = TotalPages(n)
  BY <1>1, <1>2, <1>4
<1> QED
  BY <1>1, <1>2, <1>3, <1>4

\* A read of items ends the request it is for and goes on with the same list.
LEMMA ItemsKeepTheWalk ==
    ASSUME NEW r \in Readers, ListTyped, ReaderInv(r), Items(r)
    PROVE  /\ Asking(r) /\ ~Asking(r)' /\ Started(r) /\ Started(r)' /\ Walking(r) /\ Walking(r)'
           /\ ~Over(r)
           /\ NextPage(r) = query[r].page /\ NextAfter(r) = query[r].after
           /\ NextPage(r)' = next'[r].page /\ NextAfter(r)' = next'[r].after
           /\ Over(r)' <=> next'[r] = Nothing
           /\ Ordering(query[r])' = Ordering(query[r])
           /\ \A i, j : Before(Ordering(query[r]), j, i)' <=> Before(Ordering(query[r]), j, i)
           /\ Listed(r)' = Listed(r) /\ \A i : Preceding(r, i)' = Preceding(r, i)
           /\ SameList(r)' <=> SameList(r)
           /\ \A i : Undisturbed(r, i)' <=> Undisturbed(r, i)
           /\ InKeyOrder(r)' => InKeyOrder(r)
           /\ SameList(r) => query[r].before = Missing /\ ~PagesBack(query[r], using[r])
<1>1. ItemsSame(r) /\ query[r] \in ListQuery
  BY ItemsSameIs
<1>2. Asking(r) /\ ~Asking(r)' /\ Started(r) /\ Started(r)' /\ Walking(r) /\ Walking(r)'
  BY <1>1 DEF Asking, Started, Walking, ItemsSame
<1>3. Ordering(query[r])' = Ordering(query[r])
  BY <1>1 DEF Ordering, ItemsSame
<1>4. /\ \A i, j : Before(Ordering(query[r]), j, i)' <=> Before(Ordering(query[r]), j, i)
      /\ Listed(r)' = Listed(r) /\ \A i : Preceding(r, i)' = Preceding(r, i)
  BY <1>1, <1>3, ListStands DEF ItemsSame
<1>5. /\ SameList(r)' <=> SameList(r)
      /\ \A i : Undisturbed(r, i)' <=> Undisturbed(r, i)
  BY <1>1, <1>4 DEF SameList, Undisturbed, ItemsSame
<1>6. InKeyOrder(r)' => InKeyOrder(r)
  BY <1>1, <1>3 DEF InKeyOrder, ItemsSame
<1>7. SameList(r) => query[r].before = Missing
  BY <1>1 DEF SameList, ListQuery
<1>8. query[r].before = Missing => ~PagesBack(query[r], using[r])
  BY DEF PagesBack
<1>9. /\ ~Over(r) /\ NextPage(r) = query[r].page /\ NextAfter(r) = query[r].after
      /\ NextPage(r)' = next'[r].page /\ NextAfter(r)' = next'[r].after
      /\ Over(r)' <=> next'[r] = Nothing
  BY <1>2 DEF Over, NextPage, NextAfter
<1> QED
  BY <1>2, <1>3, <1>4, <1>5, <1>6, <1>7, <1>8, <1>9

\* A page by cursor: the rows up to the next cursor, each once more.
LEMMA ItemsByCursor ==
    ASSUME NEW r \in Readers, ListTyped, ReaderInv(r), Items(r), using[r] = "cursor", SameList(r)
    PROVE  CursorInv(r)' /\ ByCursorInv(r)' /\ AheadInv(r)' /\ PagesInv(r)' /\ OnceInv(r)'
<1>1. ItemsSame(r) /\ query[r] \in ListQuery
  BY ItemsSameIs
<1>2a. PICK s \in Sorted(Selected(query[r], using[r]), CursorOrder(query[r], using[r])) :
           \E page :
             /\ page = IF using[r] = "cursor" THEN Shown(Fetched(s, query[r], using[r]))
                       ELSE Slice(s, Offset(Clamped(query[r].page, total[r])), PerPage)
             /\ pages'[r] = Append(pages[r], page)
             /\ next'[r] = Offers(r, Fetched(s, query[r], using[r]))
  BY ItemsAre
<1>2. PICK page :
             /\ page = IF using[r] = "cursor" THEN Shown(Fetched(s, query[r], using[r]))
                       ELSE Slice(s, Offset(Clamped(query[r].page, total[r])), PerPage)
             /\ pages'[r] = Append(pages[r], page)
             /\ next'[r] = Offers(r, Fetched(s, query[r], using[r]))
  BY <1>2a
<1> DEFINE fetched == Slice(s, 0, PerPage + 1)
           S == Selected(query[r], "cursor")
<1>3. /\ Fetched(s, query[r], using[r]) = fetched
      /\ CursorOrder(query[r], using[r]) = Ordering(query[r])
  BY ItemsKeepTheWalk DEF Fetched, CursorOrder
<1>4. page = Shown(fetched) /\ next'[r] = Offers(r, fetched) /\ s \in Sorted(S, Ordering(query[r]))
  BY <1>2, <1>3
<1>5. modes'[r] = modes[r] \cup {"cursor"}
  BY <1>1 DEF ItemsSame
<1>6. /\ S \subseteq Ids
      /\ \A i : i \in S <=> i \in Listed(r) /\ (query[r].after # Missing => i > query[r].after)
  <2>1. query[r].before = Missing
    BY ItemsKeepTheWalk
  <2> QED
    BY <2>1 DEF Selected, Listed
<1> HIDE DEF fetched, S
<1>7. /\ next'[r].page = Missing
      /\ next'[r].after = IF HasNext(fetched) THEN NextCursor(fetched) ELSE Missing
      /\ ~HasNext(fetched) => next'[r] = Nothing
  BY <1>4, OffersAre
<1>8. ASSUME Ordering(query[r]) = "id"
      PROVE  /\ HasNext(fetched) => NextCursor(fetched) \in S
             /\ \A i \in S : OnPage(page, i) <=> (HasNext(fetched) => i <= NextCursor(fetched))
             /\ \A i : OnPage(page, i) => i \in S
  BY <1>4, <1>6, <1>8, PageForward DEF fetched
<1>9. \A i : Times(r, i)' = Times(r, i) + (IF OnPage(page, i) THEN 1 ELSE 0)
  BY <1>2, TimesAfterAPage
<1>10. \A i : Times(r, i) \in Nat
  BY TimesIsANumber
<1>11. CursorInv(r)'
  <2>1. next'[r] # Nothing => HasNext(fetched)
    BY <1>7
  <2>2. next'[r].after = Missing /\ next'[r] # Nothing => FALSE
    <3>1. SUFFICES ASSUME next'[r].after = Missing, HasNext(fetched)
                   PROVE  next'[r] = Nothing
      BY <2>1
    <3>2. Offers(r, fetched) =
            [Nothing EXCEPT !.after = IF HasNext(fetched) THEN NextCursor(fetched) ELSE Missing]
      BY DEF Offers
    <3>3. NextCursor(fetched) = Missing
      BY <1>7, <3>1
    <3> QED
      BY <1>4, <3>1, <3>2, <3>3 DEF Nothing
  <2> QED
    BY <1>5, <1>7, <2>2, ItemsKeepTheWalk DEF CursorInv
<1>12. ASSUME NEW i \in steady[r]
       PROVE  i \in Ids /\ i \in Nat /\ i \in Listed(r)
  <2>1. i \in Ids /\ Matches(query[r], rows[i])
    BY <1>12, ItemsKeepTheWalk DEF SteadyInv, ReaderInv, ListTyped
  <2> QED
    BY <2>1, IdsAreNumbers DEF Listed
<1>13. query[r].after \in Ids \cup {Missing}
  BY <1>1 DEF ListQuery
<1>14. ASSUME Ordering(query[r]) = "id", HasNext(fetched)
       PROVE  /\ next'[r].after = NextCursor(fetched) /\ NextCursor(fetched) \in Nat
              /\ next'[r].after # Missing /\ next'[r] # Nothing
              /\ query[r].after # Missing => NextCursor(fetched) > query[r].after
  <2>1. NextCursor(fetched) \in S
    BY <1>8, <1>14
  <2>2. NextCursor(fetched) \in Ids
    BY <1>6, <2>1
  <2>3. NextCursor(fetched) # Missing /\ NextCursor(fetched) \in Nat
    BY <2>2, IdsAreNumbers
  <2>4. next'[r] # Nothing
    BY <1>7, <1>14, <2>3 DEF Nothing
  <2> QED
    BY <1>6, <1>7, <1>14, <2>1, <2>3, <2>4
<1>15. ByCursorInv(r)'
  <2>1. SUFFICES ASSUME modes[r] \subseteq {"cursor"}, Ordering(query[r]) = "id",
                        NEW i \in steady[r]
                 PROVE  Times(r, i)' = IF next'[r] = Nothing
                                          \/ (next'[r].after # Missing /\ i <= next'[r].after)
                                       THEN 1 ELSE 0
    BY <1>1, <1>5, ItemsKeepTheWalk DEF ByCursorInv, ItemsSame
  <2>2. Times(r, i) = IF query[r].after # Missing /\ i <= query[r].after THEN 1 ELSE 0
    BY <2>1, ItemsKeepTheWalk DEF ByCursorInv, ReaderInv
  <2>3. i \in Nat /\ i \in Listed(r)
    BY <1>12
  <2>4. query[r].after # Missing => query[r].after \in Nat
    BY <1>13, IdsAreNumbers
  <2>5. CASE query[r].after # Missing /\ i <= query[r].after
    <3>1. i \notin S
      BY <1>6, <2>3, <2>4, <2>5
    <3>2. Times(r, i)' = 1
      BY <1>8, <1>9, <2>1, <2>2, <2>5, <3>1
    <3>3. HasNext(fetched) => next'[r].after # Missing /\ i <= next'[r].after
      BY <1>14, <2>1, <2>3, <2>4, <2>5
    <3> QED
      BY <1>7, <3>2, <3>3
  <2>6. CASE ~(query[r].after # Missing /\ i <= query[r].after)
    <3>1. i \in S
      BY <1>6, <2>3, <2>4, <2>6
    <3>2. Times(r, i) = 0 /\ Times(r, i)' = IF OnPage(page, i) THEN 1 ELSE 0
      BY <1>9, <2>2, <2>6
    <3>3. OnPage(page, i) <=> (HasNext(fetched) => i <= NextCursor(fetched))
      BY <1>8, <2>1, <3>1
    <3>4. CASE HasNext(fetched)
      BY <1>14, <2>1, <3>2, <3>3, <3>4
    <3>5. CASE ~HasNext(fetched)
      BY <1>7, <3>2, <3>3, <3>5
    <3> QED
      BY <3>4, <3>5
  <2> QED
    BY <2>5, <2>6
<1>16. AheadInv(r)'
  <2>1. ~(modes'[r] \subseteq {"offset"})
    BY <1>5
  <2>2. InKeyOrder(r)' => Ordering(query[r]) = "id"
    BY <2>1, ItemsKeepTheWalk DEF InKeyOrder
  <2>3. SUFFICES ASSUME Ordering(query[r]) = "id", InKeyOrder(r), NEW i \in steady[r],
                        Times(r, i)' = 0, Undisturbed(r, i)
                 PROVE  /\ next'[r] # Nothing /\ next'[r].after # Missing
                        /\ i > next'[r].after
    <3>1. steady'[r] = steady[r] /\ stage'[r] = "shown"
      BY <1>1 DEF ItemsSame
    <3> QED
      BY <2>2, <2>3, <3>1, ItemsKeepTheWalk DEF AheadInv
  <2>4. Times(r, i) = 0 /\ ~OnPage(page, i)
    BY <1>9, <1>10, <2>3
  <2>5. query[r].after # Missing => i > query[r].after
    BY <2>3, <2>4, ItemsKeepTheWalk DEF AheadInv, ReaderInv
  <2>6. i \in S
    BY <1>6, <1>12, <2>5
  <2>7. HasNext(fetched) /\ ~(i <= NextCursor(fetched))
    BY <1>8, <2>3, <2>4, <2>6
  <2> QED
    BY <1>12, <1>14, <2>3, <2>7
<1>17. PagesInv(r)' /\ OnceInv(r)'
  <2>1. ~(modes'[r] \subseteq {"offset"})
    BY <1>5
  <2> QED
    BY <2>1 DEF PagesInv, OnceInv
<1> QED
  BY <1>11, <1>15, <1>16, <1>17

\* A page by number: the rows that enough rows come before.
LEMMA ItemsByNumber ==
    ASSUME NEW r \in Readers, ListTyped, ReaderInv(r), Items(r), using[r] = "offset", SameList(r)
    PROVE  CursorInv(r)' /\ ByCursorInv(r)' /\ AheadInv(r)' /\ PagesInv(r)' /\ OnceInv(r)'
<1> DEFINE pg == Clamped(query[r].page, total[r])
           last == TotalPages(total[r])
<1>1. ItemsSame(r) /\ query[r] \in ListQuery /\ total[r] \in Nat
  BY ItemsSameIs
<1>2a. PICK s \in Sorted(Selected(query[r], using[r]), CursorOrder(query[r], using[r])) :
           \E page :
             /\ page = IF using[r] = "cursor" THEN Shown(Fetched(s, query[r], using[r]))
                       ELSE Slice(s, Offset(Clamped(query[r].page, total[r])), PerPage)
             /\ pages'[r] = Append(pages[r], page)
             /\ next'[r] = Offers(r, Fetched(s, query[r], using[r]))
  BY ItemsAre
<1>2. PICK page :
             /\ page = IF using[r] = "cursor" THEN Shown(Fetched(s, query[r], using[r]))
                       ELSE Slice(s, Offset(Clamped(query[r].page, total[r])), PerPage)
             /\ pages'[r] = Append(pages[r], page)
             /\ next'[r] = Offers(r, Fetched(s, query[r], using[r]))
  BY <1>2a
<1>3. CursorOrder(query[r], using[r]) = Ordering(query[r])
  BY ItemsKeepTheWalk DEF CursorOrder
<1>4. Selected(query[r], using[r]) = Listed(r) /\ Listed(r) \in SUBSET Ids
  BY DEF Selected, Listed
<1>5. page = Slice(s, Offset(pg), PerPage) /\ s \in Sorted(Listed(r), Ordering(query[r]))
  BY <1>2, <1>3, <1>4
<1>6. modes'[r] = modes[r] \cup {"offset"}
  BY <1>1 DEF ItemsSame
<1>7. /\ next'[r].after = Missing
      /\ next'[r].page = IF pg < last THEN pg + 1 ELSE Missing
      /\ ~(pg < last) => next'[r] = Nothing
  BY <1>2, OffersAre
<1>8. query[r].page \in Nat \ {0} /\ query[r].after \in Ids \cup {Missing}
  BY <1>1 DEF ListQuery
<1>9. /\ pg \in Nat \ {0} /\ pg <= query[r].page
      /\ query[r].page <= last => pg = query[r].page
      /\ ~(pg < last) => Offset(pg + 1) >= total[r]
      /\ pg < last => pg + 1 <= last
  BY <1>1, <1>8, ClampedIs
<1>10. last \in Nat \ {0} /\ PerPage \in Nat \ {0}
  BY <1>1, PagesCover, IdsAreNumbers
<1> HIDE DEF pg, last
<1>11. /\ Offset(pg) \in Nat /\ Offset(pg + 1) = Offset(pg) + PerPage
       /\ Offset(pg) <= Offset(query[r].page) /\ Offset(query[r].page) \in Nat
       /\ Offset(1) = 0
  BY <1>8, <1>9, Offsets
<1>12. pg < last => /\ next'[r].page = pg + 1 /\ pg + 1 \in Nat \ {0}
                    /\ next'[r].page # Missing /\ next'[r] # Nothing
  <2>1. SUFFICES ASSUME pg < last
                 PROVE  /\ next'[r].page = pg + 1 /\ pg + 1 \in Nat \ {0}
                        /\ next'[r].page # Missing /\ next'[r] # Nothing
    OBVIOUS
  <2>2. next'[r].page = pg + 1 /\ pg + 1 \in Nat \ {0}
    BY <1>7, <1>9, <2>1
  <2>3. next'[r].page # Missing
    BY <2>2, IdsAreNumbers
  <2> QED
    BY <2>2, <2>3 DEF Nothing
<1>13. \A i : Times(r, i)' = Times(r, i) + (IF OnPage(page, i) THEN 1 ELSE 0)
  BY <1>2, TimesAfterAPage
<1>14. \A i : Times(r, i) \in Nat
  BY TimesIsANumber
<1>15. ASSUME NEW i \in steady[r]
       PROVE  i \in Ids /\ i \in Nat /\ i \in Listed(r)
  <2>1. i \in Ids /\ Matches(query[r], rows[i])
    BY <1>15, ItemsKeepTheWalk DEF SteadyInv, ReaderInv, ListTyped
  <2> QED
    BY <2>1, IdsAreNumbers DEF Listed
<1>16. \A i : Cardinality(Preceding(r, i)) \in Nat
  <2>1. ASSUME NEW i
        PROVE  Cardinality(Preceding(r, i)) \in Nat
    <3>1. Preceding(r, i) \in SUBSET Ids
      BY <1>4 DEF Preceding
    <3>2. Cardinality(Preceding(r, i)) \in 0 .. MaxId /\ MaxId \in Nat
      BY <3>1, IdsAreFinite, IdsAreNumbers
    <3> QED
      BY <3>2
  <2> QED
    BY <2>1
<1>17. ASSUME NEW i \in steady[r], Ordering(query[r]) \in {"id", "-id"}
       PROVE  OnPage(page, i) <=> /\ Offset(pg) <= Cardinality(Preceding(r, i))
                                  /\ Cardinality(Preceding(r, i)) < Offset(pg + 1)
  <2> DEFINE rank == Cardinality({j \in Listed(r) : Before(Ordering(query[r]), j, i)})
  <2>1. OnPage(Slice(s, Offset(pg), PerPage), i)
          <=> Offset(pg) <= rank /\ rank < Offset(pg) + PerPage
    BY <1>4, <1>5, <1>11, <1>15, <1>17, PageByNumber
  <2>2. rank = Cardinality(Preceding(r, i))
    BY DEF Preceding
  <2> HIDE DEF rank
  <2> QED
    BY <1>5, <1>11, <2>1, <2>2
<1>18. CursorInv(r)'
  <2>1. ~(modes'[r] \subseteq {"cursor"})
    BY <1>6
  <2>2. next'[r] # Nothing => next'[r].page \in Nat \ {0}
    BY <1>7, <1>12
  <2> QED
    BY <1>7, <2>1, <2>2, ItemsKeepTheWalk DEF CursorInv
<1>19. ByCursorInv(r)'
  <2>1. ~(modes'[r] \subseteq {"cursor"})
    BY <1>6
  <2> QED
    BY <2>1 DEF ByCursorInv
<1>20. AheadInv(r)'
  <2>1. SUFFICES ASSUME InKeyOrder(r), NEW i \in steady[r], Times(r, i)' = 0, Undisturbed(r, i)
                 PROVE  /\ next'[r] # Nothing
                        /\ Cardinality(Preceding(r, i)) >= Offset(next'[r].page)
    <3>1. steady'[r] = steady[r] /\ stage'[r] = "shown"
      BY <1>1 DEF ItemsSame
    <3>2. \A i : Offset(NextPage(r)') = Offset(NextPage(r))'
      BY DEF Offset
    <3> QED
      BY <1>7, <2>1, <3>1, <3>2, ItemsKeepTheWalk DEF AheadInv
  <2>2. Times(r, i) = 0 /\ ~OnPage(page, i)
    BY <1>13, <1>14, <2>1
  <2> DEFINE rank == Cardinality(Preceding(r, i))
  <2>3. /\ query[r].after = Missing => rank >= Offset(query[r].page)
        /\ rank < total[r]
    BY <1>1, <2>1, <2>2, ItemsKeepTheWalk DEF AheadInv, ReaderInv, ItemsSame
  <2>4. query[r].after # Missing => query[r].page = 1
    <3>1. query[r].after # Missing => query[r].page \in {1, Missing}
      BY ItemsKeepTheWalk DEF CursorInv, ReaderInv
    <3> QED
      BY <1>8, <3>1, IdsAreNumbers
  <2>5. Ordering(query[r]) \in {"id", "-id"}
    BY <2>1 DEF InKeyOrder
  <2>6. OnPage(page, i) <=> Offset(pg) <= rank /\ rank < Offset(pg + 1)
    BY <1>17, <2>5
  <2>7. rank \in Nat
    BY <1>16
  <2> HIDE DEF rank
  <2>8. rank >= Offset(pg)
    BY <1>11, <2>3, <2>4, <2>7
  <2>9. rank >= Offset(pg + 1)
    BY <1>10, <1>11, <2>2, <2>6, <2>7, <2>8
  <2>10. pg < last
    BY <1>1, <1>9, <1>10, <1>11, <2>3, <2>7, <2>9
  <2> QED
    BY <1>12, <2>9, <2>10 DEF rank
<1>21. ASSUME modes'[r] \subseteq {"offset"}, left'[r] = {}
       PROVE  /\ modes[r] \subseteq {"offset"} /\ left[r] = {}
              /\ total[r] <= Cardinality(Listed(r)) /\ query[r].page <= last
  <2>1. modes[r] \subseteq {"offset"} /\ left[r] = {}
    BY <1>1, <1>6, <1>21 DEF ItemsSame
  <2>2. stage[r] = "items"
    BY <1>1 DEF ItemsSame
  <2> QED
    BY <2>1, <2>2, ItemsKeepTheWalk DEF PagesInv, ReaderInv, last
<1>22. PagesInv(r)'
  <2>1. SUFFICES ASSUME modes'[r] \subseteq {"offset"}, left'[r] = {}, next'[r].page # Missing
                 PROVE  next'[r].page <= TotalPages(Cardinality(Listed(r)))
    <3>1. TotalPages(Cardinality(Listed(r)))' = TotalPages(Cardinality(Listed(r)'))
      BY DEF TotalPages, AtLeastOne
    <3> QED
      BY <1>1, <2>1, <3>1, ItemsKeepTheWalk DEF PagesInv, ItemsSame
  <2>2. pg < last /\ next'[r].page = pg + 1
    BY <1>7, <2>1
  <2>3. Cardinality(Listed(r)) \in Nat
    BY <1>4, IdsAreFinite, IdsAreNumbers
  <2>4. last <= TotalPages(Cardinality(Listed(r))) /\ TotalPages(Cardinality(Listed(r))) \in Nat
    BY <1>1, <1>21, <2>1, <2>3, PagesCover DEF last
  <2> HIDE DEF Listed
  <2> QED
    BY <1>9, <1>10, <2>2, <2>4
<1>23. OnceInv(r)'
  <2>1. SUFFICES ASSUME modes'[r] \subseteq {"offset"}, left'[r] = {},
                        Ordering(query[r]) \in {"id", "-id"}, NEW i \in steady[r],
                        \A j \in came[r] : ~Before(Ordering(query[r]), j, i)
                 PROVE  /\ Times(r, i)' <= 1
                        /\ Times(r, i)' = 1 /\ next'[r] # Nothing =>
                             Cardinality(Preceding(r, i)) < Offset(next'[r].page)
    <3>1. steady'[r] = steady[r] /\ came'[r] = came[r]
      BY <1>1 DEF ItemsSame
    <3>2. Offset(NextPage(r))' = Offset(NextPage(r)')
      BY DEF Offset
    <3> QED
      BY <2>1, <3>1, <3>2, ItemsKeepTheWalk DEF OnceInv
  <2> DEFINE rank == Cardinality(Preceding(r, i))
  <2>2. Times(r, i) <= 1 /\ (Times(r, i) = 1 => rank < Offset(query[r].page))
    BY <1>21, <2>1, ItemsKeepTheWalk DEF OnceInv, ReaderInv
  <2>3. pg = query[r].page
    BY <1>9, <1>21, <2>1
  <2>4. OnPage(page, i) <=> Offset(pg) <= rank /\ rank < Offset(pg + 1)
    BY <1>17, <2>1
  <2>5. rank \in Nat /\ Times(r, i) \in Nat
    BY <1>14, <1>16
  <2>6. Times(r, i)' = Times(r, i) + (IF OnPage(page, i) THEN 1 ELSE 0)
    BY <1>13
  <2>7. next'[r] # Nothing => next'[r].page = pg + 1
    BY <1>7, <1>12
  <2> HIDE DEF rank
  <2>8. CASE OnPage(page, i)
    <3>1. Times(r, i) = 0 /\ Times(r, i)' = 1
      BY <1>11, <2>2, <2>3, <2>4, <2>5, <2>6, <2>8
    <3> QED
      BY <2>4, <2>7, <2>8, <3>1 DEF rank
  <2>9. CASE ~OnPage(page, i)
    <3>1. Times(r, i)' = Times(r, i)
      BY <2>5, <2>6, <2>9
    <3>2. Times(r, i) = 1 => rank < Offset(pg + 1)
      BY <1>10, <1>11, <2>2, <2>3, <2>5
    <3> QED
      BY <2>2, <2>7, <3>1, <3>2 DEF rank
  <2> QED
    BY <2>8, <2>9
<1> QED
  BY <1>18, <1>19, <1>20, <1>22, <1>23

\* A page back by cursor.
LEMMA ItemsGap ==
    ASSUME NEW r \in Readers, ListTyped, ReaderInv(r), Items(r)
    PROVE  GapInv(r)'
<1>1. ItemsSame(r) /\ query[r] \in ListQuery
  BY ItemsSameIs
<1>2. SUFFICES ASSUME Len(pages'[r]) = 1, modes'[r] = {"cursor"},
                      PagesBack(query'[r], "cursor"), Ordering(query[r])' = ""
               PROVE  LeavesOutTheNearest({pages'[r][1][n] : n \in DOMAIN pages'[r][1]},
                                          Selected(query[r], "cursor"))
  <2>1. Selected(query[r], "cursor")' = Selected(query[r], "cursor")
    BY <1>1 DEF Selected, ItemsSame
  <2> QED
    BY <1>2, <2>1 DEF GapInv, LeavesOutTheNearest
<1>3a. PICK s \in Sorted(Selected(query[r], using[r]), CursorOrder(query[r], using[r])) :
           \E page :
             /\ page = IF using[r] = "cursor" THEN Shown(Fetched(s, query[r], using[r]))
                       ELSE Slice(s, Offset(Clamped(query[r].page, total[r])), PerPage)
             /\ pages'[r] = Append(pages[r], page)
             /\ next'[r] = Offers(r, Fetched(s, query[r], using[r]))
  BY ItemsAre
<1>3. PICK page :
             /\ page = IF using[r] = "cursor" THEN Shown(Fetched(s, query[r], using[r]))
                       ELSE Slice(s, Offset(Clamped(query[r].page, total[r])), PerPage)
             /\ pages'[r] = Append(pages[r], page)
             /\ next'[r] = Offers(r, Fetched(s, query[r], using[r]))
  BY <1>3a
<1>4. using[r] = "cursor"
  BY <1>1, <1>2 DEF ItemsSame
<1>5. PagesBack(query[r], "cursor") /\ Ordering(query[r]) = ""
  BY <1>1, <1>2, ItemsKeepTheWalk DEF ItemsSame
<1>6. CursorOrder(query[r], "cursor") = "-id"
  BY <1>5 DEF CursorOrder
<1>7. page = Shown(Reverse(Slice(s, 0, PerPage + 1)))
  BY <1>3, <1>4, <1>5 DEF Fetched
<1>8. Selected(query[r], "cursor") \in SUBSET Ids
  BY DEF Selected
<1>9. LeavesOutTheNearest({page[n] : n \in DOMAIN page}, Selected(query[r], "cursor"))
  BY <1>3, <1>4, <1>6, <1>7, <1>8, PageBackward
<1>10. pages'[r][1] = page
  <2>1. pages[r] \in Seq(Seq(Ids))
    BY DEF ListTyped
  <2>2. Len(pages[r]) \in Nat /\ Len(Append(pages[r], page)) = Len(pages[r]) + 1
    BY <2>1
  <2>3. Len(pages[r]) = 0
    <3>1. Len(Append(pages[r], page)) = 1
      BY <1>2, <1>3
    <3> QED
      BY <2>2, <3>1
  <2>4. Append(pages[r], page)[Len(pages[r]) + 1] = page
    BY <2>1
  <2> QED
    BY <1>3, <2>3, <2>4
<1> QED
  BY <1>9, <1>10

\* A read of items keeps the invariant.
LEMMA ItemsKeeps ==
    ASSUME NEW r \in Readers, ListTyped, ReaderInv(r), Items(r)
    PROVE  ReaderInv(r)'
<1>1. ItemsSame(r) /\ using[r] \in {"offset", "cursor"}
  BY ItemsSameIs
<1>2. Started(r)
  BY ItemsKeepTheWalk
<1>3. BeginInv(r)'
  BY <1>1, <1>2 DEF BeginInv, ReaderInv, ItemsSame, Started, Asking
<1>4. QueryInv(r)'
  <2>1. SameList(r)' <=> SameList(r)
    BY ItemsKeepTheWalk
  <2>2. Started(r)
    BY ItemsKeepTheWalk
  <2> QED
    BY <1>1, <2>1, <2>2 DEF QueryInv, ReaderInv, ItemsSame
<1>5. SteadyInv(r)'
  <2>1. (SameList(r)' <=> SameList(r)) /\ Walking(r)
    BY ItemsKeepTheWalk
  <2>2. \A i : Matches(query'[r], rows'[i]) <=> Matches(query[r], rows[i])
    BY <1>1 DEF ItemsSame
  <2> QED
    BY <1>1, <2>1, <2>2 DEF SteadyInv, ReaderInv, ItemsSame
<1>6. CursorInv(r)' /\ ByCursorInv(r)' /\ AheadInv(r)' /\ PagesInv(r)' /\ OnceInv(r)'
  <2>1. CASE SameList(r)
    BY <1>1, <2>1, ItemsByCursor, ItemsByNumber
  <2>2. CASE ~SameList(r)
    <3>1. ~SameList(r)'
      BY <2>2, ItemsKeepTheWalk
    <3> QED
      BY <3>1 DEF CursorInv, ByCursorInv, AheadInv, PagesInv, OnceInv
  <2> QED
    BY <2>1, <2>2
<1>7. GapInv(r)'
  BY ItemsGap
<1> QED
  BY <1>3, <1>4, <1>5, <1>6, <1>7 DEF ReaderInv

-----------------------------------------------------------------------------
(* The steps of a writer.                                                     *)

CommitSame(r) ==
    /\ strategy' = strategy /\ ordering' = ordering
    /\ client'[r] = client[r] /\ query'[r] = query[r] /\ pages'[r] = pages[r]
    /\ asked'[r] = asked[r] /\ modes'[r] = modes[r] /\ stage'[r] = stage[r]
    /\ using'[r] = using[r] /\ total'[r] = total[r] /\ next'[r] = next[r]

CommitIsAsBefore(r) ==
    /\ (Asking(r)' <=> Asking(r)) /\ (Started(r)' <=> Started(r)) /\ (Walking(r)' <=> Walking(r))
    /\ (SameList(r)' <=> SameList(r)) /\ (InKeyOrder(r)' <=> InKeyOrder(r))
    /\ (Over(r)' <=> Over(r)) /\ NextPage(r)' = NextPage(r) /\ NextAfter(r)' = NextAfter(r)
    /\ Ordering(query[r])' = Ordering(query[r])
    /\ \A i : Times(r, i)' = Times(r, i)

\* What a commit of rows changes for a reader.
LEMMA CommitIs ==
    ASSUME NEW r \in Readers, NEW w \in Writers, NEW new,
           CommitRows(w, new), UNCHANGED <<config, reading>>
    PROVE  /\ CommitSame(r) /\ CommitIsAsBefore(r) /\ rows' = new
           /\ steady'[r] = steady[r] \ (Arrivals(r, new) \cup Departures(r, new))
           /\ came'[r] = came[r] \cup Arrivals(r, new)
           /\ late'[r] = late[r] \cup IF stage[r] = "items" THEN Arrivals(r, new) ELSE {}
           /\ left'[r] = left[r] \cup Departures(r, new)
<1>1. CommitSame(r)
  BY DEF CommitSame, CommitRows, config, reading
<1>2. /\ rows' = new
      /\ steady'[r] = steady[r] \ (Arrivals(r, new) \cup Departures(r, new))
      /\ came'[r] = came[r] \cup Arrivals(r, new)
      /\ late'[r] = late[r] \cup IF stage[r] = "items" THEN Arrivals(r, new) ELSE {}
      /\ left'[r] = left[r] \cup Departures(r, new)
  BY DEF CommitRows
<1>3. /\ (Asking(r)' <=> Asking(r)) /\ (Started(r)' <=> Started(r)) /\ (Walking(r)' <=> Walking(r))
  BY <1>1 DEF CommitSame, Asking, Started, Walking
<1>4. (Over(r)' <=> Over(r)) /\ NextPage(r)' = NextPage(r) /\ NextAfter(r)' = NextAfter(r)
  BY <1>1, <1>3 DEF CommitSame, Over, NextPage, NextAfter
<1>5. Ordering(query[r])' = Ordering(query[r])
  BY <1>1 DEF CommitSame, Ordering
<1>6. (SameList(r)' <=> SameList(r)) /\ (InKeyOrder(r)' <=> InKeyOrder(r))
  BY <1>1, <1>5 DEF CommitSame, SameList, InKeyOrder
<1>7. \A i : Times(r, i)' = Times(r, i)
  BY <1>1 DEF CommitSame, Times
<1> QED
  BY <1>1, <1>2, <1>3, <1>4, <1>5, <1>6, <1>7 DEF CommitIsAsBefore

\* A commit and the list of a walk: what stays is unchanged, and what comes and
\* goes is remembered.
LEMMA CommitAndList ==
    ASSUME NEW r \in Readers, NEW w \in Writers, NEW new,
           CommitRows(w, new), UNCHANGED <<config, reading>>, Walking(r)
    PROVE  /\ \A i \in steady'[r] : i \in Ids /\ Matches(query[r], rows[i]) =>
                Matches(query'[r], rows'[i])
           /\ Listed(r) \ Listed(r)' \subseteq Departures(r, new)
           /\ Listed(r)' \ Listed(r) \subseteq Arrivals(r, new)
           /\ Arrivals(r, new) = {} /\ Departures(r, new) = {} =>
                \A i \in Ids : Matches(query'[r], rows'[i]) <=> Matches(query[r], rows[i])
<1>1. rows' = new /\ query'[r] = query[r]
      /\ steady'[r] = steady[r] \ (Arrivals(r, new) \cup Departures(r, new))
  BY CommitIs DEF CommitSame
<1>2. /\ Arrivals(r, new) = {i \in Ids : rows[i] # new[i] /\ Matches(query[r], new[i])}
      /\ Departures(r, new) = {i \in Ids : rows[i] # new[i] /\ Matches(query[r], rows[i])}
  BY DEF Arrivals, Departures
<1>3. ASSUME NEW i \in Ids, Matches(query[r], rows[i]), ~Matches(query[r], new[i])
      PROVE  i \in Departures(r, new)
  BY <1>2, <1>3
<1>4. ASSUME NEW i \in Ids, ~Matches(query[r], rows[i]), Matches(query[r], new[i])
      PROVE  i \in Arrivals(r, new)
  BY <1>2, <1>4
<1>5. Listed(r)' = {j \in Ids : Matches(query[r], new[j])}
  BY <1>1 DEF Listed
<1>6. Listed(r) = {j \in Ids : Matches(query[r], rows[j])}
  BY DEF Listed
<1> QED
  BY <1>1, <1>3, <1>4, <1>5, <1>6

\* And what precedes a row in the order of the key.
LEMMA CommitAndOrder ==
    ASSUME NEW r \in Readers, NEW w \in Writers, NEW new,
           CommitRows(w, new), UNCHANGED <<config, reading>>, Walking(r),
           Ordering(query[r]) \in {"id", "-id"}, NEW i
    PROVE  /\ Cardinality(Preceding(r, i)) \in Nat /\ Cardinality(Preceding(r, i))' \in Nat
           /\ (\A j \in Departures(r, new) : ~Before(Ordering(query[r]), j, i)) =>
                Cardinality(Preceding(r, i)) <= Cardinality(Preceding(r, i))'
           /\ (\A j \in Arrivals(r, new) : ~Before(Ordering(query[r]), j, i)) =>
                Cardinality(Preceding(r, i))' <= Cardinality(Preceding(r, i))
<1>1. \A j : Before(Ordering(query[r]), j, i)' <=> Before(Ordering(query[r]), j, i)
  <2>1. Ordering(query[r])' = Ordering(query[r])
    BY CommitIs DEF CommitIsAsBefore
  <2> QED
    BY <2>1 DEF Before
<1>2. /\ Listed(r) \ Listed(r)' \subseteq Departures(r, new)
      /\ Listed(r)' \ Listed(r) \subseteq Arrivals(r, new)
  BY CommitAndList
<1> DEFINE P == Preceding(r, i)
           Q == Preceding(r, i)'
<1>3. P \in SUBSET Ids /\ Q \in SUBSET Ids
  BY DEF Preceding, Listed
<1>4. /\ \A j : j \in P <=> j \in Listed(r) /\ Before(Ordering(query[r]), j, i)
      /\ \A j : j \in Q <=> j \in Listed(r)' /\ Before(Ordering(query[r]), j, i)
  BY <1>1 DEF Preceding
<1>5. Cardinality(Preceding(r, i))' = Cardinality(Q)
  OBVIOUS
<1> HIDE DEF P, Q
<1>6. IsFiniteSet(P) /\ IsFiniteSet(Q) /\ Cardinality(P) \in Nat /\ Cardinality(Q) \in Nat
  BY <1>3, IdsAreFinite, IdsAreNumbers
<1>7. ASSUME \A j \in Departures(r, new) : ~Before(Ordering(query[r]), j, i)
      PROVE  Cardinality(P) <= Cardinality(Q)
  <2>1. P \subseteq Q
    BY <1>2, <1>4, <1>7
  <2> QED
    BY <1>6, <2>1, FS_Subset
<1>8. ASSUME \A j \in Arrivals(r, new) : ~Before(Ordering(query[r]), j, i)
      PROVE  Cardinality(Q) <= Cardinality(P)
  <2>1. Q \subseteq P
    BY <1>2, <1>4, <1>8
  <2> QED
    BY <1>6, <2>1, FS_Subset
<1> QED
  BY <1>5, <1>6, <1>7, <1>8 DEF P

\* Rows that have not been shown stay ahead unless a row before them goes.
LEMMA CommitKeepsAhead ==
    ASSUME NEW r \in Readers, NEW w \in Writers, NEW new, ListTyped, ReaderInv(r),
           CommitRows(w, new), UNCHANGED <<config, reading>>
    PROVE  AheadInv(r)'
<1>1. /\ CommitSame(r) /\ CommitIsAsBefore(r)
      /\ steady'[r] \subseteq steady[r] /\ left[r] \subseteq left'[r] /\ late[r] \subseteq late'[r]
      /\ Departures(r, new) \subseteq left'[r]
      /\ stage[r] = "items" => Arrivals(r, new) \subseteq late'[r]
  BY CommitIs
<1>2. SUFFICES ASSUME Started(r), SameList(r), InKeyOrder(r), NEW i \in steady'[r],
                      Times(r, i) = 0, Undisturbed(r, i)'
               PROVE  /\ ~Over(r)
                      /\ NextAfter(r) # Missing => i > NextAfter(r)
                      /\ NextAfter(r) = Missing =>
                           Cardinality(Preceding(r, i))' >= Offset(NextPage(r))
                      /\ stage[r] = "items" /\ using[r] = "offset" =>
                           Cardinality(Preceding(r, i))' < total[r]
  <2>1. Offset(NextPage(r))' = Offset(NextPage(r)')
    BY DEF Offset
  <2> QED
    BY <1>1, <1>2, <2>1 DEF AheadInv, CommitSame, CommitIsAsBefore
<1>3. Ordering(query[r]) \in {"id", "-id"}
  BY <1>2 DEF InKeyOrder
<1>4. \A j \in left'[r] \cup late'[r] : ~Before(Ordering(query[r]), j, i)
  <2>1. \A j : Before(Ordering(query[r]), j, i)' <=> Before(Ordering(query[r]), j, i)
    BY <1>1, <1>3 DEF Before, CommitIsAsBefore
  <2> QED
    BY <1>2, <2>1 DEF Undisturbed
<1>5. Undisturbed(r, i)
  BY <1>1, <1>4 DEF Undisturbed
<1>6. /\ ~Over(r)
      /\ NextAfter(r) # Missing => i > NextAfter(r)
      /\ NextAfter(r) = Missing => Cardinality(Preceding(r, i)) >= Offset(NextPage(r))
      /\ stage[r] = "items" /\ using[r] = "offset" => Cardinality(Preceding(r, i)) < total[r]
  BY <1>1, <1>2, <1>5 DEF AheadInv, ReaderInv
<1>7. Walking(r)
  BY <1>2, <1>6 DEF Walking, Started, Asking, Over, BeginInv, ReaderInv
<1>8. /\ Cardinality(Preceding(r, i)) \in Nat /\ Cardinality(Preceding(r, i))' \in Nat
      /\ Cardinality(Preceding(r, i)) <= Cardinality(Preceding(r, i))'
      /\ stage[r] = "items" => Cardinality(Preceding(r, i))' <= Cardinality(Preceding(r, i))
  BY <1>1, <1>3, <1>4, <1>7, CommitAndOrder
<1>9. NextAfter(r) = Missing => Offset(NextPage(r)) \in Nat
  <2>1. NextAfter(r) = Missing => NextPage(r) \in Nat \ {0}
    BY <1>2, <1>6 DEF CursorInv, ReaderInv
  <2> QED
    BY <2>1, Offsets
<1>10. total[r] \in Nat
  <2>1. total[r] \in 0 .. MaxId /\ MaxId \in Nat
    BY IdsAreNumbers DEF ListTyped, ListTypeOK
  <2> QED
    BY <2>1
<1> DEFINE a == Cardinality(Preceding(r, i))
           b == Cardinality(Preceding(r, i))'
<1>11. NextAfter(r) = Missing => b >= Offset(NextPage(r))
  <2>1. a \in Nat /\ b \in Nat /\ a <= b
    BY <1>8
  <2>2. NextAfter(r) = Missing => a >= Offset(NextPage(r))
    BY <1>6
  <2> HIDE DEF a, b
  <2> QED
    BY <1>9, <2>1, <2>2
<1>12. stage[r] = "items" /\ using[r] = "offset" => b < total[r]
  <2>1. a \in Nat /\ b \in Nat /\ (stage[r] = "items" => b <= a)
    BY <1>8
  <2>2. stage[r] = "items" /\ using[r] = "offset" => a < total[r]
    BY <1>6
  <2> HIDE DEF a, b
  <2> QED
    BY <1>10, <2>1, <2>2
<1> QED
  BY <1>6, <1>11, <1>12

\* The next page stays one there is while no row goes.
LEMMA CommitKeepsPages ==
    ASSUME NEW r \in Readers, NEW w \in Writers, NEW new, ListTyped, ReaderInv(r),
           CommitRows(w, new), UNCHANGED <<config, reading>>
    PROVE  PagesInv(r)'
<1>1. /\ CommitSame(r) /\ CommitIsAsBefore(r)
      /\ left[r] \subseteq left'[r] /\ Departures(r, new) \subseteq left'[r]
  BY CommitIs
<1> DEFINE n == Cardinality(Listed(r))
           m == Cardinality(Listed(r)')
<1>2. SUFFICES ASSUME Walking(r), left'[r] = {}
               PROVE  n \in Nat /\ m \in Nat /\ n <= m
  <2>1. CASE Walking(r) /\ left'[r] = {}
    <3>1. n \in Nat /\ m \in Nat /\ n <= m
      BY <1>2, <2>1
    <3>2. left[r] = {}
      BY <1>1, <2>1
    <3>3. TotalPages(n) \in Nat /\ TotalPages(m) \in Nat /\ TotalPages(n) <= TotalPages(m)
      BY <3>1, PagesCover
    <3>4. /\ Cardinality(Listed(r))' = m /\ TotalPages(Cardinality(Listed(r)))' = TotalPages(m)
          /\ TotalPages(total[r])' = TotalPages(total'[r])
      BY DEF TotalPages, AtLeastOne
    <3>5. ASSUME Started(r), SameList(r), modes[r] \subseteq {"offset"}
          PROVE  /\ Asking(r) => NextPage(r) \in Nat
                 /\ NextPage(r) # Missing /\ stage[r] = "shown" => NextPage(r) \in Nat
      <4>1. NextAfter(r) = Missing
        BY <3>5 DEF CursorInv, ReaderInv
      <4>2. Asking(r) => ~Over(r)
        BY DEF Over
      <4>3. NextPage(r) # Missing /\ stage[r] = "shown" => ~Over(r)
        BY DEF NextPage, Over, Asking, Nothing
      <4> QED
        BY <3>5, <4>1, <4>2, <4>3 DEF CursorInv, ReaderInv
    <3>6. total[r] \in Nat
      <4>1. total[r] \in 0 .. MaxId /\ MaxId \in Nat
        BY IdsAreNumbers DEF ListTyped, ListTypeOK
      <4> QED
        BY <4>1
    <3> HIDE DEF n, m
    <3>7. SUFFICES ASSUME Started(r), SameList(r), modes[r] \subseteq {"offset"}
                   PROVE  /\ Asking(r) => NextPage(r) <= TotalPages(m)
                          /\ stage[r] = "items" /\ using[r] = "offset" =>
                               total[r] <= m /\ NextPage(r) <= TotalPages(total[r])
                          /\ stage[r] = "shown" /\ NextPage(r) # Missing =>
                               NextPage(r) <= TotalPages(m)
      BY <1>1, <3>4 DEF PagesInv, CommitSame, CommitIsAsBefore
    <3>8. /\ Asking(r) => NextPage(r) <= TotalPages(n)
          /\ stage[r] = "items" /\ using[r] = "offset" =>
               total[r] <= n /\ NextPage(r) <= TotalPages(total[r])
          /\ stage[r] = "shown" /\ NextPage(r) # Missing => NextPage(r) <= TotalPages(n)
      BY <3>2, <3>7 DEF PagesInv, ReaderInv, n
    <3> QED
      BY <3>1, <3>3, <3>5, <3>6, <3>7, <3>8
  <2>2. CASE ~(Walking(r) /\ left'[r] = {})
    <3>1. ~Walking(r) => ~Asking(r) /\ stage[r] # "shown" /\ stage[r] # "items"
      BY DEF Walking, Asking
    <3> QED
      BY <1>1, <2>2, <3>1 DEF PagesInv, CommitSame, CommitIsAsBefore
  <2> QED
    BY <2>1, <2>2
<1>3. Listed(r) \in SUBSET Ids /\ Listed(r)' \in SUBSET Ids
  BY DEF Listed
<1>4. Listed(r) \subseteq Listed(r)'
  BY <1>1, <1>2, CommitAndList
<1> QED
  BY <1>3, <1>4, IdsAreFinite, IdsAreNumbers, FS_Subset

\* A row stays on a page before the next one while none comes before it.
LEMMA CommitKeepsOnce ==
    ASSUME NEW r \in Readers, NEW w \in Writers, NEW new, ListTyped, ReaderInv(r),
           CommitRows(w, new), UNCHANGED <<config, reading>>
    PROVE  OnceInv(r)'
<1>1. /\ CommitSame(r) /\ CommitIsAsBefore(r)
      /\ steady'[r] \subseteq steady[r] /\ left[r] \subseteq left'[r] /\ came[r] \subseteq came'[r]
      /\ Arrivals(r, new) \subseteq came'[r]
  BY CommitIs
<1>2. SUFFICES ASSUME Started(r), SameList(r), modes[r] \subseteq {"offset"}, left'[r] = {},
                      Ordering(query[r]) \in {"id", "-id"}, NEW i \in steady'[r],
                      \A j \in came'[r] : ~Before(Ordering(query[r]), j, i)'
               PROVE  /\ Times(r, i) <= 1
                      /\ Times(r, i) = 1 /\ ~Over(r) =>
                           Cardinality(Preceding(r, i))' < Offset(NextPage(r))
  <2>1. Offset(NextPage(r))' = Offset(NextPage(r)')
    BY DEF Offset
  <2> QED
    BY <1>1, <1>2, <2>1 DEF OnceInv, CommitSame, CommitIsAsBefore
<1>3. \A j \in came'[r] : ~Before(Ordering(query[r]), j, i)
  <2>1. \A j : Before(Ordering(query[r]), j, i)' <=> Before(Ordering(query[r]), j, i)
    BY <1>1, <1>2 DEF Before, CommitIsAsBefore
  <2> QED
    BY <1>2, <2>1
<1>4. /\ Times(r, i) <= 1
      /\ Times(r, i) = 1 /\ ~Over(r) => Cardinality(Preceding(r, i)) < Offset(NextPage(r))
  <2>1. left[r] = {} /\ i \in steady[r] /\ \A j \in came[r] : ~Before(Ordering(query[r]), j, i)
    BY <1>1, <1>2, <1>3
  <2> QED
    BY <1>2, <2>1 DEF OnceInv, ReaderInv
<1>5. SUFFICES ASSUME Times(r, i) = 1, ~Over(r)
               PROVE  Cardinality(Preceding(r, i))' < Offset(NextPage(r))
  BY <1>4
<1>6. Walking(r)
  BY <1>2, <1>5 DEF Walking, Started, Asking, Over, BeginInv, ReaderInv
<1>7. /\ Cardinality(Preceding(r, i)) \in Nat /\ Cardinality(Preceding(r, i))' \in Nat
      /\ Cardinality(Preceding(r, i))' <= Cardinality(Preceding(r, i))
  BY <1>1, <1>2, <1>3, <1>6, CommitAndOrder
<1>8. Offset(NextPage(r)) \in Nat
  <2>1. NextPage(r) \in Nat \ {0}
    BY <1>2, <1>5 DEF CursorInv, ReaderInv
  <2> QED
    BY <2>1, Offsets
<1> DEFINE a == Cardinality(Preceding(r, i))
           b == Cardinality(Preceding(r, i))'
<1>9. a < Offset(NextPage(r)) /\ a \in Nat /\ b \in Nat /\ b <= a
  BY <1>4, <1>5, <1>7
<1> HIDE DEF a, b
<1>10. b < Offset(NextPage(r))
  BY <1>8, <1>9
<1> QED
  BY <1>10 DEF b

\* A commit keeps what the invariant says of every reader.
LEMMA CommitKeeps ==
    ASSUME NEW r \in Readers, NEW w \in Writers, NEW new, ListTyped, ReaderInv(r),
           CommitRows(w, new), UNCHANGED <<config, reading>>
    PROVE  ReaderInv(r)'
<1>1. /\ CommitSame(r) /\ CommitIsAsBefore(r)
      /\ steady'[r] \subseteq steady[r]
      /\ came'[r] = came[r] \cup Arrivals(r, new) /\ left'[r] = left[r] \cup Departures(r, new)
      /\ late'[r] = late[r] \cup IF stage[r] = "items" THEN Arrivals(r, new) ELSE {}
  BY CommitIs
<1>2. BeginInv(r)'
  <2>1. stage[r] = "idle" => came'[r] = came[r] /\ late'[r] = late[r] /\ left'[r] = left[r]
    BY <1>1 DEF Arrivals, Departures, Walking
  <2> QED
    BY <1>1, <2>1 DEF BeginInv, ReaderInv, CommitSame, CommitIsAsBefore
<1>3. QueryInv(r)'
  BY <1>1 DEF QueryInv, ReaderInv, CommitSame, CommitIsAsBefore
<1>4. SteadyInv(r)'
  <2>1. SUFFICES ASSUME Walking(r), SameList(r), NEW i \in steady'[r]
                 PROVE  Matches(query'[r], rows'[i])
    BY <1>1 DEF SteadyInv, CommitIsAsBefore
  <2>2. i \in Ids /\ Matches(query[r], rows[i])
    BY <1>1, <2>1 DEF SteadyInv, ReaderInv, ListTyped
  <2> QED
    BY <2>1, <2>2, CommitAndList
<1>5. CursorInv(r)'
  BY <1>1 DEF CursorInv, ReaderInv, CommitSame, CommitIsAsBefore
<1>6. ByCursorInv(r)'
  BY <1>1 DEF ByCursorInv, ReaderInv, CommitSame, CommitIsAsBefore
<1>7. AheadInv(r)' /\ PagesInv(r)' /\ OnceInv(r)'
  BY CommitKeepsAhead, CommitKeepsPages, CommitKeepsOnce
<1>8. GapInv(r)'
  <2>1. SUFFICES ASSUME stage[r] = "shown", Len(pages[r]) = 1, modes[r] = {"cursor"},
                        PagesBack(query[r], "cursor"), Ordering(query[r]) = "",
                        came'[r] \cup left'[r] = {}
                 PROVE  LeavesOutTheNearest({pages[r][1][n] : n \in DOMAIN pages[r][1]},
                                            Selected(query[r], "cursor")')
    <3>1. PagesBack(query[r], "cursor")' <=> PagesBack(query[r], "cursor")
      BY <1>1 DEF PagesBack, CommitSame
    <3> QED
      BY <1>1, <2>1, <3>1 DEF GapInv, LeavesOutTheNearest, CommitSame, CommitIsAsBefore
  <2>2. came[r] \cup left[r] = {} /\ Arrivals(r, new) = {} /\ Departures(r, new) = {}
    BY <1>1, <2>1
  <2>3. Walking(r)
    BY <2>1 DEF Walking
  <2>4. \A i \in Ids : Matches(query'[r], rows'[i]) <=> Matches(query[r], rows[i])
    BY <2>2, <2>3, CommitAndList
  <2>5. Selected(query[r], "cursor")' = Selected(query[r], "cursor")
    BY <1>1, <2>4 DEF Selected, CommitSame
  <2> QED
    BY <2>1, <2>2, <2>5 DEF GapInv, ReaderInv
<1> QED
  BY <1>2, <1>3, <1>4, <1>5, <1>6, <1>7, <1>8 DEF ReaderInv

-----------------------------------------------------------------------------
(* The types.                                                                 *)

\* An empty query, offer and job.
LEMMA NothingTyped ==
    /\ NoQuery \in ListQuery /\ Nothing \in OfferType /\ NoJob \in JobType
    /\ DOMAIN NoJob.read = {}
<1>1. <<>> \in [{} -> Groups \cup {Junk}] /\ <<>> \in [{} -> Nat] /\ DOMAIN <<>> = {}
  OBVIOUS
<1>2. <<>> \in UNION {[L -> Groups \cup {Junk}] : L \in SUBSET Lookups}
  BY <1>1
<1>3. <<>> \in UNION {[D -> Nat] : D \in SUBSET Ids}
  BY <1>1
<1>4. NoQuery \in ListQuery
  <2> DEFINE F == UNION {[L -> Groups \cup {Junk}] : L \in SUBSET Lookups}
  <2>1. <<>> \in F
    BY <1>2
  <2>2. ListQuery = [ordering : {"", "unknown"} \cup Columns, filter : F,
                     q : Groups \cup {Missing}, page : Nat \ {0}, after : Ids \cup {Missing},
                     before : Ids \cup {Missing}]
    BY DEF ListQuery
  <2> DEFINE e == <<>>
  <2>3. NoQuery = [ordering |-> "", filter |-> e, q |-> Missing, page |-> 1,
                   after |-> Missing, before |-> Missing]
    BY DEF NoQuery
  <2>4. e \in F
    BY <2>1
  <2> HIDE DEF F, e
  <2>5. 1 \in Nat \ {0} /\ "" \in {"", "unknown"} \cup Columns
    OBVIOUS
  <2> QED
    BY <2>2, <2>3, <2>4, <2>5
<1>5. Nothing \in OfferType
  BY DEF Nothing, OfferType
<1>6. NoJob \in JobType
  BY <1>3 DEF NoJob, JobType
<1> QED
  BY <1>1, <1>4, <1>5, <1>6 DEF NoJob

\* The types after a first request.
LEMMA AskTyped ==
    ASSUME NEW r \in Readers, ListTyped, Ask(r)
    PROVE  ListTyped'
<1>1. PICK c \in {"browser", "api"}, p \in Queries :
          /\ client' = [client EXCEPT ![r] = c]
          /\ query' = [query EXCEPT ![r] = p]
          /\ asked' = [asked EXCEPT ![r] = p]
          /\ steady' = [steady EXCEPT ![r] = {i \in Ids : Matches(p, rows[i])}]
  BY DEF Ask
<1>2. p \in ListQuery
  BY ChangelistAssumption DEF ChangelistAssumption
<1>3. query' \in [Readers -> ListQuery] /\ asked' \in [Readers -> ListQuery]
      /\ client' \in [Readers -> {"none", "browser", "api", "export"}]
      /\ steady' \in [Readers -> SUBSET Ids]
  BY <1>1, <1>2 DEF ListTyped, ListTypeOK
<1>4. stage' \in [Readers -> {"idle", "decide", "count", "items", "shown", "done",
                              "exported", "failed"}]
  BY DEF Ask, ListTyped, ListTypeOK
<1> QED
  BY <1>3, <1>4 DEF Ask, ListTyped, ListTypeOK, table, config

\* The types after a choice, a count, an end and an export.
LEMMA SmallStepsTyped ==
    ASSUME NEW r \in Readers, ListTyped, Decide(r) \/ Count(r) \/ Finish(r) \/ Export(r)
    PROVE  ListTyped'
<1>1. CASE Decide(r)
  <2>1. using' \in [Readers -> Strategies]
    BY <1>1 DEF Decide, Strategies, ListTyped, ListTypeOK
  <2>2. stage' \in [Readers -> {"idle", "decide", "count", "items", "shown", "done",
                                "exported", "failed"}]
    BY <1>1 DEF Decide, ListTyped, ListTypeOK
  <2> QED
    BY <1>1, <2>1, <2>2 DEF Decide, ListTyped, ListTypeOK, table, config, history
<1>2. CASE Count(r)
  <2>1. Selected(query[r], using[r]) \in SUBSET Ids
    BY DEF Selected
  <2>2. Cardinality(Selected(query[r], using[r])) \in 0 .. MaxId
    BY <2>1, IdsAreFinite
  <2>3. total' \in [Readers -> 0 .. MaxId]
    BY <1>2, <2>2 DEF Count, ListTyped, ListTypeOK
  <2>4. stage' \in [Readers -> {"idle", "decide", "count", "items", "shown", "done",
                                "exported", "failed"}]
    BY <1>2 DEF Count, ListTyped, ListTypeOK
  <2> QED
    BY <1>2, <2>3, <2>4 DEF Count, ListTyped, ListTypeOK, table, config, history
<1>3. CASE Finish(r)
  <2>1. stage' \in [Readers -> {"idle", "decide", "count", "items", "shown", "done",
                                "exported", "failed"}]
    BY <1>3 DEF Finish, ListTyped, ListTypeOK
  <2> QED
    BY <1>3, <2>1 DEF Finish, ListTyped, ListTypeOK, table, config, history
<1>4. CASE Export(r)
  <2>1. Cardinality({i \in Ids : rows[i] # Missing}) \in 0 .. MaxId
    BY IdsAreFinite
  <2>2. total' \in [Readers -> 0 .. MaxId]
    BY <1>4, <2>1 DEF Export, ListTyped, ListTypeOK
  <2>3. stage' \in [Readers -> {"idle", "decide", "count", "items", "shown", "done",
                                "exported", "failed"}]
        /\ client' \in [Readers -> {"none", "browser", "api", "export"}]
    BY <1>4 DEF Export, ListTyped, ListTypeOK
  <2> QED
    BY <1>4, <2>2, <2>3 DEF Export, ListTyped, ListTypeOK, table, config, history
<1> QED
  BY <1>1, <1>2, <1>3, <1>4

\* The types after a link: the request it makes is a query.
LEMMA FollowTyped ==
    ASSUME NEW r \in Readers, ListTyped, Follow(r)
    PROVE  ListTyped'
<1>1. query[r] \in ListQuery /\ next[r] \in OfferType /\ next[r] # Nothing
  BY DEF Follow, ListTyped, ListTypeOK
<1> DEFINE p == IF client[r] = "api" THEN [query[r] EXCEPT !.before = Missing] ELSE NoQuery
<1>2. p \in ListQuery
  <2>1. CASE client[r] = "api"
    BY <1>1, <2>1 DEF ListQuery
  <2>2. CASE client[r] # "api"
    BY <2>2, NothingTyped
  <2> QED
    BY <2>1, <2>2
<1>3. Link(r) = IF next[r].after # Missing THEN [p EXCEPT !.after = next[r].after, !.page = 1]
                ELSE [p EXCEPT !.page = next[r].page, !.after = Missing]
  BY DEF Link
<1> HIDE DEF p
<1>4. CASE next[r].after # Missing
  <2>1. next[r].after \in Ids
    BY <1>1, <1>4 DEF OfferType
  <2>2. [p EXCEPT !.after = next[r].after, !.page = 1] \in ListQuery
    <3> DEFINE F == UNION {[L -> Groups \cup {Junk}] : L \in SUBSET Lookups}
               a == next[r].after
    <3>1. ListQuery = [ordering : {"", "unknown"} \cup Columns, filter : F,
                       q : Groups \cup {Missing}, page : Nat \ {0}, after : Ids \cup {Missing},
                       before : Ids \cup {Missing}]
      BY DEF ListQuery
    <3>2. a \in Ids
      BY <2>1
    <3> HIDE DEF F, a
    <3>3. [p EXCEPT !.after = a] \in ListQuery
      BY <1>2, <3>1, <3>2
    <3> DEFINE q == [p EXCEPT !.after = a]
    <3>4. [p EXCEPT !.after = a, !.page = 1] = [q EXCEPT !.page = 1]
      OBVIOUS
    <3>5. q \in ListQuery /\ 1 \in Nat \ {0}
      BY <3>3
    <3> HIDE DEF q
    <3>6. [q EXCEPT !.page = 1] \in ListQuery
      BY <3>1, <3>5
    <3> QED
      BY <3>4, <3>6 DEF a
  <2>2a. Link(r) \in ListQuery
    BY <1>3, <1>4, <2>2
  <2> QED
    BY <2>2a DEF Follow, ListTyped, ListTypeOK, table, config, history
<1>5. CASE next[r].after = Missing
  <2>1. next[r].page \in Nat \ {0}
    BY <1>1, <1>5 DEF OfferType, Nothing
  <2>2. Link(r) \in ListQuery
    BY <1>2, <1>3, <1>5, <2>1 DEF ListQuery
  <2> QED
    BY <2>2 DEF Follow, ListTyped, ListTypeOK, table, config, history
<1> QED
  BY <1>4, <1>5

\* A page of a list in some order, from one row on.
LEMMA SliceShowsOnce ==
    ASSUME NEW s \in Seq(Ids), OnceEach(s), NEW from \in Nat
    PROVE  /\ Slice(s, from, PerPage) \in Seq(Ids)
           /\ Len(Slice(s, from, PerPage)) <= PerPage /\ IsInjective(Slice(s, from, PerPage))
<1> DEFINE t == Slice(s, from, PerPage)
<1>1. /\ t \in Seq(Ids) /\ Len(t) <= PerPage
      /\ \A k \in 1 .. Len(t) : from + k \in 1 .. Len(s) /\ t[k] = s[from + k]
  BY SliceIs, IdsAreNumbers
<1> HIDE DEF t
<1>2. ASSUME NEW j \in 1 .. Len(t), NEW k \in 1 .. Len(t), t[j] = t[k]
      PROVE  j = k
  <2>1. from + j = from + k
    BY <1>1, <1>2 DEF OnceEach
  <2> QED
    BY <2>1
<1>3. DOMAIN t = 1 .. Len(t)
  BY <1>1
<1>4. IsInjective(t)
  BY <1>2, <1>3 DEF IsInjective
<1> QED
  BY <1>1, <1>4 DEF t

\* The rows that are fetched for a page by cursor, each once.
LEMMA FetchedOnce ==
    ASSUME NEW s \in Seq(Ids), OnceEach(s), NEW p, NEW mode
    PROVE  Fetched(s, p, mode) \in Seq(Ids) /\ OnceEach(Fetched(s, p, mode))
<1> DEFINE t == Slice(s, 0, PerPage + 1)
<1>1. /\ t \in Seq(Ids) /\ \A k \in 1 .. Len(t) : k \in 1 .. Len(s) /\ t[k] = s[k]
  BY ShownIs
<1> HIDE DEF t
<1>2. OnceEach(t)
  BY <1>1 DEF OnceEach
<1>3. Reverse(t) \in Seq(Ids) /\ Len(Reverse(t)) = Len(t) /\ Len(t) \in Nat
      /\ \A k \in 1 .. Len(t) : Reverse(t)[k] = t[Len(t) - k + 1]
  BY <1>1, ReverseIs
<1>4. ASSUME NEW j \in 1 .. Len(t), NEW k \in 1 .. Len(t), Reverse(t)[j] = Reverse(t)[k]
      PROVE  j = k
  <2>1. Len(t) - j + 1 \in 1 .. Len(t) /\ Len(t) - k + 1 \in 1 .. Len(t)
    BY <1>3
  <2>2. t[Len(t) - j + 1] = t[Len(t) - k + 1]
    BY <1>3, <1>4
  <2>3. Len(t) - j + 1 = Len(t) - k + 1
    BY <1>2, <2>1, <2>2 DEF OnceEach
  <2> QED
    BY <1>3, <2>3
<1>5. OnceEach(Reverse(t))
  BY <1>3, <1>4 DEF OnceEach
<1>6. Fetched(s, p, mode) = IF PagesBack(p, mode) THEN Reverse(t) ELSE t
  BY DEF Fetched, t
<1> QED
  BY <1>1, <1>2, <1>3, <1>5, <1>6

\* The types after a page: no row is on it twice, nor are too many.
LEMMA ItemsTyped ==
    ASSUME NEW r \in Readers, ListTyped, ReaderInv(r), Items(r)
    PROVE  ListTyped'
<1>1. PICK s \in Sorted(Selected(query[r], using[r]), CursorOrder(query[r], using[r])) :
        LET fetched == Fetched(s, query[r], using[r])
            page == IF using[r] = "cursor" THEN Shown(fetched)
                    ELSE Slice(s, Offset(Clamped(query[r].page, total[r])), PerPage)
        IN  /\ pages' = [pages EXCEPT ![r] = Append(@, page)]
            /\ next' = [next EXCEPT ![r] = Offers(r, fetched)]
  BY DEF Items
<1> DEFINE fetched == Fetched(s, query[r], using[r])
           pg == Clamped(query[r].page, total[r])
           page == IF using[r] = "cursor" THEN Shown(fetched) ELSE Slice(s, Offset(pg), PerPage)
<1>2. /\ pages' = [pages EXCEPT ![r] = Append(pages[r], page)]
      /\ next' = [next EXCEPT ![r] = Offers(r, fetched)]
  BY <1>1
<1>3. s \in Seq(Ids) /\ OnceEach(s)
  <2>1. Selected(query[r], using[r]) \in SUBSET Ids
    BY DEF Selected
  <2> QED
    BY <2>1, InSomeOrder DEF Sorted, OnceEach
<1>4. fetched \in Seq(Ids) /\ OnceEach(fetched)
  BY <1>3, FetchedOnce
<1>5. query[r] \in ListQuery /\ total[r] \in Nat /\ using[r] \in {"offset", "cursor"}
  BY ItemsSameIs
<1>6. pg \in Nat \ {0} /\ Offset(pg) \in Nat /\ pg + 1 \in Nat \ {0}
  <2>1. query[r].page \in Nat \ {0}
    BY <1>5 DEF ListQuery
  <2>2. pg \in Nat \ {0}
    BY <1>5, <2>1, ClampedIs
  <2> HIDE DEF pg
  <2> QED
    BY <2>2, Offsets
<1>7. /\ HasNext(fetched) <=> Len(fetched) > PerPage
      /\ NextCursor(fetched) = Shown(fetched)[Len(Shown(fetched))]
      /\ Shown(fetched) = Slice(fetched, 0, PerPage)
  BY DEF HasNext, NextCursor, Shown
<1> HIDE DEF fetched, pg
<1>8. page \in Seq(Ids) /\ Len(page) <= PerPage /\ IsInjective(page)
  <2>1. CASE using[r] = "cursor"
    BY <1>4, <1>7, <2>1, SliceShowsOnce
  <2>2. CASE using[r] # "cursor"
    BY <1>3, <1>6, <2>2, SliceShowsOnce
  <2> QED
    BY <2>1, <2>2
<1>9. HasNext(fetched) => NextCursor(fetched) \in Ids
  <2>1. /\ Shown(fetched) \in Seq(Ids)
        /\ Len(Shown(fetched)) = IF Len(fetched) > PerPage THEN PerPage ELSE Len(fetched)
    BY <1>4, ShownIs
  <2>2. HasNext(fetched) => Len(Shown(fetched)) \in 1 .. Len(Shown(fetched))
    BY <1>7, <2>1, IdsAreNumbers
  <2> HIDE DEF fetched
  <2> QED
    BY <1>7, <2>1, <2>2
<1>10. Offers(r, fetched) \in OfferType
  <2>1. \A x \in Ids \cup {Missing} : [Nothing EXCEPT !.after = x] \in OfferType
    BY NothingTyped DEF OfferType
  <2>2. \A x \in (Nat \ {0}) \cup {Missing} : [Nothing EXCEPT !.page = x] \in OfferType
    BY NothingTyped DEF OfferType
  <2>3. CASE using[r] = "cursor"
    <3>1. Offers(r, fetched) =
            [Nothing EXCEPT !.after = IF HasNext(fetched) THEN NextCursor(fetched) ELSE Missing]
      BY <2>3 DEF Offers
    <3> QED
      BY <1>9, <2>1, <3>1
  <2>4. CASE using[r] # "cursor"
    <3>1. Offers(r, fetched) =
            [Nothing EXCEPT !.page = IF pg < TotalPages(total[r]) THEN pg + 1 ELSE Missing]
      BY <2>4 DEF Offers, pg
    <3> QED
      BY <1>6, <2>2, <3>1
  <2> QED
    BY <2>3, <2>4
<1> HIDE DEF page
<1>11. next' \in [Readers -> OfferType]
  BY <1>2, <1>10 DEF ListTyped
<1>12. pages[r] \in Seq(Seq(Ids)) /\ Append(pages[r], page) \in Seq(Seq(Ids))
  BY <1>8 DEF ListTyped
<1>13. pages' \in [Readers -> Seq(Seq(Ids))]
  BY <1>2, <1>12 DEF ListTyped
<1>14. ASSUME NEW u \in Readers, NEW k \in DOMAIN pages'[u]
       PROVE  Len(pages'[u][k]) <= PerPage /\ IsInjective(pages'[u][k])
  <2>1. CASE u = r
    <3>1. pages'[r] = Append(pages[r], page)
      BY <1>2 DEF ListTyped
    <3>2. \A n \in DOMAIN pages[r] : Len(pages[r][n]) <= PerPage /\ IsInjective(pages[r][n])
      BY DEF ListTyped, ListTypeOK
    <3>3. k \in 1 .. Len(pages[r]) + 1 /\ DOMAIN pages[r] = 1 .. Len(pages[r])
      BY <1>12, <1>14, <2>1, <3>1
    <3>4. pages'[u][k] = IF k = Len(pages[r]) + 1 THEN page ELSE pages[r][k]
      BY <1>12, <2>1, <3>1, <3>3
    <3>5. k = Len(pages[r]) + 1 \/ k \in DOMAIN pages[r]
      BY <1>12, <3>3
    <3> QED
      BY <1>8, <3>2, <3>4, <3>5
  <2>2. CASE u # r
    <3>1. pages'[u] = pages[u]
      BY <1>2, <2>2 DEF ListTyped
    <3> QED
      BY <1>14, <3>1 DEF ListTyped, ListTypeOK
  <2> QED
    BY <2>1, <2>2
<1>15. modes' \in [Readers -> SUBSET {"offset", "cursor"}]
  BY <1>5 DEF Items, ListTyped
<1>16. stage' \in [Readers -> {"idle", "decide", "count", "items", "shown", "done",
                               "exported", "failed"}]
  BY DEF Items, ListTyped, ListTypeOK
<1> QED
  BY <1>11, <1>13, <1>14, <1>15, <1>16 DEF Items, ListTyped, ListTypeOK, table, config

-----------------------------------------------------------------------------
(* The sorts.                                                                 *)

\* The largest of some positions is one of them.
LEMMA MaxIs ==
    ASSUME NEW n \in Nat, NEW K \in SUBSET (1 .. n), K # {}
    PROVE  Max(K) \in K /\ \A k \in K : Max(K) >= k
<1> DEFINE U == {k \in 1 .. n : \E x \in K : x >= k}
           T == U \ {1}
           f == [k \in U |-> k + 1]
<1>1. \E x \in K : \A y \in K : x >= y
  <2>1. SUFFICES ASSUME \A x \in K : \E y \in K : ~(x >= y)
                 PROVE  FALSE
    OBVIOUS
  <2>2. ASSUME NEW k \in U
        PROVE  k + 1 \in T
    <3>1. PICK x \in K : x >= k
      OBVIOUS
    <3>2. PICK y \in K : ~(x >= y)
      BY <2>1
    <3>3. x \in 1 .. n /\ y \in 1 .. n /\ k \in 1 .. n
      OBVIOUS
    <3>4. y >= k + 1 /\ k + 1 \in 1 .. n /\ k + 1 # 1
      BY <3>1, <3>2, <3>3
    <3> QED
      BY <3>4
  <2>3. f \in Injection(U, T)
    <3>1. f \in [U -> T]
      BY <2>2
    <3>2. \A j, k \in U : f[j] = f[k] => j = k
      OBVIOUS
    <3> QED
      BY <3>1, <3>2 DEF Injection, IsInjective
  <2>4. 1 \in U
    <3>1. PICK x \in K : TRUE
      OBVIOUS
    <3>2. x \in 1 .. n
      OBVIOUS
    <3>3. 1 \in 1 .. n /\ x >= 1
      BY <3>2
    <3> QED
      BY <3>1, <3>3
  <2>5. IsFiniteSet(1 .. n) /\ U \subseteq 1 .. n
    BY FS_Interval
  <2> HIDE DEF U, f
  <2>6. IsFiniteSet(U) /\ Cardinality(U) \in Nat
    BY <2>5, FS_Subset, FS_CardinalityType
  <2>7. IsFiniteSet(T) /\ Cardinality(T) = Cardinality(U) - 1
    BY <2>4, <2>6, FS_RemoveElement
  <2> HIDE DEF T
  <2>8. Cardinality(U) <= Cardinality(T)
    BY <2>3, <2>6, <2>7, FS_Injection
  <2> QED
    BY <2>6, <2>7, <2>8
<1> QED
  BY <1>1 DEF Max

\* The position of an item is that of its last occurrence.
LEMMA PositionIs ==
    ASSUME NEW w \in Writers, ListTyped, NEW k \in 1 .. Len(job[w].list)
    PROVE  /\ Position(w, job[w].list[k]) \in Nat
           /\ (\A n \in 1 .. Len(job[w].list) : n > k => job[w].list[n] # job[w].list[k]) =>
                Position(w, job[w].list[k]) = k - 1
<1>1. job[w].list \in Seq(Ids)
  BY DEF ListTyped, JobType
<1> DEFINE n == Len(job[w].list)
           K == {m \in 1 .. n : job[w].list[m] = job[w].list[k]}
<1>2. n \in Nat /\ DOMAIN job[w].list = 1 .. n
  BY <1>1
<1>3. Position(w, job[w].list[k]) = Max(K) - 1
  BY <1>2 DEF Position
<1>4. k \in K /\ K \in SUBSET (1 .. n)
  OBVIOUS
<1>5. \A m \in K : job[w].list[m] = job[w].list[k]
  OBVIOUS
<1> HIDE DEF n, K
<1>6. Max(K) \in K /\ \A m \in K : Max(K) >= m
  BY <1>2, <1>4, MaxIs
<1>7. Max(K) \in 1 .. n /\ Max(K) >= k /\ k \in Nat
  <2>1. Max(K) >= k
    BY <1>4, <1>6
  <2>2. Max(K) \in 1 .. n /\ k \in 1 .. n
    BY <1>4, <1>6
  <2> QED
    BY <2>1, <2>2
<1>8. ASSUME \A m \in 1 .. n : m > k => job[w].list[m] # job[w].list[k]
      PROVE  Max(K) = k
  BY <1>5, <1>6, <1>7, <1>8
<1> QED
  BY <1>2, <1>3, <1>7, <1>8 DEF n

\* A read of a job and a job that is over.
LEMMA JobsAre ==
    ASSUME NEW w \in Writers, ListTyped
    PROVE  /\ job[w] \in JobType /\ DOMAIN job[w].read \in SUBSET Ids
           /\ \A i \in DOMAIN job[w].read : job[w].read[i] \in Nat
           /\ \A d \in {"done", "failed"} :
                [job EXCEPT ![w].does = d] \in [Writers -> JobType]
<1>1. job[w] \in JobType
  BY DEF ListTyped
<1>2. job[w].read \in UNION {[D -> Nat] : D \in SUBSET Ids}
  BY <1>1 DEF JobType
<1>3. DOMAIN job[w].read \in SUBSET Ids /\ \A i \in DOMAIN job[w].read : job[w].read[i] \in Nat
  BY <1>2
<1>4. ASSUME NEW d \in {"done", "failed"}
      PROVE  [job EXCEPT ![w].does = d] \in [Writers -> JobType]
  <2>1. [job[w] EXCEPT !.does = d] \in JobType
    BY <1>1 DEF JobType
  <2>2. [job EXCEPT ![w].does = d] = [job EXCEPT ![w] = [job[w] EXCEPT !.does = d]]
    BY DEF ListTyped
  <2> DEFINE q == [job[w] EXCEPT !.does = d]
  <2> HIDE DEF q
  <2>3. [job EXCEPT ![w] = q] \in [Writers -> JobType]
    BY <2>1 DEF ListTyped, q
  <2> QED
    BY <2>2, <2>3 DEF q
<1> QED
  BY <1>1, <1>3, <1>4

\* The rows a step of a writer commits are rows, and their places are numbers.
LEMMA CommitTyped ==
    ASSUME NEW w \in Writers, NEW new \in [Ids -> Row \cup {Missing}], ListTyped,
           CommitRows(w, new), Done(w), UNCHANGED <<config, reading>>, nextId' \in 1 .. MaxId + 1
    PROVE  ListTyped'
<1>1. job' \in [Writers -> JobType]
  BY JobsAre DEF Done
<1>2. \A v \in Writers : \A i \in DOMAIN job'[v].read : job'[v].read[i] \in Nat
  <2>1. ASSUME NEW v \in Writers, NEW i \in DOMAIN job'[v].read
        PROVE  job'[v].read[i] \in Nat
    <3>1. job'[v].read \in UNION {[D -> Nat] : D \in SUBSET Ids}
      BY <1>1 DEF JobType
    <3> QED
      BY <2>1, <3>1
  <2> QED
    BY <2>1
<1>3. \A r \in Readers : Arrivals(r, new) \in SUBSET Ids /\ Departures(r, new) \in SUBSET Ids
  BY DEF Arrivals, Departures
<1>4. /\ steady' \in [Readers -> SUBSET Ids] /\ came' \in [Readers -> SUBSET Ids]
      /\ late' \in [Readers -> SUBSET Ids] /\ left' \in [Readers -> SUBSET Ids]
  BY <1>3 DEF CommitRows, ListTyped
<1>5. \A v \in Writers : DOMAIN job[v].read \in SUBSET Ids
  BY JobsAre
<1>6. stale' \in [Writers -> SUBSET Ids]
  BY <1>5 DEF CommitRows, ListTyped
<1> QED
  BY <1>1, <1>2, <1>4, <1>6 DEF CommitRows, ListTyped, ListTypeOK, config, reading

\* A commit makes stale what it changes under another sort.
LEMMA CommitKeepsJobs ==
    ASSUME NEW w \in Writers, NEW new, ListTyped, \A v \in Writers : JobInv(v),
           CommitRows(w, new), Done(w)
    PROVE  \A v \in Writers : JobInv(v)'
<1> SUFFICES ASSUME NEW v \in Writers
             PROVE  JobInv(v)'
  OBVIOUS
<1>1. JobInv(v) /\ rows' = new
  BY DEF CommitRows
<1>2. CASE v = w
  <2>1. job'[w].does = "done" /\ job'[w].read = job[w].read /\ job'[w].list = job[w].list
    BY JobsAre DEF Done, ListTyped, JobType
  <2> QED
    BY <1>1, <1>2, <2>1 DEF JobInv
<1>3. CASE v # w
  <2>1. job'[v] = job[v]
    BY <1>3 DEF Done, ListTyped
  <2>2. stale'[v] = stale[v] \cup {i \in DOMAIN job[v].read : rows[i] # new[i]}
    BY <1>3 DEF CommitRows
  <2>3. ASSUME NEW i \in DOMAIN job[v].read \ stale'[v]
        PROVE  i \in DOMAIN job[v].read \ stale[v] /\ rows'[i] = rows[i]
    BY <1>1, <2>2
  <2> QED
    BY <1>1, <2>1, <2>3 DEF JobInv
<1> QED
  BY <1>2, <1>3

\* Every step of a writer commits rows or does nothing to them.
LEMMA WriterCommits ==
    ASSUME NEW w \in Writers, ListTyped, JobInv(w),
           CreateRow(w) \/ DeleteRow(w) \/ EditRow(w) \/ SortFlush(w)
    PROVE  /\ UNCHANGED <<config, reading>> /\ nextId' \in 1 .. MaxId + 1
           /\ \/ Done(w) /\ \E new \in [Ids -> Row \cup {Missing}] : CommitRows(w, new)
              \/ /\ job' = [job EXCEPT ![w].does = "failed"]
                 /\ UNCHANGED <<rows, history>>
<1>1. nextId \in 1 .. MaxId + 1 /\ MaxId \in Nat /\ rows \in [Ids -> Row \cup {Missing}]
  BY IdsAreNumbers DEF ListTyped, ListTypeOK
<1>2. CASE CreateRow(w)
  <2>1. PICK g \in Groups : CommitRows(w, [rows EXCEPT ![nextId] = [place |-> 0, group |-> g]])
    BY <1>2 DEF CreateRow
  <2>2. [place |-> 0, group |-> g] \in Row
    BY DEF Row
  <2>3. [rows EXCEPT ![nextId] = [place |-> 0, group |-> g]] \in [Ids -> Row \cup {Missing}]
    BY <1>1, <2>2
  <2>4. nextId' \in 1 .. MaxId + 1
    BY <1>1, <1>2 DEF CreateRow
  <2> QED
    BY <1>2, <2>1, <2>3, <2>4 DEF CreateRow
<1>3. CASE DeleteRow(w)
  <2>1. PICK i \in Ids : CommitRows(w, [rows EXCEPT ![i] = Missing])
    BY <1>3 DEF DeleteRow
  <2>2. [rows EXCEPT ![i] = Missing] \in [Ids -> Row \cup {Missing}]
    BY <1>1
  <2> QED
    BY <1>1, <1>3, <2>1, <2>2 DEF DeleteRow
<1>4. CASE EditRow(w)
  <2>1. PICK i \in Ids, g \in Groups :
          rows[i] # Missing /\ CommitRows(w, [rows EXCEPT ![i].group = g])
    BY <1>4 DEF EditRow
  <2>2. rows[i] \in Row
    BY <1>1, <2>1
  <2>3. [rows[i] EXCEPT !.group = g] \in Row
    BY <2>2 DEF Row
  <2>4. [rows EXCEPT ![i].group = g] = [rows EXCEPT ![i] = [rows[i] EXCEPT !.group = g]]
    BY <1>1
  <2>5. [rows EXCEPT ![i].group = g] \in [Ids -> Row \cup {Missing}]
    <3> DEFINE q == [rows[i] EXCEPT !.group = g]
    <3> HIDE DEF q
    <3>1. [rows EXCEPT ![i] = q] \in [Ids -> Row \cup {Missing}]
      BY <1>1, <2>3 DEF q
    <3> QED
      BY <2>4, <3>1 DEF q
  <2> QED
    BY <1>1, <1>4, <2>1, <2>5 DEF EditRow
<1>5. CASE SortFlush(w)
  <2> DEFINE new == [i \in Ids |-> IF i \in Moved(w)
                                   THEN [rows[i] EXCEPT !.place = Position(w, i)]
                                   ELSE rows[i]]
  <2>1. UNCHANGED <<config, reading>> /\ nextId' = nextId
    BY <1>5 DEF SortFlush
  <2>2. CASE (\A i \in Moved(w) : rows[i] # Missing) /\ CommitRows(w, new) /\ Done(w)
    <3>1. ASSUME NEW i \in Ids, i \in Moved(w)
          PROVE  [rows[i] EXCEPT !.place = Position(w, i)] \in Row
      <4>1. i \in DOMAIN job[w].read
        BY <3>1 DEF Moved
      <4>2. PICK k \in DOMAIN job[w].list : job[w].list[k] = i
        BY <4>1 DEF JobInv
      <4>3. k \in 1 .. Len(job[w].list)
        BY DEF ListTyped, JobType
      <4>4. Position(w, i) \in Nat
        BY <4>2, <4>3, PositionIs
      <4>5. rows[i] \in Row
        BY <1>1, <2>2, <3>1
      <4> QED
        BY <4>4, <4>5 DEF Row
    <3>2. new \in [Ids -> Row \cup {Missing}]
      BY <1>1, <3>1
    <3> HIDE DEF new
    <3> QED
      BY <1>1, <2>1, <2>2, <3>2
  <2>3. CASE /\ job' = [job EXCEPT ![w].does = "failed"]
             /\ UNCHANGED <<rows, history>>
    BY <1>1, <2>1, <2>3
  <2> QED
    BY <1>5, <2>2, <2>3 DEF SortFlush
<1> QED
  BY <1>2, <1>3, <1>4, <1>5

\* The steps that change a job only.
LEMMA JobSteps ==
    ASSUME NEW w \in Writers, ListTyped, \A v \in Writers : JobInv(v),
           \/ Sort(w) \/ Get(w)
           \/ /\ job' = [job EXCEPT ![w].does = "failed"]
              /\ UNCHANGED <<table, config, reading, history>>
    PROVE  ListTyped' /\ \A v \in Writers : JobInv(v)'
<1>1. UNCHANGED <<table, config, reading, history>>
  BY DEF Sort, Get
<1>2. /\ job[w] \in JobType /\ DOMAIN job[w].read \in SUBSET Ids
      /\ \A i \in DOMAIN job[w].read : job[w].read[i] \in Nat
  BY JobsAre
<1>3. SUFFICES ASSUME NEW q \in JobType, job' = [job EXCEPT ![w] = q],
                      /\ q.does = "sort" =>
                           \A i \in DOMAIN q.read \ stale[w] :
                               rows[i] # Missing /\ rows[i].place = q.read[i]
                      /\ q.does = "idle" => q.read = <<>>
                      /\ \A i \in DOMAIN q.read : \E k \in DOMAIN q.list : q.list[k] = i
               PROVE  ListTyped' /\ \A v \in Writers : JobInv(v)'
  <2>1. CASE Sort(w)
    <3>1. PICK list \in Lists : job' = [job EXCEPT ![w].does = "sort", ![w].list = list]
      BY <2>1 DEF Sort
    <3>2. list \in Seq(Ids)
      BY ChangelistAssumption DEF ChangelistAssumption
    <3> DEFINE q == [job[w] EXCEPT !.does = "sort", !.list = list]
    <3>3. q \in JobType /\ q.does = "sort" /\ q.read = job[w].read
      BY <1>2, <3>2 DEF JobType
    <3>4. job[w].read = <<>> /\ DOMAIN job[w].read = {}
      BY <2>1 DEF Sort, JobInv
    <3>5. job' = [job EXCEPT ![w] = q]
      BY <3>1 DEF ListTyped
    <3> HIDE DEF q
    <3> QED
      BY <1>3, <3>3, <3>4, <3>5
  <2>2. CASE Get(w)
    <3> DEFINE i == job[w].list[job[w].pos]
               read == IF rows[i] = Missing \/ i \in DOMAIN job[w].read THEN job[w].read
                       ELSE [j \in {i} \cup DOMAIN job[w].read |->
                                IF j = i THEN rows[i].place ELSE job[w].read[j]]
               q == [job[w] EXCEPT !.pos = job[w].pos + 1, !.read = read]
    <3>1. job' = [job EXCEPT ![w] = q]
      BY <2>2 DEF Get, ListTyped
    <3>2. /\ job[w].does = "sort" /\ job[w].pos \in DOMAIN job[w].list
          /\ job[w].pos + 1 \in Nat \ {0}
      <4>1. job[w].list \in Seq(Ids) /\ job[w].pos \in Nat \ {0}
        BY <1>2 DEF JobType
      <4>2. job[w].pos <= Len(job[w].list) /\ job[w].does = "sort"
        BY <2>2 DEF Get
      <4> QED
        BY <4>1, <4>2
    <3>3. i \in Ids
      BY <1>2, <3>2 DEF JobType
    <3>4. rows[i] # Missing => rows[i].place \in Nat
      BY <3>3 DEF ListTyped, ListTypeOK, Row
    <3>5. /\ DOMAIN read \in SUBSET Ids /\ \A j \in DOMAIN read : read[j] \in Nat
          /\ read \in UNION {[D -> Nat] : D \in SUBSET Ids}
          /\ \A j \in DOMAIN read :
               \/ j \in DOMAIN job[w].read /\ read[j] = job[w].read[j]
               \/ j = i /\ rows[i] # Missing /\ read[j] = rows[i].place
      <4>1. CASE rows[i] = Missing \/ i \in DOMAIN job[w].read
        <5>1. read = job[w].read
          BY <4>1
        <5>2. job[w].read \in UNION {[D -> Nat] : D \in SUBSET Ids}
          BY <1>2 DEF JobType
        <5> HIDE DEF read, i
        <5>3. \A j \in DOMAIN read : j \in DOMAIN job[w].read /\ read[j] = job[w].read[j]
          BY <5>1
        <5>4. DOMAIN read \in SUBSET Ids /\ \A j \in DOMAIN read : read[j] \in Nat
          BY <1>2, <5>1
        <5>5. read \in UNION {[D -> Nat] : D \in SUBSET Ids}
          BY <5>1, <5>2
        <5> QED
          BY <5>3, <5>4, <5>5
      <4>2. CASE ~(rows[i] = Missing \/ i \in DOMAIN job[w].read)
        <5> DEFINE D == {i} \cup DOMAIN job[w].read
        <5>1. read = [j \in D |-> IF j = i THEN rows[i].place ELSE job[w].read[j]]
          BY <4>2
        <5>2. D \in SUBSET Ids
          BY <1>2, <3>3
        <5>3. \A j \in D : (IF j = i THEN rows[i].place ELSE job[w].read[j]) \in Nat
          BY <1>2, <3>4, <4>2
        <5>4. \A j \in D : j = i \/ j \in DOMAIN job[w].read
          OBVIOUS
        <5> HIDE DEF D, read, i
        <5>5. read \in [D -> Nat] /\ DOMAIN read = D
          BY <5>1, <5>3
        <5> QED
          BY <4>2, <5>1, <5>2, <5>4, <5>5
      <4> QED
        BY <4>1, <4>2
    <3> HIDE DEF read
    <3>6. /\ q \in JobType /\ q.read = read /\ q.list = job[w].list /\ q.does = "sort"
      <4> HIDE DEF i
      <4> QED
        BY <1>2, <3>2, <3>5 DEF JobType
    <3>7. JobInv(w)
      OBVIOUS
    <3>8. \A j \in DOMAIN read \ stale[w] : rows[j] # Missing /\ rows[j].place = read[j]
      BY <3>2, <3>5, <3>7 DEF JobInv
    <3>9. \A j \in DOMAIN read : \E k \in DOMAIN job[w].list : job[w].list[k] = j
      BY <3>2, <3>5, <3>7 DEF JobInv
    <3> HIDE DEF q, i
    <3>10. /\ \A j \in DOMAIN q.read \ stale[w] : rows[j] # Missing /\ rows[j].place = q.read[j]
           /\ \A j \in DOMAIN q.read : \E k \in DOMAIN q.list : q.list[k] = j
           /\ q \in JobType /\ q.does # "idle"
      BY <3>6, <3>8, <3>9
    <3> QED
      BY <1>3, <3>1, <3>10
  <2>3. CASE job' = [job EXCEPT ![w].does = "failed"]
    <3> DEFINE q == [job[w] EXCEPT !.does = "failed"]
    <3>1. job' = [job EXCEPT ![w] = q]
      BY <2>3 DEF ListTyped
    <3>2. q \in JobType /\ q.does = "failed" /\ q.read = job[w].read /\ q.list = job[w].list
      BY <1>2 DEF JobType
    <3>3. \A i \in DOMAIN job[w].read : \E k \in DOMAIN job[w].list : job[w].list[k] = i
      BY DEF JobInv
    <3> HIDE DEF q
    <3> QED
      BY <1>3, <3>1, <3>2, <3>3
  <2> QED
    BY <2>1, <2>2, <2>3
<1>4. job' \in [Writers -> JobType]
  BY <1>3 DEF ListTyped
<1>5. \A v \in Writers : \A i \in DOMAIN job'[v].read : job'[v].read[i] \in Nat
  <2>1. ASSUME NEW v \in Writers, NEW i \in DOMAIN job'[v].read
        PROVE  job'[v].read[i] \in Nat
    <3>1. job'[v].read \in UNION {[D -> Nat] : D \in SUBSET Ids}
      BY <1>4 DEF JobType
    <3> QED
      BY <2>1, <3>1
  <2> QED
    BY <2>1
<1>6. ListTyped'
  BY <1>1, <1>4, <1>5 DEF ListTyped, ListTypeOK, table, config, reading, history
<1>7. ASSUME NEW v \in Writers
      PROVE  JobInv(v)'
  <2>1. rows' = rows /\ stale' = stale /\ JobInv(v)
    BY <1>1 DEF table, history
  <2>2. CASE v = w
    <3>1. job'[w] = q
      BY <1>3 DEF ListTyped
    <3> QED
      BY <1>3, <2>1, <2>2, <3>1 DEF JobInv
  <2>3. CASE v # w
    <3>1. job'[v] = job[v]
      BY <1>3, <2>3 DEF ListTyped
    <3> QED
      BY <2>1, <3>1 DEF JobInv
  <2> QED
    BY <2>2, <2>3
<1> QED
  BY <1>6, <1>7

-----------------------------------------------------------------------------
(* The invariant.                                                             *)

\* The invariant holds at first.
LEMMA ListInvInit == ListInit => ListInv
<1> SUFFICES ASSUME ListInit
             PROVE  ListInv
  OBVIOUS
<1>1. rows \in [Ids -> Row \cup {Missing}] /\ nextId \in 1 .. MaxId + 1
  <2>1. Groups0 \in Seq(Groups) /\ Len(Groups0) <= MaxId /\ MaxId \in Nat
    BY ChangelistAssumption DEF ChangelistAssumption
  <2>2. ASSUME NEW i \in Ids, i \in DOMAIN Groups0
        PROVE  [place |-> i - 1, group |-> Groups0[i]] \in Row
    <3>1. i - 1 \in Nat
      BY DEF Ids
    <3>2. Groups0[i] \in Groups
      BY <2>1, <2>2
    <3> QED
      BY <3>1, <3>2 DEF Row
  <2>3. rows \in [Ids -> Row \cup {Missing}]
    BY <2>2 DEF ListInit
  <2>4. nextId = Len(Groups0) + 1
    BY DEF ListInit
  <2> QED
    BY <2>1, <2>3, <2>4
<1>2. \A r \in Readers : pages[r] = <<>> /\ DOMAIN pages[r] = {} /\ <<>> \in Seq(Seq(Ids))
  <2>1. <<>> \in Seq(Seq(Ids)) /\ DOMAIN <<>> = {}
    OBVIOUS
  <2>2. \A r \in Readers : pages[r] = <<>>
    BY DEF ListInit
  <2>3. \A r \in Readers : DOMAIN pages[r] = DOMAIN <<>>
    BY <2>2
  <2> QED
    BY <2>1, <2>2, <2>3
<1>3. 0 \in 0 .. MaxId
  BY IdsAreNumbers
<1>4. ListTyped
  <2>1. /\ query \in [Readers -> ListQuery] /\ asked \in [Readers -> ListQuery]
        /\ next \in [Readers -> OfferType] /\ job \in [Writers -> JobType]
        /\ \A w \in Writers : DOMAIN job[w].read = {}
    BY NothingTyped DEF ListInit
  <2>2. /\ client \in [Readers -> {"none", "browser", "api", "export"}]
        /\ stage \in [Readers -> {"idle", "decide", "count", "items", "shown", "done",
                                  "exported", "failed"}]
        /\ using \in [Readers -> Strategies] /\ total \in [Readers -> 0 .. MaxId]
        /\ pages \in [Readers -> Seq(Seq(Ids))]
        /\ strategy \in Strategies /\ ordering \in {""} \cup Columns
    BY <1>2, <1>3 DEF ListInit
  <2>3. /\ modes \in [Readers -> SUBSET {"offset", "cursor"}]
        /\ steady \in [Readers -> SUBSET Ids] /\ came \in [Readers -> SUBSET Ids]
        /\ late \in [Readers -> SUBSET Ids] /\ left \in [Readers -> SUBSET Ids]
        /\ stale \in [Writers -> SUBSET Ids]
    BY DEF ListInit
  <2> QED
    BY <1>1, <1>2, <2>1, <2>2, <2>3 DEF ListTyped, ListTypeOK
<1>5. ASSUME NEW r \in Readers
      PROVE  ReaderInv(r)
  <2>1. stage[r] = "idle" /\ using[r] = strategy
    BY DEF ListInit
  <2>2. /\ pages[r] = <<>> /\ modes[r] = {} /\ next[r] = Nothing
        /\ came[r] = {} /\ late[r] = {} /\ left[r] = {}
    BY DEF ListInit
  <2>3. ~Started(r) /\ ~Walking(r)
    BY <2>1 DEF Started, Asking, Walking
  <2>4. BeginInv(r)
    BY <2>1, <2>2, <2>3 DEF BeginInv
  <2>5. /\ QueryInv(r) /\ SteadyInv(r) /\ CursorInv(r) /\ ByCursorInv(r)
        /\ AheadInv(r) /\ PagesInv(r) /\ OnceInv(r)
    BY <2>3 DEF QueryInv, SteadyInv, CursorInv, ByCursorInv, AheadInv, PagesInv, OnceInv
  <2>6. GapInv(r)
    BY <2>1 DEF GapInv
  <2> QED
    BY <2>4, <2>5, <2>6 DEF ReaderInv
<1>6. ASSUME NEW w \in Writers
      PROVE  JobInv(w)
  <2>1. job[w] = NoJob /\ DOMAIN job[w].read = {}
    BY NothingTyped DEF ListInit
  <2> QED
    BY <2>1 DEF JobInv, NoJob
<1> QED
  BY <1>4, <1>5, <1>6 DEF ListInv

\* Every step keeps the invariant.
LEMMA ListInvNext == ListInv /\ [ListNext]_listVars => ListInv'
<1> SUFFICES ASSUME ListInv, [ListNext]_listVars
             PROVE  ListInv'
  OBVIOUS
<1>1. ListTyped /\ (\A r \in Readers : ReaderInv(r)) /\ \A w \in Writers : JobInv(w)
  BY DEF ListInv
<1>2. ASSUME NEW r \in Readers,
             Ask(r) \/ Decide(r) \/ Count(r) \/ Items(r) \/ Follow(r) \/ Finish(r) \/ Export(r)
      PROVE  ListInv'
  <2>1. ListTyped'
    BY <1>1, <1>2, AskTyped, SmallStepsTyped, FollowTyped, ItemsTyped
  <2>2. ReaderInv(r)'
    BY <1>1, <1>2, AskKeeps, DecideKeeps, CountKeeps, ItemsKeeps, FollowKeeps, FinishKeeps,
       ExportKeeps
  <2>3. \A u \in Readers : ReaderInv(u)'
    BY <1>1, <1>2, <2>2, OthersStand
  <2>4. rows' = rows /\ job' = job /\ stale' = stale
    BY <1>1, <1>2, ReadersMind
  <2>5. \A w \in Writers : JobInv(w)'
    BY <1>1, <2>4 DEF JobInv
  <2> QED
    BY <2>1, <2>3, <2>5 DEF ListInv
<1>3. ASSUME NEW w \in Writers, NEW new \in [Ids -> Row \cup {Missing}], CommitRows(w, new),
             Done(w), UNCHANGED <<config, reading>>, nextId' \in 1 .. MaxId + 1
      PROVE  ListInv'
  <2>1. ListTyped'
    BY <1>1, <1>3, CommitTyped
  <2>2. \A r \in Readers : ReaderInv(r)'
    BY <1>1, <1>3, CommitKeeps
  <2>3. \A v \in Writers : JobInv(v)'
    BY <1>1, <1>3, CommitKeepsJobs
  <2> QED
    BY <2>1, <2>2, <2>3 DEF ListInv
<1>4. ASSUME UNCHANGED <<table, config, reading, history>>
      PROVE  \A r \in Readers : ReaderInv(r)'
  <2>1. ASSUME NEW r \in Readers
        PROVE  ReaderInv(r)'
    <3>1. KeepsWalk(r) /\ stage'[r] = stage[r] /\ using'[r] = using[r]
          /\ total'[r] = total[r] /\ next'[r] = next[r]
      BY <1>4 DEF KeepsWalk, table, config, reading, history
    <3> QED
      BY <1>1, <3>1, ReaderStands
  <2> QED
    BY <2>1
<1>5. ASSUME NEW w \in Writers, Sort(w) \/ Get(w)
      PROVE  ListInv'
  <2>1. UNCHANGED <<table, config, reading, history>>
    BY <1>5 DEF Sort, Get
  <2>2. ListTyped' /\ \A v \in Writers : JobInv(v)'
    BY <1>1, <1>5, JobSteps
  <2> QED
    BY <1>4, <2>1, <2>2 DEF ListInv
<1>6. ASSUME NEW w \in Writers, CreateRow(w) \/ DeleteRow(w) \/ EditRow(w) \/ SortFlush(w)
      PROVE  ListInv'
  <2>1. /\ UNCHANGED <<config, reading>> /\ nextId' \in 1 .. MaxId + 1
        /\ \/ Done(w) /\ \E new \in [Ids -> Row \cup {Missing}] : CommitRows(w, new)
           \/ /\ job' = [job EXCEPT ![w].does = "failed"]
              /\ UNCHANGED <<rows, history>>
    BY <1>1, <1>6, WriterCommits
  <2>2. CASE Done(w) /\ \E new \in [Ids -> Row \cup {Missing}] : CommitRows(w, new)
    BY <1>3, <2>1, <2>2
  <2>3. CASE job' = [job EXCEPT ![w].does = "failed"] /\ UNCHANGED <<rows, history>>
    <3>1. nextId' = nextId
      <4>1. ASSUME Done(w)
            PROVE  FALSE
        BY <2>3, <4>1, <1>1 DEF Done, ListTyped, JobType
      <4> QED
        BY <1>6, <4>1 DEF CreateRow, DeleteRow, EditRow, SortFlush
    <3>2. UNCHANGED <<table, config, reading, history>>
      BY <2>1, <2>3, <3>1 DEF table
    <3>3. ListTyped' /\ \A v \in Writers : JobInv(v)'
      BY <1>1, <2>3, <3>2, JobSteps
    <3> QED
      BY <1>4, <3>2, <3>3 DEF ListInv
  <2> QED
    BY <2>1, <2>2, <2>3
<1>7. ASSUME UNCHANGED listVars
      PROVE  ListInv'
  <2>1. UNCHANGED <<table, config, reading, history>> /\ job' = job
    BY <1>7 DEF listVars
  <2>2. ListTyped'
    BY <1>1, <2>1 DEF ListTyped, ListTypeOK, table, config, reading, history
  <2>3. \A v \in Writers : JobInv(v)'
    BY <1>1, <2>1 DEF JobInv, table, history
  <2> QED
    BY <1>4, <2>1, <2>2, <2>3 DEF ListInv
<1> QED
  BY <1>2, <1>5, <1>6, <1>7 DEF ListNext

\* Every state of the list satisfies the invariant, in whatever order readers and
\* writers come and whatever the number of rows on a page.
THEOREM ListInvariance == ListSpec => []ListInv
<1>1. ListInit => ListInv
  BY ListInvInit
<1>2. ListInv /\ [ListNext]_listVars => ListInv'
  BY ListInvNext
<1> QED
  BY <1>1, <1>2, PTL DEF ListSpec

-----------------------------------------------------------------------------
(* What the invariant says of a walk that is over.                            *)

\* A walk that is over read one list and offers nothing more.
LEMMA WalkIsOver ==
    ASSUME ListInv, NEW r \in Readers, Walked(r)
    PROVE  Started(r) /\ SameList(r) /\ Over(r) /\ ReaderInv(r) /\ modes[r] # {}
           /\ modes[r] \subseteq {"offset", "cursor"}
<1>1. ListTyped /\ ReaderInv(r)
  BY DEF ListInv
<1>2. stage[r] = "done" /\ OneList(r)
  BY DEF Walked
<1>3. Started(r) /\ ~Asking(r)
  BY <1>2 DEF Started, Asking
<1>4. next[r] = Nothing /\ modes[r] # {}
  BY <1>1, <1>2 DEF ReaderInv, BeginInv
<1>5. SameList(r)
  BY <1>1, <1>2, <1>3 DEF ReaderInv, QueryInv, OneList, SameList
<1> QED
  BY <1>1, <1>3, <1>4, <1>5 DEF Over, ListTyped

\* A walk by cursor in the order of the primary key shows every row that stays,
\* once, for every sequence of inserts, deletes and edits between its requests and
\* between the reads of one (CursorPagination), and a page back leaves out the
\* nearest row at most.
THEOREM CursorPagesComplete == ListSpec => []CursorPagesHold
<1>1. ListInv => CursorPagesHold
  <2> SUFFICES ASSUME ListInv
               PROVE  CursorPagesHold
    OBVIOUS
  <2>1. ListTypeOK
    BY DEF ListInv, ListTyped
  <2>2. ASSUME NEW r \in Readers, Walked(r), modes[r] = {"cursor"}, Ordering(query[r]) = "id",
               NEW i \in steady[r]
        PROVE  Times(r, i) = 1
    <3>1. Started(r) /\ SameList(r) /\ Over(r) /\ ReaderInv(r)
      BY <2>2, WalkIsOver
    <3> QED
      BY <2>2, <3>1 DEF ReaderInv, ByCursorInv
  <2>3. CursorWalksAreComplete
    BY <2>2 DEF CursorWalksAreComplete
  <2>4. ASSUME NEW r \in Readers, GapInv(r), stage[r] = "shown", Len(pages[r]) = 1,
               modes[r] = {"cursor"}, PagesBack(query[r], "cursor"), Ordering(query[r]) = "",
               came[r] \cup left[r] = {}
        PROVE  LeavesOutTheNearest({pages[r][1][n] : n \in DOMAIN pages[r][1]},
                                   Selected(query[r], "cursor"))
    BY <2>4 DEF GapInv
  <2>5. \A r \in Readers : GapInv(r)
    BY DEF ListInv, ReaderInv
  <2>6. BackwardGapIsTheNearest
    BY <2>4, <2>5 DEF BackwardGapIsTheNearest, LeavesOutTheNearest
  <2> QED
    BY <2>1, <2>3, <2>6 DEF CursorPagesHold
<1> QED
  BY <1>1, ListInvariance, PTL

\* A walk by pages in the order of the primary key misses a row that stays, or
\* shows it twice, only when rows came or left before it (OffsetPagination), or
\* when DynamicPagination switched between pages and cursors.
THEOREM WalksExplained == ListSpec => []PageWalksAreExplained
<1>1. ListInv => PageWalksAreExplained
  <2> SUFFICES ASSUME ListInv
               PROVE  PageWalksAreExplained
    OBVIOUS
  <2>1. ASSUME NEW r \in Readers, ByKey(r), NEW i \in steady[r], Times(r, i) = 0
        PROVE  \E j \in left[r] \cup late[r] : Before(Ordering(query[r]), j, i)
    <3>1. Started(r) /\ SameList(r) /\ Over(r) /\ ReaderInv(r)
      BY <2>1, WalkIsOver DEF ByKey
    <3>2. InKeyOrder(r)
      BY <2>1 DEF ByKey, InKeyOrder
    <3>3. ~Undisturbed(r, i)
      BY <2>1, <3>1, <3>2 DEF ReaderInv, AheadInv
    <3> QED
      BY <3>3 DEF Undisturbed
  <2>2. ASSUME NEW r \in Readers, ByKey(r), NEW i \in steady[r], Times(r, i) > 1,
               \A j \in came[r] : ~Before(Ordering(query[r]), j, i), left[r] = {},
               modes[r] # {"offset", "cursor"}
        PROVE  FALSE
    <3>1. /\ Started(r) /\ SameList(r) /\ Over(r) /\ ReaderInv(r)
          /\ modes[r] # {} /\ modes[r] \subseteq {"offset", "cursor"}
      BY <2>2, WalkIsOver DEF ByKey
    <3>2. Ordering(query[r]) \in {"id", "-id"}
          /\ (Ordering(query[r]) = "-id" => modes[r] = {"offset"})
      BY <2>2 DEF ByKey
    <3>3. Times(r, i) \in Nat
      BY TimesIsANumber DEF ListInv
    <3>4. CASE modes[r] = {"offset"}
      <4>1. Times(r, i) <= 1
        BY <2>2, <3>1, <3>2, <3>4 DEF ReaderInv, OnceInv
      <4> QED
        BY <2>2, <3>3, <4>1
    <3>5. CASE modes[r] = {"cursor"}
      <4>1. Ordering(query[r]) = "id"
        BY <3>2, <3>5
      <4>2. Times(r, i) = 1
        BY <2>2, <3>1, <3>5, <4>1 DEF ReaderInv, ByCursorInv
      <4> QED
        BY <2>2, <4>2
    <3> QED
      BY <2>2, <3>1, <3>4, <3>5
  <2> QED
    BY <2>1, <2>2 DEF PageWalksAreExplained, MissesNeedDepartures, RepeatsAreExplained
<1> QED
  BY <1>1, ListInvariance, PTL

\* A sort that commits leaves each item it found where it was dragged to
\* (sort_items), unless another request changed it after it had been read.
THEOREM SortsStand == ListSpec => SortStands
<1>1. ListInv /\ [ListNext]_listVars =>
        [\A w \in Writers :
          job[w].does = "sort" /\ job'[w].does = "done" =>
              \A k \in DOMAIN job[w].list :
                  LET i == job[w].list[k]
                  IN  \/ rows'[i] = Missing \/ i \notin DOMAIN job[w].read \/ i \in stale[w]
                      \/ \E n \in DOMAIN job[w].list : n > k /\ job[w].list[n] = i
                      \/ rows'[i].place = k - 1]_listVars
  <2>1. SUFFICES ASSUME ListInv, ListNext, NEW w \in Writers,
                        job[w].does = "sort", job'[w].does = "done",
                        NEW k \in DOMAIN job[w].list, NEW i, i = job[w].list[k],
                        rows'[i] # Missing, i \in DOMAIN job[w].read, i \notin stale[w],
                        \A n \in DOMAIN job[w].list : n > k => job[w].list[n] # i
                 PROVE  rows'[i].place = k - 1
    OBVIOUS
  <2>2. ListTyped /\ JobInv(w) /\ job[w] \in JobType
    BY <2>1 DEF ListInv, ListTyped
  <2>3. SortFlush(w) /\ Done(w)
    <3>1. ASSUME NEW r \in Readers,
                 Ask(r) \/ Decide(r) \/ Count(r) \/ Items(r) \/ Follow(r) \/ Finish(r) \/ Export(r)
          PROVE  FALSE
      <4>1. job' = job
        BY <2>2, <3>1, ReadersMind
      <4> QED
        BY <2>1, <4>1
    <3>2. ASSUME NEW v \in Writers, v # w,
                 CreateRow(v) \/ DeleteRow(v) \/ EditRow(v) \/ Sort(v) \/ Get(v) \/ SortFlush(v)
          PROVE  FALSE
      <4>1. job'[w] = job[w]
        BY <2>2, <3>2 DEF CreateRow, DeleteRow, EditRow, Sort, Get, SortFlush, Done, ListTyped
      <4> QED
        BY <2>1, <4>1
    <3>3. ~CreateRow(w) /\ ~DeleteRow(w) /\ ~EditRow(w) /\ ~Sort(w)
      BY <2>1 DEF CreateRow, DeleteRow, EditRow, Sort
    <3>4. ~Get(w)
      <4>1. \A x, y : [job EXCEPT ![w].pos = x, ![w].read = y][w].does = job[w].does
        BY <2>2 DEF ListTyped, JobType
      <4>2. Get(w) => \E x, y : job' = [job EXCEPT ![w].pos = x, ![w].read = y]
        <5>1. SUFFICES ASSUME Get(w)
                       PROVE  \E x, y : job' = [job EXCEPT ![w].pos = x, ![w].read = y]
          OBVIOUS
        <5> DEFINE item == job[w].list[job[w].pos]
                   y == IF rows[item] = Missing \/ item \in DOMAIN job[w].read THEN job[w].read
                        ELSE [j \in {item} \cup DOMAIN job[w].read |->
                                 IF j = item THEN rows[item].place ELSE job[w].read[j]]
        <5>2. job' = [job EXCEPT ![w].pos = job[w].pos + 1, ![w].read = y]
          BY <2>2, <5>1 DEF Get, ListTyped
        <5> QED
          BY <5>2
      <4>3. ASSUME Get(w)
            PROVE  FALSE
        <5>1. PICK x, y : job' = [job EXCEPT ![w].pos = x, ![w].read = y]
          BY <4>2, <4>3
        <5>2. job'[w].does = job[w].does
          BY <4>1, <5>1
        <5> QED
          BY <2>1, <5>2
      <4> QED
        BY <4>3
    <3>5. SortFlush(w)
      BY <2>1, <3>1, <3>2, <3>3, <3>4 DEF ListNext
    <3>6. job' # [job EXCEPT ![w].does = "failed"]
      BY <2>1, <2>2 DEF ListTyped, JobType
    <3> QED
      BY <3>5, <3>6 DEF SortFlush
  <2>4. job' # [job EXCEPT ![w].does = "failed"]
    BY <2>1, <2>2 DEF ListTyped, JobType
  <2>5. rows' = [j \in Ids |-> IF j \in Moved(w) THEN [rows[j] EXCEPT !.place = Position(w, j)]
                               ELSE rows[j]]
        /\ \A j \in Moved(w) : rows[j] # Missing
    BY <2>3, <2>4 DEF SortFlush, CommitRows
  <2>6. k \in 1 .. Len(job[w].list) /\ DOMAIN job[w].list = 1 .. Len(job[w].list)
        /\ i \in Ids
    BY <2>1, <2>2 DEF JobType
  <2>7. Position(w, i) = k - 1
    BY <2>1, <2>2, <2>6, PositionIs
  <2>8. CASE i \in Moved(w)
    <3>1. rows[i] \in Row
      BY <2>2, <2>5, <2>6, <2>8 DEF ListTyped, ListTypeOK
    <3>2. rows'[i] = [rows[i] EXCEPT !.place = Position(w, i)]
      BY <2>5, <2>6, <2>8
    <3> QED
      BY <2>7, <3>1, <3>2 DEF Row
  <2>9. CASE i \notin Moved(w)
    <3>1. rows'[i] = rows[i]
      BY <2>5, <2>6, <2>9
    <3>2. job[w].read[i] = Position(w, i)
      BY <2>1, <2>9 DEF Moved
    <3>3. rows[i].place = job[w].read[i]
      BY <2>1, <2>2 DEF JobInv
    <3> QED
      BY <2>7, <3>1, <3>2, <3>3
  <2> QED
    BY <2>8, <2>9
<1> QED
  BY <1>1, ListInvariance, PTL DEF ListSpec, SortStands
=============================================================================
