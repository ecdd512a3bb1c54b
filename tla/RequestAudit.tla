---------------------------- MODULE RequestAudit ----------------------------
(***************************************************************************)
(* The life of an admin request that changes data: the audit context, the  *)
(* per-request session, the unit of work with its two audit listeners, the *)
(* commits the notification service issues in the middle of the request,   *)
(* and the commit or rollback that ends it.                                *)
(*                                                                         *)
(* Sources: db.py (SessionMiddleware), audit/context.py,                   *)
(* audit/middleware.py, audit/listener.py, auth/identity.py (resolve_user),*)
(* views/class_views.py (create, edit, delete, bulk),                      *)
(* export_import/base.py (import_data), notifications/dispatcher.py and    *)
(* service.py as far as they commit the caller's session.                  *)
(*                                                                         *)
(* Requests are asyncio tasks: they interleave at every await, hence       *)
(* between any two actions below, and also in the middle of a flush, which *)
(* awaits the database between the before_flush and the                    *)
(* after_flush_postexec listener.                                          *)
(*                                                                         *)
(* A change is one object made new, dirty or deleted in a session.  Its op *)
(* is "unaudited" when the listeners ignore it: the model is not           *)
(* registered, or the object is dirty but its diff is empty.               *)
(***************************************************************************)
EXTENDS Naturals, FiniteSets

CONSTANTS
    Requests,       \* the HTTP requests of a behaviour, each served once
    Addresses,      \* the values id(session) takes; reused once a session is freed
    None,           \* an absent user or address
    MaxChanges,     \* bound: changes made in a behaviour, by all requests
    MaxRecipients   \* bound: recipients dispatch_model_change notifies per request

ASSUME NoneAssumption == None \notin Requests /\ None \notin Addresses
ASSUME BoundsAssumption == MaxChanges \in Nat /\ MaxRecipients \in Nat

Ops == {"create", "update", "delete", "unaudited"}

Changes == [req : Requests, n : Nat, op : Ops]

\* An audit row names the change it records and whose identity and address
\* it was stamped with, both read from the audit context.
Rows == [change : Changes, user : Requests \cup {None}, ip : Requests \cup {None}]

VARIABLES
    context,    \* the dictionary every task sees through the ContextVar's default
    at,         \* at[r]: where the handler of r continues
    call,       \* call[r]: the session call r awaits ("run" when none)
    busy,       \* busy[r]: r is inside a flush, between its two listeners
    addr,       \* addr[r]: id() of the open session of r
    step,       \* step[r]: changes r has made so far
    notified,   \* notified[r]: recipients r has notified so far
    mem,        \* mem[r]: session.new, session.dirty and session.deleted
    rowsMem,    \* rowsMem[r]: audit rows in session.new
    tx,         \* tx[r]: changes flushed to the open transaction
    rowsTx,     \* rowsTx[r]: audit rows flushed to the open transaction
    pending,    \* _pending_creates, keyed by id(session)
    committed,  \* changes committed to the database
    auditLog,   \* audit rows committed to the database
    response,   \* response[r]: what the client of r was told
    overlap     \* history: pairs of requests in service at the same time

sessionVars == <<mem, rowsMem, tx, rowsTx, pending>>
dbVars == <<committed, auditLog>>
vars == <<context, at, call, busy, addr, step, notified, mem, rowsMem, tx,
          rowsTx, pending, committed, auditLog, response, overlap>>

Places == {"idle", "arrived", "auth", "handler", "saved", "dispatch", "perms",
           "bulk", "bulkdelete", "import", "importlog", "logged", "broken",
           "respond", "closing", "abort", "done"}

Init ==
    /\ context = [user |-> None, ip |-> None]
    /\ at = [r \in Requests |-> "idle"]
    /\ call = [r \in Requests |-> "run"]
    /\ busy = [r \in Requests |-> FALSE]
    /\ addr = [r \in Requests |-> None]
    /\ step = [r \in Requests |-> 0]
    /\ notified = [r \in Requests |-> 0]
    /\ mem = [r \in Requests |-> {}]
    /\ rowsMem = [r \in Requests |-> {}]
    /\ tx = [r \in Requests |-> {}]
    /\ rowsTx = [r \in Requests |-> {}]
    /\ pending = [a \in Addresses |-> {}]
    /\ committed = {}
    /\ auditLog = {}
    /\ response = [r \in Requests |-> "none"]
    /\ overlap = {}

-----------------------------------------------------------------------------
(***************************************************************************)
(* The audit context.  The ContextVar's default is one dictionary object;  *)
(* set_audit_context updates it in place, so every task shares it.         *)
(***************************************************************************)

\* AuditContextMiddleware.dispatch stores the client's address on arrival.
ContextOnArrival(c, r) == [c EXCEPT !.ip = r]

\* Mutant: the first identity stays.
ContextOnAuthFirst(c, r) == IF c.user = None THEN [c EXCEPT !.user = r] ELSE c

\* resolve_user merges the identity in.
ContextOnAuth(c, r) == [c EXCEPT !.user = r]

\* clear_audit_context rebinds the variable to a new dictionary in the
\* middleware's own task; the shared one keeps its entries.
ContextOnClear(c) == c

-----------------------------------------------------------------------------
(***************************************************************************)
(* The unit of work and its listeners.                                     *)
(***************************************************************************)

\* Mutant: pending audit rows do not make a session dirty.
CleanButForRows(r) == mem[r] = {}

Clean(r) == mem[r] = {} /\ rowsMem[r] = {}

\* Mutant: objects of unregistered models are kept too.
NewItemsUnfiltered(r) == {c \in mem[r] : c.op \in {"create", "unaudited"}}

\* before_flush keeps the new registered objects for later ...
NewItems(r) == {c \in mem[r] : c.op = "create"}

\* ... and writes the rows of the dirty and deleted ones at once.
RowFor(c) == [change |-> c, user |-> context.user, ip |-> context.ip]
DirtyRows(r) == {RowFor(c) : c \in {d \in mem[r] : d.op \in {"update", "delete"}}}

\* _pending_creates[id(session)] = new_items, only when there are some.
Capture(r) ==
    IF NewItems(r) = {} THEN pending ELSE [pending EXCEPT ![addr[r]] = NewItems(r)]

BeginFlush(r) ==
    /\ call[r] \in {"flush", "commit"}
    /\ ~busy[r]
    /\ ~Clean(r)
    /\ pending' = Capture(r)
    /\ rowsMem' = [rowsMem EXCEPT ![r] = @ \cup DirtyRows(r)]
    /\ busy' = [busy EXCEPT ![r] = TRUE]
    /\ UNCHANGED <<context, at, call, addr, step, notified, mem, tx, rowsTx,
                   dbVars, response, overlap>>

\* after_flush_postexec pops what was captured and adds the CREATE rows.
\* They stay in session.new until the next flush, and they read the context
\* now: the captured one is a reference to the shared dictionary.
CreateRows(r) == {RowFor(c) : c \in pending[addr[r]]}

\* Mutant: read without popping.
KeepPending(r) == pending

PopPending(r) == [pending EXCEPT ![addr[r]] = {}]

EndFlush(r) ==
    /\ busy[r]
    /\ tx' = [tx EXCEPT ![r] = @ \cup mem[r]]
    /\ rowsTx' = [rowsTx EXCEPT ![r] = @ \cup rowsMem[r]]
    /\ mem' = [mem EXCEPT ![r] = {}]
    /\ rowsMem' = [rowsMem EXCEPT ![r] = CreateRows(r)]
    /\ pending' = PopPending(r)
    /\ busy' = [busy EXCEPT ![r] = FALSE]
    /\ call' = [call EXCEPT ![r] = IF @ = "flush" THEN "run" ELSE @]
    /\ UNCHANGED <<context, at, addr, step, notified, dbVars, response, overlap>>

\* A flush that finds the session clean calls no listener.
SkipFlush(r) ==
    /\ call[r] = "flush" /\ ~busy[r] /\ Clean(r)
    /\ call' = [call EXCEPT ![r] = "run"]
    /\ UNCHANGED <<context, at, busy, addr, step, notified, sessionVars, dbVars,
                   response, overlap>>

\* Rolling back expunges new objects and drops the transaction, but what
\* before_flush captured stays under the session's address.
RolledBack(r) ==
    /\ mem' = [mem EXCEPT ![r] = {}]
    /\ rowsMem' = [rowsMem EXCEPT ![r] = {}]
    /\ tx' = [tx EXCEPT ![r] = {}]
    /\ rowsTx' = [rowsTx EXCEPT ![r] = {}]
    /\ pending' = pending

\* What becomes of a failed call.  import_data's final flush is followed by
\* a rollback, also when it fails because a lookup's autoflush did before it.
\* The lookup, the writing of the IMPORT row and create_log swallow the
\* exception without one: the handler goes on with a session that accepts
\* nothing more.  Every other exception reaches SessionMiddleware.
Recovers(r) == call[r] = "flush" /\ at[r] \in {"import", "importlog"}

Swallows(r) ==
    \/ call[r] = "flush" /\ at[r] \in {"import", "logged"}
    \/ call[r] = "commit" /\ at[r] \in {"dispatch", "bulk"}

Raises(r) == call[r] = "commit" \/ at[r] \notin {"import", "importlog", "logged"}

AfterFailure(r) ==
    {p \in {"importlog", "broken", "abort"} :
        /\ p = "importlog" => Recovers(r)
        /\ p = "broken" => Swallows(r)
        /\ p = "abort" => Raises(r)}

FailFlush(r) ==
    /\ busy[r]
    /\ RolledBack(r)
    /\ busy' = [busy EXCEPT ![r] = FALSE]
    /\ \E p \in AfterFailure(r) : at' = [at EXCEPT ![r] = p]
    /\ call' = [call EXCEPT ![r] = "run"]
    /\ UNCHANGED <<context, addr, step, notified, dbVars, response, overlap>>

\* Session.commit flushes until the session is clean, then commits.
Commit(r) ==
    /\ call[r] = "commit" /\ ~busy[r] /\ Clean(r)
    /\ committed' = committed \cup tx[r]
    /\ auditLog' = auditLog \cup rowsTx[r]
    /\ tx' = [tx EXCEPT ![r] = {}]
    /\ rowsTx' = [rowsTx EXCEPT ![r] = {}]
    /\ call' = [call EXCEPT ![r] = "run"]
    /\ UNCHANGED <<context, at, busy, addr, step, notified, mem, rowsMem, pending,
                   response, overlap>>

\* The database refuses the COMMIT itself (a deferred constraint, a lost
\* connection).
FailCommit(r) ==
    /\ call[r] = "commit" /\ ~busy[r] /\ Clean(r)
    /\ RolledBack(r)
    /\ \E p \in AfterFailure(r) : at' = [at EXCEPT ![r] = p]
    /\ call' = [call EXCEPT ![r] = "run"]
    /\ UNCHANGED <<context, busy, addr, step, notified, dbVars, response, overlap>>

\* A handler calls flush() or commit() on its session and awaits it.
AwaitCommit(r) == call' = [call EXCEPT ![r] = "commit"]

AwaitFlush(r) == call' = [call EXCEPT ![r] = "flush"]

-----------------------------------------------------------------------------
(***************************************************************************)
(* The request: middleware, authentication, handler, response.             *)
(***************************************************************************)

InService(r) == at[r] \notin {"idle", "done"}

\* AuditContextMiddleware is the outermost middleware of the admin.
Arrive(r) ==
    /\ at[r] = "idle"
    /\ context' = ContextOnArrival(context, r)
    /\ at' = [at EXCEPT ![r] = "arrived"]
    /\ overlap' = overlap \cup ({r} \X {q \in Requests : InService(q)})
                          \cup ({q \in Requests : InService(q)} \X {r})
    /\ UNCHANGED <<call, busy, addr, step, notified, sessionVars, dbVars, response>>

\* SessionMiddleware opens the request's session, at an address no live
\* session has.
OpenSession(r) ==
    /\ at[r] = "arrived"
    /\ \E a \in Addresses :
         /\ \A q \in Requests : addr[q] # a
         /\ addr' = [addr EXCEPT ![r] = a]
    /\ at' = [at EXCEPT ![r] = "auth"]
    /\ UNCHANGED <<context, call, busy, step, notified, sessionVars, dbVars,
                   response, overlap>>

\* resolve_user finds an active user; the router picks the handler.
Authenticate(r) ==
    /\ at[r] = "auth"
    /\ context' = ContextOnAuth(context, r)
    /\ \E p \in {"handler", "bulk", "import"} : at' = [at EXCEPT ![r] = p]
    /\ UNCHANGED <<call, busy, addr, step, notified, sessionVars, dbVars,
                   response, overlap>>

\* A refusal before any change: no user (401), no permission (403), no
\* object (404), invalid form (the page again, after a rollback).  An
\* HTTPException becomes a response inside the application.
Refuse(r) ==
    /\ at[r] \in {"auth", "handler", "bulk", "import"}
    /\ call[r] = "run" /\ step[r] = 0 /\ notified[r] = 0
    /\ at' = [at EXCEPT ![r] = "respond"]
    /\ UNCHANGED <<context, call, busy, addr, step, notified, sessionVars, dbVars,
                   response, overlap>>

\* The bound on changes is not reached.
MoreChanges ==
    Cardinality(UNION {{r} \X (1 .. step[r]) : r \in Requests}) < MaxChanges

\* One object enters session.new, session.dirty or session.deleted.
Change(r, op) ==
    /\ MoreChanges
    /\ step' = [step EXCEPT ![r] = @ + 1]
    /\ mem' = [mem EXCEPT ![r] =
                 @ \cup {[req |-> r, n |-> step[r] + 1, op |-> op]}]
    /\ UNCHANGED <<rowsMem, tx, rowsTx, pending>>

\* A query of the handler (inline children, recipients, the next object of a
\* bulk action, the key of the next imported row) first flushes what the
\* session holds.  import_data does not escape: its autoflush = False is set
\* on the adapter, not on the session it wraps.
Query(r) ==
    /\ at[r] \in {"saved", "dispatch", "perms", "bulk", "import"}
    /\ call[r] = "run" /\ ~Clean(r)
    /\ AwaitFlush(r)
    /\ UNCHANGED <<context, at, busy, addr, step, notified, sessionVars, dbVars,
                   response, overlap>>

\* Create, edit and delete: change the object, then await session.flush().
SaveObject(r) ==
    /\ at[r] = "handler" /\ call[r] = "run"
    /\ \E op \in Ops :
         /\ Change(r, op)
         /\ at' = [at EXCEPT ![r] = IF op = "delete" THEN "dispatch" ELSE "saved"]
    /\ AwaitFlush(r)
    /\ UNCHANGED <<context, busy, addr, notified, dbVars, response, overlap>>

\* save_inline_objects: a child row changes and the formset is flushed, or
\* the form has no inlines.
SaveInline(r) ==
    /\ at[r] = "saved" /\ call[r] = "run"
    /\ at' = [at EXCEPT ![r] = "dispatch"]
    /\ \/ /\ \E op \in Ops : Change(r, op)
          /\ AwaitFlush(r)
       \/ UNCHANGED <<step, sessionVars, call>>
    /\ UNCHANGED <<context, busy, addr, notified, dbVars, response, overlap>>

\* dispatch_model_change, one recipient: the notification service works on
\* the request's own session and commits it (create_log,
\* set_notification_status).
NotifyRecipient(r) ==
    /\ at[r] \in {"dispatch", "bulk"} /\ call[r] = "run"
    /\ notified[r] < MaxRecipients
    /\ notified' = [notified EXCEPT ![r] = @ + 1]
    /\ AwaitCommit(r)
    /\ UNCHANGED <<context, at, busy, addr, step, sessionVars, dbVars, response,
                   overlap>>

\* Nobody is left to notify, or notifications are off for this model.
EndDispatch(r) ==
    /\ at[r] \in {"dispatch", "bulk"} /\ call[r] = "run"
    /\ at[r] = "bulk" => MoreChanges
    /\ at' = [at EXCEPT ![r] = IF @ = "bulk" THEN "bulkdelete" ELSE "perms"]
    /\ UNCHANGED <<context, call, busy, addr, step, notified, sessionVars, dbVars,
                   response, overlap>>

\* A hook of the model admin raises, the service does, or the page cannot be
\* rendered.
HandlerRaises(r) ==
    /\ at[r] \in {"handler", "saved", "dispatch", "perms", "bulk", "bulkdelete",
                   "logged", "broken", "respond"}
    /\ call[r] = "run"
    /\ at' = [at EXCEPT ![r] = "abort"]
    /\ UNCHANGED <<context, call, busy, addr, step, notified, sessionVars, dbVars,
                   response, overlap>>

\* A hook raises an HTTPException, which is a response: the form views roll
\* back first, the API's create, delete and bulk views do not, and what they
\* have written so far is committed.
HookRefuses(r) ==
    /\ at[r] \in {"saved", "dispatch", "bulk"} /\ call[r] = "run"
    /\ at' = [at EXCEPT ![r] = "respond"]
    /\ RolledBack(r) \/ UNCHANGED sessionVars
    /\ UNCHANGED <<context, call, busy, addr, step, notified, dbVars, response,
                   overlap>>

\* flush_pending_perm_ops: a DELETE, a query like any other, then the direct
\* permissions of the user form, which the final commit flushes.
PermOps(r) ==
    /\ at[r] = "perms" /\ call[r] = "run"
    /\ at' = [at EXCEPT ![r] = "respond"]
    /\ \/ Clean(r) /\ \E op \in {"create", "unaudited"} : Change(r, op)
       \/ UNCHANGED <<step, sessionVars>>
    /\ UNCHANGED <<context, call, busy, addr, notified, dbVars, response, overlap>>

\* Bulk deletion dispatches first and marks the object deleted afterwards ...
BulkDelete(r) ==
    /\ at[r] = "bulkdelete" /\ call[r] = "run"
    /\ Change(r, "delete")
    /\ at' = [at EXCEPT ![r] = "bulk"]
    /\ UNCHANGED <<context, call, busy, addr, notified, dbVars, response, overlap>>

\* ... and flushes once, after the last object.
BulkFlush(r) ==
    /\ at[r] = "bulk" /\ call[r] = "run" /\ step[r] > 0
    /\ AwaitFlush(r)
    /\ at' = [at EXCEPT ![r] = "respond"]
    /\ UNCHANGED <<context, busy, addr, step, notified, sessionVars, dbVars,
                   response, overlap>>

\* import_data: one row of the file creates or updates an object.
ImportRow(r) ==
    /\ at[r] = "import" /\ call[r] = "run"
    /\ \E op \in {"create", "update", "unaudited"} : Change(r, op)
    /\ UNCHANGED <<context, at, call, busy, addr, notified, dbVars, response, overlap>>

\* The final flush, whose failure import_data catches and rolls back.
ImportFlush(r) ==
    /\ at[r] = "import" /\ call[r] = "run"
    /\ at' = [at EXCEPT ![r] = "importlog"]
    /\ AwaitFlush(r)
    /\ UNCHANGED <<context, busy, addr, step, notified, sessionVars, dbVars,
                   response, overlap>>

\* log_audit_event adds the IMPORT row, an object of no registered model,
\* and flushes.
ImportLog(r) ==
    /\ at[r] = "importlog" /\ call[r] = "run"
    /\ mem' = [mem EXCEPT ![r] =
                 @ \cup {[req |-> r, n |-> step[r] + 1, op |-> "unaudited"]}]
    /\ at' = [at EXCEPT ![r] = "logged"]
    /\ AwaitFlush(r)
    /\ UNCHANGED <<context, busy, addr, step, notified, rowsMem, tx, rowsTx, pending,
                   dbVars, response, overlap>>

\* The application sends its response, the outer middleware clears the audit
\* context, and only then does SessionMiddleware commit.
Respond(r) ==
    /\ at[r] \in {"respond", "logged"} /\ call[r] = "run"
    /\ response' = [response EXCEPT ![r] = "ok"]
    /\ context' = ContextOnClear(context)
    /\ at' = [at EXCEPT ![r] = "closing"]
    /\ AwaitCommit(r)
    /\ UNCHANGED <<busy, addr, step, notified, sessionVars, dbVars, overlap>>

\* The same with a session that accepts nothing: the commit raises.
RespondBroken(r) ==
    /\ at[r] = "broken" /\ call[r] = "run"
    /\ response' = [response EXCEPT ![r] = "ok"]
    /\ context' = ContextOnClear(context)
    /\ at' = [at EXCEPT ![r] = "abort"]
    /\ UNCHANGED <<call, busy, addr, step, notified, sessionVars, dbVars, overlap>>

Close(r) ==
    /\ at[r] = "closing" /\ call[r] = "run"
    /\ at' = [at EXCEPT ![r] = "done"]
    /\ addr' = [addr EXCEPT ![r] = None]
    /\ UNCHANGED <<context, call, busy, step, notified, sessionVars, dbVars,
                   response, overlap>>

\* SessionMiddleware's except and finally: roll back and close.  The client
\* gets an error unless the response has already left.
Abort(r) ==
    /\ at[r] = "abort"
    /\ RolledBack(r)
    /\ response' = [response EXCEPT ![r] = IF @ = "none" THEN "error" ELSE @]
    /\ at' = [at EXCEPT ![r] = "done"]
    /\ addr' = [addr EXCEPT ![r] = None]
    /\ UNCHANGED <<context, call, busy, step, notified, dbVars, overlap>>

Lifecycle(r) ==
    \/ Arrive(r) \/ OpenSession(r) \/ Authenticate(r) \/ Refuse(r)
    \/ Respond(r) \/ RespondBroken(r) \/ Close(r) \/ Abort(r)

Handler(r) ==
    \/ Query(r) \/ SaveObject(r) \/ SaveInline(r) \/ NotifyRecipient(r) \/ EndDispatch(r)
    \/ HandlerRaises(r) \/ HookRefuses(r) \/ PermOps(r) \/ BulkDelete(r) \/ BulkFlush(r)
    \/ ImportRow(r) \/ ImportFlush(r) \/ ImportLog(r)

UnitOfWork(r) ==
    \/ BeginFlush(r) \/ EndFlush(r) \/ SkipFlush(r) \/ FailFlush(r)
    \/ Commit(r) \/ FailCommit(r)

Next == \E r \in Requests : Lifecycle(r) \/ Handler(r) \/ UnitOfWork(r)

Spec == Init /\ [][Next]_vars

-----------------------------------------------------------------------------
(***************************************************************************)
(* Properties.                                                             *)
(***************************************************************************)

TypeOK ==
    /\ context \in [user : Requests \cup {None}, ip : Requests \cup {None}]
    /\ at \in [Requests -> Places]
    /\ call \in [Requests -> {"run", "flush", "commit"}]
    /\ busy \in [Requests -> BOOLEAN]
    /\ addr \in [Requests -> Addresses \cup {None}]
    /\ step \in [Requests -> Nat]
    /\ notified \in [Requests -> Nat]
    /\ mem \in [Requests -> SUBSET Changes]
    /\ rowsMem \in [Requests -> SUBSET Rows]
    /\ tx \in [Requests -> SUBSET Changes]
    /\ rowsTx \in [Requests -> SUBSET Rows]
    /\ pending \in [Addresses -> SUBSET Changes]
    /\ committed \in SUBSET Changes
    /\ auditLog \in SUBSET Rows
    /\ response \in [Requests -> {"none", "ok", "error"}]
    /\ overlap \in SUBSET (Requests \X Requests)

\* No change is lost to the audit log: whatever a commit makes durable, in
\* the middle of a request or at its end, has its row in the same database,
\* although the row of a CREATE is only added after the flush that inserts
\* the object and needs a later flush of its own.
CommittedIsAudited ==
    \A c \in committed : c.op # "unaudited" => \E row \in auditLog : row.change = c

\* The UPDATE and DELETE rows never outlive a rollback: each one records a
\* change that was committed.
DirtyRowsAreReal ==
    \A row \in auditLog : row.change.op \in {"update", "delete"} => row.change \in committed

\* A change gets one row: a row that is built records a change that has no
\* row yet, in this session or in the log.  _pending_creates is consumed by
\* the flush that filled it, however many flushes the commit makes.
KnownRows == auditLog \cup UNION {rowsTx[r] \cup rowsMem[r] : r \in Requests}
AuditedOnce ==
    [][\A r \in Requests : \A row \in (rowsMem[r])' :
         row \notin rowsMem[r] =>
            \A old \in KnownRows : old.change # row.change]_vars

\* No row is anonymous, and a committed change is attributed to its own
\* request or to one that was in service at the same time.  The audit context
\* is one dictionary for all tasks, so overlapping requests do overwrite each
\* other's identity; a request alone is always recorded right.
MisattributionNeedsOverlap ==
    \A row \in auditLog : row.change \in committed =>
        \A who \in {row.user, row.ip} : who # None /\
            (who = row.change.req \/ <<who, row.change.req>> \in overlap)

(***************************************************************************)
(* The strengthening that makes the two audit invariants inductive.        *)
(***************************************************************************)

\* A session is open exactly between OpenSession and the end, calls are
\* only awaited while it is, and a flush is in progress only inside a call.
ControlInv ==
    \A r \in Requests :
        /\ addr[r] = None <=> at[r] \in {"idle", "arrived", "done"}
        /\ call[r] # "run" => at[r] \notin {"idle", "arrived", "auth", "abort", "done"}
        /\ busy[r] => call[r] # "run"

\* Two open sessions never have the same id().
AddressInv ==
    \A r, q \in Requests : addr[r] # None /\ addr[r] = addr[q] => r = q

\* Inside a flush, everything that is being written has its row, or is held
\* in _pending_creates at the session's address.
FlushInv ==
    \A r \in Requests : busy[r] =>
        \A c \in mem[r] :
            /\ c.op = "create" => c \in pending[addr[r]]
            /\ c.op \in {"update", "delete"} => \E row \in rowsMem[r] : row.change = c

\* A flushed change has its row, flushed with it or waiting in the session.
TxInv ==
    \A r \in Requests : \A c \in tx[r] :
        c.op # "unaudited" => \E row \in rowsTx[r] \cup rowsMem[r] : row.change = c

\* UPDATE and DELETE rows accompany their changes until they are committed;
\* what _pending_creates holds, stale or not, are creations.
DirtyInv ==
    /\ \A a \in Addresses : \A c \in pending[a] : c.op = "create"
    /\ \A r \in Requests : \A row \in rowsMem[r] :
         row.change.op \in {"update", "delete"} => busy[r] /\ row.change \in mem[r]
    /\ \A r \in Requests : \A row \in rowsTx[r] :
         row.change.op \in {"update", "delete"} => row.change \in tx[r]

IInv ==
    /\ TypeOK
    /\ ControlInv
    /\ AddressInv
    /\ FlushInv
    /\ TxInv
    /\ DirtyInv
    /\ CommittedIsAudited
    /\ DirtyRowsAreReal

\* How far a stage of a request is from the end.
Rank == [idle |-> 20, arrived |-> 19, auth |-> 18, handler |-> 17, bulk |-> 16,
         import |-> 16, bulkdelete |-> 15, saved |-> 14, dispatch |-> 12,
         perms |-> 10, importlog |-> 9, logged |-> 8, respond |-> 7, broken |-> 6,
         closing |-> 5, abort |-> 4, done |-> 0]

\* Flushes a session still needs before it is clean.
Dirt(r) ==
    IF busy[r] THEN IF mem[r] # {} THEN 10
                    ELSE IF pending[addr[r]] # {} THEN 5 ELSE 1
    ELSE IF mem[r] # {} THEN 12
    ELSE IF rowsMem[r] # {} THEN IF pending[addr[r]] # {} THEN 9 ELSE 3
    ELSE 0

Awaiting(r) ==
    IF call[r] = "run" THEN 1 ELSE IF Clean(r) THEN 2 ELSE 0

\* What a request may still do, as a number.
Left(r) ==
    1000 * (MaxChanges - step[r]) + 100 * Rank[at[r]]
    + 10 * (MaxRecipients - notified[r]) + 4 * Dirt(r) + Awaiting(r)

Own(r) == <<at[r], call[r], busy[r], step[r], notified[r], mem[r], rowsMem[r]>>

\* No request in service is without a step, but for one that waits for the
\* address of a session another request will close.
NobodyIsStuck ==
    \A r \in Requests : InService(r) =>
        \/ ENABLED (Lifecycle(r) \/ Handler(r) \/ UnitOfWork(r))
        \/ at[r] = "arrived" /\ Cardinality(Addresses) <=
               Cardinality({q \in Requests : addr[q] # None})

\* A request that ends in an error leaves nothing behind unless it had notified
\* somebody: only the notification service commits in the middle of a handler.
QuietFailureLeavesNothing ==
    \A r \in Requests : response[r] = "error" /\ notified[r] = 0 =>
        \A c \in committed : c.req # r

\* Every request ends.  The steps a request can still take are finite in
\* number: Left falls with each of its own, and no step of another request
\* raises it.  No request in service is stuck, and one that ends in an error
\* leaves nothing behind but what it notified somebody of.
EveryRequestEnds ==
    /\ []NobodyIsStuck
    /\ []QuietFailureLeavesNothing
    /\ [][\A r \in Requests :
        IF Own(r)' = Own(r) THEN Left(r)' <= Left(r) ELSE Left(r)' < Left(r)]_vars

=============================================================================
