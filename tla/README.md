# A verification project for fastapi-admin-kit

TLA+ models of `fastapi_admin_kit`, above all of the parts whose correctness
depends on the order of things: requests that overlap at every `await`,
transactions that commit after the response, listeners that run inside a flush,
tokens, codes and forms that age, pages read while rows come and go, workers
that start together. TLC checks the models on small instances; TLAPS proves the
most important results for every size. Paths below are relative to
`src/fastapi_admin_kit/` unless they start with `docs/` or `tests/`.

Run everything from this directory:

    tlc -workers 2 -config RequestAudit_safety.cfg MCRequestAudit.tla
    tlapm RequestProofs.tla

`PROJECT.json` lists components, runs, hazards, theorems, the source lines each
definition stands for, and for each property a plausible bug it detects: beside
many definitions stands a second one, commented as *Mutant*, which is that bug.

## 1. Inventory

### How the parts interact

A request passes `AuditContextMiddleware`, then `SessionMiddleware`, then the
routes. `SessionMiddleware` opens one database session; `resolve_user` loads
the user through it and puts his identity in the audit context; the handler
reads, adds, changes and deletes objects and flushes; the flush calls the audit
listeners, which add rows to the same session. The handler may call the
notification dispatcher, whose service commits *that same session* once or
more per recipient and pushes payloads through the realtime hub. The response
leaves; only then does `SessionMiddleware` commit. A streamed AI turn commits
its request's session itself and stores the conversation through a second one.

Pages, JSON endpoints, logins, the two-factor pages, imports and AI turns are
all handlers of this shape. Files are written to storage while a form is parsed
and take no part in the transaction. The rate limiters, the hub, the registry
and the adapted table metadata live in the memory of a process; session and
CSRF tokens live in the browser; everything else is in the database.

Concurrency is asyncio: one thread, tasks interleave at `await`. Between
processes only the database is shared. Nothing recovers from a crash but the
start of a worker, which creates and completes what it finds missing; in a
request a crash is a transaction that does not commit.

### Components

| Component | State | Operations | What is hard | What makes it correct | Module |
|---|---|---|---|---|---|
| Session and transaction (`db.py`) | session, open transaction | open, commit after the response, rollback, close | the response precedes the commit; an `HTTPException` is a response and commits | a failed request leaves nothing; every session is closed | RequestAudit, and in every module with requests |
| Audit log (`audit/` context, listener, middleware) | one shared context dictionary, `_pending_creates` by `id(session)`, rows | set and clear the context, two flush listeners, explicit events | the row of a CREATE needs a second flush; a failed flush leaves captured objects; all tasks share the dictionary | each committed change has one row, of a real change, naming who did it | RequestAudit |
| Audit sinks, event bus, audit page | a buffer nobody shares | emit, diff, list | nothing meets anything | – | not modelled |
| Create, edit, delete, bulk (`views/class_views.py`, `views/model_saver.py`, `router.py`) | objects of the session, rows, files | change, flush, children, hooks, dispatch | commits in the middle, stale forms, bulk deletion that notifies first | what is answered is what is stored; no edit is undone by one who did not make it | RequestAudit (audit and commits), Records (rows, files, answers) |
| Import and export (`export_import/`) | objects of the session | per line: look up, create or update; final flush; rollback | queries flush, line errors are swallowed, the rollback is inside the handler | the counts are those of the rows | RequestAudit, Records |
| Notification dispatch and service | notifications, preferences, delivery logs | notify, channels, fallbacks, status, preferences, read | commits the caller's session; swallows some failures; pushes before the commit | fallbacks are tried, opt-outs hold, what is pushed is stored | Notifications, NotificationLifecycle |
| Realtime hub (`notifications/realtime.py`, endpoints) | sets of sockets and queues, last activity | connect, disconnect, publish, prune | publish suspends at each socket; both kinds share one activity entry; bounded queues | nobody connected misses a message for another's fault; the recently active are not pruned | RealtimeHub |
| API tokens (`api/auth.py`, `api/middleware.py`) | refresh-token rows, `password_changed_at`, `is_active` | obtain, refresh, logout, check | read–decide–write over awaits; whole seconds against microseconds | a refresh token works once; a password change ends old authority | TokenLifecycle |
| Profile and password (`views/profile.py`, `cli/user.py`) | the user row | change it here, elsewhere, by command | what is in flight | as above | TokenLifecycle, SignIn |
| Two-factor (`views/totp.py`, `auth/totp.py`) | one row: secret, enabled, list of codes | set up, enable, disable, regenerate, verify | the list is loaded, shortened and written back | a code works once; the switch is as told | TwoFactor, SignIn |
| Rate limiting (`auth/ratelimit.py`, `redis.py`) | attempts per key | check, record, reset, seconds left | check and record are apart around the password check; window edges | no window exceeds the limit; Retry-After is right | LoginGuard |
| Sessions, CSRF, identity (`auth/`) | two cookies, forms in tabs | sign in, second factor, sign out, visit, post, expire | two ways to resolve a user, late answers, redirects between pages | a young form is accepted; an old password opens nothing; redirects end | SignIn |
| Users, roles, permissions (`views/roles.py`, `api/roles.py`, `auth/permissions.py`) | roles, their permissions and holders, direct permissions | create, rename, save, delete, assign, check | look-ups before inserts, counts before deletes, a check in several reads | editors who follow each other lose nothing; a check answers something true | AccessControl |
| AI conversations and runs (`ai/service.py`, `ai/conversation.py`, `ai/backends/`) | conversation row, messages, usage | chat, stream, tool, delete | read-modify-write of history and counters; a second session; retries, fallbacks | a turn is stored, counted and billed once; no turn waits for itself | AiChat |
| AI configuration and plumbing | none shared | conversions | – | – | not modelled |
| Registry and setup (`registry/`, `admin/`) | registered models, the application's parts, tables, roles | register, set up, create tables, add columns, seed, route | two workers at once, crashes, repeated calls | whoever serves has tables, parts and pages that match | Setup, AuthTables |
| SQLAlchemy backend (`backends/sqlalchemy.py`) | metadata, sessions | materialise, adapt, create, query | process-wide metadata | – | Setup, AuthTables, Backends |
| Memory backend (`backends/memory.py`) | lists of records | the session and query protocol | no rollback, ids reused | it answers as the database would | Backends |
| Forms and file storage (`views/renderers.py`, `storage/`) | files | parse, save, replace, clear | file operations precede the commit | every stored path exists | Records |
| Filters, search, pagination (`filters/`, `pagination/`, `views/list_context.py`) | none; the client's page or cursor | list, next, sort, filter | every page is another query | a walk shows what stays, once; a filter means what its parameters say | Changelist, Filters |
| REST API of models (`api/crud.py`, `api/search.py`) | rows | the same with JSON | partial payloads | as for views and lists | Records, Changelist |
| Command line and migrations (`cli/`) | tables, revisions | migrate, autogenerate, stamp, upgrade | DDL commits at once | no row and no table is lost without a reason | Migrations |
| Pages, navigation, configuration | none | rendering | – | – | not modelled |

The hazards found in this survey are in `PROJECT.json`, each at the line where
it bites, with the properties that would catch it going wrong.

## 2. Plan

1. **RequestAudit**, the path every change takes. *Done, proved.*
2. **TokenLifecycle**, **TwoFactor**: records several requests read, decide on
   and write. *Done, proved.*
3. **LoginGuard**, **RealtimeHub**: in-memory state. *Done, proved.*
4. **Notifications** and its abstract specification **NotificationLifecycle**.
   *Done, the refinement checked and proved.*
5. **SignIn**, **AccessControl**, **AiChat**. *Done, proved.*
6. **Records**, **Changelist**. *Done, proved.*
7. **Setup** with **AuthTables**, **Backends**, **Migrations**. *Done, proved.*
   **Filters**. *Done, model-checked.*

Left: widget conversions as pure functions.

Modules that share nothing share a run (one variable says which of them moves,
the others rest), so that there is one run per question.

## 3. Modules

Each run has a module `MC<name>` that gives the constants their values. In all
modules a *history* variable records what the code does not keep and no guard
reads; properties of the form "... only by overlap" are about it.

### RequestAudit (`MCRequestAudit`, `RequestProofs`)

One request is a record spread over functions of `Requests`: `at` (where its
handler continues), `call` (the session call it awaits), `busy` (inside a flush,
between the two listeners), `mem` / `rowsMem` (objects and audit rows in the
session), `tx` / `rowsTx` (flushed to the open transaction). Shared are
`context` (the one dictionary behind the ContextVar's default), `pending`
(`_pending_creates`), `committed` and `auditLog`.

- `BeginFlush`, `EndFlush`: the listeners before and after the database work.
  `EndFlush` adds the rows of creations to a session that is already flushed,
  which is why `Commit` needs `Clean`: SQLAlchemy's commit repeats the flush
  until nothing is left, `flush()` does it once.
- `Query` is the autoflush of any SELECT or DELETE statement of the handler.
- `SaveObject`, `SaveInline`, `PermOps`, `BulkDelete`, `BulkFlush`, `ImportRow`,
  `ImportFlush`, `ImportLog`: the writing views. An op `"unaudited"` is a change
  the listeners ignore (unregistered model, empty diff).
- `NotifyRecipient`: the commits of the notification service.
- `AfterFailure` says who handles a failed call: the import's rollback, a
  handler that swallows the exception and goes on with a session that accepts
  nothing more, or the middleware. `HandlerRaises` and `HookRefuses` are
  exceptions of hooks; the latter are responses, so that whatever the API views
  have written before is committed.
- `Respond` precedes the last commit, as in the code.

Abstracted: notification and log rows of the service (not registered, hence
invisible to the listeners), column values, the text of rows.

### TokenLifecycle (`MCTokenLifecycle`, `ApiProofs`)

One account. `stage[r]` goes from *read* (the decision) over *stamped* (tokens
minted or the change stamped, the UPDATE not yet granted) and *flushed* (locks
held, answer sent) to *done*. Reads see committed rows only, an UPDATE of a row
waits for the transaction that holds it and then re-evaluates its condition:
READ COMMITTED, the weakest level of the databases the package supports. On
SQLite writers wait longer, which removes behaviours and adds none. Each request
mints under its own name, so `tokenRow[r]` is its refresh token; `ancestry[r]` is the
chain of exchanges that led to it. `changer` and `overlap` are history.

### TwoFactor (`MCTwoFactor`, `SignInProofs`)

One row, loaded, decided on and flushed; `ChangedColumns` models the unit of
work's UPDATE, which writes only the columns that changed. Verification appears
only with a right code: with a wrong one the handler leaves without writing.

### SignIn and LoginGuard (`MCSignIn`, `SignInProofs`)

*SignIn* is one browser: the session cookie and the CSRF cookie with their
ages, and for each tab the page, form or redirect it has. `Visit`, `Follow` and
the forms are requests, each one step, because the server stores nothing of a
session; only a login is two steps, since its verdict can be overtaken. An
answer may arrive late and set a cookie after others did. The password, the
second factor and the active flag also change elsewhere.

*LoginGuard* has one key of each limiter. A login is `LoginCheck`, then
`LoginSucceeds` or `LoginFails` after an await; a refresh checks and records
with nothing between. Time is in ticks, several to the second; an attempt is its
time and its request, so that two of one time stay two.

### RealtimeHub (`MCRealtimeHub`, `NotificationsProofs`)

One user (users share nothing). `publish` is `PublishStart`, then `Sent` or
`SendFails` for one socket after the other in any order, then `PublishSse`. A
peer may stall or break at any time. `prune_stale` is `Prune`, or `PruneRaises`
when a queue is full.

### Notifications (`MCNotifications`, `NotificationsProofs`) and NotificationLifecycle

A call of `notify` works through its recipients, and for each through the
channels and their fallbacks: `at` names the await it is at, `tx` what its
session has flushed and not committed, the caller's change among it. Callers are an
endpoint, a view after its change, a bulk deletion before its change, and code
with a session of its own (`kind`). Providers succeed, fail or raise; flushes
and commits fail; recipients change preferences and mark as read meanwhile.

*NotificationLifecycle* is what the service promises of one message, without
sessions, calls and failures: pushed once, then pending, then sent and never back,
each outside channel used once at most, read only when visible.
`ImplementsLifecycle` is the refinement: messages are pairs of a call and a
user, `status` is the committed `rows`.

### AiChat (`MCAiChat`, `ApiProofs`)

Turns that share one conversation: `mode` says whether a request chats, streams,
runs a tool directly or deletes, `at` where its handler continues. `tx` is what
is flushed to the request's transaction (the tools' writes, the usage row, the
conversation row), `own` the row flushed to the second session of a stream,
`seen` the row the turn has read; `conv`, `messages`, `usageRows` and `records`
are committed. `writer` holds the write lock: of the whole database if
`oneWriter` (SQLite), otherwise of the conversation row.

- `ChatLoads`, `StreamLoads` read the row; `RunReturns`, `RunRejected`,
  `RunRefused`, `RunCrashes` are one pass of `_run_with_tool_retries`, `Repair`
  is `_resolve_literal_calls`. What tools write stays in the request's session.
- `WriteUsage`, `SaveTurn`, `Close`: a chat stores everything in its request's
  transaction, which the middleware commits.
- `PreCommit`, `PersistLoad`, `PersistTouch`, `PersistCommit`: a stream commits
  the request's session first and then stores the turn through a second one.
  `StreamFallsBack` is the fallback to chat, `Disconnect` a client that leaves.
- The other actions are failures: where the code rolls back, goes on with a
  session that accepts nothing more, or only logs.

`log` and `missed` are history: the turns stored since the conversation exists,
and what was committed to it between a turn's read and its commit. A model run
is one step, its answer a kind (good, calls as text, raw rejection, masked).

### AccessControl (`MCAccessControl`, `AccessControlProofs`)

The database is a set of rows; a request reads committed rows into `seen`,
stages `ins` and `del` and applies them when it commits. A statement waits for
a conflicting open transaction and then meets the index, the foreign key or the
row count it fails on. Creating, renaming, saving and deleting roles, saving a
user, and the permission check with its three reads are the requests.

### Records (`MCRecords`, `RecordsProofs`)

Rows with a unique column, a plain column and a file, and children that refer
to them. `kind` is the endpoint: the create and edit forms with an inline
formset, PUT, the edit of one field in the list, deletion, the bulk action and
the import. `pend` is what the session emits at its next flush, `tx` and `kx`
what the open transaction wrote; storage changes at once. A form posts every
column as the page showed it (`opened`), JSON posts some.

### Changelist (`MCChangelist`, `RequestProofs`)

Readers walk a list page by page, a browser by the links of the page, an API
client by its own parameters. A request is one step for each of its queries, so
rows change between the count and the items. Writers insert, delete, edit and
sort. `Selected`, `Offset`, `NextCursor` and the rest are the pure parts.
The properties of walks are about those whose requests ask for one list, from
its beginning (`OneList`): the links of a browser drop filters and ordering.

### Setup and AuthTables (`MCSetup`, `SetupProofs`)

*Setup* has worker processes, each with an application and registry of its own,
on one database. `Import` starts one; each call of `setup` is `Begin`, then `Check`
and `Emit` for the tables and columns, `Reads`, `Flush` and `SeedCommit` for the
roles, and `Wire` for listeners, middleware, routers and the sidebar. A process
may crash at any step and start again, call `setup` again, or register late; an
administrator edits roles in between.

*AuthTables* is the metadata one process shares among its Admin objects:
`materialize`, the adaptation to a user model of the project's, its reset, and
the tables then created.

### Backends, Filters, Migrations (`MCBackends`, `BackendsProofs`)

*Backends* gives the same calls to the SQLAlchemy and the memory adapters side
by side: `db` and `store` are the two worlds, `blame` is the history of what
may make them differ on a row. `Queries` compares the answers to queries.

*Filters* has one field of one row and the parameters a user gives it; `Lets`
is the code's condition, `Asks` what the parameter says.

*Migrations* has `fak migrate`, which recreates tables while the application
writes, and the Alembic commands, over several releases of the kit.

## 4. Runs

| Run | Question | Bounds |
|---|---|---|
| RequestAudit_safety | is every committed change audited, once and truthfully, and does every request end? | 2 requests, 2 addresses, 2 changes in all, 1 recipient each |
| TokenLifecycle_safety | who can act on an old password or a used token? | 3 requests, 5 clock readings, 2 ticks per second |
| TwoFactor_safety | which codes can come back, and does the switch tell the truth? | 4 requests, 1 code per batch |
| SignIn_safety | are forms, sessions and redirects as a user expects; can the limits be exceeded? | 2 tabs, lifetimes of 1 tick, 3 posts; beside it 4 limiter requests, limit 2, window 2 s, 2 ticks per second, 3 s |
| RealtimeHub_safety | who misses messages, who is pruned? | 2 sockets, 1 stream, 2 messages, queue of 1, idle limit 1, 3 ticks |
| AiChat_safety | is a turn stored, counted and billed as one? | 2 turns, 1 retry |
| Notifications_safety | what becomes of a message when channels fail? | 1 call, 2 users, 2 fallbacks |
| AccessControl_safety | what do overlapping editors and checks lose or see? | 2 requests, 1 user, 2 roles, 2 names, 1 permission |
| Records_safety | do files, answers and columns survive overlap and failure? | 2 requests, 3 keys, 2 notes, 4 ids, sheets of up to 2 lines |
| Changelist_safety | what does a walk through a moving list miss or repeat? | 1 reader, 2 writers, 4 ids, 1 row per page, cursors above 2 rows, 4 pages |
| Setup_safety | is whoever serves ready, after any start? | 2 workers, 4 installations, 2 calls, 1 edit, 1 crash; beside it 2 Admins, 4 schemas |
| Backends_safety | do the backends agree, do filters and migrations do what they say? | 2 sessions, 2 values and NULL, 3 rows, 4 requests; every field type with up to 2 parameters; 3 releases, 2 commands, 2 rows |

What they show, property by property. Where a property has the form "A only
after B", B does occur in the run: removing it from the property refutes it.

- *RequestAudit.* The audit log is complete through mid-request commits,
  partial imports and failures (`CommittedIsAudited`, `AuditedOnce`); rows of
  updates and deletions never survive a rollback (in `IInv`); a wrong name
  needs an overlapping request (`MisattributionNeedsOverlap`). Every request
  ends with its session closed (`EveryRequestEnds`): each of its steps lowers a
  rank, and until the last one a step is possible.
- *TokenLifecycle.* A refresh token is consumed twice (`TokenInv`), or an old password's
  authority outlives the change (`PasswordChangeBites`), only through requests
  in flight together; revocation and renewal are one commit (`RotationIsAtomic`).
- *TwoFactor.* The same for backup codes (`IInv`), and a switch that is not as
  the last answer said needs an overlap (`SwitchTellsTheTruth`).
- *SignIn.* A form whose token is young is accepted unless a slow answer
  replaced the cookie by an older one (`FormsKeepTheirHour`, in `TabsHold`); an old password opens a page only by
  a login already under way, or after a change on the command line
  (`OldPasswordNeedsLateLogin`); redirects end (`RedirectsEnd`), those
  of a session older than a password change when it expires, and only such a
  session is sent round (`LoopsNeedPasswordChange`, in `TabsHold`). *LoginGuard*
  (`LimiterHolds`): refreshes never exceed their limit, logins only by overlap,
  and Retry-After is right.
- *RealtimeHub.* A broken socket costs nobody else a message, and a stream
  loses oldest payloads only (`PublicationsArrive`); only pruning makes the hub
  forget a live connection, and the activity entry goes astray only once both
  kinds have shared it (`ConnectionsAreTracked`); no socket that heard something
  recently is closed (`PruneSparesRecentSockets`).
- *AiChat.* No turn waits for its own lock (`SessionsHold`); a deleted
  conversation comes back only by a turn in flight (`DeletionNeedsQuiet`); what
  is forgotten was lost to a stream or an overlapping turn, counters and bills
  add up (`TurnsAreWhole`).
- *Notifications.* Every fallback is tried and opt-outs hold
  (`ChannelsAsPromised`); what was pushed is stored and true unless the call
  was cut short (`PushedIsTrue`); `ImplementsLifecycle` as above.
- *AccessControl.* Errors and lost roles need an overlap, or a rename to a
  taken name (`EditorsClashOnlyByOverlap`); a role has its last editor's
  selection and at most that of editors he overlapped with
  (`PermissionsAreTheLastSelection`); a check answers something that was true,
  unless two commits fell between its reads (`AnswersAreExplained`).
- *Records.* A missing file needs a failure (`FilesFollowRows`); refusals leave
  nothing, counts and notices are true (`AnswersAreTrue`); a column nobody
  edited goes back only from a form that was stale (`RevertsNeedStaleForms`).
- *Changelist.* A walk by cursors shows each row that stays once
  (`CursorPagesHold`); a walk by numbers misses or repeats only for a stated
  reason (`PageWalksAreExplained`); a sort leaves the positions it was given
  (`SortStands`); the sort of the run names an item twice.
- *Setup.* Seeds come whole, and a start fails in the database only when it
  meets another worker's (`StartsComeWhole`); who serves has its tables, its parts once, and pages that
  match its registry (`ServingMeansReady`). *AuthTables*
  (`SharedMetadataHolds`): types, joins and the reset are as they should be but
  for the cases of section 7.
- *Backends.* The backends agree on rows without one of four kinds of history
  (`BackendsAgree`), a call strays to another row only if both were given one id
  (`StraysNeedReissue`), queries agree but for order and NULL (`MemoryQueriesAgree`). *Filters* (`FiltersAreFaithful`) and
  *Migrations* (`MigrationsAreExplained`): every deviation has a listed reason.

**Why the bounds are enough.** All properties are about pairs of actors (a
change and the request that disturbs it), or about one actor and the history of
its own steps. Two requests give every interleaving of a pair; TokenLifecycle
and TwoFactor have a third or fourth request because the repaired state of a
pair can be disturbed again. Two changes in all suffice for a creation that is
followed by something else in the same session; the theorems of section 6 hold
for every bound. Two addresses make sessions open together as well as an
address that is reused. In LoginGuard the clock runs over more than one window
and four requests fill a limit of two twice. One row per page makes every page
border a border between any two rows, and a threshold of two lets a list of
three shrink and grow across it. Records and Changelist start from two and
three rows and have ids left for insertions. The four installations of Setup cover both
ways of giving the application, every way of making tables, and each flag both
on and off. In Filters the float limit is scaled down to 4 and a day to two instants,
so that both sides of each edge occur.

**Type invariants** are part of one property per module (`IInv`, `TokenInv`, `LimiterHolds`, `TabsHold`,
`SessionsHold`, ...). **Deadlock** is not checked, because every model stops when
its requests are served or its bound is reached.

## 5. Fairness and liveness

- `SignIn!Fairness`: a browser follows a redirect, a login under way is
  answered, and cookies age. Nothing is assumed of the user, nor of changes
  made elsewhere. Under it every tab that is sent on comes to rest
  at a page (`RedirectsEnd`, a leads-to property).
- `RequestAudit` states termination without fairness: `EveryRequestEnds` says
  that each step lowers a rank and that a step is enabled until the end. Which
  step is taken, success or failure, is free; that the event loop runs ready
  tasks and the driver answers or raises is all that is left to believe.
- The other modules state safety only. In particular nothing is assumed of peers:
  a stalled socket may stall for ever, because no code sets a timeout.

## 6. Proofs

Each proved module has an inductive invariant. From the assumptions named in
the modules (values are numbers, `None` is not a request, fallbacks are a
sequence of channels):

- *RequestAudit.* `CommittedIsAudited` is not inductive: a commit needs to know
  that everything flushed has its row (`TxInv`), which at the end of a flush
  needs to know that everything being written was captured or has its row
  (`FlushInv`), which needs that no other session has the same address
  (`AddressInv`), which needs that sessions are open exactly while requests run
  (`ControlInv`). `DirtyInv` says the same backwards for updates and deletions:
  a row in the session belongs to the flush in progress. Theorems: `Invariance`,
  `TypeCorrect`, `AuditComplete`, `DirtyRowsSound`.
  That a change gets one row needs to know what the listeners hold
  (`HInv`): a captured creation is being written or dead (`PendingInv`), and what
  a listener will still record has no row (`UnrecordedInv`). Theorems:
  `HistoryInvariance`, `RowsAreBuiltOnce` (an action property). That a row names
  its request or one in service with it needs that the shared context does so
  for every request that still has something to flush (`ContextInv`); the rows of
  rolled back changes are the exception, since a later flush at the same address
  builds them. Theorem: `Attribution`.
- *TokenLifecycle.* `RowInv` ties rows to finished requests and consumers to the
  token they read; `ConsumedInv` says that a consumed token is revoked and that
  whoever still holds it overlapped its consumer. Theorems: `TokenInvariance`,
  `RotationHolds`, `RotationAtomic` (an action property), `CheckExact` (for
  every number of ticks per second). `StampInv` says which live rows a password
  change under way has not seen, `ClockInv` who can still be stamped later than it,
  and `HeldInv` that whoever holds a working token after it overlapped it.
  Theorem: `PasswordChange`.
- *TwoFactor.* `FreshInv` (a request's codes exist only after its commit),
  `LoadedInv`, `OverlapInv`, and `StaleSpentInv` / `StaleBatchInv`: a stale list
  in somebody's hands implies an overlap on record. Theorems: `Invariance`,
  `CodesWhenEnabled`, `SpentCodes`, `CodesUsedTwice`, `OldCodes`.
  `StaleSwitchInv` says the same of the flag: who has loaded it before the last
  switch overlapped that switch. Theorem: `SwitchIsTold`.
- *SignIn.* `CookieInv` says that the cookie's token is as young as that of every
  form unless a slow login put an old one back; `OldInv` that a session signed in
  with a replaced password is either stale or the exception the property names;
  `WaitInv` that a login under way has its pending token. `HopsInv` bounds a chain
  of redirects by where it has come to and by what the server thinks of the session
  (`MostHops`): at most three, unless the login page knows the session and the
  other pages do not (`Looping`). Every action is first reduced to what it does to
  its own tab and to the others (`OthersIs`). Theorems: `TypesHold`, `HourKept`,
  `LoopsExplained`, `TabsAreRight`, `OldPasswordOpensNothing` (an action property), for any number
  of tabs and any lifetimes.
- *LoginGuard.* `CheckedInv` says that a login between its check and its verdict
  has fewer failures than the limit before it that were not beside it
  (`Before`); with `TogetherInv` the bound on failures follows when it is
  recorded. `ServedInv` says that whatever was served and is no longer counted has
  expired, so that a window holds no more than was counted at its last request.
  Retry-After is arithmetic on the oldest attempt, which exists because a finite
  non-empty set of numbers has a least one. Theorem: `LimiterIsRight`.
- *RealtimeHub.* `ReachInv` says of a publication in progress that whoever was
  there when it began has heard, is still to be sent to, or is lost; `QueueInv`
  that a queue is the end of what was given; `KindsInv` who is in the hub of
  either kind; `TimeInv` that the activity entry is no older than the last thing
  any tracked socket heard. Theorems: `EveryoneIsReached`, `HubTracks`,
  `PruneSpares` (an action property), for any number of sockets, streams and
  messages and any queue size.
- *Notifications.* The invariant is one statement per call: who is left (`Left`),
  what the row of the recipient in turn can be at each phase (`Row`), how far
  the channels and fallbacks are (`Progress`), what was given out (`Given`),
  what the recipient wants (`Wanted`) and what was pushed (`Truth`). A step of
  one call leaves the statements of the others alone, because messages carry
  their call. Theorems: `ChannelsKeepTheirPromise`, `WhatIsPushedIsTrue`,
  `MessagesLiveAsPromised` (the refinement: every step is a step of
  *NotificationLifecycle* or stutters).
- *AccessControl.* Rows are opaque: the proofs only use that two rows are the same
  when they say the same. Every action is reduced to what it does to its own
  request and to one of three kinds of step, a start, a step of a transaction, a
  commit. `OverlapInv` has requests in service together on record; `RoleInv` says
  that whoever adds to a role, or removes it, has it locked, so that permissions
  have their role; `AloneInv` that a request nobody overlapped sees the rows as
  they are; `GivenInv` where a deletion's missed assignments come from;
  `RivalInv` who has selected what a role now has; `CheckInv` what the check has
  read when nothing, one thing or more was committed since. Theorems:
  `AccessInvariance`, `EditorsClash`, `LastSelection`, `AnswersExplained`.
- *AiChat.* `PhaseInv` says which phases a request goes through, `BillInv` where
  its usage row is at each of them, `LockInv` that whoever is about to commit to
  the conversation holds the lock (so there is one at most). `SightInv` is the
  heart: what a turn in flight has read is the conversation as it was before
  what the history variable says it missed; `DraftInv` says the same of the row
  it is about to commit, with the turn added, and `StoreInv` of the committed
  row. A deletion resets all of it, which is why turns of a deleted conversation
  are allowed in a history only if a stored turn was in flight then (`Haunted`).
  Theorems: `Invariance`, `SessionsStandApart`, `DeletionLosesToOverlapOnly`,
  `TurnsStayWhole`, for any number of turns and retries.
- *Records.* None of the three properties is inductive. `Local` says, per request
  and stage, what it may hold in its session and its transaction (`Staged`,
  `Asked`, `Holds`, `Emits`, `Replaces`, `BulkForm`, `ImportForm`); only its own
  steps change that. The other parts relate requests to the committed rows:
  primary keys are given out once (`OwnInv`), a row exists from its creator's
  commit (`BornInv`), one open transaction writes it at a time (`LockInv`), and
  what that has written differs from the committed row by its own columns only
  (`TxInv`, which is what makes a reverted column the form's doing). A file has
  one row (`HomeInv`) and an upload stays until its row is committed
  (`UploadInv`), so that a dropped file is missing only while, or because, the
  form that dropped it has not replaced it (`DropInv`). `NoticeInv` has who
  announced a deletion still holding it, `DueInv` that a formset is saved when
  there is one. The proofs reduce all actions to ten kinds of step (`StepIs`), of
  which only commits touch rows (`CommitsIs`). The constants are any sets of
  requests, keys and notes, any sheets and any selections of ids, with at least
  the two ids of the start. Theorems: `RecordsInvariance`, `FilesFollow`,
  `AnswersTrue`, `StaleForms` (an action property).

- *Changelist.* What a walk promises depends on how many rows of the list come
  before a row (`Preceding`), and on the page or the cursor its next request will
  ask for (`NextPage`, `NextAfter`). `ByCursorInv`: what is up to the cursor has been
  shown once, the rest not yet. `AheadInv`: a row that has not been shown, and that no
  departure or late arrival preceded, has at least as many rows before it as the next
  page skips. `PagesInv` and `OnceInv`: while no row leaves, the next page exists, and
  a row that no arrival preceded was shown on an earlier one. A request counts first
  and reads afterwards, so each speaks of both moments. `GapInv` has the page back,
  `JobInv` what a sort has read. An inserted, deleted or edited row changes what
  precedes another only through what the histories record (`CommitAndOrder`); the page
  a list in key order gives is found from that number (`PageByNumber`,
  `PlaceInKeyOrder`). `ChangelistAssumption`: a page has at least one row, and the
  queries, sorts and rows of the start are of their types. Theorems:
  `CursorPagesComplete`, `WalksExplained`, `SortsStand` (an action property), for any
  page size, threshold, table, readers and writers.

- *Setup.* A process is judged by the configuration alone (`ProcInv`: what it has
  added so far, per phase: `StackInv`, `MountInv`, `StageInv`, `PagesInv`), against the
  database (`DbInv`: the tables each finished step leaves, `MigratedInv`; what a
  plan may still meet, `PlanInv`; that a start nobody met finds its plan as it made
  it, `LoneInv`), and beside the others (`MetInv`: two processes inside a start know of
  each other). `DataInv` has the roles: the seeds all or none, an administrator's
  kept. What the steps write to a process is stated once per step (`WiredFields`,
  `EmittedFields` and the like), so that the invariant's proofs compare fields
  and not records. Theorems: `StartsAreWhole`, `ServingIsReady`, for any number of
  processes, calls and crashes and any tables, models, seeds and installations.
- *AuthTables.* `AdaptedInv` says that whoever turned the metadata last turned all
  of it, and that the snapshot knows the way back; `AloneInv` that what an Admin
  emits is its own as long as nobody else has turned it. Theorem:
  `MetadataIsShared`, for any schemas, columns, key types and user tables.
- *Backends.* A record and an object have the id their row was given (`RecordsKept`,
  `ObjectsKept`), and of two rows with one id both know it (`IdsGiven`): hence a call
  reaches the row it means or one with the same id. That the next id is new is
  about the size of a set (`NextIdIsNew`). `RowsAgree` says of a row nothing is
  blamed for that one session at most works on it, and what each side has of it by
  what that session has done (`Work`). Theorems: `StraysNeedAnIdTwice`,
  `BackendsAgreeElsewhere`, for any sessions, values and number of rows.
- *Migrations.* `RowsFit` says of every table, committed, to be rolled back to, or
  copied by the command, that its rows have different ids and lack only columns the table was
  once without. `RowsLive` says where a row nothing threatens is while its table is
  dropped and made anew (`Emptied`: in the copy). `CopyFits` has what the command
  knows of its table at each phase, `DoneIsCurrent` the tables behind it,
  `ProjectsStay` and `StampedAreThere` what revisions have done. From
  `MigrationsAssumption`: any two releases of a table have a column in
  common, as its primary key is, so that a recreated table takes its rows back.
  Theorem: `MigrationsLoseNothingElse`, for any releases, tables and commands.

The modules joined in one proof module (*RequestAudit*,
*Changelist*; *TokenLifecycle*, *AiChat*; *TwoFactor*, *SignIn*, *LoginGuard*;
*Notifications*, *RealtimeHub*; *Setup*, *AuthTables*; *Backends*, *Migrations*) share
neither state nor definitions; each theorem is about the specification of one.

Only model-checked: `RedirectsEnd` and `EveryRequestEnds` (fairness, ENABLED);
`MemoryQueriesAgree` and `FiltersAreFaithful`, since what sorting, counting and parsing a
list of any length computes is induction over data.

## 7. Observations

What the models made visible. None is refuted by a run: the properties name each
as an exception, or the model has it as behaviour.

Requests and audit
- `audit/context.py:12`: the default of the ContextVar is one dictionary for all
  tasks, so a row can name somebody else, while `docs/guide/features.md:166` says
  that it "records who performed each action".
- `audit/listener.py:139`: what a failed flush captured stays for the next session
  at that address, whose log then has the CREATE of an object that never was.
- `notifications/store.py:252` commits the caller's session, against "one session per
  request, one commit or rollback" (`db.py:51`).

Sign-in
- `views/totp.py:226` tells the user that old codes are invalid; a verification
  in flight can put them back.
- After a password change elsewhere `login_get` redirects to the admin, whose
  401 redirects back, until the session expires, contrary to the comment at
  `auth/views.py:47`.
- `CSRFMiddleware` sets its cookie after the route has deleted it; a slow
  answer can put an older token back. The template's `next` is never passed.
- `verify-2fa`, the relation search, `login_get` and the AI service resolve the user without
  looking at `password_changed_at`; `fak changepassword` sets neither it
  nor revokes refresh tokens. The permission claims of access tokens overwrite
  one another per table, and nobody reads them.

Notifications and the hub
- `notifications/realtime.py:115` closes streams that have just heard something,
  since only sends on sockets count as activity; one slow socket holds up a
  publication to all (`realtime.py:9`).

AI
- A rejection's raw text can reach a streaming client (`ai/backends/repairer.py:44`).

Lists and filters
- Links to other pages drop filter, search and ordering; an unknown `?ordering=`
  drops the admin's; a sort writes positions from 0 on every page; an export with
  `q` raises; a filter value that does not parse lets every row pass.
- Numbers beyond 2^53 are rounded; `to=<day>` ends at its midnight; a foreign key
  without introspection reads the column named like the other table's; `%` and
  `_` are patterns; lookups a type does not have add no condition; a relation
  declares only `exact`; the sidebar offers 100 choices.

Setup and backends
- `setup(app)` in a lifespan leaves out the CSRF middleware (`admin/core.py:734`);
  routers are not rebuilt after a late `register` (`admin/core.py:1361`).
- Two seed roles that name one table share a permission row, and overwriting
  keeps its old flags; SKIP_CREATE_TABLES returns before the adaptation.
- Log columns are retyped before the snapshot, so that a reset keeps the type; a
  second Admin with the same `auth_model` returns early and creates the shadow
  table; `UserPermission`, `RefreshToken` and `UserTOTP` keep a string; a user table on
  `AdminBase` is left out of `create_all`; a relation whose column has an
  unconventional name is dropped without a word.
- In memory, edits not added again are lost and rollbacks keep writes; a sort by
  `"-name"` does nothing; `!=` and `IN` treat NULL as a value. SQLite without
  AUTOINCREMENT reissues ids as well.

Migrations
- A DROP commits at once in the SQLite driver: a failing insert loses the rows of
  its table, and a failure on a second table those of the first.
- Autogenerate knows the kit's metadata only, so a revision drops the project's
  tables (`cli/migrate.py:302`); `--auto-migrate` with `--baseline` stamps a
  revision nobody ran (`cli/migrate.py:476`); `--force` removes revisions the database is at;
  `--app` resolves `mod:app` as a path; indexes appear only on recreation.

## 8. Not modelled

- The Redis limiter (an external server counts); the computation of HMACs,
  hashes and signatures (right or wrong is all the models need); login attempts
  and delivery logs, which nobody reads back.
- Project code: hooks and bulk actions appear as exceptions only; providers of
  channels and the language model are external and free.
- Of the SQLAlchemy backend the introspection helpers, of the memory backend
  seeding and introspection: pure functions of their arguments.
- Of setup the templates, static files, the secret-key validation and the
  preflight for missing tables; of migrations Alembic's column changes and
  scaffolding; of exports their formats.
- Widgets and the conversion of single values; pages, navigation and the
  wording of anything; the audit page, event bus and buffering logger; the
  AI's configuration, prompts and attachments.
- Code that nothing calls: the view factory (`views/factory.py`), the inline
  saver of `class_views.py` and the many-to-many helpers of `BaseView`.
