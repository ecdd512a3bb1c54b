--------------------------- MODULE Notifications ---------------------------
(***************************************************************************)
(* Sending notifications (notifications/service.py, store.py,              *)
(* dispatcher.py, and the endpoints that send, read and set preferences).  *)
(*                                                                         *)
(* A call notifies its recipients one after the other on one session: that *)
(* of the request, which also holds the change the notification is about,  *)
(* or one of its own.  Writing the delivery log commits that session.      *)
(***************************************************************************)
EXTENDS Naturals, Sequences, SequencesExt

CONSTANTS Calls,      \* calls of notify_many, or of notify
          Users,
          Fallbacks   \* config.fallback_channels

External == {"email", "sms"}
ASSUME FallbacksAssumption == Fallbacks \in Seq(External)

VARIABLES
  kind,     \* who calls: an endpoint, a view after or before its change, nobody
  list,     \* the channels asked for
  supers,   \* active superusers
  at, to,   \* where the call continues, the recipients left
  user,     \* the recipient in turn
  pos,      \* the channel in turn
  spare,    \* the fallback in turn, 0 for none
  tried,    \* attempted
  reached,  \* some channel succeeded
  ok,       \* the channel in turn succeeded
  health,   \* the session: clean, or broken by a failed flush
  tx,       \* flushed and not committed: the change, the status of the row
  changes,  \* calls whose change is committed
  rows,     \* the committed status of each call's notification of each user
  isRead, pref,
  pushed, out, \* what the hub and the providers were given
  cut,      \* history: calls that an exception, a failed commit or a crash cut short
  late      \* history: the recipient opted out after the preference was read

inputs == <<kind, list, supers>>
control == <<at, to, user, pos, spare, tried, reached, ok>>
store == <<changes, rows, isRead, pref>>
vars == <<inputs, control, health, tx, store, pushed, out, cut, late>>

Kinds == {"send", "after", "before", "own"}
Lists == {<<"in_app">>, <<"unknown">>, <<"email", "in_app">>, <<"in_app", "email", "sms">>}
Channels == External \cup {"in_app", "unknown"}
Phases == {"start", "next", "persist", "push", "check", "provider", "log", "settle", "finish",
           "commit", "done"}
Messages == Calls \X Users
Clean == [change |-> FALSE, row |-> "none"]
InApp(c) == "in_app" \in ToSet(list[c])
Message(c) == <<c, user[c]>>
Channel(c) == IF spare[c] = 0 THEN list[c][pos[c]] ELSE Fallbacks[spare[c]]

TypeOK ==
  /\ kind \in [Calls -> Kinds] /\ list \in [Calls -> Lists] /\ supers \subseteq Users
  /\ at \in [Calls -> Phases] /\ to \in [Calls -> SUBSET Users] /\ user \in [Calls -> Users]
  /\ pos \in [Calls -> 1..4] /\ spare \in [Calls -> 0..Len(Fallbacks)]
  /\ tried \in [Calls -> SUBSET Channels]
  /\ reached \in [Calls -> BOOLEAN] /\ ok \in [Calls -> BOOLEAN]
  /\ health \in [Calls -> {"clean", "broken"}]
  /\ tx \in [Calls -> [change : BOOLEAN, row : {"none", "pending", "sent"}]]
  /\ changes \subseteq Calls /\ isRead \subseteq Messages
  /\ rows \in [Messages -> {"none", "pending", "sent"}]
  /\ pref \in [Users -> [External -> {"none", "on", "off"}]]
  /\ pushed \subseteq Messages /\ out \in [Messages -> [External -> 0..1]]
  /\ cut \subseteq Calls /\ late \subseteq Calls

Init ==
  /\ kind \in [Calls -> Kinds] /\ list \in [Calls -> Lists] /\ supers \in SUBSET Users
  /\ at = [c \in Calls |-> "start"] /\ to = [c \in Calls |-> {}] /\ user \in [Calls -> Users]
  /\ pos = [c \in Calls |-> 1] /\ spare = [c \in Calls |-> 0]
  /\ tried = [c \in Calls |-> {}]
  /\ reached = [c \in Calls |-> FALSE] /\ ok = [c \in Calls |-> FALSE]
  /\ health = [c \in Calls |-> "clean"]
  /\ tx = [c \in Calls |-> [Clean EXCEPT !.change = kind[c] = "after"]]
  /\ changes = {} /\ rows = [m \in Messages |-> "none"] /\ isRead = {}
  /\ pref = [u \in Users |-> [ch \in External |-> "none"]]
  /\ pushed = {} /\ out = [m \in Messages |-> [ch \in External |-> 0]]
  /\ cut = {} /\ late = {}

Goto(c, phase) == at' = [at EXCEPT ![c] = phase]

\* The session's transaction becomes visible.
Land(c) ==
  /\ changes' = IF tx[c].change THEN changes \cup {c} ELSE changes
  /\ rows' = IF tx[c].row = "none" THEN rows ELSE [rows EXCEPT ![Message(c)] = tx[c].row]
  /\ tx' = [tx EXCEPT ![c] = Clean]
\* It is lost, by a failed flush, which leaves the session unusable, or a failed COMMIT.
Lose(c) ==
  /\ tx' = [tx EXCEPT ![c] = Clean]
  /\ health' \in {health, [health EXCEPT ![c] = "broken"]}
  /\ cut' = cut \cup {c}
  /\ UNCHANGED <<changes, rows>>

-----------------------------------------------------------------------------
(* Whom to notify *)

\* The active superusers, and the others with an enabled preference, whatever the
\* channel.  The user in turn stands for the actor, who is left out.
Interested(actor) ==
  {u \in Users \ {actor} : u \in supers \/ \E ch \in External : pref[u][ch] = "on"}

\* A view dispatches its change; an endpoint and a direct caller name the user.
Start(c) ==
  /\ at[c] = "start" /\ Goto(c, "next")
  /\ to' = [to EXCEPT ![c] = IF kind[c] \in {"send", "own"} THEN {user[c]}
                             ELSE Interested(user[c])]
  /\ UNCHANGED <<inputs, user, pos, spare, tried, reached, ok, health, tx, store, pushed, out,
                 cut, late>>

\* The locals of notify, at its start and when nothing needs them any more.
Fresh(c) ==
  /\ tried' = [tried EXCEPT ![c] = {}] /\ reached' = [reached EXCEPT ![c] = FALSE]
  /\ pos' = [pos EXCEPT ![c] = 1] /\ spare' = [spare EXCEPT ![c] = 0]
  /\ ok' = [ok EXCEPT ![c] = FALSE]

NextRecipient(c) ==
  /\ at[c] = "next" /\ Fresh(c)
  /\ \/ \E u \in to[c] :
          /\ user' = [user EXCEPT ![c] = u] /\ to' = [to EXCEPT ![c] = @ \ {u}]
          /\ Goto(c, IF InApp(c) THEN "persist" ELSE "check")
     \/ to[c] = {} /\ Goto(c, "finish") /\ UNCHANGED <<user, to>>
  /\ UNCHANGED <<inputs, health, tx, store, pushed, out, cut, late>>

-----------------------------------------------------------------------------
(* notify: the row, the push, the channels, the status *)

Persist(c) ==
  /\ at[c] = "persist" /\ health[c] = "clean"
  /\ tx' = [tx EXCEPT ![c].row = "pending"]
  /\ Goto(c, "push")
  /\ UNCHANGED <<inputs, to, user, pos, spare, tried, reached, ok, health, store, pushed, out,
                 cut, late>>

\* _push_in_app: the row is flushed and not yet committed.
Push(c) ==
  /\ at[c] = "push" /\ Goto(c, "check")
  /\ pushed' = pushed \cup {Message(c)}
  /\ UNCHANGED <<inputs, to, user, pos, spare, tried, reached, ok, health, tx, store, out, cut,
                 late>>

\* Mutant: a fallback may be one of the channels asked for.
SparesAnyUntried(c, done) ==
  {i \in DOMAIN Fallbacks : i > spare[c] /\ Fallbacks[i] \notin done}
\* Mutant: a failed fallback ends the search.
SparesFirst(c, done) ==
  {i \in DOMAIN Fallbacks : spare[c] = 0 /\ Fallbacks[i] \notin done \cup ToSet(list[c])}
\* The fallbacks that are left to a failed channel.
Spares(c, done) ==
  {i \in DOMAIN Fallbacks : i > spare[c] /\ Fallbacks[i] \notin done \cup ToSet(list[c])}

\* The channel in turn has been attempted: on to a fallback, to the next channel, or
\* to the status.
Advance(c, success) ==
  LET done   == tried[c] \cup {Channel(c)}
      spares == Spares(c, done)
  IN /\ tried' = [tried EXCEPT ![c] = done]
     /\ reached' = [reached EXCEPT ![c] = @ \/ success]
     /\ \/ \E i \in spares :
             /\ ~success /\ \A j \in spares : i <= j
             /\ spare' = [spare EXCEPT ![c] = i]
             /\ UNCHANGED pos /\ Goto(c, "check")
        \/ /\ success \/ spares = {}
           /\ spare' = [spare EXCEPT ![c] = 0] /\ pos' = [pos EXCEPT ![c] = @ + 1]
           /\ Goto(c, IF pos[c] = Len(list[c]) THEN "settle" ELSE "check")

OptedOut(c) == Channel(c) \in External /\ pref[user[c]][Channel(c)] = "off"

\* An opted-out channel counts as failed and is not logged.
Check(c) ==
  /\ at[c] = "check"
  /\ Channel(c) = "in_app" \/ health[c] = "clean"
  /\ late' = late \ {c}
  /\ IF OptedOut(c) THEN Advance(c, FALSE) /\ UNCHANGED ok
     ELSE /\ Goto(c, IF Channel(c) \in External THEN "provider" ELSE "log")
          /\ ok' = [ok EXCEPT ![c] = Channel(c) # "unknown"]
          /\ UNCHANGED <<pos, spare, tried, reached>>
  /\ UNCHANGED <<inputs, to, user, health, tx, store, pushed, out, cut>>

\* What a mail server or a gateway does: it may have accepted the message although the
\* call fails, by a lost connection or a timeout.
Outcomes == {o \in [accepted : BOOLEAN, answered : BOOLEAN] : o.answered => o.accepted}

\* The provider's exception is caught.
\* Without an address, or a provider of the configured name, it is not asked.
Provider(c) ==
  /\ at[c] = "provider" /\ Goto(c, "log")
  /\ \E o \in Outcomes :
       /\ ok' = [ok EXCEPT ![c] = o.answered]
       /\ out' = IF o.accepted THEN [out EXCEPT ![Message(c)][Channel(c)] = @ + 1] ELSE out
  /\ UNCHANGED <<inputs, to, user, pos, spare, tried, reached, health, tx, store, pushed, cut,
                 late>>

\* create_log commits the caller's session, and with it the change.
Log(c) ==
  /\ at[c] = "log" /\ health[c] = "clean"
  /\ Land(c) /\ Advance(c, ok[c])
  /\ UNCHANGED <<inputs, to, user, ok, health, isRead, pref, pushed, out, cut, late>>

\* Its failure is logged and forgotten.
LogFails(c) ==
  /\ at[c] = "log"
  /\ Lose(c) /\ Advance(c, ok[c])
  /\ UNCHANGED <<inputs, to, user, ok, isRead, pref, pushed, out, late>>

FinalStatus(c) == IF reached[c] THEN "sent" ELSE "failed"

\* Mutant: the status is flushed and left to a later commit.
FlushStatus(c) ==
  tx' = [tx EXCEPT ![c].row = FinalStatus(c)] /\ UNCHANGED <<rows, changes>>
\* set_notification_status commits too; a row that a failed commit lost is not found.
CommitStatus(c) ==
  IF tx[c].row = "none" /\ rows[Message(c)] = "none" THEN UNCHANGED <<tx, rows, changes>>
  ELSE /\ rows' = [rows EXCEPT ![Message(c)] = FinalStatus(c)]
       /\ changes' = IF tx[c].change THEN changes \cup {c} ELSE changes
       /\ tx' = [tx EXCEPT ![c] = Clean]

Settle(c) ==
  /\ at[c] = "settle" /\ Goto(c, "next")
  /\ IF InApp(c) THEN health[c] = "clean" /\ CommitStatus(c)
                 ELSE UNCHANGED <<tx, rows, changes>>
  /\ UNCHANGED <<inputs, to, user, pos, spare, tried, reached, ok, health, isRead, pref, pushed,
                 out, cut, late>>

-----------------------------------------------------------------------------
(* The rest of the request *)

\* A session of the service's own is closed, which rolls back what is left in it; a view
\* that notifies first makes its change now.
Finish(c) ==
  /\ at[c] = "finish"
  /\ IF kind[c] = "own" THEN Goto(c, "done") /\ tx' = [tx EXCEPT ![c] = Clean]
     ELSE /\ Goto(c, "commit")
          /\ tx' = IF kind[c] = "before" /\ health[c] = "clean"
                   THEN [tx EXCEPT ![c] = [change |-> TRUE, row |-> @.row]] ELSE tx
  /\ UNCHANGED <<inputs, to, user, pos, spare, tried, reached, ok, health, store, pushed, out,
                 cut, late>>

\* SessionMiddleware.
Commit(c) ==
  /\ at[c] = "commit" /\ health[c] = "clean"
  /\ Land(c) /\ Goto(c, "done")
  /\ UNCHANGED <<inputs, to, user, pos, spare, tried, reached, ok, health, isRead, pref, pushed,
                 out, cut, late>>

\* An exception of the flush, of a statement on a broken session, of a hook, of a
\* commit, or the end of the process: nothing more is committed.
Raise(c) ==
  /\ at[c] # "done" /\ Goto(c, "done")
  /\ tx' = [tx EXCEPT ![c] = Clean] /\ cut' = cut \cup {c} /\ Fresh(c)
  /\ to' = [to EXCEPT ![c] = {}]
  /\ UNCHANGED <<inputs, user, health, store, pushed, out, late>>

-----------------------------------------------------------------------------
(* The recipient's requests *)

\* mark_read: the columns of the row that the service does not touch.
MarkRead(m) ==
  /\ rows[m] # "none" /\ m \notin isRead /\ isRead' = isRead \cup {m}
  /\ UNCHANGED <<inputs, control, health, tx, changes, rows, pref, pushed, out, cut, late>>

SetPreference(u, ch, choice) ==
  /\ pref[u][ch] # choice /\ pref' = [pref EXCEPT ![u][ch] = choice]
  /\ late' = late \cup {c \in Calls : at[c] = "provider" /\ user[c] = u /\ Channel(c) = ch}
  /\ UNCHANGED <<inputs, control, health, tx, changes, rows, isRead, pushed, out, cut>>

Step(c) ==
  \/ Start(c) \/ NextRecipient(c) \/ Persist(c) \/ Push(c) \/ Check(c) \/ Provider(c)
  \/ Log(c) \/ LogFails(c) \/ Settle(c) \/ Finish(c) \/ Commit(c) \/ Raise(c)

Next ==
  \/ \E c \in Calls : Step(c)
  \/ \E m \in Messages : MarkRead(m)
  \/ \E u \in Users, ch \in External, choice \in {"on", "off"} : SetPreference(u, ch, choice)

Spec == Init /\ [][Next]_vars

-----------------------------------------------------------------------------
(* Properties *)

\* Whatever the sessions do, each message goes through its life as promised: pushed
\* once, recorded, settled as "sent" (never "failed", for in_app counts as a success),
\* never back, and given to each channel once at most (service.py:235-290).
Lifecycle == INSTANCE NotificationLifecycle WITH Channels <- External, status <- rows
ImplementsLifecycle == Lifecycle!Spec

\* A message that reached nobody has been tried on every fallback (service.py:268): a
\* channel that fails never uses up a fallback that another one needs.
EveryFallbackTried ==
  \A c \in Calls : at[c] = "settle" /\ ~reached[c] =>
    ToSet(list[c]) \cup ToSet(Fallbacks) \subseteq tried[c]

\* What was pushed is true unless the call was cut short: the row is there and sent,
\* and the change it tells of is committed (service.py:238; class_views.py:1392, where
\* the push comes before the change).
PushedIsTrue ==
  \A c \in Calls : at[c] = "done" /\ c \notin cut =>
    \A u \in Users : <<c, u>> \in pushed =>
      rows[<<c, u>>] = "sent" /\ (kind[c] \in {"after", "before"} => c \in changes)

\* No provider is given a message for a channel that the recipient has switched off,
\* except when that happens while the call is between asking and sending
\* (service.py:456).
OptOutHolds ==
  \A c \in Calls : at[c] = "provider" =>
    pref[user[c]][Channel(c)] # "off" \/ c \in late

\* What the channels of a notification do: a failed channel tries its fallbacks
\* before the notification counts as failed, and a user who opted out of a
\* channel hears nothing there.
ChannelsAsPromised == TypeOK /\ EveryFallbackTried /\ OptOutHolds
=============================================================================
