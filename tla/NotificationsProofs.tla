------------------------ MODULE NotificationsProofs ------------------------
(***************************************************************************)
(* Theorems about Notifications: every message goes through its life as    *)
(* NotificationLifecycle has it, a failed channel tries every fallback, an *)
(* opt-out holds, and what was pushed is true.                             *)
(***************************************************************************)
EXTENDS Notifications, RealtimeHub, FiniteSetTheorems, SequenceTheorems, TLAPS

\* In the middle of a recipient, and of the channels.
Working == {"push", "check", "provider", "log", "settle"}
Trying == {"check", "provider", "log"}

Unused(m) == m \notin pushed /\ rows[m] = "none" /\ \A ch \in External : out[m][ch] = 0

\* The recipients left have heard and stored nothing of this call.
Left(c) ==
  /\ \A u \in Users : at[c] = "start" \/ u \in to[c] => Unused(<<c, u>>)
  /\ at[c] \in Working \cup {"persist"} => user[c] \notin to[c]
  /\ at[c] = "persist" => Unused(Message(c)) /\ InApp(c)

\* The row of the recipient in turn is flushed, then pushed, then committed,
\* with the log of the channel "in_app" at the latest.
Row(c) ==
  /\ at[c] = "push" => tx[c].row = "pending" /\ Message(c) \notin pushed
  /\ tx[c].row # "none" => /\ tx[c].row = "pending" /\ at[c] \in Working /\ InApp(c)
                           /\ rows[Message(c)] = "none"
  /\ at[c] \in Working => rows[Message(c)] # "sent"
  /\ at[c] \in Trying \cup {"settle"} => (Message(c) \in pushed <=> InApp(c))
  /\ at[c] \in Trying \cup {"settle"} /\ "in_app" \in tried[c] => reached[c] /\ tx[c].row = "none"
  /\ at[c] = "log" /\ Channel(c) = "in_app" => ok[c]
  /\ at[c] = "provider" => Channel(c) \in External

\* The channels asked for that are dealt with.
Done(c) == {list[c][i] : i \in 1 .. (IF spare[c] = 0 THEN pos[c] - 1 ELSE pos[c])}

\* The channels tried are those dealt with and fallbacks; none of the
\* fallbacks before the one in turn is left, and none at all once a channel
\* is given up.
Progress(c) ==
  /\ at[c] \in {"persist", "push"} => tried[c] = {} /\ pos[c] = 1 /\ spare[c] = 0
  /\ at[c] \in Trying =>
       /\ pos[c] <= Len(list[c])
       /\ Channel(c) \notin tried[c]
       /\ tried[c] \cap ToSet(list[c]) = Done(c)
       /\ spare[c] > 0 => Fallbacks[spare[c]] \notin ToSet(list[c])
       /\ ~reached[c] => \A i \in DOMAIN Fallbacks :
              pos[c] > 1 \/ i < spare[c] => Fallbacks[i] \in tried[c] \cup ToSet(list[c])
  /\ at[c] = "settle" => /\ ToSet(list[c]) \subseteq tried[c]
                         /\ ~reached[c] => ToSet(Fallbacks) \subseteq tried[c]

\* A channel that was given the message is among those tried.
Given(c) ==
  at[c] \in {"push", "check", "provider", "log"} =>
    \A ch \in External : out[Message(c)][ch] # 0 =>
      ch \in tried[c] \/ (at[c] = "log" /\ ch = Channel(c))

\* The conjunct of OptOutHolds.
Wanted(c) == at[c] = "provider" => pref[user[c]][Channel(c)] # "off" \/ c \in late

\* Of a call that is not cut short nothing is lost.
Truth(c) ==
  c \notin cut =>
    /\ health[c] = "clean"
    /\ \A u \in Users : <<c, u>> \in pushed =>
         (at[c] \in Working /\ u = user[c]) \/ rows[<<c, u>>] = "sent"
    /\ at[c] \in Trying \cup {"settle"} /\ InApp(c) =>
         tx[c].row = "pending" \/ rows[Message(c)] = "pending"
    /\ kind[c] = "after" => tx[c].change \/ c \in changes
    /\ at[c] = "commit" /\ kind[c] = "before" => tx[c].change
    /\ at[c] = "done" /\ kind[c] \in {"after", "before"} => c \in changes

CallInv(c) == Left(c) /\ Row(c) /\ Progress(c) /\ Given(c) /\ Wanted(c) /\ Truth(c)
IInv == TypeOK /\ \A c \in Calls : CallInv(c)

-----------------------------------------------------------------------------
(* Lists and fallbacks                                                     *)

\* The lists of channels are short and name a channel once.
LEMMA ShortLists ==
    ASSUME NEW l \in Lists
    PROVE  /\ l \in Seq(Channels) /\ Len(l) \in 1 .. 3 /\ DOMAIN l = 1 .. Len(l)
           /\ ToSet(l) = {l[i] : i \in 1 .. Len(l)}
           /\ \A i, j \in 1 .. Len(l) : l[i] = l[j] => i = j
<1>1. l \in Seq(Channels) /\ Len(l) \in 1 .. 3
  <2>1. CASE l = <<"in_app">>
    BY <2>1 DEF Channels, External
  <2>2. CASE l = <<"unknown">>
    BY <2>2 DEF Channels, External
  <2>3. CASE l = <<"email", "in_app">>
    BY <2>3 DEF Channels, External
  <2>4. CASE l = <<"in_app", "email", "sms">>
    BY <2>4 DEF Channels, External
  <2>5. QED
    BY <2>1, <2>2, <2>3, <2>4 DEF Lists
<1>2. \A i, j \in 1 .. Len(l) : l[i] = l[j] => i = j
  BY DEF Lists
<1>3. DOMAIN l = 1 .. Len(l)
  BY <1>1
<1>4. QED
  BY <1>1, <1>2, <1>3 DEF ToSet

\* The channel in turn is a channel: one asked for, or a fallback.
LEMMA ChannelType ==
    ASSUME TypeOK, NEW c \in Calls, Progress(c), at[c] \in Trying
    PROVE  /\ pos[c] \in 1 .. Len(list[c]) /\ pos[c] \in 1 .. 3
           /\ spare[c] \in 0 .. Len(Fallbacks)
           /\ Channel(c) \in Channels
           /\ spare[c] = 0 => Channel(c) = list[c][pos[c]] /\ Channel(c) \in ToSet(list[c])
           /\ spare[c] > 0 => Channel(c) = Fallbacks[spare[c]] /\ Channel(c) \in External
                              /\ Channel(c) \notin ToSet(list[c])
<1>1. list[c] \in Lists /\ pos[c] \in 1 .. 4 /\ spare[c] \in 0 .. Len(Fallbacks)
  BY DEF TypeOK
<1>2. /\ list[c] \in Seq(Channels) /\ Len(list[c]) \in 1 .. 3
      /\ ToSet(list[c]) = {list[c][i] : i \in 1 .. Len(list[c])}
  BY <1>1, ShortLists
<1>3. pos[c] \in 1 .. Len(list[c])
  BY <1>1, <1>2 DEF Progress
<1>4. CASE spare[c] = 0
  BY <1>1, <1>2, <1>3, <1>4 DEF Channel
<1>5. CASE spare[c] # 0
  BY <1>1, <1>2, <1>3, <1>5, FallbacksAssumption DEF Channel, Channels, Progress
<1>6. QED
  BY <1>1, <1>2, <1>3, <1>4, <1>5

-----------------------------------------------------------------------------
(* Types                                                                   *)

LEMMA TypeInit == Init => TypeOK
<1> SUFFICES ASSUME Init PROVE TypeOK
  OBVIOUS
<1>1. tx \in [Calls -> [change : BOOLEAN, row : {"none", "pending", "sent"}]]
  BY DEF Init, Clean
<1>2. /\ spare \in [Calls -> 0 .. Len(Fallbacks)] /\ pos \in [Calls -> 1 .. 4]
      /\ out \in [Messages -> [External -> 0 .. 1]]
      /\ rows \in [Messages -> {"none", "pending", "sent"}]
      /\ pref \in [Users -> [External -> {"none", "on", "off"}]]
  BY FallbacksAssumption DEF Init
<1>3. /\ kind \in [Calls -> Kinds] /\ list \in [Calls -> Lists] /\ supers \subseteq Users
      /\ at \in [Calls -> Phases] /\ to \in [Calls -> SUBSET Users] /\ user \in [Calls -> Users]
      /\ tried \in [Calls -> SUBSET Channels]
      /\ reached \in [Calls -> BOOLEAN] /\ ok \in [Calls -> BOOLEAN]
      /\ health \in [Calls -> {"clean", "broken"}]
      /\ changes \subseteq Calls /\ isRead \subseteq Messages /\ pushed \subseteq Messages
      /\ cut \subseteq Calls /\ late \subseteq Calls
  BY DEF Init, Phases
<1>4. QED
  BY <1>1, <1>2, <1>3 DEF TypeOK

LEMMA MessageType == ASSUME TypeOK, NEW c \in Calls PROVE Message(c) \in Messages
BY DEF TypeOK, Message, Messages

\* The types of what Advance changes.
LEMMA TypeAdvance ==
    ASSUME TypeOK, NEW c \in Calls, Progress(c), at[c] \in Trying,
           NEW success \in BOOLEAN, Advance(c, success)
    PROVE  /\ tried' \in [Calls -> SUBSET Channels] /\ reached' \in [Calls -> BOOLEAN]
           /\ spare' \in [Calls -> 0 .. Len(Fallbacks)] /\ pos' \in [Calls -> 1 .. 4]
           /\ at' \in [Calls -> Phases]
<1> DEFINE S == Spares(c, tried[c] \cup {Channel(c)})
<1>1. /\ tried' = [tried EXCEPT ![c] = tried[c] \cup {Channel(c)}]
      /\ reached' = [reached EXCEPT ![c] = reached[c] \/ success]
  BY DEF Advance
<1>2. Channel(c) \in Channels /\ pos[c] \in 1 .. 3
  BY ChannelType
<1>3. tried' \in [Calls -> SUBSET Channels]
  BY <1>1, <1>2 DEF TypeOK
<1>4. reached' \in [Calls -> BOOLEAN]
  BY <1>1 DEF TypeOK
<1>5. S \subseteq 0 .. Len(Fallbacks) /\ 0 \in 0 .. Len(Fallbacks)
  BY FallbacksAssumption DEF Spares
<1>6. CASE \E i \in S : spare' = [spare EXCEPT ![c] = i] /\ pos' = pos /\ at' = [at EXCEPT ![c] = "check"]
  BY <1>3, <1>4, <1>5, <1>6 DEF TypeOK, Phases
<1>7. CASE /\ spare' = [spare EXCEPT ![c] = 0] /\ pos' = [pos EXCEPT ![c] = pos[c] + 1]
           /\ at' = [at EXCEPT ![c] = IF pos[c] = Len(list[c]) THEN "settle" ELSE "check"]
  <2>1. pos' \in [Calls -> 1 .. 4]
    BY <1>2, <1>7 DEF TypeOK
  <2>2. at' \in [Calls -> Phases]
    BY <1>7 DEF TypeOK, Phases
  <2>3. QED
    BY <1>3, <1>4, <1>5, <1>7, <2>1, <2>2 DEF TypeOK
<1>8. QED
  BY <1>6, <1>7 DEF Advance, Goto

LEMMA TypeLand ==
    ASSUME TypeOK, NEW c \in Calls, Land(c)
    PROVE  /\ changes' \subseteq Calls /\ rows' \in [Messages -> {"none", "pending", "sent"}]
           /\ tx' \in [Calls -> [change : BOOLEAN, row : {"none", "pending", "sent"}]]
BY MessageType DEF TypeOK, Land, Clean

LEMMA TypeLose ==
    ASSUME TypeOK, NEW c \in Calls, Lose(c)
    PROVE  /\ tx' \in [Calls -> [change : BOOLEAN, row : {"none", "pending", "sent"}]]
           /\ health' \in [Calls -> {"clean", "broken"}] /\ cut' \subseteq Calls
           /\ changes' = changes /\ rows' = rows
BY DEF TypeOK, Lose, Clean

\* A call settles with its channels dealt with, "in_app" among them if asked for.
LEMMA SettleReached ==
    ASSUME TypeOK, NEW c \in Calls, Row(c), Progress(c), at[c] = "settle", InApp(c)
    PROVE  reached[c] /\ tx[c].row = "none" /\ Message(c) \in pushed
BY DEF Row, Progress, InApp, Trying

LEMMA TypeStep ==
    ASSUME TypeOK, NEW c \in Calls, CallInv(c), Step(c)
    PROVE  TypeOK'
<1>1. CASE Start(c)
  BY <1>1 DEF TypeOK, Start, Goto, Phases, Interested, inputs, store
<1>2. CASE NextRecipient(c)
  <2>1. 0 \in 0 .. Len(Fallbacks)
    BY FallbacksAssumption
  <2>2. /\ tried' \in [Calls -> SUBSET Channels] /\ reached' \in [Calls -> BOOLEAN]
        /\ pos' \in [Calls -> 1 .. 4] /\ spare' \in [Calls -> 0 .. Len(Fallbacks)]
        /\ ok' \in [Calls -> BOOLEAN]
    BY <1>2, <2>1 DEF TypeOK, NextRecipient, Fresh
  <2>3. CASE to[c] = {} /\ Goto(c, "finish") /\ UNCHANGED <<user, to>>
    BY <1>2, <2>2, <2>3 DEF TypeOK, NextRecipient, Goto, Phases, inputs, store
  <2>4. CASE \E u \in to[c] :
               /\ user' = [user EXCEPT ![c] = u] /\ to' = [to EXCEPT ![c] = @ \ {u}]
               /\ Goto(c, IF InApp(c) THEN "persist" ELSE "check")
    <3>1. PICK u \in to[c] :
               /\ user' = [user EXCEPT ![c] = u] /\ to' = [to EXCEPT ![c] = to[c] \ {u}]
               /\ at' = [at EXCEPT ![c] = IF InApp(c) THEN "persist" ELSE "check"]
      BY <2>4 DEF Goto
    <3>2. at' \in [Calls -> Phases]
      BY <3>1 DEF TypeOK, Phases
    <3>3. to' \in [Calls -> SUBSET Users] /\ user' \in [Calls -> Users]
      BY <3>1 DEF TypeOK
    <3>4. QED
      BY <1>2, <2>2, <3>2, <3>3 DEF TypeOK, NextRecipient, inputs, store
  <2>5. QED
    BY <1>2, <2>3, <2>4 DEF NextRecipient
<1>3. CASE Persist(c)
  <2>1. tx' \in [Calls -> [change : BOOLEAN, row : {"none", "pending", "sent"}]]
    BY <1>3 DEF TypeOK, Persist
  <2>2. QED
    BY <1>3, <2>1 DEF TypeOK, Persist, Goto, Phases, inputs, store
<1>4. CASE Push(c)
  BY <1>4, MessageType DEF TypeOK, Push, Goto, Phases, inputs, store
<1>5. CASE Check(c)
  <2>1. at[c] \in Trying
    BY <1>5 DEF Check, Trying
  <2>2. /\ tried' \in [Calls -> SUBSET Channels] /\ reached' \in [Calls -> BOOLEAN]
        /\ spare' \in [Calls -> 0 .. Len(Fallbacks)] /\ pos' \in [Calls -> 1 .. 4]
        /\ at' \in [Calls -> Phases] /\ ok' \in [Calls -> BOOLEAN]
    <3>1. CASE OptedOut(c)
      BY <1>5, <2>1, <3>1, TypeAdvance DEF TypeOK, Check, CallInv
    <3>2. CASE ~OptedOut(c)
      <4>1. /\ at' = [at EXCEPT ![c] = IF Channel(c) \in External THEN "provider" ELSE "log"]
            /\ ok' = [ok EXCEPT ![c] = Channel(c) # "unknown"]
            /\ UNCHANGED <<pos, spare, tried, reached>>
        BY <1>5, <3>2 DEF Check, Goto
      <4>2. at' \in [Calls -> Phases]
        BY <4>1 DEF TypeOK, Phases
      <4>3. ok' \in [Calls -> BOOLEAN]
        BY <4>1 DEF TypeOK
      <4>4. QED
        BY <4>1, <4>2, <4>3 DEF TypeOK
    <3>3. QED
      BY <3>1, <3>2
  <2>3. QED
    BY <1>5, <2>2 DEF TypeOK, Check, inputs, store
<1>6. CASE Provider(c)
  <2>1. PICK o \in Outcomes : out' = IF o.accepted THEN [out EXCEPT ![Message(c)][Channel(c)] = @ + 1] ELSE out
    BY <1>6 DEF Provider
  <2>2. at[c] = "provider" /\ at[c] \in Trying
    BY <1>6 DEF Provider, Trying
  <2>3. Channel(c) \in External /\ out[Message(c)][Channel(c)] = 0
    BY <2>2 DEF CallInv, Row, Progress, Given, Trying
  <2>4. out' \in [Messages -> [External -> 0 .. 1]]
    <3>1. CASE o.accepted
      <4>1. out' = [out EXCEPT ![Message(c)][Channel(c)] = 1]
        BY <2>1, <2>3, <3>1, MessageType DEF TypeOK
      <4>2. out[Message(c)] \in [External -> 0 .. 1]
        BY MessageType DEF TypeOK
      <4>3. [out[Message(c)] EXCEPT ![Channel(c)] = 1] \in [External -> 0 .. 1]
        BY <4>2, 1 \in 0 .. 1
      <4>4. out' = [out EXCEPT ![Message(c)] = [out[Message(c)] EXCEPT ![Channel(c)] = 1]]
        BY <4>1
      <4>5. QED
        BY <4>3, <4>4 DEF TypeOK
    <3>2. CASE ~o.accepted
      <4>1. out' = out
        BY <2>1, <3>2
      <4>2. QED
        BY <4>1 DEF TypeOK
    <3>3. QED
      BY <3>1, <3>2
  <2>5. at' \in [Calls -> Phases] /\ ok' \in [Calls -> BOOLEAN]
    BY <1>6 DEF TypeOK, Provider, Goto, Phases, Outcomes
  <2>6. QED
    BY <1>6, <2>4, <2>5 DEF TypeOK, Provider, inputs, store
<1>7. CASE Log(c)
  BY <1>7, TypeAdvance, TypeLand DEF CallInv, TypeOK, Log, Trying, inputs
<1>8. CASE LogFails(c)
  BY <1>8, TypeAdvance, TypeLose DEF CallInv, TypeOK, LogFails, Trying, inputs
<1>9. CASE Settle(c)
  <2>1. CASE UNCHANGED <<tx, rows, changes>>
    BY <1>9, <2>1 DEF TypeOK, Settle, Goto, Phases, inputs
  <2>2. CASE ~UNCHANGED <<tx, rows, changes>>
    <3>1. /\ rows' = [rows EXCEPT ![Message(c)] = FinalStatus(c)]
          /\ changes' \subseteq changes \cup {c} /\ tx' = [tx EXCEPT ![c] = Clean]
          /\ at' = [at EXCEPT ![c] = "next"] /\ InApp(c) /\ at[c] = "settle"
      BY <1>9, <2>2 DEF Settle, CommitStatus, Goto
    <3>2. FinalStatus(c) = "sent"
      BY <3>1, SettleReached DEF FinalStatus, CallInv
    <3>3. rows' \in [Messages -> {"none", "pending", "sent"}]
      BY <3>1, <3>2, MessageType DEF TypeOK
    <3>4. QED
      BY <1>9, <3>1, <3>3 DEF TypeOK, Settle, Phases, Clean, inputs
  <2>3. QED
    BY <2>1, <2>2
<1>10. CASE Finish(c)
  <2>1. /\ \/ tx' = [tx EXCEPT ![c] = Clean] \/ tx' = [tx EXCEPT ![c] = [change |-> TRUE, row |-> tx[c].row]] \/ tx' = tx
        /\ at' = [at EXCEPT ![c] = "done"] \/ at' = [at EXCEPT ![c] = "commit"]
    BY <1>10 DEF Finish, Goto
  <2>2. tx' \in [Calls -> [change : BOOLEAN, row : {"none", "pending", "sent"}]]
    <3>1. CASE tx' = [tx EXCEPT ![c] = Clean]
      BY <3>1 DEF TypeOK, Clean
    <3>4. CASE tx' = tx
      BY <3>4 DEF TypeOK
    <3>2. CASE tx' = [tx EXCEPT ![c] = [change |-> TRUE, row |-> tx[c].row]]
      BY <3>2 DEF TypeOK
    <3>3. QED
      BY <2>1, <3>1, <3>2, <3>4
  <2>3. at' \in [Calls -> Phases]
    BY <2>1 DEF TypeOK, Phases
  <2>4. QED
    BY <1>10, <2>2, <2>3 DEF TypeOK, Finish, inputs, store
<1>11. CASE Commit(c)
  BY <1>11, TypeLand DEF TypeOK, Commit, Goto, Phases, inputs
<1>12. CASE Raise(c)
  <2>1. 0 \in 0 .. Len(Fallbacks)
    BY FallbacksAssumption
  <2>2. /\ tried' \in [Calls -> SUBSET Channels] /\ reached' \in [Calls -> BOOLEAN]
        /\ pos' \in [Calls -> 1 .. 4] /\ spare' \in [Calls -> 0 .. Len(Fallbacks)]
        /\ ok' \in [Calls -> BOOLEAN]
    BY <1>12, <2>1 DEF TypeOK, Raise, Fresh
  <2>3. /\ at' \in [Calls -> Phases] /\ to' \in [Calls -> SUBSET Users] /\ cut' \subseteq Calls
        /\ tx' \in [Calls -> [change : BOOLEAN, row : {"none", "pending", "sent"}]]
    BY <1>12 DEF TypeOK, Raise, Goto, Phases, Clean
  <2>4. QED
    BY <1>12, <2>2, <2>3 DEF TypeOK, Raise, inputs, store
<1>13. QED
  BY <1>1, <1>2, <1>3, <1>4, <1>5, <1>6, <1>7, <1>8, <1>9, <1>10, <1>11, <1>12 DEF Step

-----------------------------------------------------------------------------
(* A step of one call leaves the other calls alone                         *)

SameCall(d) ==
  /\ at'[d] = at[d] /\ to'[d] = to[d] /\ user'[d] = user[d] /\ pos'[d] = pos[d]
  /\ spare'[d] = spare[d] /\ tried'[d] = tried[d] /\ reached'[d] = reached[d] /\ ok'[d] = ok[d]
  /\ health'[d] = health[d] /\ tx'[d] = tx[d]
  /\ d \in changes' <=> d \in changes
  /\ d \in cut' <=> d \in cut
  /\ d \in late' <=> d \in late

SameMessage(m) == (m \in pushed' <=> m \in pushed) /\ rows'[m] = rows[m] /\ out'[m] = out[m]

LEMMA Frame ==
    ASSUME TypeOK, NEW c \in Calls, Step(c)
    PROVE  /\ UNCHANGED <<inputs, isRead, pref>>
           /\ \A d \in Calls \ {c} : SameCall(d)
           /\ \A m \in Messages \ {Message(c)} : SameMessage(m)
<1> USE DEF SameCall, SameMessage, inputs, store
<1>1. CASE Start(c)
  BY <1>1 DEF TypeOK, Start, Goto
<1>2. CASE NextRecipient(c)
  BY <1>2 DEF TypeOK, NextRecipient, Goto, Fresh
<1>3. CASE Persist(c)
  BY <1>3 DEF TypeOK, Persist, Goto
<1>4. CASE Push(c)
  BY <1>4 DEF TypeOK, Push, Goto
<1>5. CASE Check(c)
  BY <1>5 DEF TypeOK, Check, Goto, Advance
<1>6. CASE Provider(c)
  BY <1>6 DEF TypeOK, Provider, Goto
<1>7. CASE Log(c)
  BY <1>7 DEF TypeOK, Log, Goto, Advance, Land
<1>8. CASE LogFails(c)
  BY <1>8 DEF TypeOK, LogFails, Goto, Advance, Lose
<1>9. CASE Settle(c)
  BY <1>9 DEF TypeOK, Settle, Goto, CommitStatus
<1>10. CASE Finish(c)
  BY <1>10 DEF TypeOK, Finish, Goto
<1>11. CASE Commit(c)
  BY <1>11 DEF TypeOK, Commit, Goto, Land
<1>12. CASE Raise(c)
  BY <1>12 DEF TypeOK, Raise, Goto, Fresh
<1>13. QED
  BY <1>1, <1>2, <1>3, <1>4, <1>5, <1>6, <1>7, <1>8, <1>9, <1>10, <1>11, <1>12 DEF Step

LEMMA OtherCalls ==
    ASSUME TypeOK, NEW c \in Calls, Step(c), NEW d \in Calls \ {c}, CallInv(d)
    PROVE  CallInv(d)'
<1>1. UNCHANGED <<kind, list, pref>> /\ SameCall(d)
  BY Frame DEF inputs
<1>2. \A u \in Users : SameMessage(<<d, u>>)
  BY Frame DEF Message, Messages
<1>3. Message(d)' = Message(d) /\ SameMessage(Message(d)) /\ InApp(d)' = InApp(d) /\ Channel(d)' = Channel(d)
  BY <1>1, <1>2 DEF SameCall, Message, InApp, Channel, TypeOK
<1>4. Left(d)'
  BY <1>1, <1>2, <1>3 DEF CallInv, Left, SameCall, SameMessage, Unused
<1>5. Row(d)'
  BY <1>1, <1>3 DEF CallInv, Row, SameCall, SameMessage
<1>6. Progress(d)'
  BY <1>1, <1>3 DEF CallInv, Progress, Done, SameCall
<1>7. Given(d)'
  BY <1>1, <1>3 DEF CallInv, Given, SameCall, SameMessage
<1>8. Wanted(d)'
  BY <1>1, <1>3 DEF CallInv, Wanted, SameCall
<1>9. Truth(d)'
  BY <1>1, <1>2, <1>3 DEF CallInv, Truth, SameCall, SameMessage
<1>10. QED
  BY <1>4, <1>5, <1>6, <1>7, <1>8, <1>9 DEF CallInv

-----------------------------------------------------------------------------
(* The steps before the channels                                           *)

LEMMA StartStep ==
    ASSUME TypeOK, NEW c \in Calls, CallInv(c), Start(c)
    PROVE  CallInv(c)'
<1>1. /\ at[c] = "start" /\ at'[c] = "next" /\ to'[c] \subseteq Users
      /\ UNCHANGED <<inputs, user, pos, spare, tried, reached, ok, health, tx, store, pushed, out,
                     cut, late>>
  BY DEF Start, Goto, TypeOK, Interested
<1>2. Left(c)'
  BY <1>1 DEF CallInv, Left, Unused, Working, store
<1>3. Row(c)'
  BY <1>1 DEF CallInv, Row, Working, Trying
<1>4. Progress(c)' /\ Given(c)' /\ Wanted(c)'
  BY <1>1 DEF Progress, Given, Wanted, Trying
<1>5. Truth(c)'
  BY <1>1 DEF CallInv, Truth, Working, Trying, inputs, store
<1>6. QED
  BY <1>2, <1>3, <1>4, <1>5 DEF CallInv

LEMMA NextRecipientStep ==
    ASSUME TypeOK, NEW c \in Calls, CallInv(c), NextRecipient(c)
    PROVE  CallInv(c)'
<1>1. /\ at[c] = "next" /\ tried'[c] = {} /\ pos'[c] = 1 /\ spare'[c] = 0
      /\ UNCHANGED <<inputs, health, tx, store, pushed, out, cut, late>>
  BY DEF NextRecipient, Fresh, TypeOK
<1>2. CASE to[c] = {} /\ Goto(c, "finish") /\ UNCHANGED <<user, to>>
  <2>1. at'[c] = "finish" /\ to'[c] = {}
    BY <1>2 DEF Goto, TypeOK
  <2>2. Left(c)' /\ Row(c)' /\ Progress(c)' /\ Given(c)' /\ Wanted(c)'
    BY <1>1, <2>1 DEF CallInv, Left, Row, Progress, Given, Wanted, Working, Trying
  <2>3. Truth(c)'
    BY <1>1, <2>1 DEF CallInv, Truth, Working, Trying, inputs, store
  <2>4. QED
    BY <2>2, <2>3 DEF CallInv
<1>3. CASE \E u \in to[c] :
             /\ user' = [user EXCEPT ![c] = u] /\ to' = [to EXCEPT ![c] = @ \ {u}]
             /\ Goto(c, IF InApp(c) THEN "persist" ELSE "check")
  <2>1. PICK u \in to[c] :
             /\ user' = [user EXCEPT ![c] = u] /\ to' = [to EXCEPT ![c] = to[c] \ {u}]
             /\ Goto(c, IF InApp(c) THEN "persist" ELSE "check")
    BY <1>3
  <2>2. /\ u \in Users /\ user'[c] = u /\ to'[c] = to[c] \ {u} /\ Message(c)' = <<c, u>>
        /\ at'[c] = IF InApp(c) THEN "persist" ELSE "check"
        /\ InApp(c)' = InApp(c)
    BY <1>1, <2>1 DEF Goto, TypeOK, Message, InApp, inputs
  <2>3. \A v \in to[c] : Unused(<<c, v>>)'
    BY <1>1 DEF CallInv, Left, Unused, store, TypeOK
  <2>4. Left(c)'
    BY <1>1, <2>2, <2>3 DEF Left, Working
  <2>5. Row(c)'
    BY <1>1, <2>2, <2>3 DEF CallInv, Row, Working, Trying, Unused
  <2>6. Progress(c)'
    <3>1. CASE InApp(c)
      BY <1>1, <2>2, <3>1 DEF Progress, Trying
    <3>2. CASE ~InApp(c)
      <4>1. /\ list'[c] \in Seq(Channels) /\ Len(list'[c]) \in 1 .. 3
        BY <1>1, ShortLists DEF TypeOK, inputs
      <4>2. Done(c)' = {}
        BY <1>1 DEF Done
      <4>3. at'[c] = "check"
        BY <2>2, <3>2
      <4>4. \A i \in DOMAIN Fallbacks : ~(i < 0)
        BY FallbacksAssumption
      <4>5. QED
        BY <1>1, <4>1, <4>2, <4>3, <4>4 DEF Progress, Trying
    <3>3. QED
      BY <3>1, <3>2
  <2>7. Given(c)'
    BY <1>1, <2>2, <2>3 DEF Given, Unused
  <2>8. Wanted(c)'
    BY <2>2 DEF Wanted
  <2>9. Truth(c)'
    BY <1>1, <2>2 DEF CallInv, Truth, Working, Trying, inputs, store
  <2>10. QED
    BY <2>4, <2>5, <2>6, <2>7, <2>8, <2>9 DEF CallInv
<1>4. QED
  BY <1>2, <1>3 DEF NextRecipient

LEMMA PersistStep ==
    ASSUME TypeOK, NEW c \in Calls, CallInv(c), Persist(c)
    PROVE  CallInv(c)'
<1>1. /\ at[c] = "persist" /\ at'[c] = "push"
      /\ tx'[c].row = "pending" /\ tx'[c].change = tx[c].change
      /\ UNCHANGED <<inputs, to, user, pos, spare, tried, reached, ok, health, store, pushed, out,
                     cut, late>>
  BY DEF Persist, Goto, TypeOK
<1>2. Unused(Message(c)) /\ Message(c)' = Message(c) /\ InApp(c) /\ InApp(c)'
  BY <1>1 DEF CallInv, Left, Message, InApp, inputs
<1>3. Left(c)'
  BY <1>1 DEF CallInv, Left, Unused, Working, store
<1>4. Row(c)'
  BY <1>1, <1>2 DEF Row, Working, Trying, Unused, store
<1>5. Progress(c)' /\ Wanted(c)'
  BY <1>1 DEF CallInv, Progress, Wanted, Trying
<1>6. Given(c)'
  BY <1>1, <1>2 DEF Given, Unused
<1>7. Truth(c)'
  BY <1>1 DEF CallInv, Truth, Working, Trying, inputs, store
<1>8. QED
  BY <1>3, <1>4, <1>5, <1>6, <1>7 DEF CallInv

LEMMA PushStep ==
    ASSUME TypeOK, NEW c \in Calls, CallInv(c), Push(c)
    PROVE  CallInv(c)'
<1>1. /\ at[c] = "push" /\ at'[c] = "check" /\ pushed' = pushed \cup {Message(c)}
      /\ UNCHANGED <<inputs, to, user, pos, spare, tried, reached, ok, health, tx, store, out, cut,
                     late>>
  BY DEF Push, Goto, TypeOK
<1>2. /\ tx[c].row = "pending" /\ InApp(c) /\ tried[c] = {} /\ pos[c] = 1 /\ spare[c] = 0
      /\ user[c] \notin to[c] /\ Message(c)' = Message(c) /\ InApp(c)'
  BY <1>1 DEF CallInv, Left, Row, Progress, Working, Message, InApp, inputs
<1>3. Left(c)'
  BY <1>1, <1>2 DEF CallInv, Left, Unused, Working, store, Message
<1>4. Row(c)'
  BY <1>1, <1>2 DEF CallInv, Row, Working, Trying, store
<1>5. Progress(c)'
  <2>1. /\ list[c] \in Seq(Channels) /\ Len(list[c]) \in 1 .. 3
    BY ShortLists DEF TypeOK
  <2>2. Done(c)' = {}
    BY <1>1, <1>2 DEF Done
  <2>3. \A i \in DOMAIN Fallbacks : ~(i < 0)
    BY FallbacksAssumption
  <2>4. /\ at'[c] = "check" /\ pos'[c] = 1 /\ spare'[c] = 0 /\ tried'[c] = {}
        /\ Len(list'[c]) \in 1 .. 3
    BY <1>1, <1>2, <2>1 DEF inputs
  <2>5. tried'[c] \cap ToSet(list'[c]) = {} /\ Channel(c)' \notin tried'[c]
    BY <2>4
  <2>6. \A i \in DOMAIN Fallbacks : ~(pos'[c] > 1 \/ i < spare'[c])
    BY <2>3, <2>4
  <2>7. pos'[c] <= Len(list'[c]) /\ ~(spare'[c] > 0)
    BY <2>4
  <2>8. QED
    BY <2>2, <2>4, <2>5, <2>6, <2>7 DEF Progress, Trying
<1>6. Given(c)' /\ Wanted(c)'
  BY <1>1, <1>2 DEF CallInv, Given, Wanted
<1>7. Truth(c)'
  BY <1>1, <1>2 DEF CallInv, Truth, Working, Trying, inputs, store, Message
<1>8. QED
  BY <1>3, <1>4, <1>5, <1>6, <1>7 DEF CallInv

-----------------------------------------------------------------------------
(* The channels                                                            *)

\* With the channel in turn, the channels asked for that are tried are
\* those up to its place.
LEMMA DealtWith ==
    ASSUME TypeOK, NEW c \in Calls, Progress(c), at[c] \in Trying
    PROVE  (tried[c] \cup {Channel(c)}) \cap ToSet(list[c]) = {list[c][i] : i \in 1 .. pos[c]}
<1>1. /\ list[c] \in Lists /\ pos[c] \in 1 .. Len(list[c]) /\ Len(list[c]) \in 1 .. 3
      /\ ToSet(list[c]) = {list[c][i] : i \in 1 .. Len(list[c])}
      /\ tried[c] \cap ToSet(list[c]) = Done(c)
      /\ spare[c] \in Nat
  BY ChannelType, ShortLists DEF TypeOK, Progress
<1>2. CASE spare[c] = 0
  <2>1. Done(c) = {list[c][i] : i \in 1 .. (pos[c] - 1)} /\ Channel(c) = list[c][pos[c]]
    BY <1>2 DEF Done, Channel
  <2>2. 1 .. pos[c] = 1 .. (pos[c] - 1) \cup {pos[c]}
    BY <1>1
  <2>3. {list[c][i] : i \in 1 .. pos[c]} = Done(c) \cup {Channel(c)}
    BY <2>1, <2>2
  <2>4. QED
    BY <1>1, <1>2, <2>3, ChannelType
<1>3. CASE spare[c] # 0
  <2>1. Done(c) = {list[c][i] : i \in 1 .. pos[c]} /\ Channel(c) \notin ToSet(list[c])
    BY <1>1, <1>3, ChannelType DEF Done
  <2>2. QED
    BY <1>1, <2>1
<1>4. QED
  BY <1>2, <1>3

\* The fallbacks before the one in turn, and that one, are not left.
LEMMA NoneLeftBefore ==
    ASSUME TypeOK, NEW c \in Calls, Progress(c), at[c] \in Trying, ~reached[c],
           NEW j \in DOMAIN Fallbacks, j \notin Spares(c, tried[c] \cup {Channel(c)})
    PROVE  Fallbacks[j] \in tried[c] \cup {Channel(c)} \cup ToSet(list[c])
<1>1. j \in Nat /\ spare[c] \in Nat
  BY FallbacksAssumption DEF TypeOK
<1>2. CASE j < spare[c]
  BY <1>2 DEF Progress
<1>3. CASE j = spare[c]
  <2>1. spare[c] > 0
    BY <1>3, FallbacksAssumption
  <2>2. QED
    BY <1>3, <2>1, ChannelType
<1>4. CASE j > spare[c]
  BY <1>4 DEF Spares
<1>5. QED
  BY <1>1, <1>2, <1>3, <1>4

LEMMA AdvanceStep ==
    ASSUME TypeOK, NEW c \in Calls, Progress(c), at[c] \in Trying, UNCHANGED list,
           NEW success \in BOOLEAN, Advance(c, success)
    PROVE  /\ Progress(c)' /\ at'[c] \in {"check", "settle"}
           /\ tried'[c] = tried[c] \cup {Channel(c)}
           /\ reached'[c] = (reached[c] \/ success)
<1> DEFINE done == tried[c] \cup {Channel(c)}
<1>1. tried'[c] = done /\ reached'[c] = (reached[c] \/ success)
  BY DEF Advance, TypeOK
<1>2. done \cap ToSet(list[c]) = {list[c][i] : i \in 1 .. pos[c]}
  BY DealtWith
<1>3. /\ list[c] \in Lists /\ pos[c] \in 1 .. Len(list[c]) /\ Len(list[c]) \in 1 .. 3
      /\ ToSet(list[c]) = {list[c][i] : i \in 1 .. Len(list[c])}
      /\ \A i, j \in 1 .. Len(list[c]) : list[c][i] = list[c][j] => i = j
      /\ spare[c] \in 0 .. Len(Fallbacks)
  BY ChannelType, ShortLists DEF TypeOK
<1>4. list'[c] = list[c]
  OBVIOUS
<1>5. CASE \E i \in Spares(c, done) :
             /\ ~success /\ \A j \in Spares(c, done) : i <= j
             /\ spare' = [spare EXCEPT ![c] = i]
             /\ UNCHANGED pos /\ Goto(c, "check")
  <2>1. PICK i \in Spares(c, done) :
             /\ ~success /\ \A j \in Spares(c, done) : i <= j
             /\ spare' = [spare EXCEPT ![c] = i]
             /\ UNCHANGED pos /\ Goto(c, "check")
    BY <1>5
  <2>2. /\ i \in DOMAIN Fallbacks /\ i \in Nat /\ i > 0 /\ i > spare[c]
        /\ Fallbacks[i] \notin done \cup ToSet(list[c])
    BY <1>3, FallbacksAssumption DEF Spares
  <2>3. at'[c] = "check" /\ spare'[c] = i /\ pos'[c] = pos[c]
    BY <2>1 DEF Goto, TypeOK
  <2>4. Channel(c)' = Fallbacks[i] /\ Channel(c)' \notin tried'[c]
    BY <1>1, <2>2, <2>3 DEF Channel
  <2>5. Done(c)' = {list[c][k] : k \in 1 .. pos[c]}
    BY <1>4, <2>2, <2>3 DEF Done
  <2>6. tried'[c] \cap ToSet(list'[c]) = Done(c)'
    BY <1>1, <1>2, <1>4, <2>5
  <2>7. Fallbacks[spare'[c]] \notin ToSet(list'[c]) /\ pos'[c] <= Len(list'[c])
    BY <1>3, <1>4, <2>2, <2>3
  <2>8. ASSUME ~reached'[c], NEW j \in DOMAIN Fallbacks, pos'[c] > 1 \/ j < spare'[c]
        PROVE  Fallbacks[j] \in tried'[c] \cup ToSet(list'[c])
    <3>1. ~reached[c]
      BY <1>1, <2>8
    <3>2. j \in Nat
      BY FallbacksAssumption
    <3>3. CASE j < i
      <4>1. j \notin Spares(c, done)
        BY <2>1, <2>2, <3>2, <3>3
      <4>2. QED
        BY <1>1, <1>4, <3>1, <4>1, NoneLeftBefore
    <3>4. CASE ~(j < i)
      <4>1. pos[c] > 1
        BY <2>3, <2>8, <3>4
      <4>2. Fallbacks[j] \in tried[c] \cup ToSet(list[c])
        BY <3>1, <4>1 DEF Progress
      <4>3. QED
        BY <1>1, <1>4, <4>2
    <3>5. QED
      BY <3>3, <3>4
  <2>9. Progress(c)'
    BY <2>3, <2>4, <2>6, <2>7, <2>8 DEF Progress
  <2>10. QED
    BY <1>1, <2>3, <2>9
<1>6. CASE /\ success \/ Spares(c, done) = {}
           /\ spare' = [spare EXCEPT ![c] = 0] /\ pos' = [pos EXCEPT ![c] = @ + 1]
           /\ Goto(c, IF pos[c] = Len(list[c]) THEN "settle" ELSE "check")
  <2>1. /\ at'[c] = (IF pos[c] = Len(list[c]) THEN "settle" ELSE "check")
        /\ spare'[c] = 0 /\ pos'[c] = pos[c] + 1
    BY <1>6 DEF Goto, TypeOK
  <2>2. ASSUME ~reached'[c], NEW j \in DOMAIN Fallbacks
        PROVE  Fallbacks[j] \in tried'[c] \cup ToSet(list'[c])
    <3>1. ~reached[c] /\ j \notin Spares(c, done)
      BY <1>1, <1>6, <2>2
    <3>2. QED
      BY <1>1, <1>4, <3>1, NoneLeftBefore
  <2>3. CASE pos[c] = Len(list[c])
    <3>1. ToSet(list'[c]) \subseteq tried'[c]
      BY <1>1, <1>2, <1>3, <1>4, <2>3
    <3>2. ~reached'[c] => ToSet(Fallbacks) \subseteq tried'[c]
      BY <2>2, <3>1 DEF ToSet
    <3>3. at'[c] = "settle"
      BY <2>1, <2>3
    <3>4. QED
      BY <1>1, <3>1, <3>2, <3>3 DEF Progress, Trying
  <2>4. CASE pos[c] # Len(list[c])
    <3>1. pos'[c] <= Len(list'[c]) /\ at'[c] = "check"
      BY <1>3, <1>4, <2>1, <2>4
    <3>2. Channel(c)' = list[c][pos[c] + 1] /\ pos[c] + 1 \in 1 .. Len(list[c])
      BY <1>3, <1>4, <2>1, <2>4 DEF Channel
    <3>3. list[c][pos[c] + 1] \notin {list[c][i] : i \in 1 .. pos[c]}
      BY <1>3, <3>2
    <3>4. Channel(c)' \notin tried'[c]
      BY <1>1, <1>2, <1>3, <3>2, <3>3
    <3>5. Done(c)' = {list[c][i] : i \in 1 .. pos[c]}
      <4>1. pos'[c] - 1 = pos[c]
        BY <1>3, <2>1
      <4>2. QED
        BY <1>4, <2>1, <4>1 DEF Done
    <3>6. tried'[c] \cap ToSet(list'[c]) = Done(c)'
      BY <1>1, <1>2, <1>4, <3>5
    <3>7. QED
      BY <1>1, <2>1, <2>2, <3>1, <3>4, <3>6 DEF Progress
  <2>5. QED
    BY <2>3, <2>4
<1>7. QED
  BY <1>5, <1>6 DEF Advance

LEMMA CheckStep ==
    ASSUME TypeOK, NEW c \in Calls, CallInv(c), Check(c)
    PROVE  CallInv(c)'
<1>1. /\ at[c] = "check" /\ at[c] \in Trying
      /\ UNCHANGED <<inputs, to, user, health, tx, store, pushed, out, cut>>
      /\ UNCHANGED <<kind, list, rows, changes, pref>>
      /\ Message(c)' = Message(c) /\ InApp(c)' = InApp(c)
  BY DEF Check, Trying, inputs, store, Message, InApp
<1>2. CASE OptedOut(c)
  <2>1. Advance(c, FALSE) /\ UNCHANGED ok
    BY <1>2 DEF Check
  <2>2. /\ Progress(c)' /\ at'[c] \in {"check", "settle"} /\ tried'[c] = tried[c] \cup {Channel(c)}
        /\ reached'[c] = (reached[c] \/ FALSE)
    BY <1>1, <2>1, AdvanceStep DEF CallInv
  <2>3. Channel(c) # "in_app" /\ (reached[c] => reached'[c])
    BY <1>2, <2>2 DEF OptedOut, External
  <2>4. Left(c)'
    BY <1>1, <2>2 DEF CallInv, Left, Unused, Working
  <2>5. Row(c)'
    BY <1>1, <2>2, <2>3 DEF CallInv, Row, Working, Trying
  <2>6. Given(c)' /\ Wanted(c)'
    BY <1>1, <2>2 DEF CallInv, Given, Wanted
  <2>7. Truth(c)'
    BY <1>1, <2>2 DEF CallInv, Truth, Working, Trying
  <2>8. QED
    BY <2>2, <2>4, <2>5, <2>6, <2>7 DEF CallInv
<1>3. CASE ~OptedOut(c)
  <2>1. /\ Goto(c, IF Channel(c) \in External THEN "provider" ELSE "log")
        /\ ok' = [ok EXCEPT ![c] = Channel(c) # "unknown"]
        /\ UNCHANGED <<pos, spare, tried, reached>>
    BY <1>3 DEF Check
  <2>2. /\ at'[c] = (IF Channel(c) \in External THEN "provider" ELSE "log")
        /\ ok'[c] = (Channel(c) # "unknown") /\ Channel(c)' = Channel(c)
    BY <1>1, <2>1 DEF Goto, TypeOK, Channel
  <2>3. Left(c)'
    BY <1>1, <2>2 DEF CallInv, Left, Unused, Working
  <2>4. Row(c)'
    <3>1. at'[c] = "log" /\ Channel(c) = "in_app" => ok'[c]
      BY <2>2
    <3>2. at'[c] \in {"provider", "log"} /\ (at'[c] = "provider" => Channel(c) \in External)
      BY <2>2
    <3>3. QED
      BY <1>1, <2>1, <2>2, <3>1, <3>2 DEF CallInv, Row, Working, Trying
  <2>5. Progress(c)'
    BY <1>1, <2>1, <2>2 DEF CallInv, Progress, Done, Trying
  <2>6. Given(c)'
    BY <1>1, <2>1, <2>2 DEF CallInv, Given
  <2>7. Wanted(c)'
    BY <1>1, <1>3, <2>2 DEF Wanted, OptedOut
  <2>8. Truth(c)'
    BY <1>1, <2>2 DEF CallInv, Truth, Working, Trying
  <2>9. QED
    BY <2>3, <2>4, <2>5, <2>6, <2>7, <2>8 DEF CallInv
<1>4. QED
  BY <1>2, <1>3

LEMMA ProviderStep ==
    ASSUME TypeOK, NEW c \in Calls, CallInv(c), Provider(c)
    PROVE  CallInv(c)'
<1>1. /\ at[c] = "provider" /\ at'[c] = "log"
      /\ UNCHANGED <<kind, list, to, user, pos, spare, tried, reached, health, tx, rows, changes,
                     pref, pushed, cut, late>>
      /\ Message(c)' = Message(c) /\ InApp(c)' = InApp(c) /\ Channel(c)' = Channel(c)
  BY DEF Provider, Goto, TypeOK, inputs, store, Message, InApp, Channel
<1>2. \A m \in Messages \ {Message(c)} : out'[m] = out[m]
  BY DEF Provider, TypeOK
<1>3. \A ch \in External \ {Channel(c)} : out'[Message(c)][ch] = out[Message(c)][ch]
  <2>1. PICK o \in Outcomes :
          out' = IF o.accepted THEN [out EXCEPT ![Message(c)][Channel(c)] = @ + 1] ELSE out
    BY DEF Provider
  <2>2. CASE o.accepted
    BY <2>1, <2>2, MessageType DEF TypeOK
  <2>3. CASE ~o.accepted
    BY <2>1, <2>3
  <2>4. QED
    BY <2>2, <2>3
<1>4. Channel(c) \in External /\ user[c] \notin to[c]
  BY <1>1 DEF CallInv, Row, Left, Working
<1>5. Left(c)'
  <2>1. ASSUME NEW u \in to[c] PROVE Unused(<<c, u>>)'
    <3>1. <<c, u>> \in Messages /\ <<c, u>> # Message(c)
      BY <1>4 DEF Messages, Message, TypeOK
    <3>2. out'[<<c, u>>] = out[<<c, u>>] /\ Unused(<<c, u>>)
      BY <1>2, <3>1 DEF CallInv, Left, Messages
    <3>3. QED
      BY <1>1, <3>2 DEF Unused
  <2>2. QED
    BY <1>1, <1>4, <2>1 DEF Left
<1>6. Row(c)'
  BY <1>1, <1>4 DEF CallInv, Row, Working, Trying, External
<1>7. Progress(c)'
  BY <1>1 DEF CallInv, Progress, Done, Trying
<1>8. Given(c)'
  BY <1>1, <1>3 DEF CallInv, Given
<1>9. Wanted(c)'
  BY <1>1 DEF Wanted
<1>10. Truth(c)'
  BY <1>1 DEF CallInv, Truth, Working, Trying
<1>11. QED
  BY <1>5, <1>6, <1>7, <1>8, <1>9, <1>10 DEF CallInv

\* Landing changes no row but the one in turn, which it takes to "pending".
LEMMA LandRow ==
    ASSUME TypeOK, NEW c \in Calls, Row(c), Land(c)
    PROVE  /\ tx'[c] = Clean
           /\ \A m \in Messages \ {Message(c)} : rows'[m] = rows[m]
           /\ IF tx[c].row = "none" THEN rows' = rows
              ELSE /\ rows' = [rows EXCEPT ![Message(c)] = "pending"]
                   /\ rows'[Message(c)] = "pending"
           /\ c \in changes' <=> (tx[c].change \/ c \in changes)
<1>1. tx'[c] = Clean
  BY DEF Land, TypeOK
<1>2. CASE tx[c].row = "none"
  BY <1>1, <1>2 DEF Land
<1>3. CASE tx[c].row # "none"
  <2>1. rows' = [rows EXCEPT ![Message(c)] = "pending"]
    BY <1>3 DEF Land, Row
  <2>2. QED
    BY <1>1, <1>3, <2>1, MessageType DEF Land, TypeOK
<1>4. QED
  BY <1>2, <1>3

\* After the log, which may be lost, on to the next channel.
LEMMA AfterLog ==
    ASSUME TypeOK, NEW c \in Calls, CallInv(c), at[c] = "log", Advance(c, ok[c]),
           UNCHANGED <<inputs, to, user, pushed, out>>,
           tx'[c] = Clean,
           \A m \in Messages \ {Message(c)} : rows'[m] = rows[m],
           rows'[Message(c)] # "sent"
    PROVE  /\ Left(c)' /\ Row(c)' /\ Progress(c)' /\ Given(c)' /\ Wanted(c)'
           /\ at'[c] \in {"check", "settle"}
<1>1. ok[c] \in BOOLEAN /\ at[c] \in Trying /\ UNCHANGED <<kind, list>>
  BY DEF TypeOK, Trying, inputs
<1>2. /\ Progress(c)' /\ at'[c] \in {"check", "settle"} /\ tried'[c] = tried[c] \cup {Channel(c)}
      /\ reached'[c] = (reached[c] \/ ok[c])
  BY <1>1, AdvanceStep DEF CallInv
<1>3. Message(c)' = Message(c) /\ InApp(c)' = InApp(c) /\ user[c] \notin to[c]
  BY <1>1 DEF Message, InApp, CallInv, Left, Working
<1>4. Left(c)'
  <2>1. ASSUME NEW u \in to[c] PROVE Unused(<<c, u>>)'
    <3>1. <<c, u>> \in Messages /\ <<c, u>> # Message(c)
      BY <1>3 DEF Messages, Message, TypeOK
    <3>2. rows'[<<c, u>>] = rows[<<c, u>>] /\ Unused(<<c, u>>)
      BY <3>1 DEF CallInv, Left, Messages
    <3>3. QED
      BY <3>2 DEF Unused
  <2>2. QED
    BY <1>2, <1>3, <2>1 DEF Left
<1>5. (reached[c] => reached'[c]) /\ (ok[c] => reached'[c])
  BY <1>2
<1>6. "in_app" \in tried'[c] => reached'[c]
  BY <1>1, <1>2, <1>5 DEF CallInv, Row
<1>7. Row(c)'
  <2>1. tx'[c].row = "none"
    BY DEF Clean
  <2>2. Message(c) \in pushed' <=> InApp(c)
    BY <1>1 DEF CallInv, Row
  <2>3. QED
    BY <1>2, <1>3, <1>6, <2>1, <2>2 DEF Row, Working, Trying
<1>8. Given(c)'
  BY <1>2, <1>3 DEF CallInv, Given
<1>9. Wanted(c)'
  BY <1>2 DEF Wanted
<1>10. QED
  BY <1>2, <1>4, <1>7, <1>8, <1>9

LEMMA LogStep ==
    ASSUME TypeOK, NEW c \in Calls, CallInv(c), Log(c)
    PROVE  CallInv(c)'
<1>1. /\ at[c] = "log" /\ Land(c) /\ Advance(c, ok[c])
      /\ UNCHANGED <<inputs, to, user, ok, health, isRead, pref, pushed, out, cut, late>>
  BY DEF Log
<1>2. /\ tx'[c] = Clean
      /\ \A m \in Messages \ {Message(c)} : rows'[m] = rows[m]
      /\ IF tx[c].row = "none" THEN rows' = rows ELSE rows'[Message(c)] = "pending"
      /\ c \in changes' <=> (tx[c].change \/ c \in changes)
  BY <1>1, LandRow DEF CallInv
<1>3. rows'[Message(c)] # "sent" /\ Message(c)' = Message(c) /\ InApp(c)' = InApp(c)
  BY <1>1, <1>2 DEF CallInv, Row, Working, Message, InApp, inputs
<1>4. /\ Left(c)' /\ Row(c)' /\ Progress(c)' /\ Given(c)' /\ Wanted(c)'
      /\ at'[c] \in {"check", "settle"}
  BY <1>1, <1>2, <1>3, AfterLog
<1>5. Truth(c)'
  <2> SUFFICES ASSUME c \notin cut PROVE Truth(c)'
    BY <1>1 DEF Truth
  <2>1. ASSUME NEW u \in Users, <<c, u>> \in pushed'
        PROVE  (at'[c] \in Working /\ u = user'[c]) \/ rows'[<<c, u>>] = "sent"
    <3>1. CASE u = user[c]
      BY <1>1, <1>4, <3>1 DEF Working
    <3>2. CASE u # user[c]
      <4>1. <<c, u>> \in Messages /\ <<c, u>> # Message(c)
        BY <3>2 DEF Messages, Message
      <4>2. rows[<<c, u>>] = "sent"
        BY <1>1, <2>1, <3>2 DEF CallInv, Truth
      <4>3. QED
        BY <1>2, <4>1, <4>2
    <3>3. QED
      BY <3>1, <3>2
  <2>2. InApp(c) => rows'[Message(c)] = "pending"
    BY <1>1, <1>2 DEF CallInv, Truth, Trying
  <2>3. health'[c] = "clean" /\ (kind'[c] = "after" => c \in changes')
    BY <1>1, <1>2 DEF CallInv, Truth, inputs
  <2>4. QED
    BY <1>3, <1>4, <2>1, <2>2, <2>3 DEF Truth
<1>6. QED
  BY <1>4, <1>5 DEF CallInv

LEMMA LogFailsStep ==
    ASSUME TypeOK, NEW c \in Calls, CallInv(c), LogFails(c)
    PROVE  CallInv(c)'
<1>1. /\ at[c] = "log" /\ Advance(c, ok[c]) /\ tx'[c] = Clean /\ c \in cut'
      /\ UNCHANGED <<inputs, to, user, pushed, out, rows>>
  BY DEF LogFails, Lose, TypeOK
<1>2. rows'[Message(c)] # "sent"
  BY <1>1 DEF CallInv, Row, Working
<1>3. Left(c)' /\ Row(c)' /\ Progress(c)' /\ Given(c)' /\ Wanted(c)'
  BY <1>1, <1>2, AfterLog
<1>4. Truth(c)'
  BY <1>1 DEF Truth
<1>5. QED
  BY <1>3, <1>4 DEF CallInv

-----------------------------------------------------------------------------
(* The steps after the channels                                            *)

\* What settling does to the message in turn.
LEMMA SettleRow ==
    ASSUME TypeOK, NEW c \in Calls, CallInv(c), Settle(c)
    PROVE  /\ tx'[c].row = "none"
           /\ \A m \in Messages \ {Message(c)} : rows'[m] = rows[m]
           /\ rows' = rows \/ /\ InApp(c) /\ rows[Message(c)] = "pending"
                              /\ rows' = [rows EXCEPT ![Message(c)] = "sent"]
           /\ InApp(c) /\ c \notin cut => rows'[Message(c)] = "sent"
           /\ tx[c].change \/ c \in changes => tx'[c].change \/ c \in changes'
<1>1. at[c] = "settle"
  BY DEF Settle
<1>2. CASE ~InApp(c)
  BY <1>1, <1>2 DEF Settle, CallInv, Row
<1>3. CASE InApp(c)
  <2>1. reached[c] /\ tx[c].row = "none" /\ FinalStatus(c) = "sent" /\ CommitStatus(c)
    BY <1>1, <1>3, SettleReached DEF CallInv, FinalStatus, Settle
  <2>2. CASE rows[Message(c)] = "none"
    <3>1. UNCHANGED <<tx, rows, changes>>
      BY <2>1, <2>2 DEF CommitStatus
    <3>2. c \in cut
      BY <1>1, <1>3, <2>1, <2>2 DEF CallInv, Truth
    <3>3. QED
      BY <2>1, <3>1, <3>2
  <2>3. CASE rows[Message(c)] # "none"
    <3>1. /\ rows' = [rows EXCEPT ![Message(c)] = "sent"]
          /\ changes' = (IF tx[c].change THEN changes \cup {c} ELSE changes)
          /\ tx' = [tx EXCEPT ![c] = Clean]
      BY <2>1, <2>3 DEF CommitStatus
    <3>2. rows[Message(c)] = "pending"
      BY <1>1, <2>3, MessageType DEF CallInv, Row, Working, TypeOK
    <3>3. tx'[c].row = "none"
      BY <3>1 DEF Clean, TypeOK
    <3>4. rows'[Message(c)] = "sent" /\ \A m \in Messages \ {Message(c)} : rows'[m] = rows[m]
      BY <3>1, MessageType DEF TypeOK
    <3>5. tx[c].change \/ c \in changes => c \in changes'
      BY <3>1
    <3>6. QED
      BY <1>3, <3>1, <3>2, <3>3, <3>4, <3>5
  <2>4. QED
    BY <2>2, <2>3
<1>4. QED
  BY <1>2, <1>3

LEMMA SettleStep ==
    ASSUME TypeOK, NEW c \in Calls, CallInv(c), Settle(c)
    PROVE  CallInv(c)'
<1>1. /\ at[c] = "settle" /\ at'[c] = "next"
      /\ UNCHANGED <<inputs, to, user, health, pushed, out, cut>>
  BY DEF Settle, Goto, TypeOK
<1>2. user[c] \notin to[c]
  BY <1>1 DEF CallInv, Left, Working
<1>3. Left(c)'
  <2>1. ASSUME NEW u \in to[c] PROVE Unused(<<c, u>>)'
    <3>1. <<c, u>> \in Messages /\ <<c, u>> # Message(c)
      BY <1>2 DEF Messages, Message, TypeOK
    <3>2. rows'[<<c, u>>] = rows[<<c, u>>] /\ Unused(<<c, u>>)
      BY <3>1, SettleRow DEF CallInv, Left, Messages
    <3>3. QED
      BY <1>1, <3>2 DEF Unused
  <2>2. QED
    BY <1>1, <2>1 DEF Left, Working
<1>4. Row(c)'
  BY <1>1, SettleRow DEF Row, Working, Trying
<1>5. Progress(c)' /\ Given(c)' /\ Wanted(c)'
  BY <1>1 DEF Progress, Given, Wanted, Trying
<1>6. Truth(c)'
  <2> SUFFICES ASSUME c \notin cut PROVE Truth(c)'
    BY <1>1 DEF Truth
  <2>1. ASSUME NEW u \in Users, <<c, u>> \in pushed' PROVE rows'[<<c, u>>] = "sent"
    <3>1. CASE u = user[c]
      <4>1. InApp(c) /\ Message(c) = <<c, u>>
        BY <1>1, <2>1, <3>1 DEF CallInv, Row, Message
      <4>2. QED
        BY <4>1, SettleRow
    <3>2. CASE u # user[c]
      <4>1. <<c, u>> \in Messages /\ <<c, u>> # Message(c)
        BY <3>2 DEF Messages, Message
      <4>2. rows[<<c, u>>] = "sent"
        BY <1>1, <2>1, <3>2 DEF CallInv, Truth
      <4>3. QED
        BY <4>1, <4>2, SettleRow
    <3>3. QED
      BY <3>1, <3>2
  <2>2. health'[c] = "clean" /\ (kind'[c] = "after" => tx'[c].change \/ c \in changes')
    BY <1>1, SettleRow DEF CallInv, Truth, inputs
  <2>3. QED
    BY <1>1, <2>1, <2>2 DEF Truth, Trying
<1>7. QED
  BY <1>3, <1>4, <1>5, <1>6 DEF CallInv

LEMMA FinishStep ==
    ASSUME TypeOK, NEW c \in Calls, CallInv(c), Finish(c)
    PROVE  CallInv(c)'
<1>1. /\ at[c] = "finish" /\ at'[c] \in {"done", "commit"}
      /\ at'[c] = "done" => kind[c] = "own"
      /\ UNCHANGED <<inputs, to, health, store, pushed, out, cut>>
      /\ UNCHANGED <<kind, rows, changes>>
  BY DEF Finish, Goto, TypeOK, inputs, store
<1>2. tx[c].row = "none"
  BY <1>1 DEF CallInv, Row, Working
<1>3. tx'[c].row = "none"
  BY <1>2 DEF Finish, TypeOK, Clean
<1>4. Left(c)'
  BY <1>1 DEF CallInv, Left, Unused, Working
<1>5. Row(c)' /\ Progress(c)' /\ Given(c)' /\ Wanted(c)'
  BY <1>1, <1>3 DEF Row, Progress, Given, Wanted, Working, Trying
<1>6. Truth(c)'
  <2> SUFFICES ASSUME c \notin cut PROVE Truth(c)'
    BY <1>1 DEF Truth
  <2>1. health[c] = "clean" /\ \A u \in Users : <<c, u>> \in pushed => rows[<<c, u>>] = "sent"
    BY <1>1 DEF CallInv, Truth, Working
  <2>2. kind[c] = "after" => tx'[c].change \/ c \in changes
    BY <1>1 DEF Finish, CallInv, Truth
  <2>3. kind[c] = "before" => tx'[c].change
    BY <2>1 DEF Finish, TypeOK
  <2>4. QED
    BY <1>1, <2>1, <2>2, <2>3 DEF Truth, Trying, Working
<1>7. QED
  BY <1>4, <1>5, <1>6 DEF CallInv

LEMMA CommitStep ==
    ASSUME TypeOK, NEW c \in Calls, CallInv(c), Commit(c)
    PROVE  CallInv(c)'
<1>1. /\ at[c] = "commit" /\ at'[c] = "done" /\ Land(c)
      /\ UNCHANGED <<inputs, to, health, pushed, out, cut>> /\ UNCHANGED kind
  BY DEF Commit, Goto, TypeOK, inputs
<1>2. tx[c].row = "none"
  BY <1>1 DEF CallInv, Row, Working
<1>3. /\ rows' = rows /\ tx'[c].row = "none"
      /\ c \in changes' <=> (tx[c].change \/ c \in changes)
  BY <1>1, <1>2, LandRow DEF CallInv, Clean
<1>4. Left(c)'
  BY <1>1, <1>3 DEF CallInv, Left, Unused, Working
<1>5. Row(c)' /\ Progress(c)' /\ Given(c)' /\ Wanted(c)'
  BY <1>1, <1>3 DEF Row, Progress, Given, Wanted, Working, Trying
<1>6. Truth(c)'
  BY <1>1, <1>3 DEF CallInv, Truth, Trying, Working
<1>7. QED
  BY <1>4, <1>5, <1>6 DEF CallInv

LEMMA RaiseStep ==
    ASSUME TypeOK, NEW c \in Calls, CallInv(c), Raise(c)
    PROVE  CallInv(c)'
<1>1. /\ at'[c] = "done" /\ to'[c] = {} /\ c \in cut' /\ tx'[c].row = "none"
  BY DEF Raise, Goto, TypeOK, Clean
<1>2. QED
  BY <1>1 DEF CallInv, Left, Row, Progress, Given, Wanted, Truth, Working, Trying

-----------------------------------------------------------------------------
(* The invariant                                                           *)

LEMMA InvInit == Init => IInv
<1> SUFFICES ASSUME Init PROVE IInv
  OBVIOUS
<1>1. TypeOK
  BY TypeInit
<1>2. ASSUME NEW c \in Calls PROVE CallInv(c)
  <2>1. /\ at[c] = "start" /\ to[c] = {} /\ pushed = {} /\ health[c] = "clean"
        /\ tx[c].row = "none" /\ (kind[c] = "after" => tx[c].change)
    BY DEF Init, Clean
  <2>2. \A u \in Users : rows[<<c, u>>] = "none" /\ \A ch \in External : out[<<c, u>>][ch] = 0
    BY DEF Init, Messages
  <2>3. Left(c)
    BY <2>1, <2>2 DEF Left, Unused, Working
  <2>4. Row(c) /\ Progress(c) /\ Given(c) /\ Wanted(c)
    BY <2>1 DEF Row, Progress, Given, Wanted, Working, Trying
  <2>5. Truth(c)
    BY <2>1 DEF Truth, Trying
  <2>6. QED
    BY <2>3, <2>4, <2>5 DEF CallInv
<1>3. QED
  BY <1>1, <1>2 DEF IInv

LEMMA InvStep ==
    ASSUME IInv, NEW c \in Calls, Step(c)
    PROVE  IInv'
<1>1. TypeOK /\ CallInv(c)
  BY DEF IInv
<1>2. TypeOK'
  BY <1>1, TypeStep
<1>3. CallInv(c)'
  BY <1>1, StartStep, NextRecipientStep, PersistStep, PushStep, CheckStep, ProviderStep,
     LogStep, LogFailsStep, SettleStep, FinishStep, CommitStep, RaiseStep DEF Step
<1>4. \A d \in Calls \ {c} : CallInv(d)'
  BY OtherCalls DEF IInv
<1>5. QED
  BY <1>2, <1>3, <1>4 DEF IInv

\* What a recipient's own requests change concerns the preference alone.
LEMMA InvRequest ==
    ASSUME IInv,
           \/ \E m \in Messages : MarkRead(m)
           \/ \E u \in Users, ch \in External, choice \in {"on", "off"} :
                SetPreference(u, ch, choice)
    PROVE  IInv'
<1>1. UNCHANGED <<kind, list, supers, at, to, user, pos, spare, tried, reached, ok, health, tx,
                  changes, rows, pushed, out, cut>>
  BY DEF MarkRead, SetPreference, inputs, control
<1>2. /\ isRead' \subseteq Messages /\ late' \subseteq Calls
      /\ pref' \in [Users -> [External -> {"none", "on", "off"}]]
  <2>1. CASE \E m \in Messages : MarkRead(m)
    BY <2>1 DEF IInv, TypeOK, MarkRead
  <2>2. CASE \E u \in Users, ch \in External, choice \in {"on", "off"} : SetPreference(u, ch, choice)
    <3>1. PICK u \in Users, ch \in External, choice \in {"on", "off"} : SetPreference(u, ch, choice)
      BY <2>2
    <3>2. pref' = [pref EXCEPT ![u] = [pref[u] EXCEPT ![ch] = choice]]
      BY <3>1 DEF SetPreference
    <3>3. [pref[u] EXCEPT ![ch] = choice] \in [External -> {"none", "on", "off"}]
      BY DEF IInv, TypeOK
    <3>4. pref' \in [Users -> [External -> {"none", "on", "off"}]]
      BY <3>2, <3>3 DEF IInv, TypeOK
    <3>5. QED
      BY <3>1, <3>4 DEF IInv, TypeOK, SetPreference
  <2>3. QED
    BY <2>1, <2>2
<1>3. TypeOK'
  BY <1>1, <1>2 DEF IInv, TypeOK
<1>4. ASSUME NEW c \in Calls PROVE CallInv(c)'
  <2>1. CallInv(c)
    BY DEF IInv
  <2>2. Message(c)' = Message(c) /\ InApp(c)' = InApp(c) /\ Channel(c)' = Channel(c)
    BY <1>1 DEF Message, InApp, Channel
  <2>3. Left(c)' /\ Row(c)' /\ Progress(c)' /\ Given(c)' /\ Truth(c)'
    BY <1>1, <2>1, <2>2 DEF CallInv, Left, Unused, Row, Progress, Done, Given, Truth
  <2>4. Wanted(c)'
    <3>1. CASE \E m \in Messages : MarkRead(m)
      BY <1>1, <2>1, <2>2, <3>1 DEF CallInv, Wanted, MarkRead
    <3>2. CASE \E u \in Users, ch \in External, choice \in {"on", "off"} : SetPreference(u, ch, choice)
      <4>1. PICK u \in Users, ch \in External, choice \in {"on", "off"} : SetPreference(u, ch, choice)
        BY <3>2
      <4> SUFFICES ASSUME at[c] = "provider"
                   PROVE  pref'[user[c]][Channel(c)] # "off" \/ c \in late'
        BY <1>1, <2>2 DEF Wanted
      <4>2. CASE user[c] = u /\ Channel(c) = ch
        BY <4>1, <4>2 DEF SetPreference
      <4>3. CASE ~(user[c] = u /\ Channel(c) = ch)
        <5>1. pref'[user[c]][Channel(c)] = pref[user[c]][Channel(c)]
          BY <4>1, <4>3, <2>1 DEF SetPreference, IInv, TypeOK, CallInv, Row
        <5>2. QED
          BY <2>1, <4>1, <5>1 DEF CallInv, Wanted, SetPreference
      <4>4. QED
        BY <4>2, <4>3
    <3>3. QED
      BY <3>1, <3>2
  <2>5. QED
    BY <2>3, <2>4 DEF CallInv
<1>5. QED
  BY <1>3, <1>4 DEF IInv

LEMMA InvNext == IInv /\ [Next]_vars => IInv'
<1> SUFFICES ASSUME IInv, [Next]_vars PROVE IInv'
  OBVIOUS
<1>1. CASE UNCHANGED vars
  <2>1. UNCHANGED <<kind, list, supers, at, to, user, pos, spare, tried, reached, ok, health, tx,
                    changes, rows, isRead, pref, pushed, out, cut, late>>
    BY <1>1 DEF vars, inputs, control, store
  <2>2. TypeOK'
    BY <2>1 DEF IInv, TypeOK
  <2>3. ASSUME NEW c \in Calls PROVE CallInv(c)'
    <3>1. Message(c)' = Message(c) /\ InApp(c)' = InApp(c) /\ Channel(c)' = Channel(c)
      BY <2>1 DEF Message, InApp, Channel
    <3>2. CallInv(c)
      BY DEF IInv
    <3>3. QED
      BY <2>1, <3>1, <3>2
         DEF CallInv, Left, Unused, Row, Progress, Done, Given, Truth, Wanted
  <2>4. QED
    BY <2>2, <2>3 DEF IInv
<1>2. CASE Next
  BY <1>2, InvStep, InvRequest DEF Next
<1>3. QED
  BY <1>1, <1>2

LEMMA Invariance == Spec => []IInv
BY InvInit, InvNext, PTL DEF Spec

-----------------------------------------------------------------------------
(* What follows                                                            *)

\* A failed channel tries every fallback before the notification counts as
\* failed, and a user who opted out of a channel hears nothing there
\* (service.py:268, :456), for any calls, users and fallbacks.
THEOREM ChannelsKeepTheirPromise == Spec => []ChannelsAsPromised
<1>1. IInv => ChannelsAsPromised
  <2> SUFFICES ASSUME IInv PROVE ChannelsAsPromised
    OBVIOUS
  <2>1. EveryFallbackTried
    BY DEF IInv, CallInv, Progress, EveryFallbackTried
  <2>2. OptOutHolds
    BY DEF IInv, CallInv, Wanted, OptOutHolds
  <2>3. QED
    BY <2>1, <2>2 DEF IInv, ChannelsAsPromised
<1>2. QED
  BY <1>1, Invariance, PTL

\* What was pushed to a recipient is true unless the call was cut short
\* (service.py:238).
THEOREM WhatIsPushedIsTrue == Spec => []PushedIsTrue
<1>1. IInv => PushedIsTrue
  BY DEF IInv, CallInv, Truth, PushedIsTrue, Working
<1>2. QED
  BY <1>1, Invariance, PTL

LEMMA LifecycleInit == Init => Lifecycle!Init
BY DEF Init, Lifecycle!Init

\* Every step of a call is a step of a message's life, or none.
LEMMA LifecycleStep ==
    ASSUME IInv, NEW c \in Calls, Step(c)
    PROVE  [Lifecycle!Next]_(Lifecycle!vars)
<1> USE DEF Lifecycle!vars
<1>1. TypeOK /\ CallInv(c) /\ Message(c) \in Messages
  BY MessageType DEF IInv
<1>2. UNCHANGED isRead
  BY <1>1, Frame
<1>3. CASE Push(c)
  <2>1. Message(c) \notin pushed /\ rows[Message(c)] = "none"
    BY <1>1, <1>3 DEF Push, CallInv, Row
  <2>2. Lifecycle!Push(Message(c))
    BY <1>3, <2>1 DEF Push, store, Lifecycle!Push
  <2>3. QED
    BY <1>1, <2>2 DEF Lifecycle!Next
<1>4. CASE Provider(c)
  <2>1. PICK o \in Outcomes :
          out' = IF o.accepted THEN [out EXCEPT ![Message(c)][Channel(c)] = @ + 1] ELSE out
    BY <1>4 DEF Provider
  <2>2. UNCHANGED <<pushed, rows, isRead>>
    BY <1>4 DEF Provider, store
  <2>3. at[c] = "provider" /\ Channel(c) \in External /\ out[Message(c)][Channel(c)] = 0
    BY <1>1, <1>4 DEF Provider, CallInv, Row, Progress, Given, Trying
  <2>4. CASE o.accepted
    <3>1. out' = [out EXCEPT ![Message(c)][Channel(c)] = 1]
      BY <1>1, <2>1, <2>3, <2>4 DEF TypeOK
    <3>2. rows[Message(c)] # "sent"
      BY <1>1, <2>3 DEF CallInv, Row, Working
    <3>3. Lifecycle!Deliver(Message(c), Channel(c))
      BY <2>2, <2>3, <3>1, <3>2 DEF Lifecycle!Deliver
    <3>4. QED
      BY <1>1, <2>3, <3>3 DEF Lifecycle!Next
  <2>5. CASE ~o.accepted
    BY <2>1, <2>2, <2>5
  <2>6. QED
    BY <2>4, <2>5
<1>5. CASE Log(c)
  <2>1. Land(c) /\ at[c] = "log" /\ UNCHANGED <<pushed, out>>
    BY <1>5 DEF Log
  <2>2. CASE tx[c].row = "none"
    BY <1>1, <1>2, <2>1, <2>2, LandRow DEF CallInv
  <2>3. CASE tx[c].row # "none"
    <3>1. rows' = [rows EXCEPT ![Message(c)] = "pending"]
      BY <1>1, <2>1, <2>3, LandRow DEF CallInv
    <3>2. rows[Message(c)] = "none" /\ Message(c) \in pushed
      BY <1>1, <2>1, <2>3 DEF CallInv, Row, Trying
    <3>3. Lifecycle!Record(Message(c))
      BY <1>2, <2>1, <3>1, <3>2 DEF Lifecycle!Record
    <3>4. QED
      BY <1>1, <3>3 DEF Lifecycle!Next
  <2>4. QED
    BY <2>2, <2>3
<1>6. CASE Settle(c)
  <2>1. UNCHANGED <<pushed, out>>
    BY <1>6 DEF Settle
  <2>2. CASE rows' = rows
    BY <1>2, <2>1, <2>2
  <2>3. CASE rows' # rows
    <3>1. rows[Message(c)] = "pending" /\ rows' = [rows EXCEPT ![Message(c)] = "sent"]
      BY <1>1, <1>6, <2>3, SettleRow
    <3>2. Lifecycle!Settle(Message(c))
      BY <1>2, <2>1, <3>1 DEF Lifecycle!Settle
    <3>3. QED
      BY <1>1, <3>2 DEF Lifecycle!Next
  <2>4. QED
    BY <2>2, <2>3
<1>7. CASE Commit(c)
  <2>1. Land(c) /\ UNCHANGED <<pushed, out>> /\ tx[c].row = "none"
    BY <1>1, <1>7 DEF Commit, CallInv, Row, Working
  <2>2. QED
    BY <1>1, <1>2, <2>1, LandRow DEF CallInv
<1>8. CASE \/ Start(c) \/ NextRecipient(c) \/ Persist(c) \/ Check(c) \/ LogFails(c) \/ Finish(c)
           \/ Raise(c)
  BY <1>8 DEF Start, NextRecipient, Persist, Check, LogFails, Lose, Finish, Raise, store
<1>9. QED
  BY <1>3, <1>4, <1>5, <1>6, <1>7, <1>8 DEF Step

\* Whatever the sessions do, each message goes through its life as the
\* abstract specification has it (service.py:235-290).
THEOREM MessagesLiveAsPromised == Spec => ImplementsLifecycle
<1>1. IInv /\ [Next]_vars => [Lifecycle!Next]_(Lifecycle!vars)
  <2> SUFFICES ASSUME IInv, [Next]_vars PROVE [Lifecycle!Next]_(Lifecycle!vars)
    OBVIOUS
  <2>1. CASE \E c \in Calls : Step(c)
    BY <2>1, LifecycleStep
  <2>2. CASE \E m \in Messages : MarkRead(m)
    <3>1. PICK m \in Messages : MarkRead(m)
      BY <2>2
    <3>2. Lifecycle!MarkRead(m)
      BY <3>1 DEF MarkRead, Lifecycle!MarkRead
    <3>3. QED
      BY <3>2 DEF Lifecycle!Next
  <2>3. CASE \E u \in Users, ch \in External, choice \in {"on", "off"} : SetPreference(u, ch, choice)
    BY <2>3 DEF SetPreference, Lifecycle!vars
  <2>4. CASE UNCHANGED vars
    BY <2>4 DEF vars, store, Lifecycle!vars
  <2>5. QED
    BY <2>1, <2>2, <2>3, <2>4 DEF Next
<1>2. QED
  BY <1>1, LifecycleInit, Invariance, PTL DEF Spec, ImplementsLifecycle, Lifecycle!Spec
-----------------------------------------------------------------------------
(* The realtime hub                                                        *)

\* A payload was put on the stream's queue after the stream's last n ones.
IsEnd(q, g) ==
    /\ Len(q) <= Len(g)
    /\ \A i \in 1 .. Len(q) : q[i] = g[Len(g) - Len(q) + i]

\* Every socket of an audience is reached, lost or still to come.
ReachInv ==
    \A m \in Publications : stage[m] # "idle" =>
        \A c \in audience[m] :
            \/ m \in heard[c]
            \/ sock[c] \in {"broken", "closing", "closed"}
            \/ stage[m] = "sending" /\ \E i \in DOMAIN todo[m] : todo[m][i] = c

\* What waits for a stream is the end of what was given to it.
QueueInv == \A s \in Streams : IsEnd(queue[s], given[s])

\* The hub holds open streams, and notices when it holds both kinds.
KindsInv ==
    /\ \A s \in sse : stream[s] = "open"
    /\ ws # {} /\ sse # {} => mixed

\* The time of last activity is no older than any socket's.
TimeInv ==
    \A c \in Sockets :
        /\ lastHeard[c] <= now
        /\ lastActive # None => lastHeard[c] <= lastActive

HubInv == HubTypeOK /\ ReachInv /\ QueueInv /\ KindsInv /\ TimeInv /\ ConnectionsAreTracked

-----------------------------------------------------------------------------
(* Sequences                                                               *)

\* An order of the sockets is a sequence of them that misses none.
LEMMA OrderLists ==
    ASSUME NEW S, IsFiniteSet(S), NEW f \in Orders(S)
    PROVE  f \in Seq(S) /\ \A c \in S : \E i \in DOMAIN f : f[i] = c
<1>1. Cardinality(S) \in Nat
  BY FS_CardinalityType
<1>2. QED
  BY <1>1 DEF Orders

\* The pointwise end of a sequence is its SubSeq.
LEMMA EndIsSubSeq ==
    ASSUME NEW P, NEW q \in Seq(P), NEW g \in Seq(P), IsEnd(q, g)
    PROVE  LET lost == Len(g) - Len(q)
           IN  lost >= 0 /\ q = SubSeq(g, lost + 1, Len(g))
<1> DEFINE lost == Len(g) - Len(q)
           t == SubSeq(g, lost + 1, Len(g))
<1>1. lost \in Nat /\ Len(q) \in Nat /\ Len(g) \in Nat
  BY DEF IsEnd
<1>2. t \in Seq(P) /\ Len(t) = Len(q)
  BY <1>1
<1>3. \A i \in 1 .. Len(q) : t[i] = g[lost + i]
  BY <1>1
<1>4. \A i \in 1 .. Len(q) : t[i] = q[i]
  BY <1>3 DEF IsEnd
<1>5. q = t
  BY <1>2, <1>4, SeqEqual
<1>6. QED
  BY <1>1, <1>5

\* Taking the oldest payload leaves an end.
LEMMA EndOfTail ==
    ASSUME NEW P, NEW q \in Seq(P), NEW g \in Seq(P), IsEnd(q, g), q # <<>>
    PROVE  Tail(q) \in Seq(P) /\ Len(Tail(q)) = Len(q) - 1 /\ IsEnd(Tail(q), g)
<1>1. Tail(q) \in Seq(P) /\ Len(Tail(q)) = Len(q) - 1 /\ Len(q) \in Nat \ {0} /\ Len(g) \in Nat
  OBVIOUS
<1>2. \A i \in 1 .. Len(Tail(q)) : Tail(q)[i] = q[i + 1]
  BY <1>1
<1>3. \A i \in 1 .. Len(Tail(q)) : i + 1 \in 1 .. Len(q)
                                   /\ Len(g) - Len(q) + (i + 1) = Len(g) - Len(Tail(q)) + i
  BY <1>1
<1>4. QED
  BY <1>1, <1>2, <1>3 DEF IsEnd

\* A payload put on the queue and given to the stream keeps the end.
LEMMA EndOfAppend ==
    ASSUME NEW P, NEW q \in Seq(P), NEW g \in Seq(P), IsEnd(q, g), NEW m \in P
    PROVE  Append(q, m) \in Seq(P) /\ Append(g, m) \in Seq(P) /\ IsEnd(Append(q, m), Append(g, m))
<1>1. Len(q) \in Nat /\ Len(g) \in Nat /\ Len(Append(q, m)) = Len(q) + 1 /\ Len(Append(g, m)) = Len(g) + 1
  OBVIOUS
<1>2. \A i \in 1 .. Len(q) + 1 :
        Append(q, m)[i] = Append(g, m)[(Len(g) + 1) - (Len(q) + 1) + i]
  <2>1. TAKE i \in 1 .. Len(q) + 1
  <2>2. CASE i = Len(q) + 1
    BY <1>1, <2>2
  <2>3. CASE i # Len(q) + 1
    <3>1. i \in 1 .. Len(q) /\ Len(g) - Len(q) + i \in 1 .. Len(g)
      BY <1>1, <2>3 DEF IsEnd
    <3>2. q[i] = g[Len(g) - Len(q) + i]
      BY <3>1 DEF IsEnd
    <3>3. (Len(g) + 1) - (Len(q) + 1) + i = Len(g) - Len(q) + i
      BY <1>1, <3>1
    <3>4. Append(q, m)[i] = q[i] /\ Append(g, m)[Len(g) - Len(q) + i] = g[Len(g) - Len(q) + i]
      BY <3>1
    <3>5. QED
      BY <3>2, <3>3, <3>4
  <2>4. QED
    BY <2>2, <2>3
<1>3. Append(q, m) \in Seq(P) /\ Append(g, m) \in Seq(P)
  OBVIOUS
<1>4. Len(Append(q, m)) <= Len(Append(g, m))
  BY <1>1 DEF IsEnd
<1>5. IsEnd(Append(q, m), Append(g, m))
  BY <1>1, <1>2, <1>4 DEF IsEnd
<1>6. QED
  BY <1>3, <1>5

\* publish's put never exceeds the queue's size and loses the oldest only.
LEMMA EndOfPut ==
    ASSUME NEW P, NEW q \in Seq(P), NEW g \in Seq(P), IsEnd(q, g), Len(q) <= QueueSize, NEW m \in P
    PROVE  /\ Put(q, m) \in Seq(P) /\ Append(g, m) \in Seq(P)
           /\ Len(Put(q, m)) <= QueueSize
           /\ IsEnd(Put(q, m), Append(g, m))
<1>1. CASE Len(q) = QueueSize
  <2>1. q # <<>>
    BY <1>1, SizeAssumption
  <2>2. Tail(q) \in Seq(P) /\ Len(Tail(q)) = Len(q) - 1 /\ IsEnd(Tail(q), g)
    BY <2>1, EndOfTail
  <2>3. /\ Append(Tail(q), m) \in Seq(P) /\ Append(g, m) \in Seq(P)
        /\ IsEnd(Append(Tail(q), m), Append(g, m))
    BY <2>2, EndOfAppend
  <2>4. QED
    BY <1>1, <2>2, <2>3 DEF Put
<1>2. CASE Len(q) # QueueSize
  <2>1. Append(q, m) \in Seq(P) /\ Append(g, m) \in Seq(P) /\ IsEnd(Append(q, m), Append(g, m))
    BY EndOfAppend
  <2>2. QED
    BY <1>2, <2>1, SizeAssumption DEF Put
<1>3. QED
  BY <1>1, <1>2

\* A payload given to a stream stays given.
LEMMA AppendKeeps ==
    ASSUME NEW P, NEW g \in Seq(P), NEW m \in P
    PROVE  /\ \A i \in DOMAIN g : i \in DOMAIN Append(g, m) /\ Append(g, m)[i] = g[i]
           /\ Len(g) + 1 \in DOMAIN Append(g, m) /\ Append(g, m)[Len(g) + 1] = m
OBVIOUS

-----------------------------------------------------------------------------
(* The queues                                                              *)

LEMMA QueueBasics ==
    ASSUME HubTypeOK, NEW s \in Streams
    PROVE  /\ queue[s] \in Seq(Payloads) /\ given[s] \in Seq(Payloads)
           /\ Len(queue[s]) <= QueueSize
BY DEF HubTypeOK

\* What a publication does to the queues.
LEMMA QueuePublish ==
    ASSUME HubTypeOK, QueueInv, NEW m \in Publications, PublishSse(m)
    PROVE  /\ queue' = [s \in Streams |-> queue'[s]] /\ given' = [s \in Streams |-> given'[s]]
           /\ \A s \in Streams : /\ queue'[s] \in Seq(Payloads) /\ given'[s] \in Seq(Payloads)
                                 /\ Len(queue'[s]) <= QueueSize
                                 /\ IsEnd(queue'[s], given'[s])
                                 /\ given'[s] \in {given[s], Append(given[s], m)}
<1>1. /\ queue' = [s \in Streams |-> IF s \in sse THEN Put(queue[s], m) ELSE queue[s]]
      /\ given' = [s \in Streams |-> IF s \in sse THEN Append(given[s], m) ELSE given[s]]
  BY DEF PublishSse
<1>2. ASSUME NEW s \in Streams
      PROVE  /\ queue'[s] \in Seq(Payloads) /\ given'[s] \in Seq(Payloads)
             /\ Len(queue'[s]) <= QueueSize
             /\ IsEnd(queue'[s], given'[s])
             /\ given'[s] \in {given[s], Append(given[s], m)}
  <2>1. /\ queue[s] \in Seq(Payloads) /\ given[s] \in Seq(Payloads)
        /\ Len(queue[s]) <= QueueSize /\ IsEnd(queue[s], given[s]) /\ m \in Payloads
    BY QueueBasics DEF QueueInv, Payloads
  <2>2. /\ Put(queue[s], m) \in Seq(Payloads) /\ Append(given[s], m) \in Seq(Payloads)
        /\ Len(Put(queue[s], m)) <= QueueSize
        /\ IsEnd(Put(queue[s], m), Append(given[s], m))
    BY <2>1, EndOfPut
  <2>3. QED
    BY <1>1, <2>1, <2>2
<1>3. QED
  BY <1>1, <1>2

\* What a close marker does to the queues it fits in.
LEMMA QueueMark ==
    ASSUME HubTypeOK, QueueInv, NEW S \in SUBSET Streams, \A s \in S : ~Full(s), MarkClosed(S)
    PROVE  /\ queue' = [s \in Streams |-> queue'[s]] /\ given' = [s \in Streams |-> given'[s]]
           /\ \A s \in Streams : /\ queue'[s] \in Seq(Payloads) /\ given'[s] \in Seq(Payloads)
                                 /\ Len(queue'[s]) <= QueueSize
                                 /\ IsEnd(queue'[s], given'[s])
                                 /\ given'[s] = IF s \in S THEN Append(given[s], Close) ELSE given[s]
<1>1. /\ queue' = [s \in Streams |-> IF s \in S THEN Append(queue[s], Close) ELSE queue[s]]
      /\ given' = [s \in Streams |-> IF s \in S THEN Append(given[s], Close) ELSE given[s]]
  BY DEF MarkClosed
<1>2. ASSUME NEW s \in Streams
      PROVE  /\ queue'[s] \in Seq(Payloads) /\ given'[s] \in Seq(Payloads)
             /\ Len(queue'[s]) <= QueueSize
             /\ IsEnd(queue'[s], given'[s])
  <2>1. /\ queue[s] \in Seq(Payloads) /\ given[s] \in Seq(Payloads)
        /\ Len(queue[s]) <= QueueSize /\ IsEnd(queue[s], given[s]) /\ Close \in Payloads
    BY QueueBasics DEF QueueInv, Payloads
  <2>2. /\ Append(queue[s], Close) \in Seq(Payloads) /\ Append(given[s], Close) \in Seq(Payloads)
        /\ IsEnd(Append(queue[s], Close), Append(given[s], Close))
    BY <2>1, EndOfAppend
  <2>3. s \in S => Len(Append(queue[s], Close)) <= QueueSize
    BY <2>1, SizeAssumption DEF Full
  <2>4. QED
    BY <1>1, <2>1, <2>2, <2>3
<1>3. QED
  BY <1>1, <1>2

\* What a stream's read does to its queue.
LEMMA QueueDrain ==
    ASSUME HubTypeOK, QueueInv, NEW t \in Streams, Drain(t)
    PROVE  \A s \in Streams : /\ queue'[s] \in Seq(Payloads)
                              /\ Len(queue'[s]) <= QueueSize
                              /\ IsEnd(queue'[s], given[s])
<1>1. queue' = [queue EXCEPT ![t] = Tail(queue[t])] /\ queue[t] # <<>>
  BY DEF Drain
<1>2. \A s \in Streams : /\ queue[s] \in Seq(Payloads) /\ given[s] \in Seq(Payloads)
                         /\ Len(queue[s]) <= QueueSize /\ IsEnd(queue[s], given[s])
  BY QueueBasics DEF QueueInv
<1>3. /\ Tail(queue[t]) \in Seq(Payloads) /\ Len(Tail(queue[t])) = Len(queue[t]) - 1
      /\ IsEnd(Tail(queue[t]), given[t])
  BY <1>1, <1>2, EndOfTail
<1>4. \A s \in Streams : queue'[s] = IF s = t THEN Tail(queue[t]) ELSE queue[s]
  BY <1>1 DEF HubTypeOK
<1>5. Len(Tail(queue[t])) <= QueueSize
  BY <1>2, <1>3, SizeAssumption
<1>6. ASSUME NEW s \in Streams
      PROVE  queue'[s] \in Seq(Payloads) /\ Len(queue'[s]) <= QueueSize /\ IsEnd(queue'[s], given[s])
  <2>1. CASE s = t
    BY <1>3, <1>4, <1>5, <2>1
  <2>2. CASE s # t
    BY <1>2, <1>4, <2>2
  <2>3. QED
    BY <2>1, <2>2
<1>7. QED
  BY <1>6

-----------------------------------------------------------------------------
(* Types                                                                   *)

LEMMA HubTypeInit == HubInit => HubTypeOK
<1> SUFFICES ASSUME HubInit PROVE HubTypeOK
  OBVIOUS
<1>1. <<>> \in Seq(Payloads) /\ <<>> \in Seq(Sockets) /\ Len(<<>>) = 0
  OBVIOUS
<1>2. /\ queue \in [Streams -> Seq(Payloads)] /\ given \in [Streams -> Seq(Payloads)]
      /\ todo \in [Publications -> Seq(Sockets)]
  BY <1>1 DEF HubInit
<1>3. \A s \in Streams : Len(queue[s]) <= QueueSize
  BY <1>1, SizeAssumption DEF HubInit
<1>4. now \in 0 .. MaxTime /\ lastHeard \in [Sockets -> 0 .. MaxTime] /\ lastActive = None
  BY SizeAssumption DEF HubInit
<1>5. /\ sock \in [Sockets -> {"new", "open", "slow", "broken", "closing", "closed"}]
      /\ stream \in [Streams -> {"new", "open", "closed"}]
      /\ stage \in [Publications -> {"idle", "sending", "done"}]
      /\ audience \in [Publications -> SUBSET Sockets] /\ heard \in [Sockets -> SUBSET Publications]
      /\ ws = {} /\ sse = {} /\ mixed \in BOOLEAN
  BY DEF HubInit
<1>6. QED
  BY <1>2, <1>3, <1>4, <1>5 DEF HubTypeOK

\* A socket still to come is a socket.
LEMMA HeadIsSocket ==
    ASSUME HubTypeOK, NEW m \in Publications, todo[m] # <<>>
    PROVE  Head(todo[m]) \in Sockets /\ Tail(todo[m]) \in Seq(Sockets)
BY DEF HubTypeOK

LEMMA StartOrder ==
    ASSUME HubTypeOK, NEW order \in Orders(ws)
    PROVE  order \in Seq(Sockets) /\ \A c \in ws : \E i \in DOMAIN order : order[i] = c
<1>1. ws \subseteq Sockets /\ IsFiniteSet(ws)
  BY SocketsAssumption, FS_Subset DEF HubTypeOK
<1>2. order \in Seq(ws) /\ \A c \in ws : \E i \in DOMAIN order : order[i] = c
  BY <1>1, OrderLists
<1>3. QED
  BY <1>1, <1>2

LEMMA TypeNext == HubTypeOK /\ QueueInv /\ [HubNext]_hubVars => HubTypeOK'
<1> SUFFICES ASSUME HubTypeOK, QueueInv, [HubNext]_hubVars PROVE HubTypeOK'
  OBVIOUS
<1> USE DEF HubTypeOK
<1>1. ASSUME NEW c \in Sockets, Socket(c) PROVE HubTypeOK'
  <2>1. CASE ConnectWs(c)
    BY <2>1 DEF ConnectWs, NoteMixed, pub
  <2>2. CASE Stall(c)
    BY <2>2 DEF Stall, hub, pub, history
  <2>3. CASE PeerGone(c)
    BY <2>3 DEF PeerGone, hub, pub, history
  <2>4. CASE DisconnectWs(c)
    BY <2>4 DEF DisconnectWs, ForgetSocket, pub, history
  <2>5. QED
    BY <1>1, <2>1, <2>2, <2>3, <2>4 DEF Socket
<1>2. ASSUME NEW s \in Streams, Stream(s) PROVE HubTypeOK'
  <2>1. CASE ConnectSse(s)
    BY <2>1 DEF ConnectSse, NoteMixed, pub
  <2>2. CASE Drain(s)
    <3>1. queue' \in [Streams -> Seq(Payloads)]
      BY <2>2 DEF Drain
    <3>2. \A t \in Streams : Len(queue'[t]) <= QueueSize
      BY <2>2, QueueDrain
    <3>3. QED
      BY <2>2, <3>1, <3>2 DEF Drain, hub, pub, history
  <2>3. CASE DisconnectSse(s)
    BY <2>3 DEF DisconnectSse, ForgetStream, pub, history
  <2>4. QED
    BY <1>2, <2>1, <2>2, <2>3 DEF Stream
<1>3. ASSUME NEW m \in Publications, Publish(m) PROVE HubTypeOK'
  <2>1. CASE PublishStart(m)
    <3>1. PICK order \in Orders(ws) : todo' = [todo EXCEPT ![m] = order]
      BY <2>1 DEF PublishStart
    <3>2. todo' \in [Publications -> Seq(Sockets)]
      BY <3>1, StartOrder
    <3>3. QED
      BY <2>1, <3>2 DEF PublishStart, hub, ends
  <2>2. CASE Sent(m)
    BY <2>2, HeadIsSocket DEF Sent, ends
  <2>3. CASE SendFails(m)
    BY <2>3, HeadIsSocket DEF SendFails, AfterFailure, ForgetSocket, ends, history
  <2>4. CASE PublishSse(m)
    <3>1. queue' \in [Streams -> Seq(Payloads)] /\ given' \in [Streams -> Seq(Payloads)]
      BY <2>4, QueuePublish
    <3>2. \A t \in Streams : Len(queue'[t]) <= QueueSize
      BY <2>4, QueuePublish
    <3>3. QED
      BY <2>4, <3>1, <3>2 DEF PublishSse, hub
  <2>5. QED
    BY <1>3, <2>1, <2>2, <2>3, <2>4 DEF Publish
<1>4. CASE Prune
  <2>1. queue' \in [Streams -> Seq(Payloads)] /\ given' \in [Streams -> Seq(Payloads)]
        /\ \A t \in Streams : Len(queue'[t]) <= QueueSize
    BY <1>4, QueueMark DEF Prune
  <2>2. sock' \in [Sockets -> {"new", "open", "slow", "broken", "closing", "closed"}]
    BY <1>4 DEF Prune, CloseSockets
  <2>3. QED
    BY <1>4, <2>1, <2>2 DEF Prune, CloseSockets, pub
<1>5. CASE PruneRaises
  <2>1. PICK S \in SUBSET {s \in sse : ~Full(s)} : MarkClosed(S)
    BY <1>5 DEF PruneRaises
  <2>2. S \in SUBSET Streams /\ \A s \in S : ~Full(s)
    BY <2>1
  <2>3. queue' \in [Streams -> Seq(Payloads)] /\ given' \in [Streams -> Seq(Payloads)]
        /\ \A t \in Streams : Len(queue'[t]) <= QueueSize
    BY <2>1, <2>2, QueueMark
  <2>4. sock' \in [Sockets -> {"new", "open", "slow", "broken", "closing", "closed"}]
    BY <1>5 DEF PruneRaises, CloseSockets
  <2>5. QED
    BY <1>5, <2>3, <2>4 DEF PruneRaises, CloseSockets, pub
<1>6. CASE Tick
  BY <1>6, SizeAssumption DEF Tick, hub, ends, pub, history
<1>7. CASE UNCHANGED hubVars
  BY <1>7 DEF hubVars, hub, ends, pub, history
<1>8. QED
  BY <1>1, <1>2, <1>3, <1>4, <1>5, <1>6, <1>7 DEF HubNext

-----------------------------------------------------------------------------
(* The queues, the kinds of connection and the clock                       *)

LEMMA QueueNext == HubTypeOK /\ QueueInv /\ [HubNext]_hubVars => QueueInv'
<1> SUFFICES ASSUME HubTypeOK, QueueInv, [HubNext]_hubVars PROVE QueueInv'
  OBVIOUS
<1>1. CASE \E s \in Streams : Drain(s)
  BY <1>1, QueueDrain DEF QueueInv, Drain, history
<1>2. CASE \E m \in Publications : PublishSse(m)
  BY <1>2, QueuePublish DEF QueueInv
<1>3. CASE Prune
  <2>1. \A s \in Streams : IsEnd(queue'[s], given'[s])
    BY <1>3, QueueMark DEF Prune, HubTypeOK
  <2>2. QED
    BY <2>1 DEF QueueInv
<1>4. CASE PruneRaises
  <2>1. PICK S \in SUBSET {s \in sse : ~Full(s)} : MarkClosed(S)
    BY <1>4 DEF PruneRaises
  <2>2. S \in SUBSET Streams /\ \A s \in S : ~Full(s)
    BY <2>1 DEF HubTypeOK
  <2>3. \A s \in Streams : IsEnd(queue'[s], given'[s])
    BY <2>1, <2>2, QueueMark
  <2>4. QED
    BY <2>3 DEF QueueInv
<1>5. CASE UNCHANGED <<queue, given>>
  BY <1>5 DEF QueueInv
<1>6. QED
  BY <1>1, <1>2, <1>3, <1>4, <1>5
     DEF HubNext, Socket, Stream, Publish, ConnectWs, Stall, PeerGone, DisconnectWs, ConnectSse,
         DisconnectSse, PublishStart, Sent, SendFails, Tick, hubVars, hub, ends, pub, history

LEMMA KindsNext == HubTypeOK /\ KindsInv /\ [HubNext]_hubVars => KindsInv'
<1> SUFFICES ASSUME HubTypeOK, KindsInv, [HubNext]_hubVars PROVE KindsInv'
  OBVIOUS
<1> USE DEF KindsInv, HubTypeOK
<1>1. ASSUME NEW c \in Sockets, Socket(c) PROVE KindsInv'
  BY <1>1 DEF Socket, ConnectWs, Stall, PeerGone, DisconnectWs, ForgetSocket, NoteMixed, hub, history
<1>2. ASSUME NEW s \in Streams, Stream(s) PROVE KindsInv'
  BY <1>2 DEF Stream, ConnectSse, Drain, DisconnectSse, ForgetStream, NoteMixed, hub, history
<1>3. ASSUME NEW m \in Publications, Publish(m) PROVE KindsInv'
  BY <1>3 DEF Publish, PublishStart, Sent, SendFails, PublishSse, ForgetSocket, hub, ends, history
<1>4. CASE Prune \/ PruneRaises
  BY <1>4 DEF Prune, PruneRaises, CloseSockets
<1>5. CASE Tick \/ UNCHANGED hubVars
  BY <1>5 DEF Tick, hubVars, hub, ends, history
<1>6. QED
  BY <1>1, <1>2, <1>3, <1>4, <1>5 DEF HubNext

LEMMA TimeNext == HubTypeOK /\ TimeInv /\ [HubNext]_hubVars => TimeInv'
<1> SUFFICES ASSUME HubTypeOK, TimeInv, [HubNext]_hubVars PROVE TimeInv'
  OBVIOUS
<1>1. /\ now \in Nat /\ \A c \in Sockets : lastHeard[c] \in Nat
      /\ lastActive \in Nat \cup {None}
  BY SizeAssumption DEF HubTypeOK
<1>2. CASE UNCHANGED <<now, lastHeard>> /\ lastActive' \in {lastActive, now, None}
  BY <1>1, <1>2 DEF TimeInv
<1>3. CASE \E c \in Sockets : UNCHANGED now /\ lastActive' = now
                              /\ lastHeard' = [lastHeard EXCEPT ![c] = now]
  BY <1>1, <1>3 DEF TimeInv, HubTypeOK
<1>4. CASE Tick
  BY <1>1, <1>4 DEF TimeInv, Tick, hub, history
<1>5. CASE \E m \in Publications : Sent(m)
  BY <1>3, <1>5, HeadIsSocket DEF Sent
<1>6. CASE \E c \in Sockets : Socket(c)
  BY <1>2, <1>3, <1>6 DEF Socket, ConnectWs, Stall, PeerGone, DisconnectWs, ForgetSocket, hub, history
<1>7. CASE \E s \in Streams : Stream(s)
  BY <1>2, <1>7 DEF Stream, ConnectSse, Drain, DisconnectSse, ForgetStream, hub, history
<1>8. CASE Prune \/ PruneRaises \/ UNCHANGED hubVars
  BY <1>2, <1>8 DEF Prune, PruneRaises, hubVars, hub, history
<1>9. ASSUME NEW m \in Publications, PublishStart(m) \/ SendFails(m) \/ PublishSse(m) PROVE TimeInv'
  BY <1>2, <1>9 DEF PublishStart, SendFails, PublishSse, ForgetSocket, hub, history
<1>10. QED
  BY <1>4, <1>5, <1>6, <1>7, <1>8, <1>9 DEF HubNext, Publish

-----------------------------------------------------------------------------
(* Who is reached, and who is tracked                                      *)

\* A lost or closing socket never comes back.
LEMMA LostStaysLost ==
    ASSUME HubTypeOK, [HubNext]_hubVars, NEW c \in Sockets, sock[c] \in {"broken", "closing", "closed"}
    PROVE  sock'[c] \in {"broken", "closing", "closed"}
BY DEF HubTypeOK, HubNext, Socket, Stream, Publish, ConnectWs, Stall, PeerGone, DisconnectWs, ConnectSse,
       Drain, DisconnectSse, PublishStart, Sent, SendFails, PublishSse, Prune, PruneRaises,
       CloseSockets, Tick, hubVars, hub, ends, pub, history

\* What a socket was sent stays sent.
LEMMA HeardStaysHeard ==
    ASSUME HubTypeOK, [HubNext]_hubVars, NEW c \in Sockets
    PROVE  heard[c] \subseteq heard'[c]
<1>1. ASSUME NEW m \in Publications, Sent(m)
      PROVE  heard[c] \subseteq heard'[c]
  <2>1. PICK d : heard' = [heard EXCEPT ![d] = heard[d] \cup {m}]
    BY <1>1 DEF Sent
  <2>2. QED
    BY <2>1 DEF HubTypeOK
<1>2. CASE heard' = heard
  BY <1>2
<1>3. QED
  BY <1>1, <1>2
     DEF HubNext, Socket, Stream, Publish, ConnectWs, Stall, PeerGone, DisconnectWs, ConnectSse,
         Drain, DisconnectSse, PublishStart, SendFails, PublishSse, Prune, PruneRaises,
         Tick, hubVars, hub, ends, pub, history

LEMMA ReachNext == HubTypeOK /\ ReachInv /\ [HubNext]_hubVars => ReachInv'
<1> SUFFICES ASSUME HubTypeOK, ReachInv, [HubNext]_hubVars, NEW m \in Publications,
                    stage'[m] # "idle", NEW c \in audience'[m]
             PROVE  \/ m \in heard'[c]
                    \/ sock'[c] \in {"broken", "closing", "closed"}
                    \/ stage'[m] = "sending" /\ \E i \in DOMAIN todo'[m] : todo'[m][i] = c
  BY DEF ReachInv
<1>1. CASE UNCHANGED <<stage[m], audience[m], todo[m]>>
  <2>1. /\ c \in Sockets
        /\ \/ m \in heard[c]
           \/ sock[c] \in {"broken", "closing", "closed"}
           \/ stage[m] = "sending" /\ \E i \in DOMAIN todo[m] : todo[m][i] = c
    BY <1>1 DEF ReachInv, HubTypeOK
  <2>2. QED
    BY <1>1, <2>1, LostStaysLost, HeardStaysHeard
<1>2. CASE PublishStart(m)
  <2>1. PICK order \in Orders(ws) : todo' = [todo EXCEPT ![m] = order]
    BY <1>2 DEF PublishStart
  <2>2. audience'[m] = ws /\ stage'[m] = "sending" /\ todo'[m] = order
    BY <1>2, <2>1 DEF PublishStart, HubTypeOK
  <2>3. \E i \in DOMAIN order : order[i] = c
    BY <2>2, StartOrder
  <2>4. QED
    BY <2>2, <2>3
<1>3. CASE Sent(m) \/ SendFails(m)
  <2>1. /\ todo[m] # <<>> /\ todo[m] \in Seq(Sockets) /\ todo'[m] = Tail(todo[m])
        /\ stage[m] = "sending" /\ stage'[m] = "sending" /\ audience'[m] = audience[m]
    BY <1>3 DEF Sent, SendFails, AfterFailure, HubTypeOK, history
  <2>2. /\ c \in Sockets
        /\ \/ m \in heard[c]
           \/ sock[c] \in {"broken", "closing", "closed"}
           \/ \E i \in DOMAIN todo[m] : todo[m][i] = c
    BY <2>1 DEF ReachInv, HubTypeOK
  <2>3. CASE c = Head(todo[m])
    <3>1. CASE Sent(m)
      BY <2>2, <2>3, <3>1 DEF Sent, HubTypeOK
    <3>2. CASE SendFails(m)
      BY <2>2, <2>3, <3>2, LostStaysLost DEF SendFails
    <3>3. QED
      BY <1>3, <3>1, <3>2
  <2>4. CASE c # Head(todo[m])
    <3>1. ASSUME \E i \in DOMAIN todo[m] : todo[m][i] = c
          PROVE  \E i \in DOMAIN todo'[m] : todo'[m][i] = c
      <4>1. PICK i \in DOMAIN todo[m] : todo[m][i] = c
        BY <3>1
      <4>2. i # 1 /\ i \in 1 .. Len(todo[m]) /\ Len(todo[m]) \in Nat
        BY <2>1, <2>4, <4>1
      <4>3. i - 1 \in DOMAIN Tail(todo[m]) /\ Tail(todo[m])[i - 1] = todo[m][i]
        BY <2>1, <4>2
      <4>4. QED
        BY <2>1, <4>1, <4>3
    <3>2. QED
      BY <2>1, <2>2, <3>1, LostStaysLost, HeardStaysHeard
  <2>5. QED
    BY <2>3, <2>4
<1>4. CASE PublishSse(m)
  <2>1. todo[m] = <<>> /\ stage[m] = "sending" /\ audience'[m] = audience[m]
    BY <1>4 DEF PublishSse
  <2>2. ~ \E i \in DOMAIN todo[m] : todo[m][i] = c
    BY <2>1
  <2>3. c \in Sockets /\ (m \in heard[c] \/ sock[c] \in {"broken", "closing", "closed"})
    BY <2>1, <2>2 DEF ReachInv, HubTypeOK
  <2>4. QED
    BY <2>3, LostStaysLost, HeardStaysHeard
<1>5. ASSUME NEW n \in Publications, n # m, Publish(n)
      PROVE  UNCHANGED <<stage[m], audience[m], todo[m]>>
  BY <1>5 DEF HubTypeOK, Publish, PublishStart, Sent, SendFails, PublishSse, history
<1>6. CASE ~ \E n \in Publications : Publish(n)
  <2>1. UNCHANGED <<stage, audience, todo>>
    BY <1>6 DEF HubNext, Socket, Stream, ConnectWs, Stall, PeerGone, DisconnectWs, ConnectSse,
                Drain, DisconnectSse, Prune, PruneRaises, Tick, hubVars, hub, ends, pub, history
  <2>2. QED
    BY <1>1, <2>1
<1>7. QED
  BY <1>1, <1>2, <1>3, <1>4, <1>5, <1>6 DEF Publish

\* A close marker given to a stream stays given.
LEMMA MarkedStaysMarked ==
    ASSUME HubTypeOK, QueueInv, [HubNext]_hubVars, NEW s \in Streams, \E i \in DOMAIN given[s] : given[s][i] = Close
    PROVE  \E i \in DOMAIN given'[s] : given'[s][i] = Close
<1>1. given[s] \in Seq(Payloads) /\ Close \in Payloads
  BY DEF HubTypeOK, Payloads
<1>2. CASE given'[s] \in {given[s], Append(given[s], Close)}
  BY <1>1, <1>2, AppendKeeps
<1>3. ASSUME NEW m \in Publications, PublishSse(m)
      PROVE  \E i \in DOMAIN given'[s] : given'[s][i] = Close
  <2>1. given'[s] \in {given[s], Append(given[s], m)} /\ m \in Payloads
    BY <1>3, QueuePublish DEF Payloads
  <2>2. QED
    BY <1>1, <2>1, AppendKeeps
<1>4. CASE Prune
  BY <1>2, <1>4 DEF Prune, MarkClosed, HubTypeOK
<1>5. CASE PruneRaises
  BY <1>2, <1>5 DEF PruneRaises, MarkClosed, HubTypeOK
<1>6. QED
  BY <1>2, <1>3, <1>4, <1>5
     DEF HubNext, Socket, Stream, Publish, ConnectWs, Stall, PeerGone, DisconnectWs, ConnectSse,
         Drain, DisconnectSse, PublishStart, Sent, SendFails, Tick, hubVars, hub, ends, pub, history

LEMMA TrackedNext == HubTypeOK /\ QueueInv /\ KindsInv /\ ConnectionsAreTracked /\ [HubNext]_hubVars
                       => ConnectionsAreTracked'
<1> SUFFICES ASSUME HubTypeOK, QueueInv, KindsInv, ConnectionsAreTracked, [HubNext]_hubVars
             PROVE  ConnectionsAreTracked'
  OBVIOUS
<1>1. ASSUME NEW s \in Streams, stream'[s] = "open", s \notin sse'
      PROVE  \E i \in DOMAIN given'[s] : given'[s][i] = Close
  <2>1. CASE stream[s] = "open" /\ s \notin sse
    BY <2>1, MarkedStaysMarked DEF ConnectionsAreTracked, DeafOnlyAfterPrune
  <2>2. CASE Prune /\ s \in sse
    <3>1. given'[s] = Append(given[s], Close) /\ given[s] \in Seq(Payloads) /\ Close \in Payloads
      BY <2>2 DEF Prune, MarkClosed, HubTypeOK, Payloads
    <3>2. QED
      BY <3>1, AppendKeeps
  <2>3. QED
    BY <1>1, <2>1, <2>2
       DEF HubTypeOK, KindsInv, HubNext, Socket, Stream, Publish, ConnectWs, Stall, PeerGone, DisconnectWs,
           ForgetSocket, ConnectSse, Drain, DisconnectSse, ForgetStream, PublishStart, Sent,
           SendFails, PublishSse, Prune, PruneRaises, Tick, hubVars, hub, ends, history
<1>2. ASSUME NEW c \in Sockets, sock'[c] \in {"open", "slow"}
      PROVE  c \in ws'
  <2>1. sock[c] \in {"open", "slow"} => c \in ws
    BY DEF ConnectionsAreTracked, DeafOnlyAfterPrune
  <2>2. ASSUME NEW d \in Sockets, Socket(d)
        PROVE  c \in ws'
    BY <1>2, <2>1, <2>2
       DEF HubTypeOK, Socket, ConnectWs, Stall, PeerGone, DisconnectWs, ForgetSocket, hub
  <2>3. ASSUME NEW m \in Publications, SendFails(m)
        PROVE  c \in ws'
    BY <1>2, <2>1, <2>3 DEF SendFails, ForgetSocket, ends
  <2>4. CASE Prune \/ PruneRaises
    BY <1>2, <2>1, <2>4 DEF HubTypeOK, Prune, PruneRaises, CloseSockets
  <2>5. CASE UNCHANGED <<ws, sock>>
    BY <1>2, <2>1, <2>5
  <2>6. QED
    BY <2>2, <2>3, <2>4, <2>5
       DEF HubNext, Stream, Publish, ConnectSse, Drain, DisconnectSse, ForgetStream, PublishStart,
           Sent, PublishSse, Tick, hubVars, hub, ends
<1>3. ASSUME ws' \cup sse' # {}, lastActive' = None
      PROVE  mixed'
  <2>1. now \in Nat
    BY SizeAssumption DEF HubTypeOK
  <2>2. now # None
    BY <2>1, SizeAssumption
  <2>3. /\ ws \cup sse # {} /\ lastActive = None => mixed
        /\ ws # {} /\ sse # {} => mixed
    BY DEF ConnectionsAreTracked, UntrackedNeedsBothKinds, KindsInv
  <2>4. CASE \/ \E c \in Sockets : Socket(c)
             \/ \E s \in Streams : Stream(s)
    BY <1>3, <2>2, <2>3, <2>4
       DEF Socket, Stream, ConnectWs, Stall, PeerGone, DisconnectWs, ForgetSocket, ConnectSse, Drain,
           DisconnectSse, ForgetStream, NoteMixed, hub, history
  <2>5. CASE \E m \in Publications : Publish(m)
    BY <1>3, <2>2, <2>3, <2>5
       DEF Publish, PublishStart, Sent, SendFails, ForgetSocket, PublishSse, hub, ends, history
  <2>6. CASE Prune \/ PruneRaises
    BY <1>3, <2>6 DEF Prune, PruneRaises, Stale, CloseSockets
  <2>7. CASE Tick \/ UNCHANGED hubVars
    BY <1>3, <2>3, <2>7 DEF Tick, hubVars, hub, history
  <2>8. QED
    BY <2>4, <2>5, <2>6, <2>7 DEF HubNext
<1>4. QED
  BY <1>1, <1>2, <1>3 DEF ConnectionsAreTracked, DeafOnlyAfterPrune, UntrackedNeedsBothKinds

-----------------------------------------------------------------------------
(* The invariant and the theorems                                          *)

LEMMA HubInvInit == HubInit => HubInv
<1> SUFFICES ASSUME HubInit PROVE HubInv
  OBVIOUS
<1>1. HubTypeOK
  BY HubTypeInit
<1>2. QueueInv
  BY DEF HubInit, QueueInv, IsEnd
<1>3. TimeInv /\ ReachInv /\ KindsInv /\ ConnectionsAreTracked
  BY DEF HubInit, TimeInv, ReachInv, KindsInv, ConnectionsAreTracked, DeafOnlyAfterPrune,
         UntrackedNeedsBothKinds
<1>4. QED
  BY <1>1, <1>2, <1>3 DEF HubInv

LEMMA HubInvariance == HubSpec => []HubInv
<1>1. HubInv /\ [HubNext]_hubVars => HubInv'
  BY TypeNext, QueueNext, KindsNext, TimeNext, ReachNext, TrackedNext DEF HubInv
<1>2. QED
  BY HubInvInit, <1>1, PTL DEF HubSpec

\* A publication goes on past broken connections to every socket that was in
\* the hub when it began, and what waits for a stream is always the newest of
\* what was given to it: for any number of sockets, streams and messages, and
\* queues of any size.
THEOREM EveryoneIsReached == HubSpec => []PublicationsArrive
<1>1. HubInv => EveryoneHears
  <2>1. SUFFICES ASSUME HubInv, NEW m \in Publications, stage[m] = "done", NEW c \in audience[m]
                 PROVE  m \in heard[c] \/ sock[c] \in {"broken", "closing", "closed"}
    BY DEF EveryoneHears
  <2>2. QED
    BY <2>1 DEF HubInv, ReachInv
<1>2. HubInv => StreamKeepsNewest
  BY EndIsSubSeq DEF HubInv, QueueInv, HubTypeOK, StreamKeepsNewest
<1>3. HubInv => PublicationsArrive
  BY <1>1, <1>2 DEF HubInv, PublicationsArrive
<1>4. QED
  BY <1>3, HubInvariance, PTL

\* No connection's coming or going makes the hub forget another one, and a
\* user's entry in _last_active goes astray only after sockets and streams
\* have shared it.
THEOREM HubTracks == HubSpec => []ConnectionsAreTracked
<1>1. HubInv => ConnectionsAreTracked
  BY DEF HubInv
<1>2. QED
  BY <1>1, HubInvariance, PTL

\* prune_stale closes no socket that opened or was sent a message within the
\* last MaxIdle seconds: the entry it goes by is no older than any of them.
THEOREM PruneSpares == HubSpec => PruneSparesRecentSockets
<1>1. HubInv /\ [HubNext]_hubVars =>
        [\A c \in Sockets :
            sock'[c] = "closing" /\ sock[c] # "closing" => now - lastHeard[c] > MaxIdle]_hubVars
  <2>1. SUFFICES ASSUME HubInv, [HubNext]_hubVars, NEW c \in Sockets,
                        sock'[c] = "closing", sock[c] # "closing"
                 PROVE  now - lastHeard[c] > MaxIdle
    OBVIOUS
  <2>2. Stale
    BY <2>1 DEF HubInv, HubTypeOK, HubNext, Socket, Stream, Publish, ConnectWs, Stall, PeerGone,
       DisconnectWs, ConnectSse, Drain, DisconnectSse, PublishStart, Sent, SendFails, PublishSse,
       Prune, PruneRaises, Tick, hubVars, hub, ends
  <2>3. lastActive \in Nat /\ now \in Nat /\ lastHeard[c] \in Nat
    BY <2>2, <2>1, SizeAssumption DEF HubInv, HubTypeOK, Stale
  <2>4. lastHeard[c] <= lastActive
    BY <2>2, <2>1 DEF HubInv, TimeInv, Stale
  <2>5. QED
    BY <2>2, <2>3, <2>4, SizeAssumption DEF Stale
<1>2. QED
  BY <1>1, HubInvariance, PTL DEF HubSpec, PruneSparesRecentSockets
=============================================================================
