----------------------------- MODULE RealtimeHub -----------------------------
(***************************************************************************)
(* The realtime hub: one user's WebSocket connections and SSE streams, and *)
(* the publications of notifications to them.                              *)
(*                                                                         *)
(* Sources: notifications/realtime.py, and the two endpoints of            *)
(* notifications/router.py that register connections.                      *)
(*                                                                         *)
(* The hub keeps a set of sockets, a set of queues and one time of last    *)
(* activity per user.  Everything runs on one event loop: a step lasts     *)
(* until the next await, and publish awaits every send on a socket.  Users *)
(* do not share state, so one user is enough.                              *)
(*                                                                         *)
(* prune_stale is called by a task of the integrator, at any time.  The    *)
(* number publish returns is used by nobody and left out.                  *)
(***************************************************************************)
EXTENDS Naturals, Sequences, FiniteSets

CONSTANTS
    Sockets,        \* WebSocket connections, each opened at most once
    Streams,        \* SSE streams, each opened at most once
    Publications,       \* payloads, each published at most once
    Close,          \* the payload {"type": "close"} of prune_stale
    None,           \* the user has no entry in _last_active
    QueueSize,      \* capacity of a stream's queue (100 in router.py:355)
    MaxIdle,        \* max_idle of prune_stale (90 seconds)
    MaxTime         \* bound on the clock

ASSUME SocketsAssumption == IsFiniteSet(Sockets)
ASSUME CloseAssumption == Close \notin Publications
ASSUME SizeAssumption ==
    /\ QueueSize \in Nat \ {0}
    /\ MaxIdle \in Nat
    /\ MaxTime \in Nat
    /\ None \notin Nat

VARIABLES
    ws,         \* the user's sockets in the hub
    sse,        \* the user's streams in the hub
    lastActive, \* the user's time of last activity, or None
    sock,       \* sock[c]: the state of a WebSocket connection
    stream,     \* stream[s]: the state of an SSE stream
    queue,      \* queue[s]: the payloads waiting for stream s
    todo,       \* todo[m]: the sockets publish(m) has still to send to
    stage,      \* stage[m]: how far publish(m) is
    now,        \* time.monotonic()
    audience,   \* history: the sockets in the hub when publish(m) began
    heard,      \* history: heard[c]: the messages sent to socket c
    given,      \* history: given[s]: every payload meant for stream s, in order
    lastHeard,  \* history: when a socket opened or last got a payload
    mixed       \* history: a socket and a stream were in the hub together

hub == <<ws, sse, lastActive>>
ends == <<sock, stream, queue>>
pub == <<todo, stage>>
history == <<audience, heard, given, lastHeard, mixed>>
hubVars == <<hub, ends, pub, now, history>>

HubInit ==
    /\ ws = {}
    /\ sse = {}
    /\ lastActive = None
    /\ sock = [c \in Sockets |-> "new"]
    /\ stream = [s \in Streams |-> "new"]
    /\ queue = [s \in Streams |-> <<>>]
    /\ todo = [m \in Publications |-> <<>>]
    /\ stage = [m \in Publications |-> "idle"]
    /\ now = 0
    /\ audience = [m \in Publications |-> {}]
    /\ heard = [c \in Sockets |-> {}]
    /\ given = [s \in Streams |-> <<>>]
    /\ lastHeard = [c \in Sockets |-> 0]
    /\ mixed = FALSE

-----------------------------------------------------------------------------
(* The hub's methods                                                       *)

\* Every list(set) the code iterates over: S in some order.
Orders(S) ==
    {f \in [1 .. Cardinality(S) -> S] : \A c \in S : \E i \in DOMAIN f : f[i] = c}

NoteMixed == mixed' = (mixed \/ (ws' # {} /\ sse' # {}))

\* disconnect_ws.  Nothing to do without an entry in _ws; the last socket to
\* go takes the entry in _last_active with it.
ForgetSocket(c) ==
    /\ ws' = ws \ {c}
    /\ lastActive' = IF ws # {} /\ ws' = {} THEN None ELSE lastActive
    /\ UNCHANGED sse

\* disconnect_sse.
ForgetStream(s) ==
    /\ sse' = sse \ {s}
    /\ lastActive' = IF sse # {} /\ sse' = {} THEN None ELSE lastActive
    /\ UNCHANGED ws

\* publish's put on a queue: a full one loses its oldest payload.
Put(q, m) == Append(IF Len(q) = QueueSize THEN Tail(q) ELSE q, m)

-----------------------------------------------------------------------------
(* WS /notifications/ws                                                    *)

ConnectWs(c) ==
    /\ sock[c] = "new"
    /\ sock' = [sock EXCEPT ![c] = "open"]
    /\ ws' = ws \cup {c}
    /\ lastActive' = now
    /\ lastHeard' = [lastHeard EXCEPT ![c] = now]
    /\ UNCHANGED <<sse, stream, queue, pub, now, audience, heard, given>>
    /\ NoteMixed

\* The peer stops reading, so that a send waits for room, or reads again.
Stall(c) ==
    /\ \/ sock[c] = "open" /\ sock' = [sock EXCEPT ![c] = "slow"]
       \/ sock[c] = "slow" /\ sock' = [sock EXCEPT ![c] = "open"]
    /\ UNCHANGED <<hub, stream, queue, pub, now, history>>

\* The connection is lost; the endpoint has not noticed.
PeerGone(c) ==
    /\ sock[c] \in {"open", "slow"}
    /\ sock' = [sock EXCEPT ![c] = "broken"]
    /\ UNCHANGED <<hub, stream, queue, pub, now, history>>

\* receive_text raises and the endpoint's finally clause runs.
DisconnectWs(c) ==
    /\ sock[c] \in {"open", "slow", "broken", "closing"}
    /\ sock' = [sock EXCEPT ![c] = "closed"]
    /\ ForgetSocket(c)
    /\ UNCHANGED <<stream, queue, pub, now, history>>

-----------------------------------------------------------------------------
(* GET /notifications/stream                                               *)

ConnectSse(s) ==
    /\ stream[s] = "new"
    /\ stream' = [stream EXCEPT ![s] = "open"]
    /\ sse' = sse \cup {s}
    /\ lastActive' = now
    /\ UNCHANGED <<ws, sock, queue, pub, now, audience, heard, given, lastHeard>>
    /\ NoteMixed

\* The stream writes its oldest payload to the client, the close marker like
\* any other, and goes on.
Drain(s) ==
    /\ stream[s] = "open"
    /\ queue[s] # <<>>
    /\ queue' = [queue EXCEPT ![s] = Tail(@)]
    /\ UNCHANGED <<hub, sock, stream, pub, now, history>>

\* The client goes away: the generator's finally clause.
DisconnectSse(s) ==
    /\ stream[s] = "open"
    /\ stream' = [stream EXCEPT ![s] = "closed"]
    /\ ForgetStream(s)
    /\ UNCHANGED <<sock, queue, pub, now, history>>

-----------------------------------------------------------------------------
(* publish                                                                 *)

\* The list of sockets is taken once; the list of queues after the last send.
PublishStart(m) ==
    /\ stage[m] = "idle"
    /\ stage' = [stage EXCEPT ![m] = "sending"]
    /\ \E order \in Orders(ws) : todo' = [todo EXCEPT ![m] = order]
    /\ audience' = [audience EXCEPT ![m] = ws]
    /\ UNCHANGED <<hub, ends, now, heard, given, lastHeard, mixed>>

\* The send in progress completed.  The time is noted for the user even when
\* he has left the hub in the meantime.
Sent(m) ==
    /\ stage[m] = "sending" /\ todo[m] # <<>>
    /\ LET c == Head(todo[m]) IN
        /\ sock[c] \in {"open", "closing"}
        /\ heard' = [heard EXCEPT ![c] = @ \cup {m}]
        /\ lastHeard' = [lastHeard EXCEPT ![c] = now]
    /\ todo' = [todo EXCEPT ![m] = Tail(@)]
    /\ lastActive' = now
    /\ UNCHANGED <<ws, sse, ends, stage, now, audience, given, mixed>>

\* Mutant: no handler inside the loop.
AfterFailureStop(m) == <<>>

\* What publish does next when a send raised: go on with the next socket.
AfterFailure(m) == Tail(todo[m])

\* The send raised: the socket is dropped.
SendFails(m) ==
    /\ stage[m] = "sending" /\ todo[m] # <<>>
    /\ LET c == Head(todo[m]) IN
        /\ sock[c] \in {"broken", "closing", "closed"}
        /\ ForgetSocket(c)
    /\ todo' = [todo EXCEPT ![m] = AfterFailure(m)]
    /\ UNCHANGED <<ends, stage, now, history>>

\* All sockets are done; every queue gets the message in one step.
PublishSse(m) ==
    /\ stage[m] = "sending" /\ todo[m] = <<>>
    /\ stage' = [stage EXCEPT ![m] = "done"]
    /\ queue' = [s \in Streams |-> IF s \in sse THEN Put(queue[s], m) ELSE queue[s]]
    /\ given' = [s \in Streams |-> IF s \in sse THEN Append(given[s], m) ELSE given[s]]
    /\ UNCHANGED <<hub, sock, stream, todo, now, audience, heard, lastHeard, mixed>>

-----------------------------------------------------------------------------
(* prune_stale                                                             *)

Full(s) == Len(queue[s]) = QueueSize

\* Mutant: idle for MaxIdle exactly is enough.
StaleEarly == lastActive # None /\ now - lastActive >= MaxIdle

Stale == lastActive # None /\ now - lastActive > MaxIdle

\* The sockets leave the hub and are told to close.
CloseSockets ==
    /\ ws' = {}
    /\ sock' = [c \in Sockets |-> IF c \in ws THEN "closing" ELSE sock[c]]

\* Mutant: no marker is sent.
MarkNothing(S) == UNCHANGED <<queue, given>>

MarkClosed(S) ==
    /\ queue' = [s \in Streams |-> IF s \in S THEN Append(queue[s], Close) ELSE queue[s]]
    /\ given' = [s \in Streams |-> IF s \in S THEN Append(given[s], Close) ELSE given[s]]

Prune ==
    /\ Stale
    /\ \A s \in sse : ~Full(s)
    /\ CloseSockets
    /\ MarkClosed(sse)
    /\ sse' = {}
    /\ lastActive' = None
    /\ UNCHANGED <<stream, pub, now, audience, heard, lastHeard, mixed>>

\* put_nowait raises on the first full queue it comes to: the streams stay in
\* the hub, those visited before it with a close marker.
PruneRaises ==
    /\ Stale
    /\ \E s \in sse : Full(s)
    /\ CloseSockets
    /\ \E S \in SUBSET {s \in sse : ~Full(s)} : MarkClosed(S)
    /\ UNCHANGED <<sse, lastActive, stream, pub, now, audience, heard, lastHeard, mixed>>

Tick ==
    /\ now < MaxTime
    /\ now' = now + 1
    /\ UNCHANGED <<hub, ends, pub, history>>

-----------------------------------------------------------------------------
Socket(c) == ConnectWs(c) \/ Stall(c) \/ PeerGone(c) \/ DisconnectWs(c)
Stream(s) == ConnectSse(s) \/ Drain(s) \/ DisconnectSse(s)
Publish(m) == PublishStart(m) \/ Sent(m) \/ SendFails(m) \/ PublishSse(m)

HubNext ==
    \/ \E c \in Sockets : Socket(c)
    \/ \E s \in Streams : Stream(s)
    \/ \E m \in Publications : Publish(m)
    \/ Prune
    \/ PruneRaises
    \/ Tick

HubSpec == HubInit /\ [][HubNext]_hubVars

-----------------------------------------------------------------------------
(* Properties                                                              *)

Payloads == Publications \cup {Close}

HubTypeOK ==
    /\ ws \subseteq Sockets
    /\ sse \subseteq Streams
    /\ lastActive \in (0 .. MaxTime) \cup {None}
    /\ sock \in [Sockets -> {"new", "open", "slow", "broken", "closing", "closed"}]
    /\ stream \in [Streams -> {"new", "open", "closed"}]
    /\ queue \in [Streams -> Seq(Payloads)]
    /\ \A s \in Streams : Len(queue[s]) <= QueueSize
    /\ todo \in [Publications -> Seq(Sockets)]
    /\ stage \in [Publications -> {"idle", "sending", "done"}]
    /\ now \in 0 .. MaxTime
    /\ audience \in [Publications -> SUBSET Sockets]
    /\ heard \in [Sockets -> SUBSET Publications]
    /\ given \in [Streams -> Seq(Payloads)]
    /\ lastHeard \in [Sockets -> 0 .. MaxTime]
    /\ mixed \in BOOLEAN

\* publish goes on past broken connections (the exception handler in its
\* loop): when it ends, every socket that was in the hub when it began has
\* the message, unless that socket was lost or closed in the meantime.
EveryoneHears ==
    \A m \in Publications : stage[m] = "done" =>
        \A c \in audience[m] :
            m \in heard[c] \/ sock[c] \in {"broken", "closing", "closed"}

\* A bounded queue costs a stream its oldest payloads, never its newest: what
\* waits for a stream is the end of what publish and prune_stale put there,
\* in that order, whatever was drained or lost before.
StreamKeepsNewest ==
    \A s \in Streams :
        LET lost == Len(given[s]) - Len(queue[s])
        IN  /\ lost >= 0
            /\ queue[s] = SubSeq(given[s], lost + 1, Len(given[s]))

\* A live connection misses later messages only when prune_stale took it out
\* of the hub: no other connection's coming or going does.  A stream so
\* treated was sent the close marker, a socket was told to close.
DeafOnlyAfterPrune ==
    /\ \A s \in Streams : stream[s] = "open" /\ s \notin sse =>
            \E i \in DOMAIN given[s] : given[s][i] = Close
    /\ \A c \in Sockets : sock[c] \in {"open", "slow"} => c \in ws

\* prune_stale finds users by their entry in _last_active.  A user with
\* connections has one, except when sockets and streams were mixed and the
\* last of one kind went away, taking the entry both kinds share.
UntrackedNeedsBothKinds ==
    ws \cup sse # {} /\ lastActive = None => mixed

\* The hub and the connections agree: only prune_stale parts them, and only
\* the entry that both kinds share goes astray.
ConnectionsAreTracked == DeafOnlyAfterPrune /\ UntrackedNeedsBothKinds

\* prune_stale never closes a socket that opened, or was sent a message,
\* within the last MaxIdle seconds.
PruneSparesRecentSockets ==
    [][\A c \in Sockets :
            sock'[c] = "closing" /\ sock[c] # "closing"
                => now - lastHeard[c] > MaxIdle]_hubVars

\* A publication reaches everyone it can: every socket that is not lost, and of
\* a stream's payloads the newest.
PublicationsArrive == HubTypeOK /\ EveryoneHears /\ StreamKeepsNewest
=============================================================================
