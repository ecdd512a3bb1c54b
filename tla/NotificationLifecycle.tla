----------------------- MODULE NotificationLifecycle -----------------------
(***************************************************************************)
(* What the notification service promises about each message, whatever     *)
(* sessions, channels and failures do underneath: it is pushed to the      *)
(* recipient once and before its row is visible, the row goes from pending *)
(* to sent and no further, only a visible row is read and it stays read,   *)
(* and every outside channel is used once at most and before the row is    *)
(* settled.                                                                *)
(***************************************************************************)
CONSTANTS Messages, Channels

VARIABLES pushed,  \* messages pushed to the recipient's open pages
          status,  \* the visible row: "none", "pending" or "sent"
          isRead,  \* messages marked as read
          out      \* the outside channels that were given the message

vars == <<pushed, status, isRead, out>>

Init ==
  /\ pushed = {} /\ isRead = {}
  /\ status = [m \in Messages |-> "none"]
  /\ out = [m \in Messages |-> [ch \in Channels |-> 0]]

Push(m) ==
  /\ m \notin pushed /\ status[m] = "none"
  /\ pushed' = pushed \cup {m}
  /\ UNCHANGED <<status, isRead, out>>

Record(m) ==
  /\ m \in pushed /\ status[m] = "none"
  /\ status' = [status EXCEPT ![m] = "pending"]
  /\ UNCHANGED <<pushed, isRead, out>>

Deliver(m, ch) ==
  /\ out[m][ch] = 0 /\ status[m] # "sent"
  /\ out' = [out EXCEPT ![m][ch] = 1]
  /\ UNCHANGED <<pushed, status, isRead>>

Settle(m) ==
  /\ status[m] = "pending"
  /\ status' = [status EXCEPT ![m] = "sent"]
  /\ UNCHANGED <<pushed, isRead, out>>

MarkRead(m) ==
  /\ status[m] # "none"
  /\ isRead' = isRead \cup {m}
  /\ UNCHANGED <<pushed, status, out>>

Next == \E m \in Messages :
  \/ Push(m) \/ Record(m) \/ Settle(m) \/ MarkRead(m)
  \/ \E ch \in Channels : Deliver(m, ch)

Spec == Init /\ [][Next]_vars
=============================================================================
