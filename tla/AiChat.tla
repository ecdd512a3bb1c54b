------------------------------- MODULE AiChat -------------------------------
(***************************************************************************)
(* AI turns on one stored conversation (ai/service.py, ai/conversation.py, *)
(* ai/backends/pydantic_ai_backend.py, ai/backends/repairer.py): answers   *)
(* given in one piece, streamed answers, tools run directly, and the       *)
(* deletion of the conversation.                                           *)
(*                                                                         *)
(* A turn works on the session of its request, which the middleware        *)
(* commits after the response; a streamed turn commits that session itself *)
(* and stores the conversation through a second one.  The database lets    *)
(* either one session write at a time (SQLite) or locks rows; reads see    *)
(* committed data.  A model run is one step: its effects stay in the       *)
(* turn's own session.                                                     *)
(***************************************************************************)
EXTENDS Naturals, Sequences, SequencesExt

CONSTANTS Turns,        \* the requests
          RetryLimit,   \* _TOOL_CALL_RETRY_LIMIT
          Nobody        \* no session holds the lock

ASSUME RetryLimitAssumption == RetryLimit \in Nat
ASSUME NobodyAssumption == \A t \in Turns : Nobody \notin {<<"req", t>>, <<"own", t>>}

VARIABLES
  mode,       \* what the request asks for
  oneWriter,  \* the database admits one writing session at a time
  at,         \* where the handler continues
  attempt,    \* rejected runs so far in _run_with_tool_retries
  result,     \* the run result the handler holds
  degraded,   \* the stream fell back to chat
  answer,     \* what the client has been told
  health,     \* the request's session: clean, failed a flush, or rolled back
  tx,         \* what is flushed to the request's transaction
  own,        \* the row flushed by the second session of a streamed turn
  seen,       \* the conversation row the turn has read
  found,      \* the messages a deletion has loaded
  writer,     \* the session that holds the write lock
  conv,       \* the committed conversation row
  messages,   \* turns whose messages are committed
  usageRows,  \* committed usage rows per turn
  records,    \* turns whose tools' writes are committed
  log,        \* history: the turns saved in the conversation since it exists
  missed      \* history: what was committed to it between a turn's read and its commit

turnVars == <<at, attempt, result, degraded, answer, health, tx, own, seen, found>>
storeVars == <<conv, messages, usageRows, records, log, missed>>
vars == <<mode, oneWriter, turnVars, writer, storeVars>>

Modes == {"chat", "stream", "tool", "delete"}
Phases == {"load", "run", "repair", "usage", "save", "tool", "delete", "precommit",
           "persist", "touch", "own commit", "close", "done"}
Rows == [exists : BOOLEAN, history : SUBSET Turns, turns : Nat]
NoRow == [exists |-> FALSE, history |-> {}, turns |-> 0]
Nothing == [wrote |-> FALSE, usage |-> 0, saved |-> "no", row |-> NoRow]

TypeOK ==
  /\ mode \in [Turns -> Modes] /\ oneWriter \in BOOLEAN
  /\ at \in [Turns -> Phases]
  /\ attempt \in [Turns -> 0..RetryLimit]
  /\ result \in [Turns -> {"none", "good", "literal", "raw", "masked"}]
  /\ degraded \in [Turns -> BOOLEAN]
  /\ answer \in [Turns -> {"none", "good", "literal", "raw", "friendly", "error"}]
  /\ health \in [Turns -> {"clean", "broken", "expired"}]
  /\ tx \in [Turns -> [wrote : BOOLEAN, usage : 0..1, saved : {"no", "here", "elsewhere"},
                       row : Rows]]
  /\ own \in [Turns -> Rows] /\ seen \in [Turns -> Rows]
  /\ found \in [Turns -> SUBSET Turns]
  /\ writer \in {Nobody} \cup ({"req", "own"} \X Turns)
  /\ conv \in Rows /\ messages \subseteq Turns /\ records \subseteq Turns
  /\ usageRows \in [Turns -> 0..2]
  /\ log \in Seq(Turns) /\ missed \in [Turns -> SUBSET Turns]

Init ==
  /\ mode \in [Turns -> Modes] /\ oneWriter \in BOOLEAN
  /\ at = [t \in Turns |-> IF mode[t] = "tool" THEN "tool" ELSE "load"]
  /\ attempt = [t \in Turns |-> 0] /\ result = [t \in Turns |-> "none"]
  /\ degraded = [t \in Turns |-> FALSE] /\ answer = [t \in Turns |-> "none"]
  /\ health = [t \in Turns |-> "clean"] /\ tx = [t \in Turns |-> Nothing]
  /\ own = [t \in Turns |-> NoRow] /\ seen = [t \in Turns |-> NoRow]
  /\ found = [t \in Turns |-> {}]
  /\ writer = Nobody
  /\ conv \in {NoRow, [NoRow EXCEPT !.exists = TRUE]}
  /\ messages = {} /\ records = {} /\ usageRows = [t \in Turns |-> 0]
  /\ log = <<>> /\ missed = [t \in Turns |-> {}]

-----------------------------------------------------------------------------
(* Sessions and locks *)

\* Waits for the write lock and keeps it until the session ends its transaction.
Lock(s, t) == writer \in {Nobody, <<s, t>>} /\ writer' = <<s, t>>
\* An insert of a row nobody else touches: only SQLite makes it wait.
LockToInsert(s, t) == IF oneWriter THEN Lock(s, t) ELSE UNCHANGED writer
Unlocked(s, t) == IF writer = <<s, t>> THEN Nobody ELSE writer

Goto(t, phase) == at' = [at EXCEPT ![t] = phase]
Tell(t, what) == answer' = [answer EXCEPT ![t] = what]

RollBack(t) ==
  /\ tx' = [tx EXCEPT ![t] = Nothing]
  /\ health' = [health EXCEPT ![t] = "expired"]
  /\ writer' = Unlocked("req", t)

\* A run of the model with its tools: a tool may write and flush.
ToolWrites(t, wrote) ==
  IF wrote THEN health[t] = "clean" /\ LockToInsert("req", t)
                /\ tx' = [tx EXCEPT ![t].wrote = TRUE]
           ELSE UNCHANGED <<tx, writer>>

\* What somebody else commits to the conversation is news to whoever has read it.
Publishes(t) ==
  missed' = [u \in Turns |-> IF u # t /\ at[u] \notin {"load", "close", "done"}
                             THEN missed[u] \cup {t} ELSE missed[u]]

\* The committed effects of the request's transaction.
Land(t) ==
  /\ usageRows' = [usageRows EXCEPT ![t] = @ + tx[t].usage]
  /\ records' = IF tx[t].wrote THEN records \cup {t} ELSE records
  /\ IF tx[t].saved = "here"
     THEN /\ conv' = tx[t].row /\ messages' = messages \cup {t}
          /\ log' = Append(log, t) /\ Publishes(t)
     ELSE UNCHANGED <<conv, messages, log, missed>>
  /\ writer' = Unlocked("req", t)

-----------------------------------------------------------------------------
(* Reading the conversation, running the model *)

ReadRow(t) ==
  /\ at[t] = "load"
  /\ seen' = [seen EXCEPT ![t] = conv]
  /\ UNCHANGED <<mode, oneWriter, attempt, result, degraded, health, tx, own, writer, storeVars>>

ChatLoads(t) == mode[t] = "chat" /\ ReadRow(t) /\ Goto(t, "run") /\ UNCHANGED <<found, answer>>
StreamLoads(t) == mode[t] = "stream" /\ ReadRow(t) /\ Goto(t, "run") /\ UNCHANGED <<found, answer>>

DeleteLoads(t) ==
  /\ mode[t] = "delete" /\ ReadRow(t)
  /\ found' = [found EXCEPT ![t] = messages]
  /\ IF conv.exists THEN Goto(t, "delete") /\ UNCHANGED answer
                    ELSE Goto(t, "close") /\ Tell(t, "error")

\* An exception leaves agent.chat: the service rolls back and answers 400; a
\* stream that had fallen back tells the friendly text and goes on as if done.
ChatRaises(t) ==
  IF mode[t] = "chat"
  THEN RollBack(t) /\ Tell(t, "error") /\ Goto(t, "close") /\ UNCHANGED result
  ELSE /\ Tell(t, "friendly") /\ Goto(t, "precommit")
       /\ result' = [result EXCEPT ![t] = "none"]
       /\ UNCHANGED <<tx, health, writer>>

InRetries(t) == at[t] = "run" /\ (mode[t] = "chat" \/ degraded[t])
Retry(t) == attempt[t] < RetryLimit /\ attempt' = [attempt EXCEPT ![t] = @ + 1] /\ UNCHANGED at
NoRetry(t) == attempt[t] = RetryLimit /\ UNCHANGED attempt /\ Goto(t, "usage")

\* The run returns: a good answer, one with calls written out as text, or the
\* provider's rejection as text, which is retried and at last masked.
RunReturns(t) ==
  /\ InRetries(t)
  /\ \E wrote \in BOOLEAN : ToolWrites(t, wrote)
  /\ \/ /\ result' = [result EXCEPT ![t] = "good"] /\ Goto(t, "usage") /\ UNCHANGED attempt
     \/ /\ result' = [result EXCEPT ![t] = "literal"] /\ Goto(t, "repair") /\ UNCHANGED attempt
     \/ /\ result' = [result EXCEPT ![t] = "raw"] /\ Retry(t)
     \/ /\ result' = [result EXCEPT ![t] = "masked"] /\ NoRetry(t)
  /\ UNCHANGED <<mode, oneWriter, degraded, answer, health, own, seen, found, storeVars>>

\* ModelHTTPError: a rejected tool call is retried; when none is left, or for any
\* other error, what an earlier attempt returned is the result, if there is one.
RunRejected(t) ==
  /\ InRetries(t)
  /\ \E wrote \in BOOLEAN : ToolWrites(t, wrote)
  /\ Retry(t) \/ NoRetry(t)
  /\ UNCHANGED <<mode, oneWriter, result, degraded, answer, health, own, seen, found, storeVars>>

RunRefused(t) ==
  /\ InRetries(t)
  /\ IF result[t] = "none" THEN ChatRaises(t)
     ELSE Goto(t, "usage") /\ UNCHANGED <<result, answer, tx, health, writer>>
  /\ UNCHANGED <<mode, oneWriter, attempt, degraded, own, seen, found, storeVars>>

\* Any other exception, such as a tool's, which may have failed in a flush.
RunCrashes(t) ==
  /\ InRetries(t)
  /\ \/ ChatRaises(t)
     \/ /\ mode[t] = "stream" /\ Tell(t, "friendly") /\ Goto(t, "precommit")
        /\ result' = [result EXCEPT ![t] = "none"]
        /\ health' = [health EXCEPT ![t] = "broken"]
        /\ tx' = [tx EXCEPT ![t] = Nothing] /\ writer' = Unlocked("req", t)
  /\ UNCHANGED <<mode, oneWriter, attempt, degraded, own, seen, found, storeVars>>

\* _resolve_literal_calls: the calls are executed, their exceptions caught, and the
\* model is run again, whose failure is caught too.
Repair(t) ==
  /\ at[t] = "repair"
  /\ \/ (\E wrote \in BOOLEAN : ToolWrites(t, wrote)) /\ UNCHANGED health
     \/ /\ health' = [health EXCEPT ![t] = "broken"]
        /\ tx' = [tx EXCEPT ![t] = Nothing] /\ writer' = Unlocked("req", t)
  /\ result' = [result EXCEPT ![t] = "good"]
  /\ Goto(t, "usage")
  /\ UNCHANGED <<mode, oneWriter, attempt, degraded, answer, own, seen, found, storeVars>>

Output(t) == IF result[t] \in {"none", "masked"} THEN "friendly" ELSE result[t]

WriteUsage(t) ==
  /\ at[t] = "usage" /\ health[t] = "clean"
  /\ LockToInsert("req", t)
  /\ tx' = [tx EXCEPT ![t].usage = 1]
  /\ \/ mode[t] = "chat" /\ Goto(t, "save") /\ UNCHANGED answer
     \/ mode[t] = "stream" /\ Goto(t, "precommit") /\ Tell(t, Output(t))
     \/ /\ mode[t] = "tool" /\ Goto(t, "close")
        /\ Tell(t, IF result[t] = "good" THEN "good" ELSE "error")
  /\ UNCHANGED <<mode, oneWriter, attempt, result, degraded, health, own, seen, found, storeVars>>

\* flush_with_rollback rolls back and raises; execute_tool's second attempt reads
\* the user the rollback expired and raises as well.
UsageFails(t) ==
  /\ at[t] = "usage"
  /\ RollBack(t)
  /\ IF mode[t] = "stream"
     THEN Tell(t, "friendly") /\ Goto(t, "precommit")
          /\ result' = [result EXCEPT ![t] = "none"]
     ELSE Tell(t, "error") /\ Goto(t, "close") /\ UNCHANGED result
  /\ UNCHANGED <<mode, oneWriter, attempt, degraded, own, seen, found, storeVars>>

-----------------------------------------------------------------------------
(* chat: the conversation is stored in the request's transaction *)

\* save_turn extends the row it read before the run: the session keeps its copy.
\* An empty run leaves the history column as it is.
Extended(row, t) ==
  [exists  |-> TRUE,
   history |-> IF result[t] = "none" THEN conv.history ELSE row.history \cup {t},
   turns   |-> row.turns + 1]
\* The row get_or_create adds when the read one has been deleted meanwhile.
Fresh(t) == [exists |-> TRUE, history |-> IF result[t] = "none" THEN {} ELSE {t}, turns |-> 1]

SaveTurn(t) ==
  /\ at[t] = "save"
  /\ \/ /\ ~seen[t].exists           \* unknown: a conversation under another id
        /\ LockToInsert("req", t)
        /\ tx' = [tx EXCEPT ![t].saved = "elsewhere"]
     \/ /\ seen[t].exists
        /\ Lock("req", t)
        /\ tx' = [tx EXCEPT ![t].saved = "here",
                            ![t].row = IF conv.exists THEN Extended(seen[t], t) ELSE Fresh(t)]
  /\ Tell(t, Output(t))
  /\ Goto(t, "close")
  /\ UNCHANGED <<mode, oneWriter, attempt, result, degraded, health, own, seen, found, storeVars>>

\* The row was deleted or inserted in between, a lock was waited for too long.
SaveFails(t) ==
  /\ at[t] = "save"
  /\ RollBack(t) /\ Tell(t, "error") /\ Goto(t, "close")
  /\ UNCHANGED <<mode, oneWriter, attempt, result, degraded, own, seen, found, storeVars>>

-----------------------------------------------------------------------------
(* stream: the request's session is committed first, a second one stores *)

StreamReturns(t) ==
  /\ at[t] = "run" /\ mode[t] = "stream" /\ ~degraded[t]
  /\ \E wrote \in BOOLEAN : ToolWrites(t, wrote)
  /\ \E r \in {"good", "literal", "raw"} :
       result' = [result EXCEPT ![t] = r] /\ Tell(t, r)
  /\ Goto(t, "precommit")
  /\ UNCHANGED <<mode, oneWriter, attempt, degraded, health, own, seen, found, storeVars>>

\* A rejected tool call: agent.chat is tried in the same session.
StreamFallsBack(t) ==
  /\ at[t] = "run" /\ mode[t] = "stream" /\ ~degraded[t]
  /\ \E wrote \in BOOLEAN : ToolWrites(t, wrote)
  /\ degraded' = [degraded EXCEPT ![t] = TRUE]
  /\ UNCHANGED <<mode, oneWriter, at, attempt, result, answer, health, own, seen, found, storeVars>>

\* Any other error ends the stream with an error event and without a done event.
StreamErrs(t) ==
  /\ at[t] = "run" /\ mode[t] = "stream" /\ ~degraded[t]
  /\ \/ (\E wrote \in BOOLEAN : ToolWrites(t, wrote)) /\ UNCHANGED health
     \/ /\ health' = [health EXCEPT ![t] = "broken"]
        /\ tx' = [tx EXCEPT ![t] = Nothing] /\ writer' = Unlocked("req", t)
  /\ Tell(t, "error") /\ Goto(t, "close")
  /\ UNCHANGED <<mode, oneWriter, attempt, result, degraded, own, seen, found, storeVars>>

\* Mutant: the request's session is not committed before the second one is opened.
PreCommitLeftOut(t) ==
  /\ at[t] = "precommit" /\ Goto(t, "persist")
  /\ UNCHANGED <<mode, oneWriter, attempt, result, degraded, answer, health, tx, own, seen,
                 found, writer, storeVars>>

PreCommit(t) ==
  /\ at[t] = "precommit" /\ health[t] # "broken"
  /\ Land(t)
  /\ tx' = [tx EXCEPT ![t] = Nothing]
  /\ Goto(t, "persist")
  /\ UNCHANGED <<mode, oneWriter, attempt, result, degraded, answer, health, own, seen, found>>

\* Logged and forgotten; the session may have been rolled back by it.
PreCommitFails(t) ==
  /\ at[t] = "precommit"
  /\ Goto(t, "persist")
  /\ IF health[t] = "broken" THEN UNCHANGED <<tx, health, writer>>
     ELSE /\ tx' = [tx EXCEPT ![t] = Nothing] /\ writer' = Unlocked("req", t)
          /\ health' \in {health, [health EXCEPT ![t] = "expired"]}
  /\ UNCHANGED <<mode, oneWriter, attempt, result, degraded, answer, own, seen, found, storeVars>>

\* _resolve_user and _SafeUser come before the try: a cookie that has run out, or
\* a user whose attributes a rollback expired, ends the stream with an error event.
PersistRefused(t) ==
  /\ at[t] = "persist"
  /\ Tell(t, "error") /\ Goto(t, "close")
  /\ UNCHANGED <<mode, oneWriter, attempt, result, degraded, health, tx, own, seen, found,
                 writer, storeVars>>

\* get_or_create in the second session: the committed row, or a new one, which
\* waits for and holds the lock of its key.
PersistLoad(t) ==
  /\ at[t] = "persist" /\ health[t] = "clean"
  /\ IF conv.exists THEN UNCHANGED writer ELSE Lock("own", t)
  /\ seen' = [seen EXCEPT ![t] = conv]
  /\ missed' = [missed EXCEPT ![t] = {}]
  /\ Goto(t, "touch")
  /\ UNCHANGED <<mode, oneWriter, attempt, result, degraded, answer, health, tx, own, found,
                 conv, messages, usageRows, records, log>>

\* Mutant: the streamed turn is not counted.
TouchedUncounted(row, t) ==
  [exists |-> TRUE, history |-> IF result[t] = "none" THEN {} ELSE {t}, turns |-> row.turns]
\* touch replaces the history by this turn's messages.
Touched(row, t) ==
  [exists |-> TRUE, history |-> IF result[t] = "none" THEN {} ELSE {t}, turns |-> row.turns + 1]

PersistTouch(t) ==
  /\ at[t] = "touch"
  /\ Lock("own", t)
  /\ seen[t].exists => conv.exists
  /\ own' = [own EXCEPT ![t] = Touched(seen[t], t)]
  /\ Goto(t, "own commit")
  /\ UNCHANGED <<mode, oneWriter, attempt, result, degraded, answer, health, tx, seen, found,
                 storeVars>>

\* usage_recorded of the final event: the chat fallen back to writes its own row.
Billed(t) == IF degraded[t] THEN usageRows ELSE [usageRows EXCEPT ![t] = @ + 1]

PersistCommit(t) ==
  /\ at[t] = "own commit"
  /\ conv' = own[t] /\ log' = Append(log, t) /\ Publishes(t)
  /\ messages' = messages \cup {t}
  /\ usageRows' = Billed(t)
  /\ own' = [own EXCEPT ![t] = NoRow] /\ writer' = Unlocked("own", t)
  /\ Goto(t, "close")
  /\ UNCHANGED <<mode, oneWriter, attempt, result, degraded, answer, health, tx, seen, found,
                 records>>

\* Logged, rolled back, and the client is not told.
PersistFails(t) ==
  /\ at[t] \in {"persist", "touch", "own commit"} /\ health[t] = "clean"
  /\ own' = [own EXCEPT ![t] = NoRow] /\ writer' = Unlocked("own", t)
  /\ Goto(t, "close")
  /\ UNCHANGED <<mode, oneWriter, attempt, result, degraded, answer, health, tx, seen, found,
                 storeVars>>

\* The client goes away: the generator is cancelled where it waits.
Disconnect(t) ==
  /\ mode[t] = "stream" /\ at[t] \notin {"load", "close", "done"}
  /\ own' = [own EXCEPT ![t] = NoRow] /\ writer' = Unlocked("own", t)
  /\ Goto(t, "close")
  /\ UNCHANGED <<mode, oneWriter, attempt, result, degraded, answer, health, tx, seen, found,
                 storeVars>>

-----------------------------------------------------------------------------
(* A tool run directly, the deletion, the end of the request *)

\* The handler returns or raises; a usage row is written in both cases.
ToolRuns(t) ==
  /\ at[t] = "tool"
  /\ \E wrote \in BOOLEAN : ToolWrites(t, wrote)
  /\ \E r \in {"good", "none"} : result' = [result EXCEPT ![t] = r]
  /\ Goto(t, "usage")
  /\ UNCHANGED <<mode, oneWriter, attempt, degraded, answer, health, own, seen, found, storeVars>>

\* A flush fails in the handler: the row of the failure cannot be written either.
ToolFails(t) ==
  /\ at[t] = "tool"
  /\ RollBack(t) /\ Tell(t, "error") /\ Goto(t, "close")
  /\ UNCHANGED <<mode, oneWriter, attempt, result, degraded, own, seen, found, storeVars>>

\* The loaded messages and the row, whoever wrote it last, in one commit.
\* Mutant: the row alone is deleted.
RemainingAll(t) == messages
Remaining(t) == messages \ found[t]

Delete(t) ==
  /\ at[t] = "delete" /\ writer = Nobody
  /\ conv' = NoRow /\ messages' = Remaining(t) /\ log' = <<>> /\ Publishes(t)
  /\ Tell(t, "good") /\ Goto(t, "close")
  /\ UNCHANGED <<mode, oneWriter, attempt, result, degraded, health, tx, own, seen, found,
                 writer, usageRows, records>>

DeleteFails(t) ==
  /\ at[t] = "delete"
  /\ RollBack(t) /\ Tell(t, "error") /\ Goto(t, "close")
  /\ UNCHANGED <<mode, oneWriter, attempt, result, degraded, own, seen, found, storeVars>>

\* The middleware commits what the session holds.
Close(t) ==
  /\ at[t] = "close" /\ health[t] # "broken"
  /\ Land(t)
  /\ tx' = [tx EXCEPT ![t] = Nothing]
  /\ Goto(t, "done")
  /\ UNCHANGED <<mode, oneWriter, attempt, result, degraded, answer, health, own, seen, found>>

CloseFails(t) ==
  /\ at[t] = "close"
  /\ RollBack(t) /\ Goto(t, "done")
  /\ UNCHANGED <<mode, oneWriter, attempt, result, degraded, answer, own, seen, found, storeVars>>

Progress(t) ==
  \/ ChatLoads(t) \/ StreamLoads(t) \/ DeleteLoads(t)
  \/ RunReturns(t) \/ RunRejected(t) \/ RunRefused(t) \/ RunCrashes(t) \/ Repair(t)
  \/ WriteUsage(t) \/ SaveTurn(t)
  \/ StreamReturns(t) \/ StreamFallsBack(t) \/ StreamErrs(t)
  \/ PreCommit(t) \/ PersistLoad(t) \/ PersistTouch(t) \/ PersistCommit(t)
  \/ ToolRuns(t) \/ Delete(t) \/ Close(t)
Trouble(t) ==
  \/ UsageFails(t) \/ SaveFails(t) \/ PreCommitFails(t) \/ PersistRefused(t) \/ PersistFails(t)
  \/ Disconnect(t) \/ ToolFails(t) \/ DeleteFails(t) \/ CloseFails(t)

Next == \E t \in Turns : Progress(t) \/ Trouble(t)

Spec == Init /\ [][Next]_vars

-----------------------------------------------------------------------------
(* Properties *)

Saved == ToSet(log)
Later(u, v) == \E i, j \in DOMAIN log : i < j /\ log[i] = u /\ log[j] = v

\* A turn that was stored with an answer is in the model's memory of the
\* conversation, unless a streamed turn came after it, which replaces the memory
\* (ai/conversation.py:240), or one that had read the row before it
\* (ai/conversation.py:277).
ForgottenTurnsExplained ==
  \A u \in Saved : result[u] # "none" /\ u \notin conv.history =>
    \E v \in Saved : Later(u, v) /\ (mode[v] = "stream" \/ u \in missed[v])

\* The turn counter tells the turns stored since the conversation exists, unless one
\* of them overlapped with another turn or with a deletion.
TurnsCounted ==
  LET overlapped == \E v \in Saved : missed[v] # {}
  IN conv.exists => (conv.turns = Len(log) \/ overlapped)

\* Turns of a conversation that was deleted come back, and messages without a
\* conversation stay behind, only by a turn in flight during the deletion.
DeletionNeedsQuiet ==
  /\ conv.history \ Saved # {} =>
       \E v \in Saved : \E d \in missed[v] : mode[d] = "delete"
  /\ messages # {} /\ ~conv.exists =>
       \E d \in Turns : mode[d] = "delete" /\ at[d] \in {"close", "done"}
                         /\ messages \cap found[d] = {}

\* Every stored turn has one usage row; only the stream that fell back to chat,
\* which leaves the row to the request's own transaction, may have none.
TurnsBilledOnce ==
  \A t \in Turns :
    /\ usageRows[t] <= 1
    /\ t \in messages /\ ~degraded[t] => usageRows[t] = 1

\* A chat that answers an error has stored nothing: no message, no usage, and
\* nothing its tools wrote.
RefusedChatLeavesNothing ==
  \A t \in Turns : mode[t] = "chat" /\ answer[t] = "error" =>
    t \notin messages \cup records /\ usageRows[t] = 0

\* A turn never waits for a lock that it holds itself: before the second session is
\* opened the first has ended its transaction (ai/service.py:516, "otherwise both
\* sessions hold the SQLite write lock").
NeverWaitsForItself ==
  \A t \in Turns : at[t] \in {"persist", "touch", "own commit"} => writer # <<"req", t>>

\* The sessions of a turn: their values keep their types, and a stream does not
\* wait for the lock its own request holds.
SessionsHold == TypeOK /\ NeverWaitsForItself

\* A turn is stored, counted and billed as one: what is forgotten of it was lost
\* to a stream or to an overlapping turn, the counter tells the turns that were
\* stored, nothing is billed twice, and a refused chat leaves nothing behind.
TurnsAreWhole ==
    /\ ForgottenTurnsExplained
    /\ TurnsCounted
    /\ TurnsBilledOnce
    /\ RefusedChatLeavesNothing
=============================================================================
