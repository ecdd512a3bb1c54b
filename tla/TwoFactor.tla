------------------------------ MODULE TwoFactor ------------------------------
(***************************************************************************)
(* Two-factor authentication of one account: the setup page, enabling,     *)
(* disabling, regenerating backup codes, and verify-2fa, the second half   *)
(* of a login.                                                             *)
(*                                                                         *)
(* Sources: views/totp.py, auth/totp.py, db.py (the commit after the       *)
(* response).                                                              *)
(*                                                                         *)
(* All of it works on one row of admin_user_totp.  A handler loads the row *)
(* into its session, decides on what it loaded, and flushes the columns it *)
(* changed; the UPDATE locks the row until SessionMiddleware commits.      *)
(* Between the load and the flush the row may change under the handler.    *)
(*                                                                         *)
(* Passwords and six-digit codes are right here: a wrong one leaves the    *)
(* handler before it writes.  Whoever verifies holds a pending token that  *)
(* an earlier login gave him; it can be presented again while it lasts.    *)
(* A backup code is named after the request that generated it, or after    *)
(* None when it is older than the behaviour.                               *)
(***************************************************************************)
EXTENDS Naturals, FiniteSets

CONSTANTS
    Requests,       \* the requests of a behaviour, each served once
    None,           \* no backup codes (SQL NULL), no code, no request yet
    CodesPerBatch   \* backup codes generated at a time (10 in the code)

Codes == (Requests \cup {None}) \X (1 .. CodesPerBatch)

ASSUME NoneAssumption == None \notin Requests /\ None \notin Codes
ASSUME CodesAssumption == CodesPerBatch \in Nat \ {0}

\* generate_backup_codes, called by request r.
Batch(r) == {r} \X (1 .. CodesPerBatch)

\* The columns that change; NULL and the empty list are different.
Records == [enabled : BOOLEAN, codes : (SUBSET Codes) \cup {{None}}]
Null == {None}

Kinds == {"idle", "setup", "enable", "disable", "regenerate", "verify"}

VARIABLES
    exists,     \* the row is in the database
    record,     \* its committed columns
    kind,       \* kind[r]: the endpoint r calls
    stage,      \* stage[r]: how far r is
    loaded,     \* loaded[r]: the columns as r loaded them
    code,       \* code[r]: the backup code r verified, if it used one
    outcome,    \* outcome[r]: what r's client got
    latest,     \* history: the last request whose fresh codes were committed
    switched,   \* history: the last request that committed "2FA is on / off"
    overlap     \* history: requests in service at the same time

db == <<exists, record>>
local == <<kind, stage, loaded, code, outcome>>
history == <<latest, switched, overlap>>
vars == <<db, local, history>>

\* The account has no record, one that was set up, or an enabled one.
Init ==
    /\ exists \in BOOLEAN
    /\ record \in {[enabled |-> FALSE, codes |-> Null]}
                  \cup {[enabled |-> TRUE, codes |-> Batch(None)]}
    /\ record.enabled => exists
    /\ kind = [r \in Requests |-> "idle"]
    /\ stage = [r \in Requests |-> "idle"]
    /\ loaded = [r \in Requests |-> [enabled |-> FALSE, codes |-> Null]]
    /\ code = [r \in Requests |-> None]
    /\ outcome = [r \in Requests |-> "none"]
    /\ latest = None
    /\ switched = None
    /\ overlap = {}

-----------------------------------------------------------------------------
InService(r) == stage[r] \in {"loaded", "flushed"}

\* get_totp_record: the handler of r has loaded the committed row.
Load(r, k) ==
    /\ stage[r] = "idle"
    /\ kind' = [kind EXCEPT ![r] = k]
    /\ stage' = [stage EXCEPT ![r] = "loaded"]
    /\ loaded' = [loaded EXCEPT ![r] = record]
    /\ overlap' = overlap \cup ({r} \X {q \in Requests : InService(q)})
                          \cup ({q \in Requests : InService(q)} \X {r})

\* totp_setup_view shows the page of an existing record, or adds a record.
SetupLoad(r) ==
    /\ ~exists
    /\ Load(r, "setup")
    /\ UNCHANGED <<db, code, outcome, latest, switched>>

\* totp_enable_post accepts a record that is enabled already.
EnableLoad(r) ==
    /\ exists
    /\ Load(r, "enable")
    /\ UNCHANGED <<db, code, outcome, latest, switched>>

\* "2FA is not enabled." otherwise (400).
RequireEnabled(c) == c.enabled

DisableLoad(r) ==
    /\ exists /\ RequireEnabled(record)
    /\ Load(r, "disable")
    /\ UNCHANGED <<db, code, outcome, latest, switched>>

RegenerateLoad(r) ==
    /\ exists /\ RequireEnabled(record)
    /\ Load(r, "regenerate")
    /\ UNCHANGED <<db, code, outcome, latest, switched>>

\* totp_verify_post with a pending token: the six-digit code, or a backup
\* code that is on the list the handler loaded.
VerifyLoad(r) ==
    /\ exists /\ RequireEnabled(record)
    /\ Load(r, "verify")
    /\ \E c \in (record.codes \ Null) \cup {None} : code' = [code EXCEPT ![r] = c]
    /\ UNCHANGED <<db, outcome, latest, switched>>

-----------------------------------------------------------------------------
(***************************************************************************)
(* What a handler leaves in its object, and what the flush writes.         *)
(***************************************************************************)

\* Mutant: the used code stays on the list.
KeepCode(codes, c) == codes

\* verify_backup_code pops the code it matched.
PopCode(codes, c) == codes \ {c}

Assigned(r) ==
    CASE kind[r] = "enable"     -> [enabled |-> TRUE, codes |-> Batch(r)]
      [] kind[r] = "disable"    -> [enabled |-> FALSE, codes |-> Null]
      [] kind[r] = "regenerate" -> [loaded[r] EXCEPT !.codes = Batch(r)]
      [] kind[r] = "verify" /\ code[r] # None ->
                                   [loaded[r] EXCEPT !.codes = PopCode(@, code[r])]
      [] OTHER                  -> loaded[r]

\* Mutant: every column is written.
AllColumns(r) == Assigned(r)

\* The unit of work writes the columns whose value differs from the loaded
\* one; the others keep what the database holds when the UPDATE runs.
ChangedColumns(r) ==
    [enabled |-> IF Assigned(r).enabled # loaded[r].enabled
                 THEN Assigned(r).enabled ELSE record.enabled,
     codes   |-> IF Assigned(r).codes # loaded[r].codes
                 THEN Assigned(r).codes ELSE record.codes]

Writes(r) == Assigned(r) # loaded[r]

\* The UPDATE of one transaction waits for the other's commit, and so does
\* the INSERT of a second row with the same user_id.
RowLocked(r) ==
    \E q \in Requests \ {r} :
        stage[q] = "flushed" /\ (kind[q] = "setup" \/ Writes(q))

Success(r) == IF kind[r] = "verify" THEN "session" ELSE "ok"

\* The flush succeeds and the response leaves; the commit comes later.
Flush(r) ==
    /\ stage[r] = "loaded"
    /\ kind[r] = "setup" \/ Writes(r) => ~RowLocked(r)
    /\ kind[r] = "setup" => ~exists
    /\ stage' = [stage EXCEPT ![r] = "flushed"]
    /\ outcome' = [outcome EXCEPT ![r] = Success(r)]
    /\ UNCHANGED <<db, kind, loaded, code, history>>

\* The setup page was opened twice: user_id is unique, the INSERT fails.
SetupConflict(r) ==
    /\ stage[r] = "loaded" /\ kind[r] = "setup" /\ exists
    /\ stage' = [stage EXCEPT ![r] = "failed"]
    /\ outcome' = [outcome EXCEPT ![r] = "error"]
    /\ UNCHANGED <<db, kind, loaded, code, history>>

Commit(r) ==
    /\ stage[r] = "flushed"
    /\ stage' = [stage EXCEPT ![r] = "done"]
    /\ exists' = (exists \/ kind[r] = "setup")
    /\ record' = ChangedColumns(r)
    /\ latest' = IF kind[r] \in {"enable", "regenerate"} THEN r ELSE latest
    /\ switched' = IF kind[r] \in {"enable", "disable"} THEN r ELSE switched
    /\ UNCHANGED <<kind, loaded, code, outcome, overlap>>

\* The commit fails after the client has its answer.
FailCommit(r) ==
    /\ stage[r] = "flushed"
    /\ stage' = [stage EXCEPT ![r] = "failed"]
    /\ UNCHANGED <<db, kind, loaded, code, outcome, history>>

Loads(r) ==
    \/ SetupLoad(r) \/ EnableLoad(r) \/ DisableLoad(r) \/ RegenerateLoad(r)
    \/ VerifyLoad(r)

Next ==
    \E r \in Requests :
        Loads(r) \/ Flush(r) \/ SetupConflict(r) \/ Commit(r) \/ FailCommit(r)

Spec == Init /\ [][Next]_vars

-----------------------------------------------------------------------------
(***************************************************************************)
(* Properties.                                                             *)
(***************************************************************************)

TypeOK ==
    /\ exists \in BOOLEAN
    /\ record \in Records
    /\ kind \in [Requests -> Kinds]
    /\ stage \in [Requests -> {"idle", "loaded", "flushed", "done", "failed"}]
    /\ loaded \in [Requests -> Records]
    /\ code \in [Requests -> Codes \cup {None}]
    /\ outcome \in [Requests -> {"none", "session", "ok", "error"}]
    /\ latest \in Requests \cup {None}
    /\ switched \in Requests \cup {None}
    /\ overlap \in SUBSET (Requests \X Requests)

\* Whatever the interleaving of enabling, disabling, regenerating and
\* verifying, an enabled second factor always has a list of backup codes:
\* disabling writes both columns, and enabling from a disabled row does too.
EnabledHasCodes == record.enabled => record.codes # Null

Spent(r) == stage[r] = "done" /\ kind[r] = "verify" /\ code[r] # None

\* A backup code that was used, and whose use was committed, is on the list
\* again only if another verification overlapped the one that used it and
\* wrote back the list it had loaded before.
SpentCodeReturnsByOverlap ==
    \A r \in Requests : Spent(r) /\ code[r] \in record.codes =>
        \E w \in Requests \ {r} : Spent(w) /\ <<w, r>> \in overlap

\* Two uses of the same backup code that are both on record were made by
\* overlapping requests, or a third one brought the code back.
CodeUsedTwiceNeedsOverlap ==
    \A r, q \in Requests : r # q /\ Spent(r) /\ Spent(q) /\ code[r] = code[q] =>
        \E w \in Requests : Spent(w) /\ (<<w, r>> \in overlap \/ <<w, q>> \in overlap)

\* Codes older than the last committed batch are on the list only if a
\* verification overlapped the request that replaced them (or the list was
\* dropped by disabling).
OldCodesReturnByOverlap ==
    record.codes # Null /\ ~(record.codes \subseteq Batch(latest)) =>
        \E w \in Requests : Spent(w) /\ <<w, latest>> \in overlap

\* The last request that told its client the factor is on (or off) is right
\* unless the opposite switch overlapped it.
SwitchTellsTheTruth ==
    switched # None /\ record.enabled # (kind[switched] = "enable") =>
        \E w \in Requests :
            /\ stage[w] = "done" /\ kind[w] \in {"enable", "disable"} \ {kind[switched]}
            /\ <<w, switched>> \in overlap

(***************************************************************************)
(* The strengthening that makes these inductive.                           *)
(***************************************************************************)

\* Codes are in the database, or loaded from it, only once the request that
\* generated them has committed.
FreshInv ==
    \A r \in Requests : stage[r] # "done" =>
        /\ Batch(r) \cap record.codes = {}
        /\ \A q \in Requests : Batch(r) \cap loaded[q].codes = {}

\* What the guards of the handlers established when they loaded the row.
LoadedInv ==
    \A r \in Requests :
        /\ loaded[r].enabled => loaded[r].codes # Null
        /\ kind[r] \in {"disable", "regenerate", "verify"} => loaded[r].enabled
        /\ stage[r] = "idle" <=> kind[r] = "idle"
        /\ code[r] # None => kind[r] = "verify" /\ code[r] \in loaded[r].codes

\* Requests in service together are on record as overlapping.
OverlapInv ==
    \A r, q \in Requests :
        r # q /\ InService(r) /\ InService(q) => <<r, q>> \in overlap

\* Whoever holds a spent code in the list it loaded overlapped with its
\* user, or somebody else had brought it back before.
StaleSpentInv ==
    \A r, w \in Requests :
        Spent(r) /\ InService(w) /\ code[r] \in loaded[w].codes =>
            \/ <<w, r>> \in overlap
            \/ \E x \in Requests \ {r} : Spent(x) /\ <<x, r>> \in overlap

\* The same for lists older than the last committed batch.
StaleBatchInv ==
    \A w \in Requests :
        InService(w) /\ loaded[w].codes # Null /\ ~(loaded[w].codes \subseteq Batch(latest)) =>
            \/ <<w, latest>> \in overlap
            \/ \E x \in Requests : Spent(x) /\ <<x, latest>> \in overlap

IInv ==
    /\ TypeOK
    /\ FreshInv
    /\ LoadedInv
    /\ OverlapInv
    /\ StaleSpentInv
    /\ StaleBatchInv
    /\ EnabledHasCodes
    /\ SpentCodeReturnsByOverlap
    /\ OldCodesReturnByOverlap
    /\ CodeUsedTwiceNeedsOverlap
=============================================================================
