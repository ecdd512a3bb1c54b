---------------------------- MODULE SignInProofs ----------------------------
(***************************************************************************)
(* Proofs about signing in, for any number of tabs, requests and posts,    *)
(* any lifetimes and any limits.                                           *)
(*                                                                         *)
(* TwoFactor: an enabled second factor has backup codes, a spent or        *)
(* replaced code comes back only through overlapping requests, and so does *)
(* a switch that somebody was told of.                                     *)
(* SignIn: a form's token is refused only when its hour is over, a         *)
(* replaced password opens no page, a browser sent around for ever holds a *)
(* session older than its password.                                        *)
(* LoginGuard: no window holds more than the limit, but for requests       *)
(* served together, and the announced wait is the right one.               *)
(*                                                                         *)
(* The three modules share no state and no definition: each theorem is     *)
(* about the behaviours of one of them.                                    *)
(***************************************************************************)
EXTENDS TwoFactor, SignIn, LoginGuard, FiniteSetTheorems, WellFoundedInduction, TLAPS

-----------------------------------------------------------------------------
(* Lists of codes.                                                         *)

\* The fresh codes of a request are a list of codes, never NULL and never
\* empty.
LEMMA BatchIsAList ==
    ASSUME NEW r \in Requests \cup {None}
    PROVE  Batch(r) \subseteq Codes /\ Batch(r) # {} /\ Batch(r) # Null
<1>1. <<r, 1>> \in Batch(r)
  BY CodesAssumption DEF Batch
<1>2. Batch(r) \subseteq Codes
  BY DEF Batch, Codes
<1> QED
  BY <1>1, <1>2, NoneAssumption DEF Null

\* Two requests generate different codes.
LEMMA BatchesAreDisjoint ==
    ASSUME NEW r \in Requests, NEW q \in Requests \cup {None}, r # q
    PROVE  Batch(r) \cap Batch(q) = {}
BY DEF Batch

\* What a handler assigns to the columns is a record again.
LEMMA AssignedIsARecord ==
    ASSUME TypeOK, NEW r \in Requests
    PROVE  Assigned(r) \in Records
<1> USE DEF Records
<1>1. loaded[r] \in Records
  BY DEF TypeOK
<1>2. CASE kind[r] \in {"enable", "regenerate"}
  BY <1>1, <1>2, BatchIsAList DEF Assigned
<1>3. CASE kind[r] = "disable"
  BY <1>3 DEF Assigned, Null
<1>4. CASE kind[r] = "verify" /\ code[r] # None
  <2>1. Assigned(r) = [loaded[r] EXCEPT !.codes = @ \ {code[r]}]
    BY <1>4 DEF Assigned, PopCode
  <2>2. loaded[r].codes \ {code[r]} \in (SUBSET Codes) \cup {{None}}
    <3>1. code[r] \in Codes
      BY <1>4 DEF TypeOK
    <3>2. CASE loaded[r].codes = {None}
      BY <3>1, <3>2, NoneAssumption
    <3>3. CASE loaded[r].codes \in SUBSET Codes
      BY <3>3
    <3> QED
      BY <1>1, <3>2, <3>3
  <2> QED
    BY <1>1, <2>1, <2>2
<1>5. CASE kind[r] \notin {"enable", "regenerate", "disable"} /\ ~(kind[r] = "verify" /\ code[r] # None)
  BY <1>1, <1>5 DEF Assigned
<1> QED
  BY <1>2, <1>3, <1>4, <1>5

\* The written columns are a record again.
LEMMA ChangedIsARecord ==
    ASSUME TypeOK, NEW r \in Requests
    PROVE  ChangedColumns(r) \in Records
<1>1. Assigned(r) \in Records /\ record \in Records
  BY AssignedIsARecord DEF TypeOK
<1> QED
  BY <1>1 DEF ChangedColumns, Records

-----------------------------------------------------------------------------
(* Type correctness.                                                       *)

LEMMA InitTyped == Init => TypeOK
<1> SUFFICES ASSUME Init PROVE TypeOK
  OBVIOUS
<1>1. Batch(None) \subseteq Codes
  BY BatchIsAList
<1>2. record \in Records
  <2>1. [enabled |-> FALSE, codes |-> {None}] \in Records
    BY DEF Records
  <2>2. [enabled |-> TRUE, codes |-> Batch(None)] \in Records
    BY <1>1 DEF Records
  <2> QED
    BY <2>1, <2>2 DEF Init, Null
<1> QED
  BY <1>2 DEF Init, TypeOK, Records, Null, Kinds

LEMMA NextTyped == TypeOK /\ [Next]_vars => TypeOK'
<1> SUFFICES ASSUME TypeOK, [Next]_vars PROVE TypeOK'
  OBVIOUS
<1>1. ASSUME NEW r \in Requests, NEW k \in Kinds, Load(r, k)
      PROVE  /\ kind' \in [Requests -> Kinds]
             /\ stage' \in [Requests -> {"idle", "loaded", "flushed", "done", "failed"}]
             /\ loaded' \in [Requests -> Records]
             /\ overlap' \in SUBSET (Requests \X Requests)
  BY <1>1 DEF Load, TypeOK
<1>2. ASSUME NEW r \in Requests, SetupLoad(r) PROVE TypeOK'
  <2>1. Load(r, "setup") /\ UNCHANGED <<exists, record, code, outcome, latest, switched>>
    BY <1>2 DEF SetupLoad, db
  <2> QED
    BY <1>1, <2>1 DEF TypeOK, Kinds
<1>3. ASSUME NEW r \in Requests, EnableLoad(r) PROVE TypeOK'
  <2>1. Load(r, "enable") /\ UNCHANGED <<exists, record, code, outcome, latest, switched>>
    BY <1>3 DEF EnableLoad, db
  <2> QED
    BY <1>1, <2>1 DEF TypeOK, Kinds
<1>4. ASSUME NEW r \in Requests, DisableLoad(r) PROVE TypeOK'
  <2>1. Load(r, "disable") /\ UNCHANGED <<exists, record, code, outcome, latest, switched>>
    BY <1>4 DEF DisableLoad, db
  <2> QED
    BY <1>1, <2>1 DEF TypeOK, Kinds
<1>5. ASSUME NEW r \in Requests, RegenerateLoad(r) PROVE TypeOK'
  <2>1. Load(r, "regenerate") /\ UNCHANGED <<exists, record, code, outcome, latest, switched>>
    BY <1>5 DEF RegenerateLoad, db
  <2> QED
    BY <1>1, <2>1 DEF TypeOK, Kinds
<1>6. ASSUME NEW r \in Requests, VerifyLoad(r) PROVE TypeOK'
  <2>1. Load(r, "verify") /\ UNCHANGED <<exists, record, outcome, latest, switched>>
    BY <1>6 DEF VerifyLoad, db
  <2>2. code' \in [Requests -> Codes \cup {None}]
    <3>1. PICK c \in (record.codes \ Null) \cup {None} : code' = [code EXCEPT ![r] = c]
      BY <1>6 DEF VerifyLoad
    <3>2. c \in Codes \cup {None}
      BY <3>1 DEF TypeOK, Records, Null
    <3> QED
      BY <3>1, <3>2 DEF TypeOK
  <2> QED
    BY <1>1, <2>1, <2>2 DEF TypeOK, Kinds
<1>7. ASSUME NEW r \in Requests, Flush(r) PROVE TypeOK'
  BY <1>7 DEF Flush, Success, db, history, TypeOK
<1>8. ASSUME NEW r \in Requests, SetupConflict(r) PROVE TypeOK'
  BY <1>8 DEF SetupConflict, db, history, TypeOK
<1>9. ASSUME NEW r \in Requests, Commit(r) PROVE TypeOK'
  <2>1. record' \in Records
    BY <1>9, ChangedIsARecord DEF Commit
  <2> QED
    BY <1>9, <2>1 DEF Commit, TypeOK
<1>10. ASSUME NEW r \in Requests, FailCommit(r) PROVE TypeOK'
  BY <1>10 DEF FailCommit, db, history, TypeOK
<1>11. CASE UNCHANGED vars
  BY <1>11 DEF vars, db, local, history, TypeOK
<1> QED
  BY <1>2, <1>3, <1>4, <1>5, <1>6, <1>7, <1>8, <1>9, <1>10, <1>11 DEF Next, Loads

-----------------------------------------------------------------------------
(* The inductive invariant: initially.                                     *)

LEMMA InitInvariant == Init => IInv
<1> SUFFICES ASSUME Init PROVE IInv
  OBVIOUS
<1>1. TypeOK
  BY InitTyped
<1>2. FreshInv
  <2> SUFFICES ASSUME NEW r \in Requests
               PROVE  /\ Batch(r) \cap record.codes = {}
                      /\ \A q \in Requests : Batch(r) \cap loaded[q].codes = {}
    BY DEF FreshInv
  <2>1. Batch(r) \cap Batch(None) = {} /\ Batch(r) \cap Null = {}
    BY BatchesAreDisjoint, BatchIsAList, NoneAssumption DEF Null
  <2>2. record.codes = Null \/ record.codes = Batch(None)
    BY DEF Init
  <2> QED
    BY <2>1, <2>2 DEF Init
<1>3. EnabledHasCodes
  BY BatchIsAList DEF Init, EnabledHasCodes
<1>4. OldCodesReturnByOverlap
  BY DEF Init, OldCodesReturnByOverlap
<1> QED
  BY <1>1, <1>2, <1>3, <1>4
  DEF Init, IInv, LoadedInv, OverlapInv, StaleSpentInv, StaleBatchInv,
      SpentCodeReturnsByOverlap, CodeUsedTwiceNeedsOverlap, InService, Spent

-----------------------------------------------------------------------------
(* A load: the row goes into a handler's session, the database is as       *)
(* before.                                                                 *)

LEMMA LoadKeepsInvariant ==
    ASSUME IInv, TypeOK', UNCHANGED <<exists, record, latest>>,
           NEW r \in Requests, NEW k \in Kinds \ {"idle"}, Load(r, k),
           NEW c \in Codes \cup {None}, code' = [code EXCEPT ![r] = c],
           c # None => k = "verify" /\ c \in record.codes,
           k \in {"disable", "regenerate", "verify"} => record.enabled
    PROVE  IInv'
<1>1. /\ stage[r] = "idle" /\ stage'[r] = "loaded" /\ kind'[r] = k
      /\ loaded'[r] = record /\ code'[r] = c
      /\ \A q \in Requests \ {r} :
           /\ stage'[q] = stage[q] /\ kind'[q] = kind[q]
           /\ loaded'[q] = loaded[q] /\ code'[q] = code[q]
      /\ overlap \subseteq overlap'
  BY DEF Load, IInv, TypeOK
<1>2. \A q \in Requests : InService(q) => <<r, q>> \in overlap' /\ <<q, r>> \in overlap'
  BY DEF Load
<1>3. \A q \in Requests : Spent(q)' <=> Spent(q)
  BY <1>1 DEF Spent
<1>4. \A q \in Requests \ {r} : InService(q)' <=> InService(q)
  BY <1>1 DEF InService
<1>5. FreshInv'
  <2> SUFFICES ASSUME NEW p \in Requests, stage'[p] # "done"
               PROVE  /\ Batch(p) \cap record.codes = {}
                      /\ \A q \in Requests : Batch(p) \cap loaded'[q].codes = {}
    BY DEF FreshInv, Batch
  <2>1. stage[p] # "done"
    BY <1>1
  <2> QED
    BY <1>1, <2>1 DEF IInv, FreshInv
<1>6. LoadedInv'
  BY <1>1 DEF IInv, LoadedInv, EnabledHasCodes, Null, Kinds
<1>7. OverlapInv'
  BY <1>1, <1>2, <1>4 DEF IInv, OverlapInv
<1>8. StaleSpentInv'
  <2> SUFFICES ASSUME NEW p \in Requests, NEW w \in Requests,
                      Spent(p)', InService(w)', code'[p] \in loaded'[w].codes
               PROVE  \/ <<w, p>> \in overlap'
                      \/ \E x \in Requests \ {p} : Spent(x)' /\ <<x, p>> \in overlap'
    BY DEF StaleSpentInv
  <2>1. p # r /\ code'[p] = code[p] /\ Spent(p)
    BY <1>1, <1>3 DEF Spent
  <2>2. CASE w = r
    <3>1. \E x \in Requests \ {p} : Spent(x) /\ <<x, p>> \in overlap
      BY <1>1, <2>1, <2>2 DEF IInv, SpentCodeReturnsByOverlap
    <3> QED
      BY <1>1, <1>3, <3>1
  <2>3. CASE w # r
    <3>1. \/ <<w, p>> \in overlap
          \/ \E x \in Requests \ {p} : Spent(x) /\ <<x, p>> \in overlap
      BY <1>1, <1>4, <2>1, <2>3 DEF IInv, StaleSpentInv
    <3> QED
      BY <1>1, <1>3, <3>1
  <2> QED
    BY <2>2, <2>3
<1>9. StaleBatchInv'
  <2> SUFFICES ASSUME NEW w \in Requests, InService(w)', loaded'[w].codes # Null,
                      ~(loaded'[w].codes \subseteq Batch(latest))
               PROVE  \/ <<w, latest>> \in overlap'
                      \/ \E x \in Requests : Spent(x)' /\ <<x, latest>> \in overlap'
    BY DEF StaleBatchInv, Batch, Null
  <2>1. CASE w = r
    <3>1. \E x \in Requests : Spent(x) /\ <<x, latest>> \in overlap
      BY <1>1, <2>1 DEF IInv, OldCodesReturnByOverlap
    <3> QED
      BY <1>1, <1>3, <3>1
  <2>2. CASE w # r
    <3>1. \/ <<w, latest>> \in overlap
          \/ \E x \in Requests : Spent(x) /\ <<x, latest>> \in overlap
      BY <1>1, <1>4, <2>2 DEF IInv, StaleBatchInv
    <3> QED
      BY <1>1, <1>3, <3>1
  <2> QED
    BY <2>1, <2>2
<1>10. EnabledHasCodes' /\ SpentCodeReturnsByOverlap' /\ OldCodesReturnByOverlap'
  <2>1. EnabledHasCodes'
    BY DEF IInv, EnabledHasCodes, Null
  <2>2. SpentCodeReturnsByOverlap'
    <3> SUFFICES ASSUME NEW p \in Requests, Spent(p)', code'[p] \in record.codes
                 PROVE  \E x \in Requests \ {p} : Spent(x)' /\ <<x, p>> \in overlap'
      BY DEF SpentCodeReturnsByOverlap
    <3>1. p # r /\ code'[p] = code[p] /\ Spent(p)
      BY <1>1, <1>3 DEF Spent
    <3> QED
      BY <1>1, <1>3, <3>1 DEF IInv, SpentCodeReturnsByOverlap
  <2>3. OldCodesReturnByOverlap'
    <3> SUFFICES ASSUME record.codes # Null, ~(record.codes \subseteq Batch(latest))
                 PROVE  \E x \in Requests : Spent(x)' /\ <<x, latest>> \in overlap'
      BY DEF OldCodesReturnByOverlap, Batch, Null
    <3> QED
      BY <1>1, <1>3 DEF IInv, OldCodesReturnByOverlap
  <2> QED
    BY <2>1, <2>2, <2>3
<1>11. CodeUsedTwiceNeedsOverlap'
  <2> SUFFICES ASSUME NEW p \in Requests, NEW q \in Requests, p # q,
                      Spent(p)', Spent(q)', code'[p] = code'[q]
               PROVE  \E x \in Requests :
                        Spent(x)' /\ (<<x, p>> \in overlap' \/ <<x, q>> \in overlap')
    BY DEF CodeUsedTwiceNeedsOverlap
  <2>1. p # r /\ q # r /\ Spent(p) /\ Spent(q) /\ code[p] = code[q]
    BY <1>1, <1>3 DEF Spent
  <2> QED
    BY <1>1, <1>3, <2>1 DEF IInv, CodeUsedTwiceNeedsOverlap
<1> QED
  BY <1>5, <1>6, <1>7, <1>8, <1>9, <1>10, <1>11 DEF IInv

-----------------------------------------------------------------------------
(* A request goes on or fails without a commit.                            *)

LEMMA MoveKeepsInvariant ==
    ASSUME IInv, TypeOK', UNCHANGED <<exists, record, kind, loaded, code, history>>,
           NEW r \in Requests, NEW s \in {"flushed", "failed"}, InService(r),
           stage' = [stage EXCEPT ![r] = s]
    PROVE  IInv'
<1> USE DEF history
<1>1. \A q \in Requests : InService(q)' => InService(q)
  BY DEF InService, IInv, TypeOK
<1>2. \A q \in Requests : Spent(q)' <=> Spent(q)
  BY DEF Spent, InService, IInv, TypeOK
<1>3. \A q \in Requests : (stage'[q] = "done" <=> stage[q] = "done")
                          /\ (stage'[q] = "idle" <=> stage[q] = "idle")
  BY DEF InService, IInv, TypeOK
<1>4. FreshInv'
  BY <1>3 DEF IInv, FreshInv, Batch
<1>5. LoadedInv'
  BY <1>3 DEF IInv, LoadedInv, Null
<1>6. OverlapInv'
  BY <1>1 DEF IInv, OverlapInv
<1>7. StaleSpentInv'
  BY <1>1, <1>2 DEF IInv, StaleSpentInv
<1>8. StaleBatchInv'
  BY <1>1, <1>2 DEF IInv, StaleBatchInv, Batch, Null
<1>9. EnabledHasCodes'
  BY DEF IInv, EnabledHasCodes, Null
<1>10. SpentCodeReturnsByOverlap'
  BY <1>2 DEF IInv, SpentCodeReturnsByOverlap
<1>11. OldCodesReturnByOverlap'
  BY <1>2 DEF IInv, OldCodesReturnByOverlap, Batch, Null
<1>12. CodeUsedTwiceNeedsOverlap'
  BY <1>2 DEF IInv, CodeUsedTwiceNeedsOverlap
<1> QED
  BY <1>4, <1>5, <1>6, <1>7, <1>8, <1>9, <1>10, <1>11, <1>12 DEF IInv

-----------------------------------------------------------------------------
(* A commit.  What it does to the row depends on the handler.              *)

\* Enabling and regenerating replace the list: a fresh batch is never what
\* the handler had loaded.
LEMMA CommitFresh ==
    ASSUME IInv, NEW r \in Requests, Commit(r), kind[r] \in {"enable", "regenerate"}
    PROVE  record'.codes = Batch(r)
<1>1. Batch(r) \cap loaded[r].codes = {}
  BY DEF IInv, FreshInv, Commit
<1>2. Batch(r) # loaded[r].codes
  BY <1>1, BatchIsAList
<1>3. Assigned(r).codes = Batch(r)
  BY DEF Assigned, IInv, TypeOK, Records
<1> QED
  BY <1>2, <1>3 DEF Commit, ChangedColumns

\* Disabling writes both columns: it was enabled, so it had a list.
LEMMA CommitDisable ==
    ASSUME IInv, NEW r \in Requests, Commit(r), kind[r] = "disable"
    PROVE  record'.codes = Null /\ record'.enabled = FALSE
<1>1. loaded[r].enabled /\ loaded[r].codes # Null
  BY DEF IInv, LoadedInv
<1>2. Assigned(r) = [enabled |-> FALSE, codes |-> Null]
  BY DEF Assigned
<1> QED
  BY <1>1, <1>2 DEF Commit, ChangedColumns

\* A verification writes back the list it loaded, without the used code.
LEMMA CommitVerify ==
    ASSUME IInv, NEW r \in Requests, Commit(r), kind[r] = "verify", code[r] # None
    PROVE  /\ record'.codes = loaded[r].codes \ {code[r]}
           /\ record'.enabled = record.enabled
           /\ record'.codes \subseteq Codes
           /\ record'.codes # Null
<1>1. code[r] \in loaded[r].codes /\ loaded[r].codes # Null /\ loaded[r] \in Records
  BY DEF IInv, LoadedInv, TypeOK
<1>2. loaded[r].codes \subseteq Codes
  BY <1>1 DEF Records, Null
<1>3. Assigned(r) = [loaded[r] EXCEPT !.codes = @ \ {code[r]}]
  BY DEF Assigned, PopCode
<1>4. /\ Assigned(r).codes = loaded[r].codes \ {code[r]}
      /\ Assigned(r).enabled = loaded[r].enabled
  BY <1>1, <1>3 DEF Records
<1>5. Assigned(r).codes # loaded[r].codes
  BY <1>1, <1>4
<1>6. record'.codes = loaded[r].codes \ {code[r]} /\ record'.enabled = record.enabled
  BY <1>4, <1>5 DEF Commit, ChangedColumns
<1>7. loaded[r].codes \ {code[r]} # Null
  BY <1>2, NoneAssumption DEF Null
<1> QED
  BY <1>2, <1>6, <1>7

\* Whoever else commits leaves the row alone.
LEMMA CommitNothing ==
    ASSUME IInv, NEW r \in Requests, Commit(r),
           kind[r] \notin {"enable", "disable", "regenerate"},
           ~(kind[r] = "verify" /\ code[r] # None)
    PROVE  record'.codes = record.codes /\ record'.enabled = record.enabled
<1>1. Assigned(r) = loaded[r]
  BY DEF Assigned
<1> QED
  BY <1>1 DEF Commit, ChangedColumns

\* An enabled row keeps a list through any commit.
LEMMA CommitKeepsCodes ==
    ASSUME IInv, NEW r \in Requests, Commit(r)
    PROVE  EnabledHasCodes'
<1>1. CASE kind[r] \in {"enable", "regenerate"}
  BY <1>1, CommitFresh, BatchIsAList DEF EnabledHasCodes, Null
<1>2. CASE kind[r] = "disable"
  BY <1>2, CommitDisable DEF EnabledHasCodes
<1>3. CASE kind[r] = "verify" /\ code[r] # None
  BY <1>3, CommitVerify DEF EnabledHasCodes, Null
<1>4. CASE kind[r] \notin {"enable", "disable", "regenerate"} /\ ~(kind[r] = "verify" /\ code[r] # None)
  BY <1>4, CommitNothing DEF EnabledHasCodes, IInv, Null
<1> QED
  BY <1>1, <1>2, <1>3, <1>4

LEMMA CommitKeepsInvariant ==
    ASSUME IInv, TypeOK', NEW r \in Requests, Commit(r)
    PROVE  IInv'
<1> DEFINE Uses == kind[r] = "verify" /\ code[r] # None
<1>1. /\ UNCHANGED <<kind, loaded, code, outcome, overlap>>
      /\ stage[r] = "flushed" /\ stage'[r] = "done"
      /\ \A q \in Requests \ {r} : stage'[q] = stage[q]
  BY DEF Commit, IInv, TypeOK
<1>2. \A q \in Requests : InService(q)' <=> q # r /\ InService(q)
  BY <1>1 DEF InService
<1>3. \A q \in Requests : Spent(q)' <=> Spent(q) \/ (q = r /\ Uses)
  BY <1>1 DEF Spent
<1>4. InService(r) /\ ~Spent(r)
  BY <1>1 DEF InService, Spent
<1>5. \A q \in Requests \ {r} : InService(q) => <<q, r>> \in overlap
  BY <1>4 DEF IInv, OverlapInv
<1>6. FreshInv'
  <2> SUFFICES ASSUME NEW p \in Requests, stage'[p] # "done"
               PROVE  /\ Batch(p) \cap record'.codes = {}
                      /\ \A q \in Requests : Batch(p) \cap loaded[q].codes = {}
    BY <1>1 DEF FreshInv, Batch
  <2>1. p # r /\ stage[p] # "done"
    BY <1>1
  <2>2. \A q \in Requests : Batch(p) \cap loaded[q].codes = {}
    BY <2>1 DEF IInv, FreshInv
  <2>3. Batch(p) \cap record.codes = {}
    BY <2>1 DEF IInv, FreshInv
  <2>4. CASE kind[r] \in {"enable", "regenerate"}
    BY <2>1, <2>2, <2>4, CommitFresh, BatchesAreDisjoint
  <2>5. CASE kind[r] = "disable"
    <3>1. Batch(p) \cap Null = {}
      BY BatchIsAList, NoneAssumption DEF Null
    <3> QED
      BY <2>2, <2>5, <3>1, CommitDisable
  <2>6. CASE Uses
    BY <2>2, <2>6, CommitVerify
  <2>7. CASE kind[r] \notin {"enable", "disable", "regenerate"} /\ ~Uses
    BY <2>2, <2>3, <2>7, CommitNothing
  <2> QED
    BY <2>4, <2>5, <2>6, <2>7
<1>7. LoadedInv'
  BY <1>1 DEF IInv, LoadedInv, Null
<1>8. OverlapInv'
  BY <1>1, <1>2 DEF IInv, OverlapInv
<1>9. StaleSpentInv'
  <2> SUFFICES ASSUME NEW p \in Requests, NEW w \in Requests,
                      Spent(p)', InService(w)', code[p] \in loaded[w].codes
               PROVE  \/ <<w, p>> \in overlap
                      \/ \E x \in Requests \ {p} : Spent(x)' /\ <<x, p>> \in overlap
    BY <1>1 DEF StaleSpentInv
  <2>1. w # r /\ InService(w)
    BY <1>2
  <2>2. CASE p = r
    BY <1>5, <2>1, <2>2
  <2>3. CASE p # r
    BY <1>3, <2>1, <2>3 DEF IInv, StaleSpentInv
  <2> QED
    BY <2>2, <2>3
<1>10. SpentCodeReturnsByOverlap'
  <2> SUFFICES ASSUME NEW p \in Requests, Spent(p)', code[p] \in record'.codes
               PROVE  \E x \in Requests \ {p} : Spent(x)' /\ <<x, p>> \in overlap
    BY <1>1 DEF SpentCodeReturnsByOverlap
  <2>1. code[p] # None /\ kind[p] = "verify" /\ code[p] \in Codes /\ code[p] \in loaded[p].codes
    BY <1>1 DEF Spent, IInv, TypeOK, LoadedInv
  <2>2. CASE kind[r] \in {"enable", "regenerate"}
    <3>1. Batch(r) \cap loaded[p].codes = {}
      BY <1>1 DEF IInv, FreshInv
    <3> QED
      BY <2>1, <2>2, <3>1, CommitFresh
  <2>3. CASE kind[r] = "disable"
    BY <2>1, <2>3, CommitDisable, NoneAssumption DEF Null
  <2>4. CASE Uses
    <3>1. code[p] \in loaded[r].codes /\ code[p] # code[r]
      BY <2>4, CommitVerify
    <3>2. p # r /\ Spent(p)
      BY <1>3, <3>1
    <3>3. \/ <<r, p>> \in overlap
          \/ \E x \in Requests \ {p} : Spent(x) /\ <<x, p>> \in overlap
      BY <1>4, <3>1, <3>2 DEF IInv, StaleSpentInv
    <3> QED
      BY <1>3, <2>4, <3>2, <3>3
  <2>5. CASE kind[r] \notin {"enable", "disable", "regenerate"} /\ ~Uses
    <3>1. Spent(p) /\ code[p] \in record.codes
      BY <1>3, <2>5, CommitNothing
    <3> QED
      BY <1>3, <3>1 DEF IInv, SpentCodeReturnsByOverlap
  <2> QED
    BY <2>2, <2>3, <2>4, <2>5
<1>11. StaleBatchInv' /\ OldCodesReturnByOverlap'
  <2>1. CASE kind[r] \in {"enable", "regenerate"}
    <3>1. latest' = r
      BY <2>1 DEF Commit
    <3>2. StaleBatchInv'
      BY <1>1, <1>2, <1>5, <3>1 DEF StaleBatchInv
    <3>3. OldCodesReturnByOverlap'
      BY <2>1, <3>1, CommitFresh DEF OldCodesReturnByOverlap, Batch
    <3> QED
      BY <3>2, <3>3
  <2>2. CASE kind[r] \notin {"enable", "regenerate"}
    <3>1. latest' = latest
      BY <2>2 DEF Commit
    <3>2. StaleBatchInv'
      <4> SUFFICES ASSUME NEW w \in Requests, InService(w)', loaded[w].codes # Null,
                          ~(loaded[w].codes \subseteq Batch(latest))
                   PROVE  \/ <<w, latest>> \in overlap
                          \/ \E x \in Requests : Spent(x)' /\ <<x, latest>> \in overlap
        BY <1>1, <3>1 DEF StaleBatchInv, Batch, Null
      <4> QED
        BY <1>2, <1>3 DEF IInv, StaleBatchInv
    <3>3. OldCodesReturnByOverlap'
      <4> SUFFICES ASSUME record'.codes # Null, ~(record'.codes \subseteq Batch(latest))
                   PROVE  \E x \in Requests : Spent(x)' /\ <<x, latest>> \in overlap
        BY <1>1, <3>1 DEF OldCodesReturnByOverlap, Batch, Null
      <4>1. CASE kind[r] = "disable"
        BY <4>1, CommitDisable
      <4>2. CASE Uses
        <5>1. loaded[r].codes # Null /\ ~(loaded[r].codes \subseteq Batch(latest))
          BY <4>2, CommitVerify DEF IInv, LoadedInv
        <5>2. \/ <<r, latest>> \in overlap
              \/ \E x \in Requests : Spent(x) /\ <<x, latest>> \in overlap
          BY <1>4, <5>1 DEF IInv, StaleBatchInv
        <5> QED
          BY <1>3, <4>2, <5>2
      <4>3. CASE kind[r] # "disable" /\ ~Uses
        <5>1. record'.codes = record.codes
          BY <2>2, <4>3, CommitNothing
        <5> QED
          BY <1>3, <5>1 DEF IInv, OldCodesReturnByOverlap
      <4> QED
        BY <4>1, <4>2, <4>3
    <3> QED
      BY <3>2, <3>3
  <2> QED
    BY <2>1, <2>2
<1>12. CodeUsedTwiceNeedsOverlap'
  <2> SUFFICES ASSUME NEW p \in Requests, NEW q \in Requests, p # q,
                      Spent(p)', Spent(q)', code[p] = code[q]
               PROVE  \E x \in Requests :
                        Spent(x)' /\ (<<x, p>> \in overlap \/ <<x, q>> \in overlap)
    BY <1>1 DEF CodeUsedTwiceNeedsOverlap
  <2>1. ASSUME NEW a \in Requests, a # r, Spent(a), Uses, code[a] = code[r]
        PROVE  \E x \in Requests : Spent(x)' /\ <<x, a>> \in overlap
    <3>1. code[a] \in loaded[r].codes
      BY <2>1 DEF IInv, LoadedInv
    <3>2. \/ <<r, a>> \in overlap
          \/ \E x \in Requests \ {a} : Spent(x) /\ <<x, a>> \in overlap
      BY <1>4, <2>1, <3>1 DEF IInv, StaleSpentInv
    <3> QED
      BY <1>3, <2>1, <3>2
  <2>2. CASE p = r
    BY <1>3, <1>4, <2>1, <2>2
  <2>3. CASE q = r
    BY <1>3, <1>4, <2>1, <2>3
  <2>4. CASE p # r /\ q # r
    BY <1>3, <2>4 DEF IInv, CodeUsedTwiceNeedsOverlap
  <2> QED
    BY <2>2, <2>3, <2>4
<1> QED
  BY <1>6, <1>7, <1>8, <1>9, <1>10, <1>11, <1>12, CommitKeepsCodes DEF IInv

-----------------------------------------------------------------------------
(* The invariant holds throughout.                                         *)

LEMMA NextInvariant == IInv /\ [Next]_vars => IInv'
<1> SUFFICES ASSUME IInv, [Next]_vars PROVE IInv'
  OBVIOUS
<1>1. TypeOK /\ TypeOK'
  BY NextTyped DEF IInv
<1>2. ASSUME NEW r \in Requests, stage[r] = "idle"
      PROVE  code[r] = None /\ code = [code EXCEPT ![r] = None]
  BY <1>1, <1>2 DEF IInv, LoadedInv, TypeOK
<1>3. ASSUME NEW r \in Requests, Loads(r) PROVE IInv'
  <2>1. CASE SetupLoad(r) \/ EnableLoad(r) \/ DisableLoad(r) \/ RegenerateLoad(r)
    <3>1. PICK k \in {"setup", "enable", "disable", "regenerate"} :
            Load(r, k) /\ (k \in {"disable", "regenerate"} => record.enabled)
      BY <2>1 DEF SetupLoad, EnableLoad, DisableLoad, RegenerateLoad, RequireEnabled
    <3>2. code' = [code EXCEPT ![r] = None]
      BY <1>2, <2>1 DEF SetupLoad, EnableLoad, DisableLoad, RegenerateLoad, Load
    <3>3. UNCHANGED <<exists, record, latest>>
      BY <2>1 DEF SetupLoad, EnableLoad, DisableLoad, RegenerateLoad, db
    <3> QED
      BY <1>1, <3>1, <3>2, <3>3, LoadKeepsInvariant DEF Kinds
  <2>2. CASE VerifyLoad(r)
    <3>1. PICK c \in (record.codes \ Null) \cup {None} : code' = [code EXCEPT ![r] = c]
      BY <2>2 DEF VerifyLoad
    <3>2. c \in Codes \cup {None} /\ (c # None => c \in record.codes)
      BY <1>1, <3>1 DEF TypeOK, Records, Null
    <3>3. Load(r, "verify") /\ record.enabled /\ UNCHANGED <<exists, record, latest>>
      BY <2>2 DEF VerifyLoad, RequireEnabled, db
    <3> QED
      BY <1>1, <3>1, <3>2, <3>3, LoadKeepsInvariant DEF Kinds
  <2> QED
    BY <1>3, <2>1, <2>2 DEF Loads
<1>4. ASSUME NEW r \in Requests, Flush(r) \/ SetupConflict(r) \/ FailCommit(r) PROVE IInv'
  <2>1. PICK s \in {"flushed", "failed"} : stage' = [stage EXCEPT ![r] = s]
    BY <1>4 DEF Flush, SetupConflict, FailCommit
  <2>2. InService(r) /\ UNCHANGED <<exists, record, kind, loaded, code, history>>
    BY <1>4 DEF Flush, SetupConflict, FailCommit, InService, db
  <2> QED
    BY <1>1, <2>1, <2>2, MoveKeepsInvariant
<1>5. ASSUME NEW r \in Requests, Commit(r) PROVE IInv'
  BY <1>1, <1>5, CommitKeepsInvariant
<1>6. CASE UNCHANGED vars
  <2> USE <1>6 DEF vars, db, local, history
  <2>1. TypeOK' /\ FreshInv' /\ LoadedInv' /\ OverlapInv'
    BY <1>1 DEF IInv, FreshInv, LoadedInv, OverlapInv, InService, Batch, Null
  <2>2. StaleSpentInv' /\ StaleBatchInv'
    BY DEF IInv, StaleSpentInv, StaleBatchInv, InService, Spent, Batch, Null
  <2>3. EnabledHasCodes' /\ SpentCodeReturnsByOverlap' /\ OldCodesReturnByOverlap'
    BY DEF IInv, EnabledHasCodes, SpentCodeReturnsByOverlap, OldCodesReturnByOverlap,
           Spent, Batch, Null
  <2>4. CodeUsedTwiceNeedsOverlap'
    BY DEF IInv, CodeUsedTwiceNeedsOverlap, Spent
  <2> QED
    BY <2>1, <2>2, <2>3, <2>4 DEF IInv
<1> QED
  BY <1>3, <1>4, <1>5, <1>6 DEF Next

\* The inductive invariant holds in every behaviour, for every set of
\* requests and every batch size.
THEOREM Invariance == Spec => []IInv
<1>1. Init => IInv
  BY InitInvariant
<1>2. IInv /\ [Next]_vars => IInv'
  BY NextInvariant
<1> QED
  BY <1>1, <1>2, PTL DEF Spec

\* An enabled second factor has backup codes (views/totp.py: enabling and
\* disabling write both columns).
THEOREM CodesWhenEnabled == Spec => []EnabledHasCodes
<1>1. IInv => EnabledHasCodes
  BY DEF IInv
<1> QED
  BY <1>1, Invariance, PTL

\* A spent backup code comes back only by an overlapping verification
\* (views/totp.py: verify-2fa writes back the list it loaded).
THEOREM SpentCodes == Spec => []SpentCodeReturnsByOverlap
<1>1. IInv => SpentCodeReturnsByOverlap
  BY DEF IInv
<1> QED
  BY <1>1, Invariance, PTL

\* A backup code is used twice only by overlapping requests, or after an
\* overlapping one brought it back.
THEOREM CodesUsedTwice == Spec => []CodeUsedTwiceNeedsOverlap
<1>1. IInv => CodeUsedTwiceNeedsOverlap
  BY DEF IInv
<1> QED
  BY <1>1, Invariance, PTL

\* Replaced backup codes come back only by a verification that overlapped
\* their replacement.
THEOREM OldCodes == Spec => []OldCodesReturnByOverlap
<1>1. IInv => OldCodesReturnByOverlap
  BY DEF IInv
<1> QED
  BY <1>1, Invariance, PTL

-----------------------------------------------------------------------------
(***************************************************************************)
(* The switch.  The last request that turned the factor on or off is right *)
(* about the row, or the opposite one overlapped it.  The argument follows *)
(* the flag a handler loaded: whoever is in service with a flag that is no *)
(* longer the row's overlapped the request that flipped it.                *)
(***************************************************************************)

\* The request that switched last is over, and it was a switch.
SwitchedInv ==
    switched # None => stage[switched] = "done" /\ kind[switched] \in {"enable", "disable"}

\* The kind of request that makes a loaded flag stale.
Flipping(flag) == IF flag THEN "disable" ELSE "enable"

\* A stale flag in a handler's object was made stale by an overlapping switch.
StaleSwitchInv ==
    \A r \in Requests :
        InService(r) /\ loaded[r].enabled # record.enabled =>
            \E w \in Requests :
                /\ stage[w] = "done" /\ kind[w] = Flipping(loaded[r].enabled)
                /\ <<w, r>> \in overlap

SInv == SwitchedInv /\ StaleSwitchInv /\ SwitchTellsTheTruth

\* What a commit does to the flag: a switch that found the other position
\* writes its own, everybody else leaves the flag alone.
LEMMA CommitFlag ==
    ASSUME IInv, NEW r \in Requests, Commit(r)
    PROVE  /\ kind[r] = "disable" => record'.enabled = FALSE
           /\ kind[r] = "enable" /\ ~loaded[r].enabled => record'.enabled = TRUE
           /\ kind[r] = "enable" /\ loaded[r].enabled => record'.enabled = record.enabled
           /\ kind[r] \notin {"enable", "disable"} => record'.enabled = record.enabled
<1>1. loaded[r] \in Records /\ record \in Records
  BY DEF IInv, TypeOK
<1>2. kind[r] = "disable" => record'.enabled = FALSE
  BY CommitDisable
<1>3. ASSUME kind[r] = "enable"
      PROVE  record'.enabled = IF loaded[r].enabled THEN record.enabled ELSE TRUE
  <2>1. Assigned(r) = [enabled |-> TRUE, codes |-> Batch(r)]
    BY <1>3 DEF Assigned
  <2>2. loaded[r].enabled \in BOOLEAN /\ record.enabled \in BOOLEAN
    BY <1>1 DEF Records
  <2>3. record'.enabled = IF TRUE # loaded[r].enabled THEN TRUE ELSE record.enabled
    BY <2>1 DEF Commit, ChangedColumns
  <2> QED
    BY <2>2, <2>3
<1>4. ASSUME kind[r] \notin {"enable", "disable"}
      PROVE  record'.enabled = record.enabled
  <2>1. CASE kind[r] = "regenerate"
    <3>1. Assigned(r) = [loaded[r] EXCEPT !.codes = Batch(r)]
      BY <2>1 DEF Assigned
    <3>2. Assigned(r).enabled = loaded[r].enabled
      BY <1>1, <3>1 DEF Records
    <3> QED
      BY <3>2 DEF Commit, ChangedColumns
  <2>2. CASE kind[r] = "verify" /\ code[r] # None
    BY <2>2, CommitVerify
  <2>3. CASE kind[r] # "regenerate" /\ ~(kind[r] = "verify" /\ code[r] # None)
    BY <1>4, <2>3, CommitNothing
  <2> QED
    BY <2>1, <2>2, <2>3
<1> QED
  BY <1>2, <1>3, <1>4

\* A commit keeps the three facts.
LEMMA CommitKeepsSwitch ==
    ASSUME IInv, SInv, NEW r \in Requests, Commit(r)
    PROVE  SInv'
<1>1. /\ UNCHANGED <<kind, loaded, code, outcome, overlap>>
      /\ stage[r] = "flushed" /\ stage'[r] = "done"
      /\ \A q \in Requests \ {r} : stage'[q] = stage[q]
  BY DEF Commit, IInv, TypeOK
<1>2. \A q \in Requests : InService(q)' => q # r /\ InService(q) /\ <<r, q>> \in overlap
  BY <1>1 DEF InService, IInv, OverlapInv
<1>3. \A q \in Requests : stage[q] = "done" => stage'[q] = "done"
  BY <1>1
<1>4. switched' = IF kind[r] \in {"enable", "disable"} THEN r ELSE switched
  BY DEF Commit
<1>5. /\ record.enabled \in BOOLEAN
      /\ \A q \in Requests : loaded[q].enabled \in BOOLEAN
      /\ switched \in Requests \cup {None}
  BY DEF IInv, TypeOK, Records
<1>6. SwitchedInv'
  BY <1>1, <1>3, <1>4, <1>5 DEF SInv, SwitchedInv
<1>7. StaleSwitchInv'
  <2> SUFFICES ASSUME NEW q \in Requests, InService(q)', loaded[q].enabled # record'.enabled
               PROVE  \E w \in Requests :
                        /\ stage'[w] = "done" /\ kind[w] = Flipping(loaded[q].enabled)
                        /\ <<w, q>> \in overlap
    BY <1>1 DEF StaleSwitchInv, Flipping
  <2>1. CASE record'.enabled = record.enabled
    BY <1>2, <1>3, <2>1 DEF SInv, StaleSwitchInv
  <2>2. CASE record'.enabled # record.enabled
    <3>1. \/ kind[r] = "disable" /\ record'.enabled = FALSE
          \/ kind[r] = "enable" /\ record'.enabled = TRUE
      BY <2>2, CommitFlag, <1>5
    <3>2. kind[r] = Flipping(loaded[q].enabled)
      BY <1>5, <3>1 DEF Flipping
    <3> QED
      BY <1>1, <1>2, <3>2
  <2> QED
    BY <2>1, <2>2
<1>8. SwitchTellsTheTruth'
  <2> SUFFICES ASSUME switched' # None, record'.enabled # (kind[switched'] = "enable")
               PROVE  \E w \in Requests :
                        /\ stage'[w] = "done"
                        /\ kind[w] \in {"enable", "disable"} \ {kind[switched']}
                        /\ <<w, switched'>> \in overlap
    BY <1>1 DEF SwitchTellsTheTruth
  <2>1. CASE kind[r] \in {"enable", "disable"}
    <3>1. switched' = r
      BY <1>4, <2>1
    <3>2. kind[r] = "enable" /\ loaded[r].enabled /\ record'.enabled = record.enabled
      BY <2>1, <3>1, <1>5, CommitFlag
    <3>3. InService(r) /\ loaded[r].enabled # record.enabled
      BY <1>1, <1>5, <3>1, <3>2 DEF InService
    <3>4. PICK w \in Requests : /\ stage[w] = "done" /\ kind[w] = Flipping(loaded[r].enabled)
                                /\ <<w, r>> \in overlap
      BY <3>3 DEF SInv, StaleSwitchInv
    <3>5. kind[w] = "disable"
      BY <3>2, <3>4 DEF Flipping
    <3> QED
      BY <1>3, <3>1, <3>2, <3>4, <3>5
  <2>2. CASE kind[r] \notin {"enable", "disable"}
    <3>1. switched' = switched /\ record'.enabled = record.enabled
      BY <1>4, <2>2, CommitFlag
    <3> QED
      BY <1>3, <3>1 DEF SInv, SwitchTellsTheTruth
  <2> QED
    BY <2>1, <2>2
<1> QED
  BY <1>6, <1>7, <1>8 DEF SInv

LEMMA NextSwitch == IInv /\ SInv /\ [Next]_vars => SInv'
<1> SUFFICES ASSUME IInv, SInv, [Next]_vars PROVE SInv'
  OBVIOUS
<1>1. ASSUME NEW r \in Requests, Loads(r) PROVE SInv'
  <2>1. PICK k \in Kinds : Load(r, k)
    BY <1>1 DEF Loads, SetupLoad, EnableLoad, DisableLoad, RegenerateLoad, VerifyLoad, Kinds
  <2>2. /\ stage[r] = "idle" /\ stage'[r] = "loaded" /\ loaded'[r] = record
        /\ \A q \in Requests \ {r} :
             stage'[q] = stage[q] /\ kind'[q] = kind[q] /\ loaded'[q] = loaded[q]
        /\ overlap \subseteq overlap'
    BY <2>1 DEF Load, IInv, TypeOK
  <2>3. UNCHANGED <<exists, record, switched>>
    BY <1>1 DEF Loads, SetupLoad, EnableLoad, DisableLoad, RegenerateLoad, VerifyLoad, db
  <2>4. \A w \in Requests : stage[w] = "done" => w # r /\ stage'[w] = "done" /\ kind'[w] = kind[w]
    BY <2>2
  <2>5. switched \in Requests \cup {None}
    BY DEF IInv, TypeOK
  <2>6. SwitchedInv'
    BY <2>3, <2>4, <2>5 DEF SInv, SwitchedInv
  <2>7. StaleSwitchInv'
    <3> SUFFICES ASSUME NEW q \in Requests, InService(q)',
                        loaded'[q].enabled # record.enabled
                 PROVE  \E w \in Requests :
                          /\ stage'[w] = "done" /\ kind'[w] = Flipping(loaded'[q].enabled)
                          /\ <<w, q>> \in overlap'
      BY <2>3 DEF StaleSwitchInv, Flipping
    <3>1. q # r /\ InService(q) /\ loaded'[q] = loaded[q]
      BY <2>2 DEF InService
    <3>2. PICK w \in Requests : /\ stage[w] = "done" /\ kind[w] = Flipping(loaded[q].enabled)
                                /\ <<w, q>> \in overlap
      BY <3>1 DEF SInv, StaleSwitchInv
    <3> QED
      BY <2>2, <2>4, <3>1, <3>2
  <2>8. SwitchTellsTheTruth'
    <3> SUFFICES ASSUME switched # None, record.enabled # (kind'[switched] = "enable")
                 PROVE  \E w \in Requests :
                          /\ stage'[w] = "done"
                          /\ kind'[w] \in {"enable", "disable"} \ {kind'[switched]}
                          /\ <<w, switched>> \in overlap'
      BY <2>3 DEF SwitchTellsTheTruth
    <3>1. kind'[switched] = kind[switched]
      BY <2>4, <2>5 DEF SInv, SwitchedInv
    <3>2. PICK w \in Requests :
            /\ stage[w] = "done" /\ kind[w] \in {"enable", "disable"} \ {kind[switched]}
            /\ <<w, switched>> \in overlap
      BY <3>1 DEF SInv, SwitchTellsTheTruth
    <3> QED
      BY <2>2, <2>4, <3>1, <3>2
  <2> QED
    BY <2>6, <2>7, <2>8 DEF SInv
<1>2. ASSUME NEW r \in Requests, Flush(r) \/ SetupConflict(r) \/ FailCommit(r) PROVE SInv'
  <2>1. PICK s \in {"flushed", "failed"} : stage' = [stage EXCEPT ![r] = s]
    BY <1>2 DEF Flush, SetupConflict, FailCommit
  <2>2. InService(r) /\ UNCHANGED <<exists, record, kind, loaded, code, latest, switched, overlap>>
    BY <1>2 DEF Flush, SetupConflict, FailCommit, InService, db, history
  <2>3. \A q \in Requests : /\ stage[q] = "done" <=> stage'[q] = "done"
                            /\ InService(q)' => InService(q)
    BY <2>1, <2>2 DEF InService, IInv, TypeOK
  <2>4. switched \in Requests \cup {None}
    BY DEF IInv, TypeOK
  <2> QED
    BY <2>2, <2>3, <2>4
       DEF SInv, SwitchedInv, StaleSwitchInv, SwitchTellsTheTruth, Flipping
<1>3. ASSUME NEW r \in Requests, Commit(r) PROVE SInv'
  BY <1>3, CommitKeepsSwitch
<1>4. CASE UNCHANGED vars
  BY <1>4 DEF vars, db, local, history, SInv, SwitchedInv, StaleSwitchInv,
              SwitchTellsTheTruth, Flipping, InService
<1> QED
  BY <1>1, <1>2, <1>3, <1>4 DEF Next

\* The last request that told its client the factor is on, or off, is right
\* about the row unless the opposite switch overlapped it (views/totp.py:
\* the unit of work writes `enabled` only when it differs from what was
\* loaded).
THEOREM SwitchIsTold == Spec => []SwitchTellsTheTruth
<1>1. Init => SInv
  BY DEF Init, SInv, SwitchedInv, StaleSwitchInv, SwitchTellsTheTruth, InService
<1>2. IInv /\ SInv /\ [Next]_vars => SInv'
  BY NextSwitch
<1>3. SInv => SwitchTellsTheTruth
  BY DEF SInv
<1> QED
  BY <1>1, <1>2, <1>3, Invariance, PTL DEF Spec

-----------------------------------------------------------------------------
(***************************************************************************)
(* The strengthening.                                                      *)
(***************************************************************************)

\* The pages and login_get see the session alike, unless it is older than the
\* password: then they send a browser to each other.
Looping == Known(session) /\ session.stale

\* How long a chain of redirects can be that has come to url, if they agree.
MostHops(url) ==
    IF url = "login"
    THEN IF Accepted(session) THEN 1 ELSE IF Decoded(session) THEN 2 ELSE 3
    ELSE IF url = "verify" \/ ~Accepted(session) THEN 1 ELSE 2

HopsInv ==
    \A t \in Tabs :
        /\ tab[t].at # "redirect" => tab[t].hops = 0
        /\ tab[t].at = "redirect" => /\ tab[t].url # "denied"
                                     /\ ~Looping => tab[t].hops <= MostHops(tab[t].url)

\* The cookie is as young as the token of every form.
CookieInv ==
    slow \/ \A t \in Tabs : tab[t].form # Absent => csrf # Absent /\ csrf <= tab[t].form

\* A session of a replaced password is told by its time, or was never told.
OldInv == session # Absent /\ session.old => session.stale \/ session.untold

\* A login that waits for its answer has found a password right.
WaitInv == \A t \in Tabs : tab[t].at = "waiting" => tab[t].pending # Absent

SignInInv == SignInTypeOK /\ HopsInv /\ CookieInv /\ OldInv /\ WaitInv

-----------------------------------------------------------------------------
(***************************************************************************)
(* What a tab gets.                                                        *)
(***************************************************************************)
LEMMA NoneIs ==
    Absent \notin Nat /\ Absent \notin Sessions /\ Absent \notin Pendings
BY LifetimeAssumption DEF Sessions, Pendings

LEMMA MintedIs ==
    ASSUME SignInTypeOK
    PROVE  Minted \in 0 .. CsrfMaxAge + 1 /\ ValidCsrf(Minted)
BY LifetimeAssumption DEF SignInTypeOK, Minted, ValidCsrf

LEMMA PageIs ==
    ASSUME SignInTypeOK, NEW t \in Tabs, NEW url \in Urls
    PROVE  /\ Page(t, url) \in TabStates
           /\ Page(t, url).at = "page" /\ Page(t, url).url = url
           /\ Page(t, url).form = Minted /\ Page(t, url).hops = 0
           /\ Page(t, url).pending = tab[t].pending
BY MintedIs, LifetimeAssumption DEF SignInTypeOK, TabStates, Page, MaxHops

LEMMA SentIs ==
    ASSUME SignInTypeOK, NEW t \in Tabs, NEW url \in Urls, NEW next \in Guarded,
           NEW pending \in Pendings \cup {Absent}
    PROVE  /\ SentTo(t, url, next, pending) \in TabStates
           /\ SentTo(t, url, next, pending).at = "redirect"
           /\ SentTo(t, url, next, pending).url = url
           /\ SentTo(t, url, next, pending).form = Absent
           /\ SentTo(t, url, next, pending).hops = NextHop(t)
<1>1. NextHop(t) \in 0 .. MaxHops
  BY DEF SignInTypeOK, TabStates, NextHop, MaxHops
<1>2. QED
  BY <1>1 DEF TabStates, SentTo, MaxHops

LEMMA RedirectIs ==
    ASSUME SignInTypeOK, NEW t \in Tabs, NEW url \in Urls, NEW next \in Guarded
    PROVE  /\ Redirect(t, url, next) \in TabStates
           /\ Redirect(t, url, next).at = "redirect"
           /\ Redirect(t, url, next).url = url
           /\ Redirect(t, url, next).form = Absent
           /\ Redirect(t, url, next).hops = NextHop(t)
<1>1. tab[t].pending \in Pendings \cup {Absent}
  BY DEF SignInTypeOK, TabStates
<1>2. QED
  BY <1>1, SentIs DEF Redirect

\* The tabs that get nothing keep all but their count.
LEMMA RestIs ==
    ASSUME SignInTypeOK, NEW u \in Tabs
    PROVE  /\ [tab[u] EXCEPT !.hops = 0] \in TabStates
           /\ [tab[u] EXCEPT !.hops = 0].at = tab[u].at
           /\ [tab[u] EXCEPT !.hops = 0].url = tab[u].url
           /\ [tab[u] EXCEPT !.hops = 0].form = tab[u].form
           /\ [tab[u] EXCEPT !.hops = 0].pending = tab[u].pending
           /\ [tab[u] EXCEPT !.hops = 0].next = tab[u].next
           /\ [tab[u] EXCEPT !.hops = 0].hops = 0
BY DEF SignInTypeOK, TabStates, MaxHops

LEMMA OthersIs ==
    ASSUME SignInTypeOK, NEW t \in Tabs, NEW answer \in TabStates
    PROVE  /\ Others(t, answer) \in [Tabs -> TabStates]
           /\ Others(t, answer)[t] = answer
           /\ \A u \in Tabs \ {t} : Others(t, answer)[u] = [tab[u] EXCEPT !.hops = 0]
BY RestIs DEF Others

LEMMA PendingsAgedIs ==
    ASSUME NEW tabs \in [Tabs -> TabStates]
    PROVE  /\ PendingsAged(tabs) \in [Tabs -> TabStates]
           /\ \A u \in Tabs : /\ PendingsAged(tabs)[u].at = tabs[u].at
                              /\ PendingsAged(tabs)[u].url = tabs[u].url
                              /\ PendingsAged(tabs)[u].form = tabs[u].form
                              /\ PendingsAged(tabs)[u].hops = tabs[u].hops
                              /\ tabs[u].pending # Absent
                                 => PendingsAged(tabs)[u].pending # Absent
<1> SUFFICES ASSUME NEW u \in Tabs
             PROVE  /\ PendingsAged(tabs)[u] \in TabStates
                    /\ PendingsAged(tabs)[u].at = tabs[u].at
                    /\ PendingsAged(tabs)[u].url = tabs[u].url
                    /\ PendingsAged(tabs)[u].form = tabs[u].form
                    /\ PendingsAged(tabs)[u].hops = tabs[u].hops
                    /\ tabs[u].pending # Absent => PendingsAged(tabs)[u].pending # Absent
  BY DEF PendingsAged
<1>1. CASE tabs[u].pending = Absent
  BY <1>1 DEF PendingsAged
<1>2. CASE tabs[u].pending # Absent
  <2> DEFINE p == [tabs[u].pending EXCEPT !.old = TRUE]
  <2>1. tabs[u] \in TabStates /\ tabs[u].pending \in Pendings
    BY <1>2 DEF TabStates
  <2>2. p \in Pendings
    BY <2>1 DEF Pendings
  <2>3. PendingsAged(tabs)[u] = [tabs[u] EXCEPT !.pending = p]
    BY <1>2 DEF PendingsAged
  <2> HIDE DEF p
  <2>4. QED
    BY <2>1, <2>2, <2>3, NoneIs DEF TabStates, MaxHops
<1>3. QED
  BY <1>1, <1>2

\* The answer to a guarded page, and to the login page.
LEMMA GuardedAnswerIs ==
    ASSUME SignInTypeOK, NEW t \in Tabs, NEW url \in Guarded
    PROVE  GuardedAnswer(t, url) \in TabStates
BY PageIs, RedirectIs DEF GuardedAnswer, Urls

LEMMA LoginAnswerIs ==
    ASSUME SignInTypeOK, NEW t \in Tabs
    PROVE  LoginAnswer(t) \in TabStates
<1>1. tab[t].next \in Guarded
  BY DEF SignInTypeOK, TabStates
<1>2. QED
  BY <1>1, PageIs, RedirectIs DEF LoginAnswer, Urls, Guarded

LEMMA ForbiddenIs ==
    ASSUME SignInTypeOK, NEW t \in Tabs
    PROVE  Forbidden(t) \in TabStates
BY PageIs, RedirectIs DEF Forbidden, Urls, Guarded
-----------------------------------------------------------------------------
(***************************************************************************)
(* Types.                                                                  *)
(***************************************************************************)
LEMMA CookieTyped ==
    ASSUME SignInTypeOK, SetCookie
    PROVE  csrf' \in 0 .. CsrfMaxAge + 1 \cup {Absent} /\ slow' \in BOOLEAN
BY MintedIs DEF SignInTypeOK, SetCookie, CookieAfter

LEMMA NewSessionTyped ==
    ASSUME NEW old \in BOOLEAN
    PROVE  NewSession(old) \in Sessions
BY LifetimeAssumption DEF NewSession, Sessions

LEMMA PendingTyped ==
    ASSUME NEW old \in BOOLEAN
    PROVE  [age |-> 0, old |-> old] \in Pendings
BY LifetimeAssumption DEF Pendings

LEMMA AgedTyped ==
    ASSUME NEW s \in Sessions \cup {Absent}
    PROVE  Aged(s) \in Sessions \cup {Absent}
<1>1. CASE s = Absent
  BY <1>1 DEF Aged
<1>2. CASE s # Absent
  <2>1. Aged(s) = [age |-> s.age, stale |-> TRUE, old |-> TRUE, untold |-> s.untold]
    BY <1>2 DEF Aged
  <2>2. s.age \in 0 .. SessionTtl + 1 /\ s.untold \in BOOLEAN
    BY <1>2 DEF Sessions
  <2>3. QED
    BY <2>1, <2>2 DEF Sessions
<1>3. QED
  BY <1>1, <1>2

LEMMA OlderTyped ==
    ASSUME NEW limit \in Nat, NEW age \in 0 .. limit + 1
    PROVE  Older(age, limit) \in 0 .. limit + 1
BY DEF Older

LEMMA OlderCsrfTyped ==
    ASSUME NEW age \in 0 .. CsrfMaxAge + 1 \cup {Absent}
    PROVE  OlderCsrf(age) \in 0 .. CsrfMaxAge + 1 \cup {Absent}
BY LifetimeAssumption, OlderTyped DEF OlderCsrf

LEMMA OlderPendingTyped ==
    ASSUME NEW p \in Pendings \cup {Absent}
    PROVE  /\ OlderPending(p) \in Pendings \cup {Absent}
           /\ p # Absent => OlderPending(p) # Absent
<1>1. CASE p = Absent
  BY <1>1 DEF OlderPending
<1>2. CASE p # Absent
  <2>1. p \in Pendings
    BY <1>2
  <2>2. Older(p.age, MfaTtl) \in 0 .. MfaTtl + 1
    BY <2>1, OlderTyped, LifetimeAssumption DEF Pendings
  <2>3. OlderPending(p) = [p EXCEPT !.age = Older(p.age, MfaTtl)]
    BY <1>2 DEF OlderPending
  <2>4. QED
    BY <2>1, <2>2, <2>3, NoneIs DEF Pendings
<1>3. QED
  BY <1>1, <1>2

LEMMA WaitingIs ==
    ASSUME SignInTypeOK, NEW t \in Tabs
    PROVE  Waiting(t) \in TabStates /\ Waiting(t).at = "waiting"
           /\ Waiting(t).pending # Absent
           /\ Waiting(t).form = Minted /\ Waiting(t).hops = tab[t].hops
<1>1. [age |-> 0, old |-> FALSE] \in Pendings
  BY PendingTyped
<1>2. Minted \in 0 .. CsrfMaxAge + 1 \cup {Absent}
  BY MintedIs
<1>3. /\ tab[t].url \in Urls /\ tab[t].next \in Guarded /\ tab[t].hops \in 0 .. MaxHops
  BY DEF SignInTypeOK, TabStates
<1> DEFINE p == [age |-> 0, old |-> FALSE]
<1>4. p \in Pendings
  BY <1>1
<1>5. Waiting(t) = [at |-> "waiting", url |-> tab[t].url, form |-> Minted,
                    pending |-> p, next |-> tab[t].next, hops |-> tab[t].hops]
  BY DEF Waiting
<1> HIDE DEF p
<1>6. QED
  BY <1>2, <1>3, <1>4, <1>5, NoneIs DEF TabStates, MaxHops

LEMMA TypeVisit ==
    ASSUME SignInTypeOK, NEW t \in Tabs, Visit(t)
    PROVE  SignInTypeOK'
<1>1. tab' \in [Tabs -> TabStates]
  BY GuardedAnswerIs, OthersIs DEF Visit
<1>2. QED
  BY <1>1, CookieTyped DEF SignInTypeOK, Visit

LEMMA TypeFollow ==
    ASSUME SignInTypeOK, HopsInv, NEW t \in Tabs, Follow(t)
    PROVE  SignInTypeOK'
<1>1. tab[t].url \in {"login", "verify"} \cup Guarded
  BY DEF SignInTypeOK, TabStates, Urls, HopsInv, Follow
<1> DEFINE answer == CASE tab[t].url = "login" -> LoginAnswer(t)
                       [] tab[t].url = "verify" -> Page(t, "verify")
                       [] OTHER -> GuardedAnswer(t, tab[t].url)
<1>2. answer \in TabStates
  BY <1>1, LoginAnswerIs, PageIs, GuardedAnswerIs DEF Urls, Guarded
<1>3. tab' = [tab EXCEPT ![t] = answer]
  BY DEF Follow
<1> HIDE DEF answer
<1>4. tab' \in [Tabs -> TabStates]
  BY <1>2, <1>3 DEF SignInTypeOK
<1>5. session' \in Sessions \cup {Absent} /\ UNCHANGED user /\ SetCookie
  BY DEF Follow, SignInTypeOK
<1>6. QED
  BY <1>4, <1>5, CookieTyped DEF SignInTypeOK

LEMMA TypeLogin ==
    ASSUME SignInTypeOK, NEW t \in Tabs, Login(t)
    PROVE  SignInTypeOK'
<1>1. CASE /\ \E url \in {"denied", "login"} : tab' = Others(t, Page(t, url))
           /\ SetCookie
  <2>1. tab' \in [Tabs -> TabStates]
    BY <1>1, PageIs, OthersIs DEF Urls
  <2>2. QED
    BY <1>1, <2>1, CookieTyped DEF SignInTypeOK, Login
<1>2. CASE tab' = Others(t, Waiting(t)) /\ UNCHANGED <<csrf, slow>>
  <2>1. tab' \in [Tabs -> TabStates]
    BY <1>2, WaitingIs, OthersIs
  <2>2. QED
    BY <1>2, <2>1 DEF SignInTypeOK, Login
<1>3. QED
  BY <1>1, <1>2 DEF Login

LEMMA TypeAnswer ==
    ASSUME SignInTypeOK, WaitInv, NEW t \in Tabs, AnswerLogin(t)
    PROVE  SignInTypeOK'
<1>1. /\ tab[t].pending \in Pendings /\ tab[t].form \in 0 .. CsrfMaxAge + 1 \cup {Absent}
      /\ tab[t].pending.old \in BOOLEAN
  BY DEF SignInTypeOK, WaitInv, AnswerLogin, TabStates, Pendings
<1>2. csrf' \in 0 .. CsrfMaxAge + 1 \cup {Absent} /\ slow' \in BOOLEAN
  BY <1>1 DEF AnswerLogin, SignInTypeOK
<1>3. session' \in Sessions \cup {Absent}
  BY <1>1, NewSessionTyped DEF AnswerLogin, SignInTypeOK
<1>4. tab' \in [Tabs -> TabStates]
  <2>1. CASE user.totp
    <3> DEFINE p == [age |-> 0, old |-> tab[t].pending.old]
    <3>1. tab' = Others(t, SentTo(t, "verify", "home", p))
      BY <2>1 DEF AnswerLogin
    <3>2. p \in Pendings
      BY <1>1, PendingTyped
    <3> HIDE DEF p
    <3>3. QED
      BY <3>1, <3>2, SentIs, OthersIs DEF Urls, Guarded
  <2>2. CASE ~user.totp
    <3>1. tab' = Others(t, SentTo(t, "home", "home", Absent))
      BY <2>2 DEF AnswerLogin
    <3>2. QED
      BY <3>1, SentIs, OthersIs DEF Urls, Guarded
  <2>3. QED
    BY <2>1, <2>2
<1>5. UNCHANGED user
  BY DEF AnswerLogin
<1>6. QED
  BY <1>2, <1>3, <1>4, <1>5 DEF SignInTypeOK

LEMMA TypeVerify ==
    ASSUME SignInTypeOK, NEW t \in Tabs, Verify(t)
    PROVE  SignInTypeOK'
<1>1. tab' \in [Tabs -> TabStates]
  BY PageIs, RedirectIs, OthersIs DEF Verify, Urls, Guarded
<1>2. session' \in Sessions \cup {Absent}
  <2>1. tab[t].pending # Absent => tab[t].pending.old \in BOOLEAN
    BY DEF SignInTypeOK, TabStates, Pendings
  <2>2. QED
    BY <2>1, NewSessionTyped DEF Verify, SignInTypeOK, PendingHolds
<1>3. UNCHANGED user /\ SetCookie
  BY DEF Verify
<1>4. QED
  BY <1>1, <1>2, <1>3, CookieTyped DEF SignInTypeOK

LEMMA TypePassword ==
    ASSUME SignInTypeOK, NEW t \in Tabs, ChangePassword(t)
    PROVE  SignInTypeOK'
<1>1. tab' \in [Tabs -> TabStates]
  <2>1. /\ Others(t, Redirect(t, "login", "password")) \in [Tabs -> TabStates]
        /\ Others(t, Page(t, "password")) \in [Tabs -> TabStates]
        /\ Others(t, Redirect(t, "login", "home")) \in [Tabs -> TabStates]
    BY PageIs, RedirectIs, OthersIs DEF Urls, Guarded
  <2>2. PendingsAged(Others(t, Redirect(t, "login", "home"))) \in [Tabs -> TabStates]
    BY <2>1, PendingsAgedIs
  <2>3. QED
    BY <2>1, <2>2 DEF ChangePassword
<1>2. session' \in Sessions \cup {Absent} /\ UNCHANGED user /\ SetCookie
  BY DEF ChangePassword, SignInTypeOK
<1>3. QED
  BY <1>1, <1>2, CookieTyped DEF SignInTypeOK

LEMMA TypeLogout ==
    ASSUME SignInTypeOK, NEW t \in Tabs, Logout(t)
    PROVE  SignInTypeOK'
<1>1. tab' \in [Tabs -> TabStates]
  BY RedirectIs, OthersIs DEF Logout, Urls, Guarded
<1>2. session' \in Sessions \cup {Absent} /\ UNCHANGED user /\ SetCookie
  BY DEF Logout, SignInTypeOK
<1>3. QED
  BY <1>1, <1>2, CookieTyped DEF SignInTypeOK

LEMMA TypeRefused ==
    ASSUME SignInTypeOK, NEW t \in Tabs, NEW url \in Urls, Refused(t, url)
    PROVE  SignInTypeOK'
<1>1. tab' \in [Tabs -> TabStates]
  BY ForbiddenIs, OthersIs DEF Refused
<1>2. session' \in Sessions \cup {Absent} /\ UNCHANGED user /\ SetCookie
  BY DEF Refused, SignInTypeOK
<1>3. QED
  BY <1>1, <1>2, CookieTyped DEF SignInTypeOK

LEMMA QuietTyped ==
    ASSUME SignInTypeOK
    PROVE  Quiet \in [Tabs -> TabStates]
BY RestIs DEF Quiet

LEMMA TypeElsewhere ==
    ASSUME SignInTypeOK, PasswordElsewhere \/ PasswordByCommand \/ AccountElsewhere
    PROVE  SignInTypeOK'
<1>1. tab' \in [Tabs -> TabStates]
  BY QuietTyped, PendingsAgedIs DEF PasswordElsewhere, PasswordByCommand, AccountElsewhere
<1>2. session' \in Sessions \cup {Absent}
  <2>1. session # Absent => [age |-> session.age, stale |-> session.stale,
                           old |-> TRUE, untold |-> TRUE] \in Sessions
    BY DEF SignInTypeOK, Sessions
  <2>2. QED
    BY <2>1, AgedTyped DEF SignInTypeOK, PasswordElsewhere, PasswordByCommand, AccountElsewhere
<1>3. user' \in [active : BOOLEAN, totp : BOOLEAN]
  BY DEF SignInTypeOK, PasswordElsewhere, PasswordByCommand, AccountElsewhere
<1>4. UNCHANGED <<csrf, slow>>
  BY DEF PasswordElsewhere, PasswordByCommand, AccountElsewhere
<1>5. QED
  BY <1>1, <1>2, <1>3, <1>4 DEF SignInTypeOK

LEMMA TickTab ==
    ASSUME SignInTypeOK, Tick, NEW u \in Tabs
    PROVE  /\ tab'[u] \in TabStates /\ tab'[u].at = tab[u].at
           /\ tab'[u].url = tab[u].url /\ tab'[u].hops = 0
           /\ tab'[u].form = OlderCsrf(tab[u].form)
           /\ tab'[u].pending = OlderPending(tab[u].pending)
<1>1. /\ tab[u].at \in {"page", "redirect", "waiting"} /\ tab[u].url \in Urls
      /\ tab[u].form \in 0 .. CsrfMaxAge + 1 \cup {Absent}
      /\ tab[u].pending \in Pendings \cup {Absent} /\ tab[u].next \in Guarded
  BY DEF SignInTypeOK, TabStates
<1> DEFINE f == OlderCsrf(tab[u].form)
           p == OlderPending(tab[u].pending)
<1>2. f \in 0 .. CsrfMaxAge + 1 \cup {Absent} /\ p \in Pendings \cup {Absent}
  BY <1>1, OlderCsrfTyped, OlderPendingTyped
<1>3. tab'[u] = [at |-> tab[u].at, url |-> tab[u].url, form |-> f,
                 pending |-> p, next |-> tab[u].next, hops |-> 0]
  BY DEF Tick
<1> HIDE DEF f, p
<1>4. /\ tab'[u] \in TabStates /\ tab'[u].at = tab[u].at
      /\ tab'[u].url = tab[u].url /\ tab'[u].hops = 0
      /\ tab'[u].form = f /\ tab'[u].pending = p
  BY <1>1, <1>2, <1>3 DEF TabStates, MaxHops
<1>5. QED
  BY <1>4 DEF f, p

LEMMA TypeTick ==
    ASSUME SignInTypeOK, Tick
    PROVE  SignInTypeOK'
<1>1. tab' \in [Tabs -> TabStates]
  BY TickTab DEF Tick
<1>2. session' \in Sessions \cup {Absent}
  <2>1. ASSUME session # Absent PROVE [session EXCEPT !.age = Older(session.age, SessionTtl)] \in Sessions
    <3>1. session \in Sessions /\ session.age \in 0 .. SessionTtl + 1
      BY <2>1 DEF SignInTypeOK, Sessions
    <3>2. Older(session.age, SessionTtl) \in 0 .. SessionTtl + 1
      BY <3>1, OlderTyped, LifetimeAssumption
    <3>3. QED
      BY <3>1, <3>2 DEF Sessions
  <2>2. QED
    BY <2>1 DEF Tick
<1>3. QED
  BY <1>1, <1>2, OlderCsrfTyped DEF SignInTypeOK, Tick

LEMMA TypeStep ==
    ASSUME SignInTypeOK, HopsInv, WaitInv, [SignInNext]_signInVars
    PROVE  SignInTypeOK'
<1>1. CASE UNCHANGED signInVars
  BY <1>1 DEF signInVars, SignInTypeOK
<1>2. ASSUME NEW t \in Tabs, Submit(t) PROVE SignInTypeOK'
  BY <1>2, TypeLogin, TypeVerify, TypePassword, TypeLogout, TypeRefused
  DEF Submit, Urls, Guarded
<1>3. QED
  BY <1>1, <1>2, TypeVisit, TypeFollow, TypeAnswer, TypeElsewhere, TypeTick DEF SignInNext

-----------------------------------------------------------------------------
(***************************************************************************)
(* What every tab has after a step that follows no redirect and is no tick *)
(* of the clock: chains of redirects start anew.                           *)
(***************************************************************************)
Sound(u, s) ==
    /\ s.form \in {tab[u].form, Absent, Minted}
    /\ s.at = "waiting" => s.pending # Absent
    /\ s.at # "redirect" => s.hops = 0
    /\ s.at = "redirect" => s.url # "denied" /\ s.hops <= 1

Settled == \A u \in Tabs : Sound(u, tab'[u])

LEMMA SoundPage ==
    ASSUME SignInTypeOK, NEW t \in Tabs, NEW url \in Urls
    PROVE  Sound(t, Page(t, url))
BY PageIs DEF Sound

LEMMA SoundSent ==
    ASSUME SignInTypeOK, HopsInv, NEW t \in Tabs, tab[t].at # "redirect",
           NEW url \in Urls \ {"denied"}, NEW next \in Guarded,
           NEW pending \in Pendings \cup {Absent}
    PROVE  /\ Sound(t, SentTo(t, url, next, pending))
           /\ Sound(t, Redirect(t, url, next))
<1>1. NextHop(t) <= 1
  BY DEF NextHop, HopsInv, SignInTypeOK, TabStates
<1>2. QED
  BY <1>1, SentIs, RedirectIs DEF Sound

LEMMA SoundRest ==
    ASSUME SignInTypeOK, HopsInv, WaitInv, NEW u \in Tabs
    PROVE  Sound(u, [tab[u] EXCEPT !.hops = 0])
BY RestIs DEF Sound, HopsInv, WaitInv

LEMMA SettledOthers ==
    ASSUME SignInTypeOK, HopsInv, WaitInv, NEW t \in Tabs, NEW answer \in TabStates,
           Sound(t, answer), tab' = Others(t, answer)
    PROVE  Settled
<1>1. Sound(t, tab'[t])
  BY OthersIs
<1>2. ASSUME NEW u \in Tabs \ {t} PROVE Sound(u, tab'[u])
  <2>1. tab'[u] = [tab[u] EXCEPT !.hops = 0]
    BY OthersIs
  <2>2. Sound(u, [tab[u] EXCEPT !.hops = 0])
    BY SoundRest
  <2>3. QED
    BY <2>1, <2>2
<1>3. QED
  BY <1>1, <1>2 DEF Settled

LEMMA SettledAged ==
    ASSUME NEW tabs \in [Tabs -> TabStates], tab' = PendingsAged(tabs),
           \A u \in Tabs : Sound(u, tabs[u])
    PROVE  Settled
BY PendingsAgedIs DEF Settled, Sound

LEMMA SettledVisit ==
    ASSUME SignInTypeOK, HopsInv, WaitInv, NEW t \in Tabs, Visit(t)
    PROVE  Settled
<1>1. PICK url \in Guarded : tab' = Others(t, GuardedAnswer(t, url))
  BY DEF Visit
<1>2. tab[t].at # "redirect" /\ tab[t].pending \in Pendings \cup {Absent}
  BY DEF Visit, SignInTypeOK, TabStates
<1>3. Sound(t, GuardedAnswer(t, url)) /\ GuardedAnswer(t, url) \in TabStates
  BY <1>2, SoundPage, SoundSent, GuardedAnswerIs DEF GuardedAnswer, Urls, Guarded
<1>4. QED
  BY <1>1, <1>3, SettledOthers

LEMMA SettledLogin ==
    ASSUME SignInTypeOK, HopsInv, WaitInv, NEW t \in Tabs, Login(t)
    PROVE  Settled
<1>1. ASSUME NEW url \in {"denied", "login"}, tab' = Others(t, Page(t, url)) PROVE Settled
  BY <1>1, PageIs, SoundPage, SettledOthers DEF Urls
<1>2. ASSUME tab' = Others(t, Waiting(t)) PROVE Settled
  <2>1. tab[t].hops = 0
    BY DEF Login, Post, HopsInv
  <2>2. Sound(t, Waiting(t)) /\ Waiting(t) \in TabStates
    BY <2>1, WaitingIs DEF Sound
  <2>3. QED
    BY <1>2, <2>2, SettledOthers
<1>3. QED
  BY <1>1, <1>2 DEF Login

LEMMA SettledAnswer ==
    ASSUME SignInTypeOK, HopsInv, WaitInv, NEW t \in Tabs, AnswerLogin(t)
    PROVE  Settled
<1> DEFINE p == [age |-> 0, old |-> tab[t].pending.old]
<1>1. tab[t].at # "redirect"
  BY DEF AnswerLogin
<1>2. p \in Pendings
  <2>1. tab[t].pending.old \in BOOLEAN
    BY DEF SignInTypeOK, WaitInv, AnswerLogin, TabStates, Pendings
  <2>2. QED
    BY <2>1, PendingTyped
<1>3. \/ tab' = Others(t, SentTo(t, "verify", "home", p))
      \/ tab' = Others(t, SentTo(t, "home", "home", Absent))
  BY DEF AnswerLogin
<1> HIDE DEF p
<1>4. /\ Sound(t, SentTo(t, "verify", "home", p)) /\ SentTo(t, "verify", "home", p) \in TabStates
      /\ Sound(t, SentTo(t, "home", "home", Absent)) /\ SentTo(t, "home", "home", Absent) \in TabStates
  BY <1>1, <1>2, SoundSent, SentIs DEF Urls, Guarded
<1>5. QED
  BY <1>3, <1>4, SettledOthers

\* The redirects the forms answer with.
LEMMA SoundRedirect ==
    ASSUME SignInTypeOK, HopsInv, NEW t \in Tabs, tab[t].at # "redirect",
           NEW url \in Urls \ {"denied"}, NEW next \in Guarded
    PROVE  Sound(t, Redirect(t, url, next)) /\ Redirect(t, url, next) \in TabStates
<1>1. tab[t].pending \in Pendings \cup {Absent}
  BY DEF SignInTypeOK, TabStates
<1>2. QED
  BY <1>1, SoundSent, RedirectIs

LEMMA SettledVerify ==
    ASSUME SignInTypeOK, HopsInv, WaitInv, NEW t \in Tabs, Verify(t)
    PROVE  Settled
<1>1. tab[t].at # "redirect"
  BY DEF Verify, Post
<1>2. QED
  BY <1>1, SoundRedirect, SoundPage, PageIs, SettledOthers DEF Verify, Urls, Guarded

LEMMA SettledPassword ==
    ASSUME SignInTypeOK, HopsInv, WaitInv, NEW t \in Tabs, ChangePassword(t)
    PROVE  Settled
<1>1. tab[t].at # "redirect"
  BY DEF ChangePassword, Post
<1> DEFINE left == Redirect(t, "login", "home")
<1>2. Sound(t, left) /\ left \in TabStates
  BY <1>1, SoundRedirect DEF Urls, Guarded
<1>3. /\ Others(t, left) \in [Tabs -> TabStates]
      /\ \A u \in Tabs : Sound(u, Others(t, left)[u])
  <2>1. Others(t, left) \in [Tabs -> TabStates] /\ Others(t, left)[t] = left
    BY <1>2, OthersIs
  <2>2. ASSUME NEW u \in Tabs \ {t} PROVE Sound(u, Others(t, left)[u])
    <3>1. Others(t, left)[u] = [tab[u] EXCEPT !.hops = 0]
      BY <1>2, OthersIs
    <3>2. Sound(u, [tab[u] EXCEPT !.hops = 0])
      BY SoundRest
    <3>3. QED
      BY <3>1, <3>2
  <2>3. QED
    BY <1>2, <2>1, <2>2
<1> HIDE DEF left
<1>4. tab' = PendingsAged(Others(t, left)) => Settled
  BY <1>3, SettledAged
<1>5. tab' = Others(t, Redirect(t, "login", "password")) => Settled
  BY <1>1, SoundRedirect, SettledOthers DEF Urls, Guarded
<1>6. tab' = Others(t, Page(t, "password")) => Settled
  BY SoundPage, PageIs, SettledOthers DEF Urls, Guarded
<1>7. QED
  BY <1>4, <1>5, <1>6 DEF ChangePassword, left

LEMMA SettledLogout ==
    ASSUME SignInTypeOK, HopsInv, WaitInv, NEW t \in Tabs, Logout(t)
    PROVE  Settled
BY SoundRedirect, SettledOthers DEF Logout, Post, Urls, Guarded

LEMMA SettledRefused ==
    ASSUME SignInTypeOK, HopsInv, WaitInv, NEW t \in Tabs, NEW url, Refused(t, url)
    PROVE  Settled
<1>1. tab[t].at # "redirect" /\ tab' = Others(t, Forbidden(t))
  BY DEF Refused, Post
<1>2. Sound(t, Forbidden(t)) /\ Forbidden(t) \in TabStates
  BY <1>1, SoundRedirect, SoundPage, PageIs DEF Forbidden, Urls, Guarded
<1>3. QED
  BY <1>1, <1>2, SettledOthers

LEMMA SettledElsewhere ==
    ASSUME SignInTypeOK, HopsInv, WaitInv,
           PasswordElsewhere \/ PasswordByCommand \/ AccountElsewhere
    PROVE  Settled
<1>1. Quiet \in [Tabs -> TabStates] /\ \A u \in Tabs : Sound(u, Quiet[u])
  BY RestIs, SoundRest DEF Quiet
<1>2. tab' = PendingsAged(Quiet) => Settled
  BY <1>1, SettledAged
<1>3. tab' = Quiet => Settled
  BY <1>1 DEF Settled
<1>4. QED
  BY <1>2, <1>3 DEF PasswordElsewhere, PasswordByCommand, AccountElsewhere

-----------------------------------------------------------------------------
(***************************************************************************)
(* Chains of redirects.                                                    *)
(***************************************************************************)
LEMMA HopsSettled ==
    ASSUME SignInTypeOK', Settled
    PROVE  HopsInv' /\ WaitInv'
<1>1. ASSUME NEW u \in Tabs
      PROVE  tab'[u].hops <= 1 => tab'[u].hops <= MostHops(tab[u].url)'
  BY DEF MostHops, SignInTypeOK, TabStates, MaxHops
<1>2. WaitInv'
  BY DEF Settled, Sound, WaitInv
<1>3. HopsInv'
  BY <1>1 DEF Settled, Sound, HopsInv
<1>4. QED
  BY <1>2, <1>3

\* The tab that follows a redirect goes on at most as far as is left.
LEMMA HopsFollow ==
    ASSUME SignInTypeOK, HopsInv, WaitInv, SignInTypeOK', NEW t \in Tabs, Follow(t)
    PROVE  HopsInv' /\ WaitInv'
<1>1. /\ tab[t].at = "redirect" /\ tab[t].url \in {"login", "verify"} \cup Guarded
      /\ tab[t].next \in Guarded /\ tab[t].hops \in 0 .. MaxHops
      /\ UNCHANGED user
  BY DEF SignInTypeOK, TabStates, Urls, HopsInv, Follow
<1>2. ~Looping => tab[t].hops <= MostHops(tab[t].url)
  BY <1>1 DEF HopsInv
<1>3. NextHop(t) <= tab[t].hops + 1
  BY <1>1 DEF NextHop, MaxHops
<1>4. \A u \in Tabs \ {t} : tab'[u] = tab[u]
  BY DEF Follow, SignInTypeOK
<1>5. Looping' <=> Looping
  BY <1>1 DEF Follow, Deletes, Looping, Known, Decoded
<1>6. ASSUME NEW u \in Tabs \ {t}
      PROVE  MostHops(tab[u].url) <= MostHops(tab[u].url)'
  <2>1. tab'[u] = tab[u]
    BY <1>4
  <2>2. CASE Deletes(t)
    <3>1. /\ session' = Absent /\ Decoded(session) /\ ~Accepted(session)
          /\ ~Decoded(session)' /\ ~Accepted(session)'
      BY <2>2 DEF Follow, Deletes, Decoded, Accepted, Known
    <3>2. QED
      BY <2>1, <3>1 DEF MostHops
  <2>3. CASE ~Deletes(t)
    <3>1. session' = session /\ user' = user
      BY <2>3 DEF Follow
    <3>2. QED
      BY <2>1, <3>1 DEF MostHops, Accepted, Decoded, Known
  <2>4. QED
    BY <2>2, <2>3
<1>7. ASSUME NEW u \in Tabs \ {t}
      PROVE  /\ tab'[u].at = "waiting" => tab'[u].pending # Absent
             /\ tab'[u].at # "redirect" => tab'[u].hops = 0
             /\ tab'[u].at = "redirect" => /\ tab'[u].url # "denied"
                                           /\ ~Looping' => tab'[u].hops <= MostHops(tab[u].url)'
  <2>1. MostHops(tab[u].url) \in 0 .. 3 /\ MostHops(tab[u].url)' \in 0 .. 3
    BY DEF MostHops
  <2>2. tab'[u] = tab[u] /\ tab[u].hops \in Nat
    BY <1>4 DEF SignInTypeOK, TabStates
  <2>3. MostHops(tab[u].url) <= MostHops(tab[u].url)'
    BY <1>6
  <2>4. ~Looping => tab[u].hops <= MostHops(tab[u].url) \/ tab[u].at # "redirect"
    BY DEF HopsInv
  <2>5. ~Looping' /\ tab[u].at = "redirect" => tab[u].hops <= MostHops(tab[u].url)'
    BY <1>5, <2>1, <2>2, <2>3, <2>4
  <2>6. QED
    BY <2>2, <2>5 DEF HopsInv, WaitInv
<1>. DEFINE Far == /\ tab'[t].at = "redirect" /\ tab'[t].url # "denied"
                   /\ ~Looping' => tab'[t].hops <= MostHops(tab[t].url)'
<1>8. \/ tab'[t].at = "page" /\ tab'[t].hops = 0
      \/ Far
  <2>1. CASE tab[t].url = "login"
    <3>1. tab'[t] = LoginAnswer(t)
      BY <2>1 DEF Follow, SignInTypeOK
    <3>2. CASE Known(session)
      <4>1. /\ tab'[t].at = "redirect" /\ tab'[t].url = tab[t].next
            /\ tab'[t].hops = NextHop(t) /\ session' = session
        BY <1>1, <2>1, <3>1, <3>2, RedirectIs DEF LoginAnswer, Urls, Guarded, Follow, Deletes
      <4>2. ~Looping => Accepted(session) /\ Accepted(session)'
        BY <1>1, <3>2, <4>1 DEF Looping, Accepted, Known, Decoded
      <4>3. ~Looping => tab[t].hops <= 1
        BY <1>2, <2>1, <4>2 DEF MostHops
      <4>4. ~Looping => MostHops(tab[t].url)' = 2
        BY <1>1, <4>1, <4>2 DEF MostHops, Guarded
      <4>5. QED
        BY <1>1, <1>3, <1>5, <4>1, <4>3, <4>4 DEF Guarded, NextHop, MaxHops
    <3>3. CASE ~Known(session) /\ Decoded(session)
      <4>1. /\ tab'[t].at = "redirect" /\ tab'[t].url = "login"
            /\ tab'[t].hops = NextHop(t) /\ session' = Absent
        BY <1>1, <2>1, <3>1, <3>3, RedirectIs DEF LoginAnswer, Urls, Guarded, Follow, Deletes
      <4>2. ~Looping /\ ~Accepted(session)' /\ ~Decoded(session)' /\ ~Accepted(session)
        BY <3>3, <4>1 DEF Looping, Accepted, Known, Decoded
      <4>3. tab[t].hops <= 2
        BY <1>2, <2>1, <3>3, <4>2 DEF MostHops
      <4>4. MostHops(tab[t].url)' = 3
        BY <4>1, <4>2 DEF MostHops
      <4>5. QED
        BY <1>1, <1>3, <4>1, <4>3, <4>4 DEF NextHop, MaxHops
    <3>4. CASE ~Known(session) /\ ~Decoded(session)
      <4>1. tab'[t].at = "page" /\ tab'[t].hops = 0
        BY <3>1, <3>4, PageIs DEF LoginAnswer, Urls
      <4>2. QED
        BY <4>1
    <3>5. QED
      BY <3>2, <3>3, <3>4
  <2>2. CASE tab[t].url = "verify"
    <3>1. tab'[t].at = "page" /\ tab'[t].hops = 0
      BY <2>2, PageIs DEF Follow, SignInTypeOK, Urls
    <3>2. QED
      BY <3>1
  <2>3. CASE tab[t].url \in Guarded
    <3>1. tab'[t] = GuardedAnswer(t, tab[t].url)
      BY <2>3 DEF Follow, SignInTypeOK, Guarded
    <3>2. CASE Accepted(session)
      <4>1. tab'[t].at = "page" /\ tab'[t].hops = 0
        BY <2>3, <3>1, <3>2, PageIs DEF GuardedAnswer, Urls
      <4>2. QED
        BY <4>1
    <3>3. CASE ~Accepted(session)
      <4>1. /\ tab'[t].at = "redirect" /\ tab'[t].url = "login"
            /\ tab'[t].hops = NextHop(t) /\ session' = session
        BY <2>3, <3>1, <3>3, RedirectIs DEF GuardedAnswer, Urls, Guarded, Follow, Deletes
      <4>3. ~Looping => tab[t].hops <= 1
        BY <1>2, <2>3, <3>3 DEF MostHops, Guarded
      <4>4. MostHops(tab[t].url)' \in {2, 3}
        BY <1>1, <3>3, <4>1 DEF MostHops, Accepted, Known, Decoded
      <4>5. QED
        BY <1>1, <1>3, <1>5, <4>1, <4>3, <4>4 DEF NextHop, MaxHops
    <3>4. QED
      BY <3>2, <3>3
  <2>4. QED
    BY <1>1, <2>1, <2>2, <2>3
<1>9. WaitInv'
  BY <1>7, <1>8 DEF WaitInv
<1>10. HopsInv'
  <2>1. ASSUME NEW u \in Tabs
        PROVE  /\ tab'[u].at # "redirect" => tab'[u].hops = 0
               /\ tab'[u].at = "redirect" => /\ tab'[u].url # "denied"
                                             /\ ~Looping' => tab'[u].hops <= MostHops(tab[u].url)'
    BY <1>7, <1>8
  <2>2. QED
    BY <2>1 DEF HopsInv
<1>11. QED
  BY <1>9, <1>10

-----------------------------------------------------------------------------
(***************************************************************************)
(* The cookie and the tokens of the forms.                                 *)
(***************************************************************************)
LEMMA FormTyped ==
    ASSUME SignInTypeOK, NEW u \in Tabs
    PROVE  tab[u].form \in 0 .. CsrfMaxAge + 1 \cup {Absent}
BY DEF SignInTypeOK, TabStates

\* An answer that sets the cookie leaves it no older than any form's token.
LEMMA CookieSet ==
    ASSUME SignInTypeOK, CookieInv, SignInTypeOK', SetCookie,
           \A u \in Tabs : tab'[u].form \in {tab[u].form, Absent, Minted}
    PROVE  CookieInv'
<1>1. CASE ~ValidCsrf(csrf)
  <2>1. csrf' = 0
    BY <1>1 DEF SetCookie, CookieAfter, Minted
  <2>2. ASSUME NEW u \in Tabs, tab'[u].form # Absent PROVE csrf' <= tab'[u].form
    BY <2>1, <2>2, FormTyped, MintedIs, LifetimeAssumption
  <2>3. QED
    BY <2>1, <2>2, LifetimeAssumption DEF CookieInv
<1>2. CASE ValidCsrf(csrf)
  <2>1. csrf' = csrf /\ slow' = slow /\ Minted = csrf /\ csrf # Absent /\ csrf \in Nat
    BY <1>2 DEF SetCookie, CookieAfter, Minted, ValidCsrf, SignInTypeOK
  <2>2. ASSUME ~slow, NEW u \in Tabs, tab'[u].form # Absent
        PROVE  csrf' # Absent /\ csrf' <= tab'[u].form
    BY <2>1, <2>2 DEF CookieInv
  <2>3. QED
    BY <2>1, <2>2 DEF CookieInv
<1>3. QED
  BY <1>1, <1>2

LEMMA CookieSettled ==
    ASSUME SignInTypeOK, CookieInv, SignInTypeOK', SetCookie, Settled
    PROVE  CookieInv'
BY CookieSet DEF Settled, Sound

LEMMA CookieFollow ==
    ASSUME SignInTypeOK, HopsInv, CookieInv, SignInTypeOK', NEW t \in Tabs, Follow(t)
    PROVE  CookieInv'
<1>1. tab[t].url \in {"login", "verify"} \cup Guarded /\ tab[t].next \in Guarded
  BY DEF SignInTypeOK, TabStates, Urls, HopsInv, Follow
<1>2. \/ tab'[t] = LoginAnswer(t)
      \/ tab'[t] = Page(t, "verify")
      \/ tab[t].url \in Guarded /\ tab'[t] = GuardedAnswer(t, tab[t].url)
  BY <1>1 DEF Follow, SignInTypeOK, Guarded
<1>3. tab'[t].form \in {Absent, Minted}
  BY <1>1, <1>2, PageIs, RedirectIs DEF LoginAnswer, GuardedAnswer, Urls, Guarded
<1>4. \A u \in Tabs \ {t} : tab'[u] = tab[u]
  BY DEF Follow, SignInTypeOK
<1>5. \A u \in Tabs : tab'[u].form \in {tab[u].form, Absent, Minted}
  BY <1>3, <1>4
<1>6. SetCookie
  BY DEF Follow
<1>7. QED
  BY <1>5, <1>6, CookieSet

\* A step that leaves the cookie alone; only a login mints a token then.
LEMMA CookieLeft ==
    ASSUME SignInTypeOK, CookieInv, SignInTypeOK', Settled, UNCHANGED <<csrf, slow>>,
           ValidCsrf(csrf) \/ \A u \in Tabs : tab'[u].form \in {tab[u].form, Absent}
    PROVE  CookieInv'
<1>1. ASSUME ~slow, NEW u \in Tabs, tab'[u].form # Absent
      PROVE  csrf' # Absent /\ csrf' <= tab'[u].form
  <2>1. CASE tab'[u].form = tab[u].form
    BY <1>1, <2>1 DEF CookieInv
  <2>2. CASE tab'[u].form # tab[u].form
    <3>1. ValidCsrf(csrf) /\ tab'[u].form = Minted
      BY <1>1, <2>2 DEF Settled, Sound
    <3>2. Minted = csrf /\ csrf # Absent /\ csrf \in Nat
      BY <3>1 DEF Minted, ValidCsrf, SignInTypeOK
    <3>3. QED
      BY <3>1, <3>2
  <2>3. QED
    BY <2>1, <2>2
<1>2. QED
  BY <1>1 DEF CookieInv

LEMMA CookieLogin ==
    ASSUME SignInTypeOK, CookieInv, SignInTypeOK', Settled, NEW t \in Tabs, Login(t)
    PROVE  CookieInv'
<1>1. ValidCsrf(csrf) /\ (SetCookie \/ UNCHANGED <<csrf, slow>>)
  BY DEF Login, CsrfPasses
<1>2. QED
  BY <1>1, CookieSettled, CookieLeft

LEMMA CookieAnswer ==
    ASSUME SignInTypeOK, CookieInv, WaitInv, SignInTypeOK', NEW t \in Tabs, AnswerLogin(t)
    PROVE  CookieInv'
<1> DEFINE p == [age |-> 0, old |-> tab[t].pending.old]
<1>1. p \in Pendings
  <2>1. tab[t].pending.old \in BOOLEAN
    BY DEF SignInTypeOK, WaitInv, AnswerLogin, TabStates, Pendings
  <2>2. QED
    BY <2>1, PendingTyped
<1>2. \/ tab' = Others(t, SentTo(t, "verify", "home", p))
      \/ tab' = Others(t, SentTo(t, "home", "home", Absent))
  BY DEF AnswerLogin
<1> HIDE DEF p
<1>3. ASSUME NEW url \in {"verify", "home"}, NEW pending \in Pendings \cup {Absent},
             tab' = Others(t, SentTo(t, url, "home", pending))
      PROVE  /\ tab'[t].form = Absent
             /\ \A u \in Tabs \ {t} : tab'[u].form = tab[u].form
  <2> DEFINE answer == SentTo(t, url, "home", pending)
  <2>1. url \in Urls /\ "home" \in Guarded
    BY DEF Urls, Guarded
  <2>2. answer \in TabStates /\ answer.form = Absent
    BY <2>1, SentIs
  <2>3. tab' = Others(t, answer)
    BY <1>3
  <2> HIDE DEF answer
  <2>4. /\ tab'[t] = answer
        /\ \A u \in Tabs \ {t} : tab'[u] = [tab[u] EXCEPT !.hops = 0]
    BY <2>2, <2>3, OthersIs
  <2>5. QED
    BY <2>2, <2>4, RestIs
<1>4. /\ tab'[t].form = Absent
      /\ \A u \in Tabs \ {t} : tab'[u].form = tab[u].form
  BY <1>1, <1>2, <1>3
<1>5. slow' \/ (~slow /\ csrf' = csrf)
  BY DEF AnswerLogin, SignInTypeOK
<1>6. QED
  BY <1>4, <1>5 DEF CookieInv

LEMMA CookieElsewhere ==
    ASSUME SignInTypeOK, CookieInv, SignInTypeOK', Settled,
           PasswordElsewhere \/ PasswordByCommand \/ AccountElsewhere
    PROVE  CookieInv'
<1>1. UNCHANGED <<csrf, slow>>
  BY DEF PasswordElsewhere, PasswordByCommand, AccountElsewhere
<1>2. Quiet \in [Tabs -> TabStates] /\ \A u \in Tabs : Quiet[u].form = tab[u].form
  BY RestIs DEF Quiet
<1>3. \A u \in Tabs : tab'[u].form = tab[u].form
  BY <1>2, PendingsAgedIs DEF PasswordElsewhere, PasswordByCommand, AccountElsewhere
<1>4. QED
  BY <1>1, <1>3, CookieLeft

\* Time leaves the cookie no older than a token it was no older than.
LEMMA CookieTick ==
    ASSUME SignInTypeOK, CookieInv, SignInTypeOK', Tick
    PROVE  CookieInv'
<1>1. slow' = slow /\ csrf' = OlderCsrf(csrf)
  BY DEF Tick
<1>2. ASSUME ~slow, NEW u \in Tabs, tab'[u].form # Absent
      PROVE  csrf' # Absent /\ csrf' <= tab'[u].form
  <2>1. tab'[u].form = OlderCsrf(tab[u].form)
    BY TickTab
  <2>2. tab[u].form # Absent /\ csrf # Absent /\ csrf <= tab[u].form
    BY <1>2, <2>1 DEF OlderCsrf, CookieInv
  <2>3. csrf \in 0 .. CsrfMaxAge + 1 /\ tab[u].form \in 0 .. CsrfMaxAge + 1
    BY <2>2, FormTyped DEF SignInTypeOK
  <2>4. csrf' \in Nat /\ csrf' <= tab'[u].form
    BY <1>1, <2>1, <2>2, <2>3, LifetimeAssumption DEF OlderCsrf, Older
  <2>5. QED
    BY <2>4, LifetimeAssumption
<1>3. QED
  BY <1>1, <1>2 DEF CookieInv

-----------------------------------------------------------------------------
(***************************************************************************)
(* Sessions of a replaced password.                                        *)
(***************************************************************************)
LEMMA OldStep ==
    ASSUME SignInTypeOK, OldInv, [SignInNext]_signInVars
    PROVE  OldInv'
<1>1. CASE session' = session \/ session' = Absent
  BY <1>1 DEF OldInv
<1>2. CASE \E old : session' = NewSession(old)
  BY <1>2 DEF OldInv, NewSession
<1>3. CASE PasswordElsewhere
  <2>1. session' = Absent \/ session'.stale
    BY <1>3 DEF PasswordElsewhere, Aged
  <2>2. QED
    BY <2>1 DEF OldInv
<1>4. CASE PasswordByCommand
  <2>1. session' = Absent \/ session'.untold
    BY <1>4 DEF PasswordByCommand
  <2>2. QED
    BY <2>1 DEF OldInv
<1>5. CASE Tick
  <2>1. CASE session = Absent
    BY <1>5, <2>1 DEF OldInv, Tick
  <2>2. CASE session # Absent
    <3>1. session \in Sessions /\ session' = [session EXCEPT !.age = Older(session.age, SessionTtl)]
      BY <1>5, <2>2 DEF Tick, SignInTypeOK
    <3>2. session'.old = session.old /\ session'.stale = session.stale
          /\ session'.untold = session.untold
      BY <3>1 DEF Sessions
    <3>3. QED
      BY <2>2, <3>2 DEF OldInv
  <2>3. QED
    BY <2>1, <2>2
<1>6. CASE \E t \in Tabs : Visit(t) \/ Follow(t) \/ Submit(t) \/ AnswerLogin(t)
  <2>1. ASSUME NEW t \in Tabs, Visit(t) \/ Follow(t) \/ Submit(t) \/ AnswerLogin(t)
        PROVE  \/ session' = session \/ session' = Absent
               \/ \E old : session' = NewSession(old)
    BY <2>1 DEF Visit, Follow, Submit, AnswerLogin, Login, Verify, ChangePassword,
                Logout, Refused
  <2>2. QED
    BY <1>1, <1>2, <1>6, <2>1
<1>7. QED
  BY <1>1, <1>3, <1>4, <1>5, <1>6 DEF SignInNext, signInVars, AccountElsewhere

-----------------------------------------------------------------------------
(***************************************************************************)
(* The invariant.                                                          *)
(***************************************************************************)
LEMMA InvInit == SignInInit => SignInInv
<1> SUFFICES ASSUME SignInInit PROVE SignInInv
  OBVIOUS
<1>1. Blank \in TabStates
  BY LifetimeAssumption DEF Blank, TabStates, Urls, Guarded, MaxHops
<1>2. SignInTypeOK
  BY <1>1 DEF SignInInit, SignInTypeOK
<1>3. HopsInv /\ WaitInv /\ CookieInv /\ OldInv
  BY DEF SignInInit, Blank, HopsInv, WaitInv, CookieInv, OldInv
<1>4. QED
  BY <1>2, <1>3 DEF SignInInv

LEMMA InvStep ==
    ASSUME SignInInv, [SignInNext]_signInVars
    PROVE  SignInInv'
<1>1. SignInTypeOK /\ HopsInv /\ CookieInv /\ OldInv /\ WaitInv
  BY DEF SignInInv
<1>2. SignInTypeOK' /\ OldInv'
  BY <1>1, TypeStep, OldStep
<1>3. HopsInv' /\ WaitInv' /\ CookieInv'
  <2>1. CASE UNCHANGED signInVars
    BY <1>1, <2>1 DEF signInVars, HopsInv, WaitInv, CookieInv, Looping, MostHops, Known,
                      Decoded, Accepted
  <2>2. ASSUME NEW t \in Tabs, Visit(t) PROVE HopsInv' /\ WaitInv' /\ CookieInv'
    <3>1. Settled /\ SetCookie
      BY <1>1, <2>2, SettledVisit DEF Visit
    <3>2. QED
      BY <1>1, <1>2, <3>1, HopsSettled, CookieSettled
  <2>3. ASSUME NEW t \in Tabs, Follow(t) PROVE HopsInv' /\ WaitInv' /\ CookieInv'
    BY <1>1, <1>2, <2>3, HopsFollow, CookieFollow
  <2>4. ASSUME NEW t \in Tabs, Login(t) PROVE HopsInv' /\ WaitInv' /\ CookieInv'
    BY <1>1, <1>2, <2>4, SettledLogin, HopsSettled, CookieLogin
  <2>5. ASSUME NEW t \in Tabs, AnswerLogin(t) PROVE HopsInv' /\ WaitInv' /\ CookieInv'
    BY <1>1, <1>2, <2>5, SettledAnswer, HopsSettled, CookieAnswer
  <2>6. ASSUME NEW t \in Tabs, Verify(t) \/ ChangePassword(t) \/ Logout(t)
        PROVE  HopsInv' /\ WaitInv' /\ CookieInv'
    <3>1. Settled /\ SetCookie
      BY <1>1, <2>6, SettledVerify, SettledPassword, SettledLogout
      DEF Verify, ChangePassword, Logout
    <3>2. QED
      BY <1>1, <1>2, <3>1, HopsSettled, CookieSettled
  <2>7. ASSUME NEW t \in Tabs, NEW url \in Urls, Refused(t, url)
        PROVE  HopsInv' /\ WaitInv' /\ CookieInv'
    <3>1. Settled /\ SetCookie
      BY <1>1, <2>7, SettledRefused DEF Refused
    <3>2. QED
      BY <1>1, <1>2, <3>1, HopsSettled, CookieSettled
  <2>8. CASE PasswordElsewhere \/ PasswordByCommand \/ AccountElsewhere
    BY <1>1, <1>2, <2>8, SettledElsewhere, HopsSettled, CookieElsewhere
  <2>9. CASE Tick
    <3>1. \A u \in Tabs : /\ tab'[u].at = tab[u].at /\ tab'[u].url = tab[u].url
                          /\ tab'[u].hops = 0
                          /\ tab[u].pending # Absent => tab'[u].pending # Absent
      <4>1. ASSUME NEW u \in Tabs PROVE tab[u].pending \in Pendings \cup {Absent}
        BY <1>1 DEF SignInTypeOK, TabStates
      <4>2. QED
        BY <1>1, <2>9, <4>1, TickTab, OlderPendingTyped
    <3>2. WaitInv' /\ HopsInv'
      BY <1>1, <3>1 DEF WaitInv, HopsInv, MostHops
    <3>3. QED
      BY <1>1, <1>2, <2>9, <3>2, CookieTick
  <2>10. QED
    BY <2>1, <2>2, <2>3, <2>4, <2>5, <2>6, <2>7, <2>8, <2>9 DEF SignInNext, Submit, Urls, Guarded
<1>4. QED
  BY <1>2, <1>3 DEF SignInInv

LEMMA SignInInvariance == SignInSpec => []SignInInv
BY InvInit, InvStep, PTL DEF SignInSpec

-----------------------------------------------------------------------------
(***************************************************************************)
(* The properties.                                                         *)
(***************************************************************************)
\* The types of the cookies, the tabs and the account.
THEOREM TypesHold == SignInSpec => []SignInTypeOK
<1>1. SignInInv => SignInTypeOK
  BY DEF SignInInv
<1>2. QED
  BY <1>1, SignInInvariance, PTL

\* csrf.py keeps a form's hour: in any number of tabs, a token still good is
\* taken unless a slow login put an older cookie back.
THEOREM HourKept == SignInSpec => []FormsKeepTheirHour
<1>1. SignInInv => FormsKeepTheirHour
  <2> SUFFICES ASSUME SignInInv, NEW t \in Tabs, ValidCsrf(tab[t].form), ~slow
               PROVE  CsrfPasses(tab[t].form)
    BY DEF FormsKeepTheirHour
  <2>1. csrf # Absent /\ csrf <= tab[t].form /\ tab[t].form <= CsrfMaxAge
    BY DEF SignInInv, CookieInv, ValidCsrf
  <2>2. csrf \in Nat /\ tab[t].form \in Nat
    BY <2>1, FormTyped DEF SignInInv, SignInTypeOK, ValidCsrf
  <2>3. QED
    BY <2>1, <2>2, LifetimeAssumption DEF CsrfPasses, ValidCsrf
<1>2. QED
  BY <1>1, SignInInvariance, PTL

\* Chains of more than three redirects between login_get and the pages mean a
\* session older than the password.
THEOREM LoopsExplained == SignInSpec => []LoopsNeedPasswordChange
<1>1. SignInInv => LoopsNeedPasswordChange
  <2> SUFFICES ASSUME SignInInv, NEW t \in Tabs, tab[t].hops > 3
               PROVE  session # Absent /\ session.stale
    BY DEF LoopsNeedPasswordChange
  <2>1. tab[t].hops \in Nat /\ MostHops(tab[t].url) \in 0 .. 3
    BY DEF SignInInv, SignInTypeOK, TabStates, MostHops
  <2>2. tab[t].at = "redirect"
    BY <2>1 DEF SignInInv, HopsInv
  <2>3. Looping
    BY <2>1, <2>2 DEF SignInInv, HopsInv
  <2>4. QED
    BY <2>3 DEF Looping, Known, Decoded
<1>2. QED
  BY <1>1, SignInInvariance, PTL

\* What the tabs of a browser can rely on, taken together (SignIn!TabsHold).
THEOREM TabsAreRight == SignInSpec => []TabsHold
BY TypesHold, HourKept, LoopsExplained, PTL DEF TabsHold

\* A page behind get_current_admin_user is shown for a replaced password only
\* to a session that its time could not tell of.
THEOREM OldPasswordOpensNothing == SignInSpec => OldPasswordNeedsLateLogin
<1> DEFINE A == \A t \in Tabs :
                  /\ Visit(t) \/ Follow(t) \/ ChangePassword(t)
                  /\ tab'[t].at = "page" /\ tab'[t].url \in Guarded
                  => session # Absent /\ (session.old => session.untold)
<1>1. ASSUME SignInInv, [SignInNext]_signInVars PROVE [A]_signInVars
  <2> SUFFICES ASSUME NEW t \in Tabs, Visit(t) \/ Follow(t) \/ ChangePassword(t),
                      tab'[t].at = "page", tab'[t].url \in Guarded
               PROVE  session # Absent /\ (session.old => session.untold)
    OBVIOUS
  <2>1. SignInTypeOK /\ HopsInv /\ OldInv /\ WaitInv
    BY <1>1 DEF SignInInv
  <2>2. Accepted(session)
    <3>1. CASE Visit(t)
      <4>1. PICK url \in Guarded : tab' = Others(t, GuardedAnswer(t, url))
        BY <3>1 DEF Visit
      <4>2. tab'[t] = GuardedAnswer(t, url)
        BY <2>1, <4>1, GuardedAnswerIs, OthersIs
      <4>3. QED
        BY <2>1, <4>2, RedirectIs DEF GuardedAnswer, Urls, Guarded
    <3>2. CASE Follow(t)
      <4>1. tab[t].url \in {"login", "verify"} \cup Guarded /\ tab[t].next \in Guarded
        BY <2>1, <3>2 DEF SignInTypeOK, TabStates, Urls, HopsInv, Follow
      <4>2. \/ tab'[t] = LoginAnswer(t)
            \/ tab'[t] = Page(t, "verify")
            \/ tab[t].url \in Guarded /\ tab'[t] = GuardedAnswer(t, tab[t].url)
        BY <2>1, <3>2, <4>1 DEF Follow, SignInTypeOK, Guarded
      <4>3. tab'[t] # LoginAnswer(t) /\ tab'[t] # Page(t, "verify")
        BY <2>1, <4>1, PageIs, RedirectIs DEF LoginAnswer, Urls, Guarded
      <4>4. QED
        BY <2>1, <4>2, <4>3, RedirectIs DEF GuardedAnswer, Urls, Guarded
    <3>3. CASE ChangePassword(t)
      <4>1. tab' # Others(t, Redirect(t, "login", "password"))
        <5>1. Redirect(t, "login", "password") \in TabStates
              /\ Redirect(t, "login", "password").at = "redirect"
          BY <2>1, RedirectIs DEF Urls, Guarded
        <5>2. Others(t, Redirect(t, "login", "password"))[t].at = "redirect"
          BY <2>1, <5>1, OthersIs
        <5>3. QED
          BY <5>2
      <4>2. QED
        BY <3>3, <4>1 DEF ChangePassword
    <3>4. QED
      BY <3>1, <3>2, <3>3
  <2>3. QED
    BY <2>1, <2>2 DEF Accepted, Known, Decoded, OldInv
<1>2. QED
  BY <1>1, SignInInvariance, PTL DEF SignInSpec, OldPasswordNeedsLateLogin

-----------------------------------------------------------------------------
(***************************************************************************)
(* Numbers.                                                                *)
(***************************************************************************)
LEMMA LeastNatural ==
    ASSUME NEW S \in SUBSET Nat, S # {}
    PROVE  \E n \in S : \A m \in S : n <= m
<1> DEFINE R == {p \in Nat \X Nat : p[1] < p[2]}
<1>1. IsWellFoundedOn(R, Nat)
  BY NatLessThanWellFounded DEF OpToRel
<1> HIDE DEF R
<1>2. \E n \in S : \A m \in S : ~(<<m, n>> \in R)
  <2>1. S \subseteq Nat
    OBVIOUS
  <2>2. QED
    BY <1>1, <2>1, WFMin, Zenon
<1>3. PICK n \in S : \A m \in S : ~(<<m, n>> \in R)
  BY <1>2
<1>4. ASSUME NEW m \in S PROVE n <= m
  <2>1. m \in Nat /\ n \in Nat /\ ~(<<m, n>> \in R)
    BY <1>3
  <2>2. ~(m < n)
    BY <2>1 DEF R
  <2>3. QED
    BY <2>1, <2>2
<1>5. QED
  BY <1>4

LEMMA Quotient ==
    ASSUME NEW x \in Nat, NEW d \in Nat \ {0}
    PROVE  /\ x \div d \in Nat
           /\ (x \div d) * d \in Nat /\ (x \div d + 1) * d \in Nat
           /\ (x \div d) * d <= x
           /\ x < (x \div d + 1) * d
<1>1. x \div d \in Nat /\ d * (x \div d) <= x /\ x < d * (x \div d) + d
  OBVIOUS
<1> DEFINE n == x \div d
<1> HIDE DEF n
<1>2. ASSUME n \in Nat PROVE n * d = d * n /\ (n + 1) * d = d * n + d /\ d * n \in Nat
  BY <1>2
<1>3. QED
  BY <1>1, <1>2 DEF n

LEMMA SpanPositive == Span \in Nat /\ Span > 0
<1>1. ASSUME NEW m \in Nat \ {0}, NEW n \in Nat \ {0} PROVE m * n \in Nat /\ m * n > 0
  OBVIOUS
<1>2. QED
  BY <1>1, GuardAssumption DEF Span

\* A smaller set has no more elements.
LEMMA Smaller ==
    ASSUME NEW S, NEW T \in SUBSET S, IsFiniteSet(S)
    PROVE  /\ IsFiniteSet(T) /\ Cardinality(T) \in Nat /\ Cardinality(S) \in Nat
           /\ Cardinality(T) <= Cardinality(S)
BY FS_Subset, FS_CardinalityType

LEMMA OneMore ==
    ASSUME NEW S, NEW x, IsFiniteSet(S)
    PROVE  /\ IsFiniteSet(S \cup {x}) /\ Cardinality(S \cup {x}) \in Nat
           /\ Cardinality(S) \in Nat /\ Cardinality(S \cup {x}) <= Cardinality(S) + 1
<1>1. Cardinality(S) \in Nat
  BY FS_CardinalityType
<1>2. /\ IsFiniteSet(S \cup {x})
      /\ Cardinality(S \cup {x}) = Cardinality(S)
         \/ Cardinality(S \cup {x}) = Cardinality(S) + 1
  BY FS_AddElement, Zenon
<1>3. QED
  BY <1>1, <1>2

-----------------------------------------------------------------------------
(***************************************************************************)
(* The limiter's invariant.                                                *)
(***************************************************************************)
FiniteInv == IsFiniteSet(failures) /\ IsFiniteSet(refreshes) /\ IsFiniteSet(served)

PastInv == \A a \in failures \cup refreshes \cup served : a.at <= now

\* Of what was served only what has expired is forgotten.
ServedInv ==
    /\ refreshes \subseteq served
    /\ \A a \in served \ refreshes : Expired(a, now)

TogetherInv ==
    \A r, q \in Posts : InProgress(r) /\ InProgress(q) /\ r # q => <<r, q>> \in beside

Before(r) == {a \in failures : <<r, a.by>> \notin beside}

\* A login in service was let in below the limit, and what was recorded since
\* was in service with it.
CheckedInv ==
    \A r \in Posts : InProgress(r) => Cardinality(Before(r)) < MaxAttempts

GuardInv ==
    /\ GuardTypeOK /\ FiniteInv /\ PastInv /\ ServedInv /\ TogetherInv /\ CheckedInv
    /\ RefreshesWithinLimit /\ OverrunNeedsOverlap

LEMMA LiveIs ==
    ASSUME NEW attempts, NEW t, IsFiniteSet(attempts)
    PROVE  /\ Live(attempts, t) \subseteq attempts /\ IsFiniteSet(Live(attempts, t))
           /\ Cardinality(Live(attempts, t)) \in Nat
BY Smaller DEF Live

LEMMA AttemptIs ==
    ASSUME GuardTypeOK, NEW r \in Posts
    PROVE  /\ Attempt(r) \in Attempts /\ Attempt(r).at = now /\ Attempt(r).by = r
           /\ now \in Nat
BY GuardAssumption DEF GuardTypeOK, Attempt, Attempts

LEMMA RecordedIs ==
    ASSUME GuardTypeOK, NEW r \in Posts, NEW attempts \in SUBSET Attempts,
           IsFiniteSet(attempts)
    PROVE  Recorded(attempts, r) \in SUBSET Attempts /\ IsFiniteSet(Recorded(attempts, r))
BY AttemptIs, LiveIs, FS_AddElement DEF Recorded

LEMMA GuardTypeStep ==
    ASSUME GuardTypeOK, FiniteInv, [GuardNext]_guardVars
    PROVE  GuardTypeOK' /\ FiniteInv'
<1>1. CASE UNCHANGED guardVars
  BY <1>1 DEF guardVars, GuardTypeOK, FiniteInv
<1>2. ASSUME NEW r \in Posts, LoginCheck(r) \/ LoginRefused(r) \/ LoginSucceeds(r)
                                 \/ LoginFails(r)
      PROVE  GuardTypeOK' /\ FiniteInv'
  <2>1. failures' \in SUBSET Attempts /\ IsFiniteSet(failures')
    <3>1. failures \in SUBSET Attempts /\ IsFiniteSet(failures)
      BY DEF GuardTypeOK, FiniteInv
    <3>2. failures' \in {Live(failures, now), {}, Recorded(failures, r)}
      BY <1>2 DEF LoginCheck, LoginRefused, LoginSucceeds, LoginFails
    <3>3. Live(failures, now) \in SUBSET Attempts /\ IsFiniteSet(Live(failures, now))
      BY <3>1, LiveIs
    <3>4. Recorded(failures, r) \in SUBSET Attempts /\ IsFiniteSet(Recorded(failures, r))
      BY <3>1, RecordedIs
    <3>5. QED
      BY <3>2, <3>3, <3>4, FS_EmptySet
  <2>2. UNCHANGED <<now, refreshes, served>>
    BY <1>2 DEF LoginCheck, LoginRefused, LoginSucceeds, LoginFails
  <2>3. /\ step' \in [Posts -> {"idle", "checked", "done"}]
        /\ verdict' \in [Posts -> {"none", "refused", "in", "page"}]
        /\ beside' \in SUBSET (Posts \X Posts)
    BY <1>2 DEF LoginCheck, LoginRefused, LoginSucceeds, LoginFails, Refuse, GuardTypeOK
  <2>4. QED
    BY <2>1, <2>2, <2>3 DEF GuardTypeOK, FiniteInv
<1>3. ASSUME NEW r \in Posts, Refresh(r)
      PROVE  GuardTypeOK' /\ FiniteInv'
  <2>1. refreshes' \in SUBSET Attempts /\ IsFiniteSet(refreshes')
    BY <1>3, LiveIs, RecordedIs
    DEF Refresh, RefreshServed, RefreshRefused, GuardTypeOK, FiniteInv
  <2>2. served' \in SUBSET Attempts /\ IsFiniteSet(served')
    BY <1>3, AttemptIs, FS_AddElement
    DEF Refresh, RefreshServed, RefreshRefused, GuardTypeOK, FiniteInv
  <2>3. UNCHANGED <<now, failures, beside>>
    BY <1>3 DEF Refresh, RefreshServed, RefreshRefused
  <2>4. /\ step' \in [Posts -> {"idle", "checked", "done"}]
        /\ verdict' \in [Posts -> {"none", "refused", "in", "page"}]
    BY <1>3 DEF Refresh, RefreshServed, RefreshRefused, Refuse, GuardTypeOK
  <2>5. QED
    BY <2>1, <2>2, <2>3, <2>4 DEF GuardTypeOK, FiniteInv
<1>4. CASE ClockTick
  BY <1>4, GuardAssumption DEF ClockTick, GuardTypeOK, FiniteInv
<1>5. QED
  BY <1>1, <1>2, <1>3, <1>4 DEF GuardNext, GuardedLogin

LEMMA PastStep ==
    ASSUME GuardTypeOK, FiniteInv, PastInv, ServedInv, [GuardNext]_guardVars
    PROVE  PastInv' /\ ServedInv'
<1>1. CASE UNCHANGED guardVars
  BY <1>1 DEF guardVars, PastInv, ServedInv, Expired
<1>2. ASSUME NEW r \in Posts, LoginCheck(r) \/ LoginRefused(r) \/ LoginSucceeds(r)
                                 \/ LoginFails(r)
      PROVE  PastInv' /\ ServedInv'
  <2>1. failures' \subseteq failures \cup {Attempt(r)}
    BY <1>2, LiveIs DEF LoginCheck, LoginRefused, LoginSucceeds, LoginFails, FiniteInv, Recorded
  <2>2. UNCHANGED <<now, refreshes, served>>
    BY <1>2 DEF LoginCheck, LoginRefused, LoginSucceeds, LoginFails
  <2>3. QED
    BY <2>1, <2>2, AttemptIs DEF PastInv, ServedInv, Expired
<1>3. ASSUME NEW r \in Posts, Refresh(r)
      PROVE  PastInv' /\ ServedInv'
  <2>1. UNCHANGED <<now, failures>>
    BY <1>3 DEF Refresh, RefreshServed, RefreshRefused
  <2>2. \/ refreshes' = Live(refreshes, now) /\ served' = served
        \/ /\ refreshes' = Live(refreshes, now) \cup {Attempt(r)}
           /\ served' = served \cup {Attempt(r)}
    BY <1>3 DEF Refresh, RefreshServed, RefreshRefused, Recorded
  <2>3. PastInv'
    BY <2>1, <2>2, AttemptIs DEF PastInv, Live
  <2>4. ServedInv'
    BY <2>1, <2>2 DEF ServedInv, Live, Expired
  <2>5. QED
    BY <2>3, <2>4
<1>4. CASE ClockTick
  <2>1. UNCHANGED <<failures, refreshes, served>> /\ now' = now + 1 /\ now \in Nat
    BY <1>4, GuardAssumption DEF ClockTick, GuardTypeOK
  <2>2. \A a \in failures \cup refreshes \cup served : a.at \in Nat
    BY GuardAssumption DEF GuardTypeOK, Attempts
  <2>3. QED
    BY <2>1, <2>2, SpanPositive DEF PastInv, ServedInv, Expired
<1>5. QED
  BY <1>1, <1>2, <1>3, <1>4 DEF GuardNext, GuardedLogin

\* What a window that is not over holds, the limiter still counts.
LEMMA WithinStep ==
    ASSUME GuardTypeOK, FiniteInv, PastInv, ServedInv, RefreshesWithinLimit,
           NEW r \in Posts, RefreshServed(r)
    PROVE  RefreshesWithinLimit'
<1> SUFFICES ASSUME NEW start \in 0 .. MaxTime
             PROVE  Cardinality({a \in served' : start <= a.at /\ a.at < start + Span})
                      <= MaxAttempts
  BY DEF RefreshesWithinLimit
<1> DEFINE W == {a \in served : start <= a.at /\ a.at < start + Span}
           V == {a \in served' : start <= a.at /\ a.at < start + Span}
           L == Live(refreshes, now)
<1>1. Cardinality(W) <= MaxAttempts
  BY DEF RefreshesWithinLimit
<1>2. served' = served \cup {Attempt(r)}
  BY DEF RefreshServed
<1>3. CASE ~(start <= now /\ now < start + Span)
  <2>1. V = W
    BY <1>2, <1>3, AttemptIs
  <2>2. QED
    BY <1>1, <2>1
<1>4. CASE start <= now /\ now < start + Span
  <2>1. ASSUME NEW a \in W PROVE a \in L
    <3>1. a.at \in Nat /\ start \in Nat /\ now \in Nat
      BY GuardAssumption DEF GuardTypeOK, Attempts
    <3>2. ~Expired(a, now)
      BY <1>4, <3>1, SpanPositive DEF Expired
    <3>3. a \in refreshes
      BY <3>2 DEF ServedInv
    <3>4. QED
      BY <3>2, <3>3 DEF Live
  <2>2. V \subseteq W \cup {Attempt(r)}
    BY <1>2
  <2>3. IsFiniteSet(L) /\ Cardinality(L) \in Nat /\ Cardinality(L) < MaxAttempts
    BY LiveIs, GuardAssumption DEF FiniteInv, RefreshServed, Limited
  <2> HIDE DEF V, W, L
  <2>4. V \in SUBSET (L \cup {Attempt(r)})
    BY <2>1, <2>2
  <2>5. /\ IsFiniteSet(L \cup {Attempt(r)})
        /\ Cardinality(L \cup {Attempt(r)}) <= Cardinality(L) + 1
        /\ Cardinality(L \cup {Attempt(r)}) \in Nat
    BY <2>3, OneMore
  <2>6. Cardinality(V) <= Cardinality(L) + 1 /\ Cardinality(V) \in Nat
    BY <2>3, <2>4, <2>5, Smaller
  <2>7. QED
    BY <2>3, <2>6, GuardAssumption DEF V
<1>5. QED
  BY <1>3, <1>4

LEMMA TogetherStep ==
    ASSUME GuardTypeOK, TogetherInv, [GuardNext]_guardVars
    PROVE  TogetherInv'
<1> SUFFICES ASSUME NEW r \in Posts, NEW q \in Posts,
                    InProgress(r)', InProgress(q)', r # q
             PROVE  <<r, q>> \in beside'
  BY DEF TogetherInv
<1>1. beside \subseteq beside'
  BY DEF GuardNext, guardVars, GuardedLogin, Refresh, LoginCheck, LoginRefused,
         LoginSucceeds, LoginFails, RefreshServed, RefreshRefused, ClockTick
<1>2. CASE InProgress(r) /\ InProgress(q)
  BY <1>1, <1>2 DEF TogetherInv
<1>3. CASE ~InProgress(r) \/ ~InProgress(q)
  <2>1. PICK s \in Posts : LoginCheck(s)
    BY <1>3 DEF GuardNext, guardVars, GuardedLogin, Refresh, LoginRefused, LoginSucceeds,
             LoginFails, RefreshServed, RefreshRefused, ClockTick, Refuse, InProgress,
             GuardTypeOK
  <2>2. \A p \in Posts : InProgress(p)' => InProgress(p) \/ p = s
    BY <2>1 DEF LoginCheck, InProgress, GuardTypeOK
  <2>3. (s = r /\ InProgress(q)) \/ (s = q /\ InProgress(r))
    BY <1>3, <2>2
  <2>4. QED
    BY <2>1, <2>3 DEF LoginCheck
<1>4. QED
  BY <1>2, <1>3

LEMMA CheckedStep ==
    ASSUME GuardTypeOK, FiniteInv, TogetherInv, CheckedInv, [GuardNext]_guardVars
    PROVE  CheckedInv'
<1> SUFFICES ASSUME NEW q \in Posts, InProgress(q)'
             PROVE  Cardinality(Before(q)') < MaxAttempts
  BY DEF CheckedInv, Before
<1>1. IsFiniteSet(failures)
  BY DEF FiniteInv
<1>2. ASSUME InProgress(q), Before(q)' \subseteq Before(q)
      PROVE  Cardinality(Before(q)') < MaxAttempts
  <2>1. IsFiniteSet(Before(q))
    BY <1>1, Smaller DEF Before
  <2>2. Cardinality(Before(q)) < MaxAttempts
    BY <1>2 DEF CheckedInv
  <2>3. QED
    BY <1>2, <2>1, <2>2, Smaller, GuardAssumption
<1>3. CASE UNCHANGED <<failures, beside, step>>
  BY <1>2, <1>3 DEF Before, InProgress
<1>4. ASSUME NEW r \in Posts, LoginCheck(r)
      PROVE  Cardinality(Before(q)') < MaxAttempts
  <2>1. failures' = Live(failures, now) /\ beside \subseteq beside'
    BY <1>4 DEF LoginCheck
  <2>2. CASE q = r
    <3>1. Before(q)' \in SUBSET Live(failures, now)
      BY <2>1 DEF Before
    <3>2. IsFiniteSet(Live(failures, now)) /\ Cardinality(Live(failures, now)) < MaxAttempts
      BY <1>1, <1>4, LiveIs, GuardAssumption DEF LoginCheck, Limited
    <3>3. QED
      BY <3>1, <3>2, Smaller, GuardAssumption
  <2>3. CASE q # r
    <3>1. InProgress(q)
      BY <1>4, <2>3 DEF LoginCheck, InProgress, GuardTypeOK
    <3>2. Before(q)' \subseteq Before(q)
      BY <2>1 DEF Before, Live
    <3>3. QED
      BY <1>2, <3>1, <3>2
  <2>4. QED
    BY <2>2, <2>3
<1>5. ASSUME NEW r \in Posts, LoginRefused(r) \/ LoginSucceeds(r)
      PROVE  Cardinality(Before(q)') < MaxAttempts
  <2>1. InProgress(q)
    BY <1>5 DEF LoginRefused, Refuse, LoginSucceeds, InProgress, GuardTypeOK
  <2>2. Before(q)' \subseteq Before(q)
    BY <1>5 DEF LoginRefused, LoginSucceeds, Before, Live
  <2>3. QED
    BY <1>2, <2>1, <2>2
<1>6. ASSUME NEW r \in Posts, LoginFails(r)
      PROVE  Cardinality(Before(q)') < MaxAttempts
  <2>1. InProgress(q) /\ q # r /\ InProgress(r)
    BY <1>6 DEF LoginFails, InProgress, GuardTypeOK
  <2>2. <<q, r>> \in beside
    BY <2>1 DEF TogetherInv
  <2>3. failures' = Live(failures, now) \cup {Attempt(r)} /\ beside' = beside
    BY <1>6 DEF LoginFails, Recorded
  <2>4. Before(q)' \subseteq Before(q)
    BY <2>2, <2>3, AttemptIs DEF Before, Live
  <2>5. QED
    BY <1>2, <2>1, <2>4
<1>7. ASSUME NEW r \in Posts, Refresh(r)
      PROVE  Cardinality(Before(q)') < MaxAttempts
  <2>1. InProgress(q) /\ UNCHANGED <<failures, beside>>
    BY <1>7 DEF Refresh, RefreshServed, RefreshRefused, Refuse, InProgress, GuardTypeOK
  <2>2. QED
    BY <1>2, <2>1 DEF Before
<1>8. QED
  BY <1>3, <1>4, <1>5, <1>6, <1>7 DEF GuardNext, guardVars, GuardedLogin, ClockTick

LEMMA OverrunStep ==
    ASSUME GuardTypeOK, FiniteInv, CheckedInv, OverrunNeedsOverlap, [GuardNext]_guardVars
    PROVE  OverrunNeedsOverlap'
<1> SUFFICES ASSUME NEW apart \in SUBSET failures',
                    \A a, b \in apart : a # b => <<a.by, b.by>> \notin beside'
             PROVE  Cardinality(apart) <= MaxAttempts
  BY DEF OverrunNeedsOverlap
<1>1. beside \subseteq beside'
  BY DEF GuardNext, guardVars, GuardedLogin, Refresh, LoginCheck, LoginRefused,
         LoginSucceeds, LoginFails, RefreshServed, RefreshRefused, ClockTick
<1>2. CASE apart \subseteq failures
  BY <1>1, <1>2 DEF OverrunNeedsOverlap
<1>3. CASE ~(apart \subseteq failures)
  <2>1. PICK r \in Posts : LoginFails(r)
    BY <1>3 DEF GuardNext, guardVars, GuardedLogin, Refresh, LoginCheck, LoginRefused,
             LoginSucceeds, RefreshServed, RefreshRefused, ClockTick, Live
  <2>2. failures' = Live(failures, now) \cup {Attempt(r)} /\ beside' = beside
        /\ InProgress(r)
    BY <2>1 DEF LoginFails, Recorded, InProgress
  <2>3. Attempt(r) \in apart
    BY <1>3, <2>2 DEF Live
  <2>4. apart \in SUBSET (Before(r) \cup {Attempt(r)})
    BY <2>2, <2>3, AttemptIs DEF Before, Live
  <2>5. IsFiniteSet(Before(r)) /\ Cardinality(Before(r)) < MaxAttempts
        /\ Cardinality(Before(r)) \in Nat
    BY <2>2, Smaller DEF CheckedInv, FiniteInv, Before
  <2>6. /\ IsFiniteSet(Before(r) \cup {Attempt(r)})
        /\ Cardinality(Before(r) \cup {Attempt(r)}) <= Cardinality(Before(r)) + 1
        /\ Cardinality(Before(r) \cup {Attempt(r)}) \in Nat
    BY <2>5, OneMore
  <2>7. Cardinality(apart) \in Nat
        /\ Cardinality(apart) <= Cardinality(Before(r)) + 1
    BY <2>4, <2>5, <2>6, Smaller
  <2>8. QED
    BY <2>5, <2>7, GuardAssumption
<1>4. QED
  BY <1>2, <1>3

LEMMA GuardInvInit == GuardInit => GuardInv
<1> SUFFICES ASSUME GuardInit PROVE GuardInv
  OBVIOUS
<1>1. GuardTypeOK /\ FiniteInv /\ PastInv /\ ServedInv /\ TogetherInv /\ CheckedInv
  BY GuardAssumption, FS_EmptySet
  DEF GuardInit, GuardTypeOK, FiniteInv, PastInv, ServedInv, TogetherInv, CheckedInv, InProgress
<1>2. RefreshesWithinLimit
  <2>1. ASSUME NEW start \in 0 .. MaxTime
        PROVE  {a \in served : start <= a.at /\ a.at < start + Span} = {}
    BY DEF GuardInit
  <2>2. QED
    BY <2>1, FS_EmptySet, GuardAssumption DEF RefreshesWithinLimit
<1>3. OverrunNeedsOverlap
  <2>1. \A apart \in SUBSET failures : Cardinality(apart) = 0
    BY FS_EmptySet DEF GuardInit
  <2>2. QED
    BY <2>1, GuardAssumption DEF OverrunNeedsOverlap
<1>4. QED
  BY <1>1, <1>2, <1>3 DEF GuardInv

LEMMA GuardInvStep ==
    ASSUME GuardInv, [GuardNext]_guardVars
    PROVE  GuardInv'
<1>1. /\ GuardTypeOK /\ FiniteInv /\ PastInv /\ ServedInv /\ TogetherInv /\ CheckedInv
      /\ RefreshesWithinLimit /\ OverrunNeedsOverlap
  BY DEF GuardInv
<1>2. GuardTypeOK' /\ FiniteInv' /\ PastInv' /\ ServedInv' /\ TogetherInv' /\ CheckedInv'
      /\ OverrunNeedsOverlap'
  BY <1>1, GuardTypeStep, PastStep, TogetherStep, CheckedStep, OverrunStep
<1>3. RefreshesWithinLimit'
  <2>1. served' = served \/ \E r \in Posts : RefreshServed(r)
    BY DEF GuardNext, guardVars, GuardedLogin, Refresh, LoginCheck, LoginRefused,
           LoginSucceeds, LoginFails, RefreshRefused, ClockTick
  <2>2. CASE served' = served
    BY <1>1, <2>2 DEF RefreshesWithinLimit
  <2>3. QED
    BY <1>1, <2>1, <2>2, WithinStep
<1>4. QED
  BY <1>2, <1>3 DEF GuardInv

LEMMA GuardInvariance == GuardSpec => []GuardInv
BY GuardInvInit, GuardInvStep, PTL DEF GuardSpec

\* The oldest attempt.
LEMMA OldestIs ==
    ASSUME NEW S \in SUBSET Attempts, S # {}
    PROVE  /\ Oldest(S) \in Nat
           /\ \E a \in S : a.at = Oldest(S)
           /\ \A a \in S : Oldest(S) <= a.at
<1> DEFINE T == {a.at : a \in S}
<1>1. T \in SUBSET Nat /\ T # {}
  BY GuardAssumption DEF Attempts
<1>2. \E at \in T : \A m \in T : at <= m
  BY <1>1, LeastNatural
<1>3. \E at \in T : \A a \in S : at <= a.at
  BY <1>2
<1>4. Oldest(S) \in T /\ \A a \in S : Oldest(S) <= a.at
  BY <1>3 DEF Oldest
<1>5. QED
  BY <1>1, <1>4

LEMMA RetryIsRight ==
    ASSUME GuardTypeOK, FiniteInv, PastInv
    PROVE  RetryAfterIsRight
<1> SUFFICES ASSUME NEW attempts \in {failures, refreshes},
                    Cardinality(Live(attempts, now)) = MaxAttempts
             PROVE  LET seconds == RetryAfter(attempts, now)
                    IN  /\ ~Limited(attempts, now + seconds * TicksPerSecond)
                        /\ \A t \in now .. now + (seconds - 1) * TicksPerSecond :
                             t < now + (seconds - 1) * TicksPerSecond => Limited(attempts, t)
  BY DEF RetryAfterIsRight
<1> DEFINE L == Live(attempts, now)
           x == Span - (now - Oldest(L))
           n == x \div TicksPerSecond
<1>1. /\ attempts \in SUBSET Attempts /\ IsFiniteSet(attempts) /\ now \in Nat
      /\ \A a \in attempts : a.at \in Nat /\ a.at <= now
  BY GuardAssumption DEF GuardTypeOK, FiniteInv, PastInv, Attempts
<1>2. L \in SUBSET Attempts /\ IsFiniteSet(L) /\ Cardinality(L) = MaxAttempts /\ L \subseteq attempts
  BY <1>1, LiveIs
<1>3. L # {}
  BY <1>2, GuardAssumption, FS_EmptySet
<1>4. PICK first \in L : first.at = Oldest(L)
  BY <1>2, <1>3, OldestIs
<1>5. Oldest(L) \in Nat /\ (\A a \in L : Oldest(L) <= a.at) /\ Oldest(L) <= now
      /\ Oldest(L) + Span > now
  <2>1. Oldest(L) \in Nat /\ \A a \in L : Oldest(L) <= a.at
    BY <1>2, <1>3, OldestIs
  <2>2. ~(first.at + Span <= now) /\ first.at <= now
    BY <1>1, <1>4 DEF Live, Expired
  <2>3. QED
    BY <1>1, <1>4, <2>1, <2>2, SpanPositive
<1>6. x \in Nat /\ Oldest(L) + Span = now + x
  BY <1>1, <1>5, SpanPositive
<1>7. RetryAfter(attempts, now) = n + 1
  BY <1>3 DEF RetryAfter
<1> HIDE DEF x
<1>8. /\ n \in Nat /\ n * TicksPerSecond \in Nat /\ (n + 1) * TicksPerSecond \in Nat
      /\ n * TicksPerSecond <= x /\ x < (n + 1) * TicksPerSecond
  BY <1>6, Quotient, GuardAssumption
<1> HIDE DEF n, L
<1>9. ~Limited(attempts, now + (n + 1) * TicksPerSecond)
  <2> DEFINE t == now + (n + 1) * TicksPerSecond
             M == Live(attempts, t)
  <2>1. M \subseteq L \ {first}
    <3>1. ASSUME NEW a \in M PROVE a \in L /\ a # first
      <4>1. a \in attempts /\ ~(a.at + Span <= t) /\ a.at \in Nat
        BY <1>1 DEF Live, Expired
      <4>2. ~(a.at + Span <= now)
        BY <1>1, <1>8, <4>1, SpanPositive
      <4>3. a.at # Oldest(L)
        BY <1>1, <1>5, <1>6, <1>8, <4>1, SpanPositive
      <4>4. QED
        BY <1>4, <4>1, <4>2, <4>3 DEF L, Live, Expired
    <3>2. QED
      BY <3>1
  <2>2. IsFiniteSet(L \ {first}) /\ Cardinality(L \ {first}) = MaxAttempts - 1
    BY <1>2, <1>4, FS_RemoveElement
  <2>3. Cardinality(M) <= MaxAttempts - 1 /\ Cardinality(M) \in Nat
    BY <2>1, <2>2, Smaller
  <2>4. QED
    BY <2>3, GuardAssumption DEF Limited
<1>10. ASSUME NEW t \in now .. now + n * TicksPerSecond, t < now + n * TicksPerSecond
       PROVE  Limited(attempts, t)
  <2>1. L \subseteq Live(attempts, t)
    <3>1. ASSUME NEW a \in L PROVE a \in Live(attempts, t)
      <4>1. a \in attempts /\ a.at \in Nat /\ Oldest(L) <= a.at
        BY <1>1, <1>2, <1>5
      <4>2. t \in Nat /\ t < now + x
        BY <1>1, <1>6, <1>8, <1>10
      <4>3. ~(a.at + Span <= t)
        BY <1>1, <1>5, <1>6, <4>1, <4>2, SpanPositive
      <4>4. QED
        BY <4>1, <4>3 DEF Live, Expired
    <3>2. QED
      BY <3>1
  <2>2. IsFiniteSet(Live(attempts, t))
    BY <1>1, LiveIs
  <2>3. Cardinality(L) <= Cardinality(Live(attempts, t))
    BY <2>1, <2>2, Smaller
  <2>4. QED
    BY <1>2, <2>3 DEF Limited
<1> DEFINE s == RetryAfter(attempts, now)
<1>11. s = n + 1 /\ s - 1 = n
  BY <1>7, <1>8
<1> HIDE DEF s
<1>12. /\ ~Limited(attempts, now + s * TicksPerSecond)
       /\ \A t \in now .. now + (s - 1) * TicksPerSecond :
            t < now + (s - 1) * TicksPerSecond => Limited(attempts, t)
  BY <1>9, <1>10, <1>11
<1>13. QED
  BY <1>12 DEF s

\* The limiter lets no more refreshes through than it says, overruns its
\* limit only by logins in service together, and tells when to come back.
THEOREM LimiterIsRight == GuardSpec => []LimiterHolds
<1>1. GuardInv => LimiterHolds
  BY RetryIsRight DEF GuardInv, LimiterHolds
<1>2. QED
  BY <1>1, GuardInvariance, PTL

=============================================================================
