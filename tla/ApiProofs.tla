----------------------------- MODULE ApiProofs -----------------------------
(***************************************************************************)
(* Theorems about the endpoints that keep state between requests.          *)
(* TokenLifecycle: type correctness, the accuracy of the password check,   *)
(* the rotation of refresh tokens, and what a password change leaves of    *)
(* the tokens made before it.  AiChat: a stream never waits for its own    *)
(* request, what a conversation forgets or counts wrongly is explained by  *)
(* turns that overlap, every turn is billed as it is stored, and a         *)
(* deletion loses to turns in flight only.                                 *)
(***************************************************************************)
EXTENDS TokenLifecycle, AiChat, SequenceTheorems, TLAPS

-----------------------------------------------------------------------------
(***************************************************************************)
(* API tokens.                                                             *)
(***************************************************************************)

LEMMA TokenTypeInit == TokenInit => TokenTypeOK
BY TimeAssumption DEF TokenInit, TokenTypeOK, Kinds, Stages

LEMMA TypeRead ==
    ASSUME TokenTypeOK, NEW r \in Requests, Read(r)
    PROVE  TokenTypeOK'
<1>1. CASE ObtainRead(r)
  BY <1>1 DEF TokenTypeOK, ObtainRead, Begin, Kinds, Stages, account, InService
<1>2. CASE RefreshRead(r)
  BY <1>2 DEF TokenTypeOK, RefreshRead, Begin, Kinds, Stages, account, InService
<1>3. CASE LogoutRead(r)
  BY <1>3 DEF TokenTypeOK, LogoutRead, Begin, Kinds, Stages, account, InService
<1>4. CASE PasswordRead(r)
  BY <1>4 DEF TokenTypeOK, PasswordRead, Begin, Kinds, Stages, account, InService
<1>5. QED
  BY <1>1, <1>2, <1>3, <1>4 DEF Read

LEMMA TypeWrite ==
    ASSUME TokenTypeOK, NEW r \in Requests, Write(r), RowInv
    PROVE  TokenTypeOK'
<1>0. now \in Nat
  BY TimeAssumption DEF TokenTypeOK
<1>1. CASE ObtainFlush(r)
  BY <1>0, <1>1 DEF TokenTypeOK, ObtainFlush, Flush, Stages, account, history
<1>2. CASE RefreshFlush(r)
  BY <1>0, <1>2 DEF TokenTypeOK, RowInv, RefreshFlush, Flush, Stages, account, history
<1>3. CASE LogoutFlush(r)
  BY <1>0, <1>3 DEF TokenTypeOK, RowInv, LogoutFlush, Flush, Stages, account, history
<1>4. CASE PasswordStamp(r)
  BY <1>0, <1>4 DEF TokenTypeOK, PasswordStamp, RevokedByPassword, LiveRows, Stages, account, history
<1>5. CASE PasswordFlush(r)
  BY <1>5 DEF TokenTypeOK, PasswordFlush, Stages, account, history
<1>6. CASE RefreshMint(r)
  BY <1>0, <1>6 DEF TokenTypeOK, RefreshMint, Stages, account, history
<1>7. QED
  BY <1>1, <1>2, <1>3, <1>4, <1>5, <1>6 DEF Write

LEMMA TypeCommit ==
    ASSUME TokenTypeOK, NEW r \in Requests, Commit(r)
    PROVE  TokenTypeOK'
<1>1. tokenRow' \in [Requests -> {"absent", "live", "revoked"}]
  BY DEF TokenTypeOK, Commit, RowsAfter
<1>2. CASE kind[r] = "password"
  <2>1. changer' \in [1 .. password' -> Requests]
    BY <1>2 DEF TokenTypeOK, Commit
  <2>2. password' \in Nat /\ changedAt' \in Nat
    BY <1>2 DEF TokenTypeOK, Commit
  <2>3. stage' \in [Requests -> Stages]
    BY DEF TokenTypeOK, Commit, Stages
  <2>4. UNCHANGED <<now, active, kind, using, authority, ancestry, minted, revoking, overlap>>
    BY DEF Commit
  <2>5. QED
    BY <1>1, <2>1, <2>2, <2>3, <2>4 DEF TokenTypeOK
<1>3. CASE kind[r] # "password"
  BY <1>1, <1>3 DEF TokenTypeOK, Commit, Stages
<1>4. QED
  BY <1>2, <1>3

LEMMA TypeRest ==
    ASSUME TokenTypeOK, \/ \E r \in Requests : FailCommit(r)
                   \/ SetActive
                   \/ Tick
    PROVE  TokenTypeOK'
<1>1. ASSUME NEW r \in Requests, FailCommit(r)
      PROVE  TokenTypeOK'
  BY <1>1 DEF TokenTypeOK, FailCommit, Stages, account, history
<1>2. CASE SetActive
  BY <1>2 DEF TokenTypeOK, SetActive, local, history
<1>3. CASE Tick
  BY <1>3, TimeAssumption DEF TokenTypeOK, Tick, account, local, history
<1>4. QED
  BY <1>1, <1>2, <1>3

-----------------------------------------------------------------------------
(***************************************************************************)
(* Rows and their consumers.  A read starts a request; a write fixes what  *)
(* its transaction will do; only a commit changes the rows.                *)
(***************************************************************************)

\* A request that starts a read was idle, minted nothing and holds nothing.
LEMMA RowRead ==
    ASSUME TokenTypeOK, RowInv, NEW r \in Requests, Read(r)
    PROVE  RowInv'
<1>1. stage[r] = "idle" /\ kind[r] = "idle" /\ tokenRow[r] = "absent" /\ revoking[r] = {}
  BY DEF RowInv, Read, ObtainRead, RefreshRead, LogoutRead, PasswordRead, Begin
<1>2. tokenRow' = tokenRow /\ revoking' = revoking
  BY DEF Read, ObtainRead, RefreshRead, LogoutRead, PasswordRead
<1>3. stage' = [stage EXCEPT ![r] = "read"]
  BY DEF Read, ObtainRead, RefreshRead, LogoutRead, PasswordRead, Begin
<1>4. CASE ObtainRead(r)
  BY <1>1, <1>2, <1>3, <1>4 DEF TokenTypeOK, RowInv, ObtainRead, Begin
<1>5. CASE RefreshRead(r)
  <2>1. PICK t \in Requests : /\ Usable(t)
                              /\ Begin(r, "refresh")
                              /\ using' = [using EXCEPT ![r] = t]
    BY <1>5 DEF RefreshRead
  <2>2. t # r /\ tokenRow[t] # "absent"
    BY <1>1, <2>1 DEF Usable
  <2>3. QED
    BY <1>1, <1>2, <1>3, <2>1, <2>2 DEF TokenTypeOK, RowInv, Begin
<1>6. CASE LogoutRead(r)
  <2>1. PICK t \in Requests : /\ tokenRow[t] = "live"
                              /\ Begin(r, "logout")
                              /\ using' = [using EXCEPT ![r] = t]
    BY <1>6 DEF LogoutRead
  <2>2. QED
    BY <1>1, <1>2, <1>3, <2>1 DEF TokenTypeOK, RowInv, Begin
<1>7. CASE PasswordRead(r)
  BY <1>1, <1>2, <1>3, <1>7 DEF TokenTypeOK, RowInv, PasswordRead, Begin
<1>8. QED
  BY <1>4, <1>5, <1>6, <1>7 DEF Read

LEMMA RowWrite ==
    ASSUME TokenTypeOK, RowInv, NEW r \in Requests, Write(r)
    PROVE  RowInv'
<1>1. CASE ObtainFlush(r)
  BY <1>1 DEF TokenTypeOK, RowInv, ObtainFlush, Flush
<1>2. CASE RefreshFlush(r)
  BY <1>2 DEF TokenTypeOK, RowInv, RefreshFlush, Flush
<1>3. CASE LogoutFlush(r)
  BY <1>3 DEF TokenTypeOK, RowInv, LogoutFlush, Flush
<1>4. CASE PasswordStamp(r)
  BY <1>4 DEF TokenTypeOK, RowInv, PasswordStamp, RevokedByPassword, LiveRows
<1>5. CASE PasswordFlush(r)
  BY <1>5 DEF TokenTypeOK, RowInv, PasswordFlush
<1>6. CASE RefreshMint(r)
  BY <1>6 DEF TokenTypeOK, RowInv, RefreshMint
<1>7. QED
  BY <1>1, <1>2, <1>3, <1>4, <1>5, <1>6 DEF Write

LEMMA RowEnd ==
    ASSUME TokenTypeOK, RowInv, NEW r \in Requests, Commit(r) \/ FailCommit(r)
    PROVE  RowInv'
<1>1. CASE Commit(r)
  <2>1. \A t \in Requests : tokenRow[t] # "absent" => tokenRow'[t] # "absent"
    BY <1>1 DEF TokenTypeOK, Commit, RowsAfter
  <2>2. \A t \in Requests \ {r} : tokenRow'[t] # "absent" => tokenRow[t] # "absent"
    BY <1>1 DEF TokenTypeOK, RowInv, Commit, RowsAfter
  <2>3. tokenRow'[r] # "absent" => kind[r] \in {"obtain", "refresh"}
    BY <1>1 DEF TokenTypeOK, RowInv, Commit, RowsAfter
  <2>4. stage' = [stage EXCEPT ![r] = "done"] /\ UNCHANGED <<kind, using, revoking>>
    BY <1>1 DEF Commit
  <2>5. stage[r] = "flushed"
    BY <1>1 DEF Commit
  <2>6. QED
    BY <2>1, <2>2, <2>3, <2>4, <2>5 DEF TokenTypeOK, RowInv
<1>2. CASE FailCommit(r)
  BY <1>2 DEF TokenTypeOK, RowInv, FailCommit
<1>3. QED
  BY <1>1, <1>2

LEMMA OverlapRead ==
    ASSUME TokenTypeOK, OverlapInv, NEW r \in Requests, Read(r)
    PROVE  OverlapInv'
<1>1. \E k \in Kinds : Begin(r, k)
  BY DEF Read, ObtainRead, RefreshRead, LogoutRead, PasswordRead, Kinds
<1>2. \A q \in Requests \ {r} : stage'[q] = stage[q]
  BY <1>1 DEF TokenTypeOK, Begin
<1>3. \A q \in Requests \ {r} :
        InService(q) => <<r, q>> \in overlap' /\ <<q, r>> \in overlap'
  BY <1>1 DEF Begin
<1>4. overlap \subseteq overlap'
  BY <1>1 DEF Begin
<1>5. QED
  BY <1>2, <1>3, <1>4 DEF OverlapInv, InService

\* Nothing but a read puts a request in service.
LEMMA OverlapRest ==
    ASSUME TokenTypeOK, OverlapInv, NEW r \in Requests, Write(r) \/ Commit(r) \/ FailCommit(r)
    PROVE  OverlapInv'
<1>1. overlap' = overlap
  BY DEF Write, ObtainFlush, RefreshMint, RefreshFlush, LogoutFlush, PasswordStamp, PasswordFlush,
     Commit, FailCommit, history
<1>2. \A q \in Requests : InService(q)' => InService(q)
  BY DEF TokenTypeOK, InService, Write, ObtainFlush, RefreshMint, RefreshFlush, LogoutFlush,
     PasswordStamp, PasswordFlush, Flush, Commit, FailCommit
<1>3. QED
  BY <1>1, <1>2 DEF OverlapInv

\* A consumed token is revoked for good.
LEMMA ConsumedRead ==
    ASSUME TokenTypeOK, RowInv, ConsumedInv, ReuseNeedsOverlap, NEW r \in Requests, Read(r)
    PROVE  ConsumedInv' /\ ReuseNeedsOverlap'
<1>1. tokenRow' = tokenRow /\ revoking' = revoking /\ stage[r] = "idle"
  BY DEF Read, ObtainRead, RefreshRead, LogoutRead, PasswordRead, Begin
<1>2. /\ stage' = [stage EXCEPT ![r] = "read"]
      /\ overlap \subseteq overlap'
      /\ \A q \in Requests \ {r} : kind'[q] = kind[q] /\ using'[q] = using[q]
  BY DEF TokenTypeOK, Read, ObtainRead, RefreshRead, LogoutRead, PasswordRead, Begin
<1>3. kind'[r] \in {"refresh", "logout"} => tokenRow[using'[r]] = "live"
  BY DEF TokenTypeOK, Read, ObtainRead, RefreshRead, LogoutRead, PasswordRead, Begin, Usable
<1>4. ASSUME NEW q \in Requests, stage'[q] = "done"
      PROVE  q # r /\ stage[q] = "done" /\ Consumed(q)' = Consumed(q)
  BY <1>1, <1>2, <1>4 DEF TokenTypeOK, Consumed
<1>5. ConsumedInv'
  <2>1. SUFFICES ASSUME NEW q \in Requests, stage'[q] = "done", NEW t \in Consumed(q)'
                 PROVE  /\ tokenRow'[t] = "revoked"
                        /\ \A s \in Requests :
                             InService(s)' /\ kind'[s] \in {"refresh", "logout"}
                                           /\ using'[s] = t
                               => <<s, q>> \in overlap' /\ <<q, s>> \in overlap'
    BY DEF ConsumedInv
  <2>2. t \in Consumed(q) /\ stage[q] = "done"
    BY <2>1, <1>4
  <2>3. tokenRow[t] = "revoked"
    BY <2>2 DEF ConsumedInv
  <2>4. ASSUME NEW s \in Requests, InService(s)', kind'[s] \in {"refresh", "logout"},
               using'[s] = t
        PROVE  <<s, q>> \in overlap' /\ <<q, s>> \in overlap'
    <3>1. s # r
      BY <2>3, <2>4, <1>3
    <3>2. InService(s) /\ kind[s] \in {"refresh", "logout"} /\ using[s] = t
      BY <2>4, <3>1, <1>2 DEF TokenTypeOK, InService
    <3>3. QED
      BY <2>2, <3>2, <1>2 DEF ConsumedInv
  <2>5. QED
    BY <2>3, <2>4, <1>1
<1>6. ReuseNeedsOverlap'
  BY <1>2, <1>4 DEF ReuseNeedsOverlap
<1>7. QED
  BY <1>5, <1>6

LEMMA ConsumedWrite ==
    ASSUME TokenTypeOK, ConsumedInv, ReuseNeedsOverlap, NEW r \in Requests,
           Write(r) \/ FailCommit(r)
    PROVE  ConsumedInv' /\ ReuseNeedsOverlap'
<1>1. UNCHANGED <<tokenRow, kind, using, overlap>>
  BY DEF Write, ObtainFlush, RefreshMint, RefreshFlush, LogoutFlush, PasswordStamp, PasswordFlush,
     FailCommit, history
<1>2. \A q \in Requests : InService(q)' => InService(q)
  BY DEF TokenTypeOK, InService, Write, ObtainFlush, RefreshMint, RefreshFlush, LogoutFlush,
     PasswordStamp, PasswordFlush, Flush, FailCommit
<1>3. ASSUME NEW q \in Requests, stage'[q] = "done", NEW t \in Consumed(q)'
      PROVE  stage[q] = "done" /\ t \in Consumed(q)
  <2>1. CASE q # r
    BY <1>3, <2>1, <1>1 DEF TokenTypeOK, Consumed, Write, ObtainFlush, RefreshMint, RefreshFlush, LogoutFlush,
       PasswordStamp, PasswordFlush, Flush, FailCommit
  <2>2. CASE q = r
    BY <1>3, <2>2, <1>1 DEF TokenTypeOK, Consumed, Write, ObtainFlush, RefreshMint, RefreshFlush, LogoutFlush,
       PasswordStamp, PasswordFlush, Flush, FailCommit
  <2>3. QED
    BY <2>1, <2>2
<1>4. ConsumedInv'
  BY <1>1, <1>2, <1>3 DEF ConsumedInv
<1>5. ReuseNeedsOverlap'
  <2>1. SUFFICES ASSUME NEW q \in Requests, NEW s \in Requests, q # s,
                        stage'[q] = "done", stage'[s] = "done",
                        NEW t \in Consumed(q)', t \in Consumed(s)'
                 PROVE  <<q, s>> \in overlap'
    BY DEF ReuseNeedsOverlap
  <2>2. QED
    BY <2>1, <1>1, <1>3 DEF ReuseNeedsOverlap
<1>6. QED
  BY <1>4, <1>5

LEMMA ConsumedCommit ==
    ASSUME TokenTypeOK, RowInv, OverlapInv, ConsumedInv, ReuseNeedsOverlap,
           NEW r \in Requests, Commit(r)
    PROVE  ConsumedInv' /\ ReuseNeedsOverlap'
<1>1. UNCHANGED <<kind, using, overlap, revoking>> /\ stage[r] = "flushed"
      /\ stage' = [stage EXCEPT ![r] = "done"]
  BY DEF Commit
<1>2. \A q \in Requests : InService(q)' => InService(q) /\ q # r
  BY <1>1 DEF TokenTypeOK, InService
<1>3. \A q \in Requests : Consumed(q)' = Consumed(q)
  BY <1>1 DEF Consumed
<1>4. tokenRow[r] = "absent"
  BY <1>1 DEF RowInv
<1>5. \A t \in Requests : tokenRow[t] = "revoked" => tokenRow'[t] = "revoked"
  BY <1>4 DEF TokenTypeOK, Commit, RowsAfter
<1>6. \A t \in Consumed(r) : t \in Requests /\ t = using[r] /\ t # r
                             /\ kind[r] \in {"refresh", "logout"} /\ tokenRow'[t] = "revoked"
  BY DEF TokenTypeOK, RowInv, Consumed, Commit, RowsAfter
<1>7. \A q \in Requests : Consumed(q) \subseteq Requests
  BY DEF TokenTypeOK, Consumed
<1>8. InService(r)
  BY <1>1 DEF InService
<1>9. ConsumedInv'
  <2>1. SUFFICES ASSUME NEW q \in Requests, stage'[q] = "done", NEW t \in Consumed(q)
                 PROVE  /\ tokenRow'[t] = "revoked"
                        /\ \A s \in Requests :
                             InService(s)' /\ kind[s] \in {"refresh", "logout"}
                                           /\ using[s] = t
                               => <<s, q>> \in overlap /\ <<q, s>> \in overlap
    BY <1>1, <1>3 DEF ConsumedInv
  <2>2. CASE q = r
    BY <2>1, <2>2, <1>2, <1>6, <1>8 DEF OverlapInv
  <2>3. CASE q # r
    <3>1. stage[q] = "done"
      BY <2>1, <2>3, <1>1 DEF TokenTypeOK
    <3>2. QED
      BY <2>1, <3>1, <1>2, <1>5, <1>7 DEF ConsumedInv
  <2>4. QED
    BY <2>2, <2>3
<1>10. ASSUME NEW q \in Requests, q # r, stage[q] = "done",
              NEW t \in Consumed(q), t \in Consumed(r)
       PROVE  <<r, q>> \in overlap /\ <<q, r>> \in overlap
  BY <1>6, <1>8, <1>10 DEF ConsumedInv
<1>11. ReuseNeedsOverlap'
  <2>1. SUFFICES ASSUME NEW q \in Requests, NEW s \in Requests, q # s,
                        stage'[q] = "done", stage'[s] = "done",
                        NEW t \in Consumed(q), t \in Consumed(s)
                 PROVE  <<q, s>> \in overlap
    BY <1>1, <1>3 DEF ReuseNeedsOverlap
  <2>2. \A p \in Requests \ {r} : stage'[p] = "done" => stage[p] = "done"
    BY <1>1 DEF TokenTypeOK
  <2>3. QED
    BY <2>1, <2>2, <1>10 DEF ReuseNeedsOverlap
<1>12. QED
  BY <1>9, <1>11

-----------------------------------------------------------------------------
(***************************************************************************)
(* The theorems.                                                           *)
(***************************************************************************)

LEMMA TokenInvInit == TokenInit => TokenInv
<1>1. TokenInit => RowInv /\ OverlapInv /\ ConsumedInv /\ ReuseNeedsOverlap
  BY DEF TokenInit, RowInv, OverlapInv, ConsumedInv, ReuseNeedsOverlap, InService
<1>2. QED
  BY <1>1, TokenTypeInit DEF TokenInv

LEMMA TokenInvNext == TokenInv /\ [TokenNext]_tokenVars => TokenInv'
<1>1. SUFFICES ASSUME TokenInv, [TokenNext]_tokenVars
               PROVE  TokenInv'
  OBVIOUS
<1>2. ASSUME NEW r \in Requests, Read(r)
      PROVE  TokenInv'
  BY <1>1, <1>2, TypeRead, RowRead, OverlapRead, ConsumedRead DEF TokenInv
<1>3. ASSUME NEW r \in Requests, Write(r)
      PROVE  TokenInv'
  BY <1>1, <1>3, TypeWrite, RowWrite, OverlapRest, ConsumedWrite DEF TokenInv
<1>4. ASSUME NEW r \in Requests, Commit(r)
      PROVE  TokenInv'
  BY <1>1, <1>4, TypeCommit, RowEnd, OverlapRest, ConsumedCommit DEF TokenInv
<1>5. ASSUME NEW r \in Requests, FailCommit(r)
      PROVE  TokenInv'
  BY <1>1, <1>5, TypeRest, RowEnd, OverlapRest, ConsumedWrite DEF TokenInv
<1>6. CASE SetActive \/ Tick
  <2>1. UNCHANGED <<kind, stage, using, revoking, tokenRow, overlap>>
    BY <1>6 DEF SetActive, Tick, local, history
  <2>2. RowInv' /\ OverlapInv' /\ ConsumedInv' /\ ReuseNeedsOverlap'
    BY <1>1, <2>1 DEF TokenInv, RowInv, OverlapInv, ConsumedInv, ReuseNeedsOverlap,
       Consumed, InService
  <2>3. QED
    BY <1>1, <1>6, <2>2, TypeRest DEF TokenInv
<1>7. CASE UNCHANGED tokenVars
  <2>1. UNCHANGED <<kind, stage, using, revoking, tokenRow, overlap>>
    BY <1>7 DEF tokenVars, local, history
  <2>2. UNCHANGED <<now, password, changedAt, active, authority, ancestry, minted, changer>>
    BY <1>7 DEF tokenVars, account, local, history
  <2>3. RowInv' /\ OverlapInv' /\ ConsumedInv' /\ ReuseNeedsOverlap'
    BY <1>1, <2>1 DEF TokenInv, RowInv, OverlapInv, ConsumedInv, ReuseNeedsOverlap,
       Consumed, InService
  <2>4. TokenTypeOK'
    BY <1>1, <2>1, <2>2 DEF TokenInv, TokenTypeOK
  <2>5. QED
    BY <2>3, <2>4 DEF TokenInv
<1>8. QED
  BY <1>1, <1>2, <1>3, <1>4, <1>5, <1>6, <1>7 DEF TokenNext

\* The inductive invariant of the token tables.
THEOREM TokenInvariance == TokenSpec => []TokenInv
BY TokenInvInit, TokenInvNext, PTL DEF TokenSpec

\* Whatever the number of requests, a refresh token is consumed twice only
\* by requests that overlapped: one after the other, the second is refused.
THEOREM RotationHolds == TokenSpec => []ReuseNeedsOverlap
<1>1. TokenInv => ReuseNeedsOverlap
  BY DEF TokenInv
<1>2. QED
  BY <1>1, TokenInvariance, PTL

\* The exchange of a refresh token is one step: the new row and the
\* revocation of the old one are never committed apart.
THEOREM RotationAtomic == TokenSpec => RotationIsAtomic
<1>1. TokenInv /\ [TokenNext]_tokenVars =>
        [\A r \in Requests : kind[r] = "refresh" /\ tokenRow[r] = "absent" /\ (tokenRow[r])' = "live" =>
           (tokenRow[using[r]])' = "revoked"]_tokenVars
  <2>1. SUFFICES ASSUME TokenInv, [TokenNext]_tokenVars, NEW r \in Requests,
                        kind[r] = "refresh", tokenRow[r] = "absent", (tokenRow[r])' = "live"
                 PROVE  (tokenRow[using[r]])' = "revoked"
    OBVIOUS
  <2>2. PICK q \in Requests : Commit(q)
    BY <2>1 DEF TokenNext, Read, ObtainRead, RefreshRead, LogoutRead, PasswordRead, Write,
       ObtainFlush, RefreshMint, RefreshFlush, LogoutFlush, PasswordStamp, PasswordFlush, FailCommit,
       SetActive, Tick, tokenVars
  <2>3. q = r
    BY <2>1, <2>2 DEF TokenInv, TokenTypeOK, Commit, RowsAfter
  <2>4. using[r] \in revoking[r] /\ using[r] # r /\ using[r] \in Requests
    BY <2>1, <2>2, <2>3 DEF TokenInv, RowInv, Commit
  <2>5. QED
    BY <2>1, <2>2, <2>3, <2>4 DEF Commit, RowsAfter
<1>2. QED
  BY <1>1, TokenInvariance, PTL DEF TokenSpec, RotationIsAtomic

\* The password check compares a whole second with an exact time and errs
\* only towards refusal, and only within one second.
THEOREM CheckExact == TokenSpec => []CheckExactToTheSecond
<1>1. \A m \in Nat : /\ (m \div TicksPerSecond) * TicksPerSecond <= m
                     /\ m \div TicksPerSecond \in Nat
                     /\ m < (m \div TicksPerSecond) * TicksPerSecond + TicksPerSecond
  BY TimeAssumption
<1>2. TokenTypeOK => CheckExactToTheSecond
  <2>1. SUFFICES ASSUME TokenTypeOK, NEW r \in Requests, password > 0
                 PROVE  /\ minted[r] < changedAt => ~Accepted(r)
                        /\ minted[r] \div TicksPerSecond > changedAt \div TicksPerSecond =>
                             ~PredatesChange(Iat(r))
    BY DEF CheckExactToTheSecond
  <2>2. minted[r] \in Nat /\ changedAt \in Nat
    BY <2>1 DEF TokenTypeOK
  <2>3. minted[r] < changedAt => PredatesChange(Iat(r))
    BY <2>1, <2>2, <1>1, TimeAssumption DEF PredatesChange, Iat
  <2>4. \A a, b \in Nat : a > b => a * TicksPerSecond >= b * TicksPerSecond + TicksPerSecond
    BY TimeAssumption
  <2>5. minted[r] \div TicksPerSecond > changedAt \div TicksPerSecond =>
          ~PredatesChange(Iat(r))
    BY <2>1, <2>2, <2>4, <1>1, TimeAssumption DEF PredatesChange, Iat
  <2>6. QED
    BY <2>3, <2>5 DEF Accepted, Decoded
<1>3. TokenInv => TokenTypeOK
  BY DEF TokenInv
<1>4. QED
  BY <1>2, <1>3, TokenInvariance, PTL

-----------------------------------------------------------------------------
(***************************************************************************)
(* What a password change does to the tokens made before it.  Whoever      *)
(* still holds a usable token of an older password is followed from the    *)
(* moment it read the old one: it was in service when the change was       *)
(* stamped or committed, or its chain goes back to one that was.           *)
(***************************************************************************)

\* A request acts on a version that was committed, and is its own ancestor.
AuthorityInv ==
    \A r \in Requests :
        /\ authority[r] <= password
        /\ kind[r] \in {"obtain", "refresh"} => r \in ancestry[r]

Stamped(p) == kind[p] = "password" /\ stage[p] \in {"stamped", "flushed"}

\* A password change under way revokes every live row but those whose
\* request it overlapped.
StampInv ==
    \A p, r \in Requests :
        Stamped(p) /\ tokenRow[r] = "live" => r \in revoking[p] \/ <<r, p>> \in overlap

\* Nobody mints ahead of the clock, and whoever minted after a change under
\* way was stamped overlapped it.
ClockInv ==
    \A r \in Requests :
        /\ minted[r] <= now
        /\ \A p \in Requests \ {r} :
             Stamped(p) /\ minted[r] > minted[p] => <<r, p>> \in overlap

\* What is left to a holder of tokens: the request itself, its refresh
\* token, or an access token the check lets through.
Surviving(r) ==
    \/ InService(r)
    \/ tokenRow[r] = "live"
    \/ stage[r] = "done" /\ minted[r] > changedAt

\* Whoever survives a password change overlapped one.
HeldInv ==
    \A r \in Requests :
        kind[r] \in {"obtain", "refresh"} /\ authority[r] < password /\ Surviving(r)
            => OverlapsChange(r)

PInv == AuthorityInv /\ StampInv /\ ClockInv /\ HeldInv

\* What every step does to a request: its kind, authority and ancestry are
\* settled when it begins, and nothing on record is taken back.
LEMMA StepKeeps ==
    ASSUME TokenInv, [TokenNext]_tokenVars, NEW r \in Requests, stage[r] # "idle"
    PROVE  /\ kind'[r] = kind[r] /\ authority'[r] = authority[r] /\ ancestry'[r] = ancestry[r]
           /\ stage'[r] # "idle"
           /\ InService(r)' => InService(r)
           /\ overlap \subseteq overlap'
<1> USE DEF TokenInv, TokenTypeOK, InService
<1>1. ASSUME NEW q \in Requests, Read(q)
      PROVE  /\ kind'[r] = kind[r] /\ authority'[r] = authority[r] /\ ancestry'[r] = ancestry[r]
             /\ stage'[r] # "idle"
             /\ InService(r)' => InService(r)
             /\ overlap \subseteq overlap'
  BY <1>1 DEF Read, ObtainRead, RefreshRead, LogoutRead, PasswordRead, Begin
<1>2. ASSUME NEW q \in Requests, Write(q) \/ FailCommit(q) \/ Commit(q)
      PROVE  /\ UNCHANGED <<kind, authority, ancestry, overlap>>
             /\ InService(q)
             /\ \E s \in {"stamped", "flushed", "done"} : stage' = [stage EXCEPT ![q] = s]
  BY <1>2 DEF Write, ObtainFlush, RefreshMint, RefreshFlush, LogoutFlush, PasswordStamp,
              PasswordFlush, Flush, FailCommit, Commit, history
<1>3. CASE SetActive \/ Tick \/ UNCHANGED tokenVars
  BY <1>3 DEF SetActive, Tick, tokenVars, local, history
<1> QED
  BY <1>1, <1>2, <1>3 DEF TokenNext

\* Versions are added, never rewritten.
LEMMA VersionsGrow ==
    ASSUME TokenInv, [TokenNext]_tokenVars
    PROVE  /\ password \in Nat /\ password' \in Nat /\ password <= password'
           /\ \A v \in 1 .. password : changer'[v] = changer[v]
<1>0. password \in Nat
  BY DEF TokenInv, TokenTypeOK
<1>1. ASSUME NEW q \in Requests, Commit(q), kind[q] = "password"
      PROVE  /\ password' = password + 1
             /\ \A v \in 1 .. password : changer'[v] = changer[v]
  BY <1>0, <1>1 DEF Commit
<1>2. ASSUME ~ \E q \in Requests : Commit(q) /\ kind[q] = "password"
      PROVE  UNCHANGED <<password, changer>>
  BY <1>2 DEF TokenNext, Read, ObtainRead, RefreshRead, LogoutRead, PasswordRead, Write, ObtainFlush,
              RefreshMint, RefreshFlush, LogoutFlush, PasswordStamp, PasswordFlush, FailCommit,
              Commit, SetActive, Tick, tokenVars, account, local, history
<1> QED
  BY <1>0, <1>1, <1>2

\* Once on record, an overlap with a change stays there.
LEMMA OverlapStays ==
    ASSUME TokenInv, [TokenNext]_tokenVars, NEW r \in Requests, stage[r] # "idle", OverlapsChange(r)
    PROVE  OverlapsChange(r)'
<1>1. PICK q \in ancestry[r], v \in authority[r] + 1 .. password : <<q, changer[v]>> \in overlap
  BY DEF OverlapsChange
<1>2. authority[r] \in Nat
  BY DEF TokenInv, TokenTypeOK
<1>3. v \in 1 .. password /\ v \in authority[r] + 1 .. password'
  BY <1>1, <1>2, VersionsGrow
<1>4. q \in ancestry'[r] /\ v \in authority'[r] + 1 .. password' /\ changer'[v] = changer[v]
      /\ overlap \subseteq overlap'
  BY <1>1, <1>3, StepKeeps, VersionsGrow
<1> QED
  BY <1>1, <1>4 DEF OverlapsChange

\* Whoever commits a new version was stamped, and wrote its own time.
LEMMA PasswordCommit ==
    ASSUME TokenInv, PInv, NEW p \in Requests, Commit(p), kind[p] = "password"
    PROVE  /\ Stamped(p) /\ InService(p)
           /\ password' = password + 1 /\ changedAt' = minted[p]
           /\ changer'[password + 1] = p
           /\ \A r \in Requests : tokenRow'[r] = "live" => tokenRow[r] = "live" /\ r \notin revoking[p]
           /\ UNCHANGED <<kind, authority, ancestry, minted, overlap>>
           /\ \A r \in Requests \ {p} : stage'[r] = stage[r]
<1>1. password + 1 \in 1 .. password + 1
  BY DEF TokenInv, TokenTypeOK
<1>2. \A r \in Requests : tokenRow'[r] = "live" => tokenRow[r] = "live" /\ r \notin revoking[p]
  BY DEF Commit, RowsAfter
<1> QED
  BY <1>1, <1>2 DEF Commit, Stamped, InService, TokenInv, TokenTypeOK

\* A new version finds every survivor in service with its change, by the
\* rows it revoked, by the clock, or because it still is.
LEMMA HeldPasswordCommit ==
    ASSUME TokenInv, PInv, [TokenNext]_tokenVars, NEW p \in Requests, Commit(p), kind[p] = "password"
    PROVE  HeldInv'
<1>1. SUFFICES ASSUME NEW r \in Requests, kind[r] \in {"obtain", "refresh"}, Surviving(r)'
               PROVE  OverlapsChange(r)'
  BY PasswordCommit DEF HeldInv
<1>2. r # p /\ r \in ancestry[r] /\ authority[r] <= password /\ authority[r] \in Nat
      /\ password \in Nat
  BY <1>1 DEF PInv, AuthorityInv, TokenInv, TokenTypeOK
<1>3. password + 1 \in authority'[r] + 1 .. password' /\ r \in ancestry'[r]
  BY <1>2, PasswordCommit
<1>4. SUFFICES <<r, p>> \in overlap
  BY <1>3, PasswordCommit DEF OverlapsChange
<1>5. CASE InService(r)'
  BY <1>2, <1>5, PasswordCommit DEF InService, TokenInv, OverlapInv
<1>6. CASE tokenRow'[r] = "live"
  BY <1>6, PasswordCommit DEF PInv, StampInv
<1>7. CASE stage'[r] = "done" /\ minted'[r] > changedAt'
  BY <1>2, <1>7, PasswordCommit DEF PInv, ClockInv
<1> QED
  BY <1>1, <1>5, <1>6, <1>7 DEF Surviving

\* Without a new version nobody's authority grows old, and a survivor was
\* one before: a row comes only from a request in service.
LEMMA HeldRest ==
    ASSUME TokenInv, PInv, [TokenNext]_tokenVars, ~ \E q \in Requests : Read(q), password' = password,
           changedAt' = changedAt
    PROVE  HeldInv'
<1>1. SUFFICES ASSUME NEW r \in Requests, kind'[r] \in {"obtain", "refresh"},
                      authority'[r] < password, Surviving(r)'
               PROVE  OverlapsChange(r)'
  BY DEF HeldInv
<1>2. UNCHANGED <<kind, authority>>
  BY DEF TokenNext, Write, ObtainFlush, RefreshMint, RefreshFlush, LogoutFlush, PasswordStamp,
         PasswordFlush, FailCommit, Commit, SetActive, Tick, tokenVars, local
<1>3. stage[r] # "idle"
  BY <1>1, <1>2 DEF TokenInv, RowInv
<1>4. Surviving(r)
  <2>1. CASE InService(r)'
    BY <2>1, <1>3, StepKeeps DEF Surviving
  <2>2. CASE tokenRow'[r] = "live" /\ tokenRow[r] # "live"
    <3>1. PICK q \in Requests : Commit(q)
      BY <2>2 DEF TokenNext, Write, ObtainFlush, RefreshMint, RefreshFlush, LogoutFlush,
              PasswordStamp, PasswordFlush, FailCommit, SetActive, Tick, tokenVars
    <3>2. q = r
      BY <2>2, <3>1 DEF Commit, RowsAfter
    <3> QED
      BY <3>1, <3>2 DEF Commit, Surviving, InService
  <2>3. CASE stage'[r] = "done" /\ minted'[r] > changedAt'
    <3>1. stage[r] = "done" => minted'[r] = minted[r]
      BY DEF TokenNext, Write, ObtainFlush, RefreshMint, RefreshFlush, LogoutFlush, Flush,
             PasswordStamp, PasswordFlush, FailCommit, Commit, SetActive, Tick, tokenVars, local,
             TokenInv, TokenTypeOK
    <3>2. InService(r) \/ stage[r] = "done"
      BY <1>3 DEF InService, TokenInv, TokenTypeOK, Stages
    <3> QED
      BY <2>3, <3>1, <3>2 DEF Surviving
  <2> QED
    BY <1>1, <2>1, <2>2, <2>3 DEF Surviving
<1>5. OverlapsChange(r)
  BY <1>1, <1>2, <1>4 DEF PInv, HeldInv
<1> QED
  BY <1>3, <1>5, OverlapStays

\* A read takes the password of now, or the standing of the token it shows.
LEMMA HeldRead ==
    ASSUME TokenInv, PInv, [TokenNext]_tokenVars, NEW q \in Requests, Read(q)
    PROVE  HeldInv'
<1>1. SUFFICES ASSUME NEW r \in Requests, kind'[r] \in {"obtain", "refresh"},
                      authority'[r] < password', Surviving(r)'
               PROVE  OverlapsChange(r)'
  BY DEF HeldInv
<1>2. UNCHANGED <<password, changedAt, changer, tokenRow, minted>> /\ stage[q] = "idle"
      /\ stage' = [stage EXCEPT ![q] = "read"] /\ overlap \subseteq overlap'
  BY DEF Read, ObtainRead, RefreshRead, LogoutRead, PasswordRead, Begin, account
<1>3. CASE r # q
  <2>1. kind'[r] = kind[r] /\ authority'[r] = authority[r] /\ stage'[r] = stage[r]
    BY <1>2, <1>3 DEF Read, ObtainRead, RefreshRead, LogoutRead, PasswordRead, Begin, TokenInv, TokenTypeOK
  <2>2. stage[r] # "idle" /\ Surviving(r)
    BY <1>1, <1>2, <2>1 DEF Surviving, InService, TokenInv, RowInv
  <2> QED
    BY <1>1, <1>2, <2>1, <2>2, OverlapStays DEF PInv, HeldInv
<1>4. CASE r = q
  <2>1. kind'[q] \in {"obtain", "refresh"} => ~LogoutRead(q) /\ ~PasswordRead(q)
    BY DEF LogoutRead, PasswordRead, Begin, TokenInv, TokenTypeOK
  <2>2. CASE ObtainRead(q)
    <3>1. authority'[q] = password
      BY <2>2 DEF ObtainRead, TokenInv, TokenTypeOK
    <3> QED
      BY <1>1, <1>2, <1>4, <3>1 DEF TokenInv, TokenTypeOK
  <2>3. CASE RefreshRead(q)
    <3>1. PICK t \in Requests : /\ tokenRow[t] = "live"
                                /\ authority' = [authority EXCEPT ![q] = authority[t]]
                                /\ ancestry' = [ancestry EXCEPT ![q] = ancestry[t] \cup {q}]
      BY <2>3 DEF RefreshRead, Usable
    <3>2. kind[t] \in {"obtain", "refresh"} /\ stage[t] # "idle" /\ Surviving(t)
          /\ authority[t] < password
      BY <1>1, <1>2, <1>4, <3>1 DEF Surviving, TokenInv, RowInv, TokenTypeOK
    <3>3. OverlapsChange(t)
      BY <3>2 DEF PInv, HeldInv
    <3>4. authority'[q] = authority[t] /\ ancestry[t] \subseteq ancestry'[q]
      BY <3>1 DEF TokenInv, TokenTypeOK
    <3> QED
      BY <1>2, <1>4, <3>3, <3>4 DEF OverlapsChange
  <2> QED
    BY <1>1, <1>4, <2>1, <2>2, <2>3 DEF Read
<1> QED
  BY <1>3, <1>4

LEMMA AuthorityStep == TokenInv /\ PInv /\ [TokenNext]_tokenVars => AuthorityInv'
<1> SUFFICES ASSUME TokenInv, PInv, [TokenNext]_tokenVars, NEW r \in Requests
             PROVE  /\ authority'[r] <= password'
                    /\ kind'[r] \in {"obtain", "refresh"} => r \in ancestry'[r]
  BY DEF AuthorityInv
<1>1. password \in Nat /\ password' \in Nat /\ password <= password'
  BY VersionsGrow
<1>2. \A t \in Requests : authority[t] \in Nat /\ authority[t] <= password
  BY DEF PInv, AuthorityInv, TokenInv, TokenTypeOK
<1>3. CASE stage[r] # "idle"
  BY <1>1, <1>2, <1>3, StepKeeps DEF PInv, AuthorityInv
<1>4. CASE stage[r] = "idle" /\ ~Read(r)
  <2>1. CASE \E q \in Requests : Read(q)
    <3>1. PICK q \in Requests \ {r} : Read(q)
      BY <1>4, <2>1
    <3>2. kind'[r] = kind[r] /\ authority'[r] = authority[r] /\ ancestry'[r] = ancestry[r]
      BY <3>1 DEF Read, ObtainRead, RefreshRead, LogoutRead, PasswordRead, Begin, TokenInv, TokenTypeOK
    <3> QED
      BY <1>1, <1>2, <3>2 DEF PInv, AuthorityInv
  <2>2. CASE ~ \E q \in Requests : Read(q)
    <3>1. UNCHANGED <<kind, authority, ancestry>>
      BY <2>2 DEF TokenNext, Write, ObtainFlush, RefreshMint, RefreshFlush, LogoutFlush,
              PasswordStamp, PasswordFlush, FailCommit, Commit, SetActive, Tick, tokenVars, local
    <3> QED
      BY <1>1, <1>2, <3>1 DEF PInv, AuthorityInv
  <2> QED
    BY <2>1, <2>2
<1>5. CASE Read(r)
  <2>1. authority'[r] = password \/ \E t \in Requests : authority'[r] = authority[t]
    BY <1>5 DEF Read, ObtainRead, RefreshRead, LogoutRead, PasswordRead, TokenInv, TokenTypeOK
  <2>2. kind'[r] \in {"obtain", "refresh"} => r \in ancestry'[r]
    BY <1>5 DEF Read, ObtainRead, RefreshRead, LogoutRead, PasswordRead, Begin, TokenInv, TokenTypeOK
  <2> QED
    BY <1>1, <1>2, <2>1, <2>2
<1> QED
  BY <1>3, <1>4, <1>5

\* A row that appears after the stamp comes from a request in service with
\* the change; the flush drops from its list only rows that are gone.
LEMMA StampStep == TokenInv /\ PInv /\ [TokenNext]_tokenVars => StampInv'
<1> SUFFICES ASSUME TokenInv, PInv, [TokenNext]_tokenVars, NEW p \in Requests, NEW r \in Requests,
                    Stamped(p)', tokenRow'[r] = "live"
             PROVE  r \in revoking'[p] \/ <<r, p>> \in overlap'
  BY DEF StampInv
<1> USE DEF Stamped
<1>1. CASE \E q \in Requests : Read(q)
  <2>1. PICK q \in Requests : Read(q)
    BY <1>1
  <2>2. /\ tokenRow' = tokenRow /\ revoking' = revoking /\ overlap \subseteq overlap'
        /\ stage' = [stage EXCEPT ![q] = "read"]
        /\ \A s \in Requests \ {q} : kind'[s] = kind[s]
    BY <2>1 DEF Read, ObtainRead, RefreshRead, LogoutRead, PasswordRead, Begin, TokenInv, TokenTypeOK
  <2>3. Stamped(p)
    BY <2>2 DEF TokenInv, TokenTypeOK
  <2> QED
    BY <2>2, <2>3 DEF PInv, StampInv
<1>2. CASE \E q \in Requests : ObtainFlush(q) \/ RefreshMint(q) \/ RefreshFlush(q)
                               \/ LogoutFlush(q) \/ FailCommit(q)
  <2>1. PICK q \in Requests : ObtainFlush(q) \/ RefreshMint(q) \/ RefreshFlush(q)
                              \/ LogoutFlush(q) \/ FailCommit(q)
    BY <1>2
  <2>2. UNCHANGED <<tokenRow, kind, overlap>> /\ p # q
        /\ stage'[p] = stage[p] /\ revoking'[p] = revoking[p]
    BY <2>1 DEF ObtainFlush, RefreshMint, RefreshFlush, LogoutFlush, Flush, FailCommit,
                history, TokenInv, TokenTypeOK
  <2> QED
    BY <2>2 DEF PInv, StampInv
<1>3. CASE \E q \in Requests : PasswordStamp(q)
  <2>1. PICK q \in Requests : PasswordStamp(q)
    BY <1>3
  <2>2. CASE q = p
    BY <2>1, <2>2 DEF PasswordStamp, RevokedByPassword, LiveRows, TokenInv, TokenTypeOK
  <2>3. CASE q # p
    BY <2>1, <2>3 DEF PasswordStamp, history, TokenInv, TokenTypeOK, PInv, StampInv
  <2> QED
    BY <2>2, <2>3
<1>4. CASE \E q \in Requests : PasswordFlush(q)
  BY <1>4 DEF PasswordFlush, LiveRows, history, TokenInv, TokenTypeOK, PInv, StampInv
<1>5. CASE \E q \in Requests : Commit(q)
  <2>1. PICK q \in Requests : Commit(q)
    BY <1>5
  <2>2. /\ UNCHANGED <<kind, revoking, overlap>>
        /\ stage' = [stage EXCEPT ![q] = "done"] /\ stage[q] = "flushed"
    BY <2>1 DEF Commit
  <2>3. Stamped(p) /\ InService(p)
    BY <2>2 DEF InService, TokenInv, TokenTypeOK
  <2>4. tokenRow[r] = "live" \/ (r = q /\ kind[r] \in {"obtain", "refresh"} /\ InService(r))
    BY <2>1, <2>2 DEF Commit, RowsAfter, InService
  <2>5. CASE tokenRow[r] = "live"
    BY <2>2, <2>3, <2>5 DEF PInv, StampInv
  <2>6. CASE r = q /\ kind[r] \in {"obtain", "refresh"} /\ InService(r)
    BY <2>2, <2>3, <2>6 DEF TokenInv, OverlapInv
  <2> QED
    BY <2>4, <2>5, <2>6
<1>6. CASE SetActive \/ Tick \/ UNCHANGED tokenVars
  BY <1>6 DEF SetActive, Tick, tokenVars, local, history, PInv, StampInv
<1> QED
  BY <1>1, <1>2, <1>3, <1>4, <1>5, <1>6 DEF TokenNext, Write

\* A tick leaves everything minted in the past; a mint at the clock's time
\* is made in service with the change that was stamped before.
LEMMA ClockStep == TokenInv /\ PInv /\ [TokenNext]_tokenVars => ClockInv'
<1> SUFFICES ASSUME TokenInv, PInv, [TokenNext]_tokenVars, NEW r \in Requests
             PROVE  /\ minted'[r] <= now'
                    /\ \A p \in Requests \ {r} :
                         Stamped(p)' /\ minted'[r] > minted'[p] => <<r, p>> \in overlap'
  BY DEF ClockInv
<1>0. now \in Nat /\ \A q \in Requests : minted[q] \in Nat /\ minted[q] <= now
  BY TimeAssumption DEF TokenInv, TokenTypeOK, PInv, ClockInv
<1>1. CASE \E q \in Requests : minted' = [minted EXCEPT ![q] = now] /\ InService(q)
                               /\ now' = now /\ kind' = kind /\ overlap' = overlap
                               /\ \A s \in Requests \ {q} : stage'[s] = stage[s]
  <2>1. PICK q \in Requests : minted' = [minted EXCEPT ![q] = now] /\ InService(q)
                              /\ now' = now /\ kind' = kind /\ overlap' = overlap
                              /\ \A s \in Requests \ {q} : stage'[s] = stage[s]
    BY <1>1
  <2>2. \A s \in Requests : minted'[s] = IF s = q THEN now ELSE minted[s]
    BY <2>1 DEF TokenInv, TokenTypeOK
  <2>3. ASSUME NEW p \in Requests \ {r}, Stamped(p)', minted'[r] > minted'[p]
        PROVE  <<r, p>> \in overlap
    <3>1. p # q
      BY <1>0, <2>2, <2>3
    <3>2. Stamped(p) /\ InService(p)
      BY <2>1, <2>3, <3>1 DEF Stamped, InService
    <3>3. CASE r = q
      BY <2>1, <2>3, <3>2, <3>3 DEF TokenInv, OverlapInv
    <3>4. CASE r # q
      BY <2>2, <2>3, <3>1, <3>2, <3>4 DEF PInv, ClockInv
    <3> QED
      BY <3>3, <3>4
  <2> QED
    BY <1>0, <2>1, <2>2, <2>3
<1>2. CASE minted' = minted /\ now' \in {now, now + 1} /\ overlap \subseteq overlap'
           /\ \A p \in Requests : Stamped(p)' => Stamped(p)
  BY <1>0, <1>2 DEF PInv, ClockInv
<1>3. ASSUME NEW q \in Requests, ObtainFlush(q) \/ RefreshMint(q) \/ LogoutFlush(q)
                                 \/ PasswordStamp(q)
      PROVE  minted' = [minted EXCEPT ![q] = now] /\ InService(q)
             /\ now' = now /\ kind' = kind /\ overlap' = overlap
             /\ \A s \in Requests \ {q} : stage'[s] = stage[s]
  BY <1>3 DEF ObtainFlush, RefreshMint, LogoutFlush, PasswordStamp, Flush, InService, history,
              TokenInv, TokenTypeOK
<1>4. ASSUME NEW q \in Requests, Read(q)
      PROVE  minted' = minted /\ now' = now /\ overlap \subseteq overlap'
             /\ \A p \in Requests : Stamped(p)' => Stamped(p)
  BY <1>4 DEF Read, ObtainRead, RefreshRead, LogoutRead, PasswordRead, Begin, Stamped,
              TokenInv, TokenTypeOK
<1>5. ASSUME NEW q \in Requests,
             RefreshFlush(q) \/ PasswordFlush(q) \/ Commit(q) \/ FailCommit(q)
      PROVE  minted' = minted /\ now' = now /\ overlap' = overlap
             /\ \A p \in Requests : Stamped(p)' => Stamped(p)
  BY <1>5 DEF RefreshFlush, PasswordFlush, Commit, FailCommit, Stamped, history, TokenInv, TokenTypeOK
<1>6. ASSUME SetActive \/ Tick \/ UNCHANGED tokenVars
      PROVE  minted' = minted /\ now' \in {now, now + 1} /\ overlap' = overlap
             /\ \A p \in Requests : Stamped(p)' => Stamped(p)
  BY <1>6 DEF SetActive, Tick, Stamped, tokenVars, local, history
<1> QED
  BY <1>1, <1>2, <1>3, <1>4, <1>5, <1>6 DEF TokenNext, Write

LEMMA PasswordNext == TokenInv /\ PInv /\ [TokenNext]_tokenVars => PInv'
<1>1. SUFFICES ASSUME TokenInv, PInv, [TokenNext]_tokenVars PROVE HeldInv'
  BY AuthorityStep, StampStep, ClockStep DEF PInv
<1>2. CASE \E q \in Requests : Read(q)
  BY <1>1, <1>2, HeldRead
<1>3. CASE \E q \in Requests : Commit(q) /\ kind[q] = "password"
  BY <1>1, <1>3, HeldPasswordCommit
<1>4. CASE ~ \E q \in Requests : Read(q) \/ (Commit(q) /\ kind[q] = "password")
  <2>1. password' = password /\ changedAt' = changedAt
    BY <1>1, <1>4 DEF TokenNext, Write, ObtainFlush, RefreshMint, RefreshFlush, LogoutFlush,
         PasswordStamp, PasswordFlush, FailCommit, Commit, SetActive, Tick, tokenVars, account
  <2> QED
    BY <1>1, <1>4, <2>1, HeldRest
<1> QED
  BY <1>2, <1>3, <1>4

\* After a password change an older access token is refused, to the second,
\* and a chain of tokens from before it survives only through a request that
\* was under way with the change (views/profile.py revokes the rows it sees;
\* api/auth.py compares iat with password_changed_at).
THEOREM PasswordChange == TokenSpec => []PasswordChangeBites
<1>1. TokenInit => PInv
  BY DEF TokenInit, PInv, AuthorityInv, StampInv, ClockInv, HeldInv, Stamped
<1>2. TokenInv /\ PInv /\ [TokenNext]_tokenVars => PInv'
  BY PasswordNext
<1>3. TokenInv /\ PInv /\ CheckExactToTheSecond => PasswordChangeBites
  <2>1. SUFFICES ASSUME TokenInv, PInv, CheckExactToTheSecond, NEW r \in Requests,
                        authority[r] < password, tokenRow[r] = "live" \/ Accepted(r),
                        ~(tokenRow[r] # "live" /\ minted[r] = changedAt)
                 PROVE  OverlapsChange(r)
    BY DEF PasswordChangeBites, OldPasswordNeedsOverlap
  <2>2. kind[r] \in {"obtain", "refresh"}
    BY <2>1 DEF TokenInv, RowInv, Accepted, Decoded, HasTokens
  <2>3. Surviving(r)
    <3>1. CASE tokenRow[r] = "live"
      BY <3>1 DEF Surviving
    <3>2. CASE Accepted(r) /\ tokenRow[r] # "live"
      <4>1. stage[r] \in {"flushed", "done"} /\ HasTokens(r)
        BY <3>2 DEF Accepted, Decoded, HasTokens
      <4>2. authority[r] \in Nat /\ password \in Nat /\ minted[r] \in Nat /\ changedAt \in Nat
        BY <2>1 DEF TokenInv, TokenTypeOK
      <4>3. minted[r] > changedAt
        BY <2>1, <3>2, <4>1, <4>2 DEF CheckExactToTheSecond
      <4> QED
        BY <4>1, <4>3 DEF Surviving, InService
    <3> QED
      BY <2>1, <3>1, <3>2
  <2> QED
    BY <2>1, <2>2, <2>3 DEF PInv, HeldInv
<1> QED
  BY <1>1, <1>2, <1>3, TokenInvariance, CheckExact, PTL DEF TokenSpec

-----------------------------------------------------------------------------
(***************************************************************************)
(* The AI chat.                                                            *)
(***************************************************************************)

\* In the middle of a chat or a stream.
Busy == {"run", "repair", "usage", "save", "precommit", "persist", "touch", "own commit"}

\* Which phases a request goes through.
PhaseInv(t) ==
  /\ mode[t] = "chat" => at[t] \in {"load", "run", "repair", "usage", "save", "close", "done"}
  /\ mode[t] = "stream" => at[t] \in (Busy \ {"save"}) \cup {"load", "close", "done"}
  /\ mode[t] = "tool" => at[t] \in {"tool", "usage", "close", "done"}
  /\ mode[t] = "delete" => at[t] \in {"load", "delete", "close", "done"}
  /\ mode[t] = "stream" /\ at[t] \in {"repair", "usage"} => degraded[t]
  /\ at[t] = "save" => health[t] = "clean" /\ tx[t].usage = 1
  /\ at[t] = "load" => missed[t] = {}

\* The usage row is written once: in the request's transaction, or with the
\* conversation.
BillInv(t) ==
  /\ tx[t].usage = 1 => /\ usageRows[t] = 0 /\ at[t] \in {"save", "close", "precommit"}
                        /\ mode[t] = "stream" => degraded[t]
  /\ usageRows[t] # 0 =>
       /\ usageRows[t] = 1
       /\ at[t] \in {"persist", "touch", "own commit", "close", "done"}
       /\ mode[t] = "stream" /\ ~degraded[t] => at[t] \in {"close", "done"}
       /\ mode[t] # "stream" => at[t] = "done"
  /\ t \in messages =>
       \/ mode[t] = "stream" /\ at[t] \in {"close", "done"} /\ (~degraded[t] => usageRows[t] = 1)
       \/ mode[t] = "chat" /\ at[t] = "done" /\ usageRows[t] = 1
  /\ tx[t].saved = "here" => mode[t] = "chat" /\ at[t] = "close" /\ tx[t].usage = 1
  /\ mode[t] = "chat" /\ at[t] # "done" => t \notin records
  /\ mode[t] = "chat" /\ answer[t] = "error" =>
       /\ at[t] \in {"close", "done"}
       /\ at[t] = "close" => tx[t] = Nothing
       /\ at[t] = "done" => t \notin messages \cup records /\ usageRows[t] = 0

\* Who writes to the conversation holds the lock, with a session in order.
LockInv(t) ==
  /\ writer = <<"req", t>> => health[t] = "clean" /\ at[t] \notin {"persist", "touch", "own commit"}
  /\ health[t] # "clean" => tx[t] = Nothing
  /\ tx[t].saved = "here" => writer = <<"req", t>>
  /\ at[t] = "own commit" => writer = <<"own", t>>

\* A stored turn is forgotten through a later one.
Explained(u) == \E v \in Saved : Later(u, v) /\ (mode[v] = "stream" \/ u \in missed[v])
Deletes(set) == \E d \in set : mode[d] = "delete"
\* A stored turn was in flight during a deletion.
Haunted == \E v \in Saved : Deletes(missed[v])

Reading(t) == mode[t] \in {"chat", "stream"} /\ (at[t] \in Busy \/ tx[t].saved = "here")

\* What a turn in flight has read is what the conversation was before that of
\* which it has missed.
SightInv(t) ==
  /\ t \in Saved => at[t] \in {"close", "done"} /\ tx[t].saved # "here"
  /\ Reading(t) =>
       /\ missed[t] = {} => conv = seen[t]
       /\ \A u \in Saved : result[u] # "none" =>
            u \in seen[t].history \/ u \in missed[t] \/ Explained(u)
       /\ \A u \in seen[t].history : u \in Saved \/ Haunted \/ Deletes(missed[t])

\* And so is the row that it is going to commit, with the turn itself added.
Fits(t, row) ==
  /\ row.exists
  /\ missed[t] = {} => row.turns = conv.turns + 1
  /\ result[t] # "none" => t \in row.history
  /\ mode[t] = "chat" => \A u \in Saved : result[u] # "none" =>
                           u \in row.history \/ u \in missed[t] \/ Explained(u)
  /\ \A u \in row.history : u = t \/ u \in Saved \/ Haunted \/ Deletes(missed[t])

DraftInv(t) ==
  /\ tx[t].saved = "here" => Fits(t, tx[t].row)
  /\ at[t] = "own commit" => mode[t] = "stream" /\ Fits(t, own[t])

\* The committed conversation.
StoreInv ==
  /\ ~conv.exists => conv = NoRow /\ log = <<>>
  /\ ForgottenTurnsExplained /\ TurnsCounted
  /\ \A u \in conv.history : u \in Saved \/ Haunted
  /\ messages # {} /\ ~conv.exists =>
       \E d \in Turns : mode[d] = "delete" /\ at[d] \in {"close", "done"}
                         /\ messages \cap found[d] = {}

TurnInv(t) == PhaseInv(t) /\ BillInv(t) /\ LockInv(t) /\ SightInv(t) /\ DraftInv(t)
IInv == TypeOK /\ StoreInv /\ \A t \in Turns : TurnInv(t)

-----------------------------------------------------------------------------
(* Types                                                                   *)

TxType == [wrote : BOOLEAN, usage : 0..1, saved : {"no", "here", "elsewhere"}, row : Rows]
Locks == {Nobody} \cup ({"req", "own"} \X Turns)

LEMMA NothingType == NoRow \in Rows /\ Nothing \in TxType
BY DEF NoRow, Rows, Nothing, TxType

LEMMA NothingFields == ~Nothing.wrote /\ Nothing.usage = 0 /\ Nothing.saved = "no"
BY DEF Nothing

LEMMA TypeInit == Init => TypeOK
<1> SUFFICES ASSUME Init PROVE TypeOK
  OBVIOUS
<1>1. /\ tx \in [Turns -> TxType] /\ own \in [Turns -> Rows] /\ seen \in [Turns -> Rows]
      /\ conv \in Rows
  BY NothingType DEF Init, NoRow, Rows
<1>2. /\ attempt \in [Turns -> 0..RetryLimit] /\ usageRows \in [Turns -> 0..2] /\ log \in Seq(Turns)
  BY RetryLimitAssumption DEF Init
<1>3. /\ at \in [Turns -> Phases] /\ writer \in Locks
  BY DEF Init, Phases, Locks
<1>4. QED
  BY <1>1, <1>2, <1>3 DEF Init, TypeOK, TxType, Locks

\* The types of what the helpers of the actions set.
LEMMA TypeGoto ==
    ASSUME TypeOK, NEW t \in Turns, NEW phase \in Phases, Goto(t, phase)
    PROVE  at' \in [Turns -> Phases]
BY DEF TypeOK, Goto

LEMMA Goes ==
    ASSUME TypeOK, NEW t \in Turns, NEW phase, Goto(t, phase)
    PROVE  at'[t] = phase
BY DEF TypeOK, Goto

LEMMA TypeTell ==
    ASSUME TypeOK, NEW t \in Turns,
           NEW what \in {"none", "good", "literal", "raw", "friendly", "error"}, Tell(t, what)
    PROVE  answer' \in [Turns -> {"none", "good", "literal", "raw", "friendly", "error"}]
BY DEF TypeOK, Tell

LEMMA TypeLock ==
    ASSUME TypeOK, NEW t \in Turns, NEW s \in {"req", "own"}
    PROVE  /\ Lock(s, t) => writer' \in Locks
           /\ LockToInsert(s, t) => writer' \in Locks
           /\ writer' = Unlocked(s, t) => writer' \in Locks
BY DEF TypeOK, Lock, LockToInsert, Unlocked, Locks

LEMMA TypeToolWrites ==
    ASSUME TypeOK, NEW t \in Turns, NEW wrote \in BOOLEAN, ToolWrites(t, wrote)
    PROVE  tx' \in [Turns -> TxType] /\ writer' \in Locks
<1>1. CASE wrote
  <2>1. tx' = [tx EXCEPT ![t].wrote = TRUE] /\ LockToInsert("req", t)
    BY <1>1 DEF ToolWrites
  <2>2. tx \in [Turns -> TxType] /\ tx[t] \in TxType
    BY DEF TypeOK, TxType
  <2>3. [tx[t] EXCEPT !.wrote = TRUE] \in TxType
    BY <2>2 DEF TxType
  <2>4. tx' = [tx EXCEPT ![t] = [tx[t] EXCEPT !.wrote = TRUE]]
    BY <2>1
  <2>5. QED
    BY <2>1, <2>2, <2>3, <2>4, TypeLock
<1>2. CASE ~wrote
  BY <1>2 DEF ToolWrites, TypeOK, TxType, Locks
<1>3. QED
  BY <1>1, <1>2

LEMMA TypeClear ==
    ASSUME TypeOK, NEW t \in Turns, tx' = [tx EXCEPT ![t] = Nothing]
    PROVE  tx' \in [Turns -> TxType]
BY NothingType DEF TypeOK, TxType

LEMMA TypeRollBack ==
    ASSUME TypeOK, NEW t \in Turns, RollBack(t)
    PROVE  /\ tx' \in [Turns -> TxType] /\ writer' \in Locks
           /\ health' \in [Turns -> {"clean", "broken", "expired"}]
BY TypeClear, TypeLock DEF TypeOK, RollBack

LEMMA TypePublishes ==
    ASSUME TypeOK, NEW t \in Turns, Publishes(t)
    PROVE  missed' \in [Turns -> SUBSET Turns]
BY DEF TypeOK, Publishes

LEMMA TypeLand ==
    ASSUME TypeOK, NEW t \in Turns, BillInv(t), Land(t)
    PROVE  /\ usageRows' \in [Turns -> 0..2] /\ records' \subseteq Turns /\ writer' \in Locks
           /\ conv' \in Rows /\ messages' \subseteq Turns /\ log' \in Seq(Turns)
           /\ missed' \in [Turns -> SUBSET Turns]
<1>1. tx[t].usage \in 0..1 /\ tx[t].row \in Rows /\ usageRows[t] \in 0..2
  BY DEF TypeOK
<1>2. usageRows[t] + tx[t].usage \in 0..2
  <2>1. (usageRows[t] # 0 => usageRows[t] = 1) /\ (tx[t].usage = 1 => usageRows[t] = 0)
    BY DEF BillInv
  <2>2. QED
    BY <1>1, <2>1
<1>3. usageRows' \in [Turns -> 0..2]
  BY <1>2 DEF Land, TypeOK
<1>4. records' \subseteq Turns /\ writer' \in Locks
  BY TypeLock DEF Land, TypeOK
<1>5. CASE tx[t].saved = "here"
  <2>1. conv' = tx[t].row /\ messages' = messages \cup {t} /\ log' = Append(log, t) /\ Publishes(t)
    BY <1>5 DEF Land
  <2>2. log' \in Seq(Turns)
    BY <2>1, AppendProperties DEF TypeOK
  <2>3. QED
    BY <1>1, <1>3, <1>4, <2>1, <2>2, TypePublishes DEF TypeOK
<1>6. CASE tx[t].saved # "here"
  BY <1>3, <1>4, <1>6 DEF Land, TypeOK
<1>7. QED
  BY <1>5, <1>6

LEMMA TypeStep1 ==
    ASSUME TypeOK, NEW t \in Turns, TurnInv(t),
           \/ ChatLoads(t) \/ StreamLoads(t) \/ DeleteLoads(t) \/ SaveFails(t)
           \/ PreCommitFails(t) \/ PersistRefused(t) \/ PersistLoad(t)
           \/ PersistFails(t) \/ Disconnect(t) \/ ToolFails(t) \/ DeleteFails(t)
           \/ CloseFails(t) \/ RunReturns(t) \/ RunRejected(t) \/ RunRefused(t)
           \/ RunCrashes(t) \/ Repair(t) \/ UsageFails(t) \/ StreamReturns(t)
           \/ StreamFallsBack(t) \/ StreamErrs(t) \/ PreCommit(t) \/ ToolRuns(t)
           \/ Delete(t) \/ Close(t)
    PROVE  TypeOK'
<1>1. CASE ChatLoads(t)
  BY <1>1 DEF TypeOK, turnVars, storeVars, Phases, TxType, Locks, ChatLoads, ReadRow, Goto
<1>2. CASE StreamLoads(t)
  BY <1>2 DEF TypeOK, turnVars, storeVars, Phases, TxType, Locks, StreamLoads, ReadRow, Goto
<1>3. CASE DeleteLoads(t)
  <2>1. \E phase \in {"delete", "close"} : Goto(t, phase)
    BY <1>3 DEF DeleteLoads
  <2>2. at' \in [Turns -> Phases]
    BY <2>1, TypeGoto DEF Phases
  <2>3. answer' \in [Turns -> {"none", "good", "literal", "raw", "friendly", "error"}]
    BY <1>3 DEF DeleteLoads, Tell, TypeOK
  <2>4. /\ seen' \in [Turns -> Rows] /\ found' \in [Turns -> SUBSET Turns]
        /\ UNCHANGED <<mode, oneWriter, attempt, result, degraded, health, tx, own, writer, storeVars>>
    BY <1>3 DEF DeleteLoads, ReadRow, TypeOK
  <2>5. QED
    BY <2>2, <2>3, <2>4 DEF TypeOK, storeVars
<1>4. CASE SaveFails(t)
  BY <1>4, TypeRollBack DEF TypeOK, turnVars, storeVars, Phases, TxType, Locks, SaveFails,
     Goto, Tell
<1>5. CASE PreCommitFails(t)
  BY <1>5, TypeClear, TypeLock DEF TypeOK, turnVars, storeVars, Phases, TxType, Locks,
     PreCommitFails, Goto
<1>6. CASE PersistRefused(t)
  BY <1>6 DEF TypeOK, turnVars, storeVars, Phases, TxType, Locks, PersistRefused, Goto, Tell
<1>7. CASE PersistLoad(t)
  BY <1>7, TypeLock DEF TypeOK, turnVars, storeVars, Phases, TxType, Locks, PersistLoad, Goto
<1>8. CASE PersistFails(t)
  BY <1>8, TypeLock, NothingType DEF TypeOK, turnVars, storeVars, Phases, TxType, Locks,
     PersistFails, Goto
<1>9. CASE Disconnect(t)
  BY <1>9, TypeLock, NothingType DEF TypeOK, turnVars, storeVars, Phases, TxType, Locks,
     Disconnect, Goto
<1>10. CASE ToolFails(t)
  BY <1>10, TypeRollBack DEF TypeOK, turnVars, storeVars, Phases, TxType, Locks, ToolFails,
     Goto, Tell
<1>11. CASE DeleteFails(t)
  BY <1>11, TypeRollBack DEF TypeOK, turnVars, storeVars, Phases, TxType, Locks,
     DeleteFails, Goto, Tell
<1>12. CASE CloseFails(t)
  BY <1>12, TypeRollBack DEF TypeOK, turnVars, storeVars, Phases, TxType, Locks, CloseFails, Goto
<1>13. CASE RunReturns(t)
  <2>1. tx' \in [Turns -> TxType] /\ writer' \in Locks
    BY <1>13, TypeToolWrites DEF RunReturns
  <2>2. /\ attempt' \in [Turns -> 0..RetryLimit]
        /\ at' \in [Turns -> Phases]
    <3>1. \/ attempt[t] < RetryLimit /\ attempt' = [attempt EXCEPT ![t] = attempt[t] + 1]
          \/ attempt' = attempt
      BY <1>13 DEF RunReturns, Retry, NoRetry
    <3>2. \E phase \in Phases : at' = at \/ at' = [at EXCEPT ![t] = phase]
      BY <1>13 DEF RunReturns, Retry, NoRetry, Goto, Phases
    <3>3. attempt[t] < RetryLimit => attempt[t] + 1 \in 0..RetryLimit
      BY RetryLimitAssumption DEF TypeOK
    <3>4. attempt' \in [Turns -> 0..RetryLimit]
      BY <3>1, <3>3 DEF TypeOK
    <3>5. at' \in [Turns -> Phases]
      BY <3>2 DEF TypeOK
    <3>6. QED
      BY <3>4, <3>5
  <2>3. result' \in [Turns -> {"none", "good", "literal", "raw", "masked"}]
    BY <1>13 DEF RunReturns, TypeOK
  <2>4. QED
    BY <1>13, <2>1, <2>2, <2>3 DEF RunReturns, TypeOK, storeVars, TxType, Locks
<1>14. CASE RunRejected(t)
  <2>1. tx' \in [Turns -> TxType] /\ writer' \in Locks
    BY <1>14, TypeToolWrites DEF RunRejected
  <2>2. /\ attempt' \in [Turns -> 0..RetryLimit]
        /\ at' \in [Turns -> Phases]
    <3>1. \/ attempt[t] < RetryLimit /\ attempt' = [attempt EXCEPT ![t] = attempt[t] + 1]
          \/ attempt' = attempt
      BY <1>14 DEF RunRejected, Retry, NoRetry
    <3>2. \E phase \in Phases : at' = at \/ at' = [at EXCEPT ![t] = phase]
      BY <1>14 DEF RunRejected, Retry, NoRetry, Goto, Phases
    <3>3. attempt[t] < RetryLimit => attempt[t] + 1 \in 0..RetryLimit
      BY RetryLimitAssumption DEF TypeOK
    <3>4. attempt' \in [Turns -> 0..RetryLimit]
      BY <3>1, <3>3 DEF TypeOK
    <3>5. at' \in [Turns -> Phases]
      BY <3>2 DEF TypeOK
    <3>6. QED
      BY <3>4, <3>5
  <2>3. QED
    BY <1>14, <2>1, <2>2 DEF RunRejected, TypeOK, storeVars, TxType, Locks
<1>15. CASE RunRefused(t)
  <2>1. tx' \in [Turns -> TxType] /\ writer' \in Locks /\ health' \in [Turns -> {"clean", "broken", "expired"}]
    BY <1>15, TypeRollBack DEF RunRefused, ChatRaises, TypeOK, TxType, Locks
  <2>2. at' \in [Turns -> Phases]
    <3>1. \E phase \in {"close", "precommit", "usage"} : Goto(t, phase)
      BY <1>15 DEF RunRefused, ChatRaises
    <3>2. QED
      BY <3>1, TypeGoto DEF Phases
  <2>3. /\ result' \in [Turns -> {"none", "good", "literal", "raw", "masked"}]
        /\ answer' \in [Turns -> {"none", "good", "literal", "raw", "friendly", "error"}]
    <3>1. /\ result' = result \/ result' = [result EXCEPT ![t] = "none"]
          /\ answer' = answer \/ Tell(t, "error") \/ Tell(t, "friendly")
      BY <1>15 DEF RunRefused, ChatRaises
    <3>2. result' \in [Turns -> {"none", "good", "literal", "raw", "masked"}]
      BY <3>1 DEF TypeOK
    <3>3. answer' \in [Turns -> {"none", "good", "literal", "raw", "friendly", "error"}]
      BY <3>1, TypeTell DEF TypeOK
    <3>4. QED
      BY <3>2, <3>3
  <2>4. QED
    BY <1>15, <2>1, <2>2, <2>3 DEF RunRefused, TypeOK, storeVars, TxType, Locks
<1>16. CASE RunCrashes(t)
  <2>1. tx' \in [Turns -> TxType] /\ writer' \in Locks /\ health' \in [Turns -> {"clean", "broken", "expired"}]
    BY <1>16, TypeRollBack, TypeClear, TypeLock DEF RunCrashes, ChatRaises, TypeOK, TxType, Locks
  <2>2. at' \in [Turns -> Phases]
    <3>1. \E phase \in {"close", "precommit", "usage"} : Goto(t, phase)
      BY <1>16 DEF RunCrashes, ChatRaises
    <3>2. QED
      BY <3>1, TypeGoto DEF Phases
  <2>3. /\ result' \in [Turns -> {"none", "good", "literal", "raw", "masked"}]
        /\ answer' \in [Turns -> {"none", "good", "literal", "raw", "friendly", "error"}]
    <3>1. /\ result' = result \/ result' = [result EXCEPT ![t] = "none"]
          /\ answer' = answer \/ Tell(t, "error") \/ Tell(t, "friendly")
      BY <1>16 DEF RunCrashes, ChatRaises
    <3>2. result' \in [Turns -> {"none", "good", "literal", "raw", "masked"}]
      BY <3>1 DEF TypeOK
    <3>3. answer' \in [Turns -> {"none", "good", "literal", "raw", "friendly", "error"}]
      BY <3>1, TypeTell DEF TypeOK
    <3>4. QED
      BY <3>2, <3>3
  <2>4. QED
    BY <1>16, <2>1, <2>2, <2>3 DEF RunCrashes, TypeOK, storeVars, TxType, Locks
<1>17. CASE Repair(t)
  <2>1. tx' \in [Turns -> TxType] /\ writer' \in Locks
    BY <1>17, TypeToolWrites, TypeClear, TypeLock DEF Repair
  <2>2. health' \in [Turns -> {"clean", "broken", "expired"}]
    BY <1>17 DEF Repair, TypeOK
  <2>3. /\ at' \in [Turns -> Phases]
        /\ result' \in [Turns -> {"none", "good", "literal", "raw", "masked"}]
    BY <1>17 DEF Repair, Goto, TypeOK, Phases
  <2>4. QED
    BY <1>17, <2>1, <2>2, <2>3 DEF Repair, TypeOK, storeVars, TxType, Locks
<1>18. CASE UsageFails(t)
  <2>1. tx' \in [Turns -> TxType] /\ writer' \in Locks /\ health' \in [Turns -> {"clean", "broken", "expired"}]
    BY <1>18, TypeRollBack DEF UsageFails
  <2>2. at' \in [Turns -> Phases]
    <3>1. Goto(t, "precommit") \/ Goto(t, "close")
      BY <1>18 DEF UsageFails
    <3>2. QED
      BY <3>1, TypeGoto DEF Phases
  <2>3. /\ result' \in [Turns -> {"none", "good", "literal", "raw", "masked"}]
        /\ answer' \in [Turns -> {"none", "good", "literal", "raw", "friendly", "error"}]
    BY <1>18 DEF UsageFails, Tell, TypeOK
  <2>4. QED
    BY <1>18, <2>1, <2>2, <2>3 DEF UsageFails, TypeOK, storeVars, TxType, Locks
<1>19. CASE StreamReturns(t)
  <2>1. tx' \in [Turns -> TxType] /\ writer' \in Locks
    BY <1>19, TypeToolWrites DEF StreamReturns
  <2>2. /\ at' \in [Turns -> Phases]
        /\ result' \in [Turns -> {"none", "good", "literal", "raw", "masked"}]
    <3>1. Goto(t, "precommit") /\ "precommit" \in Phases
      BY <1>19 DEF StreamReturns, Phases
    <3>2. result' \in [Turns -> {"none", "good", "literal", "raw", "masked"}]
      BY <1>19 DEF StreamReturns, TypeOK
    <3>3. QED
      BY <3>1, <3>2, TypeGoto
  <2>3. answer' \in [Turns -> {"none", "good", "literal", "raw", "friendly", "error"}]
    BY <1>19 DEF StreamReturns, Tell, TypeOK
  <2>4. QED
    BY <1>19, <2>1, <2>2, <2>3 DEF StreamReturns, TypeOK, storeVars, TxType, Locks
<1>20. CASE StreamFallsBack(t)
  <2>1. tx' \in [Turns -> TxType] /\ writer' \in Locks
    BY <1>20, TypeToolWrites DEF StreamFallsBack
  <2>2. degraded' \in [Turns -> BOOLEAN]
    BY <1>20 DEF StreamFallsBack, TypeOK
  <2>3. QED
    BY <1>20, <2>1, <2>2 DEF StreamFallsBack, TypeOK, storeVars, TxType, Locks
<1>21. CASE StreamErrs(t)
  <2>1. tx' \in [Turns -> TxType] /\ writer' \in Locks
    BY <1>21, TypeToolWrites, TypeClear, TypeLock DEF StreamErrs
  <2>2. health' \in [Turns -> {"clean", "broken", "expired"}]
    BY <1>21 DEF StreamErrs, TypeOK
  <2>3. /\ at' \in [Turns -> Phases]
        /\ answer' \in [Turns -> {"none", "good", "literal", "raw", "friendly", "error"}]
    BY <1>21 DEF StreamErrs, Goto, Tell, TypeOK, Phases
  <2>4. QED
    BY <1>21, <2>1, <2>2, <2>3 DEF StreamErrs, TypeOK, storeVars, TxType, Locks
<1>22. CASE PreCommit(t)
  <2>1. /\ usageRows' \in [Turns -> 0..2] /\ records' \subseteq Turns /\ writer' \in Locks
        /\ conv' \in Rows /\ messages' \subseteq Turns /\ log' \in Seq(Turns)
        /\ missed' \in [Turns -> SUBSET Turns]
    BY <1>22, TypeLand DEF PreCommit, TurnInv
  <2>2. tx' \in [Turns -> TxType]
    BY <1>22, TypeClear DEF PreCommit
  <2>3. at' \in [Turns -> Phases]
    BY <1>22 DEF PreCommit, Goto, TypeOK, Phases
  <2>4. QED
    BY <1>22, <2>1, <2>2, <2>3 DEF PreCommit, TypeOK, storeVars, TxType, Locks
<1>23. CASE ToolRuns(t)
  <2>1. tx' \in [Turns -> TxType] /\ writer' \in Locks
    BY <1>23, TypeToolWrites DEF ToolRuns
  <2>2. /\ at' \in [Turns -> Phases]
        /\ result' \in [Turns -> {"none", "good", "literal", "raw", "masked"}]
    <3>1. Goto(t, "usage") /\ "usage" \in Phases
      BY <1>23 DEF ToolRuns, Phases
    <3>2. result' \in [Turns -> {"none", "good", "literal", "raw", "masked"}]
      BY <1>23 DEF ToolRuns, TypeOK
    <3>3. QED
      BY <3>1, <3>2, TypeGoto
  <2>3. QED
    BY <1>23, <2>1, <2>2 DEF ToolRuns, TypeOK, storeVars, TxType, Locks
<1>24. CASE Delete(t)
  <2>1. conv' \in Rows /\ messages' \subseteq Turns /\ log' \in Seq(Turns)
    BY <1>24, NothingType DEF Delete, Remaining, TypeOK
  <2>2. missed' \in [Turns -> SUBSET Turns]
    BY <1>24, TypePublishes DEF Delete
  <2>3. /\ at' \in [Turns -> Phases]
        /\ answer' \in [Turns -> {"none", "good", "literal", "raw", "friendly", "error"}]
    BY <1>24 DEF Delete, Goto, Tell, TypeOK, Phases
  <2>4. QED
    BY <1>24, <2>1, <2>2, <2>3 DEF Delete, TypeOK, storeVars, TxType, Locks
<1>25. CASE Close(t)
  <2>1. /\ usageRows' \in [Turns -> 0..2] /\ records' \subseteq Turns /\ writer' \in Locks
        /\ conv' \in Rows /\ messages' \subseteq Turns /\ log' \in Seq(Turns)
        /\ missed' \in [Turns -> SUBSET Turns]
    BY <1>25, TypeLand DEF Close, TurnInv
  <2>2. tx' \in [Turns -> TxType]
    BY <1>25, TypeClear DEF Close
  <2>3. at' \in [Turns -> Phases]
    BY <1>25 DEF Close, Goto, TypeOK, Phases
  <2>4. QED
    BY <1>25, <2>1, <2>2, <2>3 DEF Close, TypeOK, storeVars, TxType, Locks
<1>26. QED
  BY <1>1, <1>2, <1>3, <1>4, <1>5, <1>6, <1>7, <1>8, <1>9, <1>10, <1>11, <1>12, <1>13,
     <1>14, <1>15, <1>16, <1>17, <1>18, <1>19, <1>20, <1>21, <1>22, <1>23, <1>24, <1>25

LEMMA TypeStep2 ==
    ASSUME TypeOK, NEW t \in Turns, TurnInv(t),
           WriteUsage(t) \/ SaveTurn(t) \/ PersistTouch(t) \/ PersistCommit(t)
    PROVE  TypeOK'
<1>1. CASE WriteUsage(t)
  <2>1. tx \in [Turns -> TxType] /\ [tx[t] EXCEPT !.usage = 1] \in TxType
    <3>1. tx \in [Turns -> TxType]
      BY DEF TypeOK, TxType
    <3>2. [tx[t] EXCEPT !.usage = 1] \in TxType
      BY <3>1 DEF TxType
    <3>3. QED
      BY <3>1, <3>2
  <2>2. tx' = [tx EXCEPT ![t] = [tx[t] EXCEPT !.usage = 1]]
    BY <1>1, <2>1 DEF WriteUsage
  <2>3. tx' \in [Turns -> TxType]
    BY <2>1, <2>2
  <2>4. writer' \in Locks
    BY <1>1, TypeLock DEF WriteUsage
  <2>5. \E phase \in Phases : at' = [at EXCEPT ![t] = phase]
    BY <1>1 DEF WriteUsage, Goto, Phases
  <2>6. at' \in [Turns -> Phases]
    BY <2>5 DEF TypeOK
  <2>7. Output(t) \in {"good", "literal", "raw", "friendly"}
    BY DEF Output, TypeOK
  <2>8. answer' \in [Turns -> {"none", "good", "literal", "raw", "friendly", "error"}]
    BY <1>1, <2>7 DEF WriteUsage, Tell, TypeOK
  <2>9. QED
    BY <1>1, <2>3, <2>4, <2>6, <2>8 DEF WriteUsage, TypeOK, storeVars, TxType, Locks
<1>2. CASE SaveTurn(t)
  <2>1. /\ Extended(seen[t], t) \in Rows /\ Fresh(t) \in Rows
    <3>1. seen[t] \in Rows /\ conv \in Rows
      BY DEF TypeOK
    <3>2. seen[t].history \in SUBSET Turns /\ seen[t].turns + 1 \in Nat /\ conv.history \in SUBSET Turns
      BY <3>1 DEF Rows
    <3>3. QED
      BY <3>2 DEF Extended, Fresh, Rows
  <2>2. tx \in [Turns -> TxType]
    BY DEF TypeOK, TxType
  <2>3. [tx[t] EXCEPT !.saved = "elsewhere"] \in TxType
    BY <2>2 DEF TxType
  <2>4. \A row \in Rows : [tx[t] EXCEPT !.saved = "here", !.row = row] \in TxType
    BY <2>2 DEF TxType
  <2>5. \/ tx' = [tx EXCEPT ![t] = [tx[t] EXCEPT !.saved = "elsewhere"]]
        \/ \E row \in Rows : tx' = [tx EXCEPT ![t] = [tx[t] EXCEPT !.saved = "here", !.row = row]]
    BY <1>2, <2>1, <2>2 DEF SaveTurn
  <2>6. tx' \in [Turns -> TxType]
    BY <2>2, <2>3, <2>4, <2>5
  <2>7. writer' \in Locks
    BY <1>2, TypeLock DEF SaveTurn
  <2>8. Output(t) \in {"good", "literal", "raw", "friendly"}
    BY DEF Output, TypeOK
  <2>9. answer' \in [Turns -> {"none", "good", "literal", "raw", "friendly", "error"}]
    BY <1>2, <2>8, TypeTell DEF SaveTurn
  <2>10. at' \in [Turns -> Phases]
    BY <1>2, TypeGoto DEF SaveTurn, Phases
  <2>11. QED
    BY <1>2, <2>6, <2>7, <2>9, <2>10 DEF SaveTurn, TypeOK, storeVars, TxType, Locks
<1>3. CASE PersistTouch(t)
  <2>1. Touched(seen[t], t) \in Rows
    <3>1. seen[t] \in Rows
      BY DEF TypeOK
    <3>2. seen[t].turns + 1 \in Nat
      BY <3>1 DEF Rows
    <3>3. QED
      BY <3>2 DEF Touched, Rows
  <2>2. own' \in [Turns -> Rows]
    BY <1>3, <2>1 DEF PersistTouch, TypeOK
  <2>3. writer' \in Locks
    BY <1>3, TypeLock DEF PersistTouch
  <2>4. at' \in [Turns -> Phases]
    BY <1>3, TypeGoto DEF PersistTouch, Phases
  <2>5. QED
    BY <1>3, <2>2, <2>3, <2>4 DEF PersistTouch, TypeOK, storeVars, Locks
<1>4. CASE PersistCommit(t)
  <2>1. own[t] \in Rows
    BY DEF TypeOK
  <2>2. conv' \in Rows /\ own' \in [Turns -> Rows]
    BY <1>4, <2>1, NothingType DEF PersistCommit, TypeOK
  <2>3. log' \in Seq(Turns)
    BY <1>4, AppendProperties DEF PersistCommit, TypeOK
  <2>4. missed' \in [Turns -> SUBSET Turns]
    BY <1>4, TypePublishes DEF PersistCommit
  <2>5. usageRows' \in [Turns -> 0..2]
    <3>1. usageRows[t] \in 0..2 /\ (usageRows[t] # 0 => usageRows[t] = 1)
      BY DEF TypeOK, TurnInv, BillInv
    <3>2. usageRows[t] + 1 \in 0..2
      BY <3>1
    <3>3. QED
      BY <1>4, <3>2 DEF PersistCommit, Billed, TypeOK
  <2>6. writer' \in Locks
    BY <1>4, TypeLock DEF PersistCommit
  <2>7. at' \in [Turns -> Phases]
    BY <1>4, TypeGoto DEF PersistCommit, Phases
  <2>8. messages' \subseteq Turns
    BY <1>4 DEF PersistCommit, TypeOK
  <2>9. QED
    BY <1>4, <2>2, <2>3, <2>4, <2>5, <2>6, <2>7, <2>8 DEF PersistCommit, TypeOK, Locks
<1>5. QED
  BY <1>1, <1>2, <1>3, <1>4

LEMMA TypeStep ==
    ASSUME TypeOK, NEW t \in Turns, TurnInv(t), Progress(t) \/ Trouble(t)
    PROVE  TypeOK'
BY TypeStep1, TypeStep2 DEF Progress, Trouble

-----------------------------------------------------------------------------
(* What a step of one turn leaves alone                                    *)

\* The turn u, of which its mode is fixed.
SameTurn(u) ==
  /\ at'[u] = at[u] /\ result'[u] = result[u] /\ degraded'[u] = degraded[u]
  /\ answer'[u] = answer[u] /\ health'[u] = health[u] /\ tx'[u] = tx[u] /\ own'[u] = own[u]
  /\ seen'[u] = seen[u] /\ found'[u] = found[u] /\ usageRows'[u] = usageRows[u]
  /\ u \in records' <=> u \in records
  /\ u \in messages' => u \in messages

SameLock(u) == \A s \in {"req", "own"} : writer' = <<s, u>> <=> writer = <<s, u>>

\* The lock passes from nobody to the turn, or from the turn to nobody.
LEMMA LockFrame ==
    ASSUME TypeOK, NEW t \in Turns, NEW s \in {"req", "own"}, NEW u \in Turns \ {t},
           Lock(s, t) \/ LockToInsert(s, t) \/ writer' = Unlocked(s, t) \/ writer' = writer
    PROVE  SameLock(u)
BY NobodyAssumption DEF Lock, LockToInsert, Unlocked, SameLock

LEMMA Frame ==
    ASSUME TypeOK, NEW t \in Turns, Progress(t) \/ Trouble(t), NEW u \in Turns \ {t}
    PROVE  SameTurn(u) /\ UNCHANGED <<mode, oneWriter>>
<1> USE DEF SameTurn, TypeOK, storeVars, turnVars
<1>1. CASE ChatLoads(t)
  BY <1>1 DEF ChatLoads, ReadRow, Goto
<1>2. CASE StreamLoads(t)
  BY <1>2 DEF StreamLoads, ReadRow, Goto
<1>3. CASE DeleteLoads(t)
  BY <1>3 DEF DeleteLoads, ReadRow, Goto, Tell
<1>4. CASE RunReturns(t)
  BY <1>4 DEF RunReturns, ToolWrites, Goto, NoRetry, Retry
<1>5. CASE RunRejected(t)
  BY <1>5 DEF RunRejected, ToolWrites, Goto, NoRetry, Retry
<1>6. CASE RunRefused(t)
  BY <1>6 DEF RunRefused, ChatRaises, RollBack, Goto, Tell
<1>7. CASE RunCrashes(t)
  BY <1>7 DEF RunCrashes, ChatRaises, RollBack, Goto, Tell
<1>8. CASE Repair(t)
  BY <1>8 DEF Repair, ToolWrites, Goto
<1>9. CASE WriteUsage(t)
  BY <1>9 DEF WriteUsage, Goto, Tell
<1>10. CASE SaveTurn(t)
  BY <1>10 DEF SaveTurn, Goto, Tell
<1>11. CASE StreamReturns(t)
  BY <1>11 DEF StreamReturns, ToolWrites, Goto, Tell
<1>12. CASE StreamFallsBack(t)
  BY <1>12 DEF StreamFallsBack, ToolWrites
<1>13. CASE StreamErrs(t)
  BY <1>13 DEF StreamErrs, ToolWrites, Goto, Tell
<1>14. CASE PreCommit(t)
  BY <1>14 DEF PreCommit, Land, Publishes, Goto
<1>15. CASE PersistLoad(t)
  BY <1>15 DEF PersistLoad, Goto
<1>16. CASE PersistTouch(t)
  BY <1>16 DEF PersistTouch, Goto
<1>17. CASE PersistCommit(t)
  BY <1>17 DEF PersistCommit, Publishes, Billed, Goto
<1>18. CASE ToolRuns(t)
  BY <1>18 DEF ToolRuns, ToolWrites, Goto
<1>19. CASE Delete(t)
  BY <1>19 DEF Delete, Publishes, Goto, Tell, Remaining
<1>20. CASE Close(t)
  BY <1>20 DEF Close, Land, Publishes, Goto
<1>21. CASE UsageFails(t)
  BY <1>21 DEF UsageFails, RollBack, Goto, Tell
<1>22. CASE SaveFails(t)
  BY <1>22 DEF SaveFails, RollBack, Goto, Tell
<1>23. CASE PreCommitFails(t)
  BY <1>23 DEF PreCommitFails, Goto
<1>24. CASE PersistRefused(t)
  BY <1>24 DEF PersistRefused, Goto, Tell
<1>25. CASE PersistFails(t)
  BY <1>25 DEF PersistFails, Goto
<1>26. CASE Disconnect(t)
  BY <1>26 DEF Disconnect, Goto
<1>27. CASE ToolFails(t)
  BY <1>27 DEF ToolFails, RollBack, Goto, Tell
<1>28. CASE DeleteFails(t)
  BY <1>28 DEF DeleteFails, RollBack, Goto, Tell
<1>29. CASE CloseFails(t)
  BY <1>29 DEF CloseFails, RollBack, Goto
<1>30. QED
  BY <1>1, <1>2, <1>3, <1>4, <1>5, <1>6, <1>7, <1>8, <1>9, <1>10, <1>11, <1>12, <1>13,
     <1>14, <1>15, <1>16, <1>17, <1>18, <1>19, <1>20, <1>21, <1>22, <1>23, <1>24, <1>25,
     <1>26, <1>27, <1>28, <1>29 DEF Progress, Trouble

LEMMA FrameLock ==
    ASSUME TypeOK, NEW t \in Turns, Progress(t) \/ Trouble(t), NEW u \in Turns \ {t}
    PROVE  SameLock(u)
<1>1. \E s \in {"req", "own"} :
        Lock(s, t) \/ LockToInsert(s, t) \/ writer' = Unlocked(s, t) \/ writer' = writer
  <2>1. CASE ChatLoads(t)
    BY <2>1 DEF ChatLoads, ReadRow
  <2>2. CASE StreamLoads(t)
    BY <2>2 DEF StreamLoads, ReadRow
  <2>3. CASE DeleteLoads(t)
    BY <2>3 DEF DeleteLoads, ReadRow
  <2>4. CASE RunReturns(t)
    BY <2>4 DEF RunReturns, ToolWrites
  <2>5. CASE RunRejected(t)
    BY <2>5 DEF RunRejected, ToolWrites
  <2>6. CASE RunRefused(t)
    BY <2>6 DEF RunRefused, ChatRaises, RollBack
  <2>7. CASE RunCrashes(t)
    BY <2>7 DEF RunCrashes, ChatRaises, RollBack
  <2>8. CASE Repair(t)
    BY <2>8 DEF Repair, ToolWrites
  <2>9. CASE WriteUsage(t)
    BY <2>9 DEF WriteUsage
  <2>10. CASE SaveTurn(t)
    BY <2>10 DEF SaveTurn
  <2>11. CASE StreamReturns(t)
    BY <2>11 DEF StreamReturns, ToolWrites
  <2>12. CASE StreamFallsBack(t)
    BY <2>12 DEF StreamFallsBack, ToolWrites
  <2>13. CASE StreamErrs(t)
    BY <2>13 DEF StreamErrs, ToolWrites
  <2>14. CASE PreCommit(t)
    BY <2>14 DEF PreCommit, Land
  <2>15. CASE PersistLoad(t)
    BY <2>15 DEF PersistLoad
  <2>16. CASE PersistTouch(t)
    BY <2>16 DEF PersistTouch
  <2>17. CASE PersistCommit(t)
    BY <2>17 DEF PersistCommit
  <2>18. CASE ToolRuns(t)
    BY <2>18 DEF ToolRuns, ToolWrites
  <2>19. CASE Delete(t)
    BY <2>19 DEF Delete
  <2>20. CASE Close(t)
    BY <2>20 DEF Close, Land
  <2>21. CASE UsageFails(t)
    BY <2>21 DEF UsageFails, RollBack
  <2>22. CASE SaveFails(t)
    BY <2>22 DEF SaveFails, RollBack
  <2>23. CASE PreCommitFails(t)
    BY <2>23 DEF PreCommitFails
  <2>24. CASE PersistRefused(t)
    BY <2>24 DEF PersistRefused
  <2>25. CASE PersistFails(t)
    BY <2>25 DEF PersistFails
  <2>26. CASE Disconnect(t)
    BY <2>26 DEF Disconnect
  <2>27. CASE ToolFails(t)
    BY <2>27 DEF ToolFails, RollBack
  <2>28. CASE DeleteFails(t)
    BY <2>28 DEF DeleteFails, RollBack
  <2>29. CASE CloseFails(t)
    BY <2>29 DEF CloseFails, RollBack
  <2>30. QED
    BY <2>1, <2>2, <2>3, <2>4, <2>5, <2>6, <2>7, <2>8, <2>9, <2>10, <2>11, <2>12, <2>13,
       <2>14, <2>15, <2>16, <2>17, <2>18, <2>19, <2>20, <2>21, <2>22, <2>23, <2>24, <2>25,
       <2>26, <2>27, <2>28, <2>29 DEF Progress, Trouble
<1>2. QED
  BY <1>1, LockFrame

\* What a request that has answered keeps.
LEMMA Ended ==
    ASSUME TypeOK, NEW t \in Turns, TurnInv(t), Progress(t) \/ Trouble(t),
           at[t] \in {"close", "done"}
    PROVE  /\ at'[t] = "done" /\ tx'[t] = Nothing
           /\ result'[t] = result[t] /\ found'[t] = found[t] /\ degraded'[t] = degraded[t]
           /\ Close(t) \/ CloseFails(t)
<1>1. Close(t) \/ CloseFails(t)
  BY DEF TurnInv, PhaseInv, Progress, Trouble, ChatLoads, StreamLoads, DeleteLoads, ReadRow,
     RunReturns, RunRejected, RunRefused, RunCrashes, InRetries, Repair, WriteUsage, SaveTurn,
     StreamReturns, StreamFallsBack, StreamErrs, PreCommit, PersistLoad, PersistTouch,
     PersistCommit, ToolRuns, Delete, UsageFails, SaveFails, PreCommitFails, PersistRefused,
     PersistFails, Disconnect, ToolFails, DeleteFails
<1>2. QED
  BY <1>1 DEF Close, CloseFails, RollBack, Goto, TypeOK

\* A step that concerns the turn alone.
Silent == UNCHANGED <<conv, messages, log, missed>>

Stores(t, row) ==
  /\ conv' = row /\ messages' = messages \cup {t} /\ log' = Append(log, t) /\ Publishes(t)

LEMMA Effect ==
    ASSUME TypeOK, NEW t \in Turns, TurnInv(t), Progress(t) \/ Trouble(t)
    PROVE  \/ Silent
           \/ PersistLoad(t)
           \/ Close(t) /\ tx[t].saved = "here" /\ Stores(t, tx[t].row)
           \/ PersistCommit(t)
           \/ Delete(t)
<1> USE DEF Silent, storeVars
<1>1. CASE ChatLoads(t)
  BY <1>1 DEF ChatLoads, ReadRow
<1>2. CASE StreamLoads(t)
  BY <1>2 DEF StreamLoads, ReadRow
<1>3. CASE DeleteLoads(t)
  BY <1>3 DEF DeleteLoads, ReadRow
<1>4. CASE RunReturns(t)
  BY <1>4 DEF RunReturns
<1>5. CASE RunRejected(t)
  BY <1>5 DEF RunRejected
<1>6. CASE RunRefused(t)
  BY <1>6 DEF RunRefused
<1>7. CASE RunCrashes(t)
  BY <1>7 DEF RunCrashes
<1>8. CASE Repair(t)
  BY <1>8 DEF Repair
<1>9. CASE WriteUsage(t)
  BY <1>9 DEF WriteUsage
<1>10. CASE SaveTurn(t)
  BY <1>10 DEF SaveTurn
<1>11. CASE StreamReturns(t)
  BY <1>11 DEF StreamReturns
<1>12. CASE StreamFallsBack(t)
  BY <1>12 DEF StreamFallsBack
<1>13. CASE StreamErrs(t)
  BY <1>13 DEF StreamErrs
<1>14. CASE PersistTouch(t)
  BY <1>14 DEF PersistTouch
<1>15. CASE ToolRuns(t)
  BY <1>15 DEF ToolRuns
<1>16. CASE UsageFails(t)
  BY <1>16 DEF UsageFails
<1>17. CASE SaveFails(t)
  BY <1>17 DEF SaveFails
<1>18. CASE PreCommitFails(t)
  BY <1>18 DEF PreCommitFails
<1>19. CASE PersistRefused(t)
  BY <1>19 DEF PersistRefused
<1>20. CASE PersistFails(t)
  BY <1>20 DEF PersistFails
<1>21. CASE Disconnect(t)
  BY <1>21 DEF Disconnect
<1>22. CASE ToolFails(t)
  BY <1>22 DEF ToolFails
<1>23. CASE DeleteFails(t)
  BY <1>23 DEF DeleteFails
<1>24. CASE CloseFails(t)
  BY <1>24 DEF CloseFails
<1>25. CASE PreCommit(t)
  BY <1>25 DEF PreCommit, Land, TurnInv, BillInv
<1>26. CASE Close(t)
  BY <1>26 DEF Close, Land, Stores
<1>27. QED
  BY <1>1, <1>2, <1>3, <1>4, <1>5, <1>6, <1>7, <1>8, <1>9, <1>10, <1>11, <1>12, <1>13,
     <1>14, <1>15, <1>16, <1>17, <1>18, <1>19, <1>20, <1>21, <1>22, <1>23, <1>24, <1>25,
     <1>26 DEF Progress, Trouble

-----------------------------------------------------------------------------
(* The turn itself                                                         *)

LEMMA ToolEffect ==
    ASSUME TypeOK, NEW t \in Turns, NEW wrote \in BOOLEAN, ToolWrites(t, wrote)
    PROVE  /\ tx'[t].usage = tx[t].usage /\ tx'[t].saved = tx[t].saved /\ tx'[t].row = tx[t].row
           /\ health[t] # "clean" => tx' = tx
           /\ writer' = writer \/ (writer' = <<"req", t>> /\ health[t] = "clean")
<1>1. CASE wrote
  <2>1. tx' = [tx EXCEPT ![t].wrote = TRUE] /\ health[t] = "clean" /\ LockToInsert("req", t)
    BY <1>1 DEF ToolWrites
  <2>2. tx'[t] = [tx[t] EXCEPT !.wrote = TRUE] /\ tx[t] \in TxType
    BY <2>1 DEF TypeOK, TxType
  <2>3. tx'[t].usage = tx[t].usage /\ tx'[t].saved = tx[t].saved /\ tx'[t].row = tx[t].row
    BY <2>2 DEF TxType
  <2>4. QED
    BY <2>1, <2>3 DEF LockToInsert, Lock
<1>2. CASE ~wrote
  BY <1>2 DEF ToolWrites
<1>3. QED
  BY <1>1, <1>2

LEMMA RollBackEffect ==
    ASSUME TypeOK, NEW t \in Turns, RollBack(t)
    PROVE  /\ tx'[t] = Nothing /\ health'[t] = "expired"
           /\ writer' # <<"req", t>> /\ (writer = <<"own", t>> => writer' = writer)
<1>1. tx'[t] = Nothing /\ health'[t] = "expired"
  BY DEF RollBack, TypeOK
<1>2. writer' = Unlocked("req", t)
  BY DEF RollBack
<1>3. QED
  BY <1>1, <1>2, NobodyAssumption DEF Unlocked

LEMMA UnlockEffect ==
    ASSUME NEW t \in Turns, NEW s \in {"req", "own"}, writer' = Unlocked(s, t)
    PROVE  writer' # <<s, t>> /\ (writer' = writer \/ writer' = Nobody)
BY NobodyAssumption DEF Unlocked

LEMMA LandEffect ==
    ASSUME TypeOK, NEW t \in Turns, Land(t)
    PROVE  /\ usageRows'[t] = usageRows[t] + tx[t].usage
           /\ t \in messages' <=> t \in messages \/ tx[t].saved = "here"
           /\ t \in records' => t \in records \/ tx[t].wrote
           /\ writer' # <<"req", t>> /\ (writer' = writer \/ writer' = Nobody)
BY UnlockEffect DEF Land, TypeOK

LEMMA ChatRaisesEffect ==
    ASSUME TypeOK, NEW t \in Turns, ChatRaises(t)
    PROVE  \/ /\ mode[t] = "chat" /\ at'[t] = "close" /\ answer'[t] = "error"
              /\ tx'[t] = Nothing /\ writer' # <<"req", t>>
           \/ /\ mode[t] # "chat" /\ at'[t] = "precommit" /\ answer'[t] = "friendly"
              /\ UNCHANGED <<tx, health, writer>>
<1>1. CASE mode[t] = "chat"
  BY <1>1, RollBackEffect DEF ChatRaises, Tell, Goto, TypeOK
<1>2. CASE mode[t] # "chat"
  BY <1>2 DEF ChatRaises, Tell, Goto, TypeOK
<1>3. QED
  BY <1>1, <1>2

LEMMA HardStep ==
    ASSUME TypeOK, NEW t \in Turns, TurnInv(t),
           \/ RunReturns(t) \/ RunRejected(t) \/ RunRefused(t) \/ RunCrashes(t)
           \/ WriteUsage(t) \/ UsageFails(t) \/ SaveTurn(t) \/ SaveFails(t)
           \/ PreCommit(t) \/ PreCommitFails(t) \/ PersistCommit(t) \/ Disconnect(t)
    PROVE  PhaseInv(t)' /\ BillInv(t)' /\ LockInv(t)'
<1>1. CASE RunReturns(t)
  <2>1. at[t] = "run" /\ mode[t] \in {"chat", "stream"} /\ (mode[t] = "stream" => degraded[t])
    BY <1>1 DEF RunReturns, InRetries, TypeOK, Modes, TurnInv, PhaseInv
  <2>2. at'[t] \in {"run", "repair", "usage"}
    BY <1>1, <2>1 DEF RunReturns, Goto, Retry, NoRetry, TypeOK
  <2>3. UNCHANGED <<mode, degraded, usageRows, messages, records, missed>> /\ UNCHANGED <<answer, health>>
    BY <1>1 DEF RunReturns, storeVars
  <2>4. /\ tx'[t].usage = tx[t].usage /\ tx'[t].saved = tx[t].saved
        /\ health[t] # "clean" => tx' = tx
        /\ writer' = writer \/ (writer' = <<"req", t>> /\ health[t] = "clean")
    BY <1>1, ToolEffect DEF RunReturns
  <2>5. PhaseInv(t)'
    BY <2>1, <2>2, <2>3, <2>4 DEF TypeOK, TurnInv, PhaseInv, Busy
  <2>6. BillInv(t)'
    BY <2>1, <2>2, <2>3, <2>4, NothingFields DEF TypeOK, TurnInv, PhaseInv, BillInv, LockInv, Busy
  <2>7. LockInv(t)'
    BY <2>1, <2>2, <2>3, <2>4, NobodyAssumption, NothingFields DEF TypeOK, TurnInv,
       PhaseInv, BillInv, LockInv
  <2>8. QED
    BY <2>5, <2>6, <2>7
<1>2. CASE RunRejected(t)
  <2>1. at[t] = "run" /\ mode[t] \in {"chat", "stream"} /\ (mode[t] = "stream" => degraded[t])
    BY <1>2 DEF RunRejected, InRetries, TypeOK, Modes, TurnInv, PhaseInv
  <2>2. at'[t] \in {"run", "usage"}
    BY <1>2, <2>1 DEF RunRejected, Goto, Retry, NoRetry, TypeOK
  <2>3. UNCHANGED <<mode, degraded, usageRows, messages, records, missed>> /\ UNCHANGED <<answer, health>>
    BY <1>2 DEF RunRejected, storeVars
  <2>4. /\ tx'[t].usage = tx[t].usage /\ tx'[t].saved = tx[t].saved
        /\ health[t] # "clean" => tx' = tx
        /\ writer' = writer \/ (writer' = <<"req", t>> /\ health[t] = "clean")
    BY <1>2, ToolEffect DEF RunRejected
  <2>5. PhaseInv(t)'
    BY <2>1, <2>2, <2>3, <2>4 DEF TypeOK, TurnInv, PhaseInv, Busy
  <2>6. BillInv(t)'
    BY <2>1, <2>2, <2>3, <2>4, NothingFields DEF TypeOK, TurnInv, PhaseInv, BillInv, LockInv, Busy
  <2>7. LockInv(t)'
    BY <2>1, <2>2, <2>3, <2>4, NobodyAssumption, NothingFields DEF TypeOK, TurnInv,
       PhaseInv, BillInv, LockInv
  <2>8. QED
    BY <2>5, <2>6, <2>7
<1>3. CASE RunRefused(t)
  <2>1. at[t] = "run" /\ mode[t] \in {"chat", "stream"} /\ (mode[t] = "stream" => degraded[t])
    BY <1>3 DEF RunRefused, InRetries, TypeOK, Modes, TurnInv, PhaseInv
  <2>2. UNCHANGED <<mode, degraded, usageRows, messages, records, missed>>
    BY <1>3 DEF RunRefused, storeVars
  <2>3. \/ ChatRaises(t)
        \/ at'[t] = "usage" /\ UNCHANGED <<answer, tx, health, writer>>
    BY <1>3 DEF RunRefused, Goto, TypeOK
  <2>4. \/ /\ mode[t] = "chat" /\ at'[t] = "close" /\ answer'[t] = "error"
           /\ tx'[t] = Nothing /\ writer' # <<"req", t>>
        \/ /\ mode[t] # "chat" /\ at'[t] = "precommit" /\ answer'[t] = "friendly"
           /\ UNCHANGED <<tx, health, writer>>
        \/ at'[t] = "usage" /\ UNCHANGED <<answer, tx, health, writer>>
    BY <2>3, ChatRaisesEffect
  <2>5. PhaseInv(t)'
    BY <2>1, <2>2, <2>3, <2>4 DEF TypeOK, TurnInv, PhaseInv, Busy
  <2>6. BillInv(t)'
    BY <2>1, <2>2, <2>3, <2>4, NothingFields DEF TypeOK, TurnInv, PhaseInv, BillInv, LockInv, Busy
  <2>7. LockInv(t)'
    BY <2>1, <2>2, <2>3, <2>4, NobodyAssumption, NothingFields DEF TypeOK, TurnInv,
       PhaseInv, BillInv, LockInv
  <2>8. QED
    BY <2>5, <2>6, <2>7
<1>4. CASE RunCrashes(t)
  <2>1. at[t] = "run" /\ mode[t] \in {"chat", "stream"} /\ (mode[t] = "stream" => degraded[t])
    BY <1>4 DEF RunCrashes, InRetries, TypeOK, Modes, TurnInv, PhaseInv
  <2>2. UNCHANGED <<mode, degraded, usageRows, messages, records, missed>>
    BY <1>4 DEF RunCrashes, storeVars
  <2>3. \/ ChatRaises(t)
        \/ /\ mode[t] = "stream" /\ at'[t] = "precommit" /\ answer'[t] = "friendly"
           /\ tx'[t] = Nothing /\ writer' # <<"req", t>>
    BY <1>4, UnlockEffect DEF RunCrashes, Goto, Tell, TypeOK
  <2>4. \/ /\ mode[t] = "chat" /\ at'[t] = "close" /\ answer'[t] = "error"
           /\ tx'[t] = Nothing /\ writer' # <<"req", t>>
        \/ /\ mode[t] # "chat" /\ at'[t] = "precommit" /\ answer'[t] = "friendly"
           /\ UNCHANGED <<tx, health, writer>>
        \/ /\ mode[t] = "stream" /\ at'[t] = "precommit" /\ answer'[t] = "friendly"
           /\ tx'[t] = Nothing /\ writer' # <<"req", t>>
    BY <2>3, ChatRaisesEffect
  <2>5. PhaseInv(t)'
    BY <2>1, <2>2, <2>3, <2>4 DEF TypeOK, TurnInv, PhaseInv, Busy
  <2>6. BillInv(t)'
    BY <2>1, <2>2, <2>3, <2>4, NothingFields DEF TypeOK, TurnInv, PhaseInv, BillInv, LockInv, Busy
  <2>7. LockInv(t)'
    BY <2>1, <2>2, <2>3, <2>4, NobodyAssumption, NothingFields DEF TypeOK, TurnInv,
       PhaseInv, BillInv, LockInv
  <2>8. QED
    BY <2>5, <2>6, <2>7
<1>5. CASE WriteUsage(t)
  <2>1. at[t] = "usage" /\ health[t] = "clean"
    BY <1>5 DEF WriteUsage
  <2>2. UNCHANGED <<mode, degraded, usageRows, messages, records, missed>> /\ UNCHANGED health
    BY <1>5 DEF WriteUsage, storeVars
  <2>3. tx \in [Turns -> TxType] /\ tx[t] \in TxType
    BY DEF TypeOK, TxType
  <2>4. tx'[t] = [tx[t] EXCEPT !.usage = 1]
    BY <1>5, <2>3 DEF WriteUsage
  <2>5. tx'[t].usage = 1 /\ tx'[t].saved = tx[t].saved
    BY <2>3, <2>4 DEF TxType
  <2>6. writer' = writer \/ writer' = <<"req", t>>
    BY <1>5 DEF WriteUsage, LockToInsert, Lock
  <2>7. \/ mode[t] = "chat" /\ at'[t] = "save" /\ UNCHANGED answer
        \/ mode[t] = "stream" /\ at'[t] = "precommit"
        \/ mode[t] = "tool" /\ at'[t] = "close"
    BY <1>5 DEF WriteUsage, Goto, TypeOK
  <2>8. PhaseInv(t)'
    BY <2>1, <2>2, <2>3, <2>4, <2>5, <2>6, <2>7 DEF TypeOK, TurnInv, PhaseInv, Busy
  <2>9. BillInv(t)'
    BY <2>1, <2>2, <2>3, <2>4, <2>5, <2>6, <2>7, NothingFields DEF TypeOK, TurnInv,
       PhaseInv, BillInv, LockInv, Busy
  <2>10. LockInv(t)'
    BY <2>1, <2>2, <2>3, <2>4, <2>5, <2>6, <2>7, NobodyAssumption, NothingFields DEF TypeOK,
       TurnInv, PhaseInv, BillInv, LockInv
  <2>11. QED
    BY <2>8, <2>9, <2>10
<1>6. CASE UsageFails(t)
  <2>1. at[t] = "usage"
    BY <1>6 DEF UsageFails
  <2>2. UNCHANGED <<mode, degraded, usageRows, messages, records, missed>>
    BY <1>6 DEF UsageFails, storeVars
  <2>3. tx'[t] = Nothing /\ writer' # <<"req", t>>
    BY <1>6, RollBackEffect DEF UsageFails
  <2>4. \/ mode[t] = "stream" /\ at'[t] = "precommit"
        \/ mode[t] # "stream" /\ at'[t] = "close" /\ answer'[t] = "error"
    BY <1>6 DEF UsageFails, Goto, Tell, TypeOK
  <2>5. PhaseInv(t)'
    BY <2>1, <2>2, <2>3, <2>4 DEF TypeOK, TurnInv, PhaseInv, Busy
  <2>6. BillInv(t)'
    BY <2>1, <2>2, <2>3, <2>4, NothingFields DEF TypeOK, TurnInv, PhaseInv, BillInv, LockInv, Busy
  <2>7. LockInv(t)'
    BY <2>1, <2>2, <2>3, <2>4, NobodyAssumption, NothingFields DEF TypeOK, TurnInv,
       PhaseInv, BillInv, LockInv
  <2>8. QED
    BY <2>5, <2>6, <2>7
<1>7. CASE SaveTurn(t)
  <2>1. at[t] = "save" /\ mode[t] = "chat"
    BY <1>7 DEF SaveTurn, TypeOK, Modes, TurnInv, PhaseInv, Busy
  <2>2. UNCHANGED <<mode, degraded, usageRows, messages, records, missed>> /\ UNCHANGED health
    BY <1>7 DEF SaveTurn, storeVars
  <2>3. tx \in [Turns -> TxType] /\ tx[t] \in TxType
    BY DEF TypeOK, TxType
  <2>4. \/ /\ tx'[t] = [tx[t] EXCEPT !.saved = "elsewhere"]
           /\ writer' = writer \/ writer' = <<"req", t>>
        \/ /\ \E row : tx'[t] = [tx[t] EXCEPT !.saved = "here", !.row = row]
           /\ writer' = <<"req", t>>
    BY <1>7, <2>3 DEF SaveTurn, LockToInsert, Lock
  <2>5. /\ tx'[t].usage = tx[t].usage
        /\ \/ tx'[t].saved = "elsewhere" /\ (writer' = writer \/ writer' = <<"req", t>>)
           \/ tx'[t].saved = "here" /\ writer' = <<"req", t>>
    BY <2>3, <2>4 DEF TxType
  <2>6. at'[t] = "close" /\ answer'[t] # "error"
    BY <1>7 DEF SaveTurn, Goto, Tell, Output, TypeOK
  <2>7. PhaseInv(t)'
    BY <2>1, <2>2, <2>3, <2>4, <2>5, <2>6 DEF TypeOK, TurnInv, PhaseInv, Busy
  <2>8. BillInv(t)'
    BY <2>1, <2>2, <2>3, <2>4, <2>5, <2>6, NothingFields DEF TypeOK, TurnInv, PhaseInv,
       BillInv, LockInv, Busy
  <2>9. LockInv(t)'
    BY <2>1, <2>2, <2>3, <2>4, <2>5, <2>6, NobodyAssumption, NothingFields DEF TypeOK,
       TurnInv, PhaseInv, BillInv, LockInv
  <2>10. QED
    BY <2>7, <2>8, <2>9
<1>8. CASE SaveFails(t)
  <2>1. at[t] = "save" /\ mode[t] = "chat"
    BY <1>8 DEF SaveFails, TypeOK, Modes, TurnInv, PhaseInv, Busy
  <2>2. UNCHANGED <<mode, degraded, usageRows, messages, records, missed>>
    BY <1>8 DEF SaveFails, storeVars
  <2>3. tx'[t] = Nothing /\ writer' # <<"req", t>>
    BY <1>8, RollBackEffect DEF SaveFails
  <2>4. at'[t] = "close" /\ answer'[t] = "error"
    BY <1>8 DEF SaveFails, Goto, Tell, TypeOK
  <2>5. PhaseInv(t)'
    BY <2>1, <2>2, <2>3, <2>4 DEF TypeOK, TurnInv, PhaseInv, Busy
  <2>6. BillInv(t)'
    BY <2>1, <2>2, <2>3, <2>4, NothingFields DEF TypeOK, TurnInv, PhaseInv, BillInv, LockInv, Busy
  <2>7. LockInv(t)'
    BY <2>1, <2>2, <2>3, <2>4, NobodyAssumption, NothingFields DEF TypeOK, TurnInv,
       PhaseInv, BillInv, LockInv
  <2>8. QED
    BY <2>5, <2>6, <2>7
<1>9. CASE PreCommit(t)
  <2>1. at[t] = "precommit" /\ mode[t] = "stream" /\ tx[t].saved # "here"
    BY <1>9 DEF PreCommit, TypeOK, Modes, TurnInv, PhaseInv, BillInv, Busy
  <2>2. UNCHANGED <<mode, degraded, answer, health>> /\ at'[t] = "persist"
    BY <1>9 DEF PreCommit, Goto, TypeOK
  <2>3. tx'[t] = Nothing
    BY <1>9 DEF PreCommit, TypeOK
  <2>4. /\ usageRows'[t] = usageRows[t] + tx[t].usage /\ (t \in messages' <=> t \in messages)
        /\ writer' # <<"req", t>>
    BY <1>9, <2>1, LandEffect DEF PreCommit
  <2>5. tx[t].usage \in 0..1 /\ usageRows[t] = 0
    BY <2>1 DEF TypeOK, TurnInv, BillInv
  <2>6. PhaseInv(t)'
    BY <2>1, <2>2, <2>3, <2>4, <2>5 DEF TypeOK, TurnInv, PhaseInv, Busy
  <2>7. BillInv(t)'
    BY <2>1, <2>2, <2>3, <2>4, <2>5, NothingFields DEF TypeOK, TurnInv, PhaseInv, BillInv,
       LockInv, Busy
  <2>8. LockInv(t)'
    BY <2>1, <2>2, <2>3, <2>4, <2>5, NobodyAssumption, NothingFields DEF TypeOK, TurnInv,
       PhaseInv, BillInv, LockInv
  <2>9. QED
    BY <2>6, <2>7, <2>8
<1>10. CASE PreCommitFails(t)
  <2>1. at[t] = "precommit" /\ mode[t] = "stream"
    BY <1>10 DEF PreCommitFails, TypeOK, Modes, TurnInv, PhaseInv, Busy
  <2>2. UNCHANGED <<mode, degraded, usageRows, messages, records, missed>> /\ at'[t] = "persist"
    BY <1>10 DEF PreCommitFails, storeVars, Goto, TypeOK
  <2>3. \/ health[t] = "broken" /\ UNCHANGED <<tx, health, writer>>
        \/ health[t] # "broken" /\ tx'[t] = Nothing /\ writer' # <<"req", t>>
    BY <1>10, UnlockEffect DEF PreCommitFails, TypeOK
  <2>4. PhaseInv(t)'
    BY <2>1, <2>2, <2>3 DEF TypeOK, TurnInv, PhaseInv, Busy
  <2>5. BillInv(t)'
    BY <2>1, <2>2, <2>3, NothingFields DEF TypeOK, TurnInv, PhaseInv, BillInv, LockInv, Busy
  <2>6. LockInv(t)'
    BY <2>1, <2>2, <2>3, NobodyAssumption, NothingFields DEF TypeOK, TurnInv, PhaseInv,
       BillInv, LockInv
  <2>7. QED
    BY <2>4, <2>5, <2>6
<1>11. CASE PersistCommit(t)
  <2>1. at[t] = "own commit" /\ mode[t] = "stream"
    BY <1>11 DEF PersistCommit, TypeOK, TurnInv, DraftInv
  <2>2. UNCHANGED <<mode, degraded, answer, health, tx>> /\ at'[t] = "close"
    BY <1>11 DEF PersistCommit, Goto, TypeOK
  <2>3. usageRows'[t] = IF degraded[t] THEN usageRows[t] ELSE usageRows[t] + 1
    BY <1>11 DEF PersistCommit, Billed, TypeOK
  <2>4. usageRows[t] \in 0..2 /\ (usageRows[t] # 0 => usageRows[t] = 1 /\ degraded[t])
    BY <2>1 DEF TypeOK, TurnInv, BillInv
  <2>5. degraded[t] => usageRows'[t] = usageRows[t]
    BY <2>3
  <2>6. ~degraded[t] => usageRows'[t] = usageRows[t] + 1
    BY <2>3
  <2>7. ~degraded[t] => usageRows'[t] = 1
    BY <2>4, <2>6
  <2>8. usageRows'[t] # 0 => usageRows'[t] = 1
    BY <2>4, <2>5, <2>7
  <2>9. writer' # <<"own", t>> /\ (writer' = writer \/ writer' = Nobody)
    BY <1>11, UnlockEffect DEF PersistCommit
  <2>10. PhaseInv(t)'
    BY <2>1, <2>2, <2>3, <2>4, <2>5, <2>6, <2>7, <2>8, <2>9 DEF TypeOK, TurnInv, PhaseInv, Busy
  <2>11. BillInv(t)'
    BY <2>1, <2>2, <2>3, <2>4, <2>5, <2>6, <2>7, <2>8, <2>9, NothingFields DEF TypeOK,
       TurnInv, PhaseInv, BillInv, LockInv, Busy
  <2>12. LockInv(t)'
    BY <2>1, <2>2, <2>3, <2>4, <2>5, <2>6, <2>7, <2>8, <2>9, NobodyAssumption, NothingFields
       DEF TypeOK, TurnInv, PhaseInv, BillInv, LockInv
  <2>13. QED
    BY <2>10, <2>11, <2>12
<1>12. CASE Disconnect(t)
  <2>1. at[t] \in Busy /\ mode[t] = "stream" /\ at'[t] = "close"
    BY <1>12 DEF Disconnect, Goto, TypeOK, Modes, TurnInv, PhaseInv, Busy
  <2>2. UNCHANGED <<mode, degraded, usageRows, messages, records, missed>> /\ UNCHANGED <<answer, health, tx>>
    BY <1>12 DEF Disconnect, storeVars
  <2>3. writer' # <<"own", t>> /\ (writer' = writer \/ writer' = Nobody)
    BY <1>12, UnlockEffect DEF Disconnect
  <2>4. PhaseInv(t)'
    BY <2>1, <2>2, <2>3 DEF TypeOK, TurnInv, PhaseInv, Busy
  <2>5. BillInv(t)'
    BY <2>1, <2>2, <2>3, NothingFields DEF TypeOK, TurnInv, PhaseInv, BillInv, LockInv, Busy
  <2>6. LockInv(t)'
    BY <2>1, <2>2, <2>3, NobodyAssumption, NothingFields DEF TypeOK, TurnInv, PhaseInv,
       BillInv, LockInv
  <2>7. QED
    BY <2>4, <2>5, <2>6
<1>13. QED
  BY <1>1, <1>2, <1>3, <1>4, <1>5, <1>6, <1>7, <1>8, <1>9, <1>10, <1>11, <1>12


LEMMA PhaseStep ==
    ASSUME TypeOK, NEW t \in Turns, TurnInv(t), Progress(t) \/ Trouble(t)
    PROVE  PhaseInv(t)'
<1>1. CASE ChatLoads(t)
  BY <1>1, NothingFields DEF ChatLoads, ReadRow, Goto, TypeOK, TurnInv, PhaseInv, Busy,
     storeVars, Publishes
<1>2. CASE StreamLoads(t)
  BY <1>2, NothingFields DEF StreamLoads, ReadRow, Goto, TypeOK, TurnInv, PhaseInv, Busy,
     storeVars, Publishes
<1>3. CASE DeleteLoads(t)
  BY <1>3, NothingFields DEF DeleteLoads, ReadRow, Goto, TypeOK, TurnInv, PhaseInv, Busy,
     storeVars, Publishes
<1>4. CASE Repair(t)
  BY <1>4, NothingFields DEF Repair, Goto, TypeOK, TurnInv, PhaseInv, Busy, storeVars, Publishes
<1>5. CASE StreamReturns(t)
  BY <1>5, NothingFields DEF StreamReturns, Goto, TypeOK, TurnInv, PhaseInv, Busy,
     storeVars, Publishes
<1>6. CASE StreamFallsBack(t)
  BY <1>6, NothingFields DEF StreamFallsBack, TypeOK, TurnInv, PhaseInv, Busy, storeVars,
     Publishes
<1>7. CASE StreamErrs(t)
  BY <1>7, NothingFields DEF StreamErrs, Goto, TypeOK, TurnInv, PhaseInv, Busy, storeVars,
     Publishes
<1>8. CASE PersistLoad(t)
  BY <1>8, NothingFields DEF PersistLoad, Goto, TypeOK, TurnInv, PhaseInv, Busy, storeVars,
     Publishes
<1>9. CASE PersistTouch(t)
  BY <1>9, NothingFields DEF PersistTouch, Goto, TypeOK, TurnInv, PhaseInv, Busy, storeVars,
     Publishes
<1>10. CASE ToolRuns(t)
  BY <1>10, NothingFields DEF ToolRuns, Goto, TypeOK, TurnInv, PhaseInv, Busy, storeVars,
     Publishes
<1>11. CASE Delete(t)
  BY <1>11, NothingFields DEF Delete, Goto, TypeOK, TurnInv, PhaseInv, Busy, storeVars, Publishes
<1>12. CASE Close(t)
  BY <1>12, NothingFields DEF Close, Goto, TypeOK, TurnInv, PhaseInv, Busy, storeVars, Publishes
<1>13. CASE PersistRefused(t)
  BY <1>13, NothingFields DEF PersistRefused, Goto, TypeOK, TurnInv, PhaseInv, Busy,
     storeVars, Publishes
<1>14. CASE PersistFails(t)
  BY <1>14, NothingFields DEF PersistFails, Goto, TypeOK, TurnInv, PhaseInv, Busy,
     storeVars, Publishes
<1>15. CASE ToolFails(t)
  BY <1>15, NothingFields DEF ToolFails, Goto, TypeOK, TurnInv, PhaseInv, Busy, storeVars,
     Publishes
<1>16. CASE DeleteFails(t)
  BY <1>16, NothingFields DEF DeleteFails, Goto, TypeOK, TurnInv, PhaseInv, Busy, storeVars,
     Publishes
<1>17. CASE CloseFails(t)
  BY <1>17, NothingFields DEF CloseFails, Goto, TypeOK, TurnInv, PhaseInv, Busy, storeVars,
     Publishes
<1>18. QED
  BY HardStep, <1>1, <1>2, <1>3, <1>4, <1>5, <1>6, <1>7, <1>8, <1>9, <1>10, <1>11, <1>12,
     <1>13, <1>14, <1>15, <1>16, <1>17 DEF Progress, Trouble


LEMMA BillStep ==
    ASSUME TypeOK, NEW t \in Turns, TurnInv(t), Progress(t) \/ Trouble(t)
    PROVE  BillInv(t)'
<1>1. CASE ChatLoads(t)
  BY <1>1, NothingFields DEF ChatLoads, ReadRow, Goto, TypeOK, TurnInv, PhaseInv, BillInv,
     Busy, storeVars
<1>2. CASE StreamLoads(t)
  BY <1>2, NothingFields DEF StreamLoads, ReadRow, Goto, TypeOK, TurnInv, PhaseInv, BillInv,
     Busy, storeVars
<1>3. CASE DeleteLoads(t)
  BY <1>3, NothingFields DEF DeleteLoads, ReadRow, Goto, Tell, TypeOK, TurnInv, PhaseInv,
     BillInv, Busy, storeVars
<1>4. CASE Repair(t)
  BY <1>4, NothingFields, ToolEffect DEF Repair, Goto, TypeOK, TurnInv, PhaseInv, BillInv,
     Busy, storeVars
<1>5. CASE StreamReturns(t)
  BY <1>5, NothingFields, ToolEffect DEF StreamReturns, Goto, Tell, TypeOK, TurnInv,
     PhaseInv, BillInv, Busy, storeVars
<1>6. CASE StreamFallsBack(t)
  BY <1>6, NothingFields, ToolEffect DEF StreamFallsBack, TypeOK, TurnInv, PhaseInv,
     BillInv, Busy, storeVars
<1>7. CASE StreamErrs(t)
  BY <1>7, NothingFields, ToolEffect DEF StreamErrs, Goto, Tell, TypeOK, TurnInv, PhaseInv,
     BillInv, Busy, storeVars
<1>8. CASE PersistLoad(t)
  BY <1>8, NothingFields DEF PersistLoad, Goto, TypeOK, TurnInv, PhaseInv, BillInv, Busy,
     storeVars
<1>9. CASE PersistTouch(t)
  BY <1>9, NothingFields DEF PersistTouch, Goto, TypeOK, TurnInv, PhaseInv, BillInv, Busy,
     storeVars
<1>10. CASE ToolRuns(t)
  BY <1>10, NothingFields, ToolEffect DEF ToolRuns, Goto, TypeOK, TurnInv, PhaseInv,
     BillInv, Busy, storeVars
<1>11. CASE Delete(t)
  BY <1>11, NothingFields DEF Delete, Goto, Tell, Remaining, TypeOK, TurnInv, PhaseInv,
     BillInv, Busy, storeVars
<1>12. CASE Close(t)
  BY <1>12, NothingFields, LandEffect DEF Close, Goto, TypeOK, TurnInv, PhaseInv, BillInv,
     Busy, storeVars
<1>13. CASE PersistRefused(t)
  BY <1>13, NothingFields DEF PersistRefused, Goto, Tell, TypeOK, TurnInv, PhaseInv,
     BillInv, Busy, storeVars
<1>14. CASE PersistFails(t)
  BY <1>14, NothingFields DEF PersistFails, Goto, TypeOK, TurnInv, PhaseInv, BillInv, Busy,
     storeVars
<1>15. CASE ToolFails(t)
  BY <1>15, NothingFields, RollBackEffect DEF ToolFails, Goto, Tell, TypeOK, TurnInv,
     PhaseInv, BillInv, Busy, storeVars
<1>16. CASE DeleteFails(t)
  BY <1>16, NothingFields, RollBackEffect DEF DeleteFails, Goto, Tell, TypeOK, TurnInv,
     PhaseInv, BillInv, Busy, storeVars
<1>17. CASE CloseFails(t)
  BY <1>17, NothingFields, RollBackEffect DEF CloseFails, Goto, TypeOK, TurnInv, PhaseInv,
     BillInv, Busy, storeVars
<1>18. QED
  BY HardStep, <1>1, <1>2, <1>3, <1>4, <1>5, <1>6, <1>7, <1>8, <1>9, <1>10, <1>11, <1>12,
     <1>13, <1>14, <1>15, <1>16, <1>17 DEF Progress, Trouble


LEMMA LockStep ==
    ASSUME TypeOK, NEW t \in Turns, TurnInv(t), Progress(t) \/ Trouble(t)
    PROVE  LockInv(t)'
<1>1. CASE ChatLoads(t)
  BY <1>1, NothingFields DEF ChatLoads, ReadRow, Goto, TypeOK, TurnInv, PhaseInv, LockInv,
     BillInv, Busy, storeVars
<1>2. CASE StreamLoads(t)
  BY <1>2, NothingFields DEF StreamLoads, ReadRow, Goto, TypeOK, TurnInv, PhaseInv, LockInv,
     BillInv, Busy, storeVars
<1>3. CASE DeleteLoads(t)
  <2>1. UNCHANGED <<health, tx, writer>> /\ at'[t] \in {"delete", "close"} /\ at[t] = "load"
    BY <1>3, Goes DEF DeleteLoads, ReadRow
  <2>2. QED
    BY <2>1 DEF TurnInv, LockInv
<1>4. CASE Repair(t)
  BY <1>4, NothingFields, ToolEffect, UnlockEffect DEF Repair, Goto, TypeOK, TurnInv,
     PhaseInv, LockInv, BillInv, Busy, storeVars
<1>5. CASE StreamReturns(t)
  BY <1>5, NothingFields, ToolEffect DEF StreamReturns, Goto, TypeOK, TurnInv, PhaseInv,
     LockInv, BillInv, Busy, storeVars
<1>6. CASE StreamFallsBack(t)
  BY <1>6, NothingFields, ToolEffect DEF StreamFallsBack, TypeOK, TurnInv, PhaseInv,
     LockInv, BillInv, Busy, storeVars
<1>7. CASE StreamErrs(t)
  BY <1>7, NothingFields, ToolEffect, UnlockEffect DEF StreamErrs, Goto, TypeOK, TurnInv,
     PhaseInv, LockInv, BillInv, Busy, storeVars
<1>8. CASE PersistLoad(t)
  BY <1>8, NothingFields DEF PersistLoad, Goto, Lock, TypeOK, TurnInv, PhaseInv, LockInv,
     BillInv, Busy, storeVars
<1>9. CASE PersistTouch(t)
  BY <1>9, NothingFields DEF PersistTouch, Goto, Lock, TypeOK, TurnInv, PhaseInv, LockInv,
     BillInv, Busy, storeVars
<1>10. CASE ToolRuns(t)
  BY <1>10, NothingFields, ToolEffect DEF ToolRuns, Goto, TypeOK, TurnInv, PhaseInv,
     LockInv, BillInv, Busy, storeVars
<1>11. CASE Delete(t)
  BY <1>11, NothingFields DEF Delete, Goto, TypeOK, TurnInv, PhaseInv, LockInv, BillInv,
     Busy, storeVars
<1>12. CASE Close(t)
  BY <1>12, NothingFields, LandEffect DEF Close, Goto, TypeOK, TurnInv, PhaseInv, LockInv,
     BillInv, Busy, storeVars
<1>13. CASE PersistRefused(t)
  BY <1>13, NothingFields DEF PersistRefused, Goto, TypeOK, TurnInv, PhaseInv, LockInv,
     BillInv, Busy, storeVars
<1>14. CASE PersistFails(t)
  BY <1>14, NothingFields, UnlockEffect DEF PersistFails, Goto, TypeOK, TurnInv, PhaseInv,
     LockInv, BillInv, Busy, storeVars
<1>15. CASE ToolFails(t)
  BY <1>15, NothingFields, RollBackEffect DEF ToolFails, Goto, TypeOK, TurnInv, PhaseInv,
     LockInv, BillInv, Busy, storeVars
<1>16. CASE DeleteFails(t)
  BY <1>16, NothingFields, RollBackEffect DEF DeleteFails, Goto, TypeOK, TurnInv, PhaseInv,
     LockInv, BillInv, Busy, storeVars
<1>17. CASE CloseFails(t)
  BY <1>17, NothingFields, RollBackEffect DEF CloseFails, Goto, TypeOK, TurnInv, PhaseInv,
     LockInv, BillInv, Busy, storeVars
<1>18. QED
  BY HardStep, <1>1, <1>2, <1>3, <1>4, <1>5, <1>6, <1>7, <1>8, <1>9, <1>10, <1>11, <1>12,
     <1>13, <1>14, <1>15, <1>16, <1>17 DEF Progress, Trouble

LEMMA OthersKeep ==
    ASSUME TypeOK, NEW t \in Turns, Progress(t) \/ Trouble(t), NEW u \in Turns \ {t},
           PhaseInv(u), BillInv(u), LockInv(u), missed'[u] = missed[u] \/ at[u] # "load"
    PROVE  PhaseInv(u)' /\ BillInv(u)' /\ LockInv(u)'
<1>1. SameTurn(u) /\ mode' = mode /\ SameLock(u)
  BY Frame, FrameLock
<1>2. PhaseInv(u)'
  BY <1>1 DEF SameTurn, PhaseInv
<1>3. BillInv(u)'
  BY <1>1 DEF SameTurn, BillInv
<1>4. LockInv(u)'
  BY <1>1 DEF SameTurn, SameLock, LockInv
<1>5. QED
  BY <1>2, <1>3, <1>4

\* What others are seen to have missed changes only when they are under way.
LEMMA PublishesMisses ==
    ASSUME TypeOK, NEW t \in Turns, Publishes(t), NEW u \in Turns
    PROVE  /\ u # t /\ at[u] \notin {"load", "close", "done"} => missed'[u] = missed[u] \cup {t}
           /\ u = t \/ at[u] \in {"load", "close", "done"} => missed'[u] = missed[u]
BY DEF Publishes

LEMMA LoadEffect ==
    ASSUME TypeOK, NEW t \in Turns, TurnInv(t), Progress(t) \/ Trouble(t), at[t] = "load"
    PROVE  seen'[t] = conv /\ missed[t] = {} /\ Silent
<1>1. ChatLoads(t) \/ StreamLoads(t) \/ DeleteLoads(t)
  BY DEF TurnInv, PhaseInv, Progress, Trouble, RunReturns, RunRejected, RunRefused, RunCrashes,
     InRetries, Repair, WriteUsage, SaveTurn, StreamReturns, StreamFallsBack, StreamErrs,
     PreCommit, PersistLoad, PersistTouch, PersistCommit, ToolRuns, Delete, Close, UsageFails,
     SaveFails, PreCommitFails, PersistRefused, PersistFails, Disconnect, ToolFails,
     DeleteFails, CloseFails
<1>2. QED
  BY <1>1 DEF ChatLoads, StreamLoads, DeleteLoads, ReadRow, TypeOK, TurnInv, PhaseInv,
     Silent, storeVars

LEMMA SeenStep ==
    ASSUME TypeOK, NEW t \in Turns, Progress(t) \/ Trouble(t), at[t] # "load", ~PersistLoad(t)
    PROVE  seen'[t] = seen[t]
<1>1. CASE ChatLoads(t)
  BY <1>1 DEF ChatLoads, ReadRow
<1>2. CASE StreamLoads(t)
  BY <1>2 DEF StreamLoads, ReadRow
<1>3. CASE DeleteLoads(t)
  BY <1>3 DEF DeleteLoads, ReadRow
<1>4. CASE RunReturns(t)
  BY <1>4 DEF RunReturns
<1>5. CASE RunRejected(t)
  BY <1>5 DEF RunRejected
<1>6. CASE RunRefused(t)
  BY <1>6 DEF RunRefused
<1>7. CASE RunCrashes(t)
  BY <1>7 DEF RunCrashes
<1>8. CASE Repair(t)
  BY <1>8 DEF Repair
<1>9. CASE WriteUsage(t)
  BY <1>9 DEF WriteUsage
<1>10. CASE SaveTurn(t)
  BY <1>10 DEF SaveTurn
<1>11. CASE StreamReturns(t)
  BY <1>11 DEF StreamReturns
<1>12. CASE StreamFallsBack(t)
  BY <1>12 DEF StreamFallsBack
<1>13. CASE StreamErrs(t)
  BY <1>13 DEF StreamErrs
<1>14. CASE PreCommit(t)
  BY <1>14 DEF PreCommit
<1>15. CASE PersistTouch(t)
  BY <1>15 DEF PersistTouch
<1>16. CASE PersistCommit(t)
  BY <1>16 DEF PersistCommit
<1>17. CASE ToolRuns(t)
  BY <1>17 DEF ToolRuns
<1>18. CASE Delete(t)
  BY <1>18 DEF Delete
<1>19. CASE Close(t)
  BY <1>19 DEF Close
<1>20. CASE UsageFails(t)
  BY <1>20 DEF UsageFails
<1>21. CASE SaveFails(t)
  BY <1>21 DEF SaveFails
<1>22. CASE PreCommitFails(t)
  BY <1>22 DEF PreCommitFails
<1>23. CASE PersistRefused(t)
  BY <1>23 DEF PersistRefused
<1>24. CASE PersistFails(t)
  BY <1>24 DEF PersistFails
<1>25. CASE Disconnect(t)
  BY <1>25 DEF Disconnect
<1>26. CASE ToolFails(t)
  BY <1>26 DEF ToolFails
<1>27. CASE DeleteFails(t)
  BY <1>27 DEF DeleteFails
<1>28. CASE CloseFails(t)
  BY <1>28 DEF CloseFails
<1>29. QED
  BY <1>1, <1>2, <1>3, <1>4, <1>5, <1>6, <1>7, <1>8, <1>9, <1>10, <1>11, <1>12, <1>13,
     <1>14, <1>15, <1>16, <1>17, <1>18, <1>19, <1>20, <1>21, <1>22, <1>23, <1>24, <1>25,
     <1>26, <1>27, <1>28 DEF Progress, Trouble

\* Only these two steps make a row that is to be committed.
LEMMA DraftStep ==
    ASSUME TypeOK, NEW t \in Turns, TurnInv(t), Progress(t) \/ Trouble(t), at[t] \notin {"close", "done"}
    PROVE  /\ tx'[t].saved = "here" => SaveTurn(t)
           /\ at'[t] = "own commit" => PersistTouch(t)
<1>0. tx[t].saved # "here"
  BY DEF TurnInv, BillInv
<1>1. CASE ChatLoads(t)
  BY <1>1, <1>0, NothingFields DEF ChatLoads, ReadRow, Goto, TypeOK
<1>2. CASE StreamLoads(t)
  BY <1>2, <1>0, NothingFields DEF StreamLoads, ReadRow, Goto, TypeOK
<1>3. CASE DeleteLoads(t)
  BY <1>3, <1>0, NothingFields DEF DeleteLoads, ReadRow, Goto, TypeOK
<1>4. CASE RunRefused(t)
  <2>1. CASE ChatRaises(t)
    BY <1>0, <2>1, ChatRaisesEffect, NothingFields
  <2>2. CASE Goto(t, "usage") /\ UNCHANGED tx
    BY <1>0, <2>2, Goes
  <2>3. QED
    BY <1>4, <2>1, <2>2 DEF RunRefused
<1>5. CASE SaveTurn(t)
  BY <1>5, <1>0, NothingFields DEF SaveTurn, Goto, TypeOK
<1>6. CASE StreamReturns(t)
  BY <1>6, <1>0, ToolEffect, NothingFields DEF StreamReturns, Goto, TypeOK
<1>7. CASE StreamFallsBack(t)
  BY <1>7, <1>0, ToolEffect, NothingFields DEF StreamFallsBack, Goto, TypeOK
<1>8. CASE PreCommit(t)
  BY <1>8, <1>0, NothingFields DEF PreCommit, Goto, TypeOK
<1>9. CASE PersistLoad(t)
  BY <1>9, <1>0, NothingFields DEF PersistLoad, Goto, TypeOK
<1>10. CASE PersistCommit(t)
  BY <1>10, <1>0, NothingFields DEF PersistCommit, Goto, TypeOK
<1>11. CASE ToolRuns(t)
  BY <1>11, <1>0, ToolEffect, NothingFields DEF ToolRuns, Goto, TypeOK
<1>12. CASE Delete(t)
  BY <1>12, <1>0, NothingFields DEF Delete, Goto, TypeOK
<1>13. CASE Close(t)
  BY <1>13, <1>0, NothingFields DEF Close, Goto, TypeOK
<1>14. CASE UsageFails(t)
  <2>1. RollBack(t) /\ (Goto(t, "precommit") \/ Goto(t, "close"))
    BY <1>14 DEF UsageFails
  <2>2. QED
    BY <1>0, <2>1, Goes, RollBackEffect, NothingFields
<1>15. CASE SaveFails(t)
  BY <1>15, <1>0, RollBackEffect, NothingFields DEF SaveFails, Goto, TypeOK
<1>16. CASE PersistRefused(t)
  BY <1>16, <1>0, NothingFields DEF PersistRefused, Goto, TypeOK
<1>17. CASE PersistFails(t)
  BY <1>17, <1>0, NothingFields DEF PersistFails, Goto, TypeOK
<1>18. CASE Disconnect(t)
  BY <1>18, <1>0, NothingFields DEF Disconnect, Goto, TypeOK
<1>19. CASE ToolFails(t)
  BY <1>19, <1>0, RollBackEffect, NothingFields DEF ToolFails, Goto, TypeOK
<1>20. CASE DeleteFails(t)
  BY <1>20, <1>0, RollBackEffect, NothingFields DEF DeleteFails, Goto, TypeOK
<1>21. CASE CloseFails(t)
  BY <1>21, <1>0, RollBackEffect, NothingFields DEF CloseFails, Goto, TypeOK
<1>22. CASE WriteUsage(t)
  <2>1. tx \in [Turns -> TxType] /\ tx[t] \in TxType
    BY DEF TypeOK, TxType
  <2>2. tx'[t] = [tx[t] EXCEPT !.usage = 1]
    BY <1>22, <2>1 DEF WriteUsage
  <2>3. tx'[t].saved = tx[t].saved
    BY <2>1, <2>2 DEF TxType
  <2>4. at'[t] # "own commit"
    BY <1>22 DEF WriteUsage, Goto, TypeOK
  <2>5. QED
    BY <1>0, <2>3, <2>4
<1>23. CASE RunReturns(t)
  <2>1. tx'[t].saved = tx[t].saved
    BY <1>23, ToolEffect DEF RunReturns
  <2>2. at'[t] # "own commit"
    <3>1. at[t] = "run" /\ (at' = at \/ \E phase \in {"usage", "repair"} : Goto(t, phase))
      BY <1>23 DEF RunReturns, InRetries, Retry, NoRetry
    <3>2. QED
      BY <3>1, Goes
  <2>3. QED
    BY <1>0, <2>1, <2>2
<1>24. CASE RunRejected(t)
  <2>1. tx'[t].saved = tx[t].saved
    BY <1>24, ToolEffect DEF RunRejected
  <2>2. at'[t] # "own commit"
    <3>1. at[t] = "run" /\ (at' = at \/ Goto(t, "usage"))
      BY <1>24 DEF RunRejected, InRetries, Retry, NoRetry
    <3>2. QED
      BY <3>1, Goes
  <2>3. QED
    BY <1>0, <2>1, <2>2
<1>25. CASE Repair(t)
  <2>1. tx'[t].saved = tx[t].saved \/ tx'[t] = Nothing
    BY <1>25, ToolEffect DEF Repair, TypeOK
  <2>2. at'[t] # "own commit"
    BY <1>25 DEF Repair, Goto, TypeOK
  <2>3. QED
    BY <1>0, <2>1, <2>2, NothingFields
<1>26. CASE StreamErrs(t)
  <2>1. tx'[t].saved = tx[t].saved \/ tx'[t] = Nothing
    BY <1>26, ToolEffect DEF StreamErrs, TypeOK
  <2>2. at'[t] # "own commit"
    BY <1>26 DEF StreamErrs, Goto, TypeOK
  <2>3. QED
    BY <1>0, <2>1, <2>2, NothingFields
<1>27. CASE RunCrashes(t)
  <2>1. tx'[t] = tx[t] \/ tx'[t] = Nothing
    BY <1>27, ChatRaisesEffect DEF RunCrashes, TypeOK
  <2>2. at'[t] # "own commit"
    <3>1. ChatRaises(t) \/ Goto(t, "precommit")
      BY <1>27 DEF RunCrashes
    <3>2. QED
      BY <3>1, ChatRaisesEffect, Goes
  <2>3. QED
    BY <1>0, <2>1, <2>2, NothingFields
<1>28. CASE PreCommitFails(t)
  <2>1. tx'[t] = tx[t] \/ tx'[t] = Nothing
    BY <1>28 DEF PreCommitFails, TypeOK
  <2>2. at'[t] # "own commit"
    BY <1>28 DEF PreCommitFails, Goto, TypeOK
  <2>3. QED
    BY <1>0, <2>1, <2>2, NothingFields
<1>29. CASE PersistTouch(t)
  BY <1>29, <1>0 DEF PersistTouch
<1>30. QED
  BY <1>1, <1>2, <1>3, <1>4, <1>5, <1>6, <1>7, <1>8, <1>9, <1>10, <1>11, <1>12, <1>13,
     <1>14, <1>15, <1>16, <1>17, <1>18, <1>19, <1>20, <1>21, <1>22, <1>23, <1>24, <1>25,
     <1>26, <1>27, <1>28, <1>29 DEF Progress, Trouble

LEMMA ModeKept ==
    ASSUME NEW t \in Turns, Progress(t) \/ Trouble(t)
    PROVE  mode' = mode
<1>1. CASE ChatLoads(t)
  BY <1>1 DEF ChatLoads, ReadRow
<1>2. CASE StreamLoads(t)
  BY <1>2 DEF StreamLoads, ReadRow
<1>3. CASE DeleteLoads(t)
  BY <1>3 DEF DeleteLoads, ReadRow
<1>4. CASE RunReturns(t)
  BY <1>4 DEF RunReturns
<1>5. CASE RunRejected(t)
  BY <1>5 DEF RunRejected
<1>6. CASE RunRefused(t)
  BY <1>6 DEF RunRefused
<1>7. CASE RunCrashes(t)
  BY <1>7 DEF RunCrashes
<1>8. CASE Repair(t)
  BY <1>8 DEF Repair
<1>9. CASE WriteUsage(t)
  BY <1>9 DEF WriteUsage
<1>10. CASE SaveTurn(t)
  BY <1>10 DEF SaveTurn
<1>11. CASE StreamReturns(t)
  BY <1>11 DEF StreamReturns
<1>12. CASE StreamFallsBack(t)
  BY <1>12 DEF StreamFallsBack
<1>13. CASE StreamErrs(t)
  BY <1>13 DEF StreamErrs
<1>14. CASE PreCommit(t)
  BY <1>14 DEF PreCommit
<1>15. CASE PersistLoad(t)
  BY <1>15 DEF PersistLoad
<1>16. CASE PersistTouch(t)
  BY <1>16 DEF PersistTouch
<1>17. CASE PersistCommit(t)
  BY <1>17 DEF PersistCommit
<1>18. CASE ToolRuns(t)
  BY <1>18 DEF ToolRuns
<1>19. CASE Delete(t)
  BY <1>19 DEF Delete
<1>20. CASE Close(t)
  BY <1>20 DEF Close
<1>21. CASE UsageFails(t)
  BY <1>21 DEF UsageFails
<1>22. CASE SaveFails(t)
  BY <1>22 DEF SaveFails
<1>23. CASE PreCommitFails(t)
  BY <1>23 DEF PreCommitFails
<1>24. CASE PersistRefused(t)
  BY <1>24 DEF PersistRefused
<1>25. CASE PersistFails(t)
  BY <1>25 DEF PersistFails
<1>26. CASE Disconnect(t)
  BY <1>26 DEF Disconnect
<1>27. CASE ToolFails(t)
  BY <1>27 DEF ToolFails
<1>28. CASE DeleteFails(t)
  BY <1>28 DEF DeleteFails
<1>29. CASE CloseFails(t)
  BY <1>29 DEF CloseFails
<1>30. QED
  BY <1>1, <1>2, <1>3, <1>4, <1>5, <1>6, <1>7, <1>8, <1>9, <1>10, <1>11, <1>12, <1>13,
     <1>14, <1>15, <1>16, <1>17, <1>18, <1>19, <1>20, <1>21, <1>22, <1>23, <1>24, <1>25,
     <1>26, <1>27, <1>28, <1>29 DEF Progress, Trouble

LEMMA SavedTurns == TypeOK => Saved \subseteq Turns
<1> SUFFICES ASSUME TypeOK PROVE Saved \subseteq Turns
  OBVIOUS
<1>1. log \in Seq(Turns) /\ DOMAIN log = 1 .. Len(log)
  BY DEF TypeOK
<1>2. \A i \in 1 .. Len(log) : log[i] \in Turns
  BY <1>1
<1>3. QED
  BY <1>1, <1>2 DEF Saved, ToSet

-----------------------------------------------------------------------------
(* The history of the conversation                                         *)

\* A step that stores nothing, and at most renews what the turn itself has read.
Quiet(t) ==
  /\ UNCHANGED <<conv, messages, log>>
  /\ \A v \in Turns : v # t => missed'[v] = missed[v]
  /\ t \in Saved => missed'[t] = missed[t]

\* A stored turn and what it missed stand.
LEMMA SavedStands ==
    ASSUME TypeOK, NEW t \in Turns, Progress(t) \/ Trouble(t), \A v \in Turns : TurnInv(v),
           NEW u \in Turns, u \in Saved
    PROVE  /\ result'[u] = result[u] /\ at'[u] \in {"close", "done"} /\ tx'[u].saved # "here"
           /\ mode'[u] = mode[u]
<1>1. at[u] \in {"close", "done"} /\ tx[u].saved # "here"
  BY DEF TurnInv, SightInv
<1>2. CASE u = t
  BY <1>1, <1>2, Ended, NothingFields, ModeKept
<1>3. CASE u # t
  BY <1>1, <1>3, Frame DEF SameTurn
<1>4. QED
  BY <1>2, <1>3

LEMMA QuietHistory ==
    ASSUME TypeOK, NEW t \in Turns, Progress(t) \/ Trouble(t), Quiet(t)
    PROVE  /\ Saved' = Saved
           /\ \A u : Explained(u)' <=> Explained(u)
           /\ Haunted' <=> Haunted
<1>1. mode' = mode /\ log' = log
  BY ModeKept DEF Quiet
<1>2. Saved' = Saved /\ \A u, v : Later(u, v)' <=> Later(u, v)
  BY <1>1 DEF Saved, ToSet, Later
<1>3. \A v \in Saved : missed'[v] = missed[v]
  <2>1. Saved \subseteq Turns
    BY SavedTurns
  <2>2. QED
    BY <2>1 DEF Quiet
<1>4. \A u : Explained(u)' <=> Explained(u)
  BY <1>1, <1>2, <1>3 DEF Explained
<1>5. Haunted' <=> Haunted
  BY <1>1, <1>2, <1>3 DEF Haunted, Deletes
<1>6. QED
  BY <1>2, <1>4, <1>5

\* What was found to be later, explained or haunted stays so when a turn is added.
LEMMA StoredHistory ==
    ASSUME TypeOK, NEW t \in Turns, Progress(t) \/ Trouble(t), \A v \in Turns : TurnInv(v),
           t \notin Saved, log' = Append(log, t), Publishes(t)
    PROVE  /\ Saved' = Saved \cup {t}
           /\ \A u \in Saved : Later(u, t)'
           /\ \A u : Explained(u) => Explained(u)'
           /\ Haunted => Haunted'
           /\ missed'[t] = missed[t]
           /\ \A v \in Saved : missed'[v] = missed[v]
<1>1. mode' = mode /\ log \in Seq(Turns)
  BY ModeKept DEF TypeOK
<1>2. /\ Len(log') = Len(log) + 1 /\ log'[Len(log) + 1] = t
      /\ \A i \in 1 .. Len(log) : log'[i] = log[i]
      /\ DOMAIN log = 1 .. Len(log) /\ DOMAIN log' = 1 .. Len(log) + 1 /\ Len(log) \in Nat
  BY <1>1, AppendProperties, LenProperties
<1>3. Saved' = Saved \cup {t}
  BY <1>2 DEF Saved, ToSet
<1>4. \A u \in Saved : Later(u, t)'
  <2>1. SUFFICES ASSUME NEW u \in Saved PROVE Later(u, t)'
    OBVIOUS
  <2>2. PICK i \in 1 .. Len(log) : log[i] = u
    BY <1>2 DEF Saved, ToSet
  <2>3. i < Len(log) + 1 /\ i \in DOMAIN log' /\ Len(log) + 1 \in DOMAIN log'
    BY <1>2
  <2>4. QED
    BY <1>2, <2>2, <2>3 DEF Later
<1>5. \A u, v : Later(u, v) => Later(u, v)'
  <2>1. SUFFICES ASSUME NEW u, NEW v, Later(u, v) PROVE Later(u, v)'
    OBVIOUS
  <2>2. PICK i, j \in 1 .. Len(log) : i < j /\ log[i] = u /\ log[j] = v
    BY <1>2, <2>1 DEF Later
  <2>3. i \in DOMAIN log' /\ j \in DOMAIN log' /\ log'[i] = u /\ log'[j] = v
    BY <1>2, <2>2
  <2>4. QED
    BY <2>2, <2>3 DEF Later
<1>6. \A v \in Saved : missed'[v] = missed[v]
  BY SavedTurns, PublishesMisses DEF TurnInv, SightInv
<1>7. \A u : Explained(u) => Explained(u)'
  BY <1>1, <1>3, <1>5, <1>6 DEF Explained
<1>8. Haunted => Haunted'
  BY <1>1, <1>3, <1>6 DEF Haunted, Deletes
<1>9. missed'[t] = missed[t]
  BY PublishesMisses
<1>10. QED
  BY <1>3, <1>4, <1>6, <1>7, <1>8, <1>9

-----------------------------------------------------------------------------
(* Steps that store nothing                                                *)

LEMMA QuietStep ==
    ASSUME IInv, NEW t \in Turns, Progress(t) \/ Trouble(t), Silent \/ PersistLoad(t)
    PROVE  /\ Quiet(t)
           /\ Reading(t)' => \/ Reading(t) /\ seen'[t] = seen[t] /\ missed'[t] = missed[t]
                             \/ seen'[t] = conv /\ missed'[t] = {}
<1> USE DEF IInv
<1>1. CASE PersistLoad(t)
  <2>1. at[t] = "persist" /\ t \notin Saved
    BY <1>1 DEF PersistLoad, TurnInv, SightInv
  <2>2. /\ UNCHANGED <<conv, messages, log>> /\ seen'[t] = conv /\ missed'[t] = {}
        /\ \A v \in Turns : v # t => missed'[v] = missed[v]
    BY <1>1 DEF PersistLoad, TypeOK
  <2>3. QED
    BY <2>1, <2>2 DEF Quiet
<1>2. CASE Silent /\ ~PersistLoad(t)
  <2>1. Quiet(t)
    BY <1>2 DEF Silent, Quiet
  <2>2. CASE at[t] = "load"
    BY <1>2, <2>1, <2>2, LoadEffect DEF Silent
  <2>3. CASE at[t] \in {"close", "done"}
    <3>1. at'[t] = "done" /\ tx'[t] = Nothing
      BY <2>3, Ended
    <3>2. ~Reading(t)'
      BY <3>1, NothingFields DEF Reading, Busy
    <3>3. QED
      BY <2>1, <3>2
  <2>4. CASE at[t] \notin {"load", "close", "done"}
    <3>1. seen'[t] = seen[t] /\ missed'[t] = missed[t] /\ mode' = mode
      BY <1>2, <2>4, SeenStep, ModeKept DEF Silent
    <3>2. mode[t] \in {"chat", "stream"} => at[t] \in Busy
      BY <2>4 DEF TurnInv, PhaseInv, Busy
    <3>3. QED
      BY <2>1, <3>1, <3>2 DEF Reading
  <2>5. QED
    BY <2>2, <2>3, <2>4
<1>3. QED
  BY <1>1, <1>2

LEMMA QuietStore ==
    ASSUME IInv, NEW t \in Turns, Progress(t) \/ Trouble(t), Quiet(t)
    PROVE  StoreInv'
<1> USE DEF IInv
<1>1. UNCHANGED <<conv, messages, log>> /\ mode' = mode
  BY ModeKept DEF Quiet
<1>2. /\ Saved' = Saved /\ Haunted' = Haunted
      /\ \A u : Explained(u)' <=> Explained(u)
  BY QuietHistory DEF Haunted
<1>3. Saved \subseteq Turns /\ \A v \in Saved : missed'[v] = missed[v]
  BY SavedTurns DEF Quiet
<1>4. ForgottenTurnsExplained'
  <2>1. \A u \in Saved : result'[u] # "none" /\ u \notin conv.history => Explained(u)
    BY <1>3, SavedStands DEF StoreInv, ForgottenTurnsExplained, Explained
  <2>2. \A u \in Saved' : result'[u] # "none" /\ u \notin conv'.history => Explained(u)'
    BY <1>1, <1>2, <2>1
  <2>3. QED
    BY <2>2 DEF ForgottenTurnsExplained, Explained
<1>5. TurnsCounted'
  BY <1>1, <1>2, <1>3 DEF StoreInv, TurnsCounted
<1>6. (messages # {} /\ ~conv.exists =>
         \E d \in Turns : mode[d] = "delete" /\ at[d] \in {"close", "done"}
                           /\ messages \cap found[d] = {})'
  <2>1. \A d \in Turns : at[d] \in {"close", "done"} =>
          at'[d] \in {"close", "done"} /\ found'[d] = found[d]
    BY Ended, Frame DEF SameTurn
  <2>2. QED
    BY <1>1, <2>1 DEF StoreInv
<1>7. (~conv.exists => conv = NoRow /\ log = <<>>)' /\ (\A u \in conv.history : u \in Saved \/ Haunted)'
  BY <1>1, <1>2 DEF StoreInv
<1>8. QED
  BY <1>4, <1>5, <1>6, <1>7 DEF StoreInv

LEMMA QuietSight ==
    ASSUME IInv, NEW t \in Turns, Progress(t) \/ Trouble(t), Silent \/ PersistLoad(t),
           NEW w \in Turns
    PROVE  SightInv(w)'
<1> USE DEF IInv
<1>0. Quiet(t)
  BY QuietStep
<1>1. conv' = conv /\ mode' = mode
  BY <1>0, ModeKept DEF Quiet
<1>2. /\ Saved' = Saved /\ Haunted' = Haunted /\ Saved \subseteq Turns
      /\ \A u : Explained(u)' <=> Explained(u)
  BY <1>0, QuietHistory, SavedTurns DEF Haunted
<1>3. \A u \in Saved : result'[u] = result[u]
  BY <1>2, SavedStands
<1>4. (w \in Saved => at[w] \in {"close", "done"} /\ tx[w].saved # "here")'
  BY <1>2, SavedStands
<1>5. ASSUME Reading(w), seen'[w] = seen[w], missed'[w] = missed[w]
      PROVE  SightInv(w)'
  <2>1. SightInv(w)
    BY DEF TurnInv
  <2>2. /\ missed'[w] = {} => conv' = seen'[w]
        /\ \A u \in Saved' : result'[u] # "none" =>
             u \in seen'[w].history \/ u \in missed'[w] \/ Explained(u)'
        /\ \A u \in seen'[w].history : u \in Saved' \/ Haunted' \/ Deletes(missed[w])'
    BY <1>1, <1>2, <1>3, <1>5, <2>1 DEF SightInv, Deletes
  <2>3. QED
    BY <1>4, <2>2 DEF SightInv
<1>6. ASSUME seen'[w] = conv, missed'[w] = {}
      PROVE  SightInv(w)'
  <2>1. /\ missed'[w] = {} => conv' = seen'[w]
        /\ \A u \in Saved' : result'[u] # "none" =>
             u \in seen'[w].history \/ u \in missed'[w] \/ Explained(u)'
        /\ \A u \in seen'[w].history : u \in Saved' \/ Haunted' \/ Deletes(missed[w])'
    BY <1>1, <1>2, <1>3, <1>6 DEF StoreInv, ForgottenTurnsExplained, Explained
  <2>2. QED
    BY <1>4, <2>1 DEF SightInv
<1>7. CASE w # t
  <2>1. Reading(w)' => Reading(w) /\ seen'[w] = seen[w] /\ missed'[w] = missed[w]
    BY <1>0, <1>1, <1>7, Frame DEF SameTurn, Quiet, Reading
  <2>2. CASE ~Reading(w)'
    BY <1>4, <2>2 DEF SightInv
  <2>3. QED
    BY <1>5, <2>1, <2>2
<1>8. CASE w = t
  <2>1. CASE ~Reading(w)'
    BY <1>4, <2>1 DEF SightInv
  <2>2. QED
    BY <1>5, <1>6, <1>8, <2>1, QuietStep
<1>9. QED
  BY <1>7, <1>8

\* The row of a chat extends what the turn has read, or what is there.
LEMMA SaveFits ==
    ASSUME IInv, NEW t \in Turns, SaveTurn(t), tx'[t].saved = "here"
    PROVE  Fits(t, tx'[t].row)
<1> USE DEF IInv
<1>1. /\ at[t] = "save" /\ seen[t].exists
      /\ tx'[t].row = IF conv.exists THEN Extended(seen[t], t) ELSE Fresh(t)
  <2>1. tx \in [Turns -> TxType] /\ tx[t] \in TxType
    BY DEF TypeOK, TxType
  <2>2. tx[t].saved # "here"
    BY DEF SaveTurn, TurnInv, BillInv
  <2>3. ~seen[t].exists => tx'[t].saved = "elsewhere"
    <3>1. ~seen[t].exists => tx'[t] = [tx[t] EXCEPT !.saved = "elsewhere"]
      BY <2>1 DEF SaveTurn
    <3>2. QED
      BY <2>1, <3>1 DEF TxType
  <2>4. seen[t].exists
    BY <2>3
  <2>5. tx'[t] = [tx[t] EXCEPT !.saved = "here",
                               !.row = IF conv.exists THEN Extended(seen[t], t) ELSE Fresh(t)]
    BY <2>1, <2>4 DEF SaveTurn
  <2>6. tx'[t].row = IF conv.exists THEN Extended(seen[t], t) ELSE Fresh(t)
    BY <2>1, <2>5 DEF TxType
  <2>7. QED
    BY <2>4, <2>6 DEF SaveTurn
<1>2. mode[t] = "chat"
  <2>1. mode[t] \in Modes /\ PhaseInv(t)
    BY DEF TurnInv, TypeOK
  <2>2. QED
    BY <1>1, <2>1 DEF PhaseInv, Modes, Busy
<1>3. Reading(t)
  BY <1>1, <1>2 DEF Reading, Busy
<1>4. /\ missed[t] = {} => conv = seen[t]
      /\ \A u \in Saved : result[u] # "none" =>
           u \in seen[t].history \/ u \in missed[t] \/ Explained(u)
      /\ \A u \in seen[t].history : u \in Saved \/ Haunted \/ Deletes(missed[t])
  BY <1>3 DEF TurnInv, SightInv
<1>5. seen[t] \in Rows /\ conv \in Rows
  BY DEF TypeOK
<1>6. CASE conv.exists
  <2>1. DEFINE row == tx'[t].row
  <2>2. /\ row.exists /\ row.turns = seen[t].turns + 1
        /\ row.history = IF result[t] = "none" THEN conv.history ELSE seen[t].history \cup {t}
    BY <1>1, <1>6 DEF Extended
  <2>3. missed[t] = {} => row.turns = conv.turns + 1
    BY <1>4, <2>2
  <2>4. result[t] # "none" => t \in row.history
    BY <2>2
  <2>5. \A u \in Saved : result[u] # "none" => u \in row.history \/ u \in missed[t] \/ Explained(u)
    BY <1>4, <2>2 DEF StoreInv, ForgottenTurnsExplained, Explained
  <2>6. \A u \in row.history : u = t \/ u \in Saved \/ Haunted \/ Deletes(missed[t])
    BY <1>4, <2>2 DEF StoreInv
  <2>7. QED
    BY <2>2, <2>3, <2>4, <2>5, <2>6 DEF Fits
<1>7. CASE ~conv.exists
  <2>1. /\ tx'[t].row.exists /\ tx'[t].row.history \subseteq {t}
        /\ result[t] # "none" => t \in tx'[t].row.history
    BY <1>1, <1>7 DEF Fresh
  <2>2. missed[t] # {}
    BY <1>1, <1>4, <1>7
  <2>3. Saved = {}
    BY <1>7 DEF StoreInv, Saved, ToSet
  <2>4. QED
    BY <2>1, <2>2, <2>3 DEF Fits
<1>8. QED
  BY <1>6, <1>7

\* The row of a stream starts from nothing.
LEMMA TouchFits ==
    ASSUME IInv, NEW t \in Turns, PersistTouch(t)
    PROVE  mode[t] = "stream" /\ Fits(t, own'[t])
<1> USE DEF IInv
<1>1. at[t] = "touch" /\ own'[t] = Touched(seen[t], t)
  BY DEF PersistTouch, TypeOK
<1>2. mode[t] = "stream"
  BY <1>1 DEF TurnInv, PhaseInv, TypeOK, Modes, Busy
<1>3. Reading(t)
  BY <1>1, <1>2 DEF Reading, Busy
<1>4. missed[t] = {} => conv = seen[t]
  BY <1>3 DEF TurnInv, SightInv
<1>5. /\ own'[t].exists /\ own'[t].turns = seen[t].turns + 1 /\ own'[t].history \subseteq {t}
      /\ result[t] # "none" => t \in own'[t].history
  BY <1>1 DEF Touched
<1>6. QED
  BY <1>2, <1>4, <1>5 DEF Fits

LEMMA QuietDraft ==
    ASSUME IInv, NEW t \in Turns, Progress(t) \/ Trouble(t), Silent \/ PersistLoad(t),
           NEW w \in Turns
    PROVE  DraftInv(w)'
<1> USE DEF IInv
<1>0. Quiet(t) /\ conv' = conv /\ mode' = mode
  BY QuietStep, ModeKept DEF Quiet
<1>1. /\ Saved' = Saved /\ Haunted' = Haunted /\ Saved \subseteq Turns
      /\ \A u : Explained(u)' <=> Explained(u)
  BY <1>0, QuietHistory, SavedTurns DEF Haunted
<1>2. \A u \in Saved : result'[u] = result[u]
  BY <1>1, SavedStands
<1>3. ASSUME NEW row, Fits(w, row), result'[w] = result[w], missed'[w] = missed[w],
             row.exists
      PROVE  /\ row.exists
             /\ missed'[w] = {} => row.turns = conv'.turns + 1
             /\ result'[w] # "none" => w \in row.history
             /\ mode'[w] = "chat" => \A u \in Saved' : result'[u] # "none" =>
                  u \in row.history \/ u \in missed'[w] \/ Explained(u)'
             /\ \A u \in row.history : u = w \/ u \in Saved' \/ Haunted' \/ Deletes(missed[w])'
  BY <1>0, <1>1, <1>2, <1>3 DEF Fits, Deletes
<1>4. CASE w # t
  <2>1. SameTurn(w) /\ missed'[w] = missed[w]
    BY <1>0, <1>4, Frame DEF Quiet
  <2>2. DraftInv(w)
    BY DEF TurnInv
  <2>3. tx'[w].saved = "here" => Fits(w, tx[w].row)'
    BY <1>3, <2>1, <2>2 DEF SameTurn, DraftInv, Fits
  <2>4. at'[w] = "own commit" => mode'[w] = "stream" /\ Fits(w, own[w])'
    BY <1>0, <1>3, <2>1, <2>2 DEF SameTurn, DraftInv, Fits
  <2>5. QED
    BY <2>3, <2>4 DEF DraftInv
<1>5. CASE w = t
  <2>1. CASE at[t] \in {"close", "done"}
    <3>1. at'[t] = "done" /\ tx'[t].saved # "here"
      BY <2>1, Ended, NothingFields
    <3>2. QED
      BY <1>5, <3>1 DEF DraftInv
  <2>2. CASE at[t] \notin {"close", "done"}
    <3>1. ASSUME tx'[t].saved = "here" PROVE Fits(t, tx[t].row)'
      <4>1. SaveTurn(t)
        BY <2>2, <3>1, DraftStep
      <4>2. Fits(t, tx'[t].row) /\ result' = result /\ missed' = missed
        BY <3>1, <4>1, SaveFits DEF SaveTurn, storeVars
      <4>3. QED
        BY <1>3, <1>5, <4>2 DEF Fits
    <3>2. ASSUME at'[t] = "own commit" PROVE mode'[t] = "stream" /\ Fits(t, own[t])'
      <4>1. PersistTouch(t)
        BY <2>2, <3>2, DraftStep
      <4>2. mode[t] = "stream" /\ Fits(t, own'[t]) /\ result' = result /\ missed' = missed
        BY <4>1, TouchFits DEF PersistTouch, storeVars
      <4>3. QED
        BY <1>0, <1>3, <1>5, <4>2 DEF Fits
    <3>3. QED
      BY <1>5, <3>1, <3>2 DEF DraftInv
  <2>3. QED
    BY <2>1, <2>2
<1>6. QED
  BY <1>4, <1>5

-----------------------------------------------------------------------------
(* Steps that store a turn, and the deletion                               *)

\* Who commits to the conversation holds the lock, so nobody else is about to.
LEMMA Alone ==
    ASSUME IInv, NEW t \in Turns, writer \in {Nobody, <<"req", t>>, <<"own", t>>},
           NEW w \in Turns, w # t
    PROVE  tx[w].saved # "here" /\ at[w] # "own commit"
<1>1. LockInv(w)
  BY DEF IInv, TurnInv
<1>2. writer # <<"req", w>> /\ writer # <<"own", w>>
  BY NobodyAssumption
<1>3. QED
  BY <1>1, <1>2 DEF LockInv

StoreStep(t, row) ==
  /\ Stores(t, row) /\ Fits(t, row) /\ t \notin Saved
  /\ result'[t] = result[t] /\ at'[t] \in {"close", "done"} /\ tx'[t].saved # "here"
  /\ mode[t] \in {"chat", "stream"}
  /\ writer \in {<<"req", t>>, <<"own", t>>}

LEMMA ClosesStore ==
    ASSUME IInv, NEW t \in Turns, Progress(t) \/ Trouble(t),
           Close(t) /\ tx[t].saved = "here" /\ Stores(t, tx[t].row)
    PROVE  StoreStep(t, tx[t].row)
<1>1. at[t] = "close" /\ writer = <<"req", t>> /\ Fits(t, tx[t].row) /\ t \notin Saved /\ mode[t] = "chat"
  BY DEF Close, IInv, TurnInv, LockInv, SightInv, DraftInv, BillInv
<1>2. result'[t] = result[t] /\ at'[t] = "done" /\ tx'[t].saved # "here"
  BY <1>1, Ended, NothingFields DEF IInv
<1>3. QED
  BY <1>1, <1>2 DEF StoreStep

LEMMA PersistsStore ==
    ASSUME IInv, NEW t \in Turns, PersistCommit(t)
    PROVE  StoreStep(t, own[t])
<1>1. /\ at[t] = "own commit" /\ writer = <<"own", t>> /\ Fits(t, own[t]) /\ t \notin Saved
      /\ mode[t] = "stream" /\ tx[t].saved # "here"
  BY DEF PersistCommit, IInv, TurnInv, LockInv, SightInv, DraftInv, BillInv
<1>2. result'[t] = result[t] /\ at'[t] = "close" /\ tx'[t].saved # "here"
  BY <1>1 DEF PersistCommit, Goto, IInv, TypeOK
<1>3. Stores(t, own[t])
  BY DEF PersistCommit, Stores
<1>4. QED
  BY <1>1, <1>2, <1>3 DEF StoreStep

LEMMA StoredStore ==
    ASSUME IInv, NEW t \in Turns, Progress(t) \/ Trouble(t), NEW row, StoreStep(t, row)
    PROVE  StoreInv'
<1> USE DEF IInv
<1>1. /\ conv' = row /\ log' = Append(log, t) /\ Publishes(t) /\ Fits(t, row)
      /\ result'[t] = result[t] /\ t \notin Saved /\ mode' = mode /\ mode[t] \in {"chat", "stream"}
  BY ModeKept DEF StoreStep, Stores
<1>2. /\ Saved' = Saved \cup {t} /\ missed'[t] = missed[t]
      /\ \A u \in Saved : Later(u, t)' /\ missed'[u] = missed[u]
      /\ \A u : Explained(u) => Explained(u)'
      /\ Haunted => Haunted'
  BY <1>1, StoredHistory
<1>3. Saved \subseteq Turns /\ \A u \in Saved : result'[u] = result[u]
  BY SavedTurns, SavedStands
<1>4. ForgottenTurnsExplained'
  <2>1. SUFFICES ASSUME NEW u \in Saved', result'[u] # "none", u \notin row.history
                 PROVE  Explained(u)'
    BY <1>1 DEF ForgottenTurnsExplained, Explained
  <2>2. u \in Saved /\ result[u] # "none"
    BY <1>1, <1>2, <1>3, <2>1 DEF Fits
  <2>3. CASE mode[t] = "stream"
    BY <1>1, <1>2, <2>2, <2>3 DEF Explained
  <2>4. CASE mode[t] = "chat"
    <3>1. u \in missed[t] \/ Explained(u)
      BY <1>1, <2>1, <2>2, <2>4 DEF Fits
    <3>2. u \in missed[t] => Explained(u)'
      BY <1>2, <2>2 DEF Explained
    <3>3. QED
      BY <1>2, <3>1, <3>2
  <2>5. QED
    BY <1>1, <2>3, <2>4
<1>5. TurnsCounted'
  <2>1. CASE \E v \in Saved' : missed'[v] # {}
    BY <2>1 DEF TurnsCounted
  <2>2. CASE \A v \in Saved' : missed'[v] = {}
    <3>1. missed[t] = {} /\ \A v \in Saved : missed[v] = {}
      BY <1>2, <2>2
    <3>2. row.turns = conv.turns + 1
      BY <1>1, <3>1 DEF Fits
    <3>3. conv.turns = Len(log)
      <4>1. CASE conv.exists
        BY <3>1, <4>1 DEF StoreInv, TurnsCounted
      <4>2. CASE ~conv.exists
        BY <4>2 DEF StoreInv, NoRow
      <4>3. QED
        BY <4>1, <4>2
    <3>4. Len(log') = Len(log) + 1
      BY <1>1, AppendProperties DEF TypeOK
    <3>5. conv'.turns = Len(log')
      BY <1>1, <3>2, <3>3, <3>4
    <3>6. QED
      BY <3>5 DEF TurnsCounted
  <2>3. QED
    BY <2>1, <2>2
<1>6. \A u \in conv'.history : u \in Saved' \/ Haunted'
  <2>1. Deletes(missed[t]) => Haunted'
    BY <1>1, <1>2 DEF Haunted, Deletes
  <2>2. QED
    BY <1>1, <1>2, <2>1 DEF Fits
<1>7. conv'.exists
  BY <1>1 DEF Fits
<1>8. QED
  BY <1>4, <1>5, <1>6, <1>7 DEF StoreInv

\* Who reads while something is committed is seen to have missed it.
LEMMA OthersMiss ==
    ASSUME IInv, NEW t \in Turns, Progress(t) \/ Trouble(t), Publishes(t),
           writer \in {Nobody, <<"req", t>>, <<"own", t>>},
           NEW w \in Turns, w # t
    PROVE  /\ DraftInv(w)'
           /\ Reading(w)' => /\ Reading(w) /\ missed'[w] = missed[w] \cup {t}
                             /\ seen'[w] = seen[w]
<1>1. SameTurn(w) /\ mode' = mode
  BY Frame DEF IInv
<1>2. tx[w].saved # "here" /\ at[w] # "own commit"
  BY Alone
<1>3. DraftInv(w)'
  BY <1>1, <1>2 DEF SameTurn, DraftInv
<1>4. Reading(w)' => Reading(w) /\ at[w] \in Busy /\ seen'[w] = seen[w]
  BY <1>1, <1>2 DEF SameTurn, Reading
<1>5. at[w] \in Busy => missed'[w] = missed[w] \cup {t}
  BY PublishesMisses DEF IInv, Busy
<1>6. QED
  BY <1>3, <1>4, <1>5

LEMMA StoredSight ==
    ASSUME IInv, NEW t \in Turns, Progress(t) \/ Trouble(t), NEW row, StoreStep(t, row),
           NEW w \in Turns
    PROVE  SightInv(w)' /\ DraftInv(w)'
<1> USE DEF IInv
<1>1. /\ log' = Append(log, t) /\ Publishes(t) /\ t \notin Saved /\ mode' = mode
      /\ writer \in {Nobody, <<"req", t>>, <<"own", t>>}
      /\ at'[t] \in {"close", "done"} /\ tx'[t].saved # "here"
  BY ModeKept DEF StoreStep, Stores
<1>2. /\ Saved' = Saved \cup {t}
      /\ \A u : Explained(u) => Explained(u)'
      /\ Haunted => Haunted'
  BY <1>1, StoredHistory
<1>3. Saved \subseteq Turns /\ \A u \in Saved : result'[u] = result[u]
  BY SavedTurns, SavedStands
<1>4. CASE w = t
  <2>1. ~Reading(t)'
    BY <1>1 DEF Reading, Busy
  <2>2. QED
    BY <1>1, <1>4, <2>1 DEF SightInv, DraftInv
<1>5. CASE w # t
  <2>1. /\ DraftInv(w)'
        /\ Reading(w)' => /\ Reading(w) /\ missed'[w] = missed[w] \cup {t}
                          /\ seen'[w] = seen[w]
    BY <1>1, <1>5, OthersMiss
  <2>2. (w \in Saved => at[w] \in {"close", "done"} /\ tx[w].saved # "here")'
    BY <1>2, <1>5, SavedStands
  <2>3. ASSUME Reading(w)'
        PROVE  /\ missed'[w] = {} => conv' = seen'[w]
               /\ \A u \in Saved' : result'[u] # "none" =>
                    u \in seen'[w].history \/ u \in missed'[w] \/ Explained(u)'
               /\ \A u \in seen'[w].history : u \in Saved' \/ Haunted' \/ Deletes(missed[w])'
    <3>1. SightInv(w)
      BY DEF TurnInv
    <3>2. Deletes(missed[w]) => Deletes(missed[w])'
      BY <1>1, <2>1, <2>3 DEF Deletes
    <3>3. \A u \in Saved : result[u] # "none" =>
            u \in seen[w].history \/ u \in missed[w] \/ Explained(u)
      BY <2>1, <2>3, <3>1 DEF SightInv
    <3>4. \A u \in seen[w].history : u \in Saved \/ Haunted \/ Deletes(missed[w])
      BY <2>1, <2>3, <3>1 DEF SightInv
    <3>5. QED
      BY <1>2, <1>3, <2>1, <2>3, <3>2, <3>3, <3>4
  <2>4. QED
    BY <2>1, <2>2, <2>3 DEF SightInv
<1>6. QED
  BY <1>4, <1>5

LEMMA DeletedStore ==
    ASSUME IInv, NEW t \in Turns, Delete(t)
    PROVE  StoreInv'
<1> USE DEF IInv
<1>1. /\ at[t] = "delete" /\ conv' = NoRow /\ log' = <<>> /\ messages' = messages \ found[t]
      /\ mode' = mode /\ found' = found /\ at'[t] = "close"
  BY DEF Delete, Remaining, Goto, TypeOK
<1>2. mode[t] = "delete"
  <2>1. mode[t] \in Modes /\ PhaseInv(t)
    BY DEF TurnInv, TypeOK
  <2>2. QED
    BY <1>1, <2>1 DEF PhaseInv, Modes, Busy
<1>3. Saved' = {} /\ ~conv'.exists /\ conv'.history = {}
  BY <1>1 DEF Saved, ToSet, NoRow
<1>4. ForgottenTurnsExplained' /\ TurnsCounted'
  BY <1>3 DEF ForgottenTurnsExplained, TurnsCounted
<1>5. mode'[t] = "delete" /\ at'[t] \in {"close", "done"} /\ messages' \cap found'[t] = {}
  BY <1>1, <1>2
<1>6. QED
  BY <1>1, <1>3, <1>4, <1>5 DEF StoreInv

LEMMA DeletedSight ==
    ASSUME IInv, NEW t \in Turns, Delete(t), Progress(t) \/ Trouble(t), NEW w \in Turns
    PROVE  SightInv(w)' /\ DraftInv(w)'
<1> USE DEF IInv
<1>1. /\ at[t] = "delete" /\ log' = <<>> /\ Publishes(t) /\ writer = Nobody
      /\ mode' = mode /\ tx' = tx /\ at'[t] = "close"
  BY DEF Delete, Goto, TypeOK
<1>2. mode[t] = "delete" /\ tx[t].saved # "here"
  <2>1. mode[t] \in Modes /\ PhaseInv(t) /\ BillInv(t)
    BY DEF TurnInv, TypeOK
  <2>2. QED
    BY <1>1, <2>1 DEF PhaseInv, BillInv, Modes, Busy
<1>3. Saved' = {}
  BY <1>1 DEF Saved, ToSet
<1>4. CASE w = t
  BY <1>1, <1>2, <1>3, <1>4 DEF SightInv, DraftInv, Reading
<1>5. CASE w # t
  <2>1. /\ DraftInv(w)'
        /\ Reading(w)' => missed'[w] = missed[w] \cup {t}
    BY <1>1, <1>5, OthersMiss
  <2>2. Reading(w)' => Deletes(missed[w])'
    BY <1>1, <1>2, <2>1 DEF Deletes
  <2>3. QED
    BY <1>3, <2>1, <2>2 DEF SightInv
<1>6. QED
  BY <1>4, <1>5

-----------------------------------------------------------------------------
(* The invariant                                                           *)

LEMMA InvInit == Init => IInv
<1> SUFFICES ASSUME Init PROVE IInv
  OBVIOUS
<1>1. TypeOK
  BY TypeInit
<1>2. Saved = {} /\ messages = {} /\ conv.history = {} /\ conv.turns = 0 /\ Len(log) = 0
  BY DEF Init, Saved, ToSet, NoRow
<1>3. StoreInv
  <2>1. ~conv.exists => conv = NoRow /\ log = <<>>
    BY DEF Init, NoRow
  <2>2. QED
    BY <1>2, <2>1 DEF StoreInv, ForgottenTurnsExplained, TurnsCounted
<1>4. ASSUME NEW t \in Turns PROVE TurnInv(t)
  <2>1. /\ mode[t] \in Modes /\ at[t] = IF mode[t] = "tool" THEN "tool" ELSE "load"
        /\ health[t] = "clean" /\ tx[t] = Nothing /\ missed[t] = {} /\ usageRows[t] = 0
        /\ writer = Nobody /\ answer[t] = "none" /\ records = {}
    BY DEF Init
  <2>2. PhaseInv(t)
    BY <2>1 DEF PhaseInv, Modes, Busy
  <2>3. BillInv(t)
    BY <1>2, <2>1, NothingFields DEF BillInv
  <2>4. LockInv(t)
    BY <2>1, NothingFields, NobodyAssumption DEF LockInv
  <2>5. SightInv(t) /\ DraftInv(t)
    BY <1>2, <2>1, NothingFields DEF SightInv, DraftInv, Reading, Busy
  <2>6. QED
    BY <2>2, <2>3, <2>4, <2>5 DEF TurnInv
<1>5. QED
  BY <1>1, <1>3, <1>4 DEF IInv

LEMMA StoreAndSightStep ==
    ASSUME IInv, NEW t \in Turns, Progress(t) \/ Trouble(t)
    PROVE  StoreInv' /\ \A w \in Turns : SightInv(w)' /\ DraftInv(w)'
<1>1. CASE Silent \/ PersistLoad(t)
  BY <1>1, QuietStep, QuietStore, QuietSight, QuietDraft
<1>2. CASE Close(t) /\ tx[t].saved = "here" /\ Stores(t, tx[t].row)
  BY <1>2, ClosesStore, StoredStore, StoredSight
<1>3. CASE PersistCommit(t)
  BY <1>3, PersistsStore, StoredStore, StoredSight
<1>4. CASE Delete(t)
  BY <1>4, DeletedStore, DeletedSight
<1>5. QED
  BY <1>1, <1>2, <1>3, <1>4, Effect DEF IInv

LEMMA TurnStep ==
    ASSUME IInv, NEW t \in Turns, Progress(t) \/ Trouble(t), NEW w \in Turns
    PROVE  PhaseInv(w)' /\ BillInv(w)' /\ LockInv(w)'
<1> USE DEF IInv
<1>1. CASE w = t
  BY <1>1, PhaseStep, BillStep, LockStep
<1>2. CASE w # t
  <2>1. missed'[w] = missed[w] \/ at[w] # "load"
    <3>1. CASE Silent \/ PersistLoad(t)
      BY <1>2, <3>1, QuietStep DEF Quiet
    <3>2. CASE Publishes(t)
      BY <1>2, <3>2, PublishesMisses
    <3>3. QED
      BY <3>1, <3>2, Effect DEF Stores, PersistCommit, Delete
  <2>2. QED
    BY <1>2, <2>1, OthersKeep DEF TurnInv
<1>3. QED
  BY <1>1, <1>2

LEMMA InvNext == IInv /\ [Next]_vars => IInv'
<1> SUFFICES ASSUME IInv, [Next]_vars PROVE IInv'
  OBVIOUS
<1>1. CASE Next
  <2>1. PICK t \in Turns : Progress(t) \/ Trouble(t)
    BY <1>1 DEF Next
  <2>2. TypeOK'
    BY <2>1, TypeStep DEF IInv
  <2>3. QED
    BY <2>1, <2>2, StoreAndSightStep, TurnStep DEF IInv, TurnInv
<1>2. CASE UNCHANGED vars
  <2> USE <1>2 DEF vars, turnVars, storeVars
  <2>1. TypeOK'
    BY DEF IInv, TypeOK
  <2>2. /\ Saved' = Saved /\ (\A u, v : Later(u, v)' <=> Later(u, v))
        /\ (\A u : Explained(u)' <=> Explained(u)) /\ (Haunted' <=> Haunted)
    BY DEF Saved, Later, Explained, Haunted, Deletes
  <2>3. StoreInv'
    BY <2>2 DEF IInv, StoreInv, ForgottenTurnsExplained, TurnsCounted, Explained
  <2>4. ASSUME NEW t \in Turns PROVE TurnInv(t)'
    <3>1. TurnInv(t)
      BY DEF IInv
    <3>2. (PhaseInv(t) /\ BillInv(t) /\ LockInv(t))'
      BY <3>1 DEF TurnInv, PhaseInv, BillInv, LockInv
    <3>3. SightInv(t)'
      BY <2>2, <3>1 DEF TurnInv, SightInv, Reading, Deletes
    <3>4. DraftInv(t)'
      BY <2>2, <3>1 DEF TurnInv, DraftInv, Fits, Deletes
    <3>5. QED
      BY <3>2, <3>3, <3>4 DEF TurnInv
  <2>5. QED
    BY <2>1, <2>3, <2>4 DEF IInv
<1>3. QED
  BY <1>1, <1>2

\* The inductive invariant: what a turn in flight has read, and the row it is about
\* to commit, are the conversation of its read, which differs from the committed one
\* by what was stored or deleted since.
THEOREM Invariance == Spec => []IInv
BY InvInit, InvNext, PTL DEF Spec

-----------------------------------------------------------------------------
(* The properties                                                          *)

\* A streamed turn never waits for the lock of its own request: before it opens the
\* second session the first has committed or rolled back (ai/service.py:516).
THEOREM SessionsStandApart == Spec => []SessionsHold
<1>1. IInv => SessionsHold
  BY DEF IInv, TurnInv, LockInv, SessionsHold, NeverWaitsForItself
<1>2. QED
  BY <1>1, Invariance, PTL

\* However many turns and deletions overlap: what of a deleted conversation is back
\* or stays behind goes back to a turn that was in flight during the deletion.
THEOREM DeletionLosesToOverlapOnly == Spec => []DeletionNeedsQuiet
<1>1. IInv => DeletionNeedsQuiet
  BY DEF IInv, StoreInv, DeletionNeedsQuiet, Haunted, Deletes
<1>2. QED
  BY <1>1, Invariance, PTL

\* However many turns share the conversation: a turn is forgotten or not counted
\* only through a stream or an overlapping turn, it is billed once when it is
\* stored, and a refused chat leaves nothing behind.
THEOREM TurnsStayWhole == Spec => []TurnsAreWhole
<1>1. ASSUME IInv PROVE TurnsAreWhole
  <2>1. ForgottenTurnsExplained /\ TurnsCounted
    BY <1>1 DEF IInv, StoreInv
  <2>2. TurnsBilledOnce
    <3>1. SUFFICES ASSUME NEW t \in Turns
                   PROVE  /\ usageRows[t] <= 1
                          /\ t \in messages /\ ~degraded[t] => usageRows[t] = 1
      BY DEF TurnsBilledOnce
    <3>2. usageRows[t] \in 0..2 /\ BillInv(t)
      BY <1>1 DEF IInv, TypeOK, TurnInv
    <3>3. usageRows[t] = 0 \/ usageRows[t] = 1
      BY <3>2 DEF BillInv
    <3>4. t \in messages /\ ~degraded[t] => usageRows[t] = 1
      BY <3>2 DEF BillInv
    <3>5. QED
      BY <3>3, <3>4
  <2>3. RefusedChatLeavesNothing
    <3>1. SUFFICES ASSUME NEW t \in Turns, mode[t] = "chat", answer[t] = "error"
                   PROVE  t \notin messages \cup records /\ usageRows[t] = 0
      BY DEF RefusedChatLeavesNothing
    <3>2. BillInv(t)
      BY <1>1 DEF IInv, TurnInv
    <3>3. QED
      BY <3>1, <3>2 DEF BillInv
  <2>4. QED
    BY <2>1, <2>2, <2>3 DEF TurnsAreWhole
<1>2. QED
  BY <1>1, Invariance, PTL
=============================================================================
