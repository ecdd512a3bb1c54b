--------------------------- MODULE TokenLifecycle ---------------------------
(***************************************************************************)
(* Access and refresh tokens of one account: api/auth.py (token, refresh,  *)
(* logout, the password-change check), views/profile.py (password change)  *)
(* and the deactivation of the account through its edit form.              *)
(*                                                                         *)
(* Access tokens are JWTs nobody stores; refresh tokens are rows of        *)
(* admin_refresh_tokens.  Every handler reads the database, works, and     *)
(* writes in a transaction that SessionMiddleware commits after the        *)
(* response has left, so requests overlap between their reads and their    *)
(* commits.                                                                *)
(*                                                                         *)
(* Time is counted in ticks, TicksPerSecond to the second: datetime.now()  *)
(* is exact to the tick, the iat and exp claims of a JWT are whole seconds.*)
(* Each request mints at most one access and one refresh token, which are  *)
(* named after it.  A request's password authority is the version of the   *)
(* password its chain of tokens started from.                              *)
(***************************************************************************)
EXTENDS Naturals, FiniteSets

CONSTANTS
    Requests,       \* the requests of a behaviour
    None,           \* no token presented
    TicksPerSecond,
    AccessTtl,      \* access_token_ttl, in seconds
    RefreshTtl,     \* the refresh token's lifetime, in ticks
    MaxTime         \* bound on the clock, in ticks

ASSUME NoneAssumption == None \notin Requests
ASSUME TimeAssumption ==
    /\ TicksPerSecond \in Nat \ {0}
    /\ AccessTtl \in Nat /\ RefreshTtl \in Nat /\ MaxTime \in Nat

Kinds == {"idle", "obtain", "refresh", "logout", "password"}
Stages == {"idle", "read", "stamped", "flushed", "done"}

VARIABLES
    now,        \* the clock
    password,   \* committed version of the account's password
    changedAt,  \* committed password_changed_at; meaningful once password > 0
    active,     \* committed is_active
    kind,       \* kind[r]: the endpoint r calls
    stage,      \* stage[r]: how far r is
    using,      \* using[r]: the refresh token r presented and found
    authority,  \* authority[r]: password version r acts on
    ancestry,   \* ancestry[r]: r and the requests whose tokens led to r's
    minted,     \* minted[r]: tick at which r made tokens or set the password
    tokenRow,   \* tokenRow[r]: committed refresh token minted by r
    revoking,   \* revoking[r]: rows r's transaction revokes
    changer,    \* history: changer[v] is the request that set version v
    overlap     \* history: requests in service at the same time

account == <<password, changedAt, active>>
local == <<kind, stage, using, authority, ancestry, minted, revoking>>
history == <<changer, overlap>>
tokenVars == <<now, account, local, tokenRow, history>>

TokenInit ==
    /\ now = 0
    /\ password = 0
    /\ changedAt = 0
    /\ active = TRUE
    /\ kind = [r \in Requests |-> "idle"]
    /\ stage = [r \in Requests |-> "idle"]
    /\ using = [r \in Requests |-> None]
    /\ authority = [r \in Requests |-> 0]
    /\ ancestry = [r \in Requests |-> {}]
    /\ minted = [r \in Requests |-> 0]
    /\ tokenRow = [r \in Requests |-> "absent"]
    /\ revoking = [r \in Requests |-> {}]
    /\ changer = <<>>
    /\ overlap = {}

-----------------------------------------------------------------------------
(***************************************************************************)
(* The access token and its checks.                                        *)
(***************************************************************************)

\* create_access_token: iat and exp lose their fraction in the JWT.
Iat(r) == minted[r] \div TicksPerSecond
Exp(r) == Iat(r) + AccessTtl

\* token_predates_password_change: the claim against the exact time.
PredatesChange(iat) == password > 0 /\ iat * TicksPerSecond < changedAt

HasTokens(r) == kind[r] \in {"obtain", "refresh"} /\ stage[r] \in {"flushed", "done"}

\* decode_access_token: the signature is right and the token has not expired.
Decoded(r) == HasTokens(r) /\ Exp(r) * TicksPerSecond > now

\* What AccessTokenMiddleware, /me and require_api_permission let through.
Accepted(r) ==
    /\ Decoded(r)
    /\ active
    /\ ~PredatesChange(Iat(r))

-----------------------------------------------------------------------------
(***************************************************************************)
(* Requests.                                                               *)
(***************************************************************************)

InService(r) == stage[r] \in {"read", "stamped", "flushed"}

Begin(r, k) ==
    /\ stage[r] = "idle"
    /\ kind' = [kind EXCEPT ![r] = k]
    /\ stage' = [stage EXCEPT ![r] = "read"]
    /\ overlap' = overlap \cup ({r} \X {q \in Requests : InService(q)})
                          \cup ({q \in Requests : InService(q)} \X {r})

\* obtain_token: authenticate finds the active user and verifies the
\* password the database holds now.
ObtainRead(r) ==
    /\ Begin(r, "obtain")
    /\ active
    /\ authority' = [authority EXCEPT ![r] = password]
    /\ ancestry' = [ancestry EXCEPT ![r] = {r}]
    /\ UNCHANGED <<now, account, using, minted, revoking, tokenRow, changer>>

\* The lifetime of a refresh token runs from its minting.
Unexpired(t) == now <= minted[t] + RefreshTtl

\* Mutant: the query forgets revoked_at IS NULL.
UsableIfKnown(t) == tokenRow[t] # "absent" /\ Unexpired(t)

\* The row refresh_token looks for: known, not revoked, not expired.
Usable(t) == tokenRow[t] = "live" /\ Unexpired(t)

RefreshRead(r) ==
    \E t \in Requests :
      /\ Begin(r, "refresh")
      /\ Usable(t)
      /\ active
      /\ using' = [using EXCEPT ![r] = t]
      /\ authority' = [authority EXCEPT ![r] = authority[t]]
      /\ ancestry' = [ancestry EXCEPT ![r] = ancestry[t] \cup {r}]
      /\ UNCHANGED <<now, account, minted, revoking, tokenRow, changer>>

\* api_logout looks for the unrevoked row and does not mind its expiry.
LogoutRead(r) ==
    \E t \in Requests :
      /\ Begin(r, "logout")
      /\ tokenRow[t] = "live"
      /\ using' = [using EXCEPT ![r] = t]
      /\ UNCHANGED <<now, account, authority, ancestry, minted, revoking, tokenRow, changer>>

\* password_change_post: the session's user proves the current password.
PasswordRead(r) ==
    /\ Begin(r, "password")
    /\ active
    /\ authority' = [authority EXCEPT ![r] = password]
    /\ UNCHANGED <<now, account, using, ancestry, minted, revoking, tokenRow, changer>>

\* An UPDATE of rows another open transaction has updated waits for it.
Locked(r, rows) ==
    \E q \in Requests \ {r} : stage[q] = "flushed" /\ revoking[q] \cap rows # {}

Flush(r) ==
    /\ stage[r] = "read"
    /\ minted' = [minted EXCEPT ![r] = now]
    /\ stage' = [stage EXCEPT ![r] = "flushed"]

\* The tokens are made and flushed; the client has its answer.
ObtainFlush(r) ==
    /\ kind[r] = "obtain"
    /\ Flush(r)
    /\ UNCHANGED <<now, account, kind, using, authority, ancestry, revoking, tokenRow, history>>

\* refresh_token mints before its flush asks for the row it read ...
RefreshMint(r) ==
    /\ kind[r] = "refresh"
    /\ stage[r] = "read"
    /\ minted' = [minted EXCEPT ![r] = now]
    /\ stage' = [stage EXCEPT ![r] = "stamped"]
    /\ UNCHANGED <<now, account, kind, using, authority, ancestry, revoking, tokenRow, history>>

\* ... to revoke it by primary key, whatever became of it meanwhile.
RefreshFlush(r) ==
    /\ kind[r] = "refresh"
    /\ stage[r] = "stamped"
    /\ ~Locked(r, {using[r]})
    /\ stage' = [stage EXCEPT ![r] = "flushed"]
    /\ revoking' = [revoking EXCEPT ![r] = {using[r]}]
    /\ UNCHANGED <<now, account, kind, using, authority, ancestry, minted, tokenRow, history>>

LogoutFlush(r) ==
    /\ kind[r] = "logout"
    /\ ~Locked(r, {using[r]})
    /\ Flush(r)
    /\ revoking' = [revoking EXCEPT ![r] = {using[r]}]
    /\ UNCHANGED <<now, account, kind, using, authority, ancestry, tokenRow, history>>

LiveRows == {t \in Requests : tokenRow[t] = "live"}

\* Mutant: outstanding refresh tokens are left alone.
RevokedByPasswordNone == {}

\* The bulk UPDATE ... WHERE revoked_at IS NULL, which sees committed rows.
RevokedByPassword == LiveRows

\* password_changed_at is taken before the flush, hence before the commit.
\* The flush locks the user's row, so two changes wait for each other; then
\* the bulk UPDATE picks its rows.
PasswordStamp(r) ==
    /\ kind[r] = "password"
    /\ stage[r] = "read"
    /\ \A q \in Requests : kind[q] = "password" => stage[q] \notin {"stamped", "flushed"}
    /\ minted' = [minted EXCEPT ![r] = now]
    /\ stage' = [stage EXCEPT ![r] = "stamped"]
    /\ revoking' = [revoking EXCEPT ![r] = RevokedByPassword]
    /\ UNCHANGED <<now, account, kind, using, authority, ancestry, tokenRow, history>>

\* Once no other transaction holds one of them, it updates those that are
\* still live; a row that was committed meanwhile is not among them.
PasswordFlush(r) ==
    /\ kind[r] = "password"
    /\ stage[r] = "stamped"
    /\ ~Locked(r, revoking[r])
    /\ stage' = [stage EXCEPT ![r] = "flushed"]
    /\ revoking' = [revoking EXCEPT ![r] = @ \cap LiveRows]
    /\ UNCHANGED <<now, account, kind, using, authority, ancestry, minted, tokenRow, history>>

\* Mutant: the rotation forgets to revoke the token it exchanged.
RowsAfterNoRevoke(r) ==
    [t \in Requests |->
        IF t = r /\ kind[r] \in {"obtain", "refresh"} THEN "live"
        ELSE IF t \in revoking[r] /\ kind[r] # "refresh" THEN "revoked" ELSE tokenRow[t]]

\* What the transaction of r leaves in admin_refresh_tokens.
RowsAfter(r) ==
    [t \in Requests |->
        IF t = r /\ kind[r] \in {"obtain", "refresh"} THEN "live"
        ELSE IF t \in revoking[r] THEN "revoked" ELSE tokenRow[t]]

\* SessionMiddleware commits, after the response.
Commit(r) ==
    /\ stage[r] = "flushed"
    /\ stage' = [stage EXCEPT ![r] = "done"]
    /\ tokenRow' = RowsAfter(r)
    /\ IF kind[r] = "password"
       THEN /\ password' = password + 1
            /\ changedAt' = minted[r]
            /\ changer' = [v \in 1 .. password + 1 |->
                             IF v = password + 1 THEN r ELSE changer[v]]
       ELSE UNCHANGED <<password, changedAt, changer>>
    /\ UNCHANGED <<now, active, kind, using, authority, ancestry, minted, revoking, overlap>>

\* The commit fails: the client keeps tokens whose row does not exist.
FailCommit(r) ==
    /\ stage[r] = "flushed"
    /\ stage' = [stage EXCEPT ![r] = "done"]
    /\ revoking' = [revoking EXCEPT ![r] = {}]
    /\ UNCHANGED <<now, account, kind, using, authority, ancestry, minted, tokenRow, history>>

\* An administrator edits is_active; access tokens and refreshes follow at once.
SetActive ==
    /\ active' = ~active
    /\ UNCHANGED <<now, password, changedAt, local, tokenRow, history>>

Tick ==
    /\ now < MaxTime
    /\ now' = now + 1
    /\ UNCHANGED <<account, local, tokenRow, history>>

Read(r) == ObtainRead(r) \/ RefreshRead(r) \/ LogoutRead(r) \/ PasswordRead(r)
Write(r) ==
    \/ ObtainFlush(r) \/ RefreshMint(r) \/ RefreshFlush(r) \/ LogoutFlush(r)
    \/ PasswordStamp(r) \/ PasswordFlush(r)

TokenNext ==
    \/ \E r \in Requests : Read(r) \/ Write(r) \/ Commit(r) \/ FailCommit(r)
    \/ SetActive
    \/ Tick

TokenSpec == TokenInit /\ [][TokenNext]_tokenVars

-----------------------------------------------------------------------------
(***************************************************************************)
(* Properties.                                                             *)
(***************************************************************************)

TokenTypeOK ==
    /\ now \in 0 .. MaxTime
    /\ password \in Nat
    /\ changedAt \in Nat
    /\ active \in BOOLEAN
    /\ kind \in [Requests -> Kinds]
    /\ stage \in [Requests -> Stages]
    /\ using \in [Requests -> Requests \cup {None}]
    /\ authority \in [Requests -> Nat]
    /\ ancestry \in [Requests -> SUBSET Requests]
    /\ minted \in [Requests -> Nat]
    /\ tokenRow \in [Requests -> {"absent", "live", "revoked"}]
    /\ revoking \in [Requests -> SUBSET Requests]
    /\ changer \in [1 .. password -> Requests]
    /\ overlap \in SUBSET (Requests \X Requests)

\* The password check and the clock: an access token minted before the last
\* change is refused however the seconds fall, and one minted after it is
\* refused for at most the rest of that second.
CheckExactToTheSecond ==
    \A r \in Requests : HasTokens(r) /\ password > 0 =>
        /\ minted[r] < changedAt => ~Accepted(r)
        /\ minted[r] \div TicksPerSecond > changedAt \div TicksPerSecond =>
             ~PredatesChange(Iat(r))

\* A token chain outlives a password change only through a request that was
\* in flight during the change: it authenticated or read its refresh token
\* before the commit and minted after the moment the change was stamped.
\* (The clock may also give both the very same reading, on a full second.)
OverlapsChange(r) ==
    \E q \in ancestry[r], v \in authority[r] + 1 .. password :
        <<q, changer[v]>> \in overlap
OldPasswordNeedsOverlap ==
    \A r \in Requests : authority[r] < password /\ (tokenRow[r] = "live" \/ Accepted(r)) =>
        OverlapsChange(r) \/ (tokenRow[r] # "live" /\ minted[r] = changedAt)

\* Two requests that consume the same refresh token, by exchanging it or by
\* logging it out, were in service at the same time.
Consumed(r) == IF kind[r] \in {"refresh", "logout"} THEN revoking[r] ELSE {}
ReuseNeedsOverlap ==
    \A r, q \in Requests :
        r # q /\ stage[r] = "done" /\ stage[q] = "done" /\ Consumed(r) \cap Consumed(q) # {}
            => <<r, q>> \in overlap

\* A rotation is one step: the new refresh token appears in the very commit
\* that revokes the token it replaces, so no crash leaves both or neither.
RotationIsAtomic ==
    [][\A r \in Requests : kind[r] = "refresh" /\ tokenRow[r] = "absent" /\ (tokenRow[r])' = "live" =>
         (tokenRow[using[r]])' = "revoked"]_tokenVars

(***************************************************************************)
(* The strengthening that makes ReuseNeedsOverlap inductive.               *)
(***************************************************************************)

\* A row exists only once the request that minted it has committed, and a
\* consumer revokes nothing but another request's token, the one it read.
RowInv ==
    \A r \in Requests :
        /\ tokenRow[r] # "absent" => stage[r] = "done" /\ kind[r] \in {"obtain", "refresh"}
        /\ kind[r] \in {"refresh", "logout"} =>
             /\ using[r] \in Requests \ {r}
             /\ tokenRow[using[r]] # "absent"
             /\ revoking[r] \subseteq {using[r]}
             /\ stage[r] = "flushed" => revoking[r] = {using[r]}
        /\ kind[r] \in {"idle", "obtain"} => revoking[r] = {}
        /\ stage[r] = "idle" <=> kind[r] = "idle"
        /\ stage[r] = "stamped" => kind[r] \in {"refresh", "password"}
        /\ \A t \in revoking[r] : tokenRow[t] # "absent"

\* Requests in service together are on record as overlapping.
OverlapInv ==
    \A r, q \in Requests :
        r # q /\ InService(r) /\ InService(q) => <<r, q>> \in overlap

\* A consumed token is revoked, and whoever still holds it overlapped with
\* its consumer.
ConsumedInv ==
    \A q \in Requests : stage[q] = "done" =>
        \A t \in Consumed(q) :
            /\ tokenRow[t] = "revoked"
            /\ \A r \in Requests :
                 InService(r) /\ kind[r] \in {"refresh", "logout"} /\ using[r] = t
                    => <<r, q>> \in overlap /\ <<q, r>> \in overlap

TokenInv == TokenTypeOK /\ RowInv /\ OverlapInv /\ ConsumedInv /\ ReuseNeedsOverlap

\* What a password change does to the tokens made before it: access tokens are
\* refused to the second, and a chain of refresh tokens survives the change
\* only in the hands of a request that was under way with it.
PasswordChangeBites == CheckExactToTheSecond /\ OldPasswordNeedsOverlap
=============================================================================
