----------------------------- MODULE LoginGuard -----------------------------
(***************************************************************************)
(* The sliding-window limiter of one process and the endpoints it guards:  *)
(* the login form (and POST /api/auth/token, which uses its own limiter    *)
(* the same way) counts failures and is cleared by a success; POST         *)
(* /api/auth/refresh (and logout, the same way) counts every request.      *)
(*                                                                         *)
(* Sources: auth/ratelimit.py, redis.py (InMemoryLoginRateGuard),          *)
(* auth/views.py (login_post), api/auth.py.                                *)
(*                                                                         *)
(* Keys are independent, so there is one per limiter.  The limiter's own   *)
(* operations never suspend, but a login awaits the database between the   *)
(* check and the verdict on its password, and others run meanwhile.        *)
(* Time is counted in ticks, TicksPerSecond to the second.                 *)
(***************************************************************************)
EXTENDS Integers, FiniteSets

CONSTANTS
    Posts,
    MaxAttempts,    \* max_attempts
    Window,         \* window_seconds
    TicksPerSecond,
    MaxTime         \* bound on the clock, in ticks

ASSUME GuardAssumption ==
    /\ MaxAttempts \in Nat \ {0} /\ Window \in Nat \ {0}
    /\ TicksPerSecond \in Nat \ {0} /\ MaxTime \in Nat

Span == Window * TicksPerSecond

VARIABLES
    now,        \* time.monotonic()
    failures,   \* _attempts[key] of the login limiter, each with its request,
                \* which tells apart two of one time
    refreshes,  \* _attempts[key] of the refresh limiter
    step,      \* step[r]: "idle", "checked", "done"
    verdict,    \* verdict[r]: what r's client got
    served,     \* history: the refreshes that were let through
    beside     \* history: logins between their check and their verdict together

guardVars == <<now, failures, refreshes, step, verdict, served, beside>>

GuardInit ==
    /\ now = 0
    /\ failures = {}
    /\ refreshes = {}
    /\ step = [r \in Posts |-> "idle"]
    /\ verdict = [r \in Posts |-> "none"]
    /\ served = {}
    /\ beside = {}

-----------------------------------------------------------------------------
(***************************************************************************)
(* RateLimiter.                                                            *)
(***************************************************************************)

\* _cleanup keeps the attempts with t > now - window_seconds.
Expired(a, t) == a.at + Span <= t

Live(attempts, t) == {a \in attempts : ~Expired(a, t)}

\* Mutant: one attempt too many.
LimitedAbove(attempts, t) == Cardinality(Live(attempts, t)) > MaxAttempts

\* is_rate_limited.
Limited(attempts, t) == Cardinality(Live(attempts, t)) >= MaxAttempts

\* Attempts are appended as they come: the first is the oldest.
Oldest(attempts) == CHOOSE at \in {a.at : a \in attempts} : \A a \in attempts : at <= a.at

\* remaining_seconds: until the oldest attempt expires, in whole seconds.
RetryAfter(attempts, t) ==
    IF Live(attempts, t) = {} THEN 0
    ELSE (Span - (t - Oldest(Live(attempts, t)))) \div TicksPerSecond + 1

Attempt(r) == [at |-> now, by |-> r]

\* record_attempt.
Recorded(attempts, r) == Live(attempts, now) \cup {Attempt(r)}

-----------------------------------------------------------------------------
InProgress(r) == step[r] = "checked"

Refuse(r) ==
    /\ step[r] = "idle"
    /\ step' = [step EXCEPT ![r] = "done"]
    /\ verdict' = [verdict EXCEPT ![r] = "refused"]

\* login_post: the check passes and authenticate starts.
LoginCheck(r) ==
    /\ step[r] = "idle"
    /\ ~Limited(failures, now)
    /\ failures' = Live(failures, now)
    /\ step' = [step EXCEPT ![r] = "checked"]
    /\ beside' = beside \cup ({r} \X {q \in Posts : InProgress(q)})
                          \cup ({q \in Posts : InProgress(q)} \X {r})
    /\ UNCHANGED <<now, refreshes, verdict, served>>

LoginRefused(r) ==
    /\ Limited(failures, now)
    /\ Refuse(r)
    /\ failures' = Live(failures, now)
    /\ UNCHANGED <<now, refreshes, served, beside>>

\* The password is right: the key is cleared, the login goes on.
LoginSucceeds(r) ==
    /\ step[r] = "checked"
    /\ failures' = {}
    /\ step' = [step EXCEPT ![r] = "done"]
    /\ verdict' = [verdict EXCEPT ![r] = "in"]
    /\ UNCHANGED <<now, refreshes, served, beside>>

\* The password is wrong: the failure is recorded now, not at the check.
LoginFails(r) ==
    /\ step[r] = "checked"
    /\ failures' = Recorded(failures, r)
    /\ step' = [step EXCEPT ![r] = "done"]
    /\ verdict' = [verdict EXCEPT ![r] = "page"]
    /\ UNCHANGED <<now, refreshes, served, beside>>

\* refresh_token: check and record, with nothing in between.
RefreshServed(r) ==
    /\ step[r] = "idle"
    /\ ~Limited(refreshes, now)
    /\ refreshes' = Recorded(refreshes, r)
    /\ served' = served \cup {Attempt(r)}
    /\ step' = [step EXCEPT ![r] = "done"]
    /\ verdict' = [verdict EXCEPT ![r] = "in"]
    /\ UNCHANGED <<now, failures, beside>>

RefreshRefused(r) ==
    /\ Limited(refreshes, now)
    /\ Refuse(r)
    /\ refreshes' = Live(refreshes, now)
    /\ UNCHANGED <<now, failures, served, beside>>

ClockTick ==
    /\ now < MaxTime
    /\ now' = now + 1
    /\ UNCHANGED <<failures, refreshes, step, verdict, served, beside>>

GuardedLogin(r) == LoginCheck(r) \/ LoginRefused(r) \/ LoginSucceeds(r) \/ LoginFails(r)
Refresh(r) == RefreshServed(r) \/ RefreshRefused(r)

GuardNext == (\E r \in Posts : GuardedLogin(r) \/ Refresh(r)) \/ ClockTick

GuardSpec == GuardInit /\ [][GuardNext]_guardVars

-----------------------------------------------------------------------------
(***************************************************************************)
(* Properties.                                                             *)
(***************************************************************************)

Attempts == [at : 0 .. MaxTime, by : Posts]

GuardTypeOK ==
    /\ now \in 0 .. MaxTime
    /\ failures \in SUBSET Attempts
    /\ refreshes \in SUBSET Attempts
    /\ step \in [Posts -> {"idle", "checked", "done"}]
    /\ verdict \in [Posts -> {"none", "refused", "in", "page"}]
    /\ served \in SUBSET Attempts
    /\ beside \in SUBSET (Posts \X Posts)

\* The limiter of refreshes (60 in 300 s) counts every request it lets
\* through: no window of that length, wherever it starts, holds more of them
\* than the limit.
RefreshesWithinLimit ==
    \A start \in 0 .. MaxTime :
        Cardinality({a \in served : start <= a.at /\ a.at < start + Span}) <= MaxAttempts

\* The failures of one window exceed the limit only where logins were in
\* service together: no more than the limit of them came one after another,
\* each checked when the others had been recorded.
OverrunNeedsOverlap ==
    \A apart \in SUBSET failures :
        (\A a, b \in apart : a # b => <<a.by, b.by>> \notin beside)
        => Cardinality(apart) <= MaxAttempts

\* Whoever is refused and waits the announced seconds is let in, provided
\* the limit was not overrun and nobody fails meanwhile; and the
\* announcement is never more than a second too long.
RetryAfterIsRight ==
    \A attempts \in {failures, refreshes} :
        Cardinality(Live(attempts, now)) = MaxAttempts =>
            LET seconds == RetryAfter(attempts, now)
            IN  /\ ~Limited(attempts, now + seconds * TicksPerSecond)
                /\ \A t \in now .. now + (seconds - 1) * TicksPerSecond :
                     t < now + (seconds - 1) * TicksPerSecond => Limited(attempts, t)

\* What the limiter promises, taken together.
LimiterHolds ==
    GuardTypeOK /\ RefreshesWithinLimit /\ OverrunNeedsOverlap /\ RetryAfterIsRight

=============================================================================
