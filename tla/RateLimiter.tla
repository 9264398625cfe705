---------------------------- MODULE RateLimiter ----------------------------
(***************************************************************************)
(* RedisRateLimiter.check of core/rate_limit.py for one key: a counter that   *)
(* the first request of a window creates and puts a time to live on.  Redis   *)
(* is external; INCR and EXPIRE are separate calls to it, and each may fail.  *)
(***************************************************************************)
EXTENDS Naturals, FiniteSets

CONSTANTS
    LimitedCalls,      \* requests in progress
    Limit,             \* requests allowed in a window
    MaxHits            \* bound of the counter

ASSUME RateLimiterAssumption ==
    /\ IsFiniteSet(LimitedCalls)
    /\ Limit \in Nat \ {0}
    /\ MaxHits \in Nat

VARIABLES
    hits,          \* the counter, 0 when the key does not exist
    timed,         \* whether the key has a time to live
    limited,       \* the requests in progress, with what INCR returned
    failClosed,    \* whether app_env is production or staging
    granted,       \* history: requests allowed that the present window counted
    failures,      \* history: those of its requests for which Redis failed
    orphaned       \* history: the request that created the key failed before EXPIRE

limiterVars == <<hits, timed, limited, failClosed, granted, failures, orphaned>>

NoHit == [at |-> "idle", current |-> 0, life |-> FALSE]

RateLimiterTypeOK ==
    /\ hits \in 0 .. MaxHits
    /\ timed \in BOOLEAN
    /\ limited \in [LimitedCalls -> [at: {"idle", "expire", "decide"},
                                     current: 0 .. MaxHits, life: BOOLEAN]]
    /\ granted \in 0 .. MaxHits
    /\ failures \in 0 .. MaxHits
    /\ failClosed \in BOOLEAN
    /\ orphaned \in BOOLEAN

-----------------------------------------------------------------------------

\* Mutant: the second request sets the time to live.
IncrThenSecond(c) ==
    /\ limited[c] = NoHit
    /\ hits < MaxHits
    /\ hits' = hits + 1
    /\ limited' = [limited EXCEPT ![c] = [at |-> IF hits = 1 THEN "expire" ELSE "decide",
                                          current |-> hits + 1, life |-> TRUE]]
    /\ UNCHANGED <<timed, failClosed, granted, failures, orphaned>>

\* .life tells whether the key the request counted in still exists.
Incr(c) ==
    /\ limited[c] = NoHit
    /\ hits < MaxHits
    /\ hits' = hits + 1
    /\ limited' = [limited EXCEPT ![c] = [at |-> IF hits = 0 THEN "expire" ELSE "decide",
                                          current |-> hits + 1, life |-> TRUE]]
    /\ UNCHANGED <<timed, failClosed, granted, failures, orphaned>>

Expire(c) ==
    /\ limited[c].at = "expire"
    /\ timed' = (hits > 0)
    /\ limited' = [limited EXCEPT ![c].at = "decide"]
    /\ UNCHANGED <<hits, failClosed, granted, failures, orphaned>>

WithinLimit(c) == limited[c].current <= Limit

Decide(c) ==
    /\ limited[c].at = "decide"
    /\ granted' = IF WithinLimit(c) /\ limited[c].life THEN granted + 1 ELSE granted
    /\ limited' = [limited EXCEPT ![c] = NoHit]
    /\ UNCHANGED <<hits, timed, failClosed, failures, orphaned>>

\* Answer to a counted request for which Redis failed: 503 in production and
\* staging, elsewhere a pass whatever the count is.
AnswersFailure(counted) ==
    /\ failures' = IF counted THEN failures + 1 ELSE failures
    /\ granted' = IF counted /\ ~failClosed THEN granted + 1 ELSE granted

\* INCR counts the request but its answer is lost.  A request that INCR does not
\* count is refused or passed without touching the window.
IncrUnanswered(c) ==
    /\ limited[c] = NoHit
    /\ hits < MaxHits
    /\ hits' = hits + 1
    /\ orphaned' = (orphaned \/ hits = 0)
    /\ AnswersFailure(TRUE)
    /\ UNCHANGED <<timed, limited, failClosed>>

\* EXPIRE or TTL fails.
RedisFails(c) ==
    /\ limited[c].at # "idle"
    /\ AnswersFailure(limited[c].life)
    /\ limited' = [limited EXCEPT ![c] = NoHit]
    /\ orphaned' = (orphaned \/ limited[c].at = "expire")
    /\ UNCHANGED <<hits, timed, failClosed>>

\* The process dies: nobody is answered.
ProcessDies(c) ==
    /\ limited[c].at # "idle"
    /\ limited' = [limited EXCEPT ![c] = NoHit]
    /\ orphaned' = (orphaned \/ limited[c].at = "expire")
    /\ UNCHANGED <<hits, timed, failClosed, granted, failures>>

KeyExpires ==
    /\ timed
    /\ hits' = 0
    /\ timed' = FALSE
    /\ granted' = 0
    /\ failures' = 0
    /\ UNCHANGED <<failClosed, orphaned>>
    /\ limited' = [c \in LimitedCalls |-> [limited[c] EXCEPT !.life = FALSE]]

RateLimiterInit ==
    /\ hits = 0
    /\ timed = FALSE
    /\ limited = [c \in LimitedCalls |-> NoHit]
    /\ failClosed \in BOOLEAN
    /\ granted = 0
    /\ failures = 0
    /\ orphaned = FALSE

RateLimiterNext ==
    \/ \E c \in LimitedCalls :
          \/ Incr(c) \/ Expire(c) \/ Decide(c)
          \/ IncrUnanswered(c) \/ RedisFails(c) \/ ProcessDies(c)
    \/ KeyExpires

RateLimiterSpec == RateLimiterInit /\ [][RateLimiterNext]_limiterVars

-----------------------------------------------------------------------------

\* A client is let through too often only while Redis fails, and never in
\* production or staging: of the requests one window counted at most Limit are
\* allowed, elsewhere at most one more for each of them that Redis failed.  Nor
\* is a client locked out for good but by a failure: the counter has a time to
\* live as soon as no request is about to give it one, unless the request that
\* should have was lost between the two calls to Redis.
WindowEnds ==
    /\ granted <= Limit + (IF failClosed THEN 0 ELSE failures)
    /\ hits > 0 /\ ~timed =>
          orphaned \/ \E c \in LimitedCalls : limited[c].at = "expire"

=============================================================================
