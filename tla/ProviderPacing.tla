--------------------------- MODULE ProviderPacing ---------------------------
(***************************************************************************)
(* Calls to one provider by the threads of a process, providers/http.py:      *)
(* ProviderRateController hands out the next free slot under its lock and the *)
(* thread sleeps until then; ProviderHttpClient.request retries after a pause, *)
(* each attempt in a slot of its own.  Time is a number of units.             *)
(***************************************************************************)
EXTENDS Naturals, FiniteSets

CONSTANTS
    Threads,           \* threads that call the provider
    Interval,          \* 1 / requests_per_second
    MaxRetries,        \* provider_max_retries
    Pauses,            \* how long a thread sleeps before it tries again
    MaxTime            \* bound of the clock

ASSUME ProviderPacingAssumption ==
    /\ IsFiniteSet(Threads)
    /\ Interval \in Nat \ {0}
    /\ MaxRetries \in Nat
    /\ Pauses \subseteq Nat \ {0}
    /\ MaxTime \in Nat

VARIABLES
    clock,         \* time.monotonic()
    nextAt,        \* _next_request_at of the provider
    threads        \* of each thread: the attempt, and when it may go on

pacingVars == <<clock, nextAt, threads>>

NoAttempt == [at |-> "idle", attempt |-> 0, until |-> 0]

ProviderPacingTypeOK ==
    /\ clock \in 0 .. MaxTime
    /\ nextAt \in Nat
    /\ threads \in [Threads -> [at: {"idle", "turn", "wait", "asking", "pause"},
                                attempt: 0 .. MaxRetries, until: Nat]]

-----------------------------------------------------------------------------

LaterOf(a, b) == IF a > b THEN a ELSE b
Thread(t, at) == threads' = [threads EXCEPT ![t].at = at]

StartRequest(t) ==
    /\ threads[t].at = "idle"
    /\ Thread(t, "turn")
    /\ UNCHANGED <<clock, nextAt>>

\* The slot this thread gets.
Slot == LaterOf(nextAt, clock)

\* Mutant: idle time is not made up for.
WaitForTurnDrifting(t) ==
    /\ threads[t].at = "turn"
    /\ nextAt' = nextAt + Interval
    /\ threads' = [threads EXCEPT ![t].at = "wait", ![t].until = Slot]
    /\ UNCHANGED clock

WaitForTurn(t) ==
    /\ threads[t].at = "turn"
    /\ nextAt' = Slot + Interval
    /\ threads' = [threads EXCEPT ![t].at = "wait", ![t].until = Slot]
    /\ UNCHANGED clock

Ask(t) ==
    /\ threads[t].at = "wait"
    /\ clock >= threads[t].until
    /\ Thread(t, "asking")
    /\ UNCHANGED <<clock, nextAt>>

\* A payload, an answer that is no object, or a failure on the last attempt.
Answered(t) ==
    /\ threads[t].at = "asking"
    /\ threads' = [threads EXCEPT ![t] = NoAttempt]
    /\ UNCHANGED <<clock, nextAt>>

\* 429, another error status, no answer, or one that is not JSON.
TryAgain(t, pause) ==
    /\ threads[t].at = "asking"
    /\ threads[t].attempt < MaxRetries
    /\ threads' = [threads EXCEPT ![t] =
          [at |-> "pause", attempt |-> @.attempt + 1, until |-> clock + pause]]
    /\ UNCHANGED <<clock, nextAt>>

WakeUp(t) ==
    /\ threads[t].at = "pause"
    /\ clock >= threads[t].until
    /\ Thread(t, "turn")
    /\ UNCHANGED <<clock, nextAt>>

Tick ==
    /\ clock < MaxTime
    /\ clock' = clock + 1
    /\ UNCHANGED <<nextAt, threads>>

ProviderPacingInit ==
    /\ clock = 0
    /\ nextAt = 0
    /\ threads = [t \in Threads |-> NoAttempt]

ProviderPacingNext ==
    \/ \E t \in Threads :
          \/ StartRequest(t) \/ WaitForTurn(t) \/ Ask(t) \/ Answered(t) \/ WakeUp(t)
          \/ \E pause \in Pauses : TryAgain(t, pause)
    \/ Tick

ProviderPacingSpec == ProviderPacingInit /\ [][ProviderPacingNext]_pacingVars

-----------------------------------------------------------------------------

HasSlot(t) == threads[t].at \in {"wait", "asking"}

\* Threads that race for the provider, retries included, keep its rate without
\* a backlog: the slots they hold are at least an interval apart, and none
\* waits longer than one interval for each thread.
RateIsKept ==
    /\ \A t, u \in Threads : HasSlot(t) /\ HasSlot(u) /\ t # u
          => \/ threads[t].until >= threads[u].until + Interval
             \/ threads[u].until >= threads[t].until + Interval
    /\ \A t \in Threads : threads[t].at = "wait"
          => threads[t].until <= clock + Interval * Cardinality(Threads)

=============================================================================
