--------------------------- MODULE CircuitBreaker ---------------------------
(***************************************************************************)
(* One CircuitBreaker object (infrastructure/resilience/circuit_breaker.py) *)
(* shared by concurrent asyncio tasks, as every API client and the OpenFGA  *)
(* adapter share theirs.  A task enters with `async with breaker` (or the   *)
(* decorator), awaits its request, and leaves through __aexit__.            *)
(*                                                                          *)
(* The critical sections contain no await, so each handler is one atomic    *)
(* step; the request between __aenter__ and __aexit__ is where the other    *)
(* tasks run.  A call that is refused changes nothing and is a stuttering   *)
(* step.  Wall-clock time is kept as the time since the last failure, which *)
(* is all the code computes from it, and stops at RecoveryTimeout.          *)
(***************************************************************************)
EXTENDS Integers, FiniteSets

CONSTANTS
    Callers,          \* tasks that use the breaker, one call each at a time
    FailureThreshold, \* failure_threshold
    RecoveryTimeout,  \* recovery_timeout, in ticks
    HalfOpenMaxCalls, \* half_open_max_calls
    MaxCount          \* where the model stops counting consecutive failures

ASSUME BreakerAssumption ==
    /\ IsFiniteSet(Callers)
    /\ FailureThreshold \in Nat \ {0}
    /\ RecoveryTimeout \in Nat \ {0}
    /\ HalfOpenMaxCalls \in Nat \ {0}
    /\ MaxCount \in Nat /\ MaxCount >= FailureThreshold

VARIABLES
    state,         \* _state
    failureCount,  \* _failure_count, exact up to MaxCount (only compared)
    sinceFailure,  \* now - _last_failure_time, or Never when it is None
    halfOpenCalls, \* _half_open_calls
    call,          \* what each task is doing: idle, or how it was admitted
    probes,        \* history: test calls of the current half-open episode
    lost           \* history: a test call of the episode left unrecorded

vars == <<state, failureCount, sinceFailure, halfOpenCalls, call, probes, lost>>

Never == -1
CircuitState == {"CLOSED", "OPEN", "HALF_OPEN"}

TypeOK ==
    /\ state \in CircuitState
    /\ failureCount \in 0..MaxCount
    /\ sinceFailure \in Never..RecoveryTimeout
    /\ halfOpenCalls \in 0..HalfOpenMaxCalls
    /\ call \in [Callers -> {"idle", "admitted", "probe"}]
    /\ probes \in SUBSET Callers
    /\ lost \in BOOLEAN

Init ==
    /\ state = "CLOSED"
    /\ failureCount = 0
    /\ sinceFailure = Never
    /\ halfOpenCalls = 0
    /\ call = [c \in Callers |-> "idle"]
    /\ probes = {}
    /\ lost = FALSE

-----------------------------------------------------------------------------
ShouldAttemptReset == sinceFailure # Never /\ sinceFailure >= RecoveryTimeout

\* The `state` property: an open circuit whose timeout passed reads HALF_OPEN.
ReportedState ==
    IF state = "OPEN" /\ ShouldAttemptReset THEN "HALF_OPEN" ELSE state

\* Leaving HALF_OPEN ends the episode; its test calls may still be running.
EndEpisode == probes' = {} /\ lost' = FALSE

\* __aenter__ while the circuit reads CLOSED: nothing is recorded.
EnterClosed(c) ==
    /\ call[c] = "idle"
    /\ ReportedState = "CLOSED"
    /\ call' = [call EXCEPT ![c] = "admitted"]
    /\ UNCHANGED <<state, failureCount, sinceFailure, halfOpenCalls, probes, lost>>

\* Mutant: a test call is admitted without being counted.
EnterHalfOpen_uncounted(c) ==
    /\ call[c] = "idle"
    /\ ReportedState = "HALF_OPEN"
    /\ halfOpenCalls < HalfOpenMaxCalls
    /\ state' = "HALF_OPEN"
    /\ call' = [call EXCEPT ![c] = "probe"]
    /\ probes' = probes \cup {c}
    /\ UNCHANGED <<failureCount, sinceFailure, halfOpenCalls, lost>>

\* __aenter__ while the circuit reads HALF_OPEN and a slot is free.
EnterHalfOpen(c) ==
    /\ call[c] = "idle"
    /\ ReportedState = "HALF_OPEN"
    /\ halfOpenCalls < HalfOpenMaxCalls
    /\ halfOpenCalls' = halfOpenCalls + 1
    /\ state' = "HALF_OPEN"
    /\ call' = [call EXCEPT ![c] = "probe"]
    /\ probes' = probes \cup {c}
    /\ UNCHANGED <<failureCount, sinceFailure, lost>>

Enter(c) == EnterClosed(c) \/ EnterHalfOpen(c)

\* Mutant: neither handler gives the slot back.
ReleaseSlot_kept == UNCHANGED halfOpenCalls

\* The decrement both _record_* handlers make, whoever the caller is.
ReleaseSlot ==
    halfOpenCalls' = IF state = "HALF_OPEN" THEN halfOpenCalls - 1 ELSE halfOpenCalls

\* Mutant: a success frees its slot but does not close the circuit.
RecordSuccess_unclosed(c) ==
    /\ call[c] # "idle"
    /\ failureCount' = 0
    /\ ReleaseSlot
    /\ call' = [call EXCEPT ![c] = "idle"]
    /\ probes' = probes \ {c}
    /\ UNCHANGED <<state, sinceFailure, lost>>

\* __aexit__ without an exception.  The circuit closes whatever its state is.
RecordSuccess(c) ==
    /\ call[c] # "idle"
    /\ failureCount' = 0
    /\ ReleaseSlot
    /\ state' = "CLOSED"
    /\ call' = [call EXCEPT ![c] = "idle"]
    /\ EndEpisode
    /\ UNCHANGED sinceFailure

CountFailure == IF failureCount < MaxCount THEN failureCount + 1 ELSE failureCount

\* Mutant: the circuit trips one failure too late.
StateAfterFailure_late ==
    IF state = "HALF_OPEN" \/ failureCount' > FailureThreshold THEN "OPEN" ELSE state

StateAfterFailure ==
    IF state = "HALF_OPEN" \/ failureCount' >= FailureThreshold THEN "OPEN" ELSE state

\* Mutant: the failure time is not recorded.
RecordFailure_untimed(c) ==
    /\ call[c] # "idle"
    /\ failureCount' = CountFailure
    /\ ReleaseSlot
    /\ state' = StateAfterFailure
    /\ call' = [call EXCEPT ![c] = "idle"]
    /\ EndEpisode
    /\ UNCHANGED sinceFailure

\* __aexit__ with an Exception other than CircuitBreakerError.
RecordFailure(c) ==
    /\ call[c] # "idle"
    /\ failureCount' = CountFailure
    /\ sinceFailure' = 0
    /\ ReleaseSlot
    /\ state' = StateAfterFailure
    /\ call' = [call EXCEPT ![c] = "idle"]
    /\ EndEpisode

\* __aexit__ with anything else (CancelledError, a nested CircuitBreakerError):
\* the result is not recorded and a half-open slot is not given back.
LeaveUnrecorded(c) ==
    /\ call[c] # "idle"
    /\ call' = [call EXCEPT ![c] = "idle"]
    /\ probes' = probes \ {c}
    /\ lost' = (lost \/ c \in probes)
    /\ UNCHANGED <<state, failureCount, sinceFailure, halfOpenCalls>>

Exit(c) == RecordSuccess(c) \/ RecordFailure(c) \/ LeaveUnrecorded(c)

\* reset(): synchronous and without the lock; running calls keep running.
Reset ==
    /\ state' = "CLOSED"
    /\ failureCount' = 0
    /\ sinceFailure' = Never
    /\ halfOpenCalls' = 0
    /\ EndEpisode
    /\ UNCHANGED call

Tick ==
    /\ sinceFailure \in 0..(RecoveryTimeout - 1)
    /\ sinceFailure' = sinceFailure + 1
    /\ UNCHANGED <<state, failureCount, halfOpenCalls, call, probes, lost>>

Next ==
    \/ \E c \in Callers : EnterClosed(c)
    \/ \E c \in Callers : EnterHalfOpen(c)
    \/ \E c \in Callers : RecordSuccess(c)
    \/ \E c \in Callers : RecordFailure(c)
    \/ \E c \in Callers : LeaveUnrecorded(c)
    \/ Reset
    \/ Tick

Spec == Init /\ [][Next]_vars

\* An admitted request ends (HTTP clients have timeouts), time passes, and some
\* task keeps asking; no particular outcome is promised, nor a manual reset.
Fairness ==
    /\ \A c \in Callers : WF_vars(Exit(c))
    /\ WF_vars(\E c \in Callers : Enter(c))
    /\ WF_vars(Tick)

FairSpec == Spec /\ Fairness

-----------------------------------------------------------------------------
(* Safety *)

\* A circuit that threshold consecutive failures have hit is never closed,
\* whatever mix of stale, test and normal calls reported them.
ClosedBelowThreshold == state = "CLOSED" => failureCount < FailureThreshold

\* An open circuit can always be tested again: _should_attempt_reset has a
\* failure time to measure from, and no earlier half-open episode has kept the
\* last slot, even when several test calls ended after the episode did.
OpenCanBeTested ==
    state = "OPEN" => sinceFailure # Never /\ halfOpenCalls < HalfOpenMaxCalls

\* One half-open episode never has more test calls in flight than the code
\* counts, and it has one in flight as long as none of them went unrecorded.
EpisodeAccounted ==
    /\ state # "HALF_OPEN" => probes = {}
    /\ state = "HALF_OPEN" => /\ Cardinality(probes) <= halfOpenCalls
                              /\ probes # {} \/ lost

(* Liveness *)

\* An open circuit does not stay open for ever while tasks keep calling it.
OpenIsLeft == state = "OPEN" ~> state # "OPEN"

\* A half-open circuit is decided (closed or reopened) unless a test call of the
\* episode left without being recorded, which keeps its slot.
HalfOpenIsDecided == state = "HALF_OPEN" ~> (state # "HALF_OPEN" \/ lost)

=============================================================================
