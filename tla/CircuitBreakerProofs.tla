------------------------ MODULE CircuitBreakerProofs ------------------------
(***************************************************************************)
(* Theorems about the circuit breaker for every set of callers, threshold,  *)
(* timeout and number of half-open calls.                                   *)
(***************************************************************************)
EXTENDS CircuitBreaker, FiniteSetTheorems, TLAPS

\* Outside an episode a slot is always left, and inside one at least one slot
\* is taken: the fact about halfOpenCalls that makes the invariants inductive.
SlotInv ==
    /\ state # "HALF_OPEN" => halfOpenCalls < HalfOpenMaxCalls
    /\ state = "HALF_OPEN" => halfOpenCalls >= 1

IInv ==
    /\ TypeOK
    /\ SlotInv
    /\ ClosedBelowThreshold
    /\ OpenCanBeTested
    /\ EpisodeAccounted

\* Adding or removing one test call changes their number by at most one.
LEMMA ProbeCount ==
    ASSUME NEW P \in SUBSET Callers, NEW c \in Callers
    PROVE  /\ Cardinality(P) \in Nat
           /\ Cardinality(P \cup {c}) \in Nat
           /\ Cardinality(P \ {c}) \in Nat
           /\ Cardinality(P \cup {c}) <= Cardinality(P) + 1
           /\ Cardinality(P \ {c}) <= Cardinality(P)
<1>1. IsFiniteSet(P)
  BY BreakerAssumption, FS_Subset DEF BreakerAssumption
<1>2. Cardinality(P) \in Nat
  BY <1>1, FS_CardinalityType
<1>3. Cardinality(P \cup {c}) = IF c \in P THEN Cardinality(P) ELSE Cardinality(P) + 1
  BY <1>1, FS_AddElement, Zenon
<1>4. Cardinality(P \ {c}) = IF c \in P THEN Cardinality(P) - 1 ELSE Cardinality(P)
  BY <1>1, FS_RemoveElement, Zenon
<1>5. IsFiniteSet(P \ {c})
  BY <1>1, FS_RemoveElement
<1>6. Cardinality(P \ {c}) \in Nat
  BY <1>5, FS_CardinalityType
<1>7. QED
  BY <1>2, <1>3, <1>4, <1>6

LEMMA InitIInv == Init => IInv
<1> SUFFICES ASSUME Init PROVE IInv
  OBVIOUS
<1>1. TypeOK
  <2>1. /\ failureCount \in 0..MaxCount
        /\ sinceFailure \in Never..RecoveryTimeout
        /\ halfOpenCalls \in 0..HalfOpenMaxCalls
    BY BreakerAssumption DEF BreakerAssumption, Init, Never
  <2>2. call \in [Callers -> {"idle", "admitted", "probe"}]
    BY DEF Init
  <2>3. state \in CircuitState /\ probes \in SUBSET Callers /\ lost \in BOOLEAN
    BY DEF Init, CircuitState
  <2>4. QED
    BY <2>1, <2>2, <2>3 DEF TypeOK
<1>2. SlotInv /\ ClosedBelowThreshold /\ OpenCanBeTested
  BY BreakerAssumption
  DEF BreakerAssumption, Init, SlotInv, ClosedBelowThreshold, OpenCanBeTested
<1>3. EpisodeAccounted
  BY DEF Init, EpisodeAccounted
<1>4. QED
  BY <1>1, <1>2, <1>3 DEF IInv

LEMMA EnterClosedIInv ==
    ASSUME IInv, NEW c \in Callers, EnterClosed(c)
    PROVE  IInv'
BY DEF IInv, TypeOK, SlotInv, ClosedBelowThreshold, OpenCanBeTested,
       EpisodeAccounted, EnterClosed

\* The first test call of an episode finds no test call counted before it.
LEMMA EnterHalfOpenIInv ==
    ASSUME IInv, NEW c \in Callers, EnterHalfOpen(c)
    PROVE  IInv'
<1> USE DEF IInv, EnterHalfOpen
<1>1. TypeOK'
  <2>1. halfOpenCalls' \in 0..HalfOpenMaxCalls
    BY BreakerAssumption DEF BreakerAssumption, TypeOK
  <2>2. call' \in [Callers -> {"idle", "admitted", "probe"}]
    BY DEF TypeOK
  <2>3. probes' \in SUBSET Callers
    BY DEF TypeOK
  <2>4. QED
    BY <2>1, <2>2, <2>3 DEF TypeOK, CircuitState
<1>2. SlotInv'
  BY BreakerAssumption DEF BreakerAssumption, TypeOK, SlotInv
<1>3. ClosedBelowThreshold' /\ OpenCanBeTested'
  BY DEF ClosedBelowThreshold, OpenCanBeTested
<1>4. EpisodeAccounted'
  <2>1. Cardinality(probes \cup {c}) <= halfOpenCalls + 1
    <3> probes \in SUBSET Callers /\ halfOpenCalls \in Nat
      BY BreakerAssumption DEF BreakerAssumption, TypeOK
    <3> /\ Cardinality(probes) \in Nat
        /\ Cardinality(probes \cup {c}) \in Nat
        /\ Cardinality(probes \cup {c}) <= Cardinality(probes) + 1
      BY ProbeCount
    <3>1. CASE state = "HALF_OPEN"
      BY <3>1 DEF EpisodeAccounted
    <3>2. CASE state # "HALF_OPEN"
      <4>1. probes = {}
        BY <3>2 DEF EpisodeAccounted
      <4>2. Cardinality(probes) = 0
        BY <4>1, FS_EmptySet
      <4>3. QED
        BY <4>2
    <3>3. QED
      BY <3>1, <3>2
  <2>2. QED
    BY <2>1 DEF EpisodeAccounted
<1>5. QED
  BY <1>1, <1>2, <1>3, <1>4

\* What both _record_* handlers do to the slots: one is free afterwards.
LEMMA ReleaseSlotFrees ==
    ASSUME TypeOK, SlotInv, ReleaseSlot
    PROVE  halfOpenCalls' \in 0..(HalfOpenMaxCalls - 1)
BY BreakerAssumption DEF BreakerAssumption, TypeOK, SlotInv, ReleaseSlot

LEMMA RecordSuccessIInv ==
    ASSUME IInv, NEW c \in Callers, RecordSuccess(c)
    PROVE  IInv'
<1>1. halfOpenCalls' \in 0..(HalfOpenMaxCalls - 1)
  BY ReleaseSlotFrees DEF IInv, RecordSuccess
<1>2. state' = "CLOSED" /\ failureCount' = 0 /\ probes' = {} /\ lost' = FALSE
  BY DEF RecordSuccess, EndEpisode
<1>3. TypeOK'
  <2>1. halfOpenCalls' \in 0..HalfOpenMaxCalls /\ failureCount' \in 0..MaxCount
    BY <1>1, <1>2, BreakerAssumption DEF BreakerAssumption
  <2>2. call' \in [Callers -> {"idle", "admitted", "probe"}]
    BY DEF IInv, TypeOK, RecordSuccess
  <2>3. sinceFailure' \in Never..RecoveryTimeout
    BY DEF IInv, TypeOK, RecordSuccess
  <2>4. QED
    BY <1>2, <2>1, <2>2, <2>3 DEF TypeOK, CircuitState
<1>4. SlotInv' /\ ClosedBelowThreshold' /\ OpenCanBeTested' /\ EpisodeAccounted'
  BY <1>1, <1>2, BreakerAssumption
  DEF BreakerAssumption, SlotInv, ClosedBelowThreshold, OpenCanBeTested, EpisodeAccounted
<1>5. QED
  BY <1>3, <1>4 DEF IInv

LEMMA RecordFailureIInv ==
    ASSUME IInv, NEW c \in Callers, RecordFailure(c)
    PROVE  IInv'
<1>1. halfOpenCalls' \in 0..(HalfOpenMaxCalls - 1)
  BY ReleaseSlotFrees DEF IInv, RecordFailure
<1>2. sinceFailure' = 0 /\ probes' = {} /\ lost' = FALSE
  BY DEF RecordFailure, EndEpisode
<1>3. failureCount' \in 0..MaxCount
  BY BreakerAssumption DEF BreakerAssumption, IInv, TypeOK, RecordFailure, CountFailure
<1>4. /\ state' \in {"CLOSED", "OPEN"}
      /\ state' = "CLOSED" => failureCount' < FailureThreshold
  BY <1>3, BreakerAssumption
  DEF BreakerAssumption, IInv, TypeOK, CircuitState, RecordFailure, StateAfterFailure
<1>5. TypeOK'
  <2>1. halfOpenCalls' \in 0..HalfOpenMaxCalls
    BY <1>1, BreakerAssumption DEF BreakerAssumption
  <2>2. call' \in [Callers -> {"idle", "admitted", "probe"}]
    BY DEF IInv, TypeOK, RecordFailure
  <2>3. sinceFailure' \in Never..RecoveryTimeout
    BY <1>2, BreakerAssumption DEF BreakerAssumption, Never
  <2>4. QED
    BY <1>2, <1>3, <1>4, <2>1, <2>2, <2>3 DEF TypeOK, CircuitState
<1>6. SlotInv' /\ ClosedBelowThreshold' /\ OpenCanBeTested' /\ EpisodeAccounted'
  BY <1>1, <1>2, <1>4, BreakerAssumption
  DEF BreakerAssumption, SlotInv, ClosedBelowThreshold, OpenCanBeTested, EpisodeAccounted, Never
<1>7. QED
  BY <1>5, <1>6 DEF IInv

LEMMA LeaveUnrecordedIInv ==
    ASSUME IInv, NEW c \in Callers, LeaveUnrecorded(c)
    PROVE  IInv'
<1> USE DEF IInv, LeaveUnrecorded
<1>1. TypeOK'
  BY DEF TypeOK
<1>2. SlotInv' /\ ClosedBelowThreshold' /\ OpenCanBeTested'
  BY DEF SlotInv, ClosedBelowThreshold, OpenCanBeTested
<1>3. EpisodeAccounted'
  <2>1. Cardinality(probes') <= Cardinality(probes)
    BY ProbeCount DEF TypeOK
  <2>2. Cardinality(probes') \in Nat /\ Cardinality(probes) \in Nat
    BY ProbeCount DEF TypeOK
  <2>3. state # "HALF_OPEN" => probes' = {}
    BY DEF EpisodeAccounted
  <2>4. state = "HALF_OPEN" => probes' # {} \/ lost'
    BY DEF EpisodeAccounted
  <2>5. QED
    BY <2>1, <2>2, <2>3, <2>4 DEF EpisodeAccounted, TypeOK
<1>4. QED
  BY <1>1, <1>2, <1>3

LEMMA ResetIInv == ASSUME IInv, Reset PROVE IInv'
<1>1. /\ failureCount' \in 0..MaxCount
      /\ failureCount' < FailureThreshold
      /\ sinceFailure' \in Never..RecoveryTimeout
      /\ halfOpenCalls' \in 0..HalfOpenMaxCalls
      /\ halfOpenCalls' < HalfOpenMaxCalls
  BY BreakerAssumption DEF BreakerAssumption, Reset, Never
<1>2. /\ state' = "CLOSED"
      /\ call' = call
      /\ probes' = {}
      /\ lost' = FALSE
  BY DEF Reset, EndEpisode
<1>3. TypeOK'
  BY <1>1, <1>2 DEF IInv, TypeOK, CircuitState
<1>4. SlotInv' /\ ClosedBelowThreshold' /\ OpenCanBeTested' /\ EpisodeAccounted'
  BY <1>1, <1>2
  DEF SlotInv, ClosedBelowThreshold, OpenCanBeTested, EpisodeAccounted
<1>5. QED
  BY <1>3, <1>4 DEF IInv

LEMMA TickIInv == ASSUME IInv, Tick PROVE IInv'
BY BreakerAssumption
DEF BreakerAssumption, IInv, TypeOK, SlotInv, ClosedBelowThreshold, OpenCanBeTested,
    EpisodeAccounted, Tick, Never

LEMMA NextIInv == IInv /\ [Next]_vars => IInv'
<1> SUFFICES ASSUME IInv, [Next]_vars PROVE IInv'
  OBVIOUS
<1>1. ASSUME NEW c \in Callers, EnterClosed(c) PROVE IInv'
  BY <1>1, EnterClosedIInv
<1>2. ASSUME NEW c \in Callers, EnterHalfOpen(c) PROVE IInv'
  BY <1>2, EnterHalfOpenIInv
<1>3. ASSUME NEW c \in Callers, RecordSuccess(c) PROVE IInv'
  BY <1>3, RecordSuccessIInv
<1>4. ASSUME NEW c \in Callers, RecordFailure(c) PROVE IInv'
  BY <1>4, RecordFailureIInv
<1>5. ASSUME NEW c \in Callers, LeaveUnrecorded(c) PROVE IInv'
  BY <1>5, LeaveUnrecordedIInv
<1>6. CASE Reset
  BY <1>6, ResetIInv
<1>7. CASE Tick
  BY <1>7, TickIInv
<1>8. CASE UNCHANGED vars
  BY <1>8 DEF vars, IInv, TypeOK, SlotInv, ClosedBelowThreshold,
              OpenCanBeTested, EpisodeAccounted
<1>9. QED
  BY <1>1, <1>2, <1>3, <1>4, <1>5, <1>6, <1>7, <1>8 DEF Next

THEOREM IInvHolds == Spec => []IInv
<1>1. QED
  BY InitIInv, NextIInv, PTL DEF Spec

-----------------------------------------------------------------------------
\* Every variable of the breaker stays in its type; halfOpenCalls never becomes
\* negative and never passes half_open_max_calls.
THEOREM TypeCorrect == Spec => []TypeOK
<1>1. IInv => TypeOK
  BY DEF IInv
<1>2. QED
  BY <1>1, IInvHolds, PTL

\* A circuit that reached its threshold of failures is not closed.
THEOREM ThresholdRespected == Spec => []ClosedBelowThreshold
<1>1. IInv => ClosedBelowThreshold
  BY DEF IInv
<1>2. QED
  BY <1>1, IInvHolds, PTL

\* Whatever calls were admitted, went stale, failed or were cancelled, an open
\* circuit still has a failure time and a free half-open slot.
THEOREM OpenTestable == Spec => []OpenCanBeTested
<1>1. IInv => OpenCanBeTested
  BY DEF IInv
<1>2. QED
  BY <1>1, IInvHolds, PTL

\* The test calls of one episode are within the counted slots, and an episode
\* with no test call in flight has lost one to an unrecorded exit.
THEOREM EpisodesAccounted == Spec => []EpisodeAccounted
<1>1. IInv => EpisodeAccounted
  BY DEF IInv
<1>2. QED
  BY <1>1, IInvHolds, PTL
=============================================================================
