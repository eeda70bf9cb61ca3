----------------------------- MODULE RateLimiter -----------------------------
(***************************************************************************)
(* One RateLimiter object (infrastructure/resilience/rate_limiter.py): a    *)
(* token bucket, a bounded priority queue of waiting requests, and the      *)
(* background task that serves the queue.  Each API client owns one.        *)
(*                                                                          *)
(* The lock never guards an await, so taking it never yields: acquire() is  *)
(* one step up to `event.wait()`, and the queue processor is one step from  *)
(* each wake-up to its next sleep, however many requests it releases.       *)
(*                                                                          *)
(* Requests are numbered in the order in which they call acquire().  Tokens *)
(* are counted in units, of which a request costs Cost and a tick of the    *)
(* clock brings Refill; `tokens` is what _refill would compute now, since   *)
(* refilling late and capping once gives the same as refilling every tick.  *)
(* A full bucket does not notice the time, so the clock stops there.        *)
(***************************************************************************)
EXTENDS Integers, FiniteSets

CONSTANTS
    MaxRequests, \* bound on the requests of a behaviour
    Priorities,  \* the priorities they are made with (lower goes first)
    Capacity,    \* capacity of the bucket, in units
    Cost,        \* units one request takes (the 1.0 of consume)
    Refill,      \* units per tick (refill_rate)
    MaxQueue     \* max_queue_size

ASSUME LimiterAssumption ==
    /\ MaxRequests \in Nat
    /\ Priorities \subseteq Int
    /\ Cost \in Nat \ {0}
    /\ Refill \in Nat \ {0}
    /\ Capacity \in Nat /\ Capacity >= Cost
    /\ MaxQueue \in Nat \ {0}

Requests == 1..MaxRequests

VARIABLES
    tokens,    \* _bucket.tokens after _refill
    queue,     \* _queue: the requests that have an entry in it
    processor, \* _queue_processor_task: None, done, or alive
    sleep,     \* ticks the processor has still to sleep
    made,      \* requests made so far
    priority,  \* the priority of each request that was queued
    status,    \* what became of each request
    window,    \* history: ticks since a window was opened
    taken      \* history: tokens taken since then

limiterVars == <<tokens, queue, processor, sleep, made, priority, status, window, taken>>

Live == {"created", "asleep"}
Status == {"new", "granted", "refused", "waiting", "released", "abandoned"}

LimiterTypeOK ==
    /\ tokens \in 0..Capacity
    /\ queue \in SUBSET Requests
    /\ Cardinality(queue) <= MaxQueue
    /\ processor \in {"none", "done"} \cup Live
    /\ sleep \in Nat
    /\ made \in 0..MaxRequests
    /\ priority \in [Requests -> Priorities \cup {0}]
    /\ status \in [Requests -> Status]
    /\ window \in Nat
    /\ taken \in Nat

LimiterInit ==
    /\ tokens = Capacity
    /\ queue = {}
    /\ processor = "none"
    /\ sleep = 0
    /\ made = 0
    /\ priority = [r \in Requests |-> 0]
    /\ status = [r \in Requests |-> "new"]
    /\ window = 0
    /\ taken = 0

-----------------------------------------------------------------------------
(* acquire() *)

\* The next request, which ends its first step with the given status.
Make(p, outcome) ==
    LET r == made + 1
    IN  /\ r \in Requests
        /\ made' = r
        /\ priority' = [priority EXCEPT ![r] = p]
        /\ status' = [status EXCEPT ![r] = outcome]

\* The fast path: a token is there, whoever else is waiting for one.
AcquireNow ==
    /\ tokens >= Cost
    /\ Make(0, "granted")
    /\ tokens' = tokens - Cost
    /\ taken' = taken + 1
    /\ UNCHANGED <<queue, processor, sleep, window>>

\* RateLimitExceededError
Refuse ==
    /\ tokens < Cost
    /\ Cardinality(queue) >= MaxQueue
    /\ Make(0, "refused")
    /\ UNCHANGED <<tokens, queue, processor, sleep, window, taken>>

\* Mutant: the processor is created once and never again.
EnsureProcessorRunning_once ==
    processor' = IF processor = "none" THEN "created" ELSE processor

\* _ensure_processor_running
EnsureProcessorRunning ==
    processor' = IF processor \in Live THEN processor ELSE "created"

\* The request waits in the queue for its event.
Enqueue(p) ==
    /\ tokens < Cost
    /\ Cardinality(queue) < MaxQueue
    /\ Make(p, "waiting")
    /\ queue' = queue \cup {made + 1}
    /\ EnsureProcessorRunning
    /\ UNCHANGED <<tokens, sleep, window, taken>>

\* The event is set and the waiter resumes.
Resume(r) ==
    /\ status[r] = "released"
    /\ status' = [status EXCEPT ![r] = "granted"]
    /\ UNCHANGED <<tokens, queue, processor, sleep, made, priority, window, taken>>

\* The waiter times out or is cancelled, before or after its event was set.
\* Its entry stays where it is.
Abandon(r) ==
    /\ status[r] \in {"waiting", "released"}
    /\ status' = [status EXCEPT ![r] = "abandoned"]
    /\ UNCHANGED <<tokens, queue, processor, sleep, made, priority, window, taken>>

-----------------------------------------------------------------------------
(* _process_queue *)

\* The order of the queue: by priority, then by arrival.
Before(q, r) == priority[q] < priority[r] \/ (priority[q] = priority[r] /\ q < r)

Affordable ==
    LET n == tokens \div Cost
    IN  IF n <= Cardinality(queue) THEN n ELSE Cardinality(queue)

\* Mutant: the tokens that are already there are not deducted.
WaitTime_full(t) == (Cost + Refill - 1) \div Refill

\* wait_time, rounded up to whole ticks.
WaitTime(t) == (Cost - t + Refill - 1) \div Refill

\* Mutant: the processor gives up when another request took its token.
NextNap_gives_up(served) ==
    IF queue' = {} \/ served = {} THEN processor' = "done" /\ sleep' = 0
    ELSE processor' = "asleep" /\ sleep' = WaitTime(tokens')

\* The loop ends with the queue, and sleeps until there is a token otherwise.
NextNap(served) ==
    IF queue' = {} THEN processor' = "done" /\ sleep' = 0
    ELSE processor' = "asleep" /\ sleep' = WaitTime(tokens')

\* Mutant: the processor releases without consuming.
Release_free(served) ==
    /\ queue' = queue \ served
    /\ tokens' = tokens
    /\ taken' = taken + Cardinality(served)
    /\ status' = [r \in Requests |->
                    IF r \in served /\ status[r] = "waiting" THEN "released" ELSE status[r]]

\* One token and one event per entry, even if its waiter has left.
Release(served) ==
    /\ queue' = queue \ served
    /\ tokens' = tokens - Cost * Cardinality(served)
    /\ taken' = taken + Cardinality(served)
    /\ status' = [r \in Requests |->
                    IF r \in served /\ status[r] = "waiting" THEN "released" ELSE status[r]]

\* From a wake-up to the next sleep: the first entries of the queue are
\* released while tokens last.  None is when the fast path took the token.
ProcessQueue ==
    /\ processor = "created" \/ (processor = "asleep" /\ sleep = 0)
    /\ \E served \in SUBSET queue :
          /\ Cardinality(served) = Affordable
          /\ \A q \in served, r \in queue \ served : Before(q, r)
          /\ Release(served)
          /\ NextNap(served)
    /\ UNCHANGED <<made, priority, window>>

-----------------------------------------------------------------------------
Refilled == IF tokens + Refill <= Capacity THEN tokens + Refill ELSE Capacity

ClockTicks ==
    /\ tokens < Capacity
    /\ tokens' = Refilled
    /\ sleep' = IF sleep > 0 THEN sleep - 1 ELSE 0
    /\ window' = window + 1
    /\ UNCHANGED <<queue, processor, made, priority, status, taken>>

\* Somebody starts to count what the limiter lets through from here on.
OpenWindow ==
    /\ window' = 0
    /\ taken' = 0
    /\ UNCHANGED <<tokens, queue, processor, sleep, made, priority, status>>

LimiterNext ==
    \/ AcquireNow
    \/ Refuse
    \/ \E p \in Priorities : Enqueue(p)
    \/ \E r \in Requests : Resume(r)
    \/ \E r \in Requests : Abandon(r)
    \/ ProcessQueue
    \/ ClockTicks
    \/ OpenWindow

LimiterSpec == LimiterInit /\ [][LimiterNext]_limiterVars

\* The event loop runs tasks that are ready, and time passes.  Nothing makes a
\* request be made, or a waiter leave.
LimiterFairness ==
    /\ WF_limiterVars(ProcessQueue)
    /\ WF_limiterVars(ClockTicks)
    /\ \A r \in Requests : WF_limiterVars(Resume(r))

LimiterFairSpec == LimiterSpec /\ LimiterFairness

-----------------------------------------------------------------------------
(* Safety *)

\* The limit itself, over every window of time and whatever mix of fast path,
\* queue and abandoned requests: no more tokens are taken than a full bucket
\* plus what was refilled meanwhile.
RateKept == Cost * taken <= Capacity + Refill * window

\* No wake-up is lost, although acquire() looks at the processor task and the
\* task at the queue without a common lock: whoever waits has an entry, and
\* there is a live processor exactly while there are entries.
QueueIsServed ==
    /\ \A r \in Requests : status[r] = "waiting" => r \in queue
    /\ queue # {} <=> processor \in Live

\* The processor never oversleeps: while it must still sleep, no token is
\* there that a queued request could have had.
NoOversleep == sleep > 0 => tokens < Cost

(* Liveness *)

\* Every waiter is released (or leaves), even if the fast path keeps taking the
\* token it slept for, as long as the newcomers end.
WaitersReleased == \A r \in Requests : status[r] = "waiting" ~> status[r] # "waiting"

=============================================================================
