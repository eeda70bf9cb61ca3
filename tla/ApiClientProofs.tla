-------------------------- MODULE ApiClientProofs --------------------------
(***************************************************************************)
(* Theorems about the API clients and the two things every request of       *)
(* theirs goes through, for every set of callers and CVEs, every cache size, *)
(* number of attempts and setting of the breaker, and for every rate,       *)
(* capacity, queue size and set of priorities of the limiter.               *)
(***************************************************************************)
EXTENDS ApiClient, RateLimiter, FiniteSetTheorems, TLAPS

(* The clients *)

CallRecords ==
    [op : {"none", "get", "batch", "search"}, stage : {"idle", "limiter", "sending"},
     left : SUBSET Cves, tries : Int]

ClientTypeOK ==
    /\ request \in [Callers -> CallRecords]
    /\ call \in [Callers -> {"idle", "admitted", "probe"}]

\* Who fetches a CVE found it missing from the cache, and nobody has put it
\* there since unless two were fetching it.
RaceInv ==
    /\ \A c \in Callers, v \in Cves :
          c \in Fetching(v) /\ cache[v] # Absent => v \in raced
    /\ \A c, d \in Callers, v \in Cves :
          c # d /\ c \in Fetching(v) /\ d \in Fetching(v) => v \in raced

\* An answer on its way is for a call on the wire, about CVEs it still asks for.
ReplyInv ==
    /\ DOMAIN reply = Callers
    /\ \A c \in Callers : DOMAIN reply[c] \subseteq IF Sending(c) THEN request[c].left ELSE {}

ClientInv == ClientTypeOK /\ AdmissionsAreHeld /\ ReplyInv /\ RaceInv

LEMMA NothingArrived == DOMAIN NoReply = {}
BY DEF NoReply

LEMMA InitClientInv == Init => ClientInv
BY NothingArrived
   DEF Init, Breaker!Init, ClientInv, ClientTypeOK, CallRecords, AdmissionsAreHeld,
       ReplyInv, RaceInv, Fetching, Sending, Idle, Absent

-----------------------------------------------------------------------------
(* What each step does to the breaker *)

\* A caller is let in while its request is on its way to the wire, and out when
\* that request ends; each is a step of the breaker.
LEMMA BreakerMoves ==
    ASSUME ClientInv, [Next]_vars
    PROVE  [Breaker!Next]_(Breaker!vars)
<1>1. CASE \E c \in Callers : GetOne(c) \/ GetScoresBatch(c) \/ Search(c)
  BY <1>1 DEF GetOne, GetScoresBatch, Search, Ask, breaker, Breaker!vars
<1>2. ASSUME NEW c \in Callers, Admitted(c) PROVE Breaker!Next
  BY <1>2 DEF Admitted, Breaker!Enter, Breaker!Next
<1>3. ASSUME NEW c \in Callers, Refused(c) \/ Respond(c) \/ Retry(c)
      PROVE  UNCHANGED Breaker!vars
  BY <1>3 DEF Refused, Respond, Retry, breaker, Breaker!vars
<1>4. ASSUME NEW c \in Callers, Answered(c) PROVE [Breaker!Next]_(Breaker!vars)
  <2>1. Breaker!RecordSuccess(c) \/ UNCHANGED breaker
    BY <1>4 DEF Answered
  <2>. QED BY <2>1 DEF breaker, Breaker!vars, Breaker!Next
<1>5. ASSUME NEW c \in Callers, Failed(c) \/ Garbled(c) PROVE Breaker!Next
  <2>1. Breaker!RecordFailure(c) \/ Breaker!RecordSuccess(c)
    BY <1>5 DEF Failed, Garbled
  <2>. QED BY <2>1 DEF Breaker!Next
<1>6. ASSUME NEW c \in Callers, Cancelled(c) PROVE [Breaker!Next]_(Breaker!vars)
  <2>1. Breaker!LeaveUnrecorded(c) \/ UNCHANGED breaker
    BY <1>6 DEF Cancelled
  <2>. QED BY <2>1 DEF breaker, Breaker!vars, Breaker!Next
<1>7. CASE Publish \/ ClearCache \/ UNCHANGED vars
  BY <1>7 DEF Publish, ClearCache, vars, breaker, Breaker!vars
<1>8. CASE Tick
  BY <1>8 DEF Tick, Breaker!Next
<1>. QED BY <1>1, <1>2, <1>3, <1>4, <1>5, <1>6, <1>7, <1>8 DEF Next, Proceed

\* How a caller's own request moves, and what the breaker then does for it.
Moves(c) ==
    \E r \in CallRecords :
        /\ Become(c, r)
        /\ \/ UNCHANGED call /\ (r.stage = "sending" <=> Sending(c))
           \/ /\ \E a \in {"admitted", "probe"} : call' = [call EXCEPT ![c] = a]
              /\ r.stage = "sending"
           \/ call' = [call EXCEPT ![c] = "idle"] /\ r.stage # "sending"

LEMMA Shrink ==
    ASSUME NEW q \in CallRecords, NEW chunk
    PROVE  LET r == [q EXCEPT !.left = @ \ chunk, !.tries = 0] IN
           r \in CallRecords /\ r.stage = q.stage /\ r.op = q.op /\ r.left = q.left \ chunk
<1>. DEFINE less == [q EXCEPT !.left = @ \ chunk]
            r == [less EXCEPT !.tries = 0]
<1>1. less \in CallRecords /\ less.left = q.left \ chunk
      /\ less.stage = q.stage /\ less.op = q.op
  BY DEF CallRecords
<1>. HIDE DEF less
<1>2. /\ r \in CallRecords
      /\ r.left = less.left /\ r.stage = less.stage /\ r.op = less.op
  BY <1>1 DEF CallRecords
<1>3. r = [q EXCEPT !.left = @ \ chunk, !.tries = 0]
  BY DEF less
<1>. QED BY <1>1, <1>2, <1>3

LEMMA CallerMoves ==
    ASSUME ClientInv, NEW c \in Callers,
           \/ GetOne(c) \/ GetScoresBatch(c) \/ Search(c)
           \/ Proceed(c) \/ Cancelled(c)
    PROVE  Moves(c)
<1>. USE DEF Moves, Sending, ClientInv, ClientTypeOK
<1>. request[c] \in CallRecords /\ Idle \in CallRecords /\ Idle.stage = "idle"
  BY DEF CallRecords, Idle
<1>1. ASSUME NEW S \in SUBSET Cves, NEW op \in {"get", "batch", "search"}, Ask(c, op, S)
      PROVE  Moves(c)
  <2>1. [op |-> op, stage |-> "limiter", left |-> S, tries |-> 0] \in CallRecords
    BY DEF CallRecords
  <2>. QED BY <1>1, <2>1 DEF Ask, breaker
<1>2. CASE GetOne(c) \/ GetScoresBatch(c) \/ Search(c)
  <2>1. \A S \in SUBSET Cves : Misses(S) \in SUBSET Cves
    BY DEF Misses
  <2>. QED BY <1>1, <1>2, <2>1 DEF GetOne, GetScoresBatch, Search
<1>3. CASE Admitted(c)
  <2>1. [request[c] EXCEPT !.stage = "sending"] \in CallRecords
    BY DEF CallRecords
  <2>2. \E a \in {"admitted", "probe"} : call' = [call EXCEPT ![c] = a]
    BY <1>3 DEF Admitted, Breaker!Enter, Breaker!EnterClosed, Breaker!EnterHalfOpen
  <2>3. [request[c] EXCEPT !.stage = "sending"].stage = "sending"
    BY DEF CallRecords
  <2>. QED BY <1>3, <2>1, <2>2, <2>3 DEF Admitted
<1>4. CASE Refused(c)
  BY <1>4 DEF Refused, Finish, breaker
<1>9. CASE Respond(c)
  <2>1. Become(c, request[c]) /\ UNCHANGED call
    BY <1>9 DEF Respond, Become, breaker
  <2>. QED BY <2>1
<1>10. CASE Garbled(c)
  BY <1>10 DEF Garbled, Breaker!RecordFailure, Breaker!RecordSuccess, Finish
<1>5. CASE Answered(c)
  <2>. DEFINE chunk == DOMAIN reply[c]
  <2>1. IF chunk = request[c].left
        THEN Breaker!RecordSuccess(c) /\ Finish(c)
        ELSE /\ Become(c, [request[c] EXCEPT !.left = @ \ chunk, !.tries = 0])
             /\ UNCHANGED breaker
    BY <1>5 DEF Answered, NextChunk
  <2>2. CASE chunk = request[c].left
    BY <2>1, <2>2 DEF Breaker!RecordSuccess, Finish
  <2>3. CASE chunk # request[c].left
    <3>. DEFINE r == [request[c] EXCEPT !.left = @ \ chunk, !.tries = 0]
    <3>2. r \in CallRecords /\ r.stage = request[c].stage
      BY Shrink
    <3>3. Become(c, r) /\ UNCHANGED call
      BY <2>1, <2>3 DEF breaker
    <3>. HIDE DEF r
    <3>. QED BY <3>2, <3>3
  <2>. QED BY <2>2, <2>3
<1>6. CASE Retry(c)
  <2>. DEFINE r == [request[c] EXCEPT !.tries = @ + 1]
  <2>1. r \in CallRecords /\ r.stage = request[c].stage
    BY DEF CallRecords
  <2>. QED BY <1>6, <2>1 DEF Retry, breaker
<1>7. CASE Failed(c)
  BY <1>7 DEF Failed, Breaker!RecordFailure, Finish
<1>8. CASE Cancelled(c)
  BY <1>8 DEF Cancelled, Breaker!LeaveUnrecorded, Finish, breaker
<1>. QED BY <1>2, <1>3, <1>4, <1>5, <1>6, <1>7, <1>8, <1>9, <1>10 DEF Proceed

LEMMA HeldStep ==
    ASSUME ClientInv, NEW c \in Callers, Moves(c)
    PROVE  ClientTypeOK' /\ AdmissionsAreHeld'
<1>1. PICK r \in CallRecords :
          /\ request' = [request EXCEPT ![c] = r]
          /\ \/ UNCHANGED call /\ (r.stage = "sending" <=> Sending(c))
             \/ /\ \E a \in {"admitted", "probe"} : call' = [call EXCEPT ![c] = a]
                /\ r.stage = "sending"
             \/ call' = [call EXCEPT ![c] = "idle"] /\ r.stage # "sending"
  BY DEF Moves, Become
<1>2. ClientTypeOK'
  BY <1>1 DEF ClientInv, ClientTypeOK
<1>3. \A d \in Callers : request'[d] = IF d = c THEN r ELSE request[d]
  BY <1>1 DEF ClientInv, ClientTypeOK
<1>4. AdmissionsAreHeld'
  BY <1>1, <1>3 DEF ClientInv, ClientTypeOK, AdmissionsAreHeld, Sending
<1>. QED BY <1>2, <1>4

-----------------------------------------------------------------------------
(* What each step does to the cache *)

OverwriteStep ==
    \A v \in Cves :
        cache[v] # Absent /\ cache'[v] \notin {cache[v], Absent} => v \in raced

\* A step that fetches nothing new and caches nothing.
LEMMA QuietRace ==
    ASSUME RaceInv, UNCHANGED <<cache, raced>>,
           \A v \in Cves : \A d \in Callers : d \in Fetching(v)' => d \in Fetching(v)
    PROVE  RaceInv' /\ OverwriteStep
BY DEF RaceInv, OverwriteStep

\* Whoever asks is either alone with each CVE or marks it as raced, and asks only
\* for what is missing.
LEMMA AskRace ==
    ASSUME ClientInv, NEW c \in Callers, NEW S \in SUBSET Cves,
           NEW op \in {"get", "batch", "search"}, Ask(c, op, S),
           op # "search" => \A v \in S : cache[v] = Absent
    PROVE  RaceInv' /\ OverwriteStep
<1>1. /\ request' = [request EXCEPT ![c] =
                        [op |-> op, stage |-> "limiter", left |-> S, tries |-> 0]]
      /\ UNCHANGED cache
      /\ raced' = raced \cup {v \in S : op # "search" /\ Fetching(v) # {}}
  BY DEF Ask, Become
<1>2. /\ \A v \in Cves : c \in Fetching(v)' => op # "search" /\ v \in S
      /\ \A v \in Cves, d \in Callers \ {c} : d \in Fetching(v)' <=> d \in Fetching(v)
  BY <1>1 DEF Fetching, ClientInv, ClientTypeOK
<1>3. \A v \in Cves : c \in Fetching(v)' => cache[v] = Absent
  BY <1>2
<1>4. \A v \in Cves, d \in Callers \ {c} :
         c \in Fetching(v)' /\ d \in Fetching(v)' => v \in raced'
  BY <1>1, <1>2
<1>. QED BY <1>1, <1>2, <1>3, <1>4 DEF ClientInv, RaceInv, OverwriteStep

\* What is cached anew was fetched, so that it replaces something or remains to
\* be fetched by another only when it raced.
LEMMA AnswerRace ==
    ASSUME ClientInv, NEW c \in Callers, Answered(c) \/ Garbled(c)
    PROVE  RaceInv' /\ OverwriteStep
<1>. DEFINE chunk == DOMAIN reply[c]
<1>1. /\ chunk \subseteq request[c].left /\ chunk # {}
      /\ \/ UNCHANGED cache
         \/ request[c].op # "search" /\ \E part \in SUBSET chunk : Cached(c, part)
      /\ \/ Become(c, Idle)
         \/ /\ chunk # request[c].left
            /\ Become(c, [request[c] EXCEPT !.left = @ \ chunk, !.tries = 0])
  <2>1. Known(c) \subseteq chunk
    BY DEF Known
  <2>2. CASE Answered(c)
    BY <2>1, <2>2 DEF Answered, NextChunk, Finish, Arrived, ClientInv, ReplyInv
  <2>3. CASE Garbled(c)
    <3>1. CASE request[c].op = "batch"
      BY <2>1, <2>3, <3>1 DEF Garbled, Finish, Arrived, ClientInv, ReplyInv
    <3>2. CASE request[c].op # "batch"
      BY <2>3, <3>2 DEF Garbled, Finish, Arrived, ClientInv, ReplyInv
    <3>. QED BY <3>1, <3>2
  <2>. QED BY <2>2, <2>3
<1>2. raced' = raced
  BY DEF Answered, Garbled
<1>. HIDE DEF chunk
<1>3. \A v \in Cves : /\ c \in Fetching(v)' => v \notin chunk /\ c \in Fetching(v)
                      /\ \A d \in Callers \ {c} : d \in Fetching(v)' <=> d \in Fetching(v)
  <2>1. CASE Become(c, Idle)
    BY <1>1, <2>1 DEF Become, Idle, Fetching, ClientInv, ClientTypeOK
  <2>2. CASE Become(c, [request[c] EXCEPT !.left = @ \ chunk, !.tries = 0])
    <3>. DEFINE r == [request[c] EXCEPT !.left = @ \ chunk, !.tries = 0]
    <3>1. r.left = request[c].left \ chunk /\ r.op = request[c].op
      BY Shrink DEF ClientInv, ClientTypeOK
    <3>2. request' = [request EXCEPT ![c] = r]
      BY <2>2 DEF Become
    <3>. HIDE DEF r
    <3>. QED BY <3>1, <3>2 DEF Fetching, ClientInv, ClientTypeOK
  <2>. QED BY <1>1, <2>1, <2>2
<1>4. \A v \in Cves : cache'[v] \notin {cache[v], Absent} => c \in Fetching(v) /\ v \in chunk
  <2>1. CASE UNCHANGED cache
    BY <2>1
  <2>2. ASSUME request[c].op # "search", NEW part \in SUBSET chunk, Cached(c, part)
        PROVE  \A v \in Cves : cache'[v] \notin {cache[v], Absent} =>
                  c \in Fetching(v) /\ v \in chunk
    <3>. DEFINE full == [v \in Cves |-> IF v \in part THEN reply[c][v] ELSE cache[v]]
    <3>1. PICK kept \in SUBSET {v \in Cves : full[v] # Absent} :
              cache' = [v \in Cves |-> IF v \in kept THEN full[v] ELSE Absent]
      BY <2>2 DEF Cached, Evict
    <3>. QED BY <1>1, <2>2, <3>1 DEF Fetching
  <2>. QED BY <1>1, <2>1, <2>2
<1>. QED BY <1>2, <1>3, <1>4 DEF ClientInv, RaceInv, OverwriteStep

\* What is on its way to a caller is what it asked for, until it goes on.
LEMMA ReplyStep ==
    ASSUME ClientInv, [Next]_vars
    PROVE  ReplyInv'
<1>. USE NothingArrived DEF ClientInv, ClientTypeOK, ReplyInv, Sending
<1>1. ASSUME NEW c \in Callers, NEW r, Become(c, r), NoAnswer(c) PROVE ReplyInv'
  BY <1>1 DEF Become, NoAnswer
<1>2. ASSUME NEW c \in Callers, NEW r, Become(c, r), reply' = reply,
             request[c].stage # "sending"
      PROVE  ReplyInv'
  BY <1>2 DEF Become
<1>3. ASSUME NEW c \in Callers,
             Refused(c) \/ Retry(c) \/ Failed(c) \/ Cancelled(c) \/ Garbled(c)
      PROVE  ReplyInv'
  <2>1. NoAnswer(c) /\ \E r : Become(c, r)
    BY <1>3, Zenon DEF Refused, Retry, Failed, Cancelled, Garbled, Finish
  <2>. QED BY <1>1, <2>1
<1>4. ASSUME NEW c \in Callers, Answered(c) PROVE ReplyInv'
  <2>1. NoAnswer(c) /\ \E r : Become(c, r)
    BY <1>4, Zenon DEF Answered, NextChunk, Finish
  <2>. QED BY <1>1, <2>1
<1>5. ASSUME NEW c \in Callers,
             GetOne(c) \/ GetScoresBatch(c) \/ Search(c) \/ Admitted(c)
      PROVE  ReplyInv'
  <2>1. reply' = reply /\ \E r : Become(c, r)
    BY <1>5, Zenon DEF GetOne, GetScoresBatch, Search, Ask, Admitted
  <2>2. request[c].stage # "sending"
    BY <1>5 DEF GetOne, GetScoresBatch, Search, Ask, Admitted
  <2>. QED BY <1>2, <2>1, <2>2
<1>6. ASSUME NEW c \in Callers, Respond(c) PROVE ReplyInv'
  BY <1>6 DEF Respond
<1>7. CASE Publish \/ ClearCache \/ Tick \/ UNCHANGED vars
  BY <1>7 DEF Publish, ClearCache, Tick, vars
<1>. QED BY <1>3, <1>4, <1>5, <1>6, <1>7 DEF Next, Proceed

LEMMA ClientStep ==
    ASSUME ClientInv, [Next]_vars
    PROVE  ClientInv' /\ OverwriteStep
<1>1. ASSUME NEW c \in Callers, GetOne(c) \/ GetScoresBatch(c) \/ Search(c)
      PROVE  RaceInv' /\ OverwriteStep
  <2>1. ASSUME NEW S \in SUBSET Cves
        PROVE  Misses(S) \in SUBSET Cves /\ \A v \in Misses(S) : cache[v] = Absent
    BY DEF Misses
  <2>. QED BY <1>1, <2>1, AskRace DEF GetOne, GetScoresBatch, Search
<1>2. ASSUME NEW c \in Callers,
             \/ Admitted(c) \/ Refused(c) \/ Respond(c)
             \/ Retry(c) \/ Failed(c) \/ Cancelled(c)
      PROVE  RaceInv' /\ OverwriteStep
  <2>1. UNCHANGED <<cache, raced>>
    BY <1>2 DEF Admitted, Refused, Respond, Retry, Failed, Cancelled
  <2>2. PICK r \in CallRecords : /\ request' = [request EXCEPT ![c] = r]
                                 /\ r.left \in {{}, request[c].left}
                                 /\ r.left # {} => r.op = request[c].op
    <3>. request[c] \in CallRecords /\ Idle \in CallRecords /\ Idle.left = {}
      BY DEF ClientInv, ClientTypeOK, CallRecords, Idle
    <3>1. CASE Refused(c) \/ Failed(c) \/ Cancelled(c)
      BY <3>1 DEF Refused, Failed, Cancelled, Finish, Become
    <3>2. CASE Admitted(c)
      <4>. DEFINE r == [request[c] EXCEPT !.stage = "sending"]
      <4>1. r \in CallRecords /\ r.left = request[c].left /\ r.op = request[c].op
        BY DEF CallRecords
      <4>. QED BY <3>2, <4>1 DEF Admitted, Become
    <3>3. CASE Retry(c)
      <4>. DEFINE r == [request[c] EXCEPT !.tries = @ + 1]
      <4>1. r \in CallRecords /\ r.left = request[c].left /\ r.op = request[c].op
        BY DEF CallRecords
      <4>. QED BY <3>3, <4>1 DEF Retry, Become
    <3>4. CASE Respond(c)
      BY <3>4 DEF Respond, ClientInv, ClientTypeOK
    <3>. QED BY <1>2, <3>1, <3>2, <3>3, <3>4
  <2>3. \A d \in Callers : request'[d] = IF d = c THEN r ELSE request[d]
    BY <2>2 DEF ClientInv, ClientTypeOK
  <2>4. \A v \in Cves : \A d \in Callers : d \in Fetching(v)' => d \in Fetching(v)
    BY <2>2, <2>3 DEF Fetching
  <2>. QED BY <2>1, <2>4, QuietRace DEF ClientInv
<1>3. ASSUME Publish \/ Tick \/ UNCHANGED vars PROVE RaceInv' /\ OverwriteStep
  <2>1. UNCHANGED <<cache, raced, request>>
    BY <1>3 DEF Publish, Tick, vars
  <2>. QED BY <2>1, QuietRace DEF Fetching, ClientInv
<1>6. ASSUME ClearCache PROVE RaceInv' /\ OverwriteStep
  BY <1>6 DEF ClearCache, ClientInv, RaceInv, OverwriteStep, Fetching
<1>4. RaceInv' /\ OverwriteStep
  BY <1>1, <1>2, <1>3, <1>6, AnswerRace DEF Next, Proceed
<1>5. ClientTypeOK' /\ AdmissionsAreHeld'
  <2>1. ASSUME NEW c \in Callers,
               \/ GetOne(c) \/ GetScoresBatch(c) \/ Search(c)
               \/ Proceed(c) \/ Cancelled(c)
        PROVE  ClientTypeOK' /\ AdmissionsAreHeld'
    BY <2>1, CallerMoves, HeldStep
  <2>2. CASE Publish \/ ClearCache \/ Tick \/ UNCHANGED vars
    <3>1. UNCHANGED <<call, request>>
      BY <2>2 DEF Publish, ClearCache, Tick, vars, breaker, Breaker!Tick
    <3>. QED BY <3>1 DEF ClientInv, ClientTypeOK, AdmissionsAreHeld, Sending
  <2>. QED BY <2>1, <2>2 DEF Next
<1>. QED BY <1>4, <1>5, ReplyStep DEF ClientInv

-----------------------------------------------------------------------------
\* The clients use their breaker as its module specifies, whatever they are
\* asked, however often they retry and wherever they are cancelled: what is
\* proved of the breaker holds of the breaker inside each client.
THEOREM ClientsUseTheBreaker == Spec => UsesBreaker
<1>1. Init => Breaker!Init
  BY DEF Init
<1>2. ClientInv /\ [Next]_vars => [Breaker!Next]_(Breaker!vars)
  BY BreakerMoves
<1>3. ClientInv /\ [Next]_vars => ClientInv'
  BY ClientStep
<1>. QED BY <1>1, <1>2, <1>3, InitClientInv, PTL DEF Spec, UsesBreaker, Breaker!Spec

\* The theorems about the breaker, for the breaker inside a client.
Proved == INSTANCE CircuitBreakerProofs

LEMMA SameBreaker ==
    /\ Breaker!Init => Proved!Init
    /\ [Breaker!Next]_(Breaker!vars) => [Proved!Next]_(Proved!vars)
BY DEF
    Breaker!Init, Breaker!Next, Breaker!vars, Breaker!Never, Breaker!EnterClosed,
    Breaker!EnterHalfOpen, Breaker!RecordSuccess, Breaker!RecordFailure,
    Breaker!LeaveUnrecorded, Breaker!Reset, Breaker!Tick, Breaker!ReportedState,
    Breaker!ShouldAttemptReset, Breaker!ReleaseSlot, Breaker!EndEpisode,
    Breaker!CountFailure, Breaker!StateAfterFailure,
    Proved!Init, Proved!Next, Proved!vars, Proved!Never, Proved!EnterClosed,
    Proved!EnterHalfOpen, Proved!RecordSuccess, Proved!RecordFailure,
    Proved!LeaveUnrecorded, Proved!Reset, Proved!Tick, Proved!ReportedState,
    Proved!ShouldAttemptReset, Proved!ReleaseSlot, Proved!EndEpisode,
    Proved!CountFailure, Proved!StateAfterFailure

\* Inside every client the circuit opens at the threshold, an open one can be
\* tested again and an episode's test calls are accounted for, whatever mix of
\* retries, chunks, searches and cancelled calls its callers make.
THEOREM ClientsKeepTheThreshold ==
    Spec => [](/\ Breaker!ClosedBelowThreshold
               /\ Breaker!OpenCanBeTested
               /\ Breaker!EpisodeAccounted)
<1>1. Proved!Spec => [](/\ Proved!ClosedBelowThreshold
                       /\ Proved!OpenCanBeTested
                       /\ Proved!EpisodeAccounted)
  <2>1. Proved!IsFiniteSet(Callers)
    BY ClientAssumption DEF IsFiniteSet, Proved!IsFiniteSet
  <2>2. Proved!Spec => []Proved!ClosedBelowThreshold
    BY <2>1, ClientAssumption, Proved!ThresholdRespected
  <2>3. Proved!Spec => []Proved!OpenCanBeTested
    BY <2>1, ClientAssumption, Proved!OpenTestable
  <2>4. Proved!Spec => []Proved!EpisodeAccounted
    BY <2>1, ClientAssumption, Proved!EpisodesAccounted
  <2>. QED BY <2>2, <2>3, <2>4, PTL
<1>2. Proved!ClosedBelowThreshold => Breaker!ClosedBelowThreshold
  BY DEF Proved!ClosedBelowThreshold, Breaker!ClosedBelowThreshold
<1>3. Proved!OpenCanBeTested => Breaker!OpenCanBeTested
  BY DEF Proved!OpenCanBeTested, Breaker!OpenCanBeTested, Proved!Never, Breaker!Never
<1>4. Proved!EpisodeAccounted => Breaker!EpisodeAccounted
  BY DEF Proved!EpisodeAccounted, Breaker!EpisodeAccounted, Proved!Cardinality,
         Breaker!Cardinality
<1>. QED
  BY <1>1, <1>2, <1>3, <1>4, SameBreaker, ClientsUseTheBreaker, PTL
  DEF UsesBreaker, Breaker!Spec, Proved!Spec

\* An admission of the breaker is held exactly while its request is on the
\* wire, through retries, chunks, failures and cancellation.
THEOREM AdmissionsComeBack == Spec => []AdmissionsAreHeld
<1>1. ClientInv /\ [Next]_vars => ClientInv'
  BY ClientStep
<1>2. ClientInv => AdmissionsAreHeld
  BY DEF ClientInv
<1>. QED BY <1>1, <1>2, InitClientInv, PTL DEF Spec

\* A cached answer gives way to another only when two calls fetched the CVE at
\* once, for every cache size and every eviction.
THEOREM CachedAnswersStay == Spec => OverwriteNeedsRace
<1>1. ClientInv /\ [Next]_vars => ClientInv' /\ [OverwriteStep]_vars
  BY ClientStep
<1>. QED BY <1>1, InitClientInv, PTL DEF Spec, OverwriteNeedsRace, OverwriteStep

\* A call on the wire stays as it is, or tries again below the limit, or leaves
\* CVEs behind for good, or ends.
CallsRunOut ==
    [][\A c \in Callers : Sending(c) =>
          LET q == request[c]  r == request'[c] IN
          \/ r = q
          \/ /\ r.stage = "sending" /\ r.op = q.op /\ r.left = q.left
             /\ r.tries = q.tries + 1 /\ r.tries < MaxAttempts
          \/ /\ r.stage = "sending" /\ r.op = q.op
             /\ r.left # {} /\ r.left \subseteq q.left /\ r.left # q.left
          \/ r = Idle]_vars

\* No call of an API client goes round inside the one breaker entry it holds (the
\* retries of tenacity inside the chunks of epss_client.py): for n CVEs it is over
\* after at most n times MaxAttempts requests.
THEOREM CallsWearOut == Spec => CallsRunOut
<1>1. ASSUME ClientInv, Next, NEW c \in Callers, Sending(c)
      PROVE  \/ request'[c] = request[c]
             \/ /\ request'[c].stage = "sending" /\ request'[c].op = request[c].op
                /\ request'[c].left = request[c].left
                /\ request'[c].tries = request[c].tries + 1 /\ request'[c].tries < MaxAttempts
             \/ /\ request'[c].stage = "sending" /\ request'[c].op = request[c].op
                /\ request'[c].left # {} /\ request'[c].left \subseteq request[c].left
                /\ request'[c].left # request[c].left
             \/ request'[c] = Idle
  <2>1. /\ request \in [Callers -> CallRecords] /\ request[c].stage = "sending"
        /\ MaxAttempts \in Nat
    BY <1>1, ClientAssumption DEF ClientAssumption, ClientInv, ClientTypeOK, Sending
  <2>2. CASE UNCHANGED request
    BY <2>2
  <2>3. ASSUME NEW d \in Callers, d # c, NEW r, Become(d, r) PROVE request'[c] = request[c]
    BY <2>1, <2>3 DEF Become
  <2>4. ASSUME NEW d \in Callers, d # c,
               GetOne(d) \/ GetScoresBatch(d) \/ Search(d) \/ Proceed(d) \/ Cancelled(d)
        PROVE  request'[c] = request[c]
    <3>1. CASE \/ GetOne(d) \/ GetScoresBatch(d) \/ Search(d)
               \/ Admitted(d) \/ Refused(d) \/ Garbled(d)
               \/ Retry(d) \/ Failed(d) \/ Cancelled(d)
      <4>1. \E r : Become(d, r)
        BY <3>1, Zenon DEF GetOne, GetScoresBatch, Search, Ask, Admitted, Refused, Garbled,
           Retry, Failed, Cancelled, Finish
      <4>. QED BY <2>3, <2>4, <4>1
    <3>2. CASE Answered(d)
      <4>1. \E r : Become(d, r)
        BY <3>2, Zenon DEF Answered, NextChunk, Finish
      <4>. QED BY <2>3, <2>4, <4>1
    <3>3. CASE Respond(d)
      BY <3>3 DEF Respond
    <3>. QED BY <2>4, <3>1, <3>2, <3>3 DEF Proceed
  <2>5. CASE Answered(c)
    <3>. DEFINE chunk == DOMAIN reply[c]
    <3>1. /\ \/ chunk = request[c].left /\ Finish(c)
             \/ /\ chunk # request[c].left
                /\ Become(c, [request[c] EXCEPT !.left = @ \ chunk, !.tries = 0])
      BY <2>5, Zenon DEF Answered, NextChunk
    <3>4. chunk \subseteq request[c].left /\ chunk # {}
      BY <1>1, <2>5 DEF Answered, Arrived, ClientInv, ReplyInv
    <3>. HIDE DEF chunk
    <3>2. CASE chunk = request[c].left
      BY <2>1, <3>1, <3>2 DEF Finish, Become
    <3>3. CASE chunk # request[c].left
      <4>1. request'[c] = [request[c] EXCEPT !.left = @ \ chunk, !.tries = 0]
        BY <2>1, <3>1, <3>3 DEF Become
      <4>2. /\ request'[c].stage = "sending" /\ request'[c].op = request[c].op
            /\ request'[c].left = request[c].left \ chunk
        <5>1. DOMAIN request[c] = {"op", "stage", "left", "tries"}
          BY <2>1 DEF CallRecords
        <5>. QED BY <2>1, <4>1, <5>1
      <4>. QED BY <3>3, <3>4, <4>2
    <3>. QED BY <3>2, <3>3
  <2>6. CASE Retry(c)
    <3>1. /\ request'[c] = [request[c] EXCEPT !.tries = @ + 1]
          /\ request[c].tries < MaxAttempts - 1
      BY <2>1, <2>6 DEF Retry, Become
    <3>2. DOMAIN request[c] = {"op", "stage", "left", "tries"} /\ request[c].tries \in Int
      BY <2>1 DEF CallRecords
    <3>3. /\ request'[c].stage = "sending" /\ request'[c].op = request[c].op
          /\ request'[c].left = request[c].left
          /\ request'[c].tries = request[c].tries + 1
      BY <2>1, <3>1, <3>2
    <3>. QED BY <2>1, <3>1, <3>2, <3>3
  <2>7. CASE Failed(c) \/ Cancelled(c) \/ Garbled(c)
    BY <2>1, <2>7 DEF Failed, Cancelled, Garbled, Finish, Become
  <2>8. ~GetOne(c) /\ ~GetScoresBatch(c) /\ ~Search(c) /\ ~Admitted(c) /\ ~Refused(c)
    BY <2>1 DEF GetOne, GetScoresBatch, Search, Ask, Admitted, Refused
  <2>. QED
    BY <1>1, <2>2, <2>4, <2>5, <2>6, <2>7, <2>8 DEF Next, Proceed, Publish, ClearCache, Tick, Respond
<1>2. ASSUME ClientInv, [Next]_vars
      PROVE  [\A c \in Callers : Sending(c) =>
                LET q == request[c]  r == request'[c] IN
                \/ r = q
                \/ /\ r.stage = "sending" /\ r.op = q.op /\ r.left = q.left
                   /\ r.tries = q.tries + 1 /\ r.tries < MaxAttempts
                \/ /\ r.stage = "sending" /\ r.op = q.op
                   /\ r.left # {} /\ r.left \subseteq q.left /\ r.left # q.left
                \/ r = Idle]_vars
  BY <1>1, <1>2
<1>3. ClientInv /\ [Next]_vars => ClientInv'
  BY ClientStep
<1>. QED BY <1>2, <1>3, InitClientInv, PTL DEF Spec, CallsRunOut

-----------------------------------------------------------------------------
(* The rate limiter *)

\* What is still in the bucket has not been let through: the balance that
\* makes RateKept inductive, whenever the window was opened.
Balance == tokens + Cost * taken <= Capacity + Refill * window

\* When the processor wakes there is a token, unless the fast path took it.
WakesInTime == sleep > 0 => tokens + Refill * (sleep - 1) < Cost

LimiterInv ==
    /\ LimiterTypeOK
    /\ Balance
    /\ QueueIsServed
    /\ WakesInTime

\* What \div does, in the form the steps below use.
LEMMA Division ==
    ASSUME NEW n \in Nat, NEW d \in Nat \ {0}
    PROVE  /\ n \div d \in Nat
           /\ d * (n \div d) <= n
           /\ n < d * (n \div d) + d
<1>1. n = (d * (n \div d)) + (n % d) /\ n % d \in 0..(d - 1) /\ n \div d \in Int
  OBVIOUS
<1>2. n \div d \in Nat
  BY SMT
<1>3. QED
  BY <1>1, <1>2

LEMMA Products ==
    ASSUME NEW a \in Nat, NEW b \in Nat
    PROVE  /\ a * b \in Nat
           /\ a * (b + 1) = a * b + a
           /\ a * (b - 1) = a * b - a
           /\ a * 0 = 0
OBVIOUS

\* A larger factor, a larger product.
LEMMA ProductGrows ==
    ASSUME NEW a \in Nat, NEW b \in Nat, NEW c \in Nat, b <= c
    PROVE  a * b <= a * c
OBVIOUS

LEMMA ProductOfSum ==
    ASSUME NEW a \in Nat, NEW b \in Nat, NEW c \in Nat
    PROVE  a * (b + c) = a * b + a * c
OBVIOUS

\* The queue is finite, and one more entry counts for at most one.
LEMMA QueueCount ==
    ASSUME NEW Q \in SUBSET Requests
    PROVE  /\ IsFiniteSet(Q)
           /\ Cardinality(Q) \in Nat
           /\ \A r \in Requests : Cardinality(Q \cup {r}) <= Cardinality(Q) + 1
           /\ \A S \in SUBSET Q :
                 /\ IsFiniteSet(S)
                 /\ Cardinality(S) \in Nat
                 /\ Cardinality(S) <= Cardinality(Q)
                 /\ Cardinality(S) = Cardinality(Q) => S = Q
                 /\ Cardinality(Q \ S) <= Cardinality(Q)
<1>1. IsFiniteSet(Requests)
  BY LimiterAssumption, FS_Interval DEF LimiterAssumption, Requests
<1>2. IsFiniteSet(Q)
  BY <1>1, FS_Subset
<1>3. Cardinality(Q) \in Nat
  BY <1>2, FS_CardinalityType
<1>4. \A r \in Requests : Cardinality(Q \cup {r}) <= Cardinality(Q) + 1
  <2> TAKE r \in Requests
  <2>1. Cardinality(Q \cup {r}) = IF r \in Q THEN Cardinality(Q) ELSE Cardinality(Q) + 1
    BY <1>2, FS_AddElement, Zenon
  <2>2. QED
    BY <2>1, <1>3
<1>5. ASSUME NEW S \in SUBSET Q
      PROVE  /\ IsFiniteSet(S)
             /\ Cardinality(S) \in Nat
             /\ Cardinality(S) <= Cardinality(Q)
             /\ Cardinality(S) = Cardinality(Q) => S = Q
             /\ Cardinality(Q \ S) <= Cardinality(Q)
  <2>1. IsFiniteSet(S)
    BY <1>2, FS_Subset
  <2>2. Cardinality(S) <= Cardinality(Q) /\ (Cardinality(S) = Cardinality(Q) => S = Q)
    BY <1>2, FS_Subset
  <2>3. Cardinality(S) \in Nat
    BY <2>1, FS_CardinalityType
  <2>4. Cardinality(Q \ S) <= Cardinality(Q)
    <3>1. Q \ S \in SUBSET Q
      OBVIOUS
    <3>2. QED
      BY <1>2, <3>1, FS_Subset
  <2>5. QED
    BY <2>1, <2>2, <2>3, <2>4
<1>6. QED
  BY <1>2, <1>3, <1>4, <1>5

LEMMA InitLimiterInv == LimiterInit => LimiterInv
<1> SUFFICES ASSUME LimiterInit PROVE LimiterInv
  OBVIOUS
<1>1. LimiterTypeOK
  <2>1. queue \in SUBSET Requests /\ Cardinality(queue) <= MaxQueue
    BY LimiterAssumption, FS_EmptySet DEF LimiterAssumption, LimiterInit
  <2>2. tokens \in 0..Capacity /\ sleep \in Nat /\ window \in Nat /\ taken \in Nat
    BY LimiterAssumption DEF LimiterAssumption, LimiterInit
  <2>3. made \in 0..MaxRequests /\ processor \in {"none", "done"} \cup Live
    BY LimiterAssumption DEF LimiterAssumption, LimiterInit
  <2>4. priority \in [Requests -> Priorities \cup {0}] /\ status \in [Requests -> Status]
    BY DEF LimiterInit, Status
  <2>5. QED
    BY <2>1, <2>2, <2>3, <2>4 DEF LimiterTypeOK
<1>2. Balance /\ WakesInTime
  BY LimiterAssumption DEF LimiterAssumption, LimiterInit, Balance, WakesInTime
<1>3. QueueIsServed
  BY DEF LimiterInit, QueueIsServed, Live
<1>4. QED
  BY <1>1, <1>2, <1>3 DEF LimiterInv

\* A step that leaves bucket, queue and processor alone, and makes no new
\* waiter, keeps all that is said about them.
LEMMA QuietLimiterInv ==
    ASSUME LimiterInv,
           UNCHANGED <<tokens, queue, processor, sleep, window, taken>>,
           made' \in 0..MaxRequests,
           priority' \in [Requests -> Priorities \cup {0}],
           status' \in [Requests -> Status],
           \A r \in Requests : status'[r] = "waiting" => status[r] = "waiting"
    PROVE  LimiterInv'
BY DEF LimiterInv, LimiterTypeOK, Balance, QueueIsServed, WakesInTime

\* Making a request numbers it and gives it its status.
LEMMA Made ==
    ASSUME LimiterInv, NEW p \in Priorities \cup {0}, NEW s \in Status, Make(p, s)
    PROVE  /\ made' \in 0..MaxRequests
           /\ made + 1 \in Requests
           /\ priority' \in [Requests -> Priorities \cup {0}]
           /\ status' \in [Requests -> Status]
           /\ \A r \in Requests : status'[r] = "waiting" =>
                 status[r] = "waiting" \/ (s = "waiting" /\ r = made + 1)
BY LimiterAssumption DEF LimiterAssumption, LimiterInv, LimiterTypeOK, Make, Requests

\* The fast path takes a token and leaves the queue alone.
LEMMA AcquireNowLimiterInv ==
    ASSUME LimiterInv, AcquireNow
    PROVE  LimiterInv'
<1>1. tokens' \in 0..Capacity /\ taken' \in Nat /\ tokens' = tokens - Cost /\ taken' = taken + 1
  BY LimiterAssumption DEF LimiterAssumption, LimiterInv, LimiterTypeOK, AcquireNow
<1>2. UNCHANGED <<queue, processor, sleep, window>>
  BY DEF AcquireNow
<1>3. /\ made' \in 0..MaxRequests
      /\ priority' \in [Requests -> Priorities \cup {0}]
      /\ status' \in [Requests -> Status]
      /\ \A r \in Requests : status'[r] = "waiting" => status[r] = "waiting"
  BY Made, Zenon DEF AcquireNow, Status
<1>4. LimiterTypeOK'
  BY <1>1, <1>2, <1>3 DEF LimiterInv, LimiterTypeOK
<1>5. Balance'
  <2>1. Cost * taken' = Cost * taken + Cost /\ Cost * taken \in Nat
    BY <1>1, LimiterAssumption, Products DEF LimiterAssumption, LimiterInv, LimiterTypeOK
  <2>2. QED
    BY <1>1, <1>2, <2>1, LimiterAssumption DEF LimiterAssumption, LimiterInv, LimiterTypeOK, Balance
<1>6. QueueIsServed'
  BY <1>2, <1>3 DEF LimiterInv, QueueIsServed
<1>7. WakesInTime'
  <2>1. sleep > 0 => Refill * (sleep - 1) \in Nat
    BY LimiterAssumption DEF LimiterAssumption, LimiterInv, LimiterTypeOK
  <2>2. QED
    BY <1>1, <1>2, <2>1, LimiterAssumption DEF LimiterAssumption, LimiterInv, LimiterTypeOK, WakesInTime
<1>8. QED
  BY <1>4, <1>5, <1>6, <1>7 DEF LimiterInv

\* A queued request finds a processor, or makes one.
LEMMA EnqueueLimiterInv ==
    ASSUME LimiterInv, NEW p \in Priorities, Enqueue(p)
    PROVE  LimiterInv'
<1>1. /\ made' \in 0..MaxRequests
      /\ made + 1 \in Requests
      /\ priority' \in [Requests -> Priorities \cup {0}]
      /\ status' \in [Requests -> Status]
      /\ \A r \in Requests : status'[r] = "waiting" => status[r] = "waiting" \/ r = made + 1
  BY Made, Zenon DEF Enqueue, Status
<1>2. UNCHANGED <<tokens, sleep, window, taken>> /\ queue' = queue \cup {made + 1}
  BY DEF Enqueue
<1>3. processor' \in Live
  BY DEF Enqueue, EnsureProcessorRunning, Live
<1>4. queue' \in SUBSET Requests /\ Cardinality(queue') <= MaxQueue
  <2>1. queue \in SUBSET Requests /\ Cardinality(queue) < MaxQueue
    BY DEF Enqueue, LimiterInv, LimiterTypeOK
  <2>2. Cardinality(queue') <= Cardinality(queue) + 1 /\ Cardinality(queue) \in Nat
    BY <1>1, <1>2, <2>1, QueueCount
  <2>3. Cardinality(queue') \in Nat
    BY <1>1, <1>2, <2>1, QueueCount
  <2>4. QED
    BY <1>1, <1>2, <2>1, <2>2, <2>3, LimiterAssumption DEF LimiterAssumption
<1>5. LimiterTypeOK'
  BY <1>1, <1>2, <1>3, <1>4 DEF LimiterInv, LimiterTypeOK
<1>6. QueueIsServed'
  BY <1>1, <1>2, <1>3 DEF LimiterInv, QueueIsServed
<1>7. Balance' /\ WakesInTime'
  BY <1>2 DEF LimiterInv, Balance, WakesInTime
<1>8. QED
  BY <1>5, <1>6, <1>7 DEF LimiterInv

\* The nap that follows is exactly as long as the next token needs.
LEMMA NapLength ==
    ASSUME NEW t \in Nat, t < Cost
    PROVE  /\ WaitTime(t) \in Nat
           /\ WaitTime(t) > 0 => t + Refill * (WaitTime(t) - 1) < Cost
<1> DEFINE n == Cost - t + Refill - 1
<1>1. n \in Nat /\ Refill \in Nat \ {0} /\ Cost \in Nat
  BY LimiterAssumption DEF LimiterAssumption
<1>2. WaitTime(t) = n \div Refill
  BY DEF WaitTime
<1>3. n \div Refill \in Nat /\ Refill * (n \div Refill) <= n
  BY <1>1, Division
<1>4. Refill * (n \div Refill - 1) = Refill * (n \div Refill) - Refill
  BY <1>1, <1>3, Products
<1>5. Refill * (n \div Refill) \in Nat
  BY <1>1, <1>3, Products
<1>6. QED
  BY <1>1, <1>2, <1>3, <1>4, <1>5

\* The processor pays for what it releases, and if entries are left it is
\* because less than a token is.
LEMMA Payment ==
    ASSUME LimiterInv, NEW served \in SUBSET queue, Cardinality(served) = Affordable
    PROVE  /\ Cardinality(served) \in Nat
           /\ tokens - Cost * Cardinality(served) \in 0..Capacity
           /\ served # queue => tokens - Cost * Cardinality(served) < Cost
<1> DEFINE k == Cardinality(served)
           q == Cardinality(queue)
           n == tokens \div Cost
<1>1. tokens \in 0..Capacity /\ tokens \in Nat /\ Cost \in Nat \ {0} /\ Capacity \in Nat
  BY LimiterAssumption DEF LimiterAssumption, LimiterInv, LimiterTypeOK
<1>2. k \in Nat /\ q \in Nat /\ (k = q => served = queue)
  BY QueueCount DEF LimiterInv, LimiterTypeOK
<1>3. n \in Nat /\ Cost * n <= tokens /\ tokens < Cost * n + Cost
  BY <1>1, Division
<1>4. k = IF n <= q THEN n ELSE q
  BY DEF Affordable
<1>5. k <= n /\ (served # queue => k = n)
  BY <1>2, <1>3, <1>4
<1>6. Cost * k <= Cost * n /\ Cost * k \in Nat /\ Cost * n \in Nat
  BY <1>1, <1>2, <1>3, <1>5, Products, ProductGrows
<1> HIDE DEF k, q, n
<1>7. tokens - Cost * k \in 0..Capacity
  BY <1>1, <1>3, <1>6
<1>8. served # queue => tokens - Cost * k < Cost
  BY <1>1, <1>3, <1>5, <1>6
<1>9. QED
  BY <1>2, <1>7, <1>8 DEF k

LEMMA ProcessQueueLimiterInv ==
    ASSUME LimiterInv, ProcessQueue
    PROVE  LimiterInv'
<1>1. PICK served \in SUBSET queue :
          Cardinality(served) = Affordable /\ Release(served) /\ NextNap(served)
  BY DEF ProcessQueue
<1>2. UNCHANGED <<made, priority, window>>
  BY DEF ProcessQueue
<1> DEFINE k == Cardinality(served)
<1>3. /\ queue' = queue \ served
      /\ tokens' = tokens - Cost * k
      /\ taken' = taken + k
      /\ status' = [r \in Requests |->
                      IF r \in served /\ status[r] = "waiting" THEN "released" ELSE status[r]]
  BY <1>1 DEF Release
<1>4. k \in Nat /\ tokens' \in 0..Capacity /\ (queue' # {} => tokens' < Cost)
  BY <1>1, <1>3, Payment
<1> HIDE DEF k
<1>5. /\ sleep' \in Nat
      /\ sleep' > 0 => tokens' + Refill * (sleep' - 1) < Cost
      /\ processor' \in {"none", "done"} \cup Live
      /\ queue' # {} <=> processor' \in Live
  <2>1. CASE queue' = {}
    BY <1>1, <2>1 DEF NextNap, Live
  <2>2. CASE queue' # {}
    <3>1. processor' = "asleep" /\ sleep' = WaitTime(tokens')
      BY <1>1, <2>2 DEF NextNap
    <3>2. tokens' \in Nat
      BY <1>4
    <3>3. QED
      BY <1>4, <2>2, <3>1, <3>2, NapLength DEF Live
  <2>3. QED
    BY <2>1, <2>2
<1>6. LimiterTypeOK'
  <2>1. queue' \in SUBSET Requests /\ Cardinality(queue') <= MaxQueue
    <3>1. queue \in SUBSET Requests /\ Cardinality(queue) <= MaxQueue
      BY DEF LimiterInv, LimiterTypeOK
    <3>2. Cardinality(queue') <= Cardinality(queue)
      BY <1>3, <3>1, QueueCount
    <3>3. queue' \in SUBSET Requests /\ Cardinality(queue) \in Nat
      BY <1>3, <3>1, QueueCount
    <3>4. Cardinality(queue') \in Nat
      BY <3>3, QueueCount
    <3>5. QED
      BY <3>1, <3>2, <3>3, <3>4, LimiterAssumption DEF LimiterAssumption
  <2>2. status' \in [Requests -> Status]
    BY <1>3 DEF LimiterInv, LimiterTypeOK, Status
  <2>3. taken' \in Nat
    BY <1>3, <1>4 DEF LimiterInv, LimiterTypeOK
  <2>4. QED
    BY <1>2, <1>4, <1>5, <2>1, <2>2, <2>3 DEF LimiterInv, LimiterTypeOK
<1>7. Balance'
  <2>1. Cost \in Nat /\ taken \in Nat /\ tokens \in Nat
    BY LimiterAssumption DEF LimiterAssumption, LimiterInv, LimiterTypeOK
  <2>2. Cost * taken' = Cost * taken + Cost * k
    BY <1>3, <1>4, <2>1, ProductOfSum
  <2>3. Cost * k \in Nat /\ Cost * taken \in Nat
    BY <1>4, <2>1, Products
  <2>4. tokens' + Cost * taken' = tokens + Cost * taken
    BY <1>3, <2>1, <2>2, <2>3
  <2>5. QED
    BY <1>2, <2>4 DEF LimiterInv, Balance
<1>8. QueueIsServed'
  <2>1. ASSUME NEW r \in Requests, status'[r] = "waiting" PROVE r \in queue'
    BY <1>3, <2>1 DEF LimiterInv, QueueIsServed
  <2>2. QED
    BY <1>5, <2>1 DEF QueueIsServed
<1>9. WakesInTime'
  BY <1>5 DEF WakesInTime
<1>10. QED
  BY <1>6, <1>7, <1>8, <1>9 DEF LimiterInv

\* A tick brings the bucket as much as it brings the window.
LEMMA TickLimiterInv ==
    ASSUME LimiterInv, ClockTicks
    PROVE  LimiterInv'
<1>1. UNCHANGED <<queue, processor, made, priority, status, taken>>
  BY DEF ClockTicks
<1>2. tokens' \in 0..Capacity /\ tokens' <= tokens + Refill
  BY LimiterAssumption DEF LimiterAssumption, LimiterInv, LimiterTypeOK, ClockTicks, Refilled
<1>3. window' = window + 1 /\ window' \in Nat
  BY DEF ClockTicks, LimiterInv, LimiterTypeOK
<1>4. sleep' = IF sleep > 0 THEN sleep - 1 ELSE 0
  BY DEF ClockTicks
<1>5. LimiterTypeOK'
  BY <1>1, <1>2, <1>3, <1>4 DEF LimiterInv, LimiterTypeOK
<1>6. Balance'
  <2>1. /\ window \in Nat /\ taken \in Nat /\ tokens \in Nat /\ tokens' \in Nat
        /\ Cost \in Nat /\ Refill \in Nat /\ Capacity \in Nat
    BY <1>2, LimiterAssumption DEF LimiterAssumption, LimiterInv, LimiterTypeOK
  <2>2. Refill * window' = Refill * window + Refill
    BY <1>3, <2>1, Products
  <2>3. Refill * window \in Nat /\ Cost * taken \in Nat
    BY <2>1, Products
  <2>4. QED
    BY <1>1, <1>2, <2>1, <2>2, <2>3 DEF LimiterInv, Balance
<1>7. QueueIsServed'
  BY <1>1 DEF LimiterInv, QueueIsServed
<1>8. WakesInTime'
  <2>1. SUFFICES ASSUME sleep' > 0 PROVE tokens' + Refill * (sleep' - 1) < Cost
    BY DEF WakesInTime
  <2>2. sleep \in Nat /\ Refill \in Nat /\ tokens \in Nat /\ tokens' \in Nat /\ Cost \in Nat
    BY <1>2, LimiterAssumption DEF LimiterAssumption, LimiterInv, LimiterTypeOK
  <2>3. sleep > 1 /\ sleep' = sleep - 1
    BY <1>4, <2>1, <2>2
  <2>4. Refill * (sleep - 1) = Refill * (sleep' - 1) + Refill /\ Refill * (sleep' - 1) \in Nat
    <3>1. sleep' - 1 \in Nat /\ sleep - 1 = (sleep' - 1) + 1
      BY <2>2, <2>3
    <3>2. QED
      BY <2>2, <3>1, Products
  <2>5. tokens + Refill * (sleep - 1) < Cost
    BY <2>2, <2>3 DEF LimiterInv, WakesInTime
  <2>6. QED
    BY <1>2, <2>2, <2>4, <2>5
<1>9. QED
  BY <1>5, <1>6, <1>7, <1>8 DEF LimiterInv

LEMMA OpenWindowLimiterInv ==
    ASSUME LimiterInv, OpenWindow
    PROVE  LimiterInv'
<1>1. Balance'
  <2>1. Cost * taken' = 0 /\ Refill * window' = 0
    BY LimiterAssumption, Products DEF LimiterAssumption, OpenWindow
  <2>2. tokens' \in 0..Capacity /\ Capacity \in Nat
    BY LimiterAssumption DEF LimiterAssumption, LimiterInv, LimiterTypeOK, OpenWindow
  <2>3. QED
    BY <2>1, <2>2 DEF Balance
<1>2. LimiterTypeOK' /\ QueueIsServed' /\ WakesInTime'
  BY DEF LimiterInv, LimiterTypeOK, QueueIsServed, WakesInTime, OpenWindow
<1>3. QED
  BY <1>1, <1>2 DEF LimiterInv

LEMMA NextLimiterInv == LimiterInv /\ [LimiterNext]_limiterVars => LimiterInv'
<1> SUFFICES ASSUME LimiterInv, [LimiterNext]_limiterVars PROVE LimiterInv'
  OBVIOUS
<1>1. CASE AcquireNow
  BY <1>1, AcquireNowLimiterInv
<1>2. CASE Refuse
  <2>1. /\ made' \in 0..MaxRequests
        /\ priority' \in [Requests -> Priorities \cup {0}]
        /\ status' \in [Requests -> Status]
        /\ \A r \in Requests : status'[r] = "waiting" => status[r] = "waiting"
    BY <1>2, Made, Zenon DEF Refuse, Status
  <2>2. QED
    BY <1>2, <2>1, QuietLimiterInv DEF Refuse
<1>3. ASSUME NEW p \in Priorities, Enqueue(p) PROVE LimiterInv'
  BY <1>3, EnqueueLimiterInv
<1>4. ASSUME NEW r \in Requests, Resume(r) PROVE LimiterInv'
  <2>1. /\ status' \in [Requests -> Status]
        /\ \A q \in Requests : status'[q] = "waiting" => status[q] = "waiting"
    BY <1>4 DEF Resume, LimiterInv, LimiterTypeOK, Status
  <2>2. QED
    BY <1>4, <2>1, QuietLimiterInv DEF Resume, LimiterInv, LimiterTypeOK
<1>5. ASSUME NEW r \in Requests, Abandon(r) PROVE LimiterInv'
  <2>1. /\ status' \in [Requests -> Status]
        /\ \A q \in Requests : status'[q] = "waiting" => status[q] = "waiting"
    BY <1>5 DEF Abandon, LimiterInv, LimiterTypeOK, Status
  <2>2. QED
    BY <1>5, <2>1, QuietLimiterInv DEF Abandon, LimiterInv, LimiterTypeOK
<1>6. CASE ProcessQueue
  BY <1>6, ProcessQueueLimiterInv
<1>7. CASE ClockTicks
  BY <1>7, TickLimiterInv
<1>8. CASE OpenWindow
  BY <1>8, OpenWindowLimiterInv
<1>9. CASE UNCHANGED limiterVars
  BY <1>9 DEF limiterVars, LimiterInv, LimiterTypeOK, Balance, QueueIsServed, WakesInTime
<1>10. QED
  BY <1>1, <1>2, <1>3, <1>4, <1>5, <1>6, <1>7, <1>8, <1>9 DEF LimiterNext

\* The inductive invariant holds in every reachable state.
THEOREM LimiterInvHolds == LimiterSpec => []LimiterInv
BY InitLimiterInv, NextLimiterInv, PTL DEF LimiterSpec

\* The bucket never overflows or goes negative and the queue never holds more
\* than max_queue_size entries.
THEOREM LimiterTypeCorrect == LimiterSpec => []LimiterTypeOK
<1>1. LimiterInv => LimiterTypeOK
  BY DEF LimiterInv
<1>2. QED
  BY <1>1, LimiterInvHolds, PTL

\* Over every window of time, at most a full bucket plus its refill is taken.
THEOREM RateIsKept == LimiterSpec => []RateKept
<1>1. LimiterInv => RateKept
  <2> SUFFICES ASSUME LimiterInv PROVE RateKept
    OBVIOUS
  <2>1. tokens \in Nat /\ Cost * taken \in Nat /\ Refill * window \in Nat /\ Capacity \in Nat
    BY LimiterAssumption, Products DEF LimiterAssumption, LimiterInv, LimiterTypeOK
  <2>2. QED
    BY <2>1 DEF LimiterInv, Balance, RateKept
<1>2. QED
  BY <1>1, LimiterInvHolds, PTL

\* Whoever waits is in the queue, and a queue with entries has a live processor.
THEOREM NoWakeUpLost == LimiterSpec => []QueueIsServed
<1>1. LimiterInv => QueueIsServed
  BY DEF LimiterInv
<1>2. QED
  BY <1>1, LimiterInvHolds, PTL

\* No queued request is kept waiting by a nap while its token is there.
THEOREM NeverOversleeps == LimiterSpec => []NoOversleep
<1>1. LimiterInv => NoOversleep
  <2> SUFFICES ASSUME LimiterInv, sleep > 0 PROVE tokens < Cost
    BY DEF NoOversleep
  <2>1. sleep - 1 \in Nat /\ Refill \in Nat /\ tokens \in Nat /\ Cost \in Nat
    BY LimiterAssumption DEF LimiterAssumption, LimiterInv, LimiterTypeOK
  <2>2. Refill * (sleep - 1) \in Nat
    BY <2>1, Products
  <2>3. QED
    BY <2>1, <2>2 DEF LimiterInv, WakesInTime
<1>2. QED
  BY <1>1, LimiterInvHolds, PTL

\* The entries a queued request has to let pass.
Ahead(r) == {q \in queue : Before(q, r)}

\* Entries are of requests that were made, so that a newcomer is the last of
\* its priority.
EntryInv == queue \subseteq 1..made

\* Only a more urgent newcomer gets ahead of a queued request; who leaves the
\* queue leaves nobody behind who was ahead, and is released if it still waits;
\* a wake-up that finds a token takes somebody from ahead of all who stay.
WaitersMoveUp ==
    [][\A r \in queue :
          /\ \A q \in Ahead(r)' \ Ahead(r) : q \notin 1..made /\ priority'[q] < priority'[r]
          /\ r \notin queue' =>
                 /\ Ahead(r)' = {}
                 /\ status'[r] = IF status[r] = "waiting" THEN "released" ELSE status[r]
          /\ ProcessQueue /\ tokens >= Cost /\ r \in queue' => Ahead(r)' # Ahead(r)]_limiterVars

LEMMA EntriesWereMade == LimiterInv /\ EntryInv /\ [LimiterNext]_limiterVars => EntryInv'
<1>. SUFFICES ASSUME LimiterInv, EntryInv, [LimiterNext]_limiterVars PROVE EntryInv'
  OBVIOUS
<1>1. made \in Nat
  BY DEF LimiterInv, LimiterTypeOK
<1>2. CASE AcquireNow \/ Refuse \/ \E p \in Priorities : Enqueue(p)
  <2>1. made' = made + 1 /\ queue' \subseteq queue \cup {made + 1}
    BY <1>2 DEF AcquireNow, Refuse, Enqueue, Make
  <2>. QED BY <1>1, <2>1 DEF EntryInv
<1>3. CASE ProcessQueue
  BY <1>3 DEF ProcessQueue, Release, EntryInv
<1>4. CASE UNCHANGED <<queue, made>>
  BY <1>4 DEF EntryInv
<1>. QED
  BY <1>2, <1>3, <1>4 DEF LimiterNext, Resume, Abandon, ClockTicks, OpenWindow, limiterVars

\* A wake-up that finds a token releases somebody.
LEMMA TokenMeansService ==
    ASSUME LimiterInv, tokens >= Cost, queue # {}
    PROVE  Affordable \in Nat /\ Affordable >= 1
<1>1. tokens \in Nat /\ Cost \in Nat \ {0} /\ queue \in SUBSET Requests
  BY LimiterAssumption DEF LimiterAssumption, LimiterInv, LimiterTypeOK
<1>. DEFINE n == tokens \div Cost  c == Cardinality(queue)
<1>2. n \in Nat /\ n >= 1
  <2>1. n \in Nat /\ tokens < Cost * n + Cost
    BY <1>1, Division
  <2>2. n = 0 => Cost * n = 0
    BY <1>1, Products
  <2>. HIDE DEF n
  <2>. QED BY <1>1, <2>1, <2>2
<1>3. c \in Nat /\ c >= 1
  BY <1>1, QueueCount, FS_EmptySet
<1>. HIDE DEF n, c
<1>4. Affordable = IF n <= c THEN n ELSE c
  BY DEF Affordable, n, c
<1>. QED BY <1>2, <1>3, <1>4

\* The order of release (PriorityQueue of rate_limiter.py, whose entries compare
\* by priority and then by arrival): for any mix of priorities, abandoned waiters
\* and tokens stolen by the fast path, a request waits for those ahead of it and
\* for more urgent newcomers only, and each wake-up with a token brings it on.
THEOREM NobodyIsPassedOver == LimiterSpec => WaitersMoveUp
<1>. DEFINE MoveUp(r) ==
        /\ \A q \in Ahead(r)' \ Ahead(r) : q \notin 1..made /\ priority'[q] < priority'[r]
        /\ r \notin queue' =>
               /\ Ahead(r)' = {}
               /\ status'[r] = IF status[r] = "waiting" THEN "released" ELSE status[r]
        /\ ProcessQueue /\ tokens >= Cost /\ r \in queue' => Ahead(r)' # Ahead(r)
<1>1. ASSUME LimiterInv, EntryInv, LimiterNext, NEW r \in queue PROVE MoveUp(r)
  <2>0. /\ made \in Nat /\ queue \subseteq Requests /\ r \in 1..made
        /\ priority \in [Requests -> Int] /\ status \in [Requests -> Status]
    <3>1. /\ made \in Nat /\ queue \subseteq Requests
          /\ status \in [Requests -> Status] /\ priority \in [Requests -> Priorities \cup {0}]
      BY <1>1 DEF LimiterInv, LimiterTypeOK
    <3>2. Priorities \cup {0} \subseteq Int
      BY LimiterAssumption DEF LimiterAssumption
    <3>3. priority \in [Requests -> Int]
      BY <3>1, <3>2
    <3>. QED BY <1>1, <3>1, <3>3 DEF EntryInv
  <2>1. CASE ProcessQueue
    <3>1. PICK served \in SUBSET queue :
              /\ Cardinality(served) = Affordable
              /\ \A q \in served, u \in queue \ served : Before(q, u)
              /\ queue' = queue \ served /\ priority' = priority
              /\ status' = [u \in Requests |->
                    IF u \in served /\ status[u] = "waiting" THEN "released" ELSE status[u]]
      BY <2>1 DEF ProcessQueue, Release
    <3>2. Ahead(r)' = Ahead(r) \ served
      BY <3>1 DEF Ahead, Before
    <3>3. ASSUME r \in served, NEW q \in Ahead(r) \ served PROVE FALSE
      <4>1. Before(r, q) /\ Before(q, r)
        BY <3>1, <3>3 DEF Ahead
      <4>2. q \in Requests /\ r \in Requests /\ q \in Int /\ r \in Int
        BY <2>0, <3>3 DEF Ahead, Requests
      <4>. QED BY <2>0, <4>1, <4>2 DEF Before
    <3>4. ASSUME tokens >= Cost, r \in queue' PROVE Ahead(r)' # Ahead(r)
      <4>1. served # {}
        BY <1>1, <3>1, <3>4, TokenMeansService, FS_EmptySet
      <4>2. PICK q \in served : Before(q, r)
        BY <3>1, <3>4, <4>1
      <4>. QED BY <3>2, <4>2 DEF Ahead
    <3>. QED BY <2>0, <3>1, <3>2, <3>3, <3>4
  <2>2. ASSUME NEW p \in Priorities, Enqueue(p) PROVE MoveUp(r)
    <3>1. /\ queue' = queue \cup {made + 1} /\ made + 1 \in Requests
          /\ priority' = [priority EXCEPT ![made + 1] = p]
      BY <2>2 DEF Enqueue, Make
    <3>2. ~ProcessQueue
      BY <2>0, <2>2 DEF ProcessQueue, Enqueue, Make
    <3>3. priority'[r] = priority[r] /\ \A q \in queue : priority'[q] = priority[q]
      BY <1>1, <2>0, <3>1 DEF EntryInv
    <3>4. ASSUME NEW q \in Ahead(r)' \ Ahead(r)
          PROVE  q \notin 1..made /\ priority'[q] < priority'[r]
      <4>1. q = made + 1
        BY <3>1, <3>3, <3>4 DEF Ahead, Before
      <4>2. Before(q, r)'
        BY <3>4 DEF Ahead
      <4>3. priority'[q] < priority'[r] \/ q < r
        BY <4>2 DEF Before
      <4>. QED BY <2>0, <4>1, <4>3
    <3>. QED BY <3>1, <3>2, <3>4
  <2>3. CASE AcquireNow \/ Refuse
    <3>1. /\ queue' = queue /\ made' = made + 1
          /\ priority' = [priority EXCEPT ![made + 1] = 0]
      BY <2>3 DEF AcquireNow, Refuse, Make
    <3>2. ~ProcessQueue
      BY <2>0, <3>1 DEF ProcessQueue
    <3>3. \A q \in queue : priority'[q] = priority[q]
      BY <1>1, <2>0, <3>1 DEF EntryInv
    <3>4. Ahead(r)' = Ahead(r)
      BY <3>1, <3>3 DEF Ahead, Before
    <3>. QED BY <3>1, <3>2, <3>4
  <2>4. CASE ~ProcessQueue /\ UNCHANGED <<queue, priority>>
    BY <2>4 DEF Ahead, Before
  <2>. QED
    BY <1>1, <2>1, <2>2, <2>3, <2>4
    DEF LimiterNext, Resume, Abandon, ClockTicks, OpenWindow
<1>2. LimiterInit => EntryInv
  BY DEF LimiterInit, EntryInv
<1>3. ASSUME LimiterInv, EntryInv, [LimiterNext]_limiterVars
      PROVE  [\A r \in queue : MoveUp(r)]_limiterVars
  BY <1>1, <1>3
<1>. QED
  BY <1>2, <1>3, LimiterInvHolds, EntriesWereMade, PTL DEF LimiterSpec, WaitersMoveUp
=============================================================================
