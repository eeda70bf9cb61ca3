----------------------------- MODULE ApiClient -----------------------------
(***************************************************************************)
(* A client of an external API as the NVD, EPSS, GitHub and Tavily clients  *)
(* are built: an in-memory cache, the rate limiter, and around the request  *)
(* with its retries one entry of the client's circuit breaker (module       *)
(* CircuitBreaker, whose steps are taken here together with the client's).  *)
(*                                                                          *)
(* Three kinds of call share these parts: `get` of one CVE (NVD, EPSS and   *)
(* GitHub), `batch` of several in chunks (EPSS), and `search`, which caches *)
(* nothing (Tavily, GitHub packages).  The limiter (module RateLimiter)     *)
(* either lets a call through or fails it.  What the API knows of a CVE is  *)
(* a version that only grows; Absent is a CVE it does not know.  An answer  *)
(* travels: what is cached is what the API knew when it was composed.       *)
(***************************************************************************)
EXTENDS Integers, FiniteSets

CONSTANTS
    Callers, FailureThreshold, RecoveryTimeout, HalfOpenMaxCalls, MaxCount,
    Cves,
    CacheSize,     \* api_client_cache_max_size
    MaxAttempts,   \* stop_after_attempt
    MaxVersion     \* bound: how often the API's data changes

\* What the breaker asks of its setting (BreakerAssumption of CircuitBreaker),
\* and at least one attempt.
ASSUME ClientAssumption ==
    /\ IsFiniteSet(Callers)
    /\ FailureThreshold \in Nat \ {0}
    /\ RecoveryTimeout \in Nat \ {0}
    /\ HalfOpenMaxCalls \in Nat \ {0}
    /\ MaxCount \in Nat /\ MaxCount >= FailureThreshold
    /\ MaxAttempts \in Nat \ {0}

VARIABLES
    state, failureCount, sinceFailure, halfOpenCalls, call, probes, lost,
    api,       \* what the API would answer: [Cves -> version]
    cache,     \* _cache: [Cves -> version], Absent where there is no entry
    request,   \* per caller: the call it is in
    reply,     \* per caller: the answer on its way, for some CVEs of its call
    raced      \* history: CVEs that two calls were fetching at once

breaker == <<state, failureCount, sinceFailure, halfOpenCalls, call, probes, lost>>
vars == <<breaker, api, cache, request, reply, raced>>

Breaker == INSTANCE CircuitBreaker

Absent == 0
NoReply == [v \in {} |-> Absent]
Idle == [op |-> "none", stage |-> "idle", left |-> {}, tries |-> 0]

Init ==
    /\ Breaker!Init
    /\ api \in [Cves -> {Absent, 1}]
    /\ cache = [v \in Cves |-> Absent]
    /\ request = [c \in Callers |-> Idle]
    /\ reply = [c \in Callers |-> NoReply]
    /\ raced = {}

Become(c, r) == request' = [request EXCEPT ![c] = r]
NoAnswer(c) == reply' = [reply EXCEPT ![c] = NoReply]
Finish(c) == Become(c, Idle) /\ NoAnswer(c)

\* The calls that will cache what they are told about v.
Fetching(v) == {c \in Callers : request[c].op # "search" /\ v \in request[c].left}

-----------------------------------------------------------------------------
Ask(c, op, missing) ==
    /\ request[c].stage = "idle" /\ missing # {}
    /\ Become(c, [op |-> op, stage |-> "limiter", left |-> missing, tries |-> 0])
    /\ raced' = raced \cup {v \in missing : op # "search" /\ Fetching(v) # {}}
    /\ UNCHANGED <<breaker, api, cache, reply>>

Misses(S) == {v \in S : cache[v] = Absent}

\* Mutant: the cache is not looked at.
GetOne_always(c) == \E v \in Cves : Ask(c, "get", {v})

\* get_cve, get_score, get_advisory_by_cve.  A hit asks nobody and changes
\* nothing but the order of eviction.
GetOne(c) == \E v \in Cves : Ask(c, "get", Misses({v}))

\* get_scores_batch: the hits are answered at once, one request is limited.
GetScoresBatch(c) == \E S \in SUBSET Cves : Cardinality(S) > 1 /\ Ask(c, "batch", Misses(S))

\* search, search_exploit_info, get_advisories_for_package: nothing is cached.
Search(c) == \E v \in Cves : Ask(c, "search", {v})

\* rate_limiter.acquire() returns, and without another await the breaker is
\* entered.
Admitted(c) ==
    /\ request[c].stage = "limiter"
    /\ Breaker!Enter(c)
    /\ Become(c, [request[c] EXCEPT !.stage = "sending"])
    /\ UNCHANGED <<api, cache, reply, raced>>

\* The queue of the limiter is full or the wait too long, or the circuit is
\* open: the call fails (a search finds nothing).
Refused(c) ==
    /\ request[c].stage = "limiter"
    /\ Finish(c)
    /\ UNCHANGED <<breaker, api, cache, raced>>

Sending(c) == request[c].stage = "sending"

\* The API answers the request on the wire: a batch asks chunk by chunk.
Respond(c) ==
    /\ Sending(c) /\ reply[c] = NoReply
    /\ \E chunk \in (SUBSET request[c].left) \ {{}} :
          reply' = [reply EXCEPT ![c] = [v \in chunk |-> api[v]]]
    /\ UNCHANGED <<breaker, api, cache, request, raced>>

Arrived(c) == Sending(c) /\ DOMAIN reply[c] # {}

\* What the API does not know it sends nothing about, and nothing is kept.
Known(c) == {v \in DOMAIN reply[c] : reply[c][v] # Absent}

\* OrderedDict, oldest out: the new entries outlive the old.
Evict(full, found) ==
    \E kept \in SUBSET {v \in Cves : full[v] # Absent} :
        /\ \/ Cardinality(kept) = CacheSize
           \/ \A v \in Cves \ kept : full[v] = Absent
        /\ Cardinality(kept) <= CacheSize
        /\ found \subseteq kept \/ kept \subseteq found
        /\ cache' = [v \in Cves |-> IF v \in kept THEN full[v] ELSE Absent]

\* _cache_set for some CVEs of the answer.
Cached(c, found) ==
    Evict([v \in Cves |-> IF v \in found THEN reply[c][v] ELSE cache[v]], found)

\* The rest of a batch, from the next chunk on.
NextChunk(c) ==
    /\ Become(c, [request[c] EXCEPT !.left = @ \ DOMAIN reply[c], !.tries = 0])
    /\ NoAnswer(c)

\* Mutant: a chunk that is answered ends the breaker's entry.
Answered_chunk(c) ==
    /\ Arrived(c)
    /\ IF request[c].op = "search" THEN UNCHANGED cache ELSE Cached(c, Known(c))
    /\ Breaker!RecordSuccess(c)
    /\ IF DOMAIN reply[c] = request[c].left THEN Finish(c) ELSE NextChunk(c)
    /\ UNCHANGED <<api, raced>>

\* An answer arrives and is cached.  The last one leaves the breaker with a
\* success.
Answered(c) ==
    /\ Arrived(c)
    /\ IF request[c].op = "search" THEN UNCHANGED cache ELSE Cached(c, Known(c))
    /\ IF DOMAIN reply[c] = request[c].left
       THEN Breaker!RecordSuccess(c) /\ Finish(c)
       ELSE NextChunk(c) /\ UNCHANGED breaker
    /\ UNCHANGED <<api, raced>>

\* An entry of the answer cannot be read.  A single call reads it after it left
\* the breaker; a batch reads inside, and has cached the entries before it.
Garbled(c) ==
    /\ Arrived(c) /\ Known(c) # {}
    /\ IF request[c].op = "batch"
       THEN /\ \E part \in (SUBSET Known(c)) \ {Known(c)} : Cached(c, part)
            /\ Breaker!RecordFailure(c)
       ELSE Breaker!RecordSuccess(c) /\ UNCHANGED cache
    /\ Finish(c)
    /\ UNCHANGED <<api, raced>>

\* tenacity: a timeout or an HTTP error is tried again inside the entry; an
\* answer still on its way is lost.
Retry(c) ==
    /\ Sending(c) /\ request[c].tries < MaxAttempts - 1
    /\ Become(c, [request[c] EXCEPT !.tries = @ + 1])
    /\ NoAnswer(c)
    /\ UNCHANGED <<breaker, api, cache, raced>>

\* Out of attempts, or an error that is not tried again.  The chunks answered
\* before stay cached.
Failed(c) ==
    /\ Sending(c)
    /\ Breaker!RecordFailure(c)
    /\ Finish(c)
    /\ UNCHANGED <<api, cache, raced>>

\* The task is cancelled while it waits or sends.
Cancelled(c) ==
    /\ request[c].stage # "idle"
    /\ IF Sending(c) THEN Breaker!LeaveUnrecorded(c) ELSE UNCHANGED breaker
    /\ Finish(c)
    /\ UNCHANGED <<api, cache, raced>>

\* The API learns something about a CVE.
Publish ==
    /\ \E v \in Cves : api[v] < MaxVersion /\ api' = [api EXCEPT ![v] = @ + 1]
    /\ UNCHANGED <<breaker, cache, request, reply, raced>>

\* clear_cache, also while calls are on their way.
ClearCache ==
    /\ cache' = [v \in Cves |-> Absent]
    /\ UNCHANGED <<breaker, api, request, reply, raced>>

Tick == Breaker!Tick /\ UNCHANGED <<api, cache, request, reply, raced>>

-----------------------------------------------------------------------------
Proceed(c) ==
    \/ Admitted(c) \/ Refused(c)
    \/ Respond(c) \/ Answered(c) \/ Garbled(c)
    \/ Retry(c) \/ Failed(c)

Next ==
    \/ \E c \in Callers : GetOne(c)
    \/ \E c \in Callers : GetScoresBatch(c)
    \/ \E c \in Callers : Search(c)
    \/ \E c \in Callers : Proceed(c)
    \/ \E c \in Callers : Cancelled(c)
    \/ Publish
    \/ ClearCache
    \/ Tick

Spec == Init /\ [][Next]_vars

-----------------------------------------------------------------------------
(* Properties *)

\* Every admission is held by exactly one request on the wire and given back
\* when it ends, through retries, chunks, failures and cancellation: otherwise
\* the half-open slots leak or a stale entry reports twice.
AdmissionsAreHeld ==
    \A c \in Callers : (call[c] # "idle") <=> Sending(c)

\* The breaker the calls share goes only through the steps of its own module,
\* one entry and one exit per request on the wire.
UsesBreaker == Breaker!Spec

\* A cached answer is replaced by another only when two calls fetched the CVE at
\* once.  Answers travel, so the slower of the two may bring the older one: this
\* is the only way in which an older answer ever overwrites a newer one.
OverwriteNeedsRace ==
    [][\A v \in Cves :
          cache[v] # Absent /\ cache'[v] \notin {cache[v], Absent} => v \in raced]_vars
=============================================================================
