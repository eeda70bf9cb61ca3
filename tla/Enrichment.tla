----------------------------- MODULE Enrichment -----------------------------
(***************************************************************************)
(* The enrichment use case over the ChromaDB adapter.  A batch has one task *)
(* per vulnerability record, at most MaxConcurrent of them past the         *)
(* semaphore; two records may name the same CVE.  A task looks its CVE up,  *)
(* asks the sources (each answers or counts as silent), falls back to OSINT *)
(* when the answers are thin, lets the LLM judge, and stores the result.    *)
(*                                                                          *)
(* The adapter runs every collection call under one asyncio.Lock and        *)
(* updates its cache before the next call can start, so a collection call   *)
(* and the cache update after it are one step.  Relevance is in tenths.     *)
(***************************************************************************)
EXTENDS Integers, FiniteSets, FiniteSetsExt

CONSTANTS
    Tasks,          \* one per vulnerability record of a batch
    CveOf,          \* Task -> the CVE of its record
    MaxConcurrent,  \* max_concurrent
    CacheSize,      \* max_size of the LRU cache
    Answers,        \* which sources may answer: a set of sets of sources
    MaxOsint,       \* bound: OSINT results (two already score the maximum)
    LlmRelevances,  \* what the LLM may say; empty when it is not configured
    MaxBatches      \* bound: batches one after another

ASSUME EnrichmentAssumption ==
    /\ IsFiniteSet(Tasks)
    /\ MaxConcurrent \in Nat \ {0} /\ CacheSize \in Nat \ {0}
    /\ Answers \subseteq SUBSET {"nvd", "nvd_bare", "epss", "github"}
    /\ LlmRelevances \subseteq 0..10

VARIABLES
    collection,  \* what ChromaDB keeps on disk, per CVE
    cache,       \* the LRU cache, per CVE
    stage,       \* where each task is
    draft,       \* the enrichment each task has put together so far
    failed,      \* a lookup raised and gather ended the batch
    batches,     \* batches begun
    raced        \* history: CVEs that two tasks were enriching at once

vars == <<collection, cache, stage, draft, failed, batches, raced>>

Cves == {CveOf[t] : t \in Tasks}

\* No enrichment: not even one whose sources were all silent.
Nothing == [sources |-> {"none"}, osint |-> 0, relevance |-> -1]

\* Tasks past the lookup, which will store what they find.
Enriching == {"fetch", "osint", "analyse", "upsert"}
\* Mutant: a lookup that raises keeps its permit.
Inside_leaky == Enriching \cup {"lookup", "raised"}

\* Tasks that hold a permit of the semaphore.
Inside == Enriching \cup {"lookup"}

Finished == {"hit", "enriched", "error", "raised"}

Init ==
    /\ collection = [v \in Cves |-> Nothing]
    /\ cache = [v \in Cves |-> Nothing]
    /\ stage = [t \in Tasks |-> "queued"]
    /\ draft = [t \in Tasks |-> Nothing]
    /\ failed = FALSE
    /\ batches = 1
    /\ raced = {}

Goto(t, s) == stage' = [stage EXCEPT ![t] = s]

-----------------------------------------------------------------------------
(* The adapter's cache *)

\* LRUCache.put: an entry that is there is moved, not replaced; a new one may
\* push the oldest out, which may be any other.
Put(v, data) ==
    LET held == {x \in Cves : cache[x] # Nothing} IN
    IF v \in held THEN UNCHANGED cache
    ELSE IF Cardinality(held) < CacheSize THEN cache' = [cache EXCEPT ![v] = data]
    ELSE \E oldest \in held : cache' = [cache EXCEPT ![oldest] = Nothing, ![v] = data]

-----------------------------------------------------------------------------
(* Relevance *)

Weight(source) == IF source = "nvd" THEN 4 ELSE 2
Least(a, b) == IF a < b THEN a ELSE b

CalculateRelevance(sources, osint) ==
    Least(10, MapThenSumSet(Weight, sources) + Least(2, osint))

Threshold == 6

-----------------------------------------------------------------------------
(* One vulnerability: `execute` inside `enrich_one` *)

\* The semaphore is taken and the cache looked at, in one go.
Start(t) ==
    /\ stage[t] = "queued"
    /\ Cardinality({u \in Tasks : stage[u] \in Inside}) < MaxConcurrent
    /\ Goto(t, IF cache[CveOf[t]] # Nothing THEN "hit" ELSE "lookup")
    /\ UNCHANGED <<collection, cache, draft, failed, batches, raced>>

\* get_by_cve_id reads the collection.
LookupHit(t) ==
    /\ stage[t] = "lookup" /\ collection[CveOf[t]] # Nothing
    /\ Put(CveOf[t], collection[CveOf[t]])
    /\ Goto(t, "hit")
    /\ UNCHANGED <<collection, draft, failed, batches, raced>>

\* Mutant: whatever is stored, fresh data is fetched, as with skip_cache.
LookupMiss_skip(t) ==
    /\ stage[t] = "lookup"
    /\ Goto(t, "fetch")
    /\ raced' = raced \cup {v \in {CveOf[t]} :
                               \E u \in Tasks : CveOf[u] = v /\ stage[u] \in Enriching}
    /\ UNCHANGED <<collection, cache, draft, failed, batches>>

LookupMiss(t) ==
    /\ stage[t] = "lookup" /\ collection[CveOf[t]] = Nothing
    /\ Goto(t, "fetch")
    /\ raced' = raced \cup {v \in {CveOf[t]} :
                               \E u \in Tasks : CveOf[u] = v /\ stage[u] \in Enriching}
    /\ UNCHANGED <<collection, cache, draft, failed, batches>>

\* The lookup stands before the try: its error ends the gather, while the
\* other tasks of the batch run on unobserved.
LookupRaises(t) ==
    /\ stage[t] = "lookup"
    /\ Goto(t, "raised")
    /\ failed' = TRUE
    /\ UNCHANGED <<collection, cache, draft, batches, raced>>

\* The primary sources, in parallel; one that fails counts as silent.
FetchFromSources(t) ==
    /\ stage[t] = "fetch"
    /\ \E answered \in Answers :
          LET score == CalculateRelevance(answered, 0) IN
          /\ draft' = [draft EXCEPT ![t] =
                [sources |-> answered, osint |-> 0, relevance |-> score]]
          /\ Goto(t, IF score < Threshold THEN "osint" ELSE "analyse")
    /\ UNCHANGED <<collection, cache, failed, batches, raced>>

\* The exploit search, the general one, or neither finds something.
FetchOsintFallback(t) ==
    /\ stage[t] = "osint"
    /\ \E n \in 0..MaxOsint :
          draft' = [draft EXCEPT ![t].osint = n,
                        ![t].relevance = CalculateRelevance(draft[t].sources, n)]
    /\ Goto(t, "analyse")
    /\ UNCHANGED <<collection, cache, failed, batches, raced>>

\* The LLM's relevance replaces the computed one; its failure replaces nothing.
RunLlmAnalysis(t) ==
    /\ stage[t] = "analyse"
    /\ \E r \in LlmRelevances \cup {draft[t].relevance} :
          draft' = [draft EXCEPT ![t].relevance = r]
    /\ Goto(t, "upsert")
    /\ UNCHANGED <<collection, cache, failed, batches, raced>>

\* Mutant: the result is reported without waiting for the upsert to succeed.
StoreFails_unnoticed(t) ==
    /\ stage[t] = "upsert"
    /\ Goto(t, "enriched")
    /\ draft' = [draft EXCEPT ![t] = Nothing]
    /\ UNCHANGED <<collection, cache, failed, batches, raced>>

\* Mutant: the cache is filled before the upsert, as the batch store does.
StoreFails_cached(t) ==
    /\ stage[t] = "upsert"
    /\ Put(CveOf[t], draft[t])
    /\ Goto(t, "error")
    /\ draft' = [draft EXCEPT ![t] = Nothing]
    /\ UNCHANGED <<collection, failed, batches, raced>>

\* An exception from the sources on ends in a result without enrichment.
StoreFails(t) ==
    /\ stage[t] = "upsert"
    /\ Goto(t, "error")
    /\ draft' = [draft EXCEPT ![t] = Nothing]
    /\ UNCHANGED <<collection, cache, failed, batches, raced>>

\* store_enrichment: the upsert replaces the document, then the cache.
StoreEnrichment(t) ==
    /\ stage[t] = "upsert"
    /\ collection' = [collection EXCEPT ![CveOf[t]] = draft[t]]
    /\ Put(CveOf[t], draft[t])
    /\ draft' = [draft EXCEPT ![t] = Nothing]
    /\ Goto(t, "enriched")
    /\ UNCHANGED <<failed, batches, raced>>

-----------------------------------------------------------------------------
(* Batches and the process *)

BatchOver == \A t \in Tasks : stage[t] \in Finished

\* The next scan of the same records, in the same process or after a restart,
\* which empties the cache.
NextBatch ==
    /\ BatchOver /\ batches < MaxBatches
    /\ batches' = batches + 1
    /\ stage' = [t \in Tasks |-> "queued"]
    /\ failed' = FALSE
    /\ cache' \in {cache, [v \in Cves |-> Nothing]}
    /\ UNCHANGED <<collection, draft, raced>>

\* The process dies in the middle of a batch.
Crash ==
    /\ ~BatchOver /\ batches < MaxBatches
    /\ batches' = batches + 1
    /\ stage' = [t \in Tasks |-> "queued"]
    /\ draft' = [t \in Tasks |-> Nothing]
    /\ failed' = FALSE
    /\ cache' = [v \in Cves |-> Nothing]
    /\ UNCHANGED <<collection, raced>>

Step(t) ==
    \/ Start(t) \/ LookupHit(t) \/ LookupMiss(t) \/ LookupRaises(t)
    \/ FetchFromSources(t) \/ FetchOsintFallback(t) \/ RunLlmAnalysis(t)
    \/ StoreFails(t) \/ StoreEnrichment(t)

Next ==
    \/ \E t \in Tasks : Step(t)
    \/ NextBatch
    \/ Crash

Spec == Init /\ [][Next]_vars

\* Every request of a task is answered or times out.
FairSpec == Spec /\ \A t \in Tasks : WF_vars(Step(t))

-----------------------------------------------------------------------------
(* Properties *)

\* What the cache serves is what is stored, unless two tasks of a batch
\* enriched the same CVE at once: then the collection keeps the last result and
\* the cache the first, until the entry is evicted or the process restarts.
DivergenceNeedsRace ==
    \A v \in Cves : cache[v] # Nothing =>
        collection[v] # Nothing /\ (cache[v] = collection[v] \/ v \in raced)

\* Short of such a race a stored enrichment is final.  In particular what was
\* missing because a source was down stays missing: nothing refreshes it.
StoredIsFinal ==
    [][\A v \in Cves :
          collection[v] # Nothing /\ v \notin raced => collection'[v] = collection[v]]_vars

\* A CVE reported as enriched, freshly or from the cache, is on disk, so that
\* the next run finds it whatever happens to this process.
ReportedIsStored ==
    \A t \in Tasks : stage[t] \in {"hit", "enriched"} => collection[CveOf[t]] # Nothing

\* Every record of a batch gets its turn and an outcome, also when another
\* record's lookup raised: no permit of the semaphore is lost.
RecordsGetTheirTurn == \A t \in Tasks : stage[t] = "queued" ~> stage[t] \in Finished
=============================================================================
