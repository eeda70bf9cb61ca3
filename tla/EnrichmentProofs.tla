--------------------------- MODULE EnrichmentProofs ---------------------------
(***************************************************************************)
(* Proofs about Enrichment, for any records, CVEs, answers, cache size and  *)
(* number of batches, with crashes anywhere.                                *)
(***************************************************************************)
EXTENDS Enrichment, FiniteSetTheorems, TLAPS

Stages == {"queued"} \cup Enriching \cup {"lookup"} \cup Finished

EnrichTypeOK ==
    /\ DOMAIN collection = Cves /\ DOMAIN cache = Cves
    /\ stage \in [Tasks -> Stages]
    /\ DOMAIN draft = Tasks

\* A task has put something together before it stores it.
DraftInv ==
    \A t \in Tasks : stage[t] \in {"osint", "analyse", "upsert"} => draft[t].sources # {"none"}

\* While a task enriches a CVE that nobody else does, the CVE is not stored.
AloneInv ==
    \A t \in Tasks : stage[t] \in Enriching /\ CveOf[t] \notin raced =>
        /\ collection[CveOf[t]] = Nothing
        /\ \A u \in Tasks : CveOf[u] = CveOf[t] /\ stage[u] \in Enriching => u = t

EnrichInv ==
    EnrichTypeOK /\ DraftInv /\ AloneInv /\ DivergenceNeedsRace /\ ReportedIsStored

LEMMA EnrichBegins == Init => EnrichInv
BY DEF Init, EnrichInv, EnrichTypeOK, DraftInv, AloneInv, DivergenceNeedsRace,
   ReportedIsStored, Stages, Enriching, Finished, Cves

\* What a put leaves of the cache.
LEMMA PutKeeps ==
    ASSUME DOMAIN cache = Cves, NEW v \in Cves, NEW data, data # Nothing, Put(v, data)
    PROVE  /\ DOMAIN cache' = Cves
           /\ \A x \in Cves \ {v} : cache'[x] \in {cache[x], Nothing}
           /\ cache'[v] = IF cache[v] = Nothing THEN data ELSE cache[v]
<1>. DEFINE held == {x \in Cves : cache[x] # Nothing}
<1>1. CASE v \in held
  BY <1>1 DEF Put
<1>2. CASE v \notin held /\ cache' = [cache EXCEPT ![v] = data]
  BY <1>2
<1>3. ASSUME v \notin held, NEW oldest \in held,
             cache' = [cache EXCEPT ![oldest] = Nothing, ![v] = data]
      PROVE  /\ DOMAIN cache' = Cves
             /\ \A x \in Cves \ {v} : cache'[x] \in {cache[x], Nothing}
             /\ cache'[v] = data
  BY <1>3
<1>. QED BY <1>1, <1>2, <1>3 DEF Put

\* A step of a task that leaves the store and the cache alone and does not
\* begin to enrich.
LEMMA QuietStep ==
    ASSUME EnrichInv, NEW t \in Tasks, NEW s \in Stages, Goto(t, s),
           UNCHANGED <<collection, cache, raced>>, DOMAIN draft' = Tasks,
           \A u \in Tasks \ {t} : draft'[u] = draft[u],
           s \in {"osint", "analyse", "upsert"} => draft'[t].sources # {"none"},
           s \in Enriching => stage[t] \in Enriching,
           s \in {"hit", "enriched"} => collection[CveOf[t]] # Nothing
    PROVE  EnrichInv'
<1>. USE DEF EnrichInv
<1>1. /\ stage' \in [Tasks -> Stages]
      /\ \A u \in Tasks : stage'[u] = IF u = t THEN s ELSE stage[u]
  BY DEF Goto, EnrichTypeOK
<1>2. EnrichTypeOK'
  BY <1>1 DEF EnrichTypeOK
<1>3. DraftInv'
  BY <1>1 DEF DraftInv
<1>4. AloneInv'
  BY <1>1 DEF AloneInv
<1>5. DivergenceNeedsRace'
  BY DEF DivergenceNeedsRace
<1>6. ReportedIsStored'
  BY <1>1 DEF ReportedIsStored
<1>. QED BY <1>2, <1>3, <1>4, <1>5, <1>6

LEMMA TaskStep == ASSUME EnrichInv, NEW t \in Tasks, Step(t) PROVE EnrichInv'
<1>. DEFINE v == CveOf[t]
<1>0. v \in Cves
  BY DEF Cves
<1>1. CASE Start(t)
  <2>1. cache[v] # Nothing => collection[v] # Nothing
    BY <1>0 DEF EnrichInv, DivergenceNeedsRace
  <2>2. DOMAIN draft' = Tasks /\ UNCHANGED draft
    BY <1>1 DEF Start, EnrichInv, EnrichTypeOK
  <2>3. CASE cache[v] # Nothing
    BY <1>1, <2>1, <2>2, <2>3, QuietStep DEF Start, Stages, Finished, Enriching
  <2>4. CASE cache[v] = Nothing
    BY <1>1, <2>2, <2>4, QuietStep DEF Start, Stages, Finished, Enriching
  <2>. QED BY <2>3, <2>4
<1>2. CASE LookupHit(t)
  <2>1. /\ DOMAIN cache' = Cves
        /\ \A x \in Cves \ {v} : cache'[x] \in {cache[x], Nothing}
        /\ cache'[v] = IF cache[v] = Nothing THEN collection[v] ELSE cache[v]
    BY <1>0, <1>2, PutKeeps DEF LookupHit, EnrichInv, EnrichTypeOK
  <2>2. /\ stage' \in [Tasks -> Stages]
        /\ \A u \in Tasks : stage'[u] = IF u = t THEN "hit" ELSE stage[u]
    BY <1>2 DEF LookupHit, Goto, EnrichInv, EnrichTypeOK, Stages, Finished
  <2>3. collection[v] # Nothing /\ UNCHANGED <<collection, draft, raced>>
    BY <1>2 DEF LookupHit
  <2>4. EnrichTypeOK' /\ DraftInv'
    BY <2>1, <2>2, <2>3 DEF EnrichInv, EnrichTypeOK, DraftInv
  <2>5. AloneInv'
    BY <2>2, <2>3 DEF EnrichInv, AloneInv, Enriching
  <2>6. DivergenceNeedsRace'
    BY <1>0, <2>1, <2>3 DEF EnrichInv, DivergenceNeedsRace
  <2>7. ReportedIsStored'
    BY <2>2, <2>3 DEF EnrichInv, ReportedIsStored
  <2>. QED BY <2>4, <2>5, <2>6, <2>7 DEF EnrichInv
<1>3. CASE LookupMiss(t)
  <2>1. /\ stage' \in [Tasks -> Stages]
        /\ \A u \in Tasks : stage'[u] = IF u = t THEN "fetch" ELSE stage[u]
    BY <1>3 DEF LookupMiss, Goto, EnrichInv, EnrichTypeOK, Stages, Enriching
  <2>2. UNCHANGED <<collection, cache, draft>> /\ collection[v] = Nothing
    BY <1>3 DEF LookupMiss
  <2>3. raced \subseteq raced'
        /\ \A u \in Tasks : CveOf[u] = v /\ stage[u] \in Enriching => v \in raced'
    BY <1>3 DEF LookupMiss
  <2>4. EnrichTypeOK' /\ DraftInv'
    BY <2>1, <2>2 DEF EnrichInv, EnrichTypeOK, DraftInv
  <2>5. AloneInv'
    BY <2>1, <2>2, <2>3 DEF EnrichInv, AloneInv, Enriching
  <2>6. DivergenceNeedsRace' /\ ReportedIsStored'
    BY <2>1, <2>2, <2>3 DEF EnrichInv, DivergenceNeedsRace, ReportedIsStored
  <2>. QED BY <2>4, <2>5, <2>6 DEF EnrichInv
<1>4. CASE LookupRaises(t)
  BY <1>4, QuietStep
  DEF LookupRaises, EnrichInv, EnrichTypeOK, Stages, Finished, Enriching
<1>5. CASE FetchFromSources(t)
  <2>1. PICK answered \in Answers, s \in {"osint", "analyse"} :
            /\ draft' = [draft EXCEPT ![t] =
                            [sources |-> answered, osint |-> 0,
                             relevance |-> CalculateRelevance(answered, 0)]]
            /\ Goto(t, s)
    BY <1>5 DEF FetchFromSources
  <2>2. answered # {"none"}
    BY EnrichmentAssumption
  <2>3. /\ DOMAIN draft' = Tasks /\ draft'[t].sources = answered
        /\ \A u \in Tasks \ {t} : draft'[u] = draft[u]
    BY <2>1 DEF EnrichInv, EnrichTypeOK
  <2>. QED BY <1>5, <2>1, <2>2, <2>3, QuietStep DEF FetchFromSources, Stages, Enriching
<1>6. CASE FetchOsintFallback(t)
  <2>1. /\ DOMAIN draft' = Tasks /\ draft'[t].sources = draft[t].sources
        /\ \A u \in Tasks \ {t} : draft'[u] = draft[u]
    BY <1>6 DEF FetchOsintFallback, EnrichInv, EnrichTypeOK
  <2>. QED BY <1>6, <2>1, QuietStep
           DEF FetchOsintFallback, EnrichInv, DraftInv, Stages, Enriching
<1>7. CASE RunLlmAnalysis(t)
  <2>1. /\ DOMAIN draft' = Tasks /\ draft'[t].sources = draft[t].sources
        /\ \A u \in Tasks \ {t} : draft'[u] = draft[u]
    BY <1>7 DEF RunLlmAnalysis, EnrichInv, EnrichTypeOK
  <2>. QED BY <1>7, <2>1, QuietStep DEF RunLlmAnalysis, EnrichInv, DraftInv, Stages, Enriching
<1>8. CASE StoreFails(t)
  <2>1. DOMAIN draft' = Tasks /\ \A u \in Tasks \ {t} : draft'[u] = draft[u]
    BY <1>8 DEF StoreFails, EnrichInv, EnrichTypeOK
  <2>. QED BY <1>8, <2>1, QuietStep DEF StoreFails, Stages, Finished, Enriching
<1>9. CASE StoreEnrichment(t)
  <2>1. draft[t] # Nothing
    BY <1>9 DEF StoreEnrichment, EnrichInv, DraftInv, Nothing
  <2>2. /\ DOMAIN cache' = Cves
        /\ \A x \in Cves \ {v} : cache'[x] \in {cache[x], Nothing}
        /\ cache'[v] = IF cache[v] = Nothing THEN draft[t] ELSE cache[v]
    BY <1>0, <1>9, <2>1, PutKeeps DEF StoreEnrichment, EnrichInv, EnrichTypeOK
  <2>3. /\ stage' \in [Tasks -> Stages] /\ stage[t] = "upsert"
        /\ \A u \in Tasks : stage'[u] = IF u = t THEN "enriched" ELSE stage[u]
    BY <1>9 DEF StoreEnrichment, Goto, EnrichInv, EnrichTypeOK, Stages, Finished
  <2>4. /\ DOMAIN collection' = Cves /\ DOMAIN draft' = Tasks /\ raced' = raced
        /\ \A x \in Cves : collection'[x] = IF x = v THEN draft[t] ELSE collection[x]
        /\ \A u \in Tasks \ {t} : draft'[u] = draft[u]
    BY <1>0, <1>9 DEF StoreEnrichment, EnrichInv, EnrichTypeOK
  <2>5. v \notin raced => collection[v] = Nothing
    BY <2>3 DEF EnrichInv, AloneInv, Enriching
  <2>6. EnrichTypeOK' /\ DraftInv'
    BY <2>2, <2>3, <2>4 DEF EnrichInv, EnrichTypeOK, DraftInv
  <2>7. AloneInv'
    BY <2>3, <2>4 DEF EnrichInv, AloneInv, Enriching, Cves
  <2>8. DivergenceNeedsRace'
    BY <1>0, <2>1, <2>2, <2>4, <2>5 DEF EnrichInv, DivergenceNeedsRace
  <2>9. ReportedIsStored'
    BY <2>1, <2>3, <2>4 DEF EnrichInv, ReportedIsStored, Cves
  <2>. QED BY <2>6, <2>7, <2>8, <2>9 DEF EnrichInv
<1>. QED BY <1>1, <1>2, <1>3, <1>4, <1>5, <1>6, <1>7, <1>8, <1>9 DEF Step

LEMMA EnrichGoesOn == EnrichInv /\ [Next]_vars => EnrichInv'
<1>. SUFFICES ASSUME EnrichInv, [Next]_vars PROVE EnrichInv'
  OBVIOUS
<1>1. CASE UNCHANGED vars
  BY <1>1 DEF vars, EnrichInv, EnrichTypeOK, DraftInv, AloneInv, DivergenceNeedsRace,
     ReportedIsStored
<1>2. CASE NextBatch \/ Crash
  BY <1>2
  DEF NextBatch, Crash, EnrichInv, EnrichTypeOK, DraftInv, AloneInv, DivergenceNeedsRace,
      ReportedIsStored, Stages, Enriching
<1>3. ASSUME NEW t \in Tasks, Step(t) PROVE EnrichInv'
  BY <1>3, TaskStep
<1>. QED BY <1>1, <1>2, <1>3 DEF Next

LEMMA EnrichInvHolds == Spec => []EnrichInv
BY EnrichBegins, EnrichGoesOn, PTL DEF Spec

-----------------------------------------------------------------------------

\* What the cache of the ChromaDB adapter serves is what is stored, unless two
\* tasks of a batch enriched the same CVE at once.
THEOREM CacheIsTrue == Spec => []DivergenceNeedsRace
BY EnrichInvHolds, PTL DEF EnrichInv

\* A CVE that a batch reports as enriched is on disk, whatever else fails
\* (EnrichContextUseCase over the adapter).
THEOREM ReportedStays == Spec => []ReportedIsStored
BY EnrichInvHolds, PTL DEF EnrichInv

\* Nothing ever replaces a stored enrichment but a task that was enriching the
\* same CVE at the same time.
THEOREM FirstResultStays == Spec => StoredIsFinal
<1>1. ASSUME EnrichInv, [Next]_vars
      PROVE  [\A v \in Cves :
                 collection[v] # Nothing /\ v \notin raced => collection'[v] = collection[v]]_vars
  <2>. SUFFICES ASSUME Next, NEW v \in Cves, collection[v] # Nothing, v \notin raced
                PROVE  collection'[v] = collection[v]
    BY <1>1
  <2>1. ASSUME NEW t \in Tasks, StoreEnrichment(t) PROVE collection'[v] = collection[v]
    <3>1. CveOf[t] # v
      BY <1>1, <2>1 DEF StoreEnrichment, EnrichInv, AloneInv, Enriching
    <3>. QED BY <1>1, <2>1, <3>1 DEF StoreEnrichment, EnrichInv, EnrichTypeOK
  <2>2. CASE UNCHANGED collection
    BY <2>2
  <2>. QED
    BY <2>1, <2>2
    DEF Next, Step, Start, LookupHit, LookupMiss, LookupRaises, FetchFromSources,
        FetchOsintFallback, RunLlmAnalysis, StoreFails, NextBatch, Crash
<1>. QED BY <1>1, EnrichInvHolds, PTL DEF Spec, StoredIsFinal

-----------------------------------------------------------------------------
(* The two bounds and the progress of a batch *)

TasksInside == {t \in Tasks : stage[t] \in Inside}
Held == {v \in Cves : cache[v] # Nothing}

\* No more tasks than max_concurrent are past the semaphore, whatever they run
\* into, and the LRU cache never holds more than max_size entries, whichever of
\* lookup and store puts one in.
BoundsKept == Cardinality(TasksInside) <= MaxConcurrent /\ Cardinality(Held) <= CacheSize

LEMMA FinitelyMany ==
    /\ IsFiniteSet(Tasks) /\ IsFiniteSet(Cves)
    /\ \A S \in SUBSET Tasks : IsFiniteSet(S) /\ Cardinality(S) \in Nat
    /\ \A S \in SUBSET Cves : IsFiniteSet(S) /\ Cardinality(S) \in Nat
<1>1. IsFiniteSet(Tasks)
  BY EnrichmentAssumption DEF EnrichmentAssumption
<1>2. IsFiniteSet(Cves)
  <2>. DEFINE f == [t \in Tasks |-> CveOf[t]]
  <2>1. f \in Surjection(Tasks, Cves)
    BY DEF Surjection, Cves
  <2>. QED BY <1>1, <2>1, FS_Surjection
<1>. QED BY <1>1, <1>2, FS_Subset, FS_CardinalityType

\* What a put leaves of the size of the cache.
LEMMA PutKeepsSize ==
    ASSUME DOMAIN cache = Cves, NEW v \in Cves, NEW data, Put(v, data),
           Cardinality(Held) <= CacheSize
    PROVE  Cardinality(Held') <= CacheSize
<1>0. CacheSize \in Nat /\ Held \in SUBSET Cves /\ Held' \in SUBSET Cves
  BY EnrichmentAssumption DEF EnrichmentAssumption, Held
<1>1. CASE UNCHANGED cache
  BY <1>1 DEF Held
<1>2. CASE v \notin Held /\ Cardinality(Held) < CacheSize /\ cache' = [cache EXCEPT ![v] = data]
  <2>1. Held' \subseteq Held \cup {v}
    BY <1>2 DEF Held
  <2>2. Cardinality(Held \cup {v}) = Cardinality(Held) + 1
    BY <1>0, <1>2, FinitelyMany, FS_AddElement
  <2>3. IsFiniteSet(Held \cup {v}) /\ Cardinality(Held \cup {v}) \in Nat /\ Cardinality(Held) \in Nat
    BY <1>0, FinitelyMany
  <2>4. Cardinality(Held') <= Cardinality(Held \cup {v}) /\ Cardinality(Held') \in Nat
    BY <1>0, <2>1, <2>3, FinitelyMany, FS_Subset
  <2>. QED BY <1>0, <1>2, <2>2, <2>3, <2>4
<1>3. ASSUME v \notin Held, NEW oldest \in Held,
             cache' = [cache EXCEPT ![oldest] = Nothing, ![v] = data]
      PROVE  Cardinality(Held') <= CacheSize
  <2>1. Held' \subseteq (Held \ {oldest}) \cup {v}
    BY <1>3 DEF Held
  <2>2. /\ IsFiniteSet(Held) /\ Cardinality(Held) \in Nat
        /\ IsFiniteSet(Held \ {oldest}) /\ Cardinality(Held \ {oldest}) = Cardinality(Held) - 1
    BY <1>0, FinitelyMany, FS_RemoveElement
  <2>3. Cardinality((Held \ {oldest}) \cup {v}) = Cardinality(Held)
    <3>1. Cardinality((Held \ {oldest}) \cup {v}) = Cardinality(Held \ {oldest}) + 1
      BY <1>3, <2>2, FS_AddElement, Zenon
    <3>. QED BY <2>2, <3>1
  <2>4. IsFiniteSet((Held \ {oldest}) \cup {v})
    BY <2>2, FS_AddElement
  <2>5. Cardinality(Held') <= Cardinality(Held) /\ Cardinality(Held') \in Nat
    BY <1>0, <2>1, <2>3, <2>4, FinitelyMany, FS_Subset
  <2>. QED BY <1>0, <2>2, <2>5
<1>. QED BY <1>1, <1>2, <1>3 DEF Put, Held

\* A permit is taken when fewer than MaxConcurrent are out, and no step but
\* Start takes one.
LEMMA StepKeepsBounds ==
    ASSUME EnrichInv, BoundsKept, NEW t \in Tasks, Step(t)
    PROVE  BoundsKept'
<1>0. /\ DOMAIN cache = Cves /\ CveOf[t] \in Cves /\ stage \in [Tasks -> Stages]
      /\ MaxConcurrent \in Nat /\ TasksInside \in SUBSET Tasks
  BY EnrichmentAssumption DEF EnrichmentAssumption, EnrichInv, EnrichTypeOK, Cves, TasksInside
<1>1. Cardinality(Held') <= CacheSize
  <2>1. CASE UNCHANGED cache
    BY <2>1 DEF BoundsKept, Held
  <2>2. CASE LookupHit(t) \/ StoreEnrichment(t)
    BY <1>0, <2>2, PutKeepsSize DEF LookupHit, StoreEnrichment, BoundsKept
  <2>. QED
    BY <2>1, <2>2 DEF Step, Start, LookupMiss, LookupRaises, FetchFromSources,
       FetchOsintFallback, RunLlmAnalysis, StoreFails
<1>2. Cardinality(TasksInside') <= MaxConcurrent
  <2>1. CASE Start(t)
    <3>1. Cardinality(TasksInside) < MaxConcurrent /\ TasksInside' \subseteq TasksInside \cup {t}
      BY <1>0, <2>1 DEF Start, Goto, TasksInside
    <3>2. /\ IsFiniteSet(TasksInside \cup {t}) /\ Cardinality(TasksInside) \in Nat
          /\ Cardinality(TasksInside \cup {t}) <= Cardinality(TasksInside) + 1
      BY <1>0, FinitelyMany, FS_AddElement
    <3>3. /\ Cardinality(TasksInside') <= Cardinality(TasksInside \cup {t})
          /\ Cardinality(TasksInside') \in Nat /\ Cardinality(TasksInside \cup {t}) \in Nat
      BY <3>1, <3>2, FS_Subset, FS_CardinalityType
    <3>. QED BY <1>0, <3>1, <3>2, <3>3
  <2>2. CASE ~Start(t)
    <3>1. TasksInside' \subseteq TasksInside
      BY <1>0, <2>2
      DEF Step, LookupHit, LookupMiss, LookupRaises, FetchFromSources, FetchOsintFallback,
          RunLlmAnalysis, StoreFails, StoreEnrichment, Goto, TasksInside, Inside, Enriching
    <3>2. IsFiniteSet(TasksInside) /\ Cardinality(TasksInside) \in Nat
      BY <1>0, FinitelyMany
    <3>3. Cardinality(TasksInside') <= Cardinality(TasksInside) /\ Cardinality(TasksInside') \in Nat
      BY <3>1, <3>2, FS_Subset, FS_CardinalityType
    <3>. QED BY <1>0, <3>2, <3>3 DEF BoundsKept
  <2>. QED BY <2>1, <2>2
<1>. QED BY <1>1, <1>2 DEF BoundsKept

\* The semaphore of EnrichContextUseCase and the LRUCache of the ChromaDB adapter
\* keep their bounds for every batch: with errors in any lookup, evictions by
\* racing tasks, crashes and restarts.
THEOREM BoundsAreKept == Spec => []BoundsKept
<1>1. Init => BoundsKept
  <2>. SUFFICES ASSUME Init PROVE BoundsKept
    OBVIOUS
  <2>1. TasksInside = {} /\ Held = {}
    BY DEF Init, TasksInside, Held, Inside, Enriching
  <2>. QED BY <2>1, FS_EmptySet, EnrichmentAssumption DEF EnrichmentAssumption, BoundsKept
<1>2. ASSUME EnrichInv, BoundsKept, [Next]_vars PROVE BoundsKept'
  <2>1. ASSUME NEW t \in Tasks, Step(t) PROVE BoundsKept'
    BY <1>2, <2>1, StepKeepsBounds
  <2>2. CASE NextBatch \/ Crash
    <3>1. TasksInside' = {}
      BY <2>2 DEF NextBatch, Crash, TasksInside, Inside, Enriching
    <3>2. Held' = Held \/ Held' = {}
      BY <2>2 DEF NextBatch, Crash, Held
    <3>3. Cardinality({}) = 0 /\ MaxConcurrent \in Nat /\ CacheSize \in Nat
      BY FS_EmptySet, EnrichmentAssumption DEF EnrichmentAssumption
    <3>4. Cardinality(Held') <= CacheSize
      BY <1>2, <3>2, <3>3 DEF BoundsKept
    <3>. QED BY <3>1, <3>3, <3>4 DEF BoundsKept
  <2>3. CASE UNCHANGED vars
    BY <1>2, <2>3 DEF vars, BoundsKept, TasksInside, Held
  <2>. QED BY <1>2, <2>1, <2>2, <2>3 DEF Next
<1>. QED BY <1>1, <1>2, EnrichInvHolds, PTL DEF Spec

\* How far a task is on its way to an outcome.
Progress(s) ==
    CASE s = "queued" -> 0
      [] s = "lookup" -> 1
      [] s = "fetch" -> 2
      [] s = "osint" -> 3
      [] s = "analyse" -> 4
      [] s = "upsert" -> 5
      [] s \in Finished -> 6

\* Within a batch a task only moves on, and an outcome stays; a batch is only
\* followed by another when all have one, or at a crash, which keeps what is
\* stored.
TasksGoForward ==
    [][\A t \in Tasks : stage'[t] # stage[t] =>
          \/ batches' = batches /\ Progress(stage'[t]) > Progress(stage[t])
          \/ batches' = batches + 1 /\ stage'[t] = "queued" /\ collection' = collection]_vars

\* No record is enriched twice in a batch or goes round (enrich_one of
\* EnrichContextUseCase): each has its outcome after at most six steps of its own,
\* however the others fare.
THEOREM TasksWearOut == Spec => TasksGoForward
<1>1. ASSUME EnrichInv, Next, NEW t \in Tasks, stage'[t] # stage[t]
      PROVE  \/ batches' = batches /\ Progress(stage'[t]) > Progress(stage[t])
             \/ batches' = batches + 1 /\ stage'[t] = "queued" /\ collection' = collection
  <2>1. ASSUME NEW u \in Tasks, Step(u)
        PROVE  batches' = batches /\ Progress(stage'[t]) > Progress(stage[t])
    <3>1. stage \in [Tasks -> Stages]
      BY <1>1 DEF EnrichInv, EnrichTypeOK
    <3>2. batches' = batches /\ \E s : Goto(u, s)
      BY <2>1 DEF Step, Start, LookupHit, LookupMiss, LookupRaises, FetchFromSources,
         FetchOsintFallback, RunLlmAnalysis, StoreFails, StoreEnrichment
    <3>3. u = t
      BY <1>1, <3>1, <3>2 DEF Goto
    <3>4. \/ stage[t] = "queued" /\ stage'[t] \in {"hit", "lookup"}
          \/ stage[t] = "lookup" /\ stage'[t] \in {"hit", "fetch", "raised"}
          \/ stage[t] = "fetch" /\ stage'[t] \in {"osint", "analyse"}
          \/ stage[t] = "osint" /\ stage'[t] = "analyse"
          \/ stage[t] = "analyse" /\ stage'[t] = "upsert"
          \/ stage[t] = "upsert" /\ stage'[t] \in {"error", "enriched"}
      BY <2>1, <3>1, <3>3
      DEF Step, Start, LookupHit, LookupMiss, LookupRaises, FetchFromSources,
          FetchOsintFallback, RunLlmAnalysis, StoreFails, StoreEnrichment, Goto
    <3>. QED BY <3>2, <3>4 DEF Progress, Finished
  <2>2. CASE NextBatch \/ Crash
    BY <2>2 DEF NextBatch, Crash
  <2>. QED BY <1>1, <2>1, <2>2 DEF Next
<1>2. ASSUME EnrichInv, [Next]_vars
      PROVE  [\A t \in Tasks : stage'[t] # stage[t] =>
                \/ batches' = batches /\ Progress(stage'[t]) > Progress(stage[t])
                \/ batches' = batches + 1 /\ stage'[t] = "queued" /\ collection' = collection]_vars
  BY <1>1, <1>2
<1>. QED BY <1>2, EnrichInvHolds, PTL DEF Spec, TasksGoForward
=============================================================================
