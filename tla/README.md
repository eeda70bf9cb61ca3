# A TLA+ verification of SIOPV

SIOPV takes a Trivy report, enriches each CVE from public sources, scores it with an
ML model and an LLM, flags what the two disagree about, and files the result in Jira
and in report files. It is driven from a command line, a webhook and a dashboard, behind
OpenFGA and Keycloak. This directory models the parts whose correctness depends on
order, concurrency, failure or bounds, checks them with TLC and proves their main
safety properties with TLAPS. Paths below are relative to `src/src/siopv` unless they
start with `src/`.

`PROJECT.json` is the index: components, runs, mutants (for each checked property a
plausible bug that breaks it), the map from definitions to source lines, findings,
hazards and theorems.

## 1. Inventory

| Component | State it keeps | Operations | Hard behaviour | What makes it correct |
|---|---|---|---|---|
| Circuit breaker (`infrastructure/resilience/circuit_breaker.py`) | state, failure count, last failure time, half-open slots | enter, leave (success, failure, unrecorded), `reset` | one object shared by concurrent tasks; the request runs between two critical sections | an open circuit can be tested again; a half-open one is decided; counts stay consistent under stale results |
| Rate limiter (`infrastructure/resilience/rate_limiter.py`) | token bucket, priority queue, processor task | `acquire`, queue processor | fast path against queue, timeouts, a task that ends and is restarted | the rate is kept over every window; no waiter is lost |
| API clients (`adapters/external_apis`) | response cache, breaker, limiter | get one, batch in chunks, search | no single flight, answers that overtake each other, retries inside one breaker entry, cancellation | admissions come back; an answer is replaced only by a racing one |
| Enrichment (`application/use_cases/enrich_context.py`) with the vector store (`adapters/vectorstore`) | collection on disk, LRU cache, semaphore | lookup, sources, OSINT, LLM, store | two records of one CVE, partial source failure, a lookup that raises ends the gather | the cache agrees with the collection; what is reported is stored; every record gets its turn |
| Pipeline (`application/orchestration`) | `PipelineState` per thread, checkpointed | authorize, ingest, dlp, enrich, classify, escalate, output, and the routes | partial batches, thread reuse with reducer fields, crashes, missing ports | nothing runs unauthorized, nothing is lost, no report begins on a thread with an error, uncertain CVEs are flagged unless the run's own escalation analysis failed and says so |
| Escalation policy (`application/orchestration/utils.py`, `domain/value_objects/discrepancy.py`) | none (a history per call) | base and adaptive trigger | two thresholds judge one batch | the floor and a missing score always flag |
| Report generation (`application/use_cases/generate_report.py`, `adapters/output`) | files, tickets | PDF, Jira loop, JSON, CSV | each channel fails alone, or the output node gives up as a whole; a crash while a file is written | every CVE filed or noted, every channel accounted for, published files whole |
| Jira adapter (`adapters/notification/jira_adapter.py`) | the tickets are Jira's | search, create, SLA re-scan, update | lost answers, search-then-create by two runs, read-modify-write of labels | one ticket per CVE, no label lost |
| Authorization (`application/use_cases/authorization.py`, `adapters/authorization`) | the tuples are OpenFGA's | check by action or relation, list, read tuples, batch check, grant, revoke | relations are computed by a model from tuples on the resource and above it; a check is several questions while they change; lost answers; N:1 batches | an answer is one the store really gave, a failure is never a denial |
| OIDC (`adapters/authentication`, `infrastructure/middleware`) | key cache | validate a token, forced refresh | key rotation during concurrent fetches | a published key is found |
| DLP (`adapters/dlp`, `application/orchestration/nodes/dlp_node.py`) | one entry per CVE | two-layer sanitisation | the second layer fails open; records of one CVE overwrite each other | a miss is explained |
| Webhook (`adapters/inbound`, `interfaces/webhook_server.py`) | temporary files, accepted work in memory | accept, run in the background | restart, failing disk | accepted reports are run, files removed |
| Dashboard streaming (`interfaces/dashboard/streaming.py`, `pipeline_monitor.py`) | event queue, cards, session flags | drive a run from a worker thread, drain, time out | the reader gives up while the worker goes on | cards tell the truth, runs side by side only after giving up |
| Dashboard observer and live monitor (`interfaces/dashboard/components/observer.py`, `pages/live_monitor.py`) | what was shown last | list checkpoints, poll, fall back | two listings, read thread by thread while runs move on; reads that fail | what is shown is true |
| Model persistence (`infrastructure/ml/model_persistence.py`) | version directories | save, load, verify, delete | writers that die, or race with loads and with each other; signatures, a size limit | a load is the verified model, or something disturbed it |
| Classifier and explainers (`adapters/ml`) | model, explainers, model file | train, save, load, explain | failures half-way leave older explainers | score and explanations come from one model |
| Training script (`src/scripts/train-xgboost.py`) | five cached downloads, the data set, the model file | download, complete, label, train | caches that are kept for ever, cut-off files | what a model has not seen is explained |
| Provisioning (`src/scripts/setup-keycloak.py`, `setup-openfga.py`) | servers | create what is missing | repeated and concurrent set-ups, lost answers, no model file | a set-up can be run again |
| Ingestion, CLI, dependency injection | cached ports | parse, wire | - | the wirings are the deployments of `MCPipeline` |
| Settings, logging, charts, layout, smoke tests | - | - | - | outside the model (section 7) |

Interaction: the webhook, the dashboard and the CLI invoke `run_pipeline`; the nodes
call the use cases and share `PipelineState`, in which a returned field replaces the old
value except for `errors`, `escalated_cves` and `output_errors`, which are appended to.
The enrich node fans out over the batch; its tasks share the API clients, each of which
owns a cache, a breaker and a limiter. The OpenFGA adapter owns a breaker, too. With a
checkpointer the state survives a run under its thread id, and the live monitor reads
those checkpoints; the tickets survive everything.

`PROJECT.json` lists under "hazards" each place where this is hard to test, with its
line and the properties that watch it.

## 2. Modules

| Module | What it is |
|---|---|
| `CircuitBreaker`, `RateLimiter` | one breaker, one limiter, and the tasks that share it |
| `ApiClient` | an API client: cache and retries around an instance of `CircuitBreaker` |
| `Enrichment` | a batch of enrichment tasks over vector store and LRU cache |
| `EscalationPolicy` | the uncertainty trigger as operators on a batch |
| `RunLifecycle` | abstract: what a run promises the readers of its tickets |
| `Pipeline` | the graph, its nodes, the report use case and Jira; implements `RunLifecycle` |
| `TicketFiling` | several runs that visit one CVE in Jira, one request per step |
| `AccessDecision` | abstract: what the authorization port promises a caller |
| `Authorization` | checks, listings, readings, grants and revocations; implements `AccessDecision` |
| `BatchCheck` | a batch check: contexts, items, one answer per item |
| `RunStore` | runs as their checkpoints show them |
| `WebhookReceiver`, `EventStream`, `Entrypoints` | the two ways into the pipeline, over `RunStore`, and both composed |
| `LiveMonitor` | the observer's polls over `RunStore`, one read per step |
| `KeyCache`, `ModelStore`, `Classifier`, `DlpScan`, `Provisioning`, `ReportFiles`, `TrainingData` | one component each that shares no state with the others |
| `MC*` | constants of the TLC runs; `MCPeriphery` checks the last line of components and `LiveMonitor` side by side |
| `*Proofs` | inductive invariants and theorems (`ApiClientProofs` also those of `RateLimiter`, `EntrypointsProofs` those of `RunStore`, `WebhookReceiver`, `EventStream` and `LiveMonitor`, `PeripheryProofs` those of the components `MCPeriphery` checks and of `BatchCheck`) |

Operators whose name ends in a suffix after an underscore (`ReleaseSlot_kept`) and
whose comment starts with "Mutant" are wrong on purpose and used by no specification.

### CircuitBreaker

The asyncio lock guards code without an await, so entering and each way of leaving is
one atomic step; other tasks run while a request is awaited, that is while `call[c]` is
not "idle". `__aenter__` is `EnterClosed` or `EnterHalfOpen` (a refusal changes nothing);
`__aexit__` is `RecordSuccess`, `RecordFailure`, or `LeaveUnrecorded` for a
cancellation. The two `_record_*` handlers do not know how their caller was admitted;
neither do the actions. `sinceFailure` is the clock difference the code computes, capped
where it stops mattering; `failureCount` is capped above the threshold because it is
only compared. `probes` and `lost` are history: the test calls of the current episode,
and whether one left unrecorded.

### RateLimiter

The lock never guards an await either, hence `acquire` is one step up to its
`event.wait()` (`AcquireNow`, `Refuse`, `Enqueue`) and the processor task is one step
from wake-up to next sleep, however many requests it releases. `tokens` is the balance
`_refill` would compute; it counts units, a request costs `Cost` of them and a tick
brings `Refill`, so that fractional tokens and the rounding of naps are kept. An
abandoned waiter (timeout or cancellation, also after its event was set) leaves its
entry in the queue. `window` and `taken` are history: anybody may start a window at any
time and counts the tokens taken in it. Requests are numbered by arrival, the tie-break
of the priority queue.

### ApiClient

Three kinds of call share one cache and one breaker: `GetOne`, `GetScoresBatch` (in
chunks) and `Search`, which caches nothing. A call looks into the cache, waits for the
limiter (`Admitted` or `Refused`), and from there on holds one entry of the breaker
through all retries and chunks until the last answer is in or the call ends in `Failed`
or `Cancelled`. The breaker is `INSTANCE CircuitBreaker`: its actions are taken in the
same step as the client's. The API is external; what it knows of a CVE is a version that
grows (`Publish`). Its answer is composed in one step (`Respond`) and arrives in another
(`Answered`), so the answer of a slow call may be older than what a faster one has cached
meanwhile. `Garbled` is an answer the client cannot read: a single call has left the
breaker with a success by then, a batch is still inside and has cached the entries before
the bad one. `ClearCache` may come at any time. `raced` is history: CVEs that two calls
were fetching at once.

### Enrichment

A task is `Start` (semaphore and cache), the lookup in the collection, the sources (all
outcomes of the four parallel requests at once, a failed one counting as silent), OSINT
if the relevance stays below 0.6, the LLM, the store. A failure from the sources on ends
that record; a lookup that raises ends the gather, while the other tasks run on
unobserved. `Put` is `LRUCache.put`, which moves an existing entry without replacing its
data. `raced` is history: CVEs that two tasks of a batch were enriching at once.

### EscalationPolicy and Pipeline

A CVE is a number, so that numeric order stands for dictionary order. Scores are in
hundredths. One step is one node together with the routing function behind it, since
nothing observes the state in between; the output node is one step per external effect
(PDF, each ticket, exports). Error paths are actions of their own (`IngestFailed`,
`EnrichFailed`, `ClassifyFailed` record an error and go on to the routing;
`DlpRaises`, `EscalateRaises` and a missing threshold raise and abort). Two of them end in
a report all the same. When the analysis of the escalate node raises (`EscalateFails`) the
node records an error, flags nobody, and its edge leads to output: the run files its
tickets unflagged, with the error beside them, and only the next run on that thread stops.
When the use case of the output node cannot be built (`OutputFails`, for instance because
the output directory cannot be made) the run ends with one entry for the whole report. Which
ports are injected is chosen once (`wiring`), from the bundles in which the repository
builds them; the code paths for missing ports are all there.

`Invoke` is `run_pipeline`: on a thread that has a checkpoint it keeps `errors` and
`escalated`, because adding an empty list changes nothing, and resets the rest. `Crash`
ends the invocation at any step; the thread keeps what its last checkpoint holds, and a
checkpoint not yet written is a crash one step earlier. Jira's answer to a creation may
be lost after the ticket was stored (`TicketAnswerLost`).

Two records of one CVE in different packages share one entry of `classifications` and
of every later dictionary, so the model works on CVE ids from the start.

### RunLifecycle and the refinement

`RunLifecycle` knows phases, the CVEs a run reports about, the ones under review, the
ones it admits not to have filed, and the tickets. It says: nothing is filed before the
request was permitted and the batch judged as a whole; a filed ticket never changes; a
new ticket carries the review label exactly if its CVE is flagged; a run that ends as
reported has filed or noted every CVE. One entry for the whole report (missing ports, an
output node that gave up) notes all of them. `Pipeline!Lifecycle` maps the node to a phase and
shows `Scope`, `Review` and `Noted` only once the reporting part begins.

### TicketFiling

`Pipeline` treats a visit to Jira as one step of one run at a time; here it is taken
apart, because background runs of the webhook overlap. A visit is `Find` (the search of
the use case), `FindAgain` (the search of `create_ticket`), then `Create`, or the
re-scan `Fetch`, `Relabel`, `Comment`; `at[r]` is the request that comes next, and other
runs and Jira act between any two. `Raise` is the `except Exception` around the visit;
the one error that does not raise, a refused read of the re-scan, ends as "unchecked".
Labels are written as a whole list, as the API does. Jira is external: `Index`,
`FallDue`, `Resolve` and `LabelByHand`; a ticket is named by the run that filed it, and
nobody reopens a ticket or removes a label by hand. `known` is history: the runs that
began when a search would have found a ticket. Whether the run flagged the CVE is chosen
when it files.

CVEs do not interact in Jira, so one CVE stands for all. A crash is a visit that takes
no further step.

### Authorization, AccessDecision, BatchCheck

A check resolves an action to relations and asks OpenFGA about one after the other, each
up to `MaxAttempts` times; a listing asks about every relation the code can name.
OpenFGA answers these from the relations its model computes (`HeldIn`): one relation may
be implied by another, or by one on the project or organization above (`Inherited`).
`ImpliedBy` says what implies what; `ProjectModel` is that of `src/openfga/model.fga`
for projects. A relation the type does not define is an error each time it is asked for,
so a check that comes to it before a relation that is held ends in an error. A reading
is answered from the tuples as stored on the resource (`StoredIn`), which is less. It is
one request whose single page is all the adapter asks for, although its docstrings say
"all tuples"; it may therefore miss some (`skipped`), except when one tuple is asked for
by all its parts. Between any two questions a writer may grant or revoke, one by one or
in batches, and the answer of a write may be lost. `ever` and `always` are history: the
wanted relations the user held at some moment, and at all moments, of the check.
`AccessDecision` promises that an allowed user held a wanted relation at some moment, a
denied one held none throughout, and an error decides nothing. There is no snapshot: a
user who is moved from one sufficient relation to another during a check may be denied
although he held one at every moment. That is what "held none throughout" is about,
relation by relation.

`BatchCheck` keeps the expansion of contexts into items and the matching of answers to
contexts by position (finding 2). What it does get right is a theorem (`BatchesStartRight`).

### RunStore, WebhookReceiver, EventStream, Entrypoints, LiveMonitor

`RunStore` is a run as its checkpoints show it: a node executes, its writes are saved,
the next one is announced. `classify` stands for the linear stretch up to it. The webhook
answers 202, then writes the payload to a file, runs the pipeline and removes the file;
`ServerRestarts` ends what it had not finished. The stream is a worker thread that puts
events and at last a sentinel into a queue, and a script that drains it, times out or is
stopped by a rerun of the page. `Entrypoints` lets both drive runs over one store.

`LiveMonitor` reads the store only. A poll lists the threads (`ListThreads`), the latest
written first (`Written`), and then reads of one thread after the other the snapshot and
the history (`ReadSnapshot`, `ReadHistory`); if nothing was active it does the same for the
completed runs. Between any two reads runs begin and go on. One that ends, raises or loses
its process writes nothing more, so to the monitor it is a run that takes no further step;
a run that was refused or failed never reaches the output node, and the observer counts it
as running for ever. Reads of the runs in `Unreadable` may fail: without a snapshot the
thread is passed over, without the rest of its history it is shown with the nodes read so
far, which can draw an executed node as skipped; if the second listing fails the poll raises
(`PollRaises`). `doubt` is history: the runs such a poll misread.

### The periphery

- `KeyCache`: validations fetch the published key set when the copy is too old or lacks
  a key; every answer is written when it arrives. The provider goes through editions.
- `ModelStore`: a save writes the model, hashes the file as it is on disk and writes the
  metadata; a deletion, of one version or of all, unlinks file by file. Nothing keeps two
  writers of one version apart, so what a write leaves when another writer was there is any
  of the contents that can come of it (`Leaves`), and a writer may stop anywhere
  (`WriterStops`). A load checks the size, reads the metadata, verifies hash and signature
  (`SigningKeys`: each process may have another key, or none) and then opens the file once
  more. `suspect` and `touched` are history: versions where a writer stopped or met another,
  and whether the load's version was written to meanwhile.
- `Classifier`: a training puts an unfitted model in place, fits it, resets the
  explainers; each of the steps may fail. Models are numbered by their training.
- `DlpScan`: records are screened concurrently, in two layers; what a text holds is one
  of five kinds, from nothing to something only the adapter's own patterns find.
- `Provisioning`: one request per step; an answer may be lost after the effect, and the
  file of the authorization model may be missing (`NoModelFile`).
- `ReportFiles`: metrics are written beside their name and moved, the PDF in place; each
  step of a channel may fail, the move too (`ChannelFails`), or the output node gives up
  before any of them (`OutputFails`).
- `TrainingData`: each download is cached; a cut-off file parses if it is CSV and raises
  at each later run if it is JSON. A page of NVD may be refused or come empty; an empty one
  ends the download like an error. A catalogue entry stands for CVEs of one kind.

## 3. Runs

| Run | What it asks | Bounds, and why they are enough |
|---|---|---|
| `breaker` | 3 invariants, 2 liveness properties | 3 tasks (a stale call, a test call and a newcomer), threshold 2, two half-open slots, timeout of 2 ticks: several episodes with leftovers of earlier ones |
| `limiter` | 3 invariants, 1 liveness property | 5 requests, a bucket of two tokens refilled by 2/3 of one per tick, a queue of 2: a full queue, a stolen token, a late processor that releases two, a processor restarted |
| `pipeline` | 3 invariants, 1 action property, refinement of `RunLifecycle` | 2 CVEs and 2 invocations on 8 deployments: a second run on the same or a new thread after every outcome of the first; percentile 40 so that a batch of two has CVEs above and not above its adaptive threshold |
| `tickets` | 2 invariants, 1 action property | 3 runs: one files, two re-scan or file too; analysts work on one ticket at a time, which is enough to race with a re-scan and to resolve a ticket that a search returns |
| `tickets_breach` | finding 1 | the same three runs |
| `authorization` | 1 invariant, 1 liveness property, refinement of `AccessDecision` | one user, three relations of a project (owner; viewer, which owner implies; admin, which projects do not define) and one inherited, three actions, one caller, one writer, two attempts: a user moved between two sufficient relations during a check, by tuple or by implication, an undefined relation met first or last, an exhausted retry on either, a batch of two tuples; checks share nothing but the tuples, so a second caller adds no case |
| `authorization_batch` | finding 2 | batches of up to two contexts of two users |
| `api_client` | 1 invariant, 1 action property | 2 callers, 2 CVEs, cache for one, a circuit that opens after one failure and has one half-open slot, two attempts, two versions: two racing fetches of which the slower brings the older answer; a chunked batch that fails half-way; a caller that tests the circuit beside a stale call; eviction and clearing |
| `enrichment` | 2 invariants, 1 action property, 1 liveness property | 3 records over 2 CVEs, two at a time, cache for one, answers from silent over just below (0.4) to just at (0.6) the threshold, two batches or a crash between |
| `entrypoints` | 3 invariants, 1 action property, 1 liveness property | one report and two executions, two of the three per behaviour: a report beside a stream, a second execution beside one that was given up |
| `periphery` | 8 invariants, 1 action property over 8 components | two tokens, classifiers, attempts and reports; three editions of keys, so that one can be overtaken by the next but one; two writers with two saves of one version, two signing keys and a save that is too large (versions do not interact, and the theorem is for any number); three records over two CVEs; a catalogue of two pages; two observed runs, the reads of one of which may fail (two is what it takes to be shown as active, overtaken in the listing and replaced). A behaviour is one of one component, chosen at the start, so the states add up |
| `monitor_fallback` | finding 3 | two runs, all reads succeed |

Deadlock is not checked where the bounds end the behaviours (all requests made, all
invocations, batches or saves used) or the system simply has nothing to do.

### Findings

1. `RescanMarksBreaches` (`use_cases/generate_report.py:158`): the SLA re-scan is
   practically dead code. Its caller skips existing tickets before it can run, so an
   overdue ticket is never marked by the runs that meet it; it is reached only if the
   ticket enters the search index between the two searches of a visit.
2. `AnyRelationSuffices` (`openfga_adapter.py:516`): the i-th answer of a batch becomes
   the result of the i-th context although a context may have several items. After the
   first context that needs one of two relations, answers go to the wrong contexts.
3. `CompletedRunIsShown` (`live_monitor.py:221`): a monitor that polled once while
   nothing was active or completed never looks for completed runs again.

Seen while modelling, without a property of their own:

- Half-open: a late result ends an episode whose test call still runs, so more calls
  than `half_open_max_calls` may test at once over two episodes. Each single episode
  respects the bound (`EpisodeAccounted`).
- The route to escalate uses the base threshold, the flags a percentile of a history
  that holds this batch only: a batch can be routed there and come back unflagged. The
  "neutral" confidence 0.5 of a failed LLM request is below the default floor 0.7 and
  escalates its CVE. A CVE flagged in a later run keeps its older, unlabelled ticket.
- If the escalation analysis raises, the run goes on to file its tickets without any flag
  (`nodes/escalate_node.py:122`; its test expects that). The error stays on the thread.
- Two saves of one model version may leave the model of one beside the metadata of the
  other; the loader then reports tampering (`IntegrityError`).
- The mapping asks projects for `admin`, which `model.fga` does not define for them. A check
  that comes to it before a relation the user holds ends in an error, and the order is that
  of a frozenset.
- `default_mappings` of the permissions admits administrators to view, edit and export,
  which its docstring omits; `list_user_relations` passes over a relation whose check
  failed although its docstring says it raises.
- The latest model is the last directory name, so "1.10.0" comes before "1.9.0"; a save
  that dies before its metadata leaves a version that loads unverified.
- When only the second DLP layer objects, `contains_pii` stays false and the count zero.
- A classifier whose fit or load failed reports `is_loaded()` with an unfitted model.
- `setup-openfga.py` creates a new store at every run.
- The training script skips an NVD page that answers 403 and keeps the shortened cache
  for ever; it reads cut-off CSV caches without notice. Nothing reads the
  `.metadata.json` it writes beside the model.
- The dashboard waits for interrupts that no node raises (`nodes/escalate_node.py:166`).
  Its last state keeps the errors of the last node only.

## 4. Fairness

- `CircuitBreaker`: an admitted request ends (clients have timeouts), some task keeps
  calling, time passes. No outcome is assumed, and no reset.
- `RateLimiter`: the event loop runs the processor and released waiters when they are
  ready, and time passes. `WaitersReleased` also rests on the number of requests being
  finite: the fast path may starve the queue under endless arrivals.
- `Authorization`, `Enrichment`: a request is answered or times out and the event loop
  resumes its task, whatever the answer is; retries are bounded. Nothing makes writers
  write, batches begin or the process stay up.
- `Entrypoints`: a background task and a worker thread get their turn, and the reader is
  woken by an event or by its timeout. Starts, reruns and restarts are not assumed.
- `LiveMonitor`: the page polls every two seconds. It is stated of the counterexample's
  run, where the runs themselves may stop anywhere.

## 5. Proofs

All hold for every value of the constants under the named ASSUMEs, which TLC evaluates.

- `CircuitBreakerProofs`: the inductive invariant adds `SlotInv` (outside an episode a
  slot is free, inside one a slot is taken). Without it a stale result in half-open
  could drive the count negative; with it `TypeOK`, `ClosedBelowThreshold`,
  `OpenCanBeTested` and `EpisodeAccounted` follow.
- `ApiClientProofs`: every step of a client is a step of its breaker or leaves it alone
  (`ClientsUseTheBreaker`); by an instance of `CircuitBreakerProofs`, the breaker inside
  keeps its threshold and its episodes under all clients (`ClientsKeepTheThreshold`).
  `RaceInv` says that who fetches a CVE found it missing and that two who fetch it are
  marked, `ReplyInv` that an answer on its way is about CVEs its call still waits for,
  however old it is; from them `OverwriteNeedsRace`. `CallsWearOut` bounds the
  requests of a call. The second half is about `RateLimiter`: the invariant adds a
  balance (tokens left plus   tokens taken is at most a full bucket plus the refill of
  the window) and `WakesInTime`   (at the end of a nap a token is there unless the fast
  path took it). From these   `RateKept`, `QueueIsServed` and `NoOversleep`. The
  arithmetic rests on `Division`,   `NapLength` and `Payment`. `NobodyIsPassedOver` is
  the order of the queue, step by   step; it needs that entries are of requests already
  made (`EntryInv`), or a newcomer   could stand before one of its own priority.
- `EnrichmentProofs`: the invariant adds that a task about to store has a draft
  (`DraftInv`) and that a task alone with a CVE found it not stored (`AloneInv`); from
  it `DivergenceNeedsRace`, `ReportedIsStored` and `StoredIsFinal`. `BoundsAreKept`
  counts the permits of the semaphore and the entries of the LRU cache; `TasksWearOut`
  says that a task only moves on within its batch.
- `PipelineProofs`: the invariant adds what each node may rely on (the batch is empty
  until it is filled, a thread past the routing has no error but that of its own escalation
  analysis, without which the escalated list covers the unscored and low-confidence CVEs,
  handled CVEs are accounted for). From it three invariants, the action property, and that
  every step is a step of `RunLifecycle` or a stutter (`Implements`). What a reader of the
  tickets gets from it is stated apart: each new ticket is warranted, which draws on the
  invariants and the refinement together (`EveryTicketIsWarranted`), and a finished run
  forgets none of its CVEs, which holds of `RunLifecycle` and comes over by the mapping
  (`NothingIsForgotten`).
- `TicketFilingProofs`: the invariant adds that a run which has not sent its POST has
  filed nothing, that a findable ticket stays findable (it keeps the label `siopv`), and
  that a re-scan's copy of SIOPV's labels stays right but for the one it adds. A label by
  hand is exactly what the copy may miss, hence `LabelLossNeedsRace`.
- `AuthorizationProofs`: the invariant relates what a check has found, has left to ask
  and has had refused to `ever` and `always`, which follow the computed relations for a check
  and the stored tuples for a reading; from it `ListingIsHonest` and, step by
  step, the refinement of `AccessDecision`. `AnswersAreRight` is what a caller may
  conclude: it holds of `AccessDecision` and comes over by the mapping. `ChecksWearOut` is
  the safety core of `ChecksEnd`: each answer uses up a try or a relation of the check.
- `EntrypointsProofs`: the invariant of the store says that no saved node comes after the
  current one and that a node which executes or raised is not saved (`Behind`). Over it,
  for the webhook, that a file belongs to a task at work or a restart or a failing disk
  explains it (`NoFileLeaks`). For the stream, `Faithful` says of a reader, its queue and
  its cards: the queue handled to its end leaves the cards as the run is, and the
  sentinel stands last and only once the run is over. Without it nothing is known of a
  card before the end. The flag of the session is set exactly while a script reads
  (`SessionInv`). From these `CardsAreTrue`, `OneRunAtATime`, `TimeoutsFindAWorker` and
  `FlagIsGivenBack`. `RunsWearOut` is the safety core of the progress of runs: checkpoints
  are never taken back, and a run has at most ten steps. For the monitor, `Sound` says
  that what was read of a run was a state it was in and stays true as the runs go on, and
  `Accounted` that a poll which drops the run it showed as active has read that this run is
  complete and comes to it among the completed ones. They hold at every read of a poll; from
  them `MonitorTellsTheTruth`.
- `PeripheryProofs`: one inductive invariant per component. They say what each step in
  progress may rely on: which edition a validation was served and from when on its key
  was published, which contents the two files of a version have when no two writers met
  there and none stopped (`StoreInv`), which
  model each explainer was built for, what each screening layer has settled, which files
  a download still writes. `BatchesStartRight` needs what `FlattenSeq` computes for
  batches of any length: its recursion is unfolded and followed by an induction that
  goes over a set with a least element (`UpTo`). It supposes, as the mappings of the
  code do, that an action maps to some relations (`BatchSetting`). The sum over the
  periphery is not proved as one specification; each theorem is about the component's
  own.

The runs check with TLC what the inductive invariants imply, on the bounds of section 3.
`LowConfidenceAlwaysFlagged` does not depend on how a percentile is chosen.

Only model-checked: the liveness properties (`OpenIsLeft`, `HalfOpenIsDecided`,
`WaitersReleased`, `ChecksEnd`, `RecordsGetTheirTurn`, `AcceptedReportsAreRun`), since
liveness under fairness is beyond the prover (`ChecksWearOut`, `RunsWearOut`, `TasksWearOut`
and `NobodyIsPassedOver` prove of four of them that each step they wait for brings the end
nearer), and the findings, which are counterexamples.

## 6. Order of the work

First the resilience primitives, the escalation policy, the pipeline with its refinement
and the ticket filing; then the clients and the enrichment that use the primitives; the
authorization with its refinement; the ways into the pipeline; the periphery. What is
left over and could be added: the limiter inside `ApiClient` as an instance, contextual
tuples in `Authorization`.

## 7. Not modelled

- Numbers inside the ML model, the explainers and the LLM; feature values; layout of
  PDF, charts and dashboard; wording of tickets; logging.
- Ingestion is an outcome (some CVEs, or an error): parsing one report, merging
  duplicates by CVE, package and version, and counting are data conversion. Records of
  one CVE in different packages share one classification from then on.
- Authorization: contextual tuples, the cached model id, health checks. None of them
  decides a check.
- The batch store, delete, clear and similarity queries of the vector store, which no
  other code calls (the batch store caches before its upsert, which would break
  `DivergenceNeedsRace`). `haiku_validator.py`, which the dual mode does not use.
- A rate limiter whose wall clock is set back, and an endless stream of newcomers.
- The other dashboard pages, which only render; smoke tests; `setup-openfga-tuples.sh`,
  which writes all tuples in one request; settings, which are the constants.
