------------------------------ MODULE Pipeline ------------------------------
(***************************************************************************)
(* run_pipeline over the LangGraph graph of application/orchestration:      *)
(*   authorize -> ingest -> dlp -> enrich -> classify -> [escalate] ->      *)
(*   output                                                                 *)
(* with its routing functions, its error paths, and the report use case the *)
(* output node runs.  One caller invokes it again and again, with a new     *)
(* thread id or, when a checkpointer is attached, with the one it used      *)
(* before: a node replaces the values of the state it returns, except that  *)
(* `errors` and `escalated_cves` only grow within a thread (operator.add).  *)
(*                                                                          *)
(* A node that only computes is one step, routing included.  The output     *)
(* node is a step per external effect, since a crash between two of them    *)
(* leaves the tickets already filed.  Jira is external and outlives runs.   *)
(***************************************************************************)
EXTENDS EscalationPolicy

CONSTANTS
    Cves,        \* the CVEs a report may contain, numbered
    Wirings,     \* which ports a deployment injects (PipelinePorts)
    MlScores,    \* sampled risk probabilities of the classifier
    LlmScores,   \* sampled confidences the LLM answers
    Relevances,  \* sampled relevance scores of an enrichment
    MaxRuns      \* bound on invocations

Ports == {"parser", "auth", "dlp", "sources", "classifier", "features", "llm",
          "policy", "levels", "outputs", "checkpoint"}

ASSUME PipelineAssumption ==
    /\ Cves \subseteq Nat /\ IsFiniteSet(Cves)
    /\ Wirings \subseteq SUBSET Ports
    /\ MlScores \subseteq Score /\ LlmScores \subseteq Score /\ Relevances \subseteq Score
    /\ MaxRuns \in Nat

VARIABLES
    node,         \* the node about to run, or how the invocation ended
    wiring,       \* the injected ports
    request,      \* user_id given, system_execution set
    granted,      \* history: the authorization port allowed this invocation
    errors,       \* nodes with an entry in `errors`, over the thread
    vulns,        \* CVEs of `vulnerabilities`
    enriched,     \* CVEs with an entry in `enrichments`
    risk,         \* `classifications`: the risk probability, or NoScore
    conf,         \* `llm_confidence`
    escalated,    \* `escalated_cves`, over the thread
    pending,      \* classified CVEs the Jira loop has still to visit
    outputErrors, \* entries this invocation adds to `output_errors`
    tickets,      \* Jira: no ticket, a plain one, or one labelled for review
    runs          \* invocations so far

thread  == <<errors, escalated>>
batch   == <<vulns, enriched, risk, conf>>
caller  == <<wiring, request, granted, runs>>
output  == <<pending, outputErrors>>
vars    == <<node, thread, batch, caller, output, tickets>>

Working   == {"ingest", "dlp", "enrich", "classify", "escalate"}
Reporting == {"output", "jira", "export"}
Ended     == {"idle", "finished", "halted", "aborted"}
Running   == {"authorize"} \cup Working \cup Reporting

\* The ports are missing, the report could not be started, a file (PDF, JSON or
\* CSV) failed, or a CVE's ticket did.
OutputError == ({"ports", "output", "file"} \X {0}) \cup ({"jira"} \X Cves)

TypeOK ==
    /\ node \in Ended \cup Running
    /\ wiring \in Wirings
    /\ request \in [user : BOOLEAN, system : BOOLEAN]
    /\ granted \in BOOLEAN
    /\ errors \subseteq {"authorize", "ingest", "enrich", "classify", "escalate"}
    /\ vulns \subseteq Cves
    /\ enriched \subseteq vulns
    /\ DOMAIN risk \subseteq vulns
    /\ risk \in [DOMAIN risk -> Score \cup {NoScore}]
    /\ conf \in [DOMAIN risk -> Score]
    /\ escalated \subseteq Cves
    /\ pending \subseteq DOMAIN risk
    /\ outputErrors \subseteq OutputError
    /\ tickets \in [Cves -> {"none", "plain", "review"}]
    /\ runs \in 0..MaxRuns

Empty == [c \in {} |-> 0]

Init ==
    /\ node = "idle"
    /\ wiring \in Wirings
    /\ request = [user |-> FALSE, system |-> FALSE]
    /\ granted = FALSE
    /\ errors = {} /\ escalated = {}
    /\ vulns = {} /\ enriched = {} /\ risk = Empty /\ conf = Empty
    /\ pending = {} /\ outputErrors = {}
    /\ tickets = [c \in Cves |-> "none"]
    /\ runs = 0

-----------------------------------------------------------------------------
(* run_pipeline and the gatekeeper *)

\* run_pipeline: create_initial_state resets every field; on a thread that has
\* a checkpoint, adding [] leaves the two reducer fields as they were.
Invoke(user, system, sameThread) ==
    /\ node \in Ended
    /\ runs < MaxRuns
    /\ sameThread => "checkpoint" \in wiring
    /\ runs' = runs + 1
    /\ node' = "authorize"
    /\ request' = [user |-> user, system |-> system]
    /\ granted' = FALSE
    /\ vulns' = {} /\ enriched' = {} /\ risk' = Empty /\ conf' = Empty
    /\ outputErrors' = {} /\ pending' = {}
    /\ IF sameThread THEN UNCHANGED thread ELSE errors' = {} /\ escalated' = {}
    /\ UNCHANGED <<wiring, tickets>>

\* _create_error_state, after which route_after_authorization ends the run.
Deny ==
    /\ node' = "halted"
    /\ errors' = errors \cup {"authorize"}
    /\ UNCHANGED <<escalated, batch, caller, output, tickets>>

\* _handle_anonymous_access
AuthorizeAnonymous ==
    /\ node = "authorize"
    /\ ~request.user
    /\ \/ /\ request.system
          /\ node' = "ingest"
          /\ UNCHANGED <<thread, batch, caller, output, tickets>>
       \/ ~request.system /\ Deny

\* Mutant: a deployment without an authorization port lets every user in.
AuthorizeNoPort_open ==
    /\ node = "authorize"
    /\ request.user
    /\ "auth" \notin wiring
    /\ node' = "ingest"
    /\ UNCHANGED <<thread, batch, caller, output, tickets>>

\* _handle_no_port: fail-secure.
AuthorizeNoPort ==
    /\ node = "authorize"
    /\ request.user
    /\ "auth" \notin wiring
    /\ Deny

\* _execute_authorization_check: the port allows, denies or raises.
AuthorizeCheck ==
    /\ node = "authorize"
    /\ request.user
    /\ "auth" \in wiring
    /\ \/ /\ granted' = TRUE
          /\ node' = "ingest"
          /\ UNCHANGED <<thread, batch, wiring, request, runs, output, tickets>>
       \/ Deny

-----------------------------------------------------------------------------
(* The linear part: an error is recorded and the run goes on to classify *)

\* IngestTrivyReportUseCase: what cannot be parsed is skipped and duplicates are
\* merged; the records that are left name some set of CVEs, possibly none.
IngestTrivyReport == vulns' \in SUBSET Cves

IngestParsed ==
    /\ node = "ingest"
    /\ "parser" \in wiring
    /\ IngestTrivyReport
    /\ node' = "dlp"
    /\ UNCHANGED <<thread, enriched, risk, conf, caller, output, tickets>>

\* No use case is wired, or the parser raises.
IngestFailed ==
    /\ node = "ingest"
    /\ errors' = errors \cup {"ingest"}
    /\ node' = "dlp"
    /\ UNCHANGED <<escalated, batch, caller, output, tickets>>

\* Skipped, nothing to do, or an audit summary no later node reads.
Dlp ==
    /\ node = "dlp"
    /\ node' = "enrich"
    /\ UNCHANGED <<thread, batch, caller, output, tickets>>

\* The node has no try: a sanitizer that raises fails the invocation.
DlpRaises ==
    /\ node = "dlp"
    /\ "dlp" \in wiring
    /\ vulns # {}
    /\ node' = "aborted"
    /\ UNCHANGED <<thread, batch, caller, output, tickets>>

\* Every CVE when a source is not wired (minimal enrichments); otherwise those
\* whose enrichment did not raise.
Enrich ==
    /\ node = "enrich"
    /\ enriched' \in (IF "sources" \in wiring THEN SUBSET vulns ELSE {vulns})
    /\ node' = "classify"
    /\ UNCHANGED <<thread, vulns, risk, conf, caller, output, tickets>>

\* The cache lookup of execute() is outside its try, so it fails the batch.
EnrichFailed ==
    /\ node = "enrich"
    /\ vulns # {}
    /\ "sources" \in wiring
    /\ errors' = errors \cup {"enrich"}
    /\ node' = "classify"
    /\ UNCHANGED <<escalated, batch, caller, output, tickets>>

-----------------------------------------------------------------------------
(* Classification and the routing after it *)

\* _estimate_llm_confidence_fallback
FallbackConfidence(r, relevance) ==
    LET sum == 70 + (2 * Discrepancy(r, 50)) \div 5 + relevance \div 10
    IN  IF sum < 100 THEN sum ELSE 100

\* _create_mock_classifications: a risk per severity, and a confidence from it.
MockJudgements ==
    {[risk |-> r, conf |-> 60 + (3 * r) \div 10] : r \in {90, 70, 50, 30, 40}}

\* ClassifyRiskUseCase: what the classifier may say of a CVE.  An extraction or
\* a prediction that raises leaves it without a score; without a feature
\* engineer every one does.
Predictions == IF "features" \in wiring THEN MlScores ELSE {}

\* Judgements of one CVE by the classifier and the LLM.  The adapter answers
\* the default 0.5 when its request fails; a port that raises, or no port at
\* all, leaves the heuristic.
Judgements(c) ==
    LET relevance == IF c \in enriched THEN Relevances ELSE {0}
        unscored == [risk |-> NoScore, conf |-> 50]
        heuristic == {[risk |-> r, conf |-> FallbackConfidence(r, b)] :
                        r \in Predictions, b \in relevance}
        answered == {[risk |-> r, conf |-> k] : r \in Predictions, k \in LlmScores \cup {50}}
    IN  IF "classifier" \notin wiring THEN MockJudgements
        ELSE {unscored} \cup heuristic
                \cup (IF "llm" \in wiring THEN answered ELSE {})

\* Mutant: an error recorded on the way no longer ends the run.
RouteAfterClassify_reckless(errs, r, k) ==
    IF DOMAIN r = {} THEN "halted"
    ELSE IF "policy" \notin wiring THEN "aborted"
    ELSE IF AnyEscalationNeeded(r, k) THEN "escalate" ELSE "output"

\* route_after_classify and should_escalate_route; without a ThresholdConfig
\* check_any_escalation_needed raises.
RouteAfterClassify(errs, r, k) ==
    IF errs # {} \/ DOMAIN r = {} THEN "halted"
    ELSE IF "policy" \notin wiring THEN "aborted"
    ELSE IF AnyEscalationNeeded(r, k) THEN "escalate" ELSE "output"

\* Mutant: a CVE whose enrichment failed is not classified.
Classify_enriched ==
    /\ node = "classify"
    /\ \E j \in [enriched -> UNION {Judgements(c) : c \in enriched}] :
          /\ \A c \in enriched : j[c] \in Judgements(c)
          /\ risk' = [c \in enriched |-> j[c].risk]
          /\ conf' = [c \in enriched |-> j[c].conf]
    /\ node' = RouteAfterClassify(errors, risk', conf')
    /\ UNCHANGED <<thread, vulns, enriched, caller, output, tickets>>

\* classify_node: every vulnerability is judged, an unenriched one on minimal
\* data, and a CVE whose classification raises is kept without a score.
Classify ==
    /\ node = "classify"
    /\ \E j \in [vulns -> UNION {Judgements(c) : c \in vulns}] :
          /\ \A c \in vulns : j[c] \in Judgements(c)
          /\ risk' = [c \in vulns |-> j[c].risk]
          /\ conf' = [c \in vulns |-> j[c].conf]
    /\ node' = RouteAfterClassify(errors, risk', conf')
    /\ UNCHANGED <<thread, vulns, enriched, caller, output, tickets>>

ClassifyFailed ==
    /\ node = "classify"
    /\ vulns # {}
    /\ errors' = errors \cup {"classify"}
    /\ node' = "halted"
    /\ UNCHANGED <<escalated, batch, caller, output, tickets>>

-----------------------------------------------------------------------------
(* Escalation *)

Candidates == EscalationCandidates(risk, conf)

\* escalate_node: nothing above the adaptive threshold, or the candidates are
\* appended to the thread's list; either way output is next.
Escalate ==
    /\ node = "escalate"
    /\ Candidates = {} \/ "levels" \in wiring
    /\ escalated' = escalated \cup Candidates
    /\ node' = "output"
    /\ UNCHANGED <<errors, batch, caller, output, tickets>>

\* The analysis raises: an entry in `errors`, nobody is flagged, and the edge
\* after the node leads to output all the same.
EscalateFails ==
    /\ node = "escalate"
    /\ errors' = errors \cup {"escalate"}
    /\ node' = "output"
    /\ UNCHANGED <<escalated, batch, caller, output, tickets>>

\* _calculate_escalation_level raises without level thresholds.
EscalateRaises ==
    /\ node = "escalate"
    /\ Candidates # {}
    /\ "levels" \notin wiring
    /\ node' = "aborted"
    /\ UNCHANGED <<thread, batch, caller, output, tickets>>

-----------------------------------------------------------------------------
(* output_node and GenerateReportUseCase *)

OutputSkipped ==
    /\ node = "output"
    /\ "outputs" \notin wiring
    /\ outputErrors' = {<<"ports", 0>>}
    /\ node' = "finished"
    /\ UNCHANGED <<thread, batch, caller, pending, tickets>>

\* The use case cannot be built (its directory cannot be made): one entry that
\* stands for the whole report, and the run ends as any other.
OutputFails ==
    /\ node = "output"
    /\ "outputs" \in wiring
    /\ outputErrors' = {<<"output", 0>>}
    /\ node' = "finished"
    /\ UNCHANGED <<thread, batch, caller, pending, tickets>>

\* The PDF comes first; a failure is recorded and the tickets follow anyway.
GeneratePdf ==
    /\ node = "output"
    /\ "outputs" \in wiring
    /\ outputErrors' \in SUBSET {<<"file", 0>>}
    /\ pending' = DOMAIN risk
    /\ node' = "jira"
    /\ UNCHANGED <<thread, batch, caller, tickets>>

\* The Jira loop visits the CVEs in order and survives every failure.
Visit(c) ==
    /\ node = "jira"
    /\ c \in pending
    /\ \A d \in pending : c <= d
    /\ pending' = pending \ {c}
    /\ UNCHANGED <<node, thread, batch, caller>>

Note(c) == outputErrors' = outputErrors \cup {<<"jira", c>>}

File(c) ==
    /\ tickets[c] = "none"
    /\ tickets' = [tickets EXCEPT ![c] = IF c \in escalated THEN "review" ELSE "plain"]

\* An existing ticket is reported as it is: no label, no comment.
TicketExists(c) ==
    /\ Visit(c)
    /\ tickets[c] # "none"
    /\ UNCHANGED <<tickets, outputErrors>>

FileTicket(c) ==
    /\ Visit(c)
    /\ File(c)
    /\ UNCHANGED outputErrors

\* Mutant: a failed CVE is skipped without an entry in the error list.
TicketFails_silent(c) ==
    /\ Visit(c)
    /\ UNCHANGED <<tickets, outputErrors>>

\* The search or the creation fails before Jira has stored anything.
TicketFails(c) ==
    /\ Visit(c)
    /\ Note(c)
    /\ UNCHANGED tickets

\* Jira stored the ticket, and the answer timed out or could not be read.
TicketAnswerLost(c) ==
    /\ Visit(c)
    /\ File(c)
    /\ Note(c)

EndTickets ==
    /\ node = "jira"
    /\ pending = {}
    /\ node' = "export"
    /\ UNCHANGED <<thread, batch, caller, output, tickets>>

\* _export_json and _export_csv each run whatever failed before; the run ends.
Export ==
    /\ node = "export"
    /\ outputErrors' \in {outputErrors, outputErrors \cup {<<"file", 0>>}}
    /\ node' = "finished"
    /\ UNCHANGED <<thread, batch, caller, pending, tickets>>

\* The process dies.  The reducer fields of the thread are in the checkpoint of
\* the last completed node; the output node's own list is lost with it.
Crash ==
    /\ node \in Running
    /\ node' = "aborted"
    /\ pending' = {} /\ outputErrors' = {}
    /\ UNCHANGED <<thread, batch, caller, tickets>>

-----------------------------------------------------------------------------
NodeStep ==
    \/ AuthorizeAnonymous
    \/ AuthorizeNoPort
    \/ AuthorizeCheck
    \/ IngestParsed
    \/ IngestFailed
    \/ Dlp
    \/ DlpRaises
    \/ Enrich
    \/ EnrichFailed
    \/ Classify
    \/ ClassifyFailed
    \/ Escalate
    \/ EscalateFails
    \/ EscalateRaises
    \/ OutputSkipped
    \/ OutputFails
    \/ GeneratePdf
    \/ \E c \in Cves : TicketExists(c)
    \/ \E c \in Cves : FileTicket(c)
    \/ \E c \in Cves : TicketFails(c)
    \/ \E c \in Cves : TicketAnswerLost(c)
    \/ EndTickets
    \/ Export

Next ==
    \/ \E user, system, sameThread \in BOOLEAN : Invoke(user, system, sameThread)
    \/ NodeStep
    \/ Crash

Spec == Init /\ [][Next]_vars

-----------------------------------------------------------------------------
(* Safety *)

\* No report data is touched unless this very invocation was authorized: by the
\* port for a user, by the explicit flag for the system.
AuthorizedBasis ==
    node \in Working \cup Reporting \cup {"finished"} =>
        IF request.user THEN granted ELSE request.system

\* A CVE the classifier could not score, or whose confidence is below the
\* floor, is flagged by the time tickets are filed, although the route is
\* judged by one threshold and the flag by another: unless the analysis itself
\* failed, and then the thread has an error that says so.
LowConfidenceFlagged ==
    node \in Reporting \cup {"finished"} =>
        \A c \in DOMAIN risk :
            risk[c] = NoScore \/ conf[c] < ConfidenceFloor =>
                c \in escalated \/ "escalate" \in errors

\* A thread that has recorded an error never begins a report: not in the run
\* that recorded it and not in a later one.  The one error a report can carry is
\* that of the escalation analysis of this very run.
ErrorsStopReporting ==
    [][node \notin Reporting /\ node' \in Reporting =>
          errors = {} /\ errors' \subseteq {"escalate"}]_vars

\* A report covers the whole batch: no CVE that was ingested is left out of it,
\* even if its enrichment or its classification failed.
WholeBatchReported ==
    node \in Reporting \cup {"finished"} => DOMAIN risk = vulns /\ vulns # {}

(* Refinement *)

Phase ==
    CASE node = "idle" -> "none"
      [] node = "authorize" -> "asked"
      [] node \in Working -> "working"
      [] node \in Reporting -> "reporting"
      [] node = "finished" -> "reported"
      [] OTHER -> "stopped"

Reported == node \in Reporting \cup {"finished"}
Scope == IF Reported THEN DOMAIN risk ELSE {}
Review == IF Reported THEN escalated ELSE {}
Noted ==
    IF outputErrors \cap {<<"ports", 0>>, <<"output", 0>>} # {} THEN Scope
    ELSE {c \in Scope : <<"jira", c>> \in outputErrors}

Lifecycle == INSTANCE RunLifecycle WITH
    phase <- Phase, scope <- Scope, review <- Review, noted <- Noted

\* The pipeline keeps the promises of RunLifecycle.
KeepsLifecycle == Lifecycle!Spec

=============================================================================
