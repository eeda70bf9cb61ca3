--------------------------- MODULE PipelineProofs ---------------------------
(***************************************************************************)
(* Safety of the pipeline for every set of CVEs, every deployment, every    *)
(* threshold and any number of invocations.                                 *)
(***************************************************************************)
EXTENDS Pipeline, TLAPS

Judged == {"escalate"} \cup Reporting \cup {"finished"}
Unjudged == {"authorize", "ingest", "dlp", "enrich", "classify"}

\* Until classify has run, nothing of an earlier invocation is left over.
FreshUntilClassify ==
    /\ node \in Unjudged => DOMAIN risk = {} /\ pending = {}
    /\ node \in {"authorize", "ingest"} => vulns = {} /\ enriched = {}

\* Routing lets nothing but a complete, error-free batch past classify; after
\* that only the escalation analysis can add an error.
JudgedClean ==
    /\ node \in Judged => DOMAIN risk = vulns /\ vulns # {}
    /\ node = "escalate" => errors = {}
    /\ node \in Reporting \cup {"finished"} => errors \subseteq {"escalate"}

\* The entries that stand for a whole report.
Generic == {<<"ports", 0>>, <<"output", 0>>}

\* Before the output node nothing is noted; in it, every CVE the Jira loop has
\* left behind has a ticket or an entry in the error list.
Accounting ==
    /\ node \in Unjudged \cup {"escalate", "output"} => outputErrors = {}
    /\ node \in {"jira", "export"} =>
          /\ outputErrors \cap Generic = {}
          /\ \A c \in DOMAIN risk \ pending :
                tickets[c] # "none" \/ <<"jira", c>> \in outputErrors
    /\ node = "export" => pending = {}

IInv ==
    /\ TypeOK
    /\ Accounting
    /\ FreshUntilClassify
    /\ JudgedClean
    /\ AuthorizedBasis
    /\ LowConfidenceFlagged

-----------------------------------------------------------------------------
(* What the operators return *)

\* The heuristic confidence stays a score, whatever the model and the
\* enrichment say.
LEMMA FallbackIsScore ==
    ASSUME NEW r \in Score, NEW b \in Score
    PROVE  FallbackConfidence(r, b) \in Score
<1>1. Discrepancy(r, 50) \in 0..50
  BY DEF Discrepancy, Score
<1>2. (2 * Discrepancy(r, 50)) \div 5 \in 0..20
  BY <1>1
<1>3. b \div 10 \in 0..10
  BY DEF Score
<1>. QED
  BY <1>2, <1>3 DEF FallbackConfidence, Score

\* A judgement is a score or none, with a confidence that is a score.
LEMMA JudgementTyped ==
    ASSUME NEW c \in Cves, NEW j \in Judgements(c)
    PROVE  /\ j.risk \in Score \cup {NoScore}
           /\ j.conf \in Score
<1>. DEFINE relevance == IF c \in enriched THEN Relevances ELSE {0}
            Typed(x) == x.risk \in Score \cup {NoScore} /\ x.conf \in Score
            unscored == [risk |-> NoScore, conf |-> 50]
            heuristic == {[risk |-> r, conf |-> FallbackConfidence(r, b)] :
                            r \in Predictions, b \in relevance}
            answered == {[risk |-> r, conf |-> k] : r \in Predictions, k \in LlmScores \cup {50}}
<1>a. Predictions \subseteq Score /\ LlmScores \subseteq Score /\ relevance \subseteq Score
  BY PipelineAssumption DEF PipelineAssumption, Predictions, Score
<1>1. Typed(unscored)
  BY DEF Score
<1>b. \A r \in Score \cup {NoScore}, k \in Score :
        Typed([risk |-> r, conf |-> k])
  OBVIOUS
<1>2. \A x \in heuristic : Typed(x)
  <2>. SUFFICES ASSUME NEW x \in heuristic PROVE Typed(x)
    OBVIOUS
  <2>1. PICK r \in Predictions, v \in relevance :
          x = [risk |-> r, conf |-> FallbackConfidence(r, v)]
    OBVIOUS
  <2>2. r \in Score /\ FallbackConfidence(r, v) \in Score
    <3>. HIDE DEF relevance
    <3>. QED BY <1>a, FallbackIsScore
  <2>. QED BY <2>1, <2>2
<1>3. \A x \in answered : Typed(x)
  <2>. SUFFICES ASSUME NEW x \in answered PROVE Typed(x)
    OBVIOUS
  <2>1. PICK r \in Predictions, k \in LlmScores \cup {50} : x = [risk |-> r, conf |-> k]
    OBVIOUS
  <2>2. k \in Score
    BY <1>a DEF Score
  <2>. QED BY <1>a, <2>1, <2>2
<1>5. \A x \in MockJudgements : Typed(x)
  <2>. SUFFICES ASSUME NEW x \in MockJudgements PROVE Typed(x)
    OBVIOUS
  <2>1. PICK r \in {90, 70, 50, 30, 40} :
          x = [risk |-> r, conf |-> 60 + (3 * r) \div 10]
    BY DEF MockJudgements
  <2>2. r \in Score /\ 60 + (3 * r) \div 10 \in Score
    BY DEF Score
  <2>. HIDE DEF Typed
  <2>. QED BY <1>b, <2>1, <2>2
<1>6. j \in {unscored} \cup heuristic \cup answered \cup MockJudgements
  <2>. HIDE DEF unscored, heuristic, answered
  <2>1. Judgements(c) =
          IF "classifier" \notin wiring THEN MockJudgements
          ELSE {unscored} \cup heuristic
                  \cup (IF "llm" \in wiring THEN answered ELSE {})
    BY DEF Judgements, unscored, heuristic, answered, relevance
  <2>. QED BY <2>1
<1>7. Typed(j)
  <2>. HIDE DEF unscored, heuristic, answered, Typed
  <2>. QED BY <1>1, <1>2, <1>3, <1>5, <1>6
<1>. QED
  BY <1>7

\* An unscored CVE or one below the floor asks for escalation and is one of the
\* candidates, whatever the base and the adaptive thresholds are.
LEMMA LowIsCandidate ==
    ASSUME NEW r, NEW k, NEW c \in DOMAIN r,
           r[c] = NoScore \/ k[c] < ConfidenceFloor
    PROVE  AnyEscalationNeeded(r, k) /\ c \in EscalationCandidates(r, k)
<1>1. \A t : ShouldEscalateCve(r[c], k[c], t)
  BY DEF ShouldEscalateCve
<1>. QED
  BY <1>1 DEF AnyEscalationNeeded, EscalationCandidates

\* What the route after classify says about the batch.
LEMMA RouteMeaning ==
    ASSUME NEW errs, NEW r, NEW k
    PROVE  /\ RouteAfterClassify(errs, r, k) \in {"halted", "aborted", "escalate", "output"}
           /\ RouteAfterClassify(errs, r, k) \in {"escalate", "output"}
                => errs = {} /\ DOMAIN r # {}
           /\ RouteAfterClassify(errs, r, k) = "output" => ~AnyEscalationNeeded(r, k)
  BY DEF RouteAfterClassify

-----------------------------------------------------------------------------
(* The invariant is inductive *)

LEMMA EmptyBatch == DOMAIN Empty = {} /\ \A S : Empty \in [DOMAIN Empty -> S]
  BY DEF Empty

LEMMA InitIInv == Init => IInv
<1>. SUFFICES ASSUME Init PROVE IInv
  OBVIOUS
<1>1. TypeOK
  <2>1. 0 \in 0..MaxRuns
    BY PipelineAssumption DEF PipelineAssumption
  <2>2. /\ DOMAIN risk = {} /\ risk \in [DOMAIN risk -> Score \cup {NoScore}]
        /\ conf \in [DOMAIN risk -> Score]
    BY EmptyBatch DEF Init
  <2>3. tickets \in [Cves -> {"none", "plain", "review"}]
    BY DEF Init
  <2>. QED BY <2>1, <2>2, <2>3 DEF Init, TypeOK, Ended, Running
<1>2. FreshUntilClassify /\ JudgedClean /\ AuthorizedBasis /\ LowConfidenceFlagged
  BY EmptyBatch
  DEF Init, FreshUntilClassify, JudgedClean, AuthorizedBasis, LowConfidenceFlagged,
      Working, Reporting, Judged, Unjudged
<1>3. Accounting
  BY DEF Init, Accounting, Unjudged
<1>. QED
  BY <1>1, <1>2, <1>3 DEF IInv

LEMMA NextIInv == IInv /\ [Next]_vars => IInv'
<1>. SUFFICES ASSUME IInv, [Next]_vars PROVE IInv'
  OBVIOUS
<1>. USE DEF IInv, TypeOK, Accounting, FreshUntilClassify, JudgedClean, AuthorizedBasis,
         LowConfidenceFlagged, thread, batch, caller, output, Working, Reporting, Ended,
         Running, Judged, Unjudged
<1>1. ASSUME AuthorizeAnonymous PROVE IInv'
  <2>1. CASE Deny
    BY <1>1, <2>1 DEF AuthorizeAnonymous, Deny
  <2>2. CASE ~Deny
    <3>1. /\ request.system /\ ~request.user /\ node = "authorize" /\ node' = "ingest"
          /\ UNCHANGED <<thread, batch, caller, output, tickets>>
      BY <1>1, <2>2 DEF AuthorizeAnonymous
    <3>. QED BY <3>1
  <2>. QED BY <2>1, <2>2
<1>2. ASSUME AuthorizeNoPort PROVE IInv'
  BY <1>2 DEF AuthorizeNoPort, Deny
<1>3. ASSUME AuthorizeCheck PROVE IInv'
  <2>1. CASE Deny
    BY <1>3, <2>1 DEF AuthorizeCheck, Deny
  <2>2. CASE ~Deny
    <3>1. /\ granted' /\ granted' \in BOOLEAN /\ request.user
          /\ node = "authorize" /\ node' = "ingest"
          /\ UNCHANGED <<thread, batch, wiring, request, runs, output, tickets>>
      BY <1>3, <2>2 DEF AuthorizeCheck
    <3>2. TypeOK'
      BY <3>1
    <3>3. FreshUntilClassify' /\ JudgedClean' /\ LowConfidenceFlagged' /\ Accounting'
      BY <3>1
    <3>4. AuthorizedBasis'
      BY <3>1
    <3>. QED BY <3>2, <3>3, <3>4
  <2>. QED BY <2>1, <2>2
<1>4. ASSUME IngestParsed PROVE IInv'
  <2>1. DOMAIN risk = {} /\ enriched = {} /\ node = "ingest"
    BY <1>4 DEF IngestParsed
  <2>2. /\ vulns' \subseteq Cves /\ node' = "dlp"
        /\ UNCHANGED <<errors, escalated, enriched, risk, conf, wiring, request,
                       granted, runs, pending, outputErrors, tickets>>
    BY <1>4 DEF IngestParsed, IngestTrivyReport
  <2>3. TypeOK'
    BY <2>1, <2>2
  <2>. QED BY <2>1, <2>2, <2>3
<1>5. ASSUME IngestFailed PROVE IInv'
  BY <1>5 DEF IngestFailed
<1>6. ASSUME Dlp PROVE IInv'
  BY <1>6 DEF Dlp
<1>7. ASSUME DlpRaises PROVE IInv'
  BY <1>7 DEF DlpRaises
<1>8. ASSUME Enrich PROVE IInv'
  BY <1>8 DEF Enrich
<1>9. ASSUME EnrichFailed PROVE IInv'
  BY <1>9 DEF EnrichFailed
<1>10. ASSUME ClassifyFailed PROVE IInv'
  BY <1>10 DEF ClassifyFailed
<1>11. ASSUME EscalateRaises PROVE IInv'
  BY <1>11 DEF EscalateRaises
<1>12. ASSUME OutputSkipped PROVE IInv'
  BY <1>12 DEF OutputSkipped, OutputError
<1>24. ASSUME OutputFails PROVE IInv'
  BY <1>24 DEF OutputFails, OutputError
<1>13. ASSUME GeneratePdf PROVE IInv'
  BY <1>13 DEF GeneratePdf, OutputError, Generic
<1>14. ASSUME EndTickets PROVE IInv'
  BY <1>14 DEF EndTickets
<1>15. ASSUME Export PROVE IInv'
  BY <1>15 DEF Export, OutputError
<1>16. ASSUME Crash PROVE IInv'
  BY <1>16 DEF Crash
<1>17. ASSUME NEW user \in BOOLEAN, NEW system \in BOOLEAN, NEW sameThread \in BOOLEAN,
              Invoke(user, system, sameThread)
       PROVE  IInv'
  <2>1. runs' \in 0..MaxRuns
    BY <1>17, PipelineAssumption DEF PipelineAssumption, Invoke
  <2>2. errors' \in {errors, {}} /\ escalated' \in {escalated, {}}
    BY <1>17 DEF Invoke
  <2>. QED BY <1>17, <2>1, <2>2, EmptyBatch DEF Invoke
<1>18. ASSUME Classify PROVE IInv'
  <2>1. PICK j \in [vulns -> UNION {Judgements(c) : c \in vulns}] :
          /\ \A c \in vulns : j[c] \in Judgements(c)
          /\ risk' = [c \in vulns |-> j[c].risk]
          /\ conf' = [c \in vulns |-> j[c].conf]
    BY <1>18 DEF Classify
  <2>2. DOMAIN risk' = vulns /\ risk' \in [vulns -> Score \cup {NoScore}]
                             /\ conf' \in [vulns -> Score]
    BY <2>1, JudgementTyped
  <2>4. /\ node' \in {"halted", "aborted", "escalate", "output"}
        /\ node' \in {"escalate", "output"} => errors = {} /\ DOMAIN risk' # {}
        /\ node' = "output" => ~AnyEscalationNeeded(risk', conf')
    BY <1>18, RouteMeaning DEF Classify
  <2>5. UNCHANGED <<thread, vulns, enriched, caller, output, tickets>> /\ node = "classify"
    BY <1>18 DEF Classify
  <2>6. TypeOK'
    BY <2>2, <2>4, <2>5
  <2>7. FreshUntilClassify' /\ JudgedClean' /\ AuthorizedBasis' /\ Accounting'
    BY <2>2, <2>4, <2>5
  <2>8. LowConfidenceFlagged'
    BY <2>4, LowIsCandidate
  <2>. QED BY <2>6, <2>7, <2>8
<1>19. ASSUME Escalate PROVE IInv'
  <2>1. Candidates \subseteq DOMAIN risk
    BY DEF Candidates, EscalationCandidates
  <2>2. TypeOK' /\ FreshUntilClassify' /\ JudgedClean' /\ AuthorizedBasis' /\ Accounting'
    BY <1>19, <2>1 DEF Escalate
  <2>3. LowConfidenceFlagged'
    BY <1>19, LowIsCandidate DEF Escalate, Candidates
  <2>. QED BY <2>2, <2>3
<1>23. ASSUME EscalateFails PROVE IInv'
  BY <1>23 DEF EscalateFails
<1>20. ASSUME NEW c \in Cves, Visit(c),
              tickets' \in [Cves -> {"none", "plain", "review"}],
              outputErrors' \in {outputErrors, outputErrors \cup {<<"jira", c>>}},
              \A d \in Cves : tickets[d] # "none" => tickets'[d] # "none",
              tickets'[c] # "none" \/ <<"jira", c>> \in outputErrors'
       PROVE  IInv'
  <2>1. /\ node = "jira" /\ pending' = pending \ {c}
        /\ UNCHANGED <<node, thread, batch, caller>>
    BY <1>20 DEF Visit
  <2>2. TypeOK'
    BY <1>20, <2>1 DEF OutputError
  <2>3. FreshUntilClassify' /\ JudgedClean' /\ AuthorizedBasis' /\ LowConfidenceFlagged'
    BY <2>1
  <2>4. Accounting'
    <3>1. outputErrors' \cap Generic = {}
      BY <1>20, <2>1 DEF Generic
    <3>2. ASSUME NEW d \in DOMAIN risk, d \notin pending \ {c}
          PROVE  tickets'[d] # "none" \/ <<"jira", d>> \in outputErrors'
      BY <1>20, <2>1, <3>2
    <3>. QED BY <2>1, <3>1, <3>2
  <2>. QED BY <2>2, <2>3, <2>4
<1>21. ASSUME NEW c \in Cves,
              TicketExists(c) \/ FileTicket(c) \/ TicketFails(c) \/ TicketAnswerLost(c)
       PROVE  IInv'
  <2>1. Visit(c) /\ outputErrors' \in {outputErrors, outputErrors \cup {<<"jira", c>>}}
    BY <1>21 DEF TicketExists, FileTicket, TicketFails, TicketAnswerLost, Note
  <2>2. tickets' = tickets \/ File(c)
    BY <1>21 DEF TicketExists, FileTicket, TicketFails, TicketAnswerLost
  <2>3. tickets' \in [Cves -> {"none", "plain", "review"}]
    BY <2>2 DEF File
  <2>4. \A d \in Cves : tickets[d] # "none" => tickets'[d] # "none"
    BY <2>2 DEF File
  <2>5. tickets'[c] # "none" \/ <<"jira", c>> \in outputErrors'
    BY <1>21 DEF TicketExists, FileTicket, TicketFails, TicketAnswerLost, Note, File
  <2>. QED BY <1>20, <2>1, <2>3, <2>4, <2>5
<1>22. CASE UNCHANGED vars
  BY <1>22 DEF vars
<1>. QED
  BY <1>1, <1>2, <1>3, <1>4, <1>5, <1>6, <1>7, <1>8, <1>9, <1>10, <1>11, <1>12, <1>13,
     <1>14, <1>15, <1>16, <1>17, <1>18, <1>19, <1>21, <1>22, <1>23, <1>24
  DEF Next, NodeStep

-----------------------------------------------------------------------------
(* Safety for every value of the constants *)

\* The inductive invariant holds in every reachable state.
THEOREM IInvHolds == Spec => []IInv
  BY InitIInv, NextIInv, PTL DEF Spec

\* Every field of the pipeline state keeps its shape through all nodes, error
\* paths, crashes and reused threads.
THEOREM TypeCorrect == Spec => []TypeOK
<1>1. IInv => TypeOK
  BY DEF IInv
<1>. QED
  BY <1>1, IInvHolds, PTL

\* No node after the gatekeeper runs for an invocation that was not authorized
\* by the port or, without a user, by the explicit system flag.
THEOREM NothingUnauthorized == Spec => []AuthorizedBasis
<1>1. IInv => AuthorizedBasis
  BY DEF IInv
<1>. QED
  BY <1>1, IInvHolds, PTL

\* Whatever the thresholds, the percentile and the history size are, a CVE
\* without a score or below the confidence floor is flagged before it is filed.
THEOREM LowConfidenceAlwaysFlagged == Spec => []LowConfidenceFlagged
<1>1. IInv => LowConfidenceFlagged
  BY DEF IInv
<1>. QED
  BY <1>1, IInvHolds, PTL

\* No run on a thread that has an error enters the output node, and what a
\* report carries is at most the failure of its own escalation analysis.
THEOREM ErrorsAlwaysStop == Spec => ErrorsStopReporting
<1>1. ASSUME IInv, IInv', [Next]_vars, node \notin Reporting, node' \in Reporting
      PROVE  errors = {} /\ errors' \subseteq {"escalate"}
  <2>1. errors' \subseteq {"escalate"}
    BY <1>1 DEF IInv, JudgedClean
  <2>2. CASE Classify
    <3>1. node' = RouteAfterClassify(errors, risk', conf') /\ errors' = errors
      BY <2>2 DEF Classify, thread
    <3>2. node' \in {"escalate", "output"}
      BY <1>1, <3>1, RouteMeaning DEF Reporting
    <3>. QED BY <3>1, <3>2, RouteMeaning
  <2>3. CASE Escalate \/ EscalateFails
    BY <1>1, <2>3 DEF Escalate, EscalateFails, IInv, JudgedClean
  <2>4. CASE Classify \/ Escalate \/ EscalateFails
    BY <2>2, <2>3, <2>4
  <2>. USE DEF Reporting, Deny, Visit
  <2>5. ~(\E user, system, sameThread \in BOOLEAN : Invoke(user, system, sameThread))
    BY <1>1 DEF Invoke
  <2>6. ~(AuthorizeAnonymous \/ AuthorizeNoPort \/ AuthorizeCheck)
    BY <1>1 DEF AuthorizeAnonymous, AuthorizeNoPort, AuthorizeCheck
  <2>7. ~(IngestParsed \/ IngestFailed \/ Dlp \/ DlpRaises \/ Enrich \/ EnrichFailed)
    BY <1>1 DEF IngestParsed, IngestFailed, Dlp, DlpRaises, Enrich, EnrichFailed
  <2>8. ~(ClassifyFailed \/ EscalateRaises \/ Crash)
    BY <1>1 DEF ClassifyFailed, EscalateRaises, Crash
  <2>9. ~(OutputSkipped \/ OutputFails \/ GeneratePdf \/ EndTickets \/ Export)
    BY <1>1 DEF OutputSkipped, OutputFails, GeneratePdf, EndTickets, Export
  <2>10. ~(\E c \in Cves : TicketExists(c) \/ FileTicket(c) \/ TicketFails(c)
                               \/ TicketAnswerLost(c))
    BY <1>1 DEF TicketExists, FileTicket, TicketFails, TicketAnswerLost
  <2>11. ~UNCHANGED vars
    BY <1>1 DEF vars
  <2>. QED BY <1>1, <2>1, <2>4, <2>5, <2>6, <2>7, <2>8, <2>9, <2>10, <2>11 DEF Next, NodeStep
<1>. QED BY <1>1, IInvHolds, PTL DEF Spec, ErrorsStopReporting

\* A run that reports reports every CVE it ingested, and ingested some.
THEOREM ReportsAreComplete == Spec => []WholeBatchReported
<1>1. IInv => WholeBatchReported
  BY DEF IInv, JudgedClean, Judged, WholeBatchReported
<1>. QED
  BY <1>1, IInvHolds, PTL

-----------------------------------------------------------------------------
(* The pipeline implements RunLifecycle *)

\* The abstract phase of each node.
LEMMA PhaseOfNode ==
    /\ node = "idle" => Phase = "none"
    /\ node = "authorize" => Phase = "asked"
    /\ node \in Working => Phase = "working"
    /\ node \in Reporting => Phase = "reporting"
    /\ node = "finished" => Phase = "reported"
    /\ node \in {"halted", "aborted"} => Phase = "stopped"
  BY DEF Phase, Working, Reporting

LEMMA PhaseOfNextNode ==
    /\ node' = "authorize" => Phase' = "asked"
    /\ node' \in Working => Phase' = "working"
    /\ node' \in Reporting => Phase' = "reporting"
    /\ node' = "finished" => Phase' = "reported"
    /\ node' \in {"halted", "aborted"} => Phase' = "stopped"
  BY DEF Phase, Working, Reporting

\* Outside the output node the run has no abstract scope.
LEMMA NothingReported ==
    /\ node \notin Reporting \cup {"finished"} => Scope = {} /\ Review = {} /\ Noted = {}
    /\ node' \notin Reporting \cup {"finished"} => Scope' = {} /\ Review' = {} /\ Noted' = {}
  BY DEF Scope, Review, Noted, Reported

LEMMA InitLifecycle == Init => Lifecycle!Init
<1>. SUFFICES ASSUME Init PROVE Lifecycle!Init
  OBVIOUS
<1>1. node = "idle" /\ tickets = [c \in Cves |-> "none"]
  BY DEF Init
<1>. QED
  BY <1>1, PhaseOfNode, NothingReported DEF Lifecycle!Init, Reporting

\* A step to an end that is not a report is the abstract Stop.
LEMMA StopStep ==
    ASSUME node \in Running, node' \in {"halted", "aborted"}, UNCHANGED tickets
    PROVE  Lifecycle!Stop
<1>1. Phase \in {"asked", "working", "reporting"}
  BY PhaseOfNode DEF Running
<1>2. Phase' = "stopped" /\ Scope' = {} /\ Review' = {} /\ Noted' = {}
  BY PhaseOfNextNode, NothingReported DEF Reporting
<1>. QED
  BY <1>1, <1>2 DEF Lifecycle!Stop, Lifecycle!Active

\* Past the gatekeeper the run is permitted.
LEMMA PermitStep ==
    ASSUME node = "authorize", node' = "ingest", UNCHANGED tickets
    PROVE  Lifecycle!Permit
  BY PhaseOfNode, PhaseOfNextNode, NothingReported DEF Lifecycle!Permit, Working, Reporting

\* Between two nodes before the output nothing abstract happens.
LEMMA WorkStep ==
    ASSUME node \in Working, node' \in Working, UNCHANGED tickets
    PROVE  UNCHANGED Lifecycle!vars
  BY PhaseOfNode, PhaseOfNextNode, NothingReported DEF Lifecycle!vars, Working, Reporting

\* Entering the output node is where the batch has been judged.
LEMMA JudgeStep ==
    ASSUME IInv', node \in Working, node' = "output", UNCHANGED tickets
    PROVE  Lifecycle!Judge
<1>1. Phase = "working" /\ Phase' = "reporting" /\ Noted = {}
  BY PhaseOfNode, PhaseOfNextNode, NothingReported DEF Working, Reporting
<1>2. Scope' = DOMAIN risk' /\ Review' = escalated' /\ outputErrors' = {}
  BY DEF Scope, Review, Reported, Reporting, IInv, Accounting
<1>3. Noted' = {}
  BY <1>2 DEF Noted
<1>4. Scope' \in (SUBSET Cves) \ {{}} /\ Review' \in SUBSET Cves
  <2>1. DOMAIN risk' \subseteq Cves /\ escalated' \subseteq Cves
    BY DEF IInv, TypeOK
  <2>2. DOMAIN risk' # {}
    BY DEF IInv, JudgedClean, Judged, Reporting
  <2>. QED BY <1>2, <2>1, <2>2
<1>. QED
  BY <1>1, <1>3, <1>4 DEF Lifecycle!Judge

\* While the report is written, its scope and flags are those of the batch.
LEMMA ReportingView ==
    /\ node \in Reporting \cup {"finished"} => Scope = DOMAIN risk /\ Review = escalated
    /\ node' \in Reporting \cup {"finished"} => Scope' = DOMAIN risk' /\ Review' = escalated'
  BY DEF Scope, Review, Reported

\* Visiting one CVE in the Jira loop is handling it.
LEMMA HandleStep ==
    ASSUME IInv, NEW c \in Cves,
           TicketExists(c) \/ FileTicket(c) \/ TicketFails(c) \/ TicketAnswerLost(c)
    PROVE  Lifecycle!Handle(c)
<1>1. /\ node = "jira" /\ node' = "jira" /\ c \in DOMAIN risk
      /\ UNCHANGED <<risk, escalated>>
  BY DEF TicketExists, FileTicket, TicketFails, TicketAnswerLost, Visit, thread, batch,
         IInv, TypeOK
<1>2. Phase = "reporting" /\ Phase' = "reporting"
  BY <1>1, PhaseOfNode, PhaseOfNextNode DEF Reporting
<1>3. Scope = DOMAIN risk /\ Scope' = Scope /\ Review = escalated /\ Review' = Review
  BY <1>1, ReportingView DEF Reporting
<1>4. \/ UNCHANGED tickets
      \/ /\ tickets[c] = "none"
         /\ tickets' = [tickets EXCEPT ![c] = IF c \in Review THEN "review" ELSE "plain"]
  BY <1>3 DEF TicketExists, FileTicket, TicketFails, TicketAnswerLost, File
<1>5. outputErrors' \in {outputErrors, outputErrors \cup {<<"jira", c>>}}
  BY DEF TicketExists, FileTicket, TicketFails, TicketAnswerLost, Note
<1>6. outputErrors \cap Generic = {} /\ outputErrors' \cap Generic = {}
  BY <1>1, <1>5 DEF IInv, Accounting, Generic
<1>7. /\ Noted = {d \in Scope : <<"jira", d>> \in outputErrors}
      /\ Noted' = {d \in Scope : <<"jira", d>> \in outputErrors'}
  BY <1>3, <1>6 DEF Noted, Generic
<1>8. Noted' \in {Noted, Noted \cup {c}}
  <2>1. CASE outputErrors' = outputErrors
    BY <1>7, <2>1
  <2>2. CASE outputErrors' = outputErrors \cup {<<"jira", c>>}
    <3>1. \A d : <<"jira", d>> \in outputErrors' <=> <<"jira", d>> \in outputErrors \/ d = c
      BY <2>2
    <3>2. c \in Scope
      BY <1>1, <1>3
    <3>. QED BY <1>7, <3>1, <3>2
  <2>. QED BY <1>5, <2>1, <2>2
<1>. QED
  BY <1>1, <1>2, <1>3, <1>4, <1>8 DEF Lifecycle!Handle

\* The steps of the output node that handle no CVE are invisible.
LEMMA QuietStep ==
    ASSUME IInv, GeneratePdf \/ EndTickets
    PROVE  UNCHANGED Lifecycle!vars
<1>1. /\ node \in Reporting /\ node' \in Reporting
      /\ UNCHANGED <<risk, escalated, tickets>>
      /\ \A e : e # <<"file", 0>> => (e \in outputErrors' <=> e \in outputErrors)
  BY DEF GeneratePdf, EndTickets, Reporting, thread, batch, output, IInv, Accounting
<1>2. Phase = Phase' /\ Scope' = Scope /\ Review' = Review
  BY <1>1, PhaseOfNode, PhaseOfNextNode, ReportingView
<1>3. Noted' = Noted
  <2>1. (\A e \in Generic : e # <<"file", 0>>) /\ \A d : <<"jira", d>> # <<"file", 0>>
    BY DEF Generic
  <2>. QED BY <1>1, <1>2, <2>1 DEF Noted, Generic
<1>. QED
  BY <1>1, <1>2, <1>3 DEF Lifecycle!vars

\* A run ends reported only when its whole scope is accounted for.
LEMMA FinishStep ==
    ASSUME IInv, OutputSkipped \/ OutputFails \/ Export
    PROVE  Lifecycle!Finish
<1>1. /\ node \in Reporting /\ node' = "finished"
      /\ UNCHANGED <<risk, escalated, tickets>>
  BY DEF OutputSkipped, OutputFails, Export, Reporting, thread, batch
<1>2. /\ Phase = "reporting" /\ Phase' = "reported"
      /\ Scope = DOMAIN risk /\ Scope' = Scope /\ Review' = Review
  BY <1>1, PhaseOfNode, PhaseOfNextNode, ReportingView
<1>3. CASE OutputSkipped \/ OutputFails
  <2>1. Noted' = Scope
    BY <1>2, <1>3 DEF OutputSkipped, OutputFails, Noted
  <2>. QED BY <1>1, <1>2, <2>1 DEF Lifecycle!Finish, Lifecycle!Accounted
<1>4. CASE Export
  <2>1. \A e : e # <<"file", 0>> => (e \in outputErrors' <=> e \in outputErrors)
    BY <1>4 DEF Export
  <2>2. (\A e \in Generic : e # <<"file", 0>>) /\ \A d : <<"jira", d>> # <<"file", 0>>
    BY DEF Generic
  <2>3. Noted' = Noted
    BY <1>2, <2>1, <2>2 DEF Noted, Generic
  <2>4. /\ outputErrors \cap Generic = {}
        /\ \A c \in DOMAIN risk : tickets[c] # "none" \/ <<"jira", c>> \in outputErrors
    BY <1>4 DEF Export, IInv, Accounting
  <2>5. Noted = {c \in Scope : <<"jira", c>> \in outputErrors}
    BY <2>4 DEF Noted, Generic
  <2>6. DOMAIN risk \subseteq Cves
    BY DEF IInv, TypeOK
  <2>7. Scope' \subseteq {c \in Cves : tickets'[c] # "none"} \cup Noted'
    BY <1>1, <1>2, <2>3, <2>4, <2>5, <2>6
  <2>. QED BY <1>1, <1>2, <2>3, <2>7 DEF Lifecycle!Finish, Lifecycle!Accounted
<1>. QED
  BY <1>3, <1>4

LEMMA InvokeStep ==
    ASSUME NEW user, NEW system, NEW sameThread, Invoke(user, system, sameThread)
    PROVE  Lifecycle!Ask
<1>1. node \in Ended /\ node' = "authorize" /\ UNCHANGED tickets
  BY DEF Invoke
<1>2. Phase \in {"none", "reported", "stopped"} /\ Phase' = "asked"
  BY <1>1, PhaseOfNode, PhaseOfNextNode DEF Ended
<1>. QED
  BY <1>1, <1>2, NothingReported DEF Lifecycle!Ask, Reporting

LEMMA NextLifecycle ==
    ASSUME IInv, IInv', [Next]_vars
    PROVE  [Lifecycle!Next]_(Lifecycle!vars)
<1>. USE DEF thread, batch, caller, output
<1>1. CASE AuthorizeAnonymous \/ AuthorizeNoPort \/ AuthorizeCheck
  <2>1. node = "authorize" /\ node' \in {"ingest", "halted"} /\ UNCHANGED tickets
    BY <1>1 DEF AuthorizeAnonymous, AuthorizeNoPort, AuthorizeCheck, Deny
  <2>. QED BY <2>1, PermitStep, StopStep DEF Lifecycle!Next, Running
<1>2. CASE IngestParsed \/ IngestFailed \/ Dlp \/ Enrich \/ EnrichFailed
  <2>1. node \in Working /\ node' \in Working /\ UNCHANGED tickets
    BY <1>2 DEF IngestParsed, IngestFailed, Dlp, Enrich, EnrichFailed, Working
  <2>. QED BY <2>1, WorkStep
<1>3. CASE DlpRaises \/ ClassifyFailed \/ EscalateRaises \/ Crash
  <2>1. node \in Running /\ node' \in {"halted", "aborted"} /\ UNCHANGED tickets
    BY <1>3 DEF DlpRaises, ClassifyFailed, EscalateRaises, Crash, Running, Working
  <2>. QED BY <2>1, StopStep DEF Lifecycle!Next
<1>4. CASE Classify
  <2>1. /\ node \in Working /\ node' \in {"halted", "aborted", "escalate", "output"}
        /\ UNCHANGED tickets
    BY <1>4, RouteMeaning DEF Classify, Working
  <2>2. CASE node' \in {"halted", "aborted"}
    BY <2>1, <2>2, StopStep DEF Lifecycle!Next, Running
  <2>3. CASE node' = "escalate"
    BY <2>1, <2>3, WorkStep DEF Working
  <2>4. CASE node' = "output"
    BY <2>1, <2>4, JudgeStep DEF Lifecycle!Next
  <2>. QED BY <2>1, <2>2, <2>3, <2>4
<1>5. CASE Escalate \/ EscalateFails
  <2>1. node \in Working /\ node' = "output" /\ UNCHANGED tickets
    BY <1>5 DEF Escalate, EscalateFails, Working
  <2>. QED BY <2>1, JudgeStep DEF Lifecycle!Next
<1>6. CASE \E c \in Cves :
              TicketExists(c) \/ FileTicket(c) \/ TicketFails(c) \/ TicketAnswerLost(c)
  BY <1>6, HandleStep DEF Lifecycle!Next
<1>7. CASE GeneratePdf \/ EndTickets
  BY <1>7, QuietStep
<1>8. CASE OutputSkipped \/ OutputFails \/ Export
  BY <1>8, FinishStep DEF Lifecycle!Next
<1>9. CASE \E user, system, sameThread \in BOOLEAN : Invoke(user, system, sameThread)
  BY <1>9, InvokeStep DEF Lifecycle!Next
<1>10. CASE UNCHANGED vars
  BY <1>10 DEF vars, Lifecycle!vars, Phase, Scope, Review, Noted, Reported
<1>. QED
  BY <1>1, <1>2, <1>3, <1>4, <1>5, <1>6, <1>7, <1>8, <1>9, <1>10 DEF Next, NodeStep

\* The pipeline implements RunLifecycle: nothing is filed before the request
\* was permitted and the batch judged, a filed ticket is never changed, flagged
\* CVEs get review tickets, and a reported run accounts for its whole scope.
THEOREM Implements == Spec => KeepsLifecycle
  BY InitLifecycle, NextLifecycle, IInvHolds, PTL DEF Spec, KeepsLifecycle, Lifecycle!Spec

-----------------------------------------------------------------------------
(* What a ticket vouches for *)

LEMMA InvImplies ==
    IInv => /\ AuthorizedBasis /\ LowConfidenceFlagged
            /\ JudgedClean /\ WholeBatchReported
BY DEF IInv, JudgedClean, Judged, WholeBatchReported

\* A new ticket is about a CVE of the ingested batch, filed by a run that was
\* authorized and met no error but a failed escalation analysis; it asks for a
\* review exactly when the CVE is escalated, so whenever nothing certain was
\* known of it and the analysis succeeded.  A ticket that is there is never
\* changed by a run.
TicketsAreWarranted ==
    [][\A c \in Cves : tickets'[c] # tickets[c] =>
          /\ tickets[c] = "none" /\ c \in vulns /\ errors \subseteq {"escalate"}
          /\ IF request.user THEN granted ELSE request.system
          /\ tickets'[c] = IF c \in escalated THEN "review" ELSE "plain"
          /\ errors = {} /\ (risk[c] = NoScore \/ conf[c] < ConfidenceFloor)
                => tickets'[c] = "review"]_vars

\* From the gatekeeper to the Jira loop of output_node.py: what every node before
\* it established still holds when a ticket is filed, by way of the abstract
\* lifecycle, in which tickets only appear while a judged batch is handled.
THEOREM EveryTicketIsWarranted == Spec => TicketsAreWarranted
<1>1. ASSUME IInv, IInv', [Next]_vars, NEW c \in Cves, tickets'[c] # tickets[c]
      PROVE  /\ tickets[c] = "none" /\ c \in vulns /\ errors \subseteq {"escalate"}
             /\ IF request.user THEN granted ELSE request.system
             /\ tickets'[c] = IF c \in escalated THEN "review" ELSE "plain"
             /\ errors = {} /\ (risk[c] = NoScore \/ conf[c] < ConfidenceFloor)
                   => tickets'[c] = "review"
  <2>1. PICK d \in Cves : Lifecycle!Handle(d)
    <3>1. [Lifecycle!Next]_(Lifecycle!vars)
      BY <1>1, NextLifecycle
    <3>. QED
      BY <1>1, <3>1
      DEF Lifecycle!Next, Lifecycle!vars, Lifecycle!Ask, Lifecycle!Permit, Lifecycle!Judge,
          Lifecycle!Finish, Lifecycle!Stop
  <2>2. /\ Phase = "reporting" /\ d \in Scope /\ tickets[d] = "none"
        /\ tickets' = [tickets EXCEPT ![d] = IF d \in Review THEN "review" ELSE "plain"]
    BY <1>1, <2>1 DEF Lifecycle!Handle
  <2>3. d = c /\ tickets'[c] = IF c \in Review THEN "review" ELSE "plain"
    BY <1>1, <2>2 DEF IInv, TypeOK
  <2>4. node \in Reporting
    BY <2>2 DEF Phase
  <2>5. Scope = DOMAIN risk /\ Review = escalated
    BY <2>4, ReportingView
  <2>6. AuthorizedBasis /\ LowConfidenceFlagged /\ JudgedClean /\ WholeBatchReported
    BY <1>1, InvImplies
  <2>7. DOMAIN risk = vulns /\ errors \subseteq {"escalate"}
        /\ IF request.user THEN granted ELSE request.system
    BY <2>4, <2>6 DEF AuthorizedBasis, JudgedClean, WholeBatchReported
  <2>8. errors = {} /\ (risk[c] = NoScore \/ conf[c] < ConfidenceFloor) => c \in escalated
    BY <2>2, <2>3, <2>4, <2>5, <2>6 DEF LowConfidenceFlagged
  <2>. QED BY <2>2, <2>3, <2>5, <2>7, <2>8
<1>2. ASSUME IInv, IInv', [Next]_vars
      PROVE  [\A c \in Cves : tickets'[c] # tickets[c] =>
                 /\ tickets[c] = "none" /\ c \in vulns /\ errors \subseteq {"escalate"}
                 /\ IF request.user THEN granted ELSE request.system
                 /\ tickets'[c] = IF c \in escalated THEN "review" ELSE "plain"
                 /\ errors = {} /\ (risk[c] = NoScore \/ conf[c] < ConfidenceFloor)
                       => tickets'[c] = "review"]_vars
  BY <1>1, <1>2
<1>. QED BY <1>2, IInvHolds, PTL DEF Spec, TicketsAreWarranted

\* A run that reports accounts for every CVE it ingested: by its ticket, by an
\* entry of its own, or by the one entry that says nothing was tried.
NoneForgotten ==
    node = "finished" =>
        \A c \in vulns : \/ tickets[c] # "none"
                         \/ <<"jira", c>> \in outputErrors
                         \/ outputErrors \cap Generic # {}

\* The abstract run finishes when its scope is accounted for.
ScopeAccounted == Phase = "reported" => Scope \subseteq Lifecycle!Accounted

LEMMA ReportedIsAccounted == Lifecycle!Spec => []ScopeAccounted
<1>1. Lifecycle!Init => ScopeAccounted
  BY DEF Lifecycle!Init, ScopeAccounted
<1>2. ASSUME ScopeAccounted, [Lifecycle!Next]_(Lifecycle!vars)
      PROVE  ScopeAccounted'
  <2>. USE DEF ScopeAccounted
  <2>1. CASE UNCHANGED Lifecycle!vars
    BY <1>2, <2>1 DEF Lifecycle!vars, Lifecycle!Accounted
  <2>2. CASE Lifecycle!Finish
    BY <2>2 DEF Lifecycle!Finish
  <2>. QED
    BY <1>2, <2>1, <2>2
    DEF Lifecycle!Next, Lifecycle!Ask, Lifecycle!Permit, Lifecycle!Judge, Lifecycle!Handle,
        Lifecycle!Stop
<1>. QED BY <1>1, <1>2, PTL DEF Lifecycle!Spec

\* End to end, from ingest_node.py to output_node.py: none of the batch is lost
\* between the nodes or in the Jira loop, however many calls fail.
THEOREM NothingIsForgotten == Spec => []NoneForgotten
<1>1. ASSUME IInv, ScopeAccounted PROVE NoneForgotten
  <2>. SUFFICES ASSUME node = "finished", NEW c \in vulns
                PROVE  \/ tickets[c] # "none"
                       \/ <<"jira", c>> \in outputErrors
                       \/ outputErrors \cap Generic # {}
    BY DEF NoneForgotten
  <2>1. Phase = "reported" /\ Scope = DOMAIN risk /\ DOMAIN risk = vulns
    BY <1>1, InvImplies, PhaseOfNode, ReportingView DEF WholeBatchReported
  <2>2. c \in {d \in Cves : tickets[d] # "none"} \cup Noted
    BY <1>1, <2>1 DEF Lifecycle!Accounted, ScopeAccounted
  <2>. QED BY <2>2 DEF Noted, Generic
<1>. QED BY <1>1, IInvHolds, Implements, ReportedIsAccounted, PTL DEF KeepsLifecycle
=============================================================================
