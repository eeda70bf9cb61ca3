-------------------------- MODULE EscalationPolicy --------------------------
(***************************************************************************)
(* The uncertainty trigger: which classified CVEs are flagged for human     *)
(* review (application/orchestration/utils.py and                           *)
(* domain/value_objects/discrepancy.py).                                    *)
(*                                                                          *)
(* A batch is a pair of functions over the same finite set of CVE numbers:  *)
(* risk, the ML probability or NoScore when the classification failed, and  *)
(* conf, the LLM confidence.  Both are in hundredths.  CVE numbers stand    *)
(* for positions in the classifications dictionary, so that numeric order   *)
(* is its iteration order.                                                  *)
(***************************************************************************)
EXTENDS Integers, Sequences, FiniteSets, SequencesExt

CONSTANTS
    BaseThreshold,   \* ThresholdConfig.base_threshold
    ConfidenceFloor, \* ThresholdConfig.confidence_floor
    Percentile,      \* ThresholdConfig.percentile
    HistorySize      \* ThresholdConfig.history_size

Score == 0..100

ASSUME PolicyAssumption ==
    /\ BaseThreshold \in Score
    /\ ConfidenceFloor \in Score
    /\ Percentile \in 0..100
    /\ HistorySize \in Nat \ {0}

NoScore == -1

Discrepancy(r, k) == IF r >= k THEN r - k ELSE k - r

\* Mutant: the confidence floor is not consulted.
ShouldEscalateCve_nofloor(r, k, threshold) ==
    \/ r = NoScore
    \/ Discrepancy(r, k) > threshold

\* should_escalate_cve: no score, a confidence below the floor, or too much
\* disagreement between the model and the LLM.
ShouldEscalateCve(r, k, threshold) ==
    \/ r = NoScore
    \/ k < ConfidenceFloor
    \/ Discrepancy(r, k) > threshold

\* The discrepancies of the scored CVEs in dictionary order.
Discrepancies(risk, conf) ==
    LET scored == {c \in DOMAIN risk : risk[c] # NoScore}
        order == SetToSortSeq(scored, <)
    IN  [i \in 1..Len(order) |-> Discrepancy(risk[order[i]], conf[order[i]])]

\* DiscrepancyHistory.add for each of them: the last max_size values stay.
History(ds) ==
    IF Len(ds) > HistorySize
    THEN SubSeq(ds, Len(ds) - HistorySize + 1, Len(ds)) ELSE ds

\* sorted(values)[min(int(n * p / 100), n - 1)]: the value with at most that
\* many values below it and more than that many at or below it.
PercentileOf(values) ==
    LET n == Len(values)
        rank == (n * Percentile) \div 100
        index == IF rank < n THEN rank ELSE n - 1
    IN  CHOOSE x \in ToSet(values) :
            /\ Cardinality({i \in 1..n : values[i] < x}) <= index
            /\ Cardinality({i \in 1..n : values[i] <= x}) > index

\* get_percentile over a history that starts empty on every call.
AdaptiveThreshold(risk, conf) ==
    LET h == History(Discrepancies(risk, conf))
    IN  IF h = <<>> THEN BaseThreshold ELSE PercentileOf(h)

\* calculate_escalation_candidates: judged by the adaptive threshold.
EscalationCandidates(risk, conf) ==
    LET threshold == AdaptiveThreshold(risk, conf)
    IN  {c \in DOMAIN risk : ShouldEscalateCve(risk[c], conf[c], threshold)}

\* check_any_escalation_needed: judged by the base threshold.
AnyEscalationNeeded(risk, conf) ==
    \E c \in DOMAIN risk : ShouldEscalateCve(risk[c], conf[c], BaseThreshold)

=============================================================================
