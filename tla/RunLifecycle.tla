---------------------------- MODULE RunLifecycle ----------------------------
(***************************************************************************)
(* What a pipeline run promises to the people who read its tickets, without *)
(* saying how: nothing is filed before the request was permitted and the    *)
(* whole batch was judged, a filed ticket is never changed, a CVE flagged   *)
(* for review gets a review ticket if it gets a new one, and a run counts   *)
(* as reported only when every CVE of its scope has a ticket or was noted   *)
(* as not filed.  A run may stop at any moment before that.                 *)
(***************************************************************************)

CONSTANT Cves

VARIABLES
    phase,   \* where the run is
    scope,   \* the CVEs the run reports about
    review,  \* the CVEs flagged for human review
    noted,   \* the CVEs the report admits not to have filed
    tickets  \* what the issue tracker holds, over all runs

vars == <<phase, scope, review, noted, tickets>>

Active == {"asked", "working", "reporting"}

Init ==
    /\ phase = "none"
    /\ scope = {} /\ review = {} /\ noted = {}
    /\ tickets = [c \in Cves |-> "none"]

Ask ==
    /\ phase \in {"none", "reported", "stopped"}
    /\ phase' = "asked"
    /\ scope' = {} /\ review' = {} /\ noted' = {}
    /\ UNCHANGED tickets

Permit == phase = "asked" /\ phase' = "working" /\ UNCHANGED <<scope, review, noted, tickets>>

\* The batch is judged as a whole before anything is filed about it.
Judge ==
    /\ phase = "working"
    /\ phase' = "reporting"
    /\ scope' \in (SUBSET Cves) \ {{}}
    /\ review' \in SUBSET Cves
    /\ UNCHANGED <<noted, tickets>>

\* One CVE is handled: filed once, noted, or both when the answer is lost.
Handle(c) ==
    /\ phase = "reporting"
    /\ c \in scope
    /\ \/ UNCHANGED tickets
       \/ /\ tickets[c] = "none"
          /\ tickets' = [tickets EXCEPT ![c] = IF c \in review THEN "review" ELSE "plain"]
    /\ noted' \in {noted, noted \cup {c}}
    /\ UNCHANGED <<phase, scope, review>>

Accounted == {c \in Cves : tickets[c] # "none"} \cup noted

Finish ==
    /\ phase = "reporting"
    /\ phase' = "reported"
    /\ noted' \in {noted, scope}
    /\ scope \subseteq Accounted'
    /\ UNCHANGED <<scope, review, tickets>>

Stop ==
    /\ phase \in Active
    /\ phase' = "stopped"
    /\ scope' = {} /\ review' = {} /\ noted' = {}
    /\ UNCHANGED tickets

Next ==
    \/ Ask \/ Permit \/ Judge
    \/ \E c \in Cves : Handle(c)
    \/ Finish \/ Stop

Spec == Init /\ [][Next]_vars

=============================================================================
