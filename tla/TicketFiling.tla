---------------------------- MODULE TicketFiling ----------------------------
(***************************************************************************)
(* Several pipeline runs file tickets for the same CVE: the Jira loop of    *)
(* GenerateReportUseCase over JiraAdapter, one HTTP request per step.       *)
(* Background runs of the webhook overlap, and other runs follow later.     *)
(* CVEs do not interact (each search and each ticket is about one), so the  *)
(* module is about one CVE and a run's single visit to it.                  *)
(*                                                                          *)
(* The loop searches, and on a miss calls create_ticket, which searches     *)
(* again: then it creates the ticket, or re-scans the one it found.  Jira   *)
(* is external: its search index lags, requests fail or lose their answer,  *)
(* tickets fall due and are resolved, and analysts label them.              *)
(***************************************************************************)
EXTENDS Naturals, FiniteSets, Sequences

CONSTANTS
    Runs,
    MaxHandled \* bound: tickets that analysts work on

ASSUME FilingAssumption == IsFiniteSet(Runs) /\ MaxHandled \in Nat

VARIABLES
    at,      \* the request each run makes next, or how its visit ended
    key,     \* the ticket each run found or filed
    read,    \* the labels each run read for its re-scan
    tickets, \* Jira: the tickets in the order of creation, named by their run
    labels,  \* Jira: their labels
    overdue, \* Jira: those past their due date
    done,    \* Jira: those in status Done
    index,   \* Jira: those a search finds
    known    \* history: runs that began when a search would have found a ticket

visits == <<at, key, read, known>>
jira == <<tickets, labels, overdue, done, index>>
vars == <<visits, jira>>

Requests == {"find", "findAgain", "create", "fetch", "relabel", "comment"}
Outcomes == {"reported", "unchecked", "failed"}
NoTicket == "none"
OwnLabel == {"siopv", "needs-human-review", "sla-breached"}
Label == OwnLabel \cup {"analyst"}

Filed == {tickets[i] : i \in DOMAIN tickets}

\* What the search by CVE and label `siopv` has to choose from.
Findable == {t \in index : "siopv" \in labels[t]}

\* It is ordered by creation and asks for one result.
Rank(t) == CHOOSE i \in DOMAIN tickets : tickets[i] = t
Newest(t) == t \in Findable /\ \A u \in Findable : Rank(u) <= Rank(t)

TypeOK ==
    /\ at \in [Runs -> {"idle"} \cup Requests \cup Outcomes]
    /\ key \in [Runs -> Runs \cup {NoTicket}]
    /\ read \in [Runs -> SUBSET Label]
    /\ tickets \in Seq(Runs) /\ Cardinality(Filed) = Len(tickets)
    /\ labels \in [Runs -> SUBSET Label]
    /\ overdue \subseteq Filed
    /\ done \subseteq Filed
    /\ index \subseteq Filed
    /\ known \subseteq Runs

Init ==
    /\ at = [r \in Runs |-> "idle"]
    /\ key = [r \in Runs |-> NoTicket]
    /\ read = [r \in Runs |-> {}]
    /\ tickets = <<>>
    /\ labels = [r \in Runs |-> {}]
    /\ overdue = {} /\ done = {} /\ index = {}
    /\ known = {}

-----------------------------------------------------------------------------
(* A visit *)

Goto(r, step) == at' = [at EXCEPT ![r] = step]

\* Every exception of the visit ends in the loop's `except Exception`, and the
\* visit's local variables end with it.
Raise(r) ==
    /\ Goto(r, "failed")
    /\ key' = [key EXCEPT ![r] = NoTicket]
    /\ read' = [read EXCEPT ![r] = {}]

Fail(r) == Raise(r) /\ UNCHANGED <<known, jira>>

\* The loop reaches the CVE.
Begin(r) ==
    /\ at[r] = "idle"
    /\ Goto(r, "find")
    /\ known' = known \cup {x \in {r} : Findable # {}}
    /\ UNCHANGED <<key, read, jira>>

\* The search, whatever the status of the tickets.
Hit(r, step) ==
    /\ \E t \in Findable : Newest(t) /\ key' = [key EXCEPT ![r] = t]
    /\ Goto(r, step)
    /\ UNCHANGED <<read, known, jira>>

\* Mutant: closed tickets do not count, as with `AND status != Done`.
Miss_open_only(r, step) ==
    /\ Findable \subseteq done
    /\ Goto(r, step)
    /\ UNCHANGED <<key, read, known, jira>>

Miss(r, step) ==
    /\ Findable = {}
    /\ Goto(r, step)
    /\ UNCHANGED <<key, read, known, jira>>

\* find_ticket_by_cve of the use case: an existing ticket is reported as it is.
Find(r) ==
    /\ at[r] = "find"
    /\ Hit(r, "reported") \/ Miss(r, "findAgain") \/ Fail(r)

\* find_ticket_by_cve of create_ticket.
FindAgain(r) ==
    /\ at[r] = "findAgain"
    /\ Hit(r, "fetch") \/ Miss(r, "create") \/ Fail(r)

\* POST /issue: stored, stored with the answer lost, or refused.  Whether the run
\* flagged the CVE for review was settled before.
Create(r) ==
    /\ at[r] = "create"
    /\ \/ /\ tickets' = Append(tickets, r)
          /\ \E review \in SUBSET {"needs-human-review"} :
                labels' = [labels EXCEPT ![r] = {"siopv"} \cup review]
          /\ \/ Goto(r, "reported") /\ key' = [key EXCEPT ![r] = r] /\ UNCHANGED read
             \/ Raise(r)
          /\ UNCHANGED <<known, overdue, done, index>>
       \/ Fail(r)

\* Mutant: the labels are not among the fields that are asked for.
Fetch_unlabelled(r) ==
    /\ at[r] = "fetch"
    /\ Goto(r, IF key[r] \in overdue \ done THEN "relabel" ELSE "reported")
    /\ UNCHANGED <<key, read, known, jira>>

\* _handle_rescan reads the ticket.  An error status ends it silently
\* ("unchecked"), a timeout does not; an overdue, unresolved, unmarked ticket is
\* marked next.
Fetch(r) ==
    /\ at[r] = "fetch"
    /\ \/ /\ IF key[r] \in overdue \ done /\ "sla-breached" \notin labels[key[r]]
             THEN Goto(r, "relabel") /\ read' = [read EXCEPT ![r] = labels[key[r]]]
             ELSE Goto(r, "reported") /\ UNCHANGED read
          /\ UNCHANGED <<key, known, jira>>
       \/ Goto(r, "unchecked") /\ UNCHANGED <<key, read, known, jira>>
       \/ Fail(r)

\* Mutant: only the new label is written.
Relabel_bare(r) ==
    /\ at[r] = "relabel"
    /\ labels' = [labels EXCEPT ![key[r]] = {"sla-breached"}]
    /\ Goto(r, "comment")
    /\ UNCHANGED <<key, read, known, tickets, overdue, done, index>>

\* update_ticket writes the whole list of labels that was read, and one more.
Relabel(r) ==
    /\ at[r] = "relabel"
    /\ \/ /\ labels' = [labels EXCEPT ![key[r]] = read[r] \cup {"sla-breached"}]
          /\ \/ /\ Goto(r, "comment")
                /\ read' = [read EXCEPT ![r] = {}]
                /\ UNCHANGED key
             \/ Raise(r)
          /\ UNCHANGED <<known, tickets, overdue, done, index>>
       \/ Fail(r)

\* The comment is not kept track of; an error status is only logged.
Comment(r) ==
    /\ at[r] = "comment"
    /\ \/ Goto(r, "reported") /\ UNCHANGED <<key, read, known, jira>>
       \/ Fail(r)

Step(r) == Find(r) \/ FindAgain(r) \/ Create(r) \/ Fetch(r) \/ Relabel(r) \/ Comment(r)

-----------------------------------------------------------------------------
(* Jira and its users *)

Index(t) ==
    /\ t \in Filed \ index
    /\ index' = index \cup {t}
    /\ UNCHANGED <<visits, tickets, labels, overdue, done>>

FallDue(t) ==
    /\ t \in Filed \ overdue
    /\ overdue' = overdue \cup {t}
    /\ UNCHANGED <<visits, tickets, labels, done, index>>

\* Bound: analysts work on at most MaxHandled tickets at a time.
Handled(t) ==
    Cardinality({t} \cup done \cup {u \in Filed : "analyst" \in labels[u]}) <= MaxHandled

Resolve(t) ==
    /\ t \in Filed \ done
    /\ Handled(t)
    /\ done' = done \cup {t}
    /\ UNCHANGED <<visits, tickets, labels, overdue, index>>

LabelByHand(t) ==
    /\ t \in Filed
    /\ Handled(t)
    /\ labels' = [labels EXCEPT ![t] = @ \cup {"analyst"}]
    /\ UNCHANGED <<visits, tickets, overdue, done, index>>

Next ==
    \/ \E r \in Runs : Begin(r)
    \/ \E r \in Runs : Find(r)
    \/ \E r \in Runs : FindAgain(r)
    \/ \E r \in Runs : Create(r)
    \/ \E r \in Runs : Fetch(r)
    \/ \E r \in Runs : Relabel(r)
    \/ \E r \in Runs : Comment(r)
    \/ \E t \in Runs : Index(t)
    \/ \E t \in Runs : FallDue(t)
    \/ \E t \in Runs : Resolve(t)
    \/ \E t \in Runs : LabelByHand(t)

Spec == Init /\ [][Next]_vars

-----------------------------------------------------------------------------
(* Properties *)

\* A run files a ticket only if no search could have found one when it began:
\* lost answers, lagging index, resolved tickets and rewritten labels lead to a
\* duplicate only among visits that overlap (or follow before Jira indexes).
NoLateDuplicate == known \cap Filed = {}

\* What SIOPV put on a ticket stays, whichever re-scans race on its label list:
\* the search needs `siopv`, the analyst the review label.
OwnLabelsKept ==
    [][\A t \in Runs : labels[t] \cap OwnLabel \subseteq labels'[t]]_vars

\* A label is lost only to a re-scan that read the list before it was added.
LabelLossNeedsRace ==
    [][\A t \in Runs : \A l \in labels[t] \ labels'[t] :
        \E r \in Runs : at[r] = "relabel" /\ key[r] = t /\ l \notin read[r]]_vars

\* Only a ticket whose due date has passed is marked as breached.
BreachIsReal == \A t \in Filed : "sla-breached" \in labels[t] => t \in overdue

\* jira_adapter.py:230 and 434-435: a re-scan detects an existing ticket and marks
\* the breach.  A run does not report a ticket that is overdue, open and unmarked.
RescanMarksBreaches ==
    [][\A r \in Runs :
        /\ at[r] # "reported" /\ at'[r] = "reported"
        /\ key'[r] \in overdue \ done
        => "sla-breached" \in labels'[key'[r]]]_vars

=============================================================================
