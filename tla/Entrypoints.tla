---------------------------- MODULE Entrypoints ----------------------------
(***************************************************************************)
(* The ways into the pipeline side by side: background tasks of the webhook *)
(* server and worker threads of the dashboard drive runs that share one     *)
(* checkpoint database.                                                     *)
(***************************************************************************)
EXTENDS Naturals, WebhookReceiver, EventStream

CONSTANT MaxRuns  \* bound: POSTs and executions, taken together

ASSUME RunsAreHooksOrStreams == Runs = Hooks \cup Streams /\ Hooks \cap Streams = {}

vars == <<storeVars, hookVars, streamVars>>

Init == StoreInit /\ HookInit /\ StreamInit

\* The dashboard process ends: its worker threads are daemons.
DashboardRestarts ==
    /\ \E s \in Streams : phase[s] \in Alive
    /\ Die(Streams)
    /\ events' = [s \in Streams |-> <<>>]
    /\ reader' = [s \in Streams |-> IF reader[s] = "reading" THEN "gone" ELSE reader[s]]
    /\ session' = [running |-> FALSE, completed |-> FALSE]
    /\ UNCHANGED <<error, card, hookVars>>

Begun == {h \in Hooks : answer[h] # "none"} \cup {s \in Streams : reader[s] # "idle"}

Next ==
    \/ HookNext /\ UNCHANGED streamVars /\ Cardinality(Begun') <= MaxRuns
    \/ StreamNext /\ UNCHANGED hookVars /\ Cardinality(Begun') <= MaxRuns
    \/ DashboardRestarts

Spec == Init /\ [][Next]_vars

\* A background task of the event loop and the worker thread get their turn, and
\* the reader is woken by an event or by its timeout.
FairSpec ==
    /\ Spec
    /\ \A h \in Hooks : WF_vars(HookWork(h) /\ UNCHANGED streamVars)
    /\ \A s \in Streams :
          /\ WF_vars(WorkerGoesOn(s) /\ UNCHANGED hookVars)
          /\ WF_vars(Reads(s) /\ UNCHANGED hookVars)

\* An accepted report is run to an end, unless the server restarts or cannot
\* write the report down, and the script gives the session back.
AcceptedReportsAreRun ==
    /\ \A h \in Hooks : answer[h] = "accepted" ~> phase[h] \in {"over", "failed", "dead"}
    /\ session.running ~> ~session.running
=============================================================================
