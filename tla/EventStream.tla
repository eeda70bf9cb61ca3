---------------------------- MODULE EventStream ----------------------------
(***************************************************************************)
(* The pipeline monitor of the dashboard.  A worker thread drives the       *)
(* pipeline and puts events into a queue; the Streamlit script drains the   *)
(* queue and repaints one card per node.  The script gives up when no event *)
(* comes in time, and Streamlit ends it when the user touches the page;     *)
(* either way the worker goes on, unseen.                                   *)
(***************************************************************************)
EXTENDS RunStore

CONSTANT Streams  \* executions of the button; each one's run has its name

VARIABLES
    events,   \* stream -> the queue between the threads
    error,    \* streams whose error_holder is filled
    reader,   \* stream -> the script's side
    card,     \* stream -> node -> the status on its card
    session   \* [running, completed] of the Streamlit session

streamVars == <<events, error, reader, card, session>>

END == [type |-> "end", node |-> "none"]
Event(type, n) == [type |-> type, node |-> n]
Put(s, es) == events' = [events EXCEPT ![s] = @ \o es]

CreateFlowPlaceholders == [n \in Nodes |-> "pending"]

\* update_node_start and update_node_end
UpdateNode(s, e) ==
    card' = [card EXCEPT ![s][e.node] = IF e.type = "node_start" THEN "running" ELSE "complete"]

MarkSkippedNodes(s) ==
    card' = [card EXCEPT ![s] = [n \in Nodes |->
                IF card[s][n] = "pending" THEN "skipped" ELSE card[s][n]]]

StreamInit ==
    /\ events = [s \in Streams |-> <<>>]
    /\ error = {}
    /\ reader = [s \in Streams |-> "idle"]
    /\ card = [s \in Streams |-> CreateFlowPlaceholders]
    /\ session = [running |-> FALSE, completed |-> FALSE]

-----------------------------------------------------------------------------
(* The worker thread *)

\* Events that only go to the log (pipeline_start, _end and _error) are left out.

\* _consume_events begins and the first node starts.
StreamEnters(s) ==
    /\ EnterGraph(s)
    /\ Put(s, <<Event("node_start", "authorize")>>)
    /\ UNCHANGED <<error, reader, card, session>>

NodeEndSeen(s) ==
    /\ NodeEnds(s)
    /\ Put(s, <<Event("node_end", node[s])>>)
    /\ UNCHANGED <<error, reader, card, session>>

NodeStartSeen(s) ==
    /\ NextNode(s)
    /\ Put(s, <<Event("node_start", node'[s])>>)
    /\ UNCHANGED <<error, reader, card, session>>

StreamEnds(s) ==
    /\ ReachEnd(s)
    /\ Put(s, <<END>>)
    /\ UNCHANGED <<error, reader, card, session>>

\* Mutant: the sentinel is put on success only.
StreamRaises_silent(s) ==
    /\ Raises(s)
    /\ error' = error \cup {s}
    /\ UNCHANGED <<events, reader, card, session>>

\* _thread_target: the error is kept for the reader, the sentinel always put.
StreamRaises(s) ==
    /\ Raises(s)
    /\ error' = error \cup {s}
    /\ Put(s, <<END>>)
    /\ UNCHANGED <<reader, card, session>>

-----------------------------------------------------------------------------
(* The script *)

\* Mutant: the flag of the session is not looked at.
ExecutePipeline_anytime(s) ==
    /\ reader[s] = "idle"
    /\ Prepare(s)
    /\ reader' = [reader EXCEPT ![s] = "reading"]
    /\ session' = [running |-> TRUE, completed |-> FALSE]
    /\ UNCHANGED <<events, error, card>>

\* The button is shown enabled as long as no run of the session is on.
ExecutePipeline(s) ==
    /\ reader[s] = "idle" /\ ~session.running
    /\ Prepare(s)
    /\ reader' = [reader EXCEPT ![s] = "reading"]
    /\ session' = [running |-> TRUE, completed |-> FALSE]
    /\ UNCHANGED <<events, error, card>>

\* build_pipeline_ports raises: no thread, and nothing to show.
ExecuteFails(s) ==
    /\ reader[s] = "idle" /\ ~session.running
    /\ reader' = [reader EXCEPT ![s] = "unwired"]
    /\ session' = [running |-> FALSE, completed |-> FALSE]
    /\ UNCHANGED <<events, error, card, storeVars>>

\* The finally block.
Leave(s, how) ==
    /\ reader' = [reader EXCEPT ![s] = how]
    /\ MarkSkippedNodes(s)
    /\ session' = [running |-> FALSE, completed |-> TRUE]

HandleEvent(s) ==
    LET e == Head(events[s]) IN
    /\ reader[s] = "reading" /\ events[s] # <<>> /\ e # END
    /\ UpdateNode(s, e)
    /\ events' = [events EXCEPT ![s] = Tail(@)]
    /\ UNCHANGED <<error, reader, session, storeVars>>

\* The sentinel: the reader re-raises what the worker left for it.
StreamDrained(s) ==
    /\ reader[s] = "reading" /\ events[s] # <<>> /\ Head(events[s]) = END
    /\ Leave(s, IF s \in error THEN "failed" ELSE "finished")
    /\ events' = [events EXCEPT ![s] = Tail(@)]
    /\ UNCHANGED <<error, storeVars>>

\* Mutant: a queue that stays empty counts as the end of the stream.
ReadTimesOut_end(s) ==
    /\ reader[s] = "reading" /\ events[s] = <<>>
    /\ Leave(s, "finished")
    /\ UNCHANGED <<events, error, storeVars>>

\* Mutant: the session is given back on the way out of a drained stream only.
ReadTimesOut_stuck(s) ==
    /\ reader[s] = "reading" /\ events[s] = <<>>
    /\ reader' = [reader EXCEPT ![s] = "timed_out"]
    /\ UNCHANGED <<events, error, card, session, storeVars>>

\* No event within stream_timeout_seconds.
ReadTimesOut(s) ==
    /\ reader[s] = "reading" /\ events[s] = <<>>
    /\ Leave(s, "timed_out")
    /\ UNCHANGED <<events, error, storeVars>>

\* Streamlit stops the script at its next call to rerun it.
ScriptRerun(s) ==
    /\ reader[s] = "reading"
    /\ Leave(s, "abandoned")
    /\ UNCHANGED <<events, error, storeVars>>

WorkerGoesOn(s) ==
    StreamEnters(s) \/ NodeEndSeen(s) \/ NodeStartSeen(s) \/ StreamEnds(s) \/ StreamRaises(s)

Reads(s) == HandleEvent(s) \/ StreamDrained(s) \/ ReadTimesOut(s)

StreamNext ==
    \E s \in Streams :
        \/ ExecutePipeline(s) \/ ExecuteFails(s)
        \/ WorkerGoesOn(s) \/ Reads(s) \/ ScriptRerun(s)

-----------------------------------------------------------------------------
(* Properties *)

\* Once a stream is drained without an error, the cards say what happened: the
\* nodes that ran are complete, the others were skipped, none looks running.
DrainedCardsAreTrue ==
    \A s \in Streams : reader[s] = "finished" =>
        \A n \in Nodes : card[s][n] = IF n \in saved[s] THEN "complete" ELSE "skipped"

\* The reader only times out on a worker that is still at it: one that ended or
\* raised has said so.
TimeoutsAreReal ==
    [][\A s \in Streams :
          reader[s] = "reading" /\ reader'[s] = "timed_out" => phase[s] \in Alive]_streamVars

\* Two pipelines of one session run side by side only after the script gave the
\* earlier one up; a run that was seen to its end is really over.
SecondRunNeedsGivingUp ==
    \A s, t \in Streams : s # t /\ phase[s] \in Alive /\ phase[t] \in Alive =>
        {reader[s], reader[t]} \cap {"timed_out", "abandoned"} # {}
=============================================================================
