---------------------------- MODULE LiveMonitor ----------------------------
(***************************************************************************)
(* The observer of the dashboard: it polls the checkpoint database and      *)
(* shows the run that is active, or else the last one completed.  A listing *)
(* takes the threads first and then, one thread after the other, the latest *)
(* checkpoint and the history of it; each of these reads can fail, and the  *)
(* runs go on all the while.                                                *)
(***************************************************************************)
EXTENDS Naturals, RunStore

CONSTANT Unreadable  \* runs whose checkpoints a read can fail on

ASSUME LiveMonitorAssumption == Unreadable \subseteq Runs /\ "none" \notin Runs

VARIABLES
    threads,      \* runs with a checkpoint, the latest written first
    observed,     \* observed_run: the run and its completed and pending nodes
    isActive,     \* _observer_is_active: "unset", "yes" or "no"
    reading,      \* the poll at work: its listing, the threads left, what it found
    doubt         \* history: runs not read to the end by the polls behind observed

pollVars == <<observed, isActive, reading, doubt>>
monitorVars == <<storeVars, threads, pollVars>>

NoRun == [run |-> "none", completed |-> {}, pending |-> {}]
NoReading == [listing |-> "none", left |-> <<>>, snapshot |-> FALSE, pending |-> {},
              found |-> NoRun, misread |-> {}]

\* Mutant: a run with nothing pending is complete.
IsRunning_pending(info) == info.pending # {}

\* Between two nodes nothing is pending, so a run counts as running until its
\* output node is through, however it ended.
IsRunning(info) == info.pending # {} \/ "output" \notin info.completed

Index(n) == CHOOSE i \in DOMAIN NodeSequence : NodeSequence[i] = n

\* A checkpoint of r is written: its thread comes first.
Written(r) ==
    \/ \E p \in DOMAIN threads :
          /\ threads[p] = r
          /\ threads' = [i \in DOMAIN threads |->
                CASE i = 1 -> r
                  [] i # 1 /\ i <= p -> threads[i - 1]
                  [] i > p -> threads[i]]
    \/ r \notin ToSet(threads) /\ threads' = <<r>> \o threads

PollInit ==
    /\ threads = <<>>
    /\ observed = NoRun
    /\ isActive = "unset"
    /\ reading = NoReading
    /\ doubt = {}

\* The nodes of r in its history, which is read from the latest checkpoint on; a
\* read that fails leaves the nodes it came to.
HistoryUpTo(r, i) == {n \in saved[r] : Index(n) > i}

ListThreads(listing) ==
    reading' = [NoReading EXCEPT !.listing = listing, !.left = threads,
                                 !.misread = reading.misread]

\* get_active_runs reads every thread; get_completed_runs, with a limit of one,
\* stops at the first it finds.
ListingDone ==
    /\ reading.listing # "none" /\ ~reading.snapshot
    /\ reading.left = <<>> \/ (reading.listing = "completed" /\ reading.found # NoRun)

PollBegins ==
    /\ reading = NoReading
    /\ ListThreads("active")
    /\ UNCHANGED <<observed, isActive, doubt, threads, storeVars>>

\* graph.get_state; a thread that cannot be read is passed over.
ReadSnapshot ==
    LET r == Head(reading.left) IN
    /\ reading.listing # "none" /\ ~reading.snapshot /\ ~ListingDone
    /\ \/ reading' = [reading EXCEPT !.snapshot = TRUE, !.pending = next[r]]
       \/ /\ r \in Unreadable
          /\ reading' = [reading EXCEPT !.left = Tail(@), !.misread = @ \cup {r}]
    /\ UNCHANGED <<observed, isActive, doubt, threads, storeVars>>

ReadHistory ==
    LET r == Head(reading.left) IN
    /\ reading.snapshot
    /\ \E i \in 0..Len(NodeSequence), whole \in BOOLEAN :
          /\ IF whole THEN i = 0 ELSE r \in Unreadable
          /\ LET info == [run |-> r, completed |-> HistoryUpTo(r, i),
                         pending |-> reading.pending]
             IN  reading' = [listing |-> reading.listing, left |-> Tail(reading.left),
                             snapshot |-> FALSE, pending |-> {},
                             found |-> IF /\ reading.found = NoRun
                                          /\ IsRunning(info) <=> reading.listing = "active"
                                       THEN info ELSE reading.found,
                             misread |-> IF whole THEN reading.misread
                                         ELSE reading.misread \cup {r}]
    /\ UNCHANGED <<observed, isActive, doubt, threads, storeVars>>

PollFindsActive ==
    /\ ListingDone /\ reading.listing = "active" /\ reading.found # NoRun
    /\ observed' = reading.found
    /\ isActive' = "yes"
    /\ doubt' = reading.misread
    /\ reading' = NoReading
    /\ UNCHANGED <<threads, storeVars>>

\* Nothing active, and nothing was last time: the poll ends here.
PollLeavesIt ==
    /\ ListingDone /\ reading.listing = "active" /\ reading.found = NoRun /\ isActive = "no"
    /\ reading' = NoReading
    /\ UNCHANGED <<observed, isActive, doubt, threads, storeVars>>

PollFallsBack ==
    /\ ListingDone /\ reading.listing = "active" /\ reading.found = NoRun /\ isActive # "no"
    /\ ListThreads("completed")
    /\ UNCHANGED <<observed, isActive, doubt, threads, storeVars>>

PollShowsCompleted ==
    /\ ListingDone /\ reading.listing = "completed"
    /\ IF reading.found # NoRun
       THEN observed' = reading.found /\ doubt' = reading.misread
       ELSE doubt' = doubt \cup reading.misread /\ UNCHANGED observed
    /\ isActive' = "no"
    /\ reading' = NoReading
    /\ UNCHANGED <<threads, storeVars>>

\* The threads of the second listing cannot be read: the poll raises.
PollRaises ==
    /\ Unreadable # {}
    /\ ListingDone /\ reading.listing = "active" /\ reading.found = NoRun /\ isActive # "no"
    /\ reading' = NoReading
    /\ UNCHANGED <<observed, isActive, doubt, threads, storeVars>>

Poll ==
    \/ PollBegins \/ ReadSnapshot \/ ReadHistory \/ PollRaises
    \/ PollFindsActive \/ PollLeavesIt \/ PollFallsBack \/ PollShowsCompleted

\* The runs, whoever drives them.  One that ends, raises or loses its process writes
\* nothing more, so to the monitor it is a run that takes no further step.
RunsGoOn ==
    /\ \E r \in Runs :
          \/ (EnterGraph(r) \/ NodeEnds(r) \/ NextNode(r)) /\ Written(r)
          \/ Prepare(r) /\ UNCHANGED threads
    /\ UNCHANGED pollVars

MonitorInit == StoreInit /\ PollInit
MonitorNext == Poll \/ RunsGoOn
MonitorSpec == MonitorInit /\ [][MonitorNext]_monitorVars

\* The poller runs every two seconds.
MonitorFairSpec == MonitorSpec /\ WF_monitorVars(Poll)

-----------------------------------------------------------------------------
(* The diagram *)

NodeStatus(info, n) ==
    IF n \in info.completed THEN "complete"
    ELSE IF n \in info.pending THEN "running"
    ELSE IF \E m \in info.completed : Index(m) > Index(n) THEN "skipped"
    ELSE "pending"

-----------------------------------------------------------------------------
(* Properties *)

\* What stands under "Last completed pipeline run" has been through its output
\* node, although runs begin and end between any two reads of the listings; unless
\* a read of that very run failed.
LastCompletedIsComplete ==
    isActive = "no" /\ observed # NoRun /\ observed.run \notin doubt
        => "output" \in observed.completed

\* A node drawn as skipped is never executed, not even by a later step of the
\* run, unless its history was not read to the end; one drawn as complete was.
DiagramIsTrue ==
    observed # NoRun => \A n \in Nodes :
        /\ NodeStatus(observed, n) = "skipped" /\ observed.run \notin doubt =>
              n \notin saved[observed.run] /\ node[observed.run] # n
        /\ NodeStatus(observed, n) = "complete" => n \in saved[observed.run]

\* What the monitor says of runs is true when it says it.
MonitorIsTruthful == LastCompletedIsComplete /\ DiagramIsTrue

\* A run that was completed does not leave the monitor empty: with nothing
\* active, the poll falls back to the completed runs.
CompletedRunIsShown ==
    (\E r \in ToSet(threads) : "output" \in saved[r] /\ next[r] = {}) ~> observed # NoRun
=============================================================================
