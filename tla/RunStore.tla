------------------------------ MODULE RunStore ------------------------------
(***************************************************************************)
(* Pipeline runs as the outside sees them: the node that executes, and what *)
(* the checkpoint database keeps of it.  The entry points (webhook, stream) *)
(* drive runs, the live monitor only reads the database.                    *)
(*                                                                          *)
(* "classify" stands for the linear stretch from ingest to classify.        *)
(***************************************************************************)
EXTENDS Sequences, SequencesExt, FiniteSets

CONSTANT Runs  \* thread ids

VARIABLES
    phase,   \* run -> where its execution stands
    node,    \* run -> the node that executes, or executed last
    saved,   \* run -> nodes whose writes are checkpointed
    next     \* run -> the `next` of its latest checkpoint

storeVars == <<phase, node, saved, next>>

\* PIPELINE_NODE_SEQUENCE, shortened.
NodeSequence == <<"authorize", "classify", "escalate", "output">>
Nodes == ToSet(NodeSequence)

\* Phases in which the run still has something to do.
Alive == {"setup", "node", "between"}

\* The conditional edges: refusals and errors end a run before the output node.
Routes(n) ==
    CASE n = "authorize" -> {"classify", "end"}
      [] n = "classify"  -> {"escalate", "output", "end"}
      [] n = "escalate"  -> {"output"}
      [] n = "output"    -> {"end"}

StoreInit ==
    /\ phase = [r \in Runs |-> "none"]
    /\ node = [r \in Runs |-> "none"]
    /\ saved = [r \in Runs |-> {}]
    /\ next = [r \in Runs |-> {}]

\* The entry point sets the run up: ports, graph, checkpointer.
Prepare(r) ==
    /\ phase[r] = "none"
    /\ phase' = [phase EXCEPT ![r] = "setup"]
    /\ UNCHANGED <<node, saved, next>>

\* The input is checkpointed, with the first node to come.
EnterGraph(r) ==
    /\ phase[r] = "setup"
    /\ phase' = [phase EXCEPT ![r] = "node"]
    /\ node' = [node EXCEPT ![r] = "authorize"]
    /\ next' = [next EXCEPT ![r] = {"authorize"}]
    /\ UNCHANGED saved

\* A node's writes are checkpointed; what comes next is not known yet.
NodeEnds(r) ==
    /\ phase[r] = "node"
    /\ phase' = [phase EXCEPT ![r] = "between"]
    /\ saved' = [saved EXCEPT ![r] = @ \cup {node[r]}]
    /\ next' = [next EXCEPT ![r] = {}]
    /\ UNCHANGED node

NextNode(r) ==
    /\ phase[r] = "between"
    /\ \E n \in Routes(node[r]) \ {"end"} :
          /\ node' = [node EXCEPT ![r] = n]
          /\ next' = [next EXCEPT ![r] = {n}]
    /\ phase' = [phase EXCEPT ![r] = "node"]
    /\ UNCHANGED saved

ReachEnd(r) ==
    /\ phase[r] = "between" /\ "end" \in Routes(node[r])
    /\ phase' = [phase EXCEPT ![r] = "over"]
    /\ UNCHANGED <<node, saved, next>>

\* The set-up or a node raises; the checkpoint still announces that node.
Raises(r) ==
    /\ phase[r] \in {"setup", "node"}
    /\ phase' = [phase EXCEPT ![r] = "failed"]
    /\ UNCHANGED <<node, saved, next>>

\* The process that drives the runs of `rs` goes away.
Die(rs) ==
    /\ phase' = [r \in Runs |-> IF r \in rs /\ phase[r] \in Alive THEN "dead" ELSE phase[r]]
    /\ UNCHANGED <<node, saved, next>>
=============================================================================
