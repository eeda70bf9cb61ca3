-------------------------- MODULE EntrypointsProofs --------------------------
(***************************************************************************)
(* Proofs about the ways into the pipeline (Entrypoints: the webhook server *)
(* and the dashboard's stream) and about the observer that watches the      *)
(* checkpoint database (LiveMonitor), for any number of runs.               *)
(***************************************************************************)
EXTENDS Entrypoints, LiveMonitor, SequenceTheorems, WellFoundedInduction, TLAPS

-----------------------------------------------------------------------------
(* The nodes and their order *)

LEMMA NodesAre == Nodes = {"authorize", "classify", "escalate", "output"}
<1>1. DOMAIN NodeSequence = {1, 2, 3, 4}
  BY DEF NodeSequence
<1>. QED BY <1>1 DEF Nodes, ToSet, NodeSequence

LEMMA IndexIs ==
    /\ Index("authorize") = 1 /\ Index("classify") = 2
    /\ Index("escalate") = 3 /\ Index("output") = 4
<1>1. DOMAIN NodeSequence = {1, 2, 3, 4}
  BY DEF NodeSequence
<1>. QED BY <1>1 DEF Index, NodeSequence

\* The place of a node in the sequence; a run without one comes before them.
Rank(n) == IF n = "none" THEN 0 ELSE Index(n)

LEMMA RankIs ==
    /\ Rank("none") = 0 /\ Rank("authorize") = 1 /\ Rank("classify") = 2
    /\ Rank("escalate") = 3 /\ Rank("output") = 4
BY IndexIs DEF Rank

\* The edges only lead forward, and nowhere from the output node.
LEMMA EdgesLeadForward ==
    ASSUME NEW n \in Nodes, NEW m \in Routes(n) \ {"end"}
    PROVE  m \in Nodes /\ Rank(n) < Rank(m) /\ n # "output"
BY NodesAre, RankIs DEF Routes

LEMMA RanksTellApart ==
    ASSUME NEW n \in Nodes, NEW m \in Nodes \cup {"none"}
    PROVE  /\ Rank(n) \in 1..4 /\ Rank(m) \in 0..4
           /\ Rank(n) = Rank(m) => n = m
BY NodesAre, RankIs

-----------------------------------------------------------------------------
(* The store: what a run has checkpointed lies behind it *)

StoreTypes ==
    /\ phase \in [Runs -> Alive \cup {"none", "over", "failed", "dead"}]
    /\ node \in [Runs -> Nodes \cup {"none"}]
    /\ saved \in [Runs -> SUBSET Nodes]
    /\ next \in [Runs -> SUBSET Nodes]

\* No node saved comes after the one a run is at, and a node that executes, or
\* raised, is not saved yet.
Behind(r) ==
    /\ \A m \in saved[r] : Rank(m) <= Rank(node[r])
    /\ phase[r] \in {"none", "setup"} => node[r] = "none"
    /\ phase[r] \in {"node", "failed"} => node[r] \notin saved[r]
    /\ phase[r] \in {"node", "between", "over"} => node[r] # "none"

StoreInv == StoreTypes /\ \A r \in Runs : Behind(r)

LEMMA StoreBegins == StoreInit => StoreInv
BY DEF StoreInit, StoreInv, StoreTypes, Behind

\* What one run does, or its process going away.
RunSteps(r) ==
    \/ Prepare(r) \/ EnterGraph(r) \/ NodeEnds(r) \/ NextNode(r)
    \/ ReachEnd(r) \/ Raises(r)

LEMMA StoreGoesOn ==
    ASSUME StoreInv, NEW r \in Runs, RunSteps(r)
    PROVE  StoreInv' /\ \A q \in Runs \ {r} : /\ phase'[q] = phase[q] /\ node'[q] = node[q]
                                              /\ saved'[q] = saved[q] /\ next'[q] = next[q]
<1>. USE DEF StoreInv, StoreTypes, Behind, Alive
<1>1. CASE Prepare(r) \/ Raises(r) \/ ReachEnd(r)
  <2>1. "none" \notin saved[r]
    BY NodesAre
  <2>. QED BY <1>1, <2>1 DEF Prepare, Raises, ReachEnd
<1>2. CASE EnterGraph(r)
  <2>1. saved[r] = {}
    BY <1>2, RanksTellApart, RankIs, NodesAre DEF EnterGraph
  <2>. QED BY <1>2, <2>1, NodesAre DEF EnterGraph
<1>3. CASE NodeEnds(r)
  <2>1. node[r] \in Nodes
    BY <1>3 DEF NodeEnds
  <2>. QED BY <1>3, <2>1, RanksTellApart DEF NodeEnds
<1>4. CASE NextNode(r)
  <2>1. PICK m \in Routes(node[r]) \ {"end"} :
          node' = [node EXCEPT ![r] = m] /\ next' = [next EXCEPT ![r] = {m}]
    BY <1>4 DEF NextNode
  <2>2. node[r] \in Nodes
    BY <1>4 DEF NextNode
  <2>3. m \in Nodes /\ Rank(node[r]) < Rank(m) /\ m # "none"
    BY <2>1, <2>2, EdgesLeadForward, NodesAre
  <2>4. \A k \in saved[r] : Rank(k) < Rank(m)
    BY <2>2, <2>3, RanksTellApart
  <2>5. m \notin saved[r]
    BY <2>3, <2>4, RanksTellApart
  <2>6. \A k \in saved[r] : Rank(k) <= Rank(m)
    BY <2>3, <2>4, RanksTellApart
  <2>. QED BY <1>4, <2>1, <2>3, <2>5, <2>6 DEF NextNode
<1>. QED BY <1>1, <1>2, <1>3, <1>4 DEF RunSteps

\* A restart marks runs as dead, a task that cannot even begin fails; nothing
\* else of the store moves.
LEMMA StoreSurvives ==
    ASSUME StoreInv, UNCHANGED <<node, saved, next>>,
           NEW p \in [Runs -> Alive \cup {"none", "over", "failed", "dead"}], phase' = p,
           \A r \in Runs : \/ p[r] = phase[r] \/ p[r] = "dead"
                           \/ phase[r] = "none" /\ p[r] = "failed"
    PROVE  StoreInv'
<1>1. \A r \in Runs : "none" \notin saved[r]
  BY NodesAre DEF StoreInv, StoreTypes
<1>. QED BY <1>1 DEF StoreInv, StoreTypes, Behind, Alive

-----------------------------------------------------------------------------
(* The queue of a stream, as values: q is the queue, c the cards, and p, n and *)
(* sv are the run's phase, node and saved nodes.                              *)

NodeEvents == [type : {"node_start", "node_end"}, node : Nodes]

\* The run is in node m, or raised in it.
StuckIn(m, p, n) == n = m /\ p \in {"node", "failed"}

Tells(q, m) == \E i \in 1..Len(q) : q[i] = Event("node_end", m)

\* Handled to its end, the queue leaves the cards as the run is: the sentinel
\* comes last and only once the run is over; a node saved is on its card, or its
\* end is still queued; one that looks running, or will, is still at work, or its
\* end is queued behind.
Faithful(q, c, p, n, sv) ==
    /\ q \in Seq(NodeEvents \cup {END})
    /\ c \in [Nodes -> {"pending", "running", "complete"}]
    /\ p \in Alive \cup {"over", "failed"}
    /\ \A i \in 1..Len(q) : q[i] = END => i = Len(q) /\ p \notin Alive
    /\ p \notin Alive => Len(q) > 0 /\ q[Len(q)] = END
    /\ \A m \in Nodes :
          /\ c[m] = "complete" \/ Tells(q, m) => m \in sv
          /\ m \in sv => c[m] = "complete" \/ Tells(q, m)
          /\ c[m] = "running" => Tells(q, m) \/ StuckIn(m, p, n)
          /\ \A i \in 1..Len(q) : q[i] = Event("node_start", m) =>
                StuckIn(m, p, n) \/ \E j \in (i + 1)..Len(q) : q[j] = Event("node_end", m)

LEMMA EventsDiffer ==
    /\ \A a, b \in {"node_start", "node_end"}, m, k \in Nodes :
          /\ Event(a, m) = Event(b, k) <=> a = b /\ m = k
          /\ Event(a, m) # END
          /\ Event(a, m) \in NodeEvents
    /\ \A e \in NodeEvents :
          /\ e.node \in Nodes /\ e.type \in {"node_start", "node_end"}
          /\ e = Event(e.type, e.node) /\ e # END
BY DEF Event, END, NodeEvents

LEMMA PutLast ==
    ASSUME NEW S, NEW q \in Seq(S), NEW e \in S
    PROVE  /\ q \o <<e>> \in Seq(S) /\ Len(q \o <<e>>) = Len(q) + 1
           /\ \A i \in 1..Len(q) : (q \o <<e>>)[i] = q[i]
           /\ (q \o <<e>>)[Len(q) + 1] = e
OBVIOUS

LEMMA TakeFirst ==
    ASSUME NEW S, NEW q \in Seq(S), q # <<>>
    PROVE  /\ Tail(q) \in Seq(S) /\ Len(Tail(q)) = Len(q) - 1 /\ Len(q) \in Nat \ {0}
           /\ \A i \in 1..(Len(q) - 1) : Tail(q)[i] = q[i + 1]
           /\ Head(q) = q[1] /\ Head(q) \in S
OBVIOUS

LEMMA FaithfulFromTheStart ==
    Faithful(<<>>, CreateFlowPlaceholders, "setup", "none", {})
BY DEF Faithful, CreateFlowPlaceholders, Alive, Tells

LEMMA StartKeepsFaith ==
    ASSUME NEW q, NEW c, NEW p \in {"setup", "between"}, NEW n, NEW sv,
           NEW m \in Nodes, m \notin sv, Faithful(q, c, p, n, sv)
    PROVE  Faithful(q \o <<Event("node_start", m)>>, c, "node", m, sv)
<1>. DEFINE e == Event("node_start", m)
            S == NodeEvents \cup {END}
            r == q \o <<e>>
<1>1. q \in Seq(S) /\ e \in S /\ e # END /\ \A k \in Nodes : e # Event("node_end", k)
  BY EventsDiffer DEF Faithful
<1>2. /\ r \in Seq(S) /\ Len(r) = Len(q) + 1 /\ Len(q) \in Nat /\ r[Len(q) + 1] = e
      /\ \A i \in 1..Len(q) : r[i] = q[i]
  BY <1>1, PutLast
<1>. HIDE DEF r, e
<1>3. \A k \in Nodes : Tells(r, k) <=> Tells(q, k)
  BY <1>1, <1>2 DEF Tells
<1>4. \A k \in Nodes : ~StuckIn(k, p, n)
  BY DEF StuckIn
<1>5. \A i \in 1..Len(q) : q[i] # END
  BY DEF Faithful, Alive
<1>6. ASSUME NEW k \in Nodes, NEW i \in 1..Len(r), r[i] = Event("node_start", k)
      PROVE  StuckIn(k, "node", m) \/ \E j \in (i + 1)..Len(r) : r[j] = Event("node_end", k)
  <2>1. CASE i = Len(q) + 1
    BY <1>2, <1>6, <2>1, EventsDiffer DEF e, StuckIn
  <2>2. CASE i \in 1..Len(q)
    <3>1. PICK j \in (i + 1)..Len(q) : q[j] = Event("node_end", k)
      BY <1>2, <1>4, <1>6, <2>2 DEF Faithful
    <3>. QED BY <1>2, <2>2, <3>1
  <2>. QED BY <1>2, <2>1, <2>2
<1>7. \A i \in 1..Len(r) : r[i] # END
  BY <1>1, <1>2, <1>5
<1>8. Faithful(r, c, "node", m, sv)
  BY <1>2, <1>3, <1>4, <1>6, <1>7 DEF Faithful, Alive
<1>. QED BY <1>8 DEF r, e

LEMMA EndKeepsFaith ==
    ASSUME NEW q, NEW c, NEW m \in Nodes, NEW sv, Faithful(q, c, "node", m, sv)
    PROVE  Faithful(q \o <<Event("node_end", m)>>, c, "between", m, sv \cup {m})
<1>. DEFINE e == Event("node_end", m)
            S == NodeEvents \cup {END}
            r == q \o <<e>>
<1>1. q \in Seq(S) /\ e \in S /\ e # END /\ \A k \in Nodes : e # Event("node_start", k)
  BY EventsDiffer DEF Faithful
<1>2. /\ r \in Seq(S) /\ Len(r) = Len(q) + 1 /\ Len(q) \in Nat /\ r[Len(q) + 1] = e
      /\ \A i \in 1..Len(q) : r[i] = q[i]
  BY <1>1, PutLast
<1>0. \A k \in Nodes : e = Event("node_end", k) <=> k = m
  BY EventsDiffer
<1>. HIDE DEF r, e
<1>3. \A k \in Nodes : Tells(r, k) <=> Tells(q, k) \/ k = m
  BY <1>0, <1>2 DEF Tells
<1>5. \A i \in 1..Len(q) : q[i] # END
  BY DEF Faithful, Alive
<1>6. ASSUME NEW k \in Nodes, NEW i \in 1..Len(r), r[i] = Event("node_start", k)
      PROVE  \E j \in (i + 1)..Len(r) : r[j] = Event("node_end", k)
  <2>1. i \in 1..Len(q) /\ q[i] = Event("node_start", k)
    BY <1>1, <1>2, <1>6
  <2>2. CASE k = m
    BY <1>0, <1>2, <2>1, <2>2
  <2>3. CASE k # m
    <3>1. PICK j \in (i + 1)..Len(q) : q[j] = Event("node_end", k)
      BY <2>1, <2>3 DEF Faithful, StuckIn
    <3>. QED BY <1>2, <2>1, <3>1
  <2>. QED BY <2>2, <2>3
<1>7. \A i \in 1..Len(r) : r[i] # END
  BY <1>1, <1>2, <1>5
<1>8. Faithful(r, c, "between", m, sv \cup {m})
  BY <1>2, <1>3, <1>6, <1>7 DEF Faithful, Alive, StuckIn
<1>. QED BY <1>8 DEF r, e

LEMMA SentinelKeepsFaith ==
    ASSUME NEW q, NEW c, NEW n, NEW sv, NEW p \in Alive, NEW t \in {"over", "failed"},
           p = "node" => t = "failed", Faithful(q, c, p, n, sv)
    PROVE  Faithful(q \o <<END>>, c, t, n, sv)
<1>. DEFINE S == NodeEvents \cup {END}
            r == q \o <<END>>
<1>1. /\ q \in Seq(S) /\ END \in S
      /\ \A k \in Nodes : END # Event("node_start", k) /\ END # Event("node_end", k)
  BY EventsDiffer DEF Faithful
<1>2. /\ r \in Seq(S) /\ Len(r) = Len(q) + 1 /\ Len(q) \in Nat /\ r[Len(q) + 1] = END
      /\ \A i \in 1..Len(q) : r[i] = q[i]
  BY <1>1, PutLast
<1>. HIDE DEF r
<1>3. \A k \in Nodes : Tells(r, k) <=> Tells(q, k)
  BY <1>1, <1>2 DEF Tells
<1>4. \A k \in Nodes : StuckIn(k, p, n) => StuckIn(k, t, n)
  BY DEF StuckIn, Alive
<1>5. \A i \in 1..Len(q) : q[i] # END
  BY DEF Faithful
<1>6. ASSUME NEW k \in Nodes, NEW i \in 1..Len(r), r[i] = Event("node_start", k)
      PROVE  StuckIn(k, t, n) \/ \E j \in (i + 1)..Len(r) : r[j] = Event("node_end", k)
  <2>1. i \in 1..Len(q) /\ q[i] = Event("node_start", k)
    BY <1>1, <1>2, <1>6
  <2>2. CASE StuckIn(k, p, n)
    BY <1>4, <2>2
  <2>3. CASE ~StuckIn(k, p, n)
    <3>1. PICK j \in (i + 1)..Len(q) : q[j] = Event("node_end", k)
      BY <2>1, <2>3 DEF Faithful
    <3>. QED BY <1>2, <2>1, <3>1
  <2>. QED BY <2>2, <2>3
<1>7. \A i \in 1..Len(r) : r[i] = END => i = Len(r)
  BY <1>2, <1>5
<1>8. Faithful(r, c, t, n, sv)
  BY <1>2, <1>3, <1>4, <1>6, <1>7 DEF Faithful, Alive
<1>. QED BY <1>8 DEF r

LEMMA HandlingKeepsFaith ==
    ASSUME NEW q, NEW c, NEW p, NEW n, NEW sv, Faithful(q, c, p, n, sv),
           q # <<>>, Head(q) # END, p \in {"node", "failed"} => n \notin sv
    PROVE  /\ Head(q).node \in Nodes
           /\ Faithful(Tail(q),
                 [c EXCEPT ![Head(q).node] =
                     IF Head(q).type = "node_start" THEN "running" ELSE "complete"], p, n, sv)
<1>. DEFINE e == Head(q)
            S == NodeEvents \cup {END}
            r == Tail(q)
            d == [c EXCEPT ![e.node] =
                     IF e.type = "node_start" THEN "running" ELSE "complete"]
<1>1. /\ r \in Seq(S) /\ Len(r) = Len(q) - 1 /\ Len(q) \in Nat \ {0}
      /\ \A i \in 1..Len(r) : r[i] = q[i + 1]
      /\ e = q[1] /\ e \in NodeEvents
  BY TakeFirst DEF Faithful
<1>2. /\ e.node \in Nodes /\ e.type \in {"node_start", "node_end"}
      /\ e = Event(e.type, e.node)
  BY <1>1, EventsDiffer
<1>3. /\ d \in [Nodes -> {"pending", "running", "complete"}]
      /\ d[e.node] = IF e.type = "node_start" THEN "running" ELSE "complete"
      /\ \A k \in Nodes \ {e.node} : d[k] = c[k]
  BY <1>2 DEF Faithful
<1>. HIDE DEF r, e, d
<1>4. \A k \in Nodes : Tells(q, k) <=> Tells(r, k) \/ e = Event("node_end", k)
  <2>. TAKE k \in Nodes
  <2>1. \A i \in 1..Len(r) : i + 1 \in 1..Len(q)
    BY <1>1
  <2>2. \A i \in 1..Len(q) : i = 1 \/ (i - 1 \in 1..Len(r) /\ r[i - 1] = q[i])
    BY <1>1
  <2>3. 1 \in 1..Len(q)
    BY <1>1
  <2>. QED BY <1>1, <2>1, <2>2, <2>3 DEF Tells
<1>5. \A i \in 1..Len(r) : r[i] = END => i = Len(r) /\ p \notin Alive
  BY <1>1 DEF Faithful
<1>6. p \notin Alive => Len(r) > 0 /\ r[Len(r)] = END
  <2>. HAVE p \notin Alive
  <2>1. q[Len(q)] = END
    BY DEF Faithful
  <2>2. Len(q) # 1
    BY <1>1, <2>1, EventsDiffer
  <2>. QED BY <1>1, <2>1, <2>2
<1>7. ASSUME NEW k \in Nodes, NEW i \in 1..Len(r), r[i] = Event("node_start", k)
      PROVE  StuckIn(k, p, n) \/ \E j \in (i + 1)..Len(r) : r[j] = Event("node_end", k)
  <2>1. i + 1 \in 1..Len(q) /\ q[i + 1] = Event("node_start", k)
    BY <1>1, <1>7
  <2>2. CASE ~StuckIn(k, p, n)
    <3>1. PICK j \in (i + 2)..Len(q) : q[j] = Event("node_end", k)
      BY <2>1, <2>2 DEF Faithful
    <3>2. j - 1 \in (i + 1)..Len(r) /\ r[j - 1] = q[j]
      BY <1>1, <3>1
    <3>. QED BY <3>1, <3>2
  <2>. QED BY <2>2
<1>8. ASSUME NEW k \in Nodes
      PROVE  /\ d[k] = "complete" \/ Tells(r, k) => k \in sv
             /\ k \in sv => d[k] = "complete" \/ Tells(r, k)
             /\ d[k] = "running" => Tells(r, k) \/ StuckIn(k, p, n)
  <2>1. CASE k # e.node
    <3>1. e # Event("node_end", k)
      BY <1>2, <2>1, EventsDiffer
    <3>. QED BY <1>3, <1>4, <2>1, <3>1 DEF Faithful
  <2>2. CASE k = e.node /\ e.type = "node_end"
    <3>1. e = Event("node_end", k) /\ d[k] = "complete"
      BY <1>2, <1>3, <2>2
    <3>2. k \in sv
      BY <1>4, <3>1 DEF Faithful
    <3>. QED BY <3>1, <3>2
  <2>3. CASE k = e.node /\ e.type = "node_start"
    <3>1. q[1] = Event("node_start", k) /\ d[k] = "running" /\ 1 \in 1..Len(q)
      BY <1>1, <1>2, <1>3, <2>3
    <3>2. e # Event("node_end", k)
      BY <1>2, <2>3, EventsDiffer
    <3>3. StuckIn(k, p, n) \/ \E j \in 2..Len(q) : q[j] = Event("node_end", k)
      BY <3>1 DEF Faithful
    <3>4. StuckIn(k, p, n) => k \notin sv
      BY DEF StuckIn
    <3>5. StuckIn(k, p, n) \/ Tells(r, k)
      <4>1. ASSUME NEW j \in 2..Len(q), q[j] = Event("node_end", k) PROVE Tells(r, k)
        <5>1. j - 1 \in 1..Len(r) /\ r[j - 1] = q[j]
          BY <1>1
        <5>. QED BY <4>1, <5>1 DEF Tells
      <4>. QED BY <3>3, <4>1
    <3>6. Tells(r, k) => k \in sv
      BY <1>4 DEF Faithful
    <3>. QED BY <3>1, <3>4, <3>5, <3>6
  <2>. QED BY <1>2, <2>1, <2>2, <2>3
<1>9. Faithful(r, d, p, n, sv)
  BY <1>1, <1>3, <1>5, <1>6, <1>7, <1>8 DEF Faithful
<1>. QED BY <1>2, <1>9 DEF r, d, e

LEMMA DrainedIsTrue ==
    ASSUME NEW q, NEW c, NEW p, NEW n, NEW sv, Faithful(q, c, p, n, sv),
           q # <<>>, Head(q) = END
    PROVE  /\ p \in {"over", "failed"}
           /\ p = "over" => \A m \in Nodes :
                 c[m] = IF m \in sv THEN "complete" ELSE "pending"
<1>1. Len(q) \in Nat \ {0} /\ q[1] = END /\ 1 \in 1..Len(q)
  BY TakeFirst DEF Faithful
<1>2. Len(q) = 1 /\ p \notin Alive
  BY <1>1 DEF Faithful
<1>3. \A m \in Nodes : ~Tells(q, m)
  BY <1>1, <1>2, EventsDiffer DEF Tells
<1>4. p \in {"over", "failed"}
  BY <1>2 DEF Faithful
<1>5. ASSUME p = "over", NEW m \in Nodes
      PROVE  c[m] = IF m \in sv THEN "complete" ELSE "pending"
  <2>1. ~StuckIn(m, p, n)
    BY <1>5 DEF StuckIn
  <2>2. c[m] \in {"pending", "running", "complete"}
    BY DEF Faithful
  <2>3. c[m] = "complete" <=> m \in sv
    BY <1>3 DEF Faithful
  <2>4. c[m] # "running"
    BY <1>3, <2>1 DEF Faithful
  <2>. QED BY <2>2, <2>3, <2>4
<1>. QED BY <1>4, <1>5
-----------------------------------------------------------------------------
(* Entrypoints *)

\* A file belongs to a POST that was taken up.
HookInv ==
    /\ files \subseteq Hooks
    /\ DOMAIN answer = Hooks
    /\ LeftFilesHaveAReason

StreamTypes ==
    /\ DOMAIN events = Streams
    /\ error \subseteq Streams
    /\ reader \in [Streams -> {"idle", "unwired", "reading", "finished", "failed",
                               "timed_out", "abandoned", "gone"}]
    /\ DOMAIN card = Streams
    /\ session \in [running : BOOLEAN, completed : BOOLEAN]

\* What the script of s may rely on, by how far it is: before the button there
\* is nothing; while it reads, the queue is faithful and a failure is in the
\* error holder; what it saw to its end is over, and shown as it is.
ReaderInv(s) ==
    /\ reader[s] \in {"idle", "unwired"} =>
          /\ phase[s] = "none" /\ saved[s] = {}
          /\ events[s] = <<>> /\ card[s] = CreateFlowPlaceholders
    /\ reader[s] = "reading" =>
          /\ Faithful(events[s], card[s], phase[s], node[s], saved[s])
          /\ phase[s] = "failed" => s \in error
    /\ reader[s] = "finished" =>
          /\ phase[s] = "over"
          /\ \A m \in Nodes : card[s][m] = IF m \in saved[s] THEN "complete" ELSE "skipped"
    /\ phase[s] \in Alive => reader[s] \in {"reading", "timed_out", "abandoned"}

\* The flag of the session stands for the one script that reads.
SessionInv ==
    /\ session.running <=> \E s \in Streams : reader[s] = "reading"
    /\ \A s, t \in Streams : reader[s] = "reading" /\ reader[t] = "reading" => s = t

StreamInv == StreamTypes /\ SessionInv /\ \A s \in Streams : ReaderInv(s)

LEMMA WhoRuns ==
    /\ \A h \in Hooks : h \in Runs /\ h \notin Streams
    /\ \A s \in Streams : s \in Runs /\ s \notin Hooks
BY RunsAreHooksOrStreams

\* A step of the server, as the store sees it.
LEMMA ServerOnTheStore ==
    ASSUME HookNext
    PROVE  \/ UNCHANGED storeVars
           \/ \E h \in Hooks : RunSteps(h)
           \/ /\ \/ \E h \in Hooks : phase[h] = "none" /\ phase' = [phase EXCEPT ![h] = "failed"]
                 \/ phase' = [r \in Runs |->
                       IF r \in Hooks /\ (phase[r] \in Alive \/ (answer[r] = "accepted" /\ phase[r] = "none"))
                       THEN "dead" ELSE phase[r]]
              /\ UNCHANGED <<node, saved, next>>
<1>1. CASE ServerRestarts
  BY <1>1 DEF ServerRestarts
<1>2. ASSUME NEW h \in Hooks, ReceiveTrivyWebhook(h) PROVE UNCHANGED storeVars
  BY <1>2 DEF ReceiveTrivyWebhook
<1>3. ASSUME NEW h \in Hooks, HookWork(h), ~WritePayloadFails(h) PROVE RunSteps(h)
  BY <1>3 DEF HookWork, WritePayload, HookGoesOn, HookRaises, HookEnds, RunSteps
<1>4. ASSUME NEW h \in Hooks, WritePayloadFails(h)
      PROVE  /\ phase[h] = "none" /\ phase' = [phase EXCEPT ![h] = "failed"]
             /\ UNCHANGED <<node, saved, next>>
  BY <1>4 DEF WritePayloadFails
<1>. QED BY <1>1, <1>2, <1>3, <1>4 DEF HookNext

\* A step of the dashboard, as the store sees it.
LEMMA StreamOnTheStore ==
    ASSUME StreamNext
    PROVE  UNCHANGED storeVars \/ \E s \in Streams : RunSteps(s)
<1>1. PICK s \in Streams :
        \/ ExecutePipeline(s) \/ ExecuteFails(s) \/ WorkerGoesOn(s) \/ Reads(s) \/ ScriptRerun(s)
  BY DEF StreamNext
<1>2. CASE ExecutePipeline(s) \/ WorkerGoesOn(s)
  BY <1>2 DEF ExecutePipeline, WorkerGoesOn, StreamEnters, NodeEndSeen, NodeStartSeen,
     StreamEnds, StreamRaises, RunSteps
<1>3. CASE ExecuteFails(s) \/ Reads(s) \/ ScriptRerun(s)
  BY <1>3 DEF ExecuteFails, Reads, HandleEvent, StreamDrained, ReadTimesOut, ScriptRerun
<1>. QED BY <1>1, <1>2, <1>3

LEMMA StoreKept == StoreInv /\ [Next]_vars => StoreInv'
<1>. SUFFICES ASSUME StoreInv, [Next]_vars PROVE StoreInv'
  OBVIOUS
<1>1. CASE UNCHANGED storeVars
  BY <1>1 DEF storeVars, StoreInv, StoreTypes, Behind
<1>2. ASSUME NEW r \in Runs, RunSteps(r) PROVE StoreInv'
  BY <1>2, StoreGoesOn
<1>3. ASSUME NEW rs, Die(rs) PROVE StoreInv'
  <2>. DEFINE p == [r \in Runs |-> IF r \in rs /\ phase[r] \in Alive THEN "dead" ELSE phase[r]]
  <2>1. /\ p \in [Runs -> Alive \cup {"none", "over", "failed", "dead"}] /\ phase' = p
        /\ \A r \in Runs : p[r] = phase[r] \/ p[r] = "dead"
        /\ UNCHANGED <<node, saved, next>>
    BY <1>3 DEF Die, StoreInv, StoreTypes
  <2>. HIDE DEF p
  <2>. QED BY <2>1, StoreSurvives
<1>4. CASE HookNext
  <2>1. ASSUME NEW h \in Hooks, phase[h] = "none", phase' = [phase EXCEPT ![h] = "failed"],
               UNCHANGED <<node, saved, next>>
        PROVE  StoreInv'
    <3>. DEFINE p == [phase EXCEPT ![h] = "failed"]
    <3>1. /\ p \in [Runs -> Alive \cup {"none", "over", "failed", "dead"}]
          /\ \A r \in Runs : p[r] = phase[r] \/ (phase[r] = "none" /\ p[r] = "failed")
      BY <2>1 DEF StoreInv, StoreTypes
    <3>2. phase' = p
      BY <2>1
    <3>. HIDE DEF p
    <3>. QED BY <2>1, <3>1, <3>2, StoreSurvives
  <2>2. ASSUME UNCHANGED <<node, saved, next>>,
               phase' = [r \in Runs |->
                   IF r \in Hooks /\ (phase[r] \in Alive \/ (answer[r] = "accepted" /\ phase[r] = "none"))
                   THEN "dead" ELSE phase[r]]
        PROVE  StoreInv'
    <3>. DEFINE p == [r \in Runs |->
                   IF r \in Hooks /\ (phase[r] \in Alive \/ (answer[r] = "accepted" /\ phase[r] = "none"))
                   THEN "dead" ELSE phase[r]]
    <3>1. /\ p \in [Runs -> Alive \cup {"none", "over", "failed", "dead"}]
          /\ \A r \in Runs : p[r] = phase[r] \/ p[r] = "dead"
      BY DEF StoreInv, StoreTypes
    <3>2. phase' = p
      BY <2>2
    <3>. HIDE DEF p
    <3>. QED BY <2>2, <3>1, <3>2, StoreSurvives
  <2>. QED BY <1>1, <1>2, <1>4, <2>1, <2>2, ServerOnTheStore, WhoRuns
<1>5. CASE StreamNext
  BY <1>1, <1>2, <1>5, StreamOnTheStore, WhoRuns
<1>. QED BY <1>1, <1>3, <1>4, <1>5 DEF Next, DashboardRestarts, vars, storeVars

\* Each side leaves the runs of the other alone.
LEMMA ServerLeavesStreams ==
    ASSUME StoreInv, HookNext, NEW s \in Streams
    PROVE  phase'[s] = phase[s] /\ node'[s] = node[s] /\ saved'[s] = saved[s]
<1>1. ASSUME NEW h \in Hooks, RunSteps(h)
      PROVE  phase'[s] = phase[s] /\ node'[s] = node[s] /\ saved'[s] = saved[s]
  BY <1>1, StoreGoesOn, WhoRuns
<1>2. DOMAIN phase = Runs
  BY DEF StoreInv, StoreTypes
<1>. QED BY <1>1, <1>2, ServerOnTheStore, WhoRuns DEF storeVars

LEMMA DashboardLeavesHooks ==
    ASSUME StoreInv, StreamNext \/ DashboardRestarts, NEW h \in Hooks
    PROVE  phase'[h] = phase[h]
<1>1. ASSUME NEW s \in Streams, RunSteps(s) PROVE phase'[h] = phase[h]
  BY <1>1, StoreGoesOn, WhoRuns
<1>2. CASE DashboardRestarts
  BY <1>2, WhoRuns DEF DashboardRestarts, Die
<1>. QED BY <1>1, <1>2, StreamOnTheStore, WhoRuns DEF storeVars

-----------------------------------------------------------------------------
(* The webhook server *)

LEMMA HookKept == StoreInv /\ HookInv /\ [Next]_vars => HookInv'
<1>. SUFFICES ASSUME StoreInv, HookInv, [Next]_vars PROVE HookInv'
  OBVIOUS
<1>. USE DEF HookInv, LeftFilesHaveAReason
<1>0. DOMAIN phase = Runs
  BY DEF StoreInv, StoreTypes
<1>1. CASE UNCHANGED vars
  BY <1>1 DEF vars, storeVars, hookVars
<1>2. CASE UNCHANGED hookVars /\ (StreamNext \/ DashboardRestarts)
  BY <1>2, DashboardLeavesHooks DEF hookVars
<1>3. ASSUME NEW h \in Hooks, ReceiveTrivyWebhook(h) PROVE HookInv'
  BY <1>3 DEF ReceiveTrivyWebhook, storeVars
<1>4. ASSUME NEW h \in Hooks, WritePayload(h) PROVE HookInv'
  BY <1>0, <1>4, WhoRuns DEF WritePayload, Prepare, Alive
<1>5. ASSUME NEW h \in Hooks, WritePayloadFails(h) PROVE HookInv'
  BY <1>5 DEF WritePayloadFails
<1>6. ASSUME NEW h \in Hooks, HookGoesOn(h) PROVE HookInv'
  <2>1. h \in Runs
    BY WhoRuns
  <2>2. \/ phase' = [phase EXCEPT ![h] = "node"]
        \/ phase' = [phase EXCEPT ![h] = "between"]
    BY <1>6 DEF HookGoesOn, EnterGraph, NodeEnds, NextNode
  <2>3. phase'[h] \in Alive /\ \A g \in Hooks \ {h} : phase'[g] = phase[g]
    <3>1. h \in DOMAIN phase /\ Hooks \subseteq DOMAIN phase
      BY <1>0, WhoRuns
    <3>. QED BY <2>2, <3>1 DEF Alive
  <2>. QED BY <1>6, <2>3 DEF HookGoesOn, hookVars
<1>7. ASSUME NEW h \in Hooks, HookRaises(h) \/ HookEnds(h) PROVE HookInv'
  BY <1>0, <1>7, WhoRuns DEF HookRaises, HookEnds, Raises, ReachEnd
<1>8. CASE ServerRestarts
  BY <1>8, WhoRuns DEF ServerRestarts, hookVars
<1>. QED
  BY <1>1, <1>2, <1>3, <1>4, <1>5, <1>6, <1>7, <1>8
  DEF Next, HookNext, HookWork, DashboardRestarts

\* No temporary report leaks (run_pipeline of webhook_adapter.py removes it
\* in its finally block): for any number of POSTs, with restarts in between and
\* the dashboard's runs beside them, a file on disk belongs to a task at work,
\* or a restart or a failing disk explains it.
THEOREM NoFileLeaks == Spec => []LeftFilesHaveAReason
<1>1. Init => StoreInv /\ HookInv
  BY StoreBegins DEF Init, HookInit, HookInv, LeftFilesHaveAReason
<1>2. HookInv => LeftFilesHaveAReason
  BY DEF HookInv
<1>. QED BY <1>1, <1>2, StoreKept, HookKept, PTL DEF Spec

-----------------------------------------------------------------------------
(* The dashboard's stream *)

LEMMA StreamsBegin == Init => StreamInv
<1>. SUFFICES ASSUME Init PROVE StreamInv
  OBVIOUS
<1>1. \A s \in Streams : ReaderInv(s)
  BY WhoRuns DEF Init, StoreInit, StreamInit, ReaderInv, Alive
<1>. QED BY <1>1 DEF Init, StreamInit, StreamInv, StreamTypes, SessionInv

\* A worker puts what it did into the queue: whatever the reader makes of the
\* rest, it stays faithful.
LEMMA WorkerKeepsReader ==
    ASSUME StoreInv, StreamInv, NEW s \in Streams, WorkerGoesOn(s)
    PROVE  ReaderInv(s)'
<1>0. /\ s \in Runs /\ s \in DOMAIN events /\ s \in DOMAIN phase /\ s \in DOMAIN node
      /\ s \in DOMAIN saved /\ ReaderInv(s) /\ Behind(s) /\ saved[s] \subseteq Nodes
      /\ node[s] \in Nodes \cup {"none"}
  BY WhoRuns DEF StoreInv, StoreTypes, StreamInv, StreamTypes
<1>1. reader' = reader /\ card' = card /\ error \subseteq error' /\ error' \subseteq error \cup {s}
  BY DEF WorkerGoesOn, StreamEnters, NodeEndSeen, NodeStartSeen, StreamEnds, StreamRaises
<1>2. phase[s] \in Alive /\ reader[s] \in {"reading", "timed_out", "abandoned"}
  BY <1>0 DEF WorkerGoesOn, StreamEnters, NodeEndSeen, NodeStartSeen, StreamEnds,
     StreamRaises, EnterGraph, NodeEnds, NextNode, ReachEnd, Raises, Alive, ReaderInv
<1>. SUFFICES ASSUME reader[s] = "reading"
     PROVE  /\ Faithful(events'[s], card'[s], phase'[s], node'[s], saved'[s])
            /\ phase'[s] = "failed" => s \in error'
  BY <1>1, <1>2 DEF ReaderInv
<1>3. Faithful(events[s], card[s], phase[s], node[s], saved[s])
  BY <1>0 DEF ReaderInv
<1>4. CASE StreamEnters(s)
  <2>1. /\ events'[s] = events[s] \o <<Event("node_start", "authorize")>>
        /\ phase[s] = "setup" /\ phase'[s] = "node" /\ node'[s] = "authorize"
        /\ saved'[s] = saved[s] /\ node[s] = "none"
    BY <1>0, <1>4 DEF StreamEnters, EnterGraph, Put, Behind
  <2>2. saved[s] = {}
    BY <1>0, <2>1, RanksTellApart, RankIs DEF Behind
  <2>3. Faithful(events[s], card[s], "setup", "none", {})
    BY <1>3, <2>1, <2>2
  <2>4. Faithful(events[s] \o <<Event("node_start", "authorize")>>,
                 card[s], "node", "authorize", {})
    BY <2>3, StartKeepsFaith, NodesAre
  <2>. QED BY <1>1, <2>1, <2>2, <2>4
<1>5. CASE NodeEndSeen(s)
  <2>1. /\ events'[s] = events[s] \o <<Event("node_end", node[s])>>
        /\ phase[s] = "node" /\ phase'[s] = "between" /\ node'[s] = node[s]
        /\ saved'[s] = saved[s] \cup {node[s]} /\ node[s] \in Nodes
    BY <1>0, <1>5 DEF NodeEndSeen, NodeEnds, Put, Behind
  <2>. QED BY <1>1, <1>3, <2>1, EndKeepsFaith
<1>6. CASE NodeStartSeen(s)
  <2>1. /\ events'[s] = events[s] \o <<Event("node_start", node'[s])>>
        /\ phase[s] = "between" /\ phase'[s] = "node" /\ saved'[s] = saved[s]
        /\ node[s] \in Nodes /\ NextNode(s)
    BY <1>0, <1>6 DEF NodeStartSeen, NextNode, Put, Behind
  <2>2. StoreInv'
    BY <1>0, <2>1, StoreGoesOn DEF RunSteps
  <2>3. node'[s] \in Nodes /\ node'[s] \notin saved[s]
    BY <1>0, <2>1, <2>2 DEF StoreInv, StoreTypes, Behind
  <2>4. Faithful(events[s], card[s], "between", node[s], saved[s])
    BY <1>3, <2>1
  <2>5. Faithful(events[s] \o <<Event("node_start", node'[s])>>,
                 card[s], "node", node'[s], saved[s])
    BY <2>3, <2>4, StartKeepsFaith
  <2>. QED BY <1>1, <2>1, <2>5
<1>7. CASE StreamEnds(s)
  <2>1. /\ events'[s] = events[s] \o <<END>>
        /\ phase[s] = "between" /\ phase'[s] = "over" /\ node'[s] = node[s]
        /\ saved'[s] = saved[s]
    BY <1>0, <1>7 DEF StreamEnds, ReachEnd, Put
  <2>. QED BY <1>1, <1>2, <1>3, <2>1, SentinelKeepsFaith
<1>8. CASE StreamRaises(s)
  <2>1. /\ events'[s] = events[s] \o <<END>>
        /\ phase'[s] = "failed" /\ node'[s] = node[s] /\ saved'[s] = saved[s]
        /\ s \in error'
    BY <1>0, <1>8 DEF StreamRaises, Raises, Put
  <2>. QED BY <1>1, <1>2, <1>3, <2>1, SentinelKeepsFaith
<1>. QED BY <1>4, <1>5, <1>6, <1>7, <1>8 DEF WorkerGoesOn

\* What the script of one stream does keeps the others' readers as they were.
LEMMA ReaderOfAnother ==
    ASSUME NEW t \in Streams, ReaderInv(t), phase'[t] = phase[t], node'[t] = node[t],
           saved'[t] = saved[t], events'[t] = events[t], reader'[t] = reader[t],
           card'[t] = card[t], t \in error <=> t \in error'
    PROVE  ReaderInv(t)'
BY DEF ReaderInv

LEMMA WorkerKeepsStreams ==
    ASSUME StoreInv, StreamInv, NEW s \in Streams, WorkerGoesOn(s)
    PROVE  StreamInv'
<1>1. /\ reader' = reader /\ card' = card /\ session' = session
      /\ error' = error \/ error' = error \cup {s}
      /\ RunSteps(s)
      /\ \E es : events' = [events EXCEPT ![s] = @ \o es]
  BY DEF WorkerGoesOn, StreamEnters, NodeEndSeen, NodeStartSeen, StreamEnds, StreamRaises,
     RunSteps, Put
<1>2. ASSUME NEW t \in Streams, t # s PROVE ReaderInv(t)'
  <2>1. phase'[t] = phase[t] /\ node'[t] = node[t] /\ saved'[t] = saved[t]
    BY <1>1, <1>2, StoreGoesOn, WhoRuns
  <2>2. events'[t] = events[t]
    BY <1>1, <1>2 DEF StreamInv, StreamTypes
  <2>. QED BY <1>1, <1>2, <2>1, <2>2, ReaderOfAnother DEF StreamInv
<1>. QED BY <1>1, <1>2, WorkerKeepsReader DEF StreamInv, StreamTypes, SessionInv

LEMMA ScriptBegins ==
    ASSUME StoreInv, StreamInv, NEW s \in Streams, ExecutePipeline(s) \/ ExecuteFails(s)
    PROVE  StreamInv'
<1>0. /\ DOMAIN reader = Streams /\ DOMAIN phase = Runs /\ s \in Runs /\ ReaderInv(s)
      /\ Behind(s) /\ reader[s] = "idle" /\ session.running = FALSE
  BY WhoRuns DEF StoreInv, StoreTypes, StreamInv, StreamTypes, ExecutePipeline, ExecuteFails
<1>1. /\ UNCHANGED <<events, error, card, node, saved>>
      /\ \A t \in Streams \ {s} : phase'[t] = phase[t] /\ reader'[t] = reader[t]
      /\ \/ ExecutePipeline(s) /\ reader'[s] = "reading" /\ phase'[s] = "setup"
         \/ ExecuteFails(s) /\ reader'[s] = "unwired" /\ phase'[s] = phase[s]
  BY <1>0, WhoRuns DEF ExecutePipeline, ExecuteFails, Prepare, storeVars
<1>2. ReaderInv(s)'
  <2>1. /\ phase[s] = "none" /\ saved[s] = {} /\ node[s] = "none"
        /\ events[s] = <<>> /\ card[s] = CreateFlowPlaceholders
    BY <1>0 DEF ReaderInv, Behind
  <2>. QED BY <1>1, <2>1, FaithfulFromTheStart DEF ReaderInv, Alive
<1>3. \A t \in Streams \ {s} : ReaderInv(t)'
  BY <1>1, ReaderOfAnother DEF StreamInv
<1>4. StreamTypes'
  <2>1. \/ reader' = [reader EXCEPT ![s] = "reading"]
        \/ reader' = [reader EXCEPT ![s] = "unwired"]
    BY DEF ExecutePipeline, ExecuteFails
  <2>2. \/ session' = [running |-> TRUE, completed |-> FALSE]
        \/ session' = [running |-> FALSE, completed |-> FALSE]
    BY DEF ExecutePipeline, ExecuteFails
  <2>3. session' \in [running : BOOLEAN, completed : BOOLEAN]
    <3>1. CASE session' = [running |-> TRUE, completed |-> FALSE]
      BY <3>1
    <3>2. CASE session' = [running |-> FALSE, completed |-> FALSE]
      BY <3>2
    <3>. QED BY <2>2, <3>1, <3>2
  <2>4. reader' \in [Streams -> {"idle", "unwired", "reading", "finished", "failed",
                                 "timed_out", "abandoned", "gone"}]
    BY <2>1 DEF StreamInv, StreamTypes
  <2>. QED BY <1>1, <2>3, <2>4 DEF StreamInv, StreamTypes
<1>5. SessionInv'
  BY <1>0, <1>1 DEF StreamInv, SessionInv, ExecutePipeline, ExecuteFails
<1>. QED BY <1>2, <1>3, <1>4, <1>5 DEF StreamInv

LEMMA HandlingKeepsStreams ==
    ASSUME StoreInv, StreamInv, NEW s \in Streams, HandleEvent(s)
    PROVE  StreamInv'
<1>. DEFINE e == Head(events[s])
<1>0. /\ DOMAIN events = Streams /\ DOMAIN card = Streams /\ s \in Runs /\ ReaderInv(s)
      /\ Behind(s) /\ reader[s] = "reading" /\ events[s] # <<>> /\ e # END
  BY WhoRuns DEF StoreInv, StreamInv, StreamTypes, HandleEvent
<1>1. /\ UNCHANGED <<error, reader, session, phase, node, saved>>
      /\ events' = [events EXCEPT ![s] = Tail(@)]
      /\ card' = [card EXCEPT ![s][e.node] =
                     IF e.type = "node_start" THEN "running" ELSE "complete"]
  BY DEF HandleEvent, UpdateNode, storeVars
<1>2. /\ events'[s] = Tail(events[s])
      /\ card'[s] = [card[s] EXCEPT ![e.node] =
                        IF e.type = "node_start" THEN "running" ELSE "complete"]
      /\ \A t \in Streams \ {s} : events'[t] = events[t] /\ card'[t] = card[t]
      /\ DOMAIN events' = Streams /\ DOMAIN card' = Streams
  BY <1>0, <1>1
<1>3. Faithful(events'[s], card'[s], phase[s], node[s], saved[s])
  <2>1. /\ Faithful(events[s], card[s], phase[s], node[s], saved[s])
        /\ phase[s] \in {"node", "failed"} => node[s] \notin saved[s]
    BY <1>0 DEF ReaderInv, Behind
  <2>2. Faithful(Tail(events[s]),
           [card[s] EXCEPT ![Head(events[s]).node] =
               IF Head(events[s]).type = "node_start" THEN "running" ELSE "complete"],
           phase[s], node[s], saved[s])
    BY <1>0, <2>1, HandlingKeepsFaith
  <2>. QED BY <1>2, <2>2
<1>4. ReaderInv(s)'
  BY <1>0, <1>1, <1>3 DEF ReaderInv
<1>5. \A t \in Streams \ {s} : ReaderInv(t)'
  BY <1>1, <1>2, ReaderOfAnother DEF StreamInv
<1>. QED BY <1>1, <1>2, <1>4, <1>5 DEF StreamInv, StreamTypes, SessionInv

LEMMA LeavingKeepsStreams ==
    ASSUME StoreInv, StreamInv, NEW s \in Streams,
           StreamDrained(s) \/ ReadTimesOut(s) \/ ScriptRerun(s)
    PROVE  StreamInv'
<1>0. /\ DOMAIN events = Streams /\ DOMAIN card = Streams /\ DOMAIN reader = Streams
      /\ ReaderInv(s) /\ reader[s] = "reading"
  BY DEF StreamInv, StreamTypes, StreamDrained, ReadTimesOut, ScriptRerun
<1>1. PICK how \in {"failed", "finished", "timed_out", "abandoned"} :
        /\ reader' = [reader EXCEPT ![s] = how]
        /\ card' = [card EXCEPT ![s] = [n \in Nodes |->
                       IF card[s][n] = "pending" THEN "skipped" ELSE card[s][n]]]
        /\ session' = [running |-> FALSE, completed |-> TRUE]
        /\ UNCHANGED <<error, phase, node, saved>>
        /\ how \in {"failed", "finished"} =>
              /\ events[s] # <<>> /\ Head(events[s]) = END
              /\ s \in error <=> how = "failed"
        /\ events' = events \/ events' = [events EXCEPT ![s] = Tail(@)]
  BY DEF StreamDrained, ReadTimesOut, ScriptRerun, Leave, MarkSkippedNodes, storeVars
<1>2. /\ reader'[s] = how /\ DOMAIN events' = Streams /\ DOMAIN card' = Streams
      /\ card'[s] = [n \in Nodes |-> IF card[s][n] = "pending" THEN "skipped" ELSE card[s][n]]
      /\ \A t \in Streams \ {s} :
            reader'[t] = reader[t] /\ events'[t] = events[t] /\ card'[t] = card[t]
  BY <1>0, <1>1
<1>3. ReaderInv(s)'
  <2>1. CASE how \in {"timed_out", "abandoned"}
    BY <1>1, <1>2, <2>1 DEF ReaderInv
  <2>2. CASE how \in {"failed", "finished"}
    <3>1. /\ phase[s] \in {"over", "failed"}
          /\ phase[s] = "over" => \A m \in Nodes :
                card[s][m] = IF m \in saved[s] THEN "complete" ELSE "pending"
      BY <1>0, <1>1, <2>2, DrainedIsTrue DEF ReaderInv
    <3>2. how = "finished" => phase[s] = "over"
      BY <1>0, <1>1, <2>2, <3>1 DEF ReaderInv
    <3>3. phase[s] \notin Alive
      BY <3>1 DEF Alive
    <3>4. how = "finished" => \A m \in Nodes :
             card'[s][m] = IF m \in saved[s] THEN "complete" ELSE "skipped"
      BY <1>2, <3>1, <3>2
    <3>. QED BY <1>1, <1>2, <2>2, <3>2, <3>3, <3>4 DEF ReaderInv
  <2>. QED BY <2>1, <2>2
<1>4. \A t \in Streams \ {s} : ReaderInv(t)'
  BY <1>1, <1>2, ReaderOfAnother DEF StreamInv
<1>5. SessionInv'
  BY <1>0, <1>1, <1>2 DEF StreamInv, SessionInv
<1>6. StreamTypes'
  BY <1>1, <1>2 DEF StreamInv, StreamTypes
<1>. QED BY <1>3, <1>4, <1>5, <1>6 DEF StreamInv

LEMMA StreamsKept == StoreInv /\ StreamInv /\ [Next]_vars => StreamInv'
<1>. SUFFICES ASSUME StoreInv, StreamInv, [Next]_vars PROVE StreamInv'
  OBVIOUS
<1>1. CASE HookNext /\ UNCHANGED streamVars
  <2>1. \A s \in Streams : ReaderInv(s)'
    BY <1>1, ServerLeavesStreams, ReaderOfAnother DEF StreamInv, streamVars
  <2>. QED BY <1>1, <2>1 DEF StreamInv, StreamTypes, SessionInv, streamVars
<1>2. CASE StreamNext
  BY <1>2, WorkerKeepsStreams, ScriptBegins, HandlingKeepsStreams, LeavingKeepsStreams
  DEF StreamNext, Reads
<1>3. CASE DashboardRestarts
  <2>1. /\ UNCHANGED <<error, card, node, saved>>
        /\ reader' = [s \in Streams |-> IF reader[s] = "reading" THEN "gone" ELSE reader[s]]
        /\ events' = [s \in Streams |-> <<>>]
        /\ session' = [running |-> FALSE, completed |-> FALSE]
        /\ \A s \in Streams : phase'[s] = IF phase[s] \in Alive THEN "dead" ELSE phase[s]
    BY <1>3, WhoRuns DEF DashboardRestarts, Die
  <2>2. \A s \in Streams : ReaderInv(s)'
    BY <2>1 DEF StreamInv, ReaderInv, Alive
  <2>. QED BY <2>1, <2>2 DEF StreamInv, StreamTypes, SessionInv
<1>4. CASE UNCHANGED vars
  <2>1. \A s \in Streams : ReaderInv(s)'
    BY <1>4, ReaderOfAnother DEF StreamInv, vars, storeVars, streamVars
  <2>. QED BY <1>4, <2>1 DEF StreamInv, StreamTypes, SessionInv, vars, streamVars
<1>. QED BY <1>1, <1>2, <1>3, <1>4 DEF Next

LEMMA EntrypointsInv == Spec => [](StoreInv /\ StreamInv)
<1>1. Init => StoreInv /\ StreamInv
  BY StoreBegins, StreamsBegin DEF Init
<1>. QED BY <1>1, StoreKept, StreamsKept, PTL DEF Spec

\* A stream drained without an error leaves true cards (the loop over the queue
\* and the finally block of _execute_pipeline, pipeline_monitor.py): whatever
\* the interleaving of worker and script, and whatever other runs there are.
THEOREM CardsAreTrue == Spec => []DrainedCardsAreTrue
<1>1. StreamInv => DrainedCardsAreTrue
  BY DEF StreamInv, ReaderInv, DrainedCardsAreTrue
<1>. QED BY <1>1, EntrypointsInv, PTL

\* Two runs of one session at once mean that the script gave the earlier one up.
THEOREM OneRunAtATime == Spec => []SecondRunNeedsGivingUp
<1>1. StreamInv => SecondRunNeedsGivingUp
  <2>. SUFFICES ASSUME StreamInv, NEW s \in Streams, NEW t \in Streams, s # t,
                       phase[s] \in Alive, phase[t] \in Alive
                PROVE  {reader[s], reader[t]} \cap {"timed_out", "abandoned"} # {}
    BY DEF SecondRunNeedsGivingUp
  <2>1. /\ reader[s] \in {"reading", "timed_out", "abandoned"}
        /\ reader[t] \in {"reading", "timed_out", "abandoned"}
    BY DEF StreamInv, ReaderInv
  <2>2. ~(reader[s] = "reading" /\ reader[t] = "reading")
    BY DEF StreamInv, SessionInv
  <2>. QED BY <2>1, <2>2
<1>. QED BY <1>1, EntrypointsInv, PTL

\* The reader times out only on a worker at work: the sentinel is put whatever
\* ends it (_thread_target of streaming.py), and the reader takes it before it can wait for more.
THEOREM TimeoutsFindAWorker == Spec => TimeoutsAreReal
<1>1. ASSUME StoreInv, StreamInv, [Next]_vars
      PROVE  [\A s \in Streams : reader[s] = "reading" /\ reader'[s] = "timed_out"
                                    => phase[s] \in Alive]_streamVars
  <2>. SUFFICES ASSUME NEW s \in Streams, reader[s] = "reading", reader'[s] = "timed_out"
                PROVE  phase[s] \in Alive
    OBVIOUS
  <2>1. StreamNext
    BY <1>1 DEF Next, DashboardRestarts, vars, streamVars
  <2>2. PICK t \in Streams :
          \/ ExecutePipeline(t) \/ ExecuteFails(t) \/ WorkerGoesOn(t) \/ Reads(t) \/ ScriptRerun(t)
    BY <2>1 DEF StreamNext
  <2>3. ReadTimesOut(s)
    <3>1. DOMAIN reader = Streams
      BY <1>1 DEF StreamInv, StreamTypes
    <3>2. \/ reader' = reader
          \/ reader' = [reader EXCEPT ![t] = "reading"]
          \/ reader' = [reader EXCEPT ![t] = "unwired"]
          \/ reader' = [reader EXCEPT ![t] = "failed"]
          \/ reader' = [reader EXCEPT ![t] = "finished"]
          \/ reader' = [reader EXCEPT ![t] = "abandoned"]
          \/ ReadTimesOut(t) /\ reader' = [reader EXCEPT ![t] = "timed_out"]
      BY <2>2 DEF ExecutePipeline, ExecuteFails, WorkerGoesOn, StreamEnters, NodeEndSeen,
         NodeStartSeen, StreamEnds, StreamRaises, Reads, HandleEvent, StreamDrained,
         ReadTimesOut, ScriptRerun, Leave
    <3>. QED BY <3>1, <3>2
  <2>4. events[s] = <<>> /\ Faithful(events[s], card[s], phase[s], node[s], saved[s])
    BY <1>1, <2>3 DEF ReadTimesOut, StreamInv, ReaderInv
  <2>. QED BY <2>4 DEF Faithful
<1>. QED BY <1>1, EntrypointsInv, PTL DEF Spec, TimeoutsAreReal

\* The flag that greys the button out is set while a script reads, and only
\* then; two scripts of a session never read at the same time.
FlagMeansReader ==
    /\ session.running <=> \E s \in Streams : reader[s] = "reading"
    /\ \A s, t \in Streams : {reader[s], reader[t]} = {"reading"} => s = t

\* The session is never left marked as busy (pipeline_running is cleared in the
\* finally block of _execute_pipeline), whatever ends a script, nor does it
\* offer the button while one reads.
THEOREM FlagIsGivenBack == Spec => []FlagMeansReader
<1>1. StreamInv => FlagMeansReader
  BY DEF StreamInv, SessionInv, FlagMeansReader
<1>. QED BY <1>1, EntrypointsInv, PTL

\* How far a run is, out of ten.
Stage(r) ==
    IF phase[r] = "none" THEN 0
    ELSE IF phase[r] = "setup" THEN 1
    ELSE IF phase[r] = "node" THEN 2 * Rank(node[r])
    ELSE IF phase[r] = "between" THEN 2 * Rank(node[r]) + 1
    ELSE 10

\* No step takes a checkpoint back, and one that moves a run moves it on.
RunsGoForward ==
    [][\A r \in Runs :
          /\ saved[r] \subseteq saved'[r]
          /\ Stage(r)' \in 0..10
          /\ phase'[r] = phase[r] => Stage(r)' = Stage(r)
          /\ phase'[r] # phase[r] => Stage(r)' > Stage(r)]_vars

LEMMA OneRunGoesForward ==
    ASSUME StoreInv, NEW r \in Runs, RunSteps(r)
    PROVE  /\ saved[r] \subseteq saved'[r]
           /\ phase'[r] # phase[r] /\ Stage(r)' > Stage(r)
<1>0. /\ DOMAIN phase = Runs /\ DOMAIN saved = Runs /\ DOMAIN node = Runs
      /\ Behind(r) /\ node[r] \in Nodes \cup {"none"}
  BY DEF StoreInv, StoreTypes
<1>1. CASE Prepare(r)
  BY <1>0, <1>1 DEF Prepare, Stage
<1>2. CASE EnterGraph(r)
  BY <1>0, <1>2, RankIs DEF EnterGraph, Stage
<1>3. CASE NodeEnds(r)
  <2>1. Rank(node[r]) \in 0..4
    BY <1>0, NodesAre, RankIs
  <2>. QED BY <1>0, <1>3, <2>1 DEF NodeEnds, Stage
<1>4. CASE NextNode(r)
  <2>1. PICK m \in Routes(node[r]) \ {"end"} : node' = [node EXCEPT ![r] = m]
    BY <1>4 DEF NextNode
  <2>2. node[r] \in Nodes
    BY <1>0, <1>4 DEF NextNode, Behind
  <2>3. Rank(node[r]) < Rank(m) /\ Rank(node[r]) \in 1..4 /\ Rank(m) \in 1..4
    BY <2>1, <2>2, EdgesLeadForward, RanksTellApart
  <2>. QED BY <1>0, <1>4, <2>1, <2>3 DEF NextNode, Stage
<1>5. CASE ReachEnd(r) \/ Raises(r)
  <2>1. Rank(node[r]) \in 0..4
    BY <1>0, NodesAre, RankIs
  <2>. QED BY <1>0, <1>5, <2>1 DEF ReachEnd, Raises, Stage
<1>. QED BY <1>1, <1>2, <1>3, <1>4, <1>5 DEF RunSteps

\* No run goes round, comes back or takes anything back (the conditional edges of
\* graph.py lead forward only): whoever drives it, every run has ended after at
\* most ten steps of its own.
THEOREM RunsWearOut == Spec => RunsGoForward
<1>1. ASSUME StoreInv, StoreInv', [Next]_vars, NEW r \in Runs
      PROVE  /\ saved[r] \subseteq saved'[r]
             /\ Stage(r)' \in 0..10
             /\ phase'[r] = phase[r] => Stage(r)' = Stage(r)
             /\ phase'[r] # phase[r] => Stage(r)' > Stage(r)
  <2>0. Stage(r)' \in 0..10
    <3>1. node'[r] \in Nodes \cup {"none"}
      BY <1>1 DEF StoreInv, StoreTypes
    <3>2. Rank(node'[r]) \in 0..4
      BY <3>1, NodesAre, RankIs
    <3>. QED BY <3>2 DEF Stage
  <2>1. ASSUME NEW q \in Runs, RunSteps(q)
        PROVE  /\ saved[r] \subseteq saved'[r]
               /\ \/ phase'[r] = phase[r] /\ Stage(r)' = Stage(r)
                  \/ phase'[r] # phase[r] /\ Stage(r)' > Stage(r)
    <3>1. CASE q = r
      BY <1>1, <2>1, <3>1, OneRunGoesForward
    <3>2. CASE q # r
      BY <1>1, <2>1, <3>2, StoreGoesOn DEF Stage
    <3>. QED BY <3>1, <3>2
  <2>2. ASSUME UNCHANGED <<node, saved, next>>, phase'[r] # phase[r] =>
                  \/ phase[r] \in Alive \cup {"none"} /\ phase'[r] \in {"dead", "failed"}
        PROVE  /\ saved[r] \subseteq saved'[r]
               /\ \/ phase'[r] = phase[r] /\ Stage(r)' = Stage(r)
                  \/ phase'[r] # phase[r] /\ Stage(r)' > Stage(r)
    <3>1. node[r] \in Nodes \cup {"none"}
      BY <1>1 DEF StoreInv, StoreTypes
    <3>2. Rank(node[r]) \in 0..4
      BY <3>1, NodesAre, RankIs
    <3>. QED BY <2>2, <3>2 DEF Stage, Alive
  <2>3. CASE HookNext
    <3>1. CASE \E h \in Hooks : RunSteps(h)
      BY <2>0, <2>1, <3>1, WhoRuns
    <3>2. CASE UNCHANGED <<node, saved, next>> /\
               (phase'[r] = phase[r] \/ (phase[r] \in Alive \cup {"none"}
                                         /\ phase'[r] \in {"dead", "failed"}))
      BY <2>0, <2>2, <3>2
    <3>3. DOMAIN phase = Runs
      BY <1>1 DEF StoreInv, StoreTypes
    <3>. QED BY <2>3, <3>1, <3>2, <3>3, ServerOnTheStore, WhoRuns DEF storeVars
  <2>4. CASE StreamNext
    <3>1. CASE \E s \in Streams : RunSteps(s)
      BY <2>0, <2>1, <3>1, WhoRuns
    <3>2. CASE UNCHANGED storeVars
      BY <2>0, <2>2, <3>2 DEF storeVars
    <3>. QED BY <2>4, <3>1, <3>2, StreamOnTheStore
  <2>5. CASE DashboardRestarts
    <3>1. /\ UNCHANGED <<node, saved, next>>
          /\ phase'[r] # phase[r] => phase[r] \in Alive /\ phase'[r] = "dead"
      BY <2>5 DEF DashboardRestarts, Die
    <3>. QED BY <2>0, <2>2, <3>1
  <2>6. CASE UNCHANGED vars
    BY <2>0, <2>2, <2>6 DEF vars, storeVars
  <2>. QED BY <1>1, <2>3, <2>4, <2>5, <2>6 DEF Next
<1>2. ASSUME StoreInv, StoreInv', [Next]_vars
      PROVE  [\A r \in Runs :
                 /\ saved[r] \subseteq saved'[r]
                 /\ Stage(r)' \in 0..10
                 /\ phase'[r] = phase[r] => Stage(r)' = Stage(r)
                 /\ phase'[r] # phase[r] => Stage(r)' > Stage(r)]_vars
  BY <1>1, <1>2
<1>. QED BY <1>2, EntrypointsInv, PTL DEF Spec, RunsGoForward

-----------------------------------------------------------------------------
(* LiveMonitor *)

Info == [run : Runs \cup {"none"}, completed : SUBSET Nodes, pending : SUBSET Nodes]

MonitorTypeOK ==
    /\ threads \in Seq(Runs)
    /\ observed \in Info /\ isActive \in {"unset", "yes", "no"}
    /\ reading \in [listing : {"none", "active", "completed"}, left : Seq(Runs),
                    snapshot : BOOLEAN, pending : SUBSET Nodes, found : Info,
                    misread : SUBSET Runs]
    /\ doubt \in SUBSET Runs

\* What was read of a run is a state it was in: its thread is there, the nodes it
\* shows are saved and, when its history was read to the end, a node it will draw
\* as skipped is one the run has passed.
Passed(info) ==
    \A n \in Nodes \ info.completed :
        (\E m \in info.completed : Index(m) > Index(n))
            => n \notin saved[info.run] /\ node[info.run] # n

Sound(info, misread) ==
    /\ info.run \in ToSet(threads)
    /\ info.completed \subseteq saved[info.run]
    /\ info.run \notin misread => Passed(info)

\* After its output node a run announces nothing more.
OverInv == \A r \in Runs : "output" \in saved[r] => next[r] = {}

\* What the poll at work has found so far.
ReadingInv ==
    /\ ToSet(reading.left) \subseteq ToSet(threads)
    /\ reading.snapshot => reading.left # <<>> /\ reading.listing # "none"
    /\ reading.found # NoRun => Sound(reading.found, reading.misread)
    /\ reading.listing = "completed" =>
          /\ isActive # "no"
          /\ reading.found # NoRun => "output" \in reading.found.completed

\* A poll that drops the run r it showed as active has read that r is complete, and
\* will find r among the completed runs.
Accounted(r) ==
    /\ \/ reading.found # NoRun \/ r \in ToSet(reading.left)
       \/ reading.listing = "active" /\ "output" \in saved[r]
    /\ reading.listing = "completed" =>
          /\ "output" \in saved[r]
          /\ reading.snapshot /\ Head(reading.left) = r => reading.pending = {}

ShownInv ==
    observed # NoRun =>
        /\ Sound(observed, doubt)
        /\ observed.run \notin doubt =>
              IF isActive = "no" THEN "output" \in observed.completed
              ELSE reading.listing # "none" /\ observed.run \notin reading.misread
                       => Accounted(observed.run)

MonitorInv == StoreInv /\ MonitorTypeOK /\ OverInv /\ ReadingInv /\ ShownInv

LEMMA MonitorBegins == MonitorInit => MonitorInv
<1>. SUFFICES ASSUME MonitorInit PROVE MonitorInv
  OBVIOUS
<1>. USE DEF MonitorInit, PollInit
<1>1. StoreInv /\ OverInv
  BY StoreBegins DEF OverInv, StoreInit
<1>2. MonitorTypeOK
  BY DEF MonitorTypeOK, NoRun, NoReading, Info
<1>3. ReadingInv /\ ShownInv
  BY DEF ReadingInv, ShownInv, NoReading, ToSet
<1>. QED BY <1>1, <1>2, <1>3 DEF MonitorInv

\* A run that is through its output node stays so: no edge leaves that node.
LEMMA OverStays ==
    ASSUME StoreInv, OverInv, NEW r \in Runs, RunSteps(r)
    PROVE  OverInv' /\ \A q \in Runs : saved[q] \subseteq saved'[q]
<1>1. \A q \in Runs \ {r} : saved'[q] = saved[q] /\ next'[q] = next[q]
  BY StoreGoesOn
<1>2. /\ saved \in [Runs -> SUBSET Nodes] /\ next \in [Runs -> SUBSET Nodes]
      /\ Behind(r) /\ node[r] \in Nodes \cup {"none"}
  BY DEF StoreInv, StoreTypes
<1>3. saved[r] \subseteq saved'[r] /\ ("output" \in saved'[r] => next'[r] = {})
  <2>1. CASE Prepare(r) \/ ReachEnd(r) \/ Raises(r)
    BY <2>1 DEF Prepare, ReachEnd, Raises, OverInv
  <2>2. CASE NodeEnds(r)
    BY <1>2, <2>2 DEF NodeEnds
  <2>3. CASE EnterGraph(r) \/ NextNode(r)
    <3>1. saved' = saved
      BY <2>3 DEF EnterGraph, NextNode
    <3>2. "output" \notin saved[r]
      <4>1. ASSUME "output" \in saved[r] PROVE FALSE
        <5>1. node[r] = "output"
          BY <1>2, <4>1, RanksTellApart, RankIs, NodesAre DEF Behind
        <5>2. Routes("output") \ {"end"} = {}
          BY DEF Routes
        <5>3. ~EnterGraph(r)
          BY <1>2, <5>1 DEF EnterGraph, Behind
        <5>. QED BY <2>3, <5>1, <5>2, <5>3 DEF NextNode
      <4>. QED BY <4>1
    <3>. QED BY <3>1, <3>2
  <2>. QED BY <2>1, <2>2, <2>3 DEF RunSteps
<1>. QED BY <1>1, <1>3 DEF OverInv

\* What a run has passed it does not come back to.
LEMMA PassedIsPassed ==
    ASSUME StoreInv, NEW r \in Runs, RunSteps(r), NEW q \in Runs,
           NEW n \in Nodes, NEW m \in saved[q], Index(m) > Index(n),
           n \notin saved[q], node[q] # n
    PROVE  saved[q] \subseteq saved'[q] /\ n \notin saved'[q] /\ node'[q] # n
<1>1. CASE q # r
  BY <1>1, StoreGoesOn
<1>2. CASE q = r
  <2>0. /\ DOMAIN saved = Runs /\ DOMAIN node = Runs /\ m \in Nodes /\ Behind(r)
        /\ node[r] \in Nodes \cup {"none"}
    BY <1>2 DEF StoreInv, StoreTypes
  <2>1. Rank(m) > Rank(n) /\ Rank(m) <= Rank(node[r])
    BY <1>2, <2>0, NodesAre DEF Rank, Behind
  <2>2. CASE EnterGraph(r)
    <3>1. node[r] = "none"
      BY <2>0, <2>2 DEF EnterGraph, Behind
    <3>. QED BY <2>0, <2>1, <3>1, RankIs, RanksTellApart
  <2>3. CASE NodeEnds(r)
    BY <1>2, <2>0, <2>3 DEF NodeEnds
  <2>4. CASE NextNode(r)
    <3>1. PICK k \in Routes(node[r]) \ {"end"} : node' = [node EXCEPT ![r] = k]
      BY <2>4 DEF NextNode
    <3>2. node[r] \in Nodes
      BY <2>0, <2>4 DEF NextNode, Behind
    <3>3. Rank(node[r]) < Rank(k) /\ k \in Nodes
      BY <3>1, <3>2, EdgesLeadForward
    <3>4. k # n
      BY <2>0, <2>1, <3>2, <3>3, RanksTellApart
    <3>. QED BY <1>2, <2>0, <2>4, <3>1, <3>4 DEF NextNode
  <2>5. CASE Prepare(r) \/ ReachEnd(r) \/ Raises(r)
    BY <1>2, <2>5 DEF Prepare, ReachEnd, Raises
  <2>. QED BY <2>2, <2>3, <2>4, <2>5 DEF RunSteps
<1>. QED BY <1>1, <1>2

\* A thread that is written stays listed.
LEMMA WrittenIsListed ==
    ASSUME threads \in Seq(Runs), NEW r \in Runs, Written(r)
    PROVE  threads' \in Seq(Runs) /\ ToSet(threads) \subseteq ToSet(threads)'
<1>1. CASE r \notin ToSet(threads) /\ threads' = <<r>> \o threads
  <2>1. /\ threads' \in Seq(Runs) /\ DOMAIN threads' = 1..(Len(threads) + 1)
        /\ \A i \in DOMAIN threads : i + 1 \in DOMAIN threads' /\ threads'[i + 1] = threads[i]
    BY <1>1
  <2>. QED BY <2>1 DEF ToSet
<1>2. ASSUME NEW p \in DOMAIN threads, threads[p] = r,
             threads' = [i \in DOMAIN threads |->
                CASE i = 1 -> r
                  [] i # 1 /\ i <= p -> threads[i - 1]
                  [] i > p -> threads[i]]
      PROVE  threads' \in Seq(Runs) /\ ToSet(threads) \subseteq ToSet(threads)'
  <2>1. DOMAIN threads = 1..Len(threads) /\ Len(threads) \in Nat
    OBVIOUS
  <2>2. /\ DOMAIN threads' = 1..Len(threads) /\ threads'[1] = r
        /\ \A i \in 2..p : threads'[i] = threads[i - 1]
        /\ \A i \in (p + 1)..Len(threads) : threads'[i] = threads[i]
    BY <1>2, <2>1
  <2>3. \A i \in 1..Len(threads) : threads'[i] \in Runs
    BY <2>1, <2>2
  <2>4. threads' \in Seq(Runs)
    BY <1>2, <2>1, <2>2, <2>3
  <2>5. \A i \in 1..Len(threads) : \E j \in 1..Len(threads) : threads'[j] = threads[i]
    <3>. TAKE i \in 1..Len(threads)
    <3>1. CASE i = p
      BY <1>2, <2>1, <2>2, <3>1
    <3>2. CASE i < p
      <4>1. i + 1 \in 2..p /\ i + 1 \in 1..Len(threads)
        BY <2>1, <3>2
      <4>2. threads'[i + 1] = threads[i]
        BY <2>2, <4>1
      <4>. QED BY <4>1, <4>2
    <3>3. CASE i > p
      BY <2>1, <2>2, <3>3
    <3>. QED BY <2>1, <3>1, <3>2, <3>3
  <2>6. ASSUME NEW e \in ToSet(threads) PROVE e \in ToSet(threads')
    <3>1. PICK i \in 1..Len(threads) : e = threads[i]
      BY <2>1 DEF ToSet
    <3>2. PICK j \in 1..Len(threads) : threads'[j] = e
      BY <2>5, <3>1
    <3>. QED BY <2>2, <3>2 DEF ToSet
  <2>. QED BY <2>4, <2>6
<1>. QED BY <1>1, <1>2 DEF Written

LEMMA ListedAreRuns == ASSUME NEW s \in Seq(Runs) PROVE ToSet(s) \subseteq Runs
BY DEF ToSet

\* What was read of a run stays sound while the runs go on.
LEMMA SoundStays ==
    ASSUME StoreInv, OverInv, NEW r \in Runs, RunSteps(r), NEW info \in Info, NEW misread,
           threads \in Seq(Runs), ToSet(threads) \subseteq ToSet(threads)',
           Sound(info, misread)
    PROVE  Sound(info, misread)'
<1>1. info.run \in Runs /\ info.run \in ToSet(threads)'
  BY ListedAreRuns DEF Sound
<1>2. saved[info.run] \subseteq saved'[info.run]
  BY <1>1, OverStays
<1>3. ASSUME Passed(info), NEW n \in Nodes \ info.completed,
             NEW m \in info.completed, Index(m) > Index(n)
      PROVE  n \notin saved'[info.run] /\ node'[info.run] # n
  <2>1. n \notin saved[info.run] /\ node[info.run] # n /\ m \in saved[info.run]
    BY <1>3 DEF Passed, Sound
  <2>. QED BY <1>1, <1>3, <2>1, PassedIsPassed
<1>. QED BY <1>1, <1>2, <1>3 DEF Sound, Passed

\* What holds of a run when its history is read.
LEMMA HistoryIsSound ==
    ASSUME StoreInv, threads \in Seq(Runs), NEW r \in ToSet(threads),
           NEW i \in 0..Len(NodeSequence), NEW misread, i = 0 \/ r \in misread,
           NEW info \in Info, info.run = r, info.completed = HistoryUpTo(r, i)
    PROVE  /\ Sound(info, misread)
           /\ i = 0 => info.completed = saved[r]
<1>1. r \in Runs /\ saved[r] \subseteq Nodes
  BY DEF ToSet, StoreInv, StoreTypes
<1>2. \A n \in Nodes : Index(n) \in 1..4
  BY NodesAre, IndexIs
<1>3. i = 0 => HistoryUpTo(r, i) = saved[r]
  BY <1>1, <1>2 DEF HistoryUpTo
<1>4. ASSUME NEW n \in Nodes \ saved[r], NEW m \in saved[r], Index(m) > Index(n)
      PROVE  node[r] # n
  <2>1. m \in Nodes /\ Rank(m) <= Rank(node[r])
    BY <1>1 DEF StoreInv, StoreTypes, Behind
  <2>. QED BY <1>4, <2>1, NodesAre, RanksTellApart DEF Rank
<1>. QED BY <1>1, <1>3, <1>4 DEF Sound, Passed, HistoryUpTo

\* The threads a listing has left.
LEMMA TailIsLeft ==
    ASSUME NEW s \in Seq(Runs), s # <<>>
    PROVE  /\ Tail(s) \in Seq(Runs) /\ Head(s) \in ToSet(s)
           /\ ToSet(s) = {Head(s)} \cup ToSet(Tail(s))
<1>1. /\ Len(s) \in Nat \ {0} /\ DOMAIN s = 1..Len(s) /\ Head(s) = s[1]
      /\ Tail(s) \in Seq(Runs) /\ DOMAIN Tail(s) = 1..(Len(s) - 1)
      /\ \A i \in 1..(Len(s) - 1) : Tail(s)[i] = s[i + 1]
  OBVIOUS
<1>2. ASSUME NEW i \in 1..Len(s), i # 1 PROVE s[i] \in ToSet(Tail(s))
  <2>1. i - 1 \in 1..(Len(s) - 1) /\ (i - 1) + 1 = i
    BY <1>1, <1>2
  <2>. QED BY <1>1, <2>1 DEF ToSet
<1>3. \A i \in 1..(Len(s) - 1) : i + 1 \in 1..Len(s)
  BY <1>1
<1>4. ToSet(s) \subseteq {Head(s)} \cup ToSet(Tail(s))
  <2>1. ASSUME NEW e \in ToSet(s) PROVE e \in {Head(s)} \cup ToSet(Tail(s))
    <3>1. PICK i \in 1..Len(s) : e = s[i]
      BY <1>1 DEF ToSet
    <3>. QED BY <1>1, <1>2, <3>1
  <2>. QED BY <2>1
<1>5. Head(s) \in ToSet(s) /\ ToSet(Tail(s)) \subseteq ToSet(s)
  <2>1. ASSUME NEW e \in ToSet(Tail(s)) PROVE e \in ToSet(s)
    <3>1. PICK i \in 1..(Len(s) - 1) : e = Tail(s)[i]
      BY <1>1 DEF ToSet
    <3>. QED BY <1>1, <1>3, <3>1 DEF ToSet
  <2>2. Head(s) \in ToSet(s)
    BY <1>1 DEF ToSet
  <2>. QED BY <2>1, <2>2
<1>. QED BY <1>1, <1>4, <1>5

LEMMA PollingKeepsMonitor ==
    ASSUME MonitorInv, Poll
    PROVE  MonitorInv'
<1>. USE LiveMonitorAssumption
<1>0. UNCHANGED <<threads, storeVars>>
  BY DEF Poll, PollBegins, ReadSnapshot, ReadHistory, PollRaises, PollFindsActive,
     PollLeavesIt, PollFallsBack, PollShowsCompleted
<1>1. StoreInv' /\ OverInv' /\ threads' \in Seq(Runs)
  BY <1>0 DEF MonitorInv, MonitorTypeOK, storeVars, StoreInv, StoreTypes, Behind, OverInv
<1>2. /\ threads' = threads /\ saved' = saved /\ node' = node /\ next' = next
      /\ threads \in Seq(Runs) /\ observed \in Info /\ doubt \in SUBSET Runs
      /\ isActive \in {"unset", "yes", "no"} /\ NoRun \in Info
      /\ reading \in [listing : {"none", "active", "completed"}, left : Seq(Runs),
                      snapshot : BOOLEAN, pending : SUBSET Nodes, found : Info,
                      misread : SUBSET Runs]
  BY <1>0 DEF storeVars, MonitorInv, MonitorTypeOK, NoRun, Info
<1>3. ToSet(<<>>) = {}
  BY DEF ToSet
\* A listing begins.
<1>4. ASSUME NEW listing \in {"active", "completed"}, ListThreads(listing),
             UNCHANGED <<observed, isActive, doubt>>,
             listing = "completed" =>
                 /\ isActive # "no"
                 /\ observed # NoRun /\ observed.run \notin doubt \cup reading.misread
                        => "output" \in saved[observed.run]
      PROVE  MonitorInv'
  <2>1. reading' = [listing |-> listing, left |-> threads, snapshot |-> FALSE,
                    pending |-> {}, found |-> NoRun, misread |-> reading.misread]
    BY <1>4 DEF ListThreads, NoReading
  <2>2. MonitorTypeOK'
    BY <1>2, <1>4, <2>1 DEF MonitorTypeOK
  <2>3. ReadingInv'
    BY <1>2, <1>4, <2>1 DEF ReadingInv
  <2>4. ShownInv'
    <3>1. SUFFICES ASSUME observed # NoRun PROVE ShownInv'
      BY <1>4 DEF ShownInv
    <3>2. Sound(observed, doubt)' /\ observed.run \in ToSet(threads)
      BY <1>2, <1>4, <3>1 DEF MonitorInv, ShownInv, Sound, Passed
    <3>3. isActive = "no" /\ observed.run \notin doubt => "output" \in observed.completed
      BY <3>1 DEF MonitorInv, ShownInv
    <3>4. observed.run \notin doubt \cup reading.misread => Accounted(observed.run)'
      BY <1>2, <1>4, <2>1, <3>1, <3>2 DEF Accounted
    <3>. QED BY <1>4, <2>1, <3>2, <3>3, <3>4 DEF ShownInv
  <2>. QED BY <1>1, <2>2, <2>3, <2>4 DEF MonitorInv
\* The poll ends.
<1>5. ASSUME reading' = NoReading, observed' \in Info, isActive' \in {"unset", "yes", "no"},
             doubt' \in SUBSET Runs,
             observed' # NoRun =>
                 /\ Sound(observed, doubt)'
                 /\ isActive' = "no" /\ observed'.run \notin doubt'
                        => "output" \in observed'.completed
      PROVE  MonitorInv'
  <2>1. MonitorTypeOK'
    BY <1>2, <1>5 DEF MonitorTypeOK, NoReading
  <2>2. ReadingInv'
    BY <1>3, <1>5 DEF ReadingInv, NoReading
  <2>3. ShownInv'
    BY <1>5 DEF ShownInv, NoReading
  <2>. QED BY <1>1, <2>1, <2>2, <2>3 DEF MonitorInv
<1>6. ASSUME ListingDone, reading.listing = "active", reading.found = NoRun,
             isActive # "no", observed # NoRun,
             observed.run \notin doubt \cup reading.misread
      PROVE  "output" \in saved[observed.run]
  BY <1>3, <1>6 DEF ListingDone, MonitorInv, ShownInv, Accounted
<1>7. ASSUME UNCHANGED <<observed, isActive, doubt>>, observed' # NoRun
      PROVE  /\ Sound(observed, doubt)'
             /\ isActive' = "no" /\ observed'.run \notin doubt'
                    => "output" \in observed'.completed
  BY <1>2, <1>7 DEF MonitorInv, ShownInv, Sound, Passed
<1>8. CASE PollBegins
  BY <1>4, <1>8 DEF PollBegins, NoReading
<1>9. CASE PollFallsBack
  BY <1>4, <1>6, <1>9 DEF PollFallsBack
<1>10. CASE PollRaises \/ PollLeavesIt
  BY <1>2, <1>5, <1>7, <1>10 DEF PollRaises, PollLeavesIt
<1>11. CASE PollFindsActive
  <2>1. /\ reading.found # NoRun /\ observed' = reading.found /\ isActive' = "yes"
        /\ doubt' = reading.misread /\ reading' = NoReading
    BY <1>11 DEF PollFindsActive
  <2>2. Sound(observed, doubt)'
    BY <1>2, <2>1 DEF MonitorInv, ReadingInv, Sound, Passed
  <2>. QED BY <1>2, <1>5, <2>1, <2>2
<1>12. CASE PollShowsCompleted
  <2>0. isActive' = "no" /\ reading' = NoReading /\ ListingDone
        /\ reading.listing = "completed" /\ isActive # "no"
    BY <1>12 DEF PollShowsCompleted, MonitorInv, ReadingInv
  <2>1. CASE reading.found # NoRun
    <3>1. observed' = reading.found /\ doubt' = reading.misread
      BY <1>12, <2>1 DEF PollShowsCompleted
    <3>2. Sound(observed, doubt)' /\ "output" \in reading.found.completed
      BY <1>2, <2>0, <2>1, <3>1 DEF MonitorInv, ReadingInv, Sound, Passed
    <3>. QED BY <1>2, <1>5, <2>0, <3>1, <3>2
  <2>2. CASE reading.found = NoRun
    <3>1. observed' = observed /\ doubt' = doubt \cup reading.misread /\ reading.left = <<>>
      BY <1>12, <2>0, <2>2 DEF PollShowsCompleted, ListingDone
    <3>2. observed # NoRun => Sound(observed, doubt)'
      BY <1>2, <3>1 DEF MonitorInv, ShownInv, Sound, Passed
    <3>3. observed # NoRun => observed.run \in doubt \cup reading.misread
      BY <1>3, <2>0, <2>2, <3>1 DEF MonitorInv, ShownInv, Accounted
    <3>. QED BY <1>2, <1>5, <2>0, <3>1, <3>2, <3>3
  <2>. QED BY <2>1, <2>2
\* A listing goes on.
<1>13. CASE ReadSnapshot \/ ReadHistory
  <2>. DEFINE left == reading.left
  <2>1. left # <<>> /\ reading.listing # "none" /\ left \in Seq(Runs)
    <3>1. CASE ReadSnapshot
      BY <1>2, <3>1 DEF ReadSnapshot, ListingDone
    <3>2. CASE ReadHistory
      <4>1. reading.snapshot
        BY <3>2 DEF ReadHistory
      <4>. QED BY <1>2, <4>1 DEF MonitorInv, ReadingInv
    <3>. QED BY <1>13, <3>1, <3>2
  <2>2. PICK r : r = Head(left)
    OBVIOUS
  <2>3. /\ Tail(left) \in Seq(Runs) /\ r \in Runs /\ r \in ToSet(threads)
        /\ ToSet(left) = {r} \cup ToSet(Tail(left)) /\ ToSet(left) \subseteq ToSet(threads)
    <3>1. ToSet(left) \subseteq ToSet(threads)
      BY DEF MonitorInv, ReadingInv
    <3>2. ToSet(threads) \subseteq Runs
      BY <1>2, ListedAreRuns
    <3>. HIDE DEF left
    <3>. QED BY <2>1, <2>2, <3>1, <3>2, TailIsLeft
  <2>4. UNCHANGED <<observed, isActive, doubt>>
    BY <1>13 DEF ReadSnapshot, ReadHistory
  <2>5. ASSUME MonitorTypeOK', ReadingInv',
               reading'.listing = reading.listing, reading.misread \subseteq reading'.misread,
               ASSUME NEW q \in Runs, Accounted(q), q \notin reading'.misread
               PROVE  Accounted(q)'
        PROVE  MonitorInv'
    <3>1. ASSUME observed # NoRun PROVE observed.run \in Runs /\ Sound(observed, doubt)'
      BY <1>2, <2>4, <3>1 DEF MonitorInv, ShownInv, Sound, Passed, ToSet
    <3>2. ShownInv'
      <4>1. PICK q : q = observed.run
        OBVIOUS
      <4>2. SUFFICES ASSUME observed # NoRun, q \notin doubt, isActive # "no",
                            q \notin reading'.misread
                     PROVE  Accounted(q)'
        BY <2>4, <2>5, <3>1, <4>1 DEF MonitorInv, ShownInv
      <4>3. Accounted(q) /\ q \in Runs
        BY <2>1, <2>5, <3>1, <4>1, <4>2 DEF MonitorInv, ShownInv
      <4>. QED BY <2>5, <4>2, <4>3
    <3>. QED BY <1>1, <2>5, <3>2 DEF MonitorInv
  <2>6. CASE ReadSnapshot
    <3>1. CASE reading' = [reading EXCEPT !.snapshot = TRUE, !.pending = next[r]]
      <4>1. /\ reading'.listing = reading.listing /\ reading'.left = left
            /\ reading'.snapshot /\ reading'.pending = next[r]
            /\ reading'.found = reading.found /\ reading'.misread = reading.misread
        BY <1>2, <3>1
      <4>2. MonitorTypeOK'
        <5>1. next[r] \subseteq Nodes
          BY <2>3 DEF MonitorInv, StoreInv, StoreTypes
        <5>. QED BY <1>2, <2>4, <3>1, <5>1 DEF MonitorTypeOK
      <4>3. ReadingInv'
        <5>1. reading.found # NoRun => Sound(reading.found, reading.misread)'
          BY <1>2, <4>1 DEF MonitorInv, ReadingInv, Sound, Passed
        <5>. QED BY <1>2, <2>1, <2>3, <2>4, <4>1, <5>1 DEF MonitorInv, ReadingInv
      <4>4. ASSUME NEW q \in Runs, Accounted(q) PROVE Accounted(q)'
        BY <1>2, <2>2, <4>1, <4>4 DEF Accounted, MonitorInv, OverInv
      <4>. QED BY <2>5, <4>1, <4>2, <4>3, <4>4
    <3>2. CASE reading' = [reading EXCEPT !.left = Tail(left), !.misread = @ \cup {r}]
      <4>1. /\ reading'.listing = reading.listing /\ reading'.left = Tail(left)
            /\ reading'.snapshot = reading.snapshot /\ reading'.found = reading.found
            /\ reading'.misread = reading.misread \cup {r} /\ ~reading.snapshot
        BY <1>2, <2>6, <3>2 DEF ReadSnapshot
      <4>2. MonitorTypeOK'
        BY <1>2, <2>3, <2>4, <3>2 DEF MonitorTypeOK
      <4>3. ReadingInv'
        <5>1. reading.found # NoRun => Sound(reading.found, reading.misread)'
          BY <1>2, <4>1 DEF MonitorInv, ReadingInv, Sound, Passed
        <5>. QED BY <1>2, <2>1, <2>3, <2>4, <4>1, <5>1 DEF MonitorInv, ReadingInv
      <4>4. ASSUME NEW q \in Runs, Accounted(q), q # r PROVE Accounted(q)'
        BY <1>2, <2>3, <4>1, <4>4 DEF Accounted
      <4>. QED BY <2>5, <4>1, <4>2, <4>3, <4>4
    <3>. QED BY <2>2, <2>6, <3>1, <3>2 DEF ReadSnapshot
  <2>7. CASE ReadHistory
    <3>1. PICK i, whole, info :
              /\ i \in 0..Len(NodeSequence) /\ whole \in BOOLEAN
              /\ whole => i = 0
              /\ info = [run |-> r, completed |-> HistoryUpTo(r, i), pending |-> reading.pending]
              /\ reading' = [listing |-> reading.listing, left |-> Tail(left),
                             snapshot |-> FALSE, pending |-> {},
                             found |-> IF /\ reading.found = NoRun
                                          /\ IsRunning(info) <=> reading.listing = "active"
                                       THEN info ELSE reading.found,
                             misread |-> IF whole THEN reading.misread
                                         ELSE reading.misread \cup {r}]
      BY <2>2, <2>7 DEF ReadHistory
    <3>2. info \in Info /\ info.run = r /\ info # NoRun
      <4>1. HistoryUpTo(r, i) \subseteq Nodes
        BY <2>3 DEF HistoryUpTo, MonitorInv, StoreInv, StoreTypes
      <4>2. info.run # "none" /\ info.run = r
        BY <2>3, <3>1
      <4>. QED BY <1>2, <2>3, <3>1, <4>1, <4>2 DEF Info, NoRun
    <3>3. /\ Sound(info, reading'.misread)
          /\ whole => info.completed = saved[r]
      <4>1. i = 0 \/ r \in reading'.misread
        BY <3>1
      <4>2. info.completed = HistoryUpTo(r, i)
        BY <3>1
      <4>. QED BY <1>2, <2>3, <3>1, <3>2, <4>1, <4>2, HistoryIsSound DEF MonitorInv
    <3>4. /\ reading'.listing = reading.listing /\ reading'.left = Tail(left)
          /\ ~reading'.snapshot /\ reading.misread \subseteq reading'.misread
          /\ reading'.found \in {info, reading.found}
          /\ reading'.found = NoRun =>
                /\ reading.found = NoRun
                /\ ~(IsRunning(info) <=> reading.listing = "active")
          /\ reading.found # NoRun => reading'.found = reading.found
          /\ reading'.found = info /\ reading'.found # reading.found
                => (IsRunning(info) <=> reading.listing = "active")
          /\ r \notin reading'.misread => whole
      BY <3>1, <3>2
    <3>5. MonitorTypeOK'
      BY <1>2, <2>3, <2>4, <3>1, <3>2 DEF MonitorTypeOK
    <3>6. ReadingInv'
      <4>1. reading'.found # NoRun => Sound(reading'.found, reading'.misread)
        BY <3>3, <3>4 DEF MonitorInv, ReadingInv, Sound
      <4>2. reading'.found # NoRun => Sound(reading.found, reading.misread)'
        BY <1>2, <4>1 DEF Sound, Passed
      <4>3. reading'.listing = "completed" /\ reading'.found # NoRun
                => "output" \in reading'.found.completed
        BY <3>4 DEF IsRunning, MonitorInv, ReadingInv
      <4>. QED BY <1>2, <2>3, <2>4, <3>4, <4>2, <4>3 DEF MonitorInv, ReadingInv
    <3>7. ASSUME NEW q \in Runs, Accounted(q), q \notin reading'.misread
          PROVE  Accounted(q)'
      <4>0. reading.snapshot
        BY <2>7 DEF ReadHistory
      <4>1. CASE reading'.found # NoRun
        BY <1>2, <3>4, <3>7, <4>1 DEF Accounted
      <4>2. CASE reading'.found = NoRun /\ q # r
        BY <1>2, <2>3, <3>4, <3>7, <4>2 DEF Accounted
      <4>3. CASE reading'.found = NoRun /\ q = r
        <5>1. /\ info.completed = saved[r] /\ info.pending = reading.pending
              /\ ~(IsRunning(info) <=> reading.listing = "active")
          BY <3>1, <3>3, <3>4, <3>7, <4>3
        <5>2. CASE reading.listing = "active"
          BY <1>2, <3>4, <4>3, <5>1, <5>2 DEF Accounted, IsRunning
        <5>3. CASE reading.listing = "completed"
          BY <2>2, <3>7, <4>0, <4>3, <5>1, <5>3 DEF Accounted, IsRunning
        <5>. QED BY <1>2, <2>1, <5>2, <5>3
      <4>. QED BY <4>1, <4>2, <4>3
    <3>. QED BY <2>5, <3>4, <3>5, <3>6, <3>7
  <2>. QED BY <1>13, <2>6, <2>7
<1>. QED BY <1>8, <1>9, <1>10, <1>11, <1>12, <1>13 DEF Poll

LEMMA RunningKeepsMonitor ==
    ASSUME MonitorInv, RunsGoOn
    PROVE  MonitorInv'
<1>1. PICK r \in Runs :
        \/ (EnterGraph(r) \/ NodeEnds(r) \/ NextNode(r)) /\ Written(r)
        \/ Prepare(r) /\ UNCHANGED threads
  BY DEF RunsGoOn
<1>2. threads' \in Seq(Runs) /\ ToSet(threads) \subseteq ToSet(threads)'
  <2>1. CASE Written(r)
    BY <2>1, WrittenIsListed DEF MonitorInv, MonitorTypeOK
  <2>2. CASE UNCHANGED threads
    BY <2>2 DEF MonitorInv, MonitorTypeOK, ToSet
  <2>. QED BY <1>1, <2>1, <2>2
<1>3. RunSteps(r) /\ UNCHANGED <<observed, isActive, reading, doubt>>
  BY <1>1 DEF RunSteps, RunsGoOn, pollVars
<1>4. StoreInv' /\ OverInv' /\ \A q \in Runs : saved[q] \subseteq saved'[q]
  BY <1>3, StoreGoesOn, OverStays DEF MonitorInv
<1>5. MonitorTypeOK'
  BY <1>2, <1>3 DEF MonitorInv, MonitorTypeOK
<1>6. ASSUME NEW info \in Info, NEW misread, Sound(info, misread)
      PROVE  Sound(info, misread)' /\ info.run \in Runs
  <2>1. StoreInv /\ OverInv /\ threads \in Seq(Runs)
    BY DEF MonitorInv, MonitorTypeOK
  <2>2. info.run \in Runs
    BY <1>6, <2>1, ListedAreRuns DEF Sound
  <2>. QED BY <1>2, <1>3, <1>6, <2>1, <2>2, SoundStays
<1>7. ReadingInv'
  <2>1. ASSUME reading.found # NoRun PROVE Sound(reading.found, reading.misread)'
    <3>1. PICK info, misread : info = reading.found /\ misread = reading.misread
      OBVIOUS
    <3>2. info \in Info /\ Sound(info, misread)
      BY <2>1, <3>1 DEF MonitorInv, MonitorTypeOK, ReadingInv
    <3>3. Sound(info, misread)'
      BY <1>6, <3>2
    <3>4. info = reading'.found /\ misread = reading'.misread
      BY <1>3, <3>1
    <3>. QED BY <3>3, <3>4 DEF Sound, Passed
  <2>. QED BY <1>2, <1>3, <2>1 DEF MonitorInv, ReadingInv
<1>8. ShownInv'
  <2>0. SUFFICES ASSUME observed # NoRun PROVE ShownInv'
    BY <1>3 DEF ShownInv
  <2>1. PICK info, misread : info = observed /\ misread = doubt
    OBVIOUS
  <2>2. info \in Info /\ Sound(info, misread)
    BY <2>0, <2>1 DEF MonitorInv, MonitorTypeOK, ShownInv
  <2>3. Sound(info, misread)' /\ info.run \in Runs
    BY <1>6, <2>2
  <2>4. info = observed' /\ misread = doubt'
    BY <1>3, <2>1
  <2>5. Sound(observed, doubt)'
    BY <2>3, <2>4 DEF Sound, Passed
  <2>6. Accounted(info.run) => Accounted(info.run)'
    BY <1>3, <1>4, <2>3 DEF Accounted
  <2>7. Accounted(observed.run) => Accounted(observed.run)'
    BY <2>1, <2>4, <2>6 DEF Accounted
  <2>. QED BY <1>3, <2>0, <2>5, <2>7 DEF MonitorInv, ShownInv
<1>. QED BY <1>4, <1>5, <1>7, <1>8 DEF MonitorInv, MonitorTypeOK

LEMMA MonitorGoesOn == MonitorInv /\ [MonitorNext]_monitorVars => MonitorInv'
<1>1. ASSUME MonitorInv, UNCHANGED monitorVars PROVE MonitorInv'
  BY <1>1 DEF MonitorInv, MonitorTypeOK, ReadingInv, ShownInv, OverInv, Accounted, Sound,
     Passed, monitorVars, storeVars, pollVars, StoreInv, StoreTypes, Behind
<1>. QED BY <1>1, PollingKeepsMonitor, RunningKeepsMonitor DEF MonitorNext

\* What the live monitor says of runs is true when it says it (_poll_once of
\* live_monitor.py over get_active_runs and get_completed_runs), for any number of
\* runs that go on between any two reads of its listings, and short of reads of the
\* very run it shows that failed.
THEOREM MonitorTellsTheTruth == MonitorSpec => []MonitorIsTruthful
<1>1. ASSUME MonitorInv, observed # NoRun, NEW n \in Nodes
      PROVE  /\ isActive = "no" /\ observed.run \notin doubt => "output" \in observed.completed
             /\ NodeStatus(observed, n) = "skipped" /\ observed.run \notin doubt =>
                   n \notin saved[observed.run] /\ node[observed.run] # n
             /\ NodeStatus(observed, n) = "complete" => n \in saved[observed.run]
  <2>1. ShownInv /\ Sound(observed, doubt)
    BY <1>1 DEF MonitorInv, ShownInv
  <2>2. CASE n \in observed.completed
    BY <1>1, <2>1, <2>2 DEF Sound, ShownInv, NodeStatus
  <2>3. CASE n \notin observed.completed
    BY <1>1, <2>1, <2>3 DEF Sound, Passed, ShownInv, NodeStatus
  <2>. QED BY <2>2, <2>3
<1>2. Nodes # {}
  BY NodesAre
<1>3. MonitorInv => MonitorIsTruthful
  BY <1>1, <1>2 DEF MonitorIsTruthful, LastCompletedIsComplete, DiagramIsTrue
<1>. QED BY <1>3, MonitorBegins, MonitorGoesOn, PTL DEF MonitorSpec
=============================================================================
