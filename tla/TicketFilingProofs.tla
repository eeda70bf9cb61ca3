------------------------- MODULE TicketFilingProofs -------------------------
(***************************************************************************)
(* Safety of TicketFiling for any finite set of runs.                       *)
(***************************************************************************)
EXTENDS TicketFiling, FiniteSetTheorems, TLAPS

\* A run that has not sent its request yet has filed nothing.
FreshInv ==
    \A r \in Runs : at[r] \in {"idle", "find", "findAgain", "create"} => r \notin Filed

\* A run that began when a ticket was findable still finds one.
KnownInv ==
    \A r \in known : Findable # {} /\ r \notin Filed /\ at[r] \notin {"findAgain", "create"}

\* The labels of SIOPV among L, with the one a re-scan adds.
Marked(L) == (L \cap OwnLabel) \cup {"sla-breached"}

\* A re-scan is about a filed ticket, and what one about to write has read of
\* SIOPV's labels is still right but for the one it adds.
RescanInv ==
    \A r \in Runs :
        /\ at[r] \in {"fetch", "relabel"} => key[r] \in Filed
        /\ at[r] = "relabel" =>
            /\ key[r] \in overdue
            /\ Marked(labels[key[r]]) = Marked(read[r])

LabelInv ==
    /\ \A t \in Filed : "siopv" \in labels[t]
    /\ \A t \in Runs \ Filed : labels[t] = {}
    /\ \A t \in Runs : "sla-breached" \in labels[t] => t \in overdue

IInv == TypeOK /\ FreshInv /\ KnownInv /\ RescanInv /\ LabelInv

-----------------------------------------------------------------------------
\* Filing adds the run's ticket to the filed ones and no other.
LEMMA Filing ==
    ASSUME TypeOK, NEW r \in Runs, tickets' = Append(tickets, r)
    PROVE  /\ tickets' \in Seq(Runs)
           /\ Filed' = Filed \cup {r}
           /\ r \notin Filed /\ Cardinality(Filed) = Len(tickets)
                => Cardinality(Filed') = Len(tickets')
<1>1. /\ tickets \in Seq(Runs)
      /\ tickets' \in Seq(Runs)
      /\ Len(tickets') = Len(tickets) + 1
      /\ \A i \in 1..Len(tickets) : tickets'[i] = tickets[i]
      /\ tickets'[Len(tickets) + 1] = r
    BY DEF TypeOK
<1>2. Filed' = Filed \cup {r}
    BY <1>1 DEF Filed
<1>3. Filed \subseteq Runs
    BY <1>1 DEF Filed
<1>4. IsFiniteSet(Filed)
    BY <1>3, FilingAssumption, FS_Subset DEF FilingAssumption
<1>5. r \notin Filed => Cardinality(Filed') = Cardinality(Filed) + 1
    BY <1>2, <1>4, FS_AddElement
<1> QED BY <1>1, <1>2, <1>5

\* While every filed ticket carries `siopv`, a search finds whatever is indexed.
LEMMA IndexIsFound == IInv => Findable = index
    BY DEF IInv, TypeOK, LabelInv, Findable

LEMMA InitInv == Init => IInv
<1>1. SUFFICES ASSUME Init PROVE IInv
    OBVIOUS
<1>2. Filed = {}
    BY <1>1 DEF Init, Filed
<1>3. Cardinality(Filed) = Len(tickets)
    BY <1>1, <1>2, FS_EmptySet DEF Init
<1> QED BY <1>1, <1>2, <1>3 DEF Init, IInv, TypeOK, FreshInv, KnownInv, RescanInv, LabelInv

\* A request that leaves Jira as it is: it may move on to a state from which
\* nothing is filed, or on a miss, and take a filed ticket as its own.
LEMMA QuietInv ==
    ASSUME IInv, NEW r \in Runs, NEW s \in Requests \cup Outcomes,
           Goto(r, s), at[r] # "idle", UNCHANGED <<known, jira>>,
           key' \in [Runs -> Runs \cup {NoTicket}], read' \in [Runs -> SUBSET Label],
           \A x \in Runs \ {r} : key'[x] = key[x] /\ read'[x] = read[x],
           s \in {"findAgain", "create"} =>
               at[r] \in {"find", "findAgain"} /\ Findable = {},
           s = "find" => FALSE,
           s \in {"fetch", "relabel"} => key'[r] \in Filed,
           s = "relabel" =>
               /\ key'[r] \in overdue
               /\ Marked(labels[key'[r]]) = Marked(read'[r])
    PROVE  IInv'
<1>1. /\ Filed' = Filed
      /\ Findable' = Findable
    BY DEF jira, Filed, Findable
<1>2. TypeOK'
    BY <1>1 DEF IInv, TypeOK, Goto, jira
<1>3. FreshInv'
    BY <1>1 DEF IInv, TypeOK, Goto, FreshInv, Requests, Outcomes
<1>4. KnownInv'
    BY <1>1 DEF IInv, TypeOK, Goto, KnownInv
<1>5. RescanInv'
    BY <1>1 DEF IInv, TypeOK, Goto, RescanInv, jira
<1>6. LabelInv'
    BY <1>1 DEF IInv, LabelInv, jira
<1> QED BY <1>2, <1>3, <1>4, <1>5, <1>6 DEF IInv

LEMMA FailInv ==
    ASSUME IInv, NEW r \in Runs, at[r] # "idle", Fail(r)
    PROVE  IInv'
<1>1. /\ key' \in [Runs -> Runs \cup {NoTicket}]
      /\ read' \in [Runs -> SUBSET Label]
      /\ \A x \in Runs \ {r} : key'[x] = key[x] /\ read'[x] = read[x]
    BY DEF IInv, TypeOK, Fail, Raise
<1>2. "failed" \in Requests \cup Outcomes
    BY DEF Outcomes
<1> QED BY <1>1, <1>2, QuietInv DEF Fail, Raise

\* A search that finds a ticket, and one that does not.
LEMMA HitInv ==
    ASSUME IInv, NEW r \in Runs, NEW s \in {"reported", "fetch"},
           at[r] # "idle", Hit(r, s)
    PROVE  IInv'
<1>1. PICK t \in Findable : key' = [key EXCEPT ![r] = t]
    BY DEF Hit
<1>2. t \in Filed /\ t \in Runs
    BY <1>1 DEF Findable, IInv, TypeOK, Filed
<1>3. /\ key' \in [Runs -> Runs \cup {NoTicket}]
      /\ key'[r] \in Filed
      /\ \A x \in Runs \ {r} : key'[x] = key[x]
    BY <1>1, <1>2 DEF IInv, TypeOK
<1>4. read' = read /\ read \in [Runs -> SUBSET Label]
    BY DEF Hit, IInv, TypeOK
<1>5. s \in Requests \cup Outcomes
    BY DEF Requests, Outcomes
<1> QED BY <1>3, <1>4, <1>5, QuietInv DEF Hit

LEMMA MissInv ==
    ASSUME IInv, NEW r \in Runs, NEW s \in {"findAgain", "create"},
           at[r] \in {"find", "findAgain"}, Miss(r, s)
    PROVE  IInv'
<1>1. /\ key' = key /\ key \in [Runs -> Runs \cup {NoTicket}]
      /\ read' = read /\ read \in [Runs -> SUBSET Label]
    BY DEF Miss, IInv, TypeOK
<1>2. s \in Requests \cup Outcomes
    BY DEF Requests
<1> QED BY <1>1, <1>2, QuietInv DEF Miss

LEMMA BeginInv ==
    ASSUME IInv, NEW r \in Runs, Begin(r)
    PROVE  IInv'
<1>1. /\ Filed' = Filed
      /\ Findable' = Findable
    BY DEF Begin, jira, Filed, Findable
<1>2. r \notin Filed /\ at' = [at EXCEPT ![r] = "find"]
    BY DEF Begin, Goto, IInv, FreshInv
<1>3. TypeOK'
    BY <1>1, <1>2 DEF IInv, TypeOK, Begin, jira, Requests
<1>4. FreshInv'
    BY <1>1, <1>2 DEF IInv, TypeOK, FreshInv
<1>5. KnownInv'
    BY <1>1, <1>2 DEF IInv, TypeOK, KnownInv, Begin
<1>6. RescanInv'
    BY <1>1, <1>2 DEF IInv, TypeOK, RescanInv, Begin, jira
<1>7. LabelInv'
    BY <1>1 DEF IInv, LabelInv, Begin, jira
<1> QED BY <1>3, <1>4, <1>5, <1>6, <1>7 DEF IInv

LEMMA FindInv ==
    ASSUME IInv, NEW r \in Runs, Find(r)
    PROVE  IInv'
BY HitInv, MissInv, FailInv DEF Find

LEMMA FindAgainInv ==
    ASSUME IInv, NEW r \in Runs, FindAgain(r)
    PROVE  IInv'
BY HitInv, MissInv, FailInv DEF FindAgain

LEMMA CreateInv ==
    ASSUME IInv, NEW r \in Runs, Create(r)
    PROVE  IInv'
<1>1. CASE Fail(r)
    BY <1>1, FailInv DEF Create
<1>2. CASE ~Fail(r)
  <2>1. PICK review \in SUBSET {"needs-human-review"} :
            labels' = [labels EXCEPT ![r] = {"siopv"} \cup review]
    BY <1>2 DEF Create
  <2>2. /\ at[r] = "create" /\ r \notin Filed
        /\ tickets' = Append(tickets, r)
        /\ UNCHANGED <<known, overdue, done, index>>
    BY <1>2 DEF Create, IInv, FreshInv
  <2>3. /\ tickets' \in Seq(Runs)
        /\ Filed' = Filed \cup {r}
        /\ Cardinality(Filed') = Len(tickets')
    BY <2>2, Filing DEF IInv, TypeOK
  <2>4. PICK s \in {"reported", "failed"} : at' = [at EXCEPT ![r] = s]
    BY <1>2 DEF Create, Goto, Raise
  <2>5. /\ key' \in [Runs -> Runs \cup {NoTicket}]
        /\ read' \in [Runs -> SUBSET Label]
        /\ \A x \in Runs \ {r} : key'[x] = key[x] /\ read'[x] = read[x]
    BY <1>2 DEF Create, Goto, Raise, IInv, TypeOK
  <2>6. /\ labels' \in [Runs -> SUBSET Label]
        /\ \A x \in Runs \ {r} : labels'[x] = labels[x]
        /\ "siopv" \in labels'[r] /\ "sla-breached" \notin labels'[r]
    BY <2>1 DEF IInv, TypeOK, Label, OwnLabel
  <2>7. Filed \subseteq Runs
    BY DEF Filed, IInv, TypeOK
  <2>8. TypeOK'
    BY <2>2, <2>3, <2>4, <2>5, <2>6 DEF IInv, TypeOK, Outcomes
  <2>9. FreshInv'
    BY <2>3, <2>4 DEF IInv, TypeOK, FreshInv
  <2>10. KnownInv'
    <3>1. r \notin known
        BY <2>2 DEF IInv, KnownInv
    <3>2. Findable \subseteq Findable'
        BY <2>2, <2>6, <2>7 DEF Findable, IInv, TypeOK
    <3> QED BY <2>2, <2>3, <2>4, <3>1, <3>2 DEF IInv, TypeOK, KnownInv
  <2>11. RescanInv'
    BY <2>2, <2>3, <2>4, <2>5, <2>6, <2>7 DEF IInv, TypeOK, RescanInv
  <2>12. LabelInv'
    BY <2>2, <2>3, <2>6, <2>7 DEF IInv, LabelInv
  <2> QED BY <2>8, <2>9, <2>10, <2>11, <2>12 DEF IInv
<1> QED BY <1>1, <1>2

LEMMA FetchInv ==
    ASSUME IInv, NEW r \in Runs, Fetch(r)
    PROVE  IInv'
<1>1. /\ at[r] = "fetch" /\ key[r] \in Filed
      /\ key \in [Runs -> Runs \cup {NoTicket}]
      /\ read \in [Runs -> SUBSET Label]
      /\ labels \in [Runs -> SUBSET Label]
      /\ Filed \subseteq Runs
    BY DEF Fetch, IInv, RescanInv, TypeOK, Filed
<1>2. /\ "reported" \in Requests \cup Outcomes
      /\ "unchecked" \in Requests \cup Outcomes
      /\ "relabel" \in Requests \cup Outcomes
    BY DEF Requests, Outcomes
<1>3. CASE Goto(r, "relabel") /\ ~Fail(r)
  <2>1. /\ read' = [read EXCEPT ![r] = labels[key[r]]]
        /\ key[r] \in overdue
        /\ UNCHANGED <<key, known, jira>>
    BY <1>1, <1>3 DEF Fetch, Goto, IInv, TypeOK
  <2>2. /\ read' \in [Runs -> SUBSET Label]
        /\ read'[r] = labels[key[r]]
        /\ \A x \in Runs \ {r} : read'[x] = read[x]
    BY <1>1, <2>1
  <2> QED BY <1>1, <1>2, <1>3, <2>1, <2>2, QuietInv
<1>4. CASE UNCHANGED <<key, read, known, jira>> /\ Goto(r, "reported")
    BY <1>1, <1>2, <1>4, QuietInv
<1>5. CASE UNCHANGED <<key, read, known, jira>> /\ Goto(r, "unchecked")
    BY <1>1, <1>2, <1>5, QuietInv
<1>6. CASE Fail(r)
    BY <1>1, <1>6, FailInv
<1> QED BY <1>3, <1>4, <1>5, <1>6 DEF Fetch

LEMMA RelabelInv ==
    ASSUME IInv, NEW r \in Runs, Relabel(r)
    PROVE  IInv'
<1>1. CASE Fail(r)
    BY <1>1, FailInv DEF Relabel
<1>2. CASE ~Fail(r)
  <2>1. /\ at[r] = "relabel"
        /\ key[r] \in Filed /\ key[r] \in overdue
        /\ Marked(labels[key[r]]) = Marked(read[r])
        /\ Filed \subseteq Runs
    BY DEF Relabel, IInv, RescanInv, TypeOK, Filed
  <2>2. /\ labels' = [labels EXCEPT ![key[r]] = read[r] \cup {"sla-breached"}]
        /\ UNCHANGED <<known, tickets, overdue, done, index>>
    BY <1>2 DEF Relabel
  <2>3. PICK s \in {"comment", "failed"} : at' = [at EXCEPT ![r] = s]
    BY <1>2 DEF Relabel, Goto, Raise
  <2>4. /\ key' \in [Runs -> Runs \cup {NoTicket}]
        /\ read' \in [Runs -> SUBSET Label]
        /\ \A x \in Runs \ {r} : key'[x] = key[x] /\ read'[x] = read[x]
    BY <1>2 DEF Relabel, Raise, IInv, TypeOK
  <2>5. Filed' = Filed
    BY <2>2 DEF Filed
  <2>6. /\ labels' \in [Runs -> SUBSET Label]
        /\ \A t \in Runs \ {key[r]} : labels'[t] = labels[t]
        /\ \A t \in Runs : labels[t] \cap OwnLabel \subseteq labels'[t]
        /\ \A t \in Runs : Marked(labels'[t]) = Marked(labels[t])
    BY <2>1, <2>2 DEF IInv, TypeOK, Label, OwnLabel, Marked
  <2>7. TypeOK'
    BY <2>2, <2>3, <2>4, <2>5, <2>6 DEF IInv, TypeOK, Requests, Outcomes
  <2>8. FreshInv'
    BY <2>1, <2>3, <2>5 DEF IInv, TypeOK, FreshInv
  <2>9. KnownInv'
    <3>1. Findable \subseteq Findable'
        BY <2>1, <2>2, <2>6 DEF Findable, IInv, TypeOK, OwnLabel
    <3> QED BY <2>1, <2>2, <2>3, <2>5, <3>1 DEF IInv, TypeOK, KnownInv
  <2>10. RescanInv'
    <3>1. SUFFICES ASSUME NEW x \in Runs, at'[x] \in {"fetch", "relabel"}
                   PROVE  /\ key'[x] \in Filed'
                          /\ at'[x] = "relabel" =>
                              /\ key'[x] \in overdue'
                              /\ Marked(labels'[key'[x]]) = Marked(read'[x])
        BY DEF RescanInv
    <3>2. x # r /\ at'[x] = at[x] /\ key'[x] = key[x] /\ read'[x] = read[x]
        BY <2>3, <2>4, <3>1 DEF IInv, TypeOK
    <3>3. /\ key[x] \in Filed
          /\ at[x] = "relabel" =>
              key[x] \in overdue /\ Marked(labels[key[x]]) = Marked(read[x])
        BY <3>1, <3>2 DEF IInv, RescanInv
    <3>4. key[x] \in Runs
        BY <2>1, <3>3
    <3>5. Marked(labels'[key[x]]) = Marked(labels[key[x]])
        BY <2>6, <3>4
    <3> QED BY <2>2, <2>5, <3>2, <3>3, <3>5
  <2>11. LabelInv'
    BY <2>1, <2>2, <2>5, <2>6 DEF IInv, LabelInv, OwnLabel
  <2> QED BY <2>7, <2>8, <2>9, <2>10, <2>11 DEF IInv
<1> QED BY <1>1, <1>2

LEMMA CommentInv ==
    ASSUME IInv, NEW r \in Runs, Comment(r)
    PROVE  IInv'
<1>1. /\ key \in [Runs -> Runs \cup {NoTicket}]
      /\ read \in [Runs -> SUBSET Label]
      /\ "reported" \in Requests \cup Outcomes
    BY DEF IInv, TypeOK, Outcomes
<1> QED BY <1>1, FailInv, QuietInv DEF Comment

\* What happens in Jira meanwhile.
LEMMA JiraInv ==
    ASSUME IInv, NEW t \in Runs, Index(t) \/ FallDue(t) \/ Resolve(t) \/ LabelByHand(t)
    PROVE  IInv'
<1>1. /\ Filed' = Filed /\ Filed \subseteq Runs
      /\ UNCHANGED <<at, key, read, known, tickets>>
    BY DEF Index, FallDue, Resolve, LabelByHand, visits, Filed, IInv, TypeOK
<1>2. /\ labels' \in [Runs -> SUBSET Label]
      /\ \A u \in Runs : labels[u] \subseteq labels'[u]
      /\ \A u \in Runs : labels'[u] \cap OwnLabel = labels[u] \cap OwnLabel
      /\ \A u \in Runs \ Filed : labels'[u] = labels[u]
    BY DEF Index, FallDue, Resolve, LabelByHand, IInv, TypeOK, Label, OwnLabel
<1>3. /\ index \subseteq index' /\ overdue \subseteq overdue'
      /\ index' \subseteq Filed /\ overdue' \subseteq Filed /\ done' \subseteq Filed
    BY DEF Index, FallDue, Resolve, LabelByHand, IInv, TypeOK
<1>4. TypeOK'
    BY <1>1, <1>2, <1>3 DEF IInv, TypeOK
<1>5. FreshInv'
    BY <1>1 DEF IInv, FreshInv
<1>6. KnownInv'
  <2>1. Findable \subseteq Findable'
    BY <1>1, <1>2, <1>3 DEF Findable, IInv, TypeOK
  <2> QED BY <1>1, <2>1 DEF IInv, KnownInv
<1>7. RescanInv'
    BY <1>1, <1>2, <1>3 DEF IInv, RescanInv, Marked
<1>8. LabelInv'
    BY <1>1, <1>2, <1>3 DEF IInv, LabelInv, OwnLabel
<1> QED BY <1>4, <1>5, <1>6, <1>7, <1>8 DEF IInv

LEMMA StepInv == IInv /\ [Next]_vars => IInv'
<1>1. SUFFICES ASSUME IInv, [Next]_vars PROVE IInv'
    OBVIOUS
<1>2. CASE UNCHANGED vars
  <2>1. UNCHANGED <<Filed, Findable>>
    BY <1>2 DEF vars, jira, Filed, Findable
  <2> QED BY <1>1, <1>2, <2>1
        DEF vars, visits, jira, IInv, TypeOK, FreshInv, KnownInv, RescanInv, LabelInv
<1>3. CASE Next
    BY <1>1, <1>3, BeginInv, FindInv, FindAgainInv, CreateInv, FetchInv, RelabelInv,
       CommentInv, JiraInv DEF Next
<1> QED BY <1>1, <1>2, <1>3

-----------------------------------------------------------------------------
\* The inductive invariant holds throughout.
THEOREM IInvHolds == Spec => []IInv
BY InitInv, StepInv, PTL DEF Spec

\* The state keeps its shape; in particular no run files two tickets.
THEOREM TypeCorrect == Spec => []TypeOK
<1>1. IInv => TypeOK
    BY DEF IInv
<1> QED BY <1>1, IInvHolds, PTL

\* A run that began when a ticket could be found never files another.
THEOREM NoneFiledLate == Spec => []NoLateDuplicate
<1>1. IInv => NoLateDuplicate
    BY DEF IInv, KnownInv, NoLateDuplicate
<1> QED BY <1>1, IInvHolds, PTL

\* A ticket marked as breached is past its due date.
THEOREM BreachesAreReal == Spec => []BreachIsReal
<1>1. IInv => BreachIsReal
  <2>1. TypeOK => Filed \subseteq Runs
    BY DEF TypeOK, Filed
  <2> QED BY <2>1 DEF IInv, LabelInv, BreachIsReal
<1> QED BY <1>1, IInvHolds, PTL

\* Racing re-scans and analysts never cost a ticket a label that SIOPV put on it.
THEOREM OwnLabelsStay == Spec => OwnLabelsKept
<1>1. IInv /\ [Next]_vars
        => [\A t \in Runs : labels[t] \cap OwnLabel \subseteq labels'[t]]_vars
  <2>1. SUFFICES ASSUME IInv, Next, NEW t \in Runs
                 PROVE  labels[t] \cap OwnLabel \subseteq labels'[t]
    OBVIOUS
  <2>2. Filed \subseteq Runs /\ labels \in [Runs -> SUBSET Label]
    BY <2>1 DEF IInv, TypeOK, Filed
  <2>3. ASSUME NEW r \in Runs, Create(r) PROVE labels[t] \cap OwnLabel \subseteq labels'[t]
    <3>1. r \notin Filed \/ labels' = labels
        BY <2>1, <2>3 DEF Create, IInv, FreshInv
    <3> QED BY <2>1, <2>2, <2>3, <3>1 DEF Create, Fail, jira, IInv, LabelInv
  <2>4. ASSUME NEW r \in Runs, Relabel(r) PROVE labels[t] \cap OwnLabel \subseteq labels'[t]
    <3>1. at[r] = "relabel"
        BY <2>4 DEF Relabel
    <3>2. labels[key[r]] \cap OwnLabel \subseteq read[r] \cup {"sla-breached"}
        BY <2>1, <3>1 DEF IInv, RescanInv, Marked
    <3> QED BY <2>2, <2>4, <3>2 DEF Relabel, Fail, jira
  <2>5. ASSUME NEW u \in Runs, LabelByHand(u) PROVE labels[t] \cap OwnLabel \subseteq labels'[t]
    BY <2>2, <2>5 DEF LabelByHand
  <2>6. CASE UNCHANGED labels
    BY <2>6
  <2>7. CASE labels' # labels
    BY <2>1, <2>3, <2>4, <2>5, <2>7 DEF Next, Begin, Find, FindAgain, Hit, Miss, Fail,
       Fetch, Comment, Index, FallDue, Resolve, jira
  <2> QED BY <2>6, <2>7
<1> QED BY <1>1, IInvHolds, PTL DEF Spec, OwnLabelsKept

\* A label goes missing only through a re-scan that read the list before it was there.
THEOREM LossNeedsRace == Spec => LabelLossNeedsRace
<1>1. IInv /\ [Next]_vars
        => [\A t \in Runs : \A l \in labels[t] \ labels'[t] :
               \E r \in Runs : at[r] = "relabel" /\ key[r] = t /\ l \notin read[r]]_vars
  <2>1. SUFFICES ASSUME IInv, Next, NEW t \in Runs, NEW l \in labels[t] \ labels'[t]
                 PROVE  \E r \in Runs : at[r] = "relabel" /\ key[r] = t /\ l \notin read[r]
    OBVIOUS
  <2>2. labels \in [Runs -> SUBSET Label] /\ labels' # labels
    BY <2>1 DEF IInv, TypeOK
  <2>3. ASSUME NEW r \in Runs, Create(r) PROVE FALSE
    <3>1. r \notin Filed
        BY <2>1, <2>3 DEF Create, IInv, FreshInv
    <3> QED BY <2>1, <2>2, <2>3, <3>1 DEF Create, Fail, jira, IInv, LabelInv
  <2>4. ASSUME NEW u \in Runs, LabelByHand(u) PROVE FALSE
    BY <2>1, <2>2, <2>4 DEF LabelByHand
  <2>5. PICK r \in Runs : Relabel(r)
    BY <2>1, <2>2, <2>3, <2>4 DEF Next, Begin, Find, FindAgain, Hit, Miss, Fail,
       Fetch, Comment, Index, FallDue, Resolve, jira
  <2>6. /\ at[r] = "relabel"
        /\ labels' = [labels EXCEPT ![key[r]] = read[r] \cup {"sla-breached"}]
    BY <2>2, <2>5 DEF Relabel, Fail, jira
  <2> QED BY <2>1, <2>2, <2>6
<1> QED BY <1>1, IInvHolds, PTL DEF Spec, LabelLossNeedsRace

=============================================================================
