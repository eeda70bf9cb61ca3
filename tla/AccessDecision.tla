--------------------------- MODULE AccessDecision ---------------------------
(***************************************************************************)
(* What the authorization port promises a caller of `check` while others    *)
(* change the relations: an allowed user held one of the wanted relations   *)
(* at some moment of the check, a denied one held none of them throughout,  *)
(* and a check that cannot be made decides nothing.  How many questions the *)
(* answer takes, in which order, and how often they fail is left open.      *)
(***************************************************************************)
CONSTANTS Users, Relations, Tasks

VARIABLES
    tuples,   \* who holds what: a set of <<user, relation>>
    decision  \* per task: what is asked, what it could have seen, the answer

vars == <<tuples, decision>>

Unasked == [user |-> "nobody", wanted |-> {}, ever |-> {}, always |-> {},
            answer |-> "none"]

HeldIn(store, u) == {r \in Relations : <<u, r>> \in store}

Init ==
    /\ tuples = {}
    /\ decision = [t \in Tasks |-> Unasked]

\* Whatever a task asked before, it may turn to something else.
Forget(t) ==
    /\ decision' = [decision EXCEPT ![t] = Unasked]
    /\ UNCHANGED tuples

Ask(t) ==
    /\ \E u \in Users, wanted \in (SUBSET Relations) \ {{}} :
          decision' = [decision EXCEPT ![t] =
              [user |-> u, wanted |-> wanted, ever |-> HeldIn(tuples, u),
               always |-> HeldIn(tuples, u), answer |-> "none"]]
    /\ UNCHANGED tuples

Answer(t, a) ==
    /\ decision[t].wanted # {} /\ decision[t].answer = "none"
    /\ decision' = [decision EXCEPT ![t].answer = a]
    /\ UNCHANGED tuples

Allow(t) ==
    /\ decision[t].wanted \cap decision[t].ever # {}
    /\ Answer(t, "allowed")

Deny(t) ==
    /\ decision[t].wanted \cap decision[t].always = {}
    /\ Answer(t, "denied")

Refuse(t) == Answer(t, "error")

\* Relations change; every open question remembers what it could have seen.
Change ==
    /\ tuples' \in SUBSET (Users \X Relations)
    /\ decision' = [t \in Tasks |->
          IF decision[t].wanted # {} /\ decision[t].answer = "none"
          THEN [decision[t] EXCEPT
                   !.ever = @ \cup HeldIn(tuples', decision[t].user),
                   !.always = @ \cap HeldIn(tuples', decision[t].user)]
          ELSE decision[t]]

Next ==
    \/ \E t \in Tasks : Forget(t) \/ Ask(t) \/ Allow(t) \/ Deny(t) \/ Refuse(t)
    \/ Change

Spec == Init /\ [][Next]_vars
=============================================================================
