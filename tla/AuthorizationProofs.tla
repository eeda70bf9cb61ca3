-------------------------- MODULE AuthorizationProofs --------------------------
(***************************************************************************)
(* Proofs about Authorization, for any users, relations, mapping, retries   *)
(* and number of concurrent checks and writes.                              *)
(***************************************************************************)
EXTENDS Authorization, TLAPS

\* While a request is open, what the store has said throughout it says now, and
\* what it says now it has said.
HistoryInv ==
    \A t \in Checkers : check[t].op # "idle" /\ check[t].answer = "none" =>
        LET now == Basis(check[t].op, tuples, check[t].user) IN
        check[t].always \subseteq now /\ now \subseteq check[t].ever

\* A loop is at one of the relations it has left.  A check passed over relations
\* it saw unheld; a listing has in its result what it saw held.
LoopInv ==
    \A t \in Checkers :
        /\ check[t].op # "idle" => check[t].user \in Users
        /\ check[t].op \in {"check", "list"} => check[t].wanted # {}
        /\ check[t].op \in {"check", "list"} /\ check[t].answer = "none" =>
              check[t].asking \in check[t].left /\ check[t].left \subseteq check[t].wanted
        /\ check[t].op = "check" =>
              /\ check[t].answer # "listed"
              /\ check[t].answer = "none" =>
                    (check[t].wanted \ check[t].left) \cap check[t].always = {}
        /\ check[t].op = "list" =>
              /\ check[t].wanted = Relations
              /\ check[t].answer \in {"none", "listed"}
              /\ check[t].found \subseteq check[t].ever
              /\ \/ check[t].skipped
                 \/ check[t].always \subseteq
                       check[t].found \cup (IF check[t].answer = "none"
                                            THEN check[t].left ELSE {})
        /\ check[t].op = "read" =>
              /\ check[t].asking = "none"
              /\ check[t].answer = "listed" =>
                    /\ check[t].found \subseteq check[t].ever
                    /\ \/ check[t].skipped
                       \/ check[t].always \cap check[t].wanted \subseteq check[t].found
        /\ check[t].op = "idle" => check[t].answer = "none" /\ check[t].asking = "none"

AuthInv == TypeOK /\ HistoryInv /\ LoopInv

-----------------------------------------------------------------------------
(* The invariant *)

LEMMA BasisIs ==
    ASSUME NEW store, NEW u
    PROVE  /\ StoredIn(store, u) \in SUBSET Relations
           /\ HeldIn(store, u) \in SUBSET Relations
           /\ Basis("read", store, u) = StoredIn(store, u)
           /\ \A op : op # "read" => Basis(op, store, u) = HeldIn(store, u)
           /\ \A op : Basis(op, store, u) \in SUBSET Relations
BY DEF Basis, StoredIn, HeldIn

LEMMA AuthBegins == Init => AuthInv
BY AuthorizationAssumption
DEF Init, AuthInv, TypeOK, HistoryInv, LoopInv, NoCheck, NoWrite, Check, Write

\* What happens to one check: the others, the store and the writes stay.
LEMMA OneCheck ==
    ASSUME AuthInv, NEW t \in Checkers, NEW state \in Check, Become(t, state),
           UNCHANGED <<tuples, write>>,
           state.op # "idle",
           state.user \in Users,
           state.op \in {"check", "list"} => state.wanted # {},
           state.answer = "none" =>
               /\ state.always \subseteq Basis(state.op, tuples, state.user)
               /\ Basis(state.op, tuples, state.user) \subseteq state.ever,
           state.op \in {"check", "list"} /\ state.answer = "none" =>
               state.asking \in state.left /\ state.left \subseteq state.wanted,
           state.op = "check" =>
               /\ state.answer # "listed"
               /\ state.answer = "none" => (state.wanted \ state.left) \cap state.always = {},
           state.op = "list" =>
               /\ state.wanted = Relations
               /\ state.answer \in {"none", "listed"}
               /\ state.found \subseteq state.ever
               /\ \/ state.skipped
                  \/ state.always \subseteq
                        state.found \cup (IF state.answer = "none" THEN state.left ELSE {}),
           state.op = "read" =>
               /\ state.asking = "none"
               /\ state.answer = "listed" =>
                     /\ state.found \subseteq state.ever
                     /\ state.skipped \/ state.always \cap state.wanted \subseteq state.found
    PROVE  AuthInv'
<1>1. check' = [check EXCEPT ![t] = state]
  BY DEF Become
<1>2. TypeOK'
  BY <1>1 DEF AuthInv, TypeOK
<1>3. \A u \in Checkers : check'[u] = IF u = t THEN state ELSE check[u]
  BY <1>1 DEF AuthInv, TypeOK
<1>4. tuples' = tuples
  OBVIOUS
<1>5. HistoryInv'
  BY <1>3, <1>4 DEF AuthInv, HistoryInv
<1>6. LoopInv'
  BY <1>3 DEF AuthInv, LoopInv
<1>. QED BY <1>2, <1>5, <1>6 DEF AuthInv

LEMMA AskStep == ASSUME AuthInv, NEW t \in Checkers, Ask(t) PROVE AuthInv'
<1>. DEFINE Fresh(op, u, wanted, r) ==
       [NoCheck EXCEPT !.op = op, !.user = u, !.wanted = wanted, !.left = wanted,
                       !.asking = r, !.ever = Held(u), !.always = Held(u)]
<1>1. ASSUME NEW u \in Users, NEW wanted \in SUBSET Relations, NEW r \in wanted,
             NEW op \in {"check", "list"}, op = "list" => wanted = Relations,
             Become(t, Fresh(op, u, wanted, r)), UNCHANGED <<tuples, write>>
      PROVE  AuthInv'
  <2>. DEFINE state == Fresh(op, u, wanted, r)
  <2>1. Held(u) \in SUBSET Relations /\ Held(u) = Basis(op, tuples, u)
    BY BasisIs DEF Held
  <2>2. 0 \in 0..(MaxAttempts - 1)
    BY AuthorizationAssumption
  <2>3. NoCheck \in Check
    BY <2>2 DEF NoCheck, Check
  <2>4. state \in Check /\ state.answer = NoCheck.answer /\ state.found = NoCheck.found
    BY <1>1, <2>1, <2>3 DEF Check
  <2>5. /\ state.op = op /\ state.user = u /\ state.wanted = wanted
        /\ state.left = wanted /\ state.asking = r
        /\ state.ever = Held(u) /\ state.always = Held(u)
    BY <2>3 DEF Check
  <2>6. state.answer = "none" /\ state.found = {}
    BY <2>4 DEF NoCheck
  <2>. HIDE DEF state
  <2>7. Become(t, state)
    BY <1>1 DEF state
  <2>. HIDE DEF Fresh
  <2>. QED BY <1>1, <2>1, <2>4, <2>5, <2>6, <2>7, OneCheck
<1>2. CASE CheckAction(t)
  <2>1. PICK u \in Users, a \in Actions : StartCheck(t, u, Required[a])
    BY <1>2 DEF CheckAction, ResolveRelations
  <2>2. Required[a] \in SUBSET Relations
    BY AuthorizationAssumption
  <2>3. PICK r \in Required[a] : Become(t, Fresh("check", u, Required[a], r))
    BY <2>1 DEF StartCheck
  <2>. QED BY <1>1, <1>2, <2>2, <2>3 DEF CheckAction
<1>3. CASE CheckRelation(t)
  <2>1. PICK u \in Users, q \in Relations : StartCheck(t, u, {q})
    BY <1>3 DEF CheckRelation
  <2>2. PICK r \in {q} : Become(t, Fresh("check", u, {q}, r))
    BY <2>1 DEF StartCheck
  <2>. QED BY <1>1, <1>3, <2>2 DEF CheckRelation
<1>4. CASE ListUserRelations(t)
  <2>1. PICK u \in Users, r \in Relations : Become(t, Fresh("list", u, Relations, r))
    BY <1>4 DEF ListUserRelations
  <2>. QED BY <1>1, <1>4, <2>1 DEF ListUserRelations
<1>5. CASE ReadTuples(t)
  <2>. DEFINE Request(u, wanted) ==
         [NoCheck EXCEPT !.op = "read", !.user = u, !.wanted = wanted,
                         !.ever = Basis("read", tuples, u),
                         !.always = Basis("read", tuples, u)]
  <2>1. PICK u \in Users, wanted \in {Relations} \cup {{r} : r \in Relations} :
            Become(t, Request(u, wanted))
    BY <1>5 DEF ReadTuples
  <2>. DEFINE state == Request(u, wanted)
  <2>2. NoCheck \in Check
    BY AuthorizationAssumption DEF NoCheck, Check
  <2>3. wanted \in SUBSET Relations
    BY <2>1
  <2>4. Basis("read", tuples, u) \in SUBSET Relations
    BY BasisIs
  <2>5. state \in Check /\ state.asking = NoCheck.asking /\ state.answer = NoCheck.answer
    BY <2>2, <2>3, <2>4 DEF Check
  <2>6. /\ state.op = "read" /\ state.user = u /\ state.wanted = wanted
        /\ state.ever = Basis("read", tuples, u) /\ state.always = Basis("read", tuples, u)
    BY <2>2 DEF Check
  <2>7. state.asking = "none" /\ state.answer = "none"
    BY <2>5 DEF NoCheck
  <2>8. Become(t, state) /\ UNCHANGED <<tuples, write>>
    BY <1>5, <2>1 DEF ReadTuples
  <2>. HIDE DEF state
  <2>. QED BY <2>1, <2>5, <2>6, <2>7, <2>8, OneCheck
<1>. QED BY <1>2, <1>3, <1>4, <1>5 DEF Ask

\* A question under way is one of an open check or listing.
LEMMA AskedIsOpen ==
    ASSUME AuthInv, NEW t \in Checkers, Asked(t)
    PROVE  /\ check[t] \in Check /\ check[t].op \in {"check", "list"}
           /\ check[t].answer = "none"
           /\ check[t].user \in Users /\ check[t].wanted # {}
           /\ check[t].asking \in check[t].left /\ check[t].left \subseteq check[t].wanted
           /\ check[t].always \subseteq Held(check[t].user)
           /\ Held(check[t].user) \subseteq check[t].ever
<1>1. check[t] \in Check
  BY DEF AuthInv, TypeOK
<1>2. check[t].op \in {"check", "list"} /\ check[t].answer = "none"
  BY <1>1 DEF AuthInv, LoopInv, Asked, Check
<1>3. Basis(check[t].op, tuples, check[t].user) = Held(check[t].user)
  BY <1>2, BasisIs DEF Held
<1>. QED BY <1>1, <1>2, <1>3 DEF AuthInv, HistoryInv, LoopInv

LEMMA LoopStep == ASSUME AuthInv, NEW t \in Checkers, LoopGoesOn(t) PROVE AuthInv'
<1>1. Asked(t) /\ UNCHANGED <<tuples, write>>
  BY DEF LoopGoesOn, CheckAllowed, CheckDenied, CheckFails, Retry, ListAnswered, ListSkips,
         Answerable
<1>. DEFINE c == check[t]
<1>2. /\ c \in Check /\ c.op \in {"check", "list"} /\ c.answer = "none"
      /\ c.user \in Users /\ c.wanted # {}
      /\ c.asking \in c.left /\ c.left \subseteq c.wanted
      /\ c.always \subseteq Held(c.user) /\ Held(c.user) \subseteq c.ever
  BY <1>1, AskedIsOpen
<1>16. Held(c.user) = Basis(c.op, tuples, c.user) /\ Held(c.user) \in SUBSET Relations
  BY <1>2, BasisIs DEF Held
<1>3. c.op = "check" => (c.wanted \ c.left) \cap c.always = {}
  BY <1>2 DEF AuthInv, LoopInv
<1>4. c.op = "list" =>
         /\ c.wanted = Relations /\ c.found \subseteq c.ever
         /\ c.skipped \/ c.always \subseteq c.found \cup c.left
  BY <1>2 DEF AuthInv, LoopInv
<1>5. 0 \in 0..(MaxAttempts - 1)
  BY AuthorizationAssumption
<1>. HIDE DEF c
\* The check concludes.
<1>6. ASSUME NEW a \in {"allowed", "denied", "error"}, NEW f \in SUBSET Relations,
             NEW state, state = [c EXCEPT !.left = {}, !.asking = "none", !.tries = 0,
                                          !.answer = a, !.found = f],
             c.op = "check", Become(t, state)
      PROVE  AuthInv'
  <2>1. /\ state \in Check /\ state.op = "check" /\ state.user = c.user
        /\ state.wanted = c.wanted /\ state.answer = a
    BY <1>2, <1>5, <1>6 DEF Check
  <2>2. Become(t, state)
    BY <1>6
  <2>. QED BY <1>1, <1>2, <2>1, <2>2, OneCheck
\* The loop goes on, with or without a try behind it.
<1>7. ASSUME NEW left \in SUBSET c.left, NEW r \in left, NEW n \in 0..(MaxAttempts - 1),
             NEW f \in SUBSET Relations, NEW skip \in BOOLEAN,
             NEW state, state = [c EXCEPT !.left = left, !.asking = r, !.tries = n,
                                          !.found = f, !.skipped = skip],
             Become(t, state),
             c.op = "check" => (c.left \ left) \cap c.always = {},
             c.op = "list" => /\ f \subseteq c.ever
                              /\ skip \/ c.always \subseteq f \cup left
      PROVE  AuthInv'
  <2>1. /\ state \in Check /\ state.op = c.op /\ state.user = c.user
        /\ state.wanted = c.wanted /\ state.answer = "none" /\ state.left = left
        /\ state.asking = r /\ state.found = f /\ state.skipped = skip
        /\ state.ever = c.ever /\ state.always = c.always
    BY <1>2, <1>7 DEF Check
  <2>2. Become(t, state)
    BY <1>7
  <2>3. c.op = "check" => (c.wanted \ left) \cap c.always = {}
    BY <1>3, <1>7
  <2>4. /\ state.always \subseteq Basis(state.op, tuples, state.user)
        /\ Basis(state.op, tuples, state.user) \subseteq state.ever
    BY <1>2, <1>16, <2>1
  <2>5. state.op = "list" =>
           /\ state.wanted = Relations /\ state.found \subseteq state.ever
           /\ state.skipped \/ state.always \subseteq state.found \cup state.left
    BY <1>4, <1>7, <2>1
  <2>6. state.op = "check" => (state.wanted \ state.left) \cap state.always = {}
    BY <2>1, <2>3
  <2>7. /\ state.op \in {"check", "list"} /\ state.user \in Users /\ state.wanted # {}
        /\ state.asking \in state.left /\ state.left \subseteq state.wanted
    BY <1>2, <1>7, <2>1
  <2>. QED BY <1>1, <2>1, <2>2, <2>4, <2>5, <2>6, <2>7, OneCheck
\* The listing ends.
<1>8. ASSUME NEW f \in SUBSET Relations, NEW skip \in BOOLEAN,
             NEW state, state = [c EXCEPT !.left = {}, !.asking = "none", !.tries = 0,
                                          !.answer = "listed", !.found = f, !.skipped = skip],
             Become(t, state),
             c.op = "list", f \subseteq c.ever, skip \/ c.always \subseteq f
      PROVE  AuthInv'
  <2>1. /\ state \in Check /\ state.op = "list" /\ state.user = c.user
        /\ state.wanted = c.wanted /\ state.answer = "listed"
        /\ state.found = f /\ state.skipped = skip
        /\ state.ever = c.ever /\ state.always = c.always
    BY <1>2, <1>5, <1>8 DEF Check
  <2>2. Become(t, state)
    BY <1>8
  <2>. QED BY <1>1, <1>2, <1>4, <1>8, <2>1, <2>2, OneCheck
<1>9. CASE CheckAllowed(t)
  <2>1. c.op = "check" /\ {c.asking} \in SUBSET Relations
    BY <1>2, <1>9 DEF CheckAllowed, c, Check
  <2>2. Become(t, [c EXCEPT !.left = {}, !.asking = "none", !.tries = 0,
                            !.answer = "allowed", !.found = {c.asking}])
    BY <1>2, <1>9 DEF CheckAllowed, Concluded, c, Check
  <2>. QED BY <1>6, <2>1, <2>2
<1>10. CASE CheckDenied(t)
  <2>1. c.op = "check" /\ c.found \in SUBSET Relations /\ c.skipped \in BOOLEAN
    BY <1>2, <1>10 DEF CheckDenied, c, Check
  <2>2. c.asking \notin c.always
    BY <1>2, <1>10 DEF CheckDenied, HasAsked, c
  <2>3. CASE Become(t, Concluded(t, "denied"))
    <3>1. Become(t, [c EXCEPT !.left = {}, !.asking = "none", !.tries = 0,
                              !.answer = "denied", !.found = c.found])
      BY <1>2, <2>3 DEF Concluded, c, Check
    <3>. QED BY <1>6, <2>1, <3>1
  <2>4. CASE NextQuestion(t, c)
    <3>. DEFINE rest == c.left \ {c.asking}
    <3>1. PICK r \in rest : Become(t, [c EXCEPT !.left = rest, !.asking = r, !.tries = 0])
      BY <2>4 DEF NextQuestion, c
    <3>2. Become(t, [c EXCEPT !.left = rest, !.asking = r, !.tries = 0,
                              !.found = c.found, !.skipped = c.skipped])
      BY <1>2, <3>1 DEF Check
    <3>3. rest \in SUBSET c.left /\ (c.left \ rest) \cap c.always = {}
      BY <2>2
    <3>. HIDE DEF rest
    <3>. QED BY <1>5, <1>7, <2>1, <3>2, <3>3
  <2>. QED BY <1>10, <2>3, <2>4 DEF CheckDenied, c
<1>11. CASE CheckFails(t)
  <2>1. c.op = "check" /\ c.found \in SUBSET Relations
    BY <1>2, <1>11 DEF CheckFails, c, Check
  <2>2. Become(t, [c EXCEPT !.left = {}, !.asking = "none", !.tries = 0,
                            !.answer = "error", !.found = c.found])
    BY <1>2, <1>11 DEF CheckFails, Concluded, c, Check
  <2>. QED BY <1>6, <2>1, <2>2
<1>12. CASE Retry(t)
  <2>1. c.tries + 1 \in 0..(MaxAttempts - 1) /\ c.found \in SUBSET Relations
        /\ c.skipped \in BOOLEAN
    BY <1>2, <1>12, AuthorizationAssumption DEF Retry, c, Check
  <2>2. Become(t, [c EXCEPT !.left = c.left, !.asking = c.asking, !.tries = c.tries + 1,
                            !.found = c.found, !.skipped = c.skipped])
    BY <1>2, <1>12 DEF Retry, c, Check
  <2>. DEFINE left == c.left  n == c.tries + 1
  <2>3. left \in SUBSET c.left /\ c.asking \in left /\ (c.left \ left) \cap c.always = {}
    BY <1>2
  <2>4. c.op = "list" => c.found \subseteq c.ever
                         /\ (c.skipped \/ c.always \subseteq c.found \cup left)
    BY <1>4
  <2>5. Become(t, [c EXCEPT !.left = left, !.asking = c.asking, !.tries = n,
                            !.found = c.found, !.skipped = c.skipped])
    BY <2>2
  <2>6. n \in 0..(MaxAttempts - 1)
    BY <2>1
  <2>. HIDE DEF left, n
  <2>. QED BY <1>7, <2>1, <2>3, <2>4, <2>5, <2>6
\* One relation of a listing is dealt with.
<1>13. ASSUME c.op = "list", NEW f \in SUBSET Relations, NEW skip \in BOOLEAN,
              f \subseteq c.ever,
              skip \/ c.always \subseteq f \cup (c.left \ {c.asking}),
              ListStep(t, [c EXCEPT !.found = f, !.skipped = skip])
       PROVE  AuthInv'
  <2>. DEFINE rest == c.left \ {c.asking}
  <2>1. CASE Last(t) /\ Become(t, [[c EXCEPT !.found = f, !.skipped = skip]
                 EXCEPT !.left = {}, !.asking = "none", !.tries = 0, !.answer = "listed"])
    <3>1. Become(t, [c EXCEPT !.left = {}, !.asking = "none", !.tries = 0,
                              !.answer = "listed", !.found = f, !.skipped = skip])
      BY <1>2, <2>1 DEF Check
    <3>2. skip \/ c.always \subseteq f
      BY <1>13, <2>1 DEF Last, c
    <3>. QED BY <1>8, <1>13, <3>1, <3>2
  <2>2. CASE NextQuestion(t, [c EXCEPT !.found = f, !.skipped = skip])
    <3>1. PICK r \in rest : Become(t, [[c EXCEPT !.found = f, !.skipped = skip]
                                  EXCEPT !.left = rest, !.asking = r, !.tries = 0])
      BY <2>2 DEF NextQuestion, c
    <3>2. Become(t, [c EXCEPT !.left = rest, !.asking = r, !.tries = 0,
                              !.found = f, !.skipped = skip])
      BY <1>2, <3>1 DEF Check
    <3>3. rest \in SUBSET c.left /\ (skip \/ c.always \subseteq f \cup rest)
      BY <1>13
    <3>. HIDE DEF rest
    <3>. QED BY <1>5, <1>7, <1>13, <3>2, <3>3
  <2>. QED BY <1>13, <2>1, <2>2 DEF ListStep
<1>14. CASE ListAnswered(t)
  <2>. DEFINE f == c.found \cup ({c.asking} \cap Held(c.user))
  <2>1. c.op = "list" /\ c.skipped \in BOOLEAN /\ f \in SUBSET Relations
    BY <1>2, <1>14, <1>16 DEF ListAnswered, c, Check
  <2>2. ListStep(t, [c EXCEPT !.found = f])
    BY <1>14 DEF ListAnswered, c
  <2>3. [c EXCEPT !.found = f] = [c EXCEPT !.found = f, !.skipped = c.skipped]
    BY <1>2 DEF Check
  <2>4. f \subseteq c.ever /\ (c.skipped \/ c.always \subseteq f \cup (c.left \ {c.asking}))
    BY <1>2, <1>4, <2>1
  <2>. HIDE DEF f
  <2>. QED BY <1>13, <2>1, <2>2, <2>3, <2>4
<1>15. CASE ListSkips(t)
  <2>1. c.op = "list" /\ c.found \in SUBSET Relations
    BY <1>2, <1>15 DEF ListSkips, c, Check
  <2>2. ListStep(t, [c EXCEPT !.skipped = TRUE])
    BY <1>15 DEF ListSkips, c
  <2>3. [c EXCEPT !.skipped = TRUE] = [c EXCEPT !.found = c.found, !.skipped = TRUE]
    BY <1>2 DEF Check
  <2>. QED BY <1>4, <1>13, <2>1, <2>2, <2>3
<1>. QED BY <1>9, <1>10, <1>11, <1>12, <1>14, <1>15 DEF LoopGoesOn

\* A reading under way is one of an open request.
LEMMA ReadingIsOpen ==
    ASSUME AuthInv, NEW t \in Checkers, Reading(t)
    PROVE  /\ check[t] \in Check /\ check[t].op = "read" /\ check[t].asking = "none"
           /\ check[t].answer = "none" /\ check[t].user \in Users
           /\ check[t].always \subseteq StoredIn(tuples, check[t].user)
           /\ StoredIn(tuples, check[t].user) \subseteq check[t].ever
BY BasisIs DEF Reading, AuthInv, TypeOK, HistoryInv, LoopInv

LEMMA ReadStep ==
    ASSUME AuthInv, NEW t \in Checkers, ReadAnswered(t) \/ ReadFails(t) PROVE AuthInv'
<1>1. Reading(t) /\ UNCHANGED <<tuples, write>>
  BY DEF ReadAnswered, ReadFails
<1>. DEFINE c == check[t]
<1>2. /\ c \in Check /\ c.op = "read" /\ c.asking = "none" /\ c.user \in Users
      /\ c.always \subseteq StoredIn(tuples, c.user) /\ StoredIn(tuples, c.user) \subseteq c.ever
  BY <1>1, ReadingIsOpen
<1>. HIDE DEF c
<1>3. CASE ReadAnswered(t)
  <2>1. PICK page \in SUBSET (c.wanted \cap StoredIn(tuples, c.user)) :
            Become(t, [c EXCEPT !.found = page,
                                !.skipped = (page # c.wanted \cap StoredIn(tuples, c.user)),
                                !.answer = "listed"])
    BY <1>3 DEF ReadAnswered, c
  <2>. DEFINE skip == page # c.wanted \cap StoredIn(tuples, c.user)
              state == [c EXCEPT !.found = page, !.skipped = skip, !.answer = "listed"]
  <2>2. skip \in BOOLEAN /\ (skip \/ c.always \cap c.wanted \subseteq page)
        /\ page \subseteq c.ever /\ page \in SUBSET Relations
    BY <1>2, BasisIs
  <2>3. Become(t, state)
    BY <2>1
  <2>. HIDE DEF skip
  <2>4. /\ state \in Check /\ state.op = "read" /\ state.asking = "none"
        /\ state.user = c.user /\ state.wanted = c.wanted /\ state.answer = "listed"
        /\ state.found = page /\ state.skipped = skip
        /\ state.ever = c.ever /\ state.always = c.always
    BY <1>2, <2>2 DEF Check
  <2>. HIDE DEF state
  <2>. QED BY <1>1, <1>2, <2>2, <2>3, <2>4, OneCheck
<1>4. CASE ReadFails(t)
  <2>. DEFINE state == [c EXCEPT !.answer = "error"]
  <2>1. /\ state \in Check /\ state.op = "read" /\ state.asking = "none"
        /\ state.user = c.user /\ state.answer = "error"
    BY <1>2 DEF Check
  <2>2. Become(t, state)
    BY <1>4 DEF ReadFails, c
  <2>. HIDE DEF state
  <2>. QED BY <1>1, <1>2, <2>1, <2>2, OneCheck
<1>. QED BY <1>3, <1>4

LEMMA ProceedStep == ASSUME AuthInv, NEW t \in Checkers, Proceed(t) PROVE AuthInv'
BY LoopStep, ReadStep DEF Proceed

LEMMA WriteTypes ==
    ASSUME AuthInv, NEW w \in Writers, NEW state \in Write, Report(w, state),
           UNCHANGED <<tuples, check>>
    PROVE  AuthInv'
BY DEF AuthInv, TypeOK, HistoryInv, LoopInv, Report

LEMMA AdministerStep == ASSUME AuthInv, NEW w \in Writers, Administer(w) PROVE AuthInv'
<1>1. write[w] \in Write /\ NoWrite \in Write
  BY DEF AuthInv, TypeOK, NoWrite, Write
<1>2. ASSUME NEW op \in {"grant", "revoke"}, NEW sizes, StartWrite(w, op, sizes)
      PROVE  AuthInv'
  <2>1. PICK batch \in SUBSET Grants :
            Report(w, [NoWrite EXCEPT !.op = op, !.batch = batch])
    BY <1>2 DEF StartWrite
  <2>2. [NoWrite EXCEPT !.op = op, !.batch = batch] \in Write
    BY <1>1 DEF Write
  <2>. QED BY <1>2, <2>1, <2>2, WriteTypes DEF StartWrite
<1>3. ASSUME NEW op, NEW store \in SUBSET Grants, Apply(w, op, store)
      PROVE  AuthInv'
  <2>1. write' \in [Writers -> Write]
    <3>1. [write[w] EXCEPT !.took = TRUE] \in Write
      BY <1>1 DEF Write
    <3>. QED BY <1>3, <3>1 DEF Apply, Report, AuthInv, TypeOK
  <2>. DEFINE now(t) == Basis(check[t].op, store, check[t].user)
              open(t) == check[t].answer = "none" /\ check[t].op # "idle"
              seen(t) == [check[t] EXCEPT !.ever = @ \cup now(t), !.always = @ \cap now(t)]
  <2>2. tuples' = store /\ check' = [t \in Checkers |-> IF open(t) THEN seen(t) ELSE check[t]]
    BY <1>3 DEF Apply
  <2>3. ASSUME NEW t \in Checkers
        PROVE  /\ check'[t] \in Check
               /\ check'[t].op = check[t].op /\ check'[t].user = check[t].user
               /\ check'[t].wanted = check[t].wanted /\ check'[t].left = check[t].left
               /\ check'[t].asking = check[t].asking /\ check'[t].found = check[t].found
               /\ check'[t].skipped = check[t].skipped /\ check'[t].answer = check[t].answer
               /\ check[t].ever \subseteq check'[t].ever
               /\ check'[t].always \subseteq check[t].always
               /\ open(t) => now(t) \subseteq check'[t].ever /\ check'[t].always \subseteq now(t)
    <3>1. check[t] \in Check
      BY DEF AuthInv, TypeOK
    <3>2. CASE open(t)
      <4>1. PICK N \in SUBSET Relations : N = now(t)
        BY BasisIs
      <4>2. check'[t] = [check[t] EXCEPT !.ever = check[t].ever \cup N,
                                         !.always = check[t].always \cap N]
        BY <2>2, <3>2, <4>1
      <4>. HIDE DEF now, open
      <4>3. check'[t] \in Check
        BY <3>1, <4>2 DEF Check
      <4>4. check'[t].ever = check[t].ever \cup N /\ check'[t].always = check[t].always \cap N
        BY <3>1, <4>2 DEF Check
      <4>5. /\ check'[t].op = check[t].op /\ check'[t].user = check[t].user
            /\ check'[t].wanted = check[t].wanted /\ check'[t].left = check[t].left
            /\ check'[t].asking = check[t].asking /\ check'[t].found = check[t].found
            /\ check'[t].skipped = check[t].skipped /\ check'[t].answer = check[t].answer
        BY <3>1, <4>2 DEF Check
      <4>. QED BY <4>1, <4>3, <4>4, <4>5
    <3>3. CASE ~open(t)
      <4>1. check'[t] = check[t]
        BY <2>2, <3>3
      <4>. QED BY <3>1, <3>3, <4>1
    <3>. QED BY <3>2, <3>3
  <2>4. check' \in [Checkers -> Check]
    BY <2>2, <2>3
  <2>5. ASSUME NEW t \in Checkers
        PROVE  Basis(check'[t].op, tuples', check'[t].user) = now(t)
    BY <2>2, <2>3
  <2>. HIDE DEF seen, now
  <2>6. HistoryInv'
    BY <2>3, <2>5 DEF HistoryInv
  <2>7. LoopInv'
    BY <2>3 DEF AuthInv, LoopInv
  <2>. QED BY <1>3, <2>1, <2>2, <2>4, <2>6, <2>7 DEF AuthInv, TypeOK
<1>4. write[w].batch \in SUBSET Grants /\ tuples \in SUBSET Grants
  BY <1>1 DEF AuthInv, TypeOK, Write
<1>5. CASE TuplesWritten(w) \/ TuplesDeleted(w)
  BY <1>3, <1>4, <1>5 DEF TuplesWritten, TuplesDeleted
<1>6. CASE WriteSucceeds(w)
  <2>1. [write[w] EXCEPT !.batch = {}, !.report = "success"] \in Write
    BY <1>1 DEF Write
  <2>. QED BY <1>6, <2>1, WriteTypes DEF WriteSucceeds
<1>7. CASE WriteFails(w)
  <2>1. [write[w] EXCEPT !.batch = {}, !.report = "failed"] \in Write
    BY <1>1 DEF Write
  <2>. QED BY <1>7, <2>1, WriteTypes DEF WriteFails
<1>. QED
  BY <1>2, <1>5, <1>6, <1>7
  DEF Administer, GrantPermission, RevokePermission, GrantPermissionsBatch,
      RevokePermissionsBatch

LEMMA AuthInvHolds == Spec => []AuthInv
<1>1. ASSUME AuthInv, [Next]_vars PROVE AuthInv'
  <2>1. CASE UNCHANGED vars
    BY <1>1, <2>1 DEF vars, AuthInv, TypeOK, HistoryInv, LoopInv
  <2>2. CASE Next
    BY <1>1, <2>2, AskStep, ProceedStep, AdministerStep DEF Next
  <2>. QED BY <1>1, <2>1, <2>2
<1>. QED BY <1>1, AuthBegins, PTL DEF Spec

-----------------------------------------------------------------------------
(* What the listing and the checks promise *)

\* A finished listing (list_user_relations) names only relations the user held
\* by the model while it ran, a reading (read_tuples) only tuples stored, and
\* each all of those asked for that were there throughout, unless one was passed
\* over or the page was not the last, whatever the model of the relations and
\* whoever grants and revokes meanwhile.
THEOREM ListingsAreHonest == Spec => []ListingIsHonest
<1>1. AuthInv => ListingIsHonest
  <2>. SUFFICES ASSUME AuthInv, NEW t \in Checkers, check[t].answer = "listed"
                PROVE  /\ check[t].found \subseteq check[t].ever
                       /\ check[t].skipped \/ check[t].always \cap check[t].wanted \subseteq check[t].found
    BY DEF ListingIsHonest
  <2>1. check[t].op \in {"list", "read"}
    BY DEF AuthInv, TypeOK, Check, LoopInv
  <2>. QED BY <2>1 DEF AuthInv, LoopInv
<1>. QED BY <1>1, AuthInvHolds, PTL

\* What one check amounts to as a decision.
Judged(c) ==
    IF c.op # "check" THEN Decisions!Unasked
    ELSE [user |-> c.user, wanted |-> c.wanted, ever |-> c.ever, always |-> c.always,
          answer |-> c.answer]

LEMMA DecisionIs == Decision = [t \in Checkers |-> Judged(check[t])]
BY DEF Decision, Judged, Decisions!Unasked

\* The refinement sees the relations computed, and its store moves with them.
LEMMA ComputedIs ==
    ASSUME NEW u \in Users
    PROVE  /\ Decisions!HeldIn(Computed, u) = Held(u)
           /\ Decisions!HeldIn(Computed', u) = HeldIn(tuples', u)
BY DEF Decisions!HeldIn, Computed, Held, HeldIn

LEMMA ComputedStays == UNCHANGED tuples => UNCHANGED Computed
BY DEF Computed, Held, HeldIn

LEMMA OneDecision ==
    ASSUME AuthInv, NEW t \in Checkers, NEW state, Become(t, state)
    PROVE  Decision' = [Decision EXCEPT ![t] = Judged(state)]
<1>1. check' = [check EXCEPT ![t] = state] /\ DOMAIN check = Checkers
  BY DEF Become, AuthInv, TypeOK
<1>2. Decision' = [u \in Checkers |-> Judged(check'[u])]
  BY DEF Decision, Judged, Decisions!Unasked
<1>3. \A u \in Checkers : check'[u] = IF u = t THEN state ELSE check[u]
  BY <1>1
<1>. HIDE DEF Judged
<1>. QED BY <1>2, <1>3, DecisionIs

LEMMA AskDecides ==
    ASSUME AuthInv, NEW t \in Checkers, Ask(t)
    PROVE  Decisions!Ask(t) \/ Decisions!Forget(t)
<1>1. ASSUME NEW u \in Users, NEW wanted \in (SUBSET Relations) \ {{}}, StartCheck(t, u, wanted),
             UNCHANGED tuples
      PROVE  Decisions!Ask(t)
  <2>1. PICK r \in wanted :
            Become(t, [NoCheck EXCEPT !.op = "check", !.user = u, !.wanted = wanted,
                               !.left = wanted, !.asking = r,
                               !.ever = Held(u), !.always = Held(u)])
    BY <1>1 DEF StartCheck
  <2>. DEFINE state == [NoCheck EXCEPT !.op = "check", !.user = u, !.wanted = wanted,
                               !.left = wanted, !.asking = r,
                               !.ever = Held(u), !.always = Held(u)]
  <2>2. /\ state.op = "check" /\ state.user = u /\ state.wanted = wanted
        /\ state.ever = Held(u) /\ state.always = Held(u) /\ state.answer = "none"
    BY DEF NoCheck
  <2>. HIDE DEF state
  <2>3. Judged(state) = [user |-> u, wanted |-> wanted, ever |-> Held(u), always |-> Held(u),
                         answer |-> "none"]
    BY <2>2 DEF Judged
  <2>4. Decision' = [Decision EXCEPT ![t] = Judged(state)]
    BY <2>1, OneDecision DEF state
  <2>5. Decisions!HeldIn(Computed, u) = Held(u)
    BY ComputedIs
  <2>. QED BY <1>1, <2>3, <2>4, <2>5, ComputedStays DEF Decisions!Ask
<1>2. CASE CheckAction(t)
  BY <1>1, <1>2, AuthorizationAssumption DEF CheckAction, ResolveRelations
<1>3. CASE CheckRelation(t)
  BY <1>1, <1>3 DEF CheckRelation
<1>4. CASE ListUserRelations(t)
  <2>1. PICK u \in Users, r \in Relations :
            Become(t, [NoCheck EXCEPT !.op = "list", !.user = u, !.wanted = Relations,
                               !.left = Relations, !.asking = r,
                               !.ever = Held(u), !.always = Held(u)])
    BY <1>4 DEF ListUserRelations
  <2>. DEFINE state == [NoCheck EXCEPT !.op = "list", !.user = u, !.wanted = Relations,
                               !.left = Relations, !.asking = r,
                               !.ever = Held(u), !.always = Held(u)]
  <2>2. state.op = "list"
    BY DEF NoCheck
  <2>. HIDE DEF state
  <2>3. Judged(state) = Decisions!Unasked
    BY <2>2 DEF Judged
  <2>4. Decision' = [Decision EXCEPT ![t] = Judged(state)]
    BY <2>1, OneDecision DEF state
  <2>. QED BY <1>4, <2>3, <2>4, ComputedStays DEF ListUserRelations, Decisions!Forget
<1>5. CASE ReadTuples(t)
  <2>1. PICK u \in Users, wanted \in {Relations} \cup {{r} : r \in Relations} :
            Become(t, [NoCheck EXCEPT !.op = "read", !.user = u, !.wanted = wanted,
                                      !.ever = Basis("read", tuples, u),
                                      !.always = Basis("read", tuples, u)])
    BY <1>5 DEF ReadTuples
  <2>. DEFINE state == [NoCheck EXCEPT !.op = "read", !.user = u, !.wanted = wanted,
                                      !.ever = Basis("read", tuples, u),
                                      !.always = Basis("read", tuples, u)]
  <2>2. state.op = "read"
    BY DEF NoCheck
  <2>. HIDE DEF state
  <2>3. Judged(state) = Decisions!Unasked
    BY <2>2 DEF Judged
  <2>4. Decision' = [Decision EXCEPT ![t] = Judged(state)]
    BY <2>1, OneDecision DEF state
  <2>. QED BY <1>5, <2>3, <2>4, ComputedStays DEF ReadTuples, Decisions!Forget
<1>. QED BY <1>2, <1>3, <1>4, <1>5 DEF Ask

LEMMA LoopDecides ==
    ASSUME AuthInv, NEW t \in Checkers, LoopGoesOn(t)
    PROVE  \/ Decisions!Allow(t) \/ Decisions!Deny(t) \/ Decisions!Refuse(t)
           \/ UNCHANGED Decisions!vars
<1>. DEFINE c == check[t]
<1>1. Asked(t) /\ UNCHANGED Computed
  BY ComputedStays
  DEF LoopGoesOn, CheckAllowed, CheckDenied, CheckFails, Retry, ListAnswered, ListSkips,
      Answerable
<1>2. /\ c \in Check /\ c.op \in {"check", "list"} /\ c.answer = "none" /\ c.wanted # {}
      /\ c.asking \in c.left /\ c.left \subseteq c.wanted
      /\ c.always \subseteq Held(c.user) /\ Held(c.user) \subseteq c.ever
  BY <1>1, AskedIsOpen
<1>3. c.op = "check" => (c.wanted \ c.left) \cap c.always = {}
  BY <1>2 DEF AuthInv, LoopInv
<1>4. Decision[t] = Judged(c) /\ t \in DOMAIN Decision
  BY DecisionIs
<1>. HIDE DEF c
\* An answer is one step of the decision; everything else is none.
<1>5. ASSUME NEW a, NEW state, Become(t, state), c.op = "check", state.op = "check",
             state.user = c.user, state.wanted = c.wanted, state.ever = c.ever,
             state.always = c.always, state.answer = a
      PROVE  Decisions!Answer(t, a)
  <2>1. Decision[t] = [user |-> c.user, wanted |-> c.wanted, ever |-> c.ever,
                       always |-> c.always, answer |-> "none"]
    BY <1>2, <1>4, <1>5 DEF Judged
  <2>2. Judged(state) = [Decision[t] EXCEPT !.answer = a]
    BY <1>5, <2>1 DEF Judged
  <2>3. Decision' = [Decision EXCEPT ![t] = [Decision[t] EXCEPT !.answer = a]]
    BY <1>5, <2>2, OneDecision
  <2>. QED BY <1>1, <1>2, <2>1, <2>3 DEF Decisions!Answer
<1>6. ASSUME NEW state, Become(t, state), state.op = c.op, state.op = "check" =>
             /\ state.user = c.user /\ state.wanted = c.wanted /\ state.ever = c.ever
             /\ state.always = c.always /\ state.answer = c.answer
      PROVE  UNCHANGED Decisions!vars
  <2>1. Judged(state) = Judged(c)
    BY <1>2, <1>6 DEF Judged
  <2>2. Decision' = [Decision EXCEPT ![t] = Decision[t]]
    BY <1>4, <1>6, <2>1, OneDecision
  <2>3. [Decision EXCEPT ![t] = Decision[t]] = Decision
    BY DecisionIs
  <2>. QED BY <1>1, <2>2, <2>3 DEF Decisions!vars
<1>7. ASSUME NEW a, Become(t, Concluded(t, a)), c.op = "check"
      PROVE  Decisions!Answer(t, a)
  <2>. DEFINE state == Concluded(t, a)
  <2>1. /\ state.op = "check" /\ state.user = c.user /\ state.wanted = c.wanted
        /\ state.ever = c.ever /\ state.always = c.always /\ state.answer = a
    BY <1>2, <1>7 DEF Concluded, c, Check
  <2>. HIDE DEF state
  <2>. QED BY <1>5, <1>7, <2>1 DEF state
<1>8. ASSUME NEW base, base = c, NextQuestion(t, base) PROVE UNCHANGED Decisions!vars
  <2>1. PICK r \in c.left \ {c.asking} :
            Become(t, [c EXCEPT !.left = c.left \ {c.asking}, !.asking = r, !.tries = 0])
    BY <1>8 DEF NextQuestion, c
  <2>. DEFINE state == [c EXCEPT !.left = c.left \ {c.asking}, !.asking = r, !.tries = 0]
  <2>2. /\ state.op = c.op /\ state.user = c.user /\ state.wanted = c.wanted
        /\ state.ever = c.ever /\ state.always = c.always /\ state.answer = c.answer
    BY <1>2 DEF Check
  <2>. HIDE DEF state
  <2>. QED BY <1>6, <2>1, <2>2 DEF state
<1>9. CASE CheckAllowed(t)
  <2>. DEFINE state == [Concluded(t, "allowed") EXCEPT !.found = {c.asking}]
  <2>1. c.op = "check" /\ Become(t, state) /\ c.asking \in Held(c.user)
    BY <1>2, <1>9 DEF CheckAllowed, HasAsked, c, Check
  <2>2. /\ state.op = "check" /\ state.user = c.user /\ state.wanted = c.wanted
        /\ state.ever = c.ever /\ state.always = c.always /\ state.answer = "allowed"
    BY <1>2, <2>1 DEF Concluded, c, Check
  <2>. HIDE DEF state
  <2>3. Decisions!Answer(t, "allowed")
    BY <1>5, <2>1, <2>2
  <2>4. Decision[t].wanted = c.wanted /\ Decision[t].ever = c.ever
    BY <1>4, <2>1 DEF Judged
  <2>. QED BY <1>2, <2>1, <2>3, <2>4 DEF Decisions!Allow
<1>10. CASE CheckDenied(t)
  <2>1. c.op = "check" /\ c.asking \notin Held(c.user)
    BY <1>2, <1>10 DEF CheckDenied, HasAsked, c, Check
  <2>2. CASE Last(t) /\ Become(t, Concluded(t, "denied"))
    <3>1. c.wanted \cap c.always = {}
      BY <1>2, <1>3, <2>1, <2>2 DEF Last, c
    <3>2. Decision[t].wanted = c.wanted /\ Decision[t].always = c.always
      BY <1>4, <2>1 DEF Judged
    <3>. QED BY <1>7, <2>1, <2>2, <3>1, <3>2 DEF Decisions!Deny
  <2>. QED BY <1>8, <1>10, <2>2 DEF CheckDenied, c
<1>11. CASE CheckFails(t)
  BY <1>7, <1>11 DEF CheckFails, Decisions!Refuse, c
<1>12. CASE Retry(t)
  <2>. DEFINE state == [c EXCEPT !.tries = @ + 1]
  <2>1. /\ state.op = c.op /\ state.user = c.user /\ state.wanted = c.wanted
        /\ state.ever = c.ever /\ state.always = c.always /\ state.answer = c.answer
    BY <1>2 DEF Check
  <2>2. Become(t, state)
    BY <1>12 DEF Retry, c
  <2>. HIDE DEF state
  <2>. QED BY <1>6, <2>1, <2>2
\* A listing stays a listing.
<1>13. ASSUME c.op = "list", NEW base \in Check, base.op = "list", ListStep(t, base)
       PROVE  UNCHANGED Decisions!vars
  <2>1. CASE Become(t, [base EXCEPT !.left = {}, !.asking = "none", !.tries = 0,
                                    !.answer = "listed"])
    <3>. DEFINE state == [base EXCEPT !.left = {}, !.asking = "none", !.tries = 0,
                                    !.answer = "listed"]
    <3>1. state.op = "list"
      BY <1>13 DEF Check
    <3>. HIDE DEF state
    <3>. QED BY <1>6, <1>13, <2>1, <3>1 DEF state
  <2>2. CASE NextQuestion(t, base)
    <3>. DEFINE rest == c.left \ {c.asking}
    <3>1. PICK r \in rest : Become(t, [base EXCEPT !.left = rest, !.asking = r, !.tries = 0])
      BY <2>2 DEF NextQuestion, c
    <3>. DEFINE state == [base EXCEPT !.left = rest, !.asking = r, !.tries = 0]
    <3>2. state.op = "list"
      BY <1>13 DEF Check
    <3>. HIDE DEF state
    <3>. QED BY <1>6, <1>13, <3>1, <3>2 DEF state
  <2>. QED BY <1>13, <2>1, <2>2 DEF ListStep
<1>14. CASE ListAnswered(t)
  <2>. DEFINE base == [c EXCEPT !.found = @ \cup ({c.asking} \cap Held(c.user))]
  <2>1. c.op = "list" /\ ListStep(t, base)
    BY <1>14 DEF ListAnswered, c
  <2>2. base \in Check /\ base.op = "list"
    BY <1>2, <2>1, BasisIs DEF Check, Held
  <2>. HIDE DEF base
  <2>. QED BY <1>13, <2>1, <2>2
<1>15. CASE ListSkips(t)
  <2>. DEFINE base == [c EXCEPT !.skipped = TRUE]
  <2>1. c.op = "list" /\ ListStep(t, base)
    BY <1>15 DEF ListSkips, c
  <2>2. base \in Check /\ base.op = "list"
    BY <1>2, <2>1 DEF Check
  <2>. HIDE DEF base
  <2>. QED BY <1>13, <2>1, <2>2
<1>. QED BY <1>9, <1>10, <1>11, <1>12, <1>14, <1>15 DEF LoopGoesOn

\* A reading stays a reading.
LEMMA ReadDecides ==
    ASSUME AuthInv, NEW t \in Checkers, ReadAnswered(t) \/ ReadFails(t)
    PROVE  UNCHANGED Decisions!vars
<1>. DEFINE c == check[t]
<1>1. Reading(t) /\ UNCHANGED Computed
  BY ComputedStays DEF ReadAnswered, ReadFails
<1>2. c \in Check /\ c.op = "read"
  BY <1>1, ReadingIsOpen
<1>. HIDE DEF c
<1>3. ASSUME NEW state, Become(t, state), state.op = "read" PROVE UNCHANGED Decisions!vars
  <2>1. Judged(state) = Decision[t] /\ Decision[t] = Judged(c)
    BY <1>2, <1>3, DecisionIs DEF Judged, c
  <2>2. Decision' = [Decision EXCEPT ![t] = Decision[t]]
    BY <1>3, <2>1, OneDecision
  <2>3. [Decision EXCEPT ![t] = Decision[t]] = Decision
    BY DecisionIs
  <2>. QED BY <1>1, <2>2, <2>3 DEF Decisions!vars
<1>4. CASE ReadAnswered(t)
  <2>1. PICK page, skip :
            Become(t, [c EXCEPT !.found = page, !.skipped = skip, !.answer = "listed"])
    BY <1>4 DEF ReadAnswered, c
  <2>. DEFINE state == [c EXCEPT !.found = page, !.skipped = skip, !.answer = "listed"]
  <2>2. state.op = "read"
    BY <1>2 DEF Check
  <2>. HIDE DEF state
  <2>. QED BY <1>3, <2>1, <2>2 DEF state
<1>5. CASE ReadFails(t)
  <2>. DEFINE state == [c EXCEPT !.answer = "error"]
  <2>1. state.op = "read" /\ Become(t, state)
    BY <1>2, <1>5 DEF ReadFails, Check, c
  <2>. HIDE DEF state
  <2>. QED BY <1>3, <2>1
<1>. QED BY <1>4, <1>5

LEMMA ProceedDecides ==
    ASSUME AuthInv, NEW t \in Checkers, Proceed(t)
    PROVE  \/ Decisions!Allow(t) \/ Decisions!Deny(t) \/ Decisions!Refuse(t)
           \/ UNCHANGED Decisions!vars
BY LoopDecides, ReadDecides DEF Proceed

LEMMA AdministerDecides ==
    ASSUME AuthInv, NEW w \in Writers, Administer(w)
    PROVE  Decisions!Change \/ UNCHANGED Decisions!vars
<1>1. ASSUME UNCHANGED <<tuples, check>> PROVE UNCHANGED Decisions!vars
  BY <1>1, ComputedStays DEF Decision, Decisions!vars
<1>2. ASSUME NEW op, NEW store \in SUBSET Grants, Apply(w, op, store)
      PROVE  Decisions!Change
  <2>. DEFINE now(t) == Basis(check[t].op, store, check[t].user)
              open(t) == check[t].answer = "none" /\ check[t].op # "idle"
              seen(t) == [check[t] EXCEPT !.ever = @ \cup now(t), !.always = @ \cap now(t)]
              asked(t) == Decision[t].wanted # {} /\ Decision[t].answer = "none"
              told(t) == [Decision[t] EXCEPT
                             !.ever = @ \cup Decisions!HeldIn(Computed', Decision[t].user),
                             !.always = @ \cap Decisions!HeldIn(Computed', Decision[t].user)]
  <2>1. tuples' = store /\ check' = [t \in Checkers |-> IF open(t) THEN seen(t) ELSE check[t]]
    BY <1>2 DEF Apply
  <2>2. Decision' = [t \in Checkers |-> Judged(check'[t])]
    BY DEF Decision, Judged, Decisions!Unasked
  <2>3. ASSUME NEW t \in Checkers
        PROVE  Judged(check'[t]) = IF asked(t) THEN told(t) ELSE Decision[t]
    <3>1. check[t] \in Check /\ Decision[t] = Judged(check[t])
      BY DecisionIs DEF AuthInv, TypeOK
    <3>2. CASE check[t].op # "check"
      <4>1. check'[t].op # "check"
        BY <2>1, <3>1, <3>2 DEF Check
      <4>2. Judged(check'[t]) = Decisions!Unasked /\ Decision[t] = Decisions!Unasked
        BY <3>1, <3>2, <4>1 DEF Judged
      <4>. QED BY <4>2 DEF Decisions!Unasked
    <3>3. CASE check[t].op = "check"
      <4>1. Decision[t] = [user |-> check[t].user, wanted |-> check[t].wanted,
                           ever |-> check[t].ever, always |-> check[t].always,
                           answer |-> check[t].answer]
        BY <3>1, <3>3 DEF Judged
      <4>2. check[t].wanted # {}
        BY <3>3 DEF AuthInv, LoopInv
      <4>3. asked(t) <=> open(t)
        BY <3>3, <4>1, <4>2
      <4>4. CASE open(t)
        <5>1. PICK N : N = now(t)
          OBVIOUS
        <5>2. Decisions!HeldIn(Computed', Decision[t].user) = N
          <6>1. Decision[t].user = check[t].user
            BY <4>1
          <6>2. check[t].user \in Users /\ now(t) = HeldIn(store, check[t].user)
            BY <3>3, BasisIs DEF AuthInv, LoopInv
          <6>. QED BY <2>1, <5>1, <6>1, <6>2, ComputedIs
        <5>3. check'[t] = [check[t] EXCEPT !.ever = check[t].ever \cup N,
                                           !.always = check[t].always \cap N]
          BY <2>1, <4>4, <5>1
        <5>4. Judged(check'[t]) = [user |-> check[t].user, wanted |-> check[t].wanted,
                                   ever |-> check[t].ever \cup N,
                                   always |-> check[t].always \cap N,
                                   answer |-> check[t].answer]
          BY <3>1, <3>3, <5>3 DEF Judged, Check
        <5>5. told(t) = [Decision[t] EXCEPT !.ever = Decision[t].ever \cup N,
                                            !.always = Decision[t].always \cap N]
          BY <5>2
        <5>6. [Decision[t] EXCEPT !.ever = Decision[t].ever \cup N,
                                  !.always = Decision[t].always \cap N]
              = [user |-> check[t].user, wanted |-> check[t].wanted,
                 ever |-> check[t].ever \cup N, always |-> check[t].always \cap N,
                 answer |-> check[t].answer]
          <6>1. Decision[t].ever = check[t].ever /\ Decision[t].always = check[t].always
            BY <4>1
          <6>2. [Decision[t] EXCEPT !.ever = check[t].ever \cup N,
                                    !.always = check[t].always \cap N]
                = [user |-> check[t].user, wanted |-> check[t].wanted,
                   ever |-> check[t].ever \cup N, always |-> check[t].always \cap N,
                   answer |-> check[t].answer]
            <7>. DEFINE c == check[t]
                        E == c.ever \cup N
                        A == c.always \cap N
                        m == [Decision[t] EXCEPT !.ever = E, !.always = A]
                        D == [user : {c.user}, wanted : {c.wanted}, ever : {c.ever, E},
                              always : {c.always, A}, answer : {c.answer}]
            <7>. HIDE DEF c, E, A
            <7>1. Decision[t] \in D
              BY <4>1 DEF c
            <7>2. m \in D /\ m.ever = E /\ m.always = A
              BY <7>1
            <7>. HIDE DEF m
            <7>3. m = [user |-> c.user, wanted |-> c.wanted, ever |-> E, always |-> A,
                       answer |-> c.answer]
              BY <7>2
            <7>. QED BY <7>3 DEF m, c, E, A
          <6>. QED BY <6>1, <6>2
        <5>. HIDE DEF told, asked, open
        <5>. QED BY <4>3, <4>4, <5>4, <5>5, <5>6
      <4>5. CASE ~open(t)
        <5>1. check'[t] = check[t]
          BY <2>1, <4>5
        <5>. QED BY <3>1, <4>3, <4>5, <5>1
      <4>. QED BY <4>4, <4>5
    <3>. QED BY <3>2, <3>3
  <2>4. Decision' = [t \in Checkers |-> IF asked(t) THEN told(t) ELSE Decision[t]]
    BY <2>2, <2>3
  <2>5. Computed' \in SUBSET (Users \X Relations)
    BY DEF Computed
  <2>. QED BY <2>4, <2>5 DEF Decisions!Change
<1>3. write[w].batch \in SUBSET Grants /\ tuples \in SUBSET Grants
  BY DEF AuthInv, TypeOK, Write
<1>. QED
  BY <1>1, <1>2, <1>3
  DEF Administer, GrantPermission, RevokePermission, GrantPermissionsBatch,
      RevokePermissionsBatch, StartWrite, TuplesWritten, TuplesDeleted, WriteSucceeds,
      WriteFails

\* The use cases over the OpenFGA adapter keep the promise of the port
\* (AccessDecision): an allowed user held a wanted relation during the check, a
\* denied one none throughout, and an error decides nothing, for any number of
\* checks, writes, retries and lost answers.
THEOREM ChecksAreDecisions == Spec => DecidesProperly
<1>1. Init => Decisions!Init
  BY DEF Init, Decision, NoCheck, Computed, Held, HeldIn, Decisions!Init, Decisions!Unasked
<1>2. ASSUME AuthInv, [Next]_vars PROVE [Decisions!Next]_(Decisions!vars)
  <2>1. CASE UNCHANGED vars
    BY <2>1, ComputedStays DEF vars, Decision, Decisions!vars
  <2>2. CASE Next
    BY <1>2, <2>2, AskDecides, ProceedDecides, AdministerDecides DEF Next, Decisions!Next
  <2>. QED BY <1>2, <2>1, <2>2
<1>. QED BY <1>1, <1>2, AuthInvHolds, PTL DEF Spec, DecidesProperly, Decisions!Spec

-----------------------------------------------------------------------------
(* What follows for one check, and why it ends *)

\* The fields hold what they should (the Pydantic models of the authorization
\* entities), for any number of tasks.
THEOREM TypeCorrect == Spec => []TypeOK
<1>1. AuthInv => TypeOK
  BY DEF AuthInv
<1>. QED BY <1>1, AuthInvHolds, PTL

\* The answers given agree with what the user held while the check ran.
JustDecisions ==
    \A t \in Checkers :
        /\ Decision[t].answer = "allowed" => Decision[t].wanted \cap Decision[t].ever # {}
        /\ Decision[t].answer = "denied" => Decision[t].wanted \cap Decision[t].always = {}

\* AccessDecision makes no others.
LEMMA DecisionsAreJust == Decisions!Spec => []JustDecisions
<1>. DEFINE d == Decision
<1>0. /\ DOMAIN d = Checkers /\ DOMAIN d' = Checkers
      /\ \A t \in Checkers : d[t] = [user |-> d[t].user, wanted |-> d[t].wanted,
                ever |-> d[t].ever, always |-> d[t].always, answer |-> d[t].answer]
  BY DEF Decision
<1>1. Decisions!Init => JustDecisions
  BY DEF Decisions!Init, Decisions!Unasked, JustDecisions
<1>2. ASSUME JustDecisions, [Decisions!Next]_(Decisions!vars) PROVE JustDecisions'
  <2>. HIDE DEF d
  <2>. USE DEF JustDecisions
  <2>1. CASE UNCHANGED Decisions!vars
    BY <1>2, <2>1 DEF Decisions!vars
  <2>2. ASSUME NEW t \in Checkers, Decisions!Forget(t) PROVE JustDecisions'
    <3>1. d' = [d EXCEPT ![t] = Decisions!Unasked]
      BY <2>2 DEF Decisions!Forget, d
    <3>2. Decisions!Unasked.answer = "none"
      BY DEF Decisions!Unasked
    <3>. QED BY <1>0, <1>2, <3>1, <3>2 DEF d
  <2>3. ASSUME NEW t \in Checkers, Decisions!Ask(t) PROVE JustDecisions'
    <3>1. d'[t].answer = "none" /\ \A u \in Checkers \ {t} : d'[u] = d[u]
      BY <1>0, <2>3 DEF Decisions!Ask, d
    <3>. QED BY <1>2, <3>1 DEF d
  <2>4. ASSUME NEW t \in Checkers, NEW a \in {"allowed", "denied", "error"},
               Decisions!Answer(t, a),
               a = "allowed" => d[t].wanted \cap d[t].ever # {},
               a = "denied" => d[t].wanted \cap d[t].always = {}
        PROVE  JustDecisions'
    <3>1. /\ d'[t].answer = a /\ d'[t].wanted = d[t].wanted /\ d'[t].ever = d[t].ever
          /\ d'[t].always = d[t].always /\ \A u \in Checkers \ {t} : d'[u] = d[u]
      BY <1>0, <2>4 DEF Decisions!Answer, d
    <3>. QED BY <1>2, <2>4, <3>1 DEF d
  <2>5. CASE Decisions!Change
    <3>1. ASSUME NEW t \in Checkers
          PROVE  d'[t].answer = d[t].answer /\ (d[t].answer # "none" => d'[t] = d[t])
      <4>1. \/ d'[t] = d[t]
            \/ /\ d[t].answer = "none"
               /\ d'[t] = [d[t] EXCEPT
                     !.ever = @ \cup Decisions!HeldIn(Computed', d[t].user),
                     !.always = @ \cap Decisions!HeldIn(Computed', d[t].user)]
        BY <2>5 DEF Decisions!Change, d
      <4>. QED BY <1>0, <4>1
    <3>. QED BY <1>2, <3>1 DEF d
  <2>. QED
    BY <1>2, <2>1, <2>2, <2>3, <2>4, <2>5
    DEF Decisions!Next, Decisions!Allow, Decisions!Deny, Decisions!Refuse, d
<1>. QED BY <1>1, <1>2, PTL DEF Decisions!Spec

\* A finished check was right at some moment while it ran, and exactly right
\* when nobody touched the user's relations meanwhile.
ChecksAreJust ==
    \A t \in Checkers : check[t].op = "check" =>
        LET fits == check[t].wanted \cap check[t].ever # {} IN
        /\ check[t].answer = "allowed" => fits
        /\ check[t].answer = "denied" => check[t].wanted \cap check[t].always = {}
        /\ check[t].ever = check[t].always /\ check[t].answer \in {"allowed", "denied"} =>
              (check[t].answer = "allowed" <=> fits)

\* What a caller of check (CheckAuthorizationUseCase over OpenFGAAdapter) may
\* conclude, by way of the port's promise: no user is let in who held none of the
\* relations all along, and none is turned away who held one all along.
THEOREM AnswersAreRight == Spec => []ChecksAreJust
<1>1. ASSUME JustDecisions, NEW t \in Checkers, check[t].op = "check"
      PROVE  /\ check[t].answer = "allowed" => check[t].wanted \cap check[t].ever # {}
             /\ check[t].answer = "denied" => check[t].wanted \cap check[t].always = {}
  <2>1. Decision[t] = [user |-> check[t].user, wanted |-> check[t].wanted,
             ever |-> check[t].ever, always |-> check[t].always, answer |-> check[t].answer]
    BY <1>1 DEF Decision
  <2>. QED BY <1>1, <2>1 DEF JustDecisions
<1>2. JustDecisions => ChecksAreJust
  BY <1>1 DEF ChecksAreJust
<1>. QED BY <1>2, ChecksAreDecisions, DecisionsAreJust, PTL DEF DecidesProperly

\* While a question is open, a step either leaves the loop of its task where it
\* is, or counts one more try below the limit, or leaves one relation behind for
\* good, or ends the check.
QuestionsRunOut ==
    [][\A t \in Checkers : Asked(t) =>
          LET c == check[t]  d == check'[t] IN
          \/ /\ d.left = c.left /\ d.asking = c.asking /\ d.answer = "none"
             /\ d.tries \in {c.tries, c.tries + 1} /\ d.tries < MaxAttempts
          \/ /\ d.left = c.left \ {c.asking} /\ c.asking \in c.left
             /\ d.asking \in d.left /\ d.answer = "none"
          \/ d.answer # "none" /\ d.asking = "none"]_vars

\* No loop of questions goes round (the retries of tenacity inside the loops over
\* relations of authorization.py and openfga_adapter.py): a check of n relations
\* is over after at most n times MaxAttempts requests, whatever the others do.
THEOREM ChecksWearOut == Spec => QuestionsRunOut
<1>1. ASSUME AuthInv, [Next]_vars, NEW t \in Checkers, Asked(t)
      PROVE  \/ /\ check'[t].left = check[t].left /\ check'[t].asking = check[t].asking
                /\ check'[t].answer = "none" /\ check'[t].tries < MaxAttempts
                /\ check'[t].tries \in {check[t].tries, check[t].tries + 1}
             \/ /\ check'[t].left = check[t].left \ {check[t].asking}
                /\ check[t].asking \in check[t].left
                /\ check'[t].asking \in check'[t].left /\ check'[t].answer = "none"
             \/ check'[t].answer # "none" /\ check'[t].asking = "none"
  <2>. DEFINE c == check[t]
  <2>0. /\ c \in Check /\ c.answer = "none" /\ c.asking \in c.left /\ c.op \in {"check", "list"}
        /\ DOMAIN check = Checkers /\ c.tries \in 0..(MaxAttempts - 1)
    BY <1>1, AskedIsOpen DEF AuthInv, TypeOK, Check
  <2>. HIDE DEF c
  <2>1. CASE check'[t] = c
    BY <2>0, <2>1, AuthorizationAssumption DEF c
  <2>2. ASSUME NEW state, Become(t, state) PROVE check'[t] = state
    BY <2>0, <2>2 DEF Become
  <2>3. ASSUME NEW u \in Checkers, u # t, NEW state, Become(u, state) PROVE check'[t] = c
    BY <2>0, <2>3 DEF Become, c
  <2>4. ASSUME NEW u \in Checkers, Ask(u) PROVE check'[t] = c
    <3>1. u # t
      BY <2>0, <2>4 DEF Ask, CheckAction, CheckRelation, ListUserRelations, ReadTuples, Free, c
    <3>. QED BY <2>3, <2>4, <3>1
         DEF Ask, CheckAction, CheckRelation, ListUserRelations, ReadTuples, StartCheck
  <2>5. ASSUME NEW u \in Checkers, u # t, Proceed(u) PROVE check'[t] = c
    BY <2>3, <2>5
    DEF Proceed, LoopGoesOn, CheckAllowed, CheckDenied, CheckFails, Retry, ListAnswered,
        ListSkips, ListStep, NextQuestion, ReadAnswered, ReadFails
  <2>6. ASSUME NEW w \in Writers, Administer(w)
        PROVE  /\ check'[t].left = c.left /\ check'[t].asking = c.asking
               /\ check'[t].answer = "none" /\ check'[t].tries = c.tries
    <3>1. CASE check' = check
      BY <2>0, <3>1 DEF c
    <3>2. ASSUME NEW op, NEW store, Apply(w, op, store)
          PROVE  /\ check'[t].left = c.left /\ check'[t].asking = c.asking
                 /\ check'[t].answer = "none" /\ check'[t].tries = c.tries
      <4>. DEFINE now == Basis(check[t].op, store, check[t].user)
      <4>1. check'[t] = [c EXCEPT !.ever = @ \cup now, !.always = @ \cap now]
        BY <2>0, <3>2 DEF Apply, c
      <4>. HIDE DEF now
      <4>. QED BY <2>0, <4>1 DEF Check
    <3>. QED
      BY <2>6, <3>1, <3>2
      DEF Administer, GrantPermission, RevokePermission, GrantPermissionsBatch,
          RevokePermissionsBatch, StartWrite, TuplesWritten, TuplesDeleted,
          WriteSucceeds, WriteFails
  <2>8. ASSUME Proceed(t)
        PROVE  \/ \E a \in {"allowed", "denied", "error", "listed"} :
                     check'[t].answer = a /\ check'[t].asking = "none"
               \/ /\ check'[t] = [c EXCEPT !.tries = @ + 1] /\ c.tries < MaxAttempts - 1
               \/ /\ check'[t].left = c.left \ {c.asking} /\ check'[t].answer = "none"
                  /\ check'[t].asking \in c.left \ {c.asking}
    <3>1. ~Reading(t)
      BY <2>0 DEF Reading, c
    <3>2. ASSUME NEW a, Become(t, Concluded(t, a))
          PROVE  check'[t].answer = a /\ check'[t].asking = "none"
      BY <2>0, <2>2, <3>2 DEF Concluded, c, Check
    <3>3. ASSUME NEW state \in Check, state.answer = "none", NextQuestion(t, state)
          PROVE  /\ check'[t].left = c.left \ {c.asking} /\ check'[t].answer = "none"
                 /\ check'[t].asking \in c.left \ {c.asking}
      <4>1. PICK r \in c.left \ {c.asking} :
              Become(t, [state EXCEPT !.left = c.left \ {c.asking}, !.asking = r, !.tries = 0])
        BY <3>3 DEF NextQuestion, c
      <4>2. check'[t] = [state EXCEPT !.left = c.left \ {c.asking}, !.asking = r, !.tries = 0]
        BY <4>1, <2>2
      <4>. QED BY <3>3, <4>2 DEF Check
    <3>4. ASSUME NEW state \in Check, state.answer = "none", ListStep(t, state)
          PROVE  \/ check'[t].answer = "listed" /\ check'[t].asking = "none"
                 \/ /\ check'[t].left = c.left \ {c.asking} /\ check'[t].answer = "none"
                    /\ check'[t].asking \in c.left \ {c.asking}
      <4>1. CASE NextQuestion(t, state)
        BY <3>3, <3>4, <4>1
      <4>2. CASE Become(t, [state EXCEPT !.left = {}, !.asking = "none", !.tries = 0,
                                        !.answer = "listed"])
        BY <2>2, <4>2, <3>4 DEF Check
      <4>. QED BY <3>4, <4>1, <4>2 DEF ListStep
    <3>5. CASE CheckAllowed(t)
      <4>1. check'[t] = [Concluded(t, "allowed") EXCEPT !.found = {check[t].asking}]
        BY <2>2, <3>5 DEF CheckAllowed
      <4>. QED BY <2>0, <4>1 DEF Concluded, c, Check
    <3>6. CASE CheckDenied(t)
      BY <2>0, <3>2, <3>3, <3>6 DEF CheckDenied, c
    <3>7. CASE CheckFails(t)
      BY <3>2, <3>7 DEF CheckFails
    <3>8. CASE Retry(t)
      BY <2>2, <3>8 DEF Retry, c
    <3>9. CASE ListAnswered(t)
      <4>. DEFINE state == [c EXCEPT !.found = @ \cup ({c.asking} \cap Held(c.user))]
      <4>1. state \in Check /\ state.answer = "none"
        BY <2>0, BasisIs DEF Check, Held
      <4>2. ListStep(t, state)
        BY <3>9 DEF ListAnswered, c
      <4>. HIDE DEF state
      <4>. QED BY <3>4, <4>1, <4>2
    <3>10. CASE ListSkips(t)
      <4>. DEFINE state == [c EXCEPT !.skipped = TRUE]
      <4>1. state \in Check /\ state.answer = "none"
        BY <2>0 DEF Check
      <4>2. ListStep(t, state)
        BY <3>10 DEF ListSkips, c
      <4>. HIDE DEF state
      <4>. QED BY <3>4, <4>1, <4>2
    <3>. QED BY <2>8, <3>1, <3>5, <3>6, <3>7, <3>8, <3>9, <3>10
         DEF Proceed, LoopGoesOn, ReadAnswered, ReadFails
  <2>9. CASE Proceed(t)
    <3>1. ASSUME check'[t] = [c EXCEPT !.tries = @ + 1], c.tries < MaxAttempts - 1
          PROVE  /\ check'[t].left = c.left /\ check'[t].asking = c.asking
                 /\ check'[t].answer = "none" /\ check'[t].tries = c.tries + 1
                 /\ check'[t].tries < MaxAttempts
      BY <2>0, <3>1, AuthorizationAssumption DEF Check
    <3>2. \A a \in {"allowed", "denied", "error", "listed"} : a # "none"
      OBVIOUS
    <3>. QED BY <2>0, <2>8, <2>9, <3>1, <3>2 DEF c
  <2>10. CASE \E w \in Writers : Administer(w)
    <3>1. /\ check'[t].left = c.left /\ check'[t].asking = c.asking
          /\ check'[t].answer = "none" /\ check'[t].tries = c.tries
      BY <2>6, <2>10
    <3>2. c.tries < MaxAttempts
      BY <2>0, AuthorizationAssumption
    <3>. QED BY <3>1, <3>2 DEF c
  <2>. QED BY <1>1, <2>1, <2>4, <2>5, <2>9, <2>10 DEF Next, vars, c
<1>2. ASSUME AuthInv, [Next]_vars
      PROVE  [\A t \in Checkers : Asked(t) =>
                LET c == check[t]  d == check'[t] IN
                \/ /\ d.left = c.left /\ d.asking = c.asking /\ d.answer = "none"
                   /\ d.tries \in {c.tries, c.tries + 1} /\ d.tries < MaxAttempts
                \/ /\ d.left = c.left \ {c.asking} /\ c.asking \in c.left
                   /\ d.asking \in d.left /\ d.answer = "none"
                \/ d.answer # "none" /\ d.asking = "none"]_vars
  BY <1>1, <1>2
<1>. QED BY <1>2, AuthInvHolds, PTL DEF Spec, QuestionsRunOut
=============================================================================
