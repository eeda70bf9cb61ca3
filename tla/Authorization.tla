--------------------------- MODULE Authorization ---------------------------
(***************************************************************************)
(* The authorization use cases over the OpenFGA adapter: concurrent tasks   *)
(* check actions and relations, list relations or read tuples, while others *)
(* grant and revoke relations on the same resource, its project and its     *)
(* organization.  OpenFGA answers a check from the relations it computes by *)
(* its model (openfga/model.fga) and a read from the tuples as stored, one  *)
(* request at a time; between two requests of a task any other task may     *)
(* run, a request may fail, and the answer of a write may be lost.          *)
(*                                                                          *)
(* The circuit breaker (module CircuitBreaker) is one more way for a call   *)
(* to fail before it is sent.                                               *)
(***************************************************************************)
EXTENDS Naturals, FiniteSets

CONSTANTS
    Users,
    Relations,     \* the relations the code can name
    Inherited,     \* relations on the resource's project and organization
    ImpliedBy,     \* relation -> what grants it; nothing grants one the
                   \* resource's type does not define
    Actions,
    Required,      \* Action -> the relations that satisfy it
    Checkers,      \* the tasks that ask
    Writers,       \* the tasks that grant and revoke
    MaxAttempts,   \* attempts of one relation check (tenacity)
    MaxBatch       \* tuples of one write (100 in the code)

ASSUME AuthorizationAssumption ==
    /\ "nobody" \notin Users
    /\ "none" \notin Relations
    /\ ImpliedBy \in [Relations -> SUBSET (Relations \cup Inherited)]
    /\ Required \in [Actions -> (SUBSET Relations) \ {{}}]
    /\ MaxAttempts \in Nat \ {0}
    /\ MaxBatch \in Nat

VARIABLES
    tuples,    \* OpenFGA's store: <<user, relation>>, the relation of the
               \* resource or inherited
    check,     \* per checker: what it asks and what it found
    write      \* per writer: what it writes and what it reports

vars == <<tuples, check, write>>

\* ActionPermissionMapping.default_mappings
DefaultMappings ==
    [view |-> {"viewer", "analyst", "auditor", "owner", "admin"},
     edit |-> {"analyst", "owner", "admin"},
     remediate |-> {"analyst", "owner"},
     export |-> {"auditor", "owner", "admin"},
     delete |-> {"owner"},
     classify |-> {"analyst", "owner"},
     escalate |-> {"analyst", "owner"},
     approve |-> {"owner", "admin"}]

NoCheck == [op |-> "idle", user |-> "nobody", wanted |-> {}, left |-> {},
            asking |-> "none", tries |-> 0, found |-> {}, skipped |-> FALSE,
            ever |-> {}, always |-> {}, answer |-> "none"]

NoWrite == [op |-> "idle", batch |-> {}, took |-> FALSE, report |-> "none"]

\* The set a field ranges over; `ever` and `always` only record what the store
\* said of the user while the request ran.
Check ==
    [op : {"idle", "check", "list", "read"}, user : Users \cup {"nobody"},
     wanted : SUBSET Relations, left : SUBSET Relations,
     asking : Relations \cup {"none"}, tries : 0..(MaxAttempts - 1),
     found : SUBSET Relations, skipped : BOOLEAN,
     ever : SUBSET Relations, always : SUBSET Relations,
     answer : {"none", "allowed", "denied", "error", "listed"}]

Grants == Users \X (Relations \cup Inherited)

Write ==
    [op : {"idle", "grant", "revoke"}, batch : SUBSET Grants,
     took : BOOLEAN, report : {"none", "success", "failed"}]

\* The fields hold what they should, in every state.
TypeOK ==
    /\ tuples \subseteq Grants
    /\ check \in [Checkers -> Check]
    /\ write \in [Writers -> Write]

Init ==
    /\ tuples = {}
    /\ check = [t \in Checkers |-> NoCheck]
    /\ write = [w \in Writers |-> NoWrite]

\* The types of model.fga: for a project, an owner is a viewer and an analyst,
\* an administrator of its organization owns it; it has no administrator itself.
ProjectModel ==
    [owner |-> {"owner", "organization admin"},
     viewer |-> {"viewer", "owner", "organization admin", "organization member"},
     analyst |-> {"analyst", "owner", "organization admin"},
     auditor |-> {"auditor", "organization admin"},
     admin |-> {}]

Defined == {r \in Relations : ImpliedBy[r] # {}}

\* The relations of the resource as stored, and as computed by the model.
StoredIn(store, u) == {r \in Relations : <<u, r>> \in store}
HeldIn(store, u) == {r \in Relations : \E s \in ImpliedBy[r] : <<u, s>> \in store}

Held(u) == HeldIn(tuples, u)

\* What a request is answered from: a read is shown the tuples, a check the
\* relations computed.
Basis(op, store, u) == IF op = "read" THEN StoredIn(store, u) ELSE HeldIn(store, u)

-----------------------------------------------------------------------------
(* Checks *)

Become(t, state) == check' = [check EXCEPT ![t] = state]

\* An action may be checked through any of its relations, in the order of a
\* frozenset; `_resolve_relations_for_action`.
ResolveRelations(a) == Required[a]

\* for_action or for_relation_check, and the first question.
Free(t) == check[t].op = "idle" \/ check[t].answer # "none"

StartCheck(t, u, wanted) ==
    \E r \in wanted :
        Become(t, [NoCheck EXCEPT !.op = "check", !.user = u, !.wanted = wanted,
                               !.left = wanted, !.asking = r,
                               !.ever = Held(u), !.always = Held(u)])

CheckAction(t) ==
    /\ Free(t)
    /\ \E u \in Users, a \in Actions : StartCheck(t, u, ResolveRelations(a))
    /\ UNCHANGED <<tuples, write>>

CheckRelation(t) ==
    /\ Free(t)
    /\ \E u \in Users, r \in Relations : StartCheck(t, u, {r})
    /\ UNCHANGED <<tuples, write>>

\* list_user_relations: every relation in turn.
ListUserRelations(t) ==
    /\ Free(t)
    /\ \E u \in Users, r \in Relations :
          Become(t, [NoCheck EXCEPT !.op = "list", !.user = u, !.wanted = Relations,
                                 !.left = Relations, !.asking = r,
                                 !.ever = Held(u), !.always = Held(u)])
    /\ UNCHANGED <<tuples, write>>

Asked(t) == check[t].answer = "none" /\ check[t].asking # "none"
HasAsked(t) == check[t].asking \in Held(check[t].user)

\* OpenFGA rejects a question about a relation the type does not define.
Answerable(t) == Asked(t) /\ check[t].asking \in Defined

\* AuthorizationResult: nothing of the loop survives it but the answer.
Concluded(t, a) == [check[t] EXCEPT !.left = {}, !.asking = "none",
                                   !.tries = 0, !.answer = a]

\* Mutant: the relation just asked stays in the loop.
NextQuestion_again(t, state) ==
    \E r \in check[t].left : Become(t, [state EXCEPT !.asking = r, !.tries = 0])

\* The next question of a loop over relations.
NextQuestion(t, state) ==
    LET rest == check[t].left \ {check[t].asking} IN
    \E r \in rest : Become(t, [state EXCEPT !.left = rest, !.asking = r, !.tries = 0])

Last(t) == check[t].left = {check[t].asking}

\* The first relation that is held decides: the loop breaks.
CheckAllowed(t) ==
    /\ check[t].op = "check" /\ Answerable(t) /\ HasAsked(t)
    /\ Become(t, [Concluded(t, "allowed") EXCEPT !.found = {check[t].asking}])
    /\ UNCHANGED <<tuples, write>>

CheckDenied(t) ==
    /\ check[t].op = "check" /\ Answerable(t) /\ ~HasAsked(t)
    /\ \/ Last(t) /\ Become(t, Concluded(t, "denied"))
       \/ NextQuestion(t, check[t])
    /\ UNCHANGED <<tuples, write>>

\* Mutant: a failed relation counts as not held.
CheckFails_denies(t) ==
    /\ check[t].op = "check" /\ Asked(t)
    /\ Become(t, Concluded(t, "denied"))
    /\ UNCHANGED <<tuples, write>>

\* Refused by the breaker before the first question, or out of attempts (a
\* relation that is not defined always runs out of them): the error leaves the
\* loop, whatever relations are left.
CheckFails(t) ==
    /\ check[t].op = "check" /\ Asked(t)
    /\ \/ check[t].tries = MaxAttempts - 1
       \/ check[t].tries = 0 /\ check[t].left = check[t].wanted
    /\ Become(t, Concluded(t, "error"))
    /\ UNCHANGED <<tuples, write>>

\* tenacity: any exception is tried again.
Retry(t) ==
    /\ check[t].op \in {"check", "list"} /\ Asked(t)
    /\ check[t].tries < MaxAttempts - 1
    /\ Become(t, [check[t] EXCEPT !.tries = @ + 1])
    /\ UNCHANGED <<tuples, write>>

-----------------------------------------------------------------------------
(* Listing relations *)

ListStep(t, state) ==
    \/ /\ Last(t)
       /\ Become(t, [state EXCEPT !.left = {}, !.asking = "none", !.tries = 0,
                                  !.answer = "listed"])
    \/ NextQuestion(t, state)

\* Mutant: the listing stops at the first relation held, as a check does.
ListAnswered_break(t) ==
    /\ check[t].op = "list" /\ Answerable(t)
    /\ \/ /\ HasAsked(t)
          /\ Become(t, [check[t] EXCEPT !.found = @ \cup {check[t].asking}, !.left = {},
                             !.asking = "none", !.tries = 0, !.answer = "listed"])
       \/ ~HasAsked(t) /\ ListStep(t, check[t])
    /\ UNCHANGED <<tuples, write>>

ListAnswered(t) ==
    /\ check[t].op = "list" /\ Answerable(t)
    /\ ListStep(t, [check[t] EXCEPT !.found = @ \cup ({check[t].asking} \cap Held(check[t].user))])
    /\ UNCHANGED <<tuples, write>>

\* A relation whose check fails, refused, out of attempts or not defined for
\* the type, is passed over.
ListSkips(t) ==
    /\ check[t].op = "list" /\ Asked(t)
    /\ check[t].tries \in {0, MaxAttempts - 1}
    /\ ListStep(t, [check[t] EXCEPT !.skipped = TRUE])
    /\ UNCHANGED <<tuples, write>>

-----------------------------------------------------------------------------
(* Reading tuples *)

\* list_user_permissions and list_resource_permissions read the tuples of a user
\* or of the resource, check_tuple_exists one tuple; seen from one user.
ReadTuples(t) ==
    /\ Free(t)
    /\ \E u \in Users, wanted \in {Relations} \cup {{r} : r \in Relations} :
          Become(t, [NoCheck EXCEPT !.op = "read", !.user = u, !.wanted = wanted,
                                 !.ever = Basis("read", tuples, u),
                                 !.always = Basis("read", tuples, u)])
    /\ UNCHANGED <<tuples, write>>

Reading(t) == check[t].op = "read" /\ check[t].answer = "none"

\* One request, never tried again and no further page asked for: the tuples of
\* other resources, or of other users, may crowd some out.  A tuple asked for by
\* all its parts is alone on its page.
ReadAnswered(t) ==
    LET matching == check[t].wanted \cap StoredIn(tuples, check[t].user) IN
    /\ Reading(t)
    /\ \E page \in SUBSET matching :
          /\ page = matching \/ check[t].wanted = Relations
          /\ Become(t, [check[t] EXCEPT !.found = page, !.skipped = (page # matching),
                                       !.answer = "listed"])
    /\ UNCHANGED <<tuples, write>>

\* Refused, failed, or a tuple of the page is none of the domain's.
ReadFails(t) ==
    /\ Reading(t)
    /\ Become(t, [check[t] EXCEPT !.answer = "error"])
    /\ UNCHANGED <<tuples, write>>

-----------------------------------------------------------------------------
(* Granting and revoking *)

Report(w, state) == write' = [write EXCEPT ![w] = state]

StartWrite(w, op, sizes) ==
    /\ write[w].op = "idle" \/ write[w].report # "none"
    /\ \E batch \in SUBSET Grants :
          /\ Cardinality(batch) \in sizes
          /\ Report(w, [NoWrite EXCEPT !.op = op, !.batch = batch])
    /\ UNCHANGED <<tuples, check>>

GrantPermission(w) == StartWrite(w, "grant", {1})
RevokePermission(w) == StartWrite(w, "revoke", {1})

\* An empty batch, or one over the limit, is refused before anything is sent.
GrantPermissionsBatch(w) == StartWrite(w, "grant", 1..MaxBatch)
RevokePermissionsBatch(w) == StartWrite(w, "revoke", 1..MaxBatch)

\* OpenFGA applies a request as a whole, or rejects it for one relation that is
\* not defined; every open request remembers what it changed.
Apply(w, op, store) ==
    /\ write[w].op = op /\ write[w].report = "none" /\ ~write[w].took
    /\ write[w].batch \subseteq Users \X (Defined \cup Inherited)
    /\ tuples' = store
    /\ check' = [t \in Checkers |->
          LET now == Basis(check[t].op, store, check[t].user) IN
          IF check[t].answer = "none" /\ check[t].op # "idle"
          THEN [check[t] EXCEPT !.ever = @ \cup now, !.always = @ \cap now]
          ELSE check[t]]
    /\ Report(w, [write[w] EXCEPT !.took = TRUE])

TuplesWritten(w) == Apply(w, "grant", tuples \cup write[w].batch)
TuplesDeleted(w) == Apply(w, "revoke", tuples \ write[w].batch)

WriteSucceeds(w) ==
    /\ write[w].report = "none" /\ write[w].took
    /\ Report(w, [write[w] EXCEPT !.batch = {}, !.report = "success"])
    /\ UNCHANGED <<tuples, check>>

\* Refused, rejected as invalid, or the answer is lost: the caller gets a
\* result that says so.
WriteFails(w) ==
    /\ write[w].op # "idle" /\ write[w].report = "none"
    /\ Report(w, [write[w] EXCEPT !.batch = {}, !.report = "failed"])
    /\ UNCHANGED <<tuples, check>>

-----------------------------------------------------------------------------
(* Specification *)

Ask(t) ==
    \/ CheckAction(t) \/ CheckRelation(t) \/ ListUserRelations(t) \/ ReadTuples(t)

\* A loop over relations, one request each.
LoopGoesOn(t) ==
    \/ CheckAllowed(t) \/ CheckDenied(t) \/ CheckFails(t) \/ Retry(t)
    \/ ListAnswered(t) \/ ListSkips(t)

Proceed(t) == LoopGoesOn(t) \/ ReadAnswered(t) \/ ReadFails(t)

Administer(w) ==
    \/ GrantPermission(w) \/ RevokePermission(w)
    \/ GrantPermissionsBatch(w) \/ RevokePermissionsBatch(w)
    \/ TuplesWritten(w) \/ TuplesDeleted(w)
    \/ WriteSucceeds(w) \/ WriteFails(w)

Next ==
    \/ \E t \in Checkers : Ask(t) \/ Proceed(t)
    \/ \E w \in Writers : Administer(w)

Spec == Init /\ [][Next]_vars

\* A request is answered or times out, and the event loop resumes its task.
FairSpec == Spec /\ \A t \in Checkers : WF_vars(Proceed(t))

-----------------------------------------------------------------------------
(* Properties *)

\* A finished listing names only relations the user held by the model at some
\* moment while it ran, a finished reading only tuples that were stored; and each
\* names all it was to find that were there throughout, unless a relation's check
\* failed and was passed over or the page was not the last.
ListingIsHonest ==
    \A t \in Checkers : check[t].answer = "listed" =>
        /\ check[t].found \subseteq check[t].ever
        /\ check[t].skipped \/ check[t].always \cap check[t].wanted \subseteq check[t].found

\* Every check, listing and reading ends with an answer or an error, whatever fails.
ChecksEnd ==
    \A t \in Checkers : (Asked(t) \/ Reading(t)) ~> ~(Asked(t) \/ Reading(t))

\* A check as a decision; a listing or reading decides nothing.
Decision ==
    [t \in Checkers |->
        IF check[t].op # "check"
        THEN [user |-> "nobody", wanted |-> {}, ever |-> {}, always |-> {}, answer |-> "none"]
        ELSE [user |-> check[t].user, wanted |-> check[t].wanted, ever |-> check[t].ever,
              always |-> check[t].always, answer |-> check[t].answer]]

\* Who holds what, by the model.
Computed == {g \in Users \X Relations : g[2] \in Held(g[1])}

Decisions == INSTANCE AccessDecision
    WITH Tasks <- Checkers, tuples <- Computed, decision <- Decision

\* The port keeps its promise: checks are decisions in the sense of module
\* AccessDecision.
DecidesProperly == Decisions!Spec
=============================================================================
