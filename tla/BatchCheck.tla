----------------------------- MODULE BatchCheck -----------------------------
(***************************************************************************)
(* batch_check of the OpenFGA adapter: the contexts of a batch are expanded *)
(* into one item per relation that satisfies them, one request answers all  *)
(* items, and the answers are turned back into one result per context.      *)
(***************************************************************************)
EXTENDS Naturals, Sequences, FiniteSets, SequencesExt

CONSTANTS
    Users,
    Relations,
    Wants,        \* what a context can resolve to: sets of relations
    MaxContexts   \* contexts of one batch (100 in the code)

VARIABLES
    tuples,       \* OpenFGA's store for the resource
    contexts,     \* the contexts under check
    items,        \* the expanded request
    results       \* one truth value per context

batchVars == <<tuples, contexts, items, results>>

Contexts == [user : Users, wanted : Wants]

BatchInit ==
    /\ tuples \in SUBSET (Users \X Relations)
    /\ contexts \in UNION {[1..n -> Contexts] : n \in 1..MaxContexts}
    /\ items = <<>>
    /\ results = <<>>

\* One item per relation of a context; a frozenset has no order of its own.
ItemsOf(ctx) ==
    {[i \in DOMAIN order |-> [user |-> ctx.user, relation |-> order[i]]] :
        order \in SetToSeqs(ctx.wanted)}

BuildBatchCheckItems ==
    /\ items = <<>>
    /\ \E parts \in [DOMAIN contexts -> UNION {ItemsOf(c) : c \in Contexts}] :
          /\ \A i \in DOMAIN contexts : parts[i] \in ItemsOf(contexts[i])
          /\ items' = FlattenSeq(parts)
    /\ UNCHANGED <<tuples, contexts, results>>

Allowed(item) == <<item.user, item.relation>> \in tuples

\* The i-th answer becomes the result of the i-th context.
ProcessBatchResponse ==
    /\ items # <<>> /\ results = <<>>
    /\ results' = [i \in DOMAIN contexts |-> Allowed(items[i])]
    /\ UNCHANGED <<tuples, contexts, items>>

BatchNext == BuildBatchCheckItems \/ ProcessBatchResponse

BatchSpec == BatchInit /\ [][BatchNext]_batchVars

\* _build_batch_check_items: "expand each context into one check item per
\* relation so that any matching relation satisfies the permission".  A result
\* says whether its context's user holds one of the relations it asks for.
AnyRelationSuffices ==
    results # <<>> =>
        \A i \in DOMAIN contexts :
            results[i] <=> \E r \in contexts[i].wanted : <<contexts[i].user, r>> \in tuples
=============================================================================
