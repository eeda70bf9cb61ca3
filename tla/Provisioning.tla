---------------------------- MODULE Provisioning ----------------------------
(***************************************************************************)
(* The bootstrap scripts of Keycloak and OpenFGA.  Each is a few requests   *)
(* in a row and gives up at the first that fails; setup.sh goes on, and the *)
(* operator runs it again, perhaps while another run is still at work.  A   *)
(* request whose answer is lost has had its effect.                         *)
(***************************************************************************)
EXTENDS Naturals, Sequences

CONSTANTS
    Attempts,   \* terminals the scripts are run in
    MaxStores   \* bound: OpenFGA stores

VARIABLES
    step,      \* attempt -> the request it makes next
    realm,     \* the Keycloak realm exists
    client,    \* its client exists
    stores,    \* OpenFGA stores: whether each has the model
    store,     \* attempt -> the store it created
    trouble    \* history: attempts that the server refused or did not answer, or
               \* that had no model file to upload

provisioningVars == <<step, realm, client, stores, store, trouble>>

Idle == {"none", "done", "failed"}

ProvisioningInit ==
    /\ step = [a \in Attempts |-> "none"]
    /\ realm = FALSE
    /\ client = FALSE
    /\ stores = <<>>
    /\ store = [a \in Attempts |-> 0]
    /\ trouble = {}

Goto(a, s) == step' = [step EXCEPT ![a] = s]

\* main: the server is up.
Begin(a) ==
    /\ step[a] \in Idle
    /\ \E first \in {"token", "store"} : Goto(a, first)
    /\ trouble' = trouble \ {a}
    /\ UNCHANGED <<realm, client, stores, store>>

\* The server stays down, answers with an error or not what was expected, or
\* the operator interrupts: nothing has happened.
Refused(a) ==
    /\ step[a] \notin Idle
    /\ Goto(a, "failed")
    /\ trouble' = trouble \cup {a}
    /\ UNCHANGED <<realm, client, stores, store>>

\* A request's effect, with its answer or without.
Answer(a, next) ==
    \/ Goto(a, next) /\ UNCHANGED trouble
    \/ Goto(a, "failed") /\ trouble' = trouble \cup {a}

-----------------------------------------------------------------------------
(* setup-keycloak.py *)

AdminToken(a) ==
    /\ step[a] = "token"
    /\ Goto(a, "realm")
    /\ UNCHANGED <<realm, client, stores, store, trouble>>

\* Mutant: a realm that is there already is an error.
CreateRealm_strict(a) ==
    /\ step[a] = "realm"
    /\ IF realm THEN Goto(a, "failed") /\ UNCHANGED trouble ELSE Answer(a, "client")
    /\ realm' = TRUE
    /\ UNCHANGED <<client, stores, store>>

\* HTTP 409 counts as created.
CreateRealm(a) ==
    /\ step[a] = "realm"
    /\ Answer(a, "client")
    /\ realm' = TRUE
    /\ UNCHANGED <<client, stores, store>>

\* Likewise; a client needs its realm.
CreateClient(a) ==
    /\ step[a] = "client" /\ realm
    /\ Answer(a, "lookup")
    /\ client' = TRUE
    /\ UNCHANGED <<realm, stores, store>>

\* A client that is not listed under its id is a ValueError.
FindClient(a) ==
    /\ step[a] = "lookup"
    /\ Goto(a, IF client THEN "secret" ELSE "failed")
    /\ UNCHANGED <<realm, client, stores, store, trouble>>

GetSecret(a) ==
    /\ step[a] = "secret"
    /\ Goto(a, "done")
    /\ UNCHANGED <<realm, client, stores, store, trouble>>

-----------------------------------------------------------------------------
(* setup-openfga.py: every run creates a store of its own *)

CreateStore(a) ==
    /\ step[a] = "store" /\ Len(stores) < MaxStores
    /\ Answer(a, "model")
    /\ stores' = Append(stores, FALSE)
    /\ store' = [store EXCEPT ![a] = Len(stores) + 1]
    /\ UNCHANGED <<realm, client>>

UploadModel(a) ==
    /\ step[a] = "model"
    /\ Answer(a, "done")
    /\ stores' = [stores EXCEPT ![store[a]] = TRUE]
    /\ UNCHANGED <<realm, client, store>>

\* The file is missing or does not parse: the store stays without a model.
NoModelFile(a) ==
    /\ step[a] = "model"
    /\ Goto(a, "failed")
    /\ trouble' = trouble \cup {a}
    /\ UNCHANGED <<realm, client, stores, store>>

ProvisioningNext ==
    \E a \in Attempts :
        \/ Begin(a) \/ Refused(a)
        \/ AdminToken(a) \/ CreateRealm(a) \/ CreateClient(a) \/ FindClient(a) \/ GetSecret(a)
        \/ CreateStore(a) \/ NoModelFile(a) \/ UploadModel(a)

ProvisioningSpec == ProvisioningInit /\ [][ProvisioningNext]_provisioningVars

-----------------------------------------------------------------------------
(* Properties *)

\* Whatever earlier attempts left behind and other ones do meanwhile, an attempt
\* fails only over a request of its own that the server refused or whose answer
\* was lost, or for want of a model file.
SetupCanBeRepeated == \A a \in Attempts : step[a] = "failed" => a \in trouble
=============================================================================
