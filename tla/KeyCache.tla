------------------------------ MODULE KeyCache ------------------------------
(***************************************************************************)
(* Bearer tokens and the signing keys they are checked with.  The Keycloak  *)
(* adapter keeps the published key set until its TTL is over; a token whose *)
(* key is not in it makes the adapter fetch once more.  Nothing guards the  *)
(* cache: every fetch writes what it was answered, whenever that arrives.   *)
(* A key set is known by its edition, which tells what it holds.            *)
(***************************************************************************)
EXTENDS Naturals, Sequences

CONSTANTS
    Tokens,     \* tokens presented, one validation each
    KeySets     \* what the provider publishes, edition after edition

ASSUME KeyCacheAssumption == KeySets \in Seq(SUBSET Nat) /\ KeySets # <<>>

VARIABLES
    edition,     \* the provider's current edition
    cached,      \* the cached edition; 0 before the first fetch
    fresh,       \* the TTL of the cached edition is not over
    kid,         \* token -> the key it is signed with
    since,       \* history: token -> the edition when it was presented
    stage,       \* token -> where its validation stands
    served,      \* token -> the edition in the answer under way; 0 for none
    overtaken    \* history: answers under way while another was stored

keyVars == <<edition, cached, fresh, kid, since, stage, served, overtaken>>

Editions == DOMAIN KeySets
AllKeys == UNION {KeySets[e] : e \in Editions}

KeyInit ==
    /\ edition = 1
    /\ cached = 0
    /\ fresh = FALSE
    /\ kid = [t \in Tokens |-> 0]
    /\ since = [t \in Tokens |-> 0]
    /\ stage = [t \in Tokens |-> "none"]
    /\ served = [t \in Tokens |-> 0]
    /\ overtaken = {}

\* _find_signing_key, and what validate_token makes of its answer: the claims
\* of a token whose key is found are judged next, an unknown key on the first
\* try is looked for again in a fresh copy.
Lookup(t, e, key, again) ==
    stage' = [stage EXCEPT ![t] =
                 IF key \in KeySets[e] THEN "key_found"
                 ELSE IF again THEN "fetch_again" ELSE "unknown_key"]

\* Mutant: a fresh copy is taken at its word.
ValidateToken_trusting(t) ==
    /\ stage[t] = "none"
    /\ \E key \in AllKeys :
          /\ kid' = [kid EXCEPT ![t] = key]
          /\ IF cached # 0 /\ fresh THEN Lookup(t, cached, key, FALSE)
             ELSE stage' = [stage EXCEPT ![t] = "fetch"]
    /\ since' = [since EXCEPT ![t] = edition]
    /\ UNCHANGED <<edition, cached, fresh, served, overtaken>>

\* authenticate has taken the token out of the header.
ValidateToken(t) ==
    /\ stage[t] = "none"
    /\ \E key \in AllKeys :
          /\ kid' = [kid EXCEPT ![t] = key]
          /\ IF cached # 0 /\ fresh THEN Lookup(t, cached, key, TRUE)
             ELSE stage' = [stage EXCEPT ![t] = "fetch"]
    /\ since' = [since EXCEPT ![t] = edition]
    /\ UNCHANGED <<edition, cached, fresh, served, overtaken>>

\* OIDC is disabled, or the header is missing, malformed or empty.
RefuseHeader(t) ==
    /\ stage[t] = "none"
    /\ stage' = [stage EXCEPT ![t] = "refused"]
    /\ UNCHANGED <<edition, cached, fresh, kid, since, served, overtaken>>

\* The provider answers with the edition of the moment.
ProviderAnswers(t) ==
    /\ stage[t] \in {"fetch", "fetch_again"} /\ served[t] = 0
    /\ served' = [served EXCEPT ![t] = edition]
    /\ UNCHANGED <<edition, cached, fresh, kid, since, stage, overtaken>>

UnderWay == {t \in Tokens : served[t] # 0}

\* _fetch_jwks after its await: the answer becomes the cache.
FetchJwks(t) ==
    /\ served[t] # 0
    /\ cached' = served[t]
    /\ fresh' = TRUE
    /\ Lookup(t, served[t], kid[t], stage[t] = "fetch")
    /\ served' = [served EXCEPT ![t] = 0]
    /\ overtaken' = (overtaken \cup UnderWay) \ {t}
    /\ UNCHANGED <<edition, kid, since>>

\* Mutant: a failed fetch forgets the cached copy.
FetchFails_forgets(t) ==
    /\ stage[t] \in {"fetch", "fetch_again"}
    /\ stage' = [stage EXCEPT ![t] = "fetch_failed"]
    /\ cached' = 0
    /\ served' = [served EXCEPT ![t] = 0]
    /\ overtaken' = overtaken \ {t}
    /\ UNCHANGED <<edition, fresh, kid, since>>

\* JWKSFetchError: the cached copy stays as it is.
FetchFails(t) ==
    /\ stage[t] \in {"fetch", "fetch_again"}
    /\ stage' = [stage EXCEPT ![t] = "fetch_failed"]
    /\ served' = [served EXCEPT ![t] = 0]
    /\ overtaken' = overtaken \ {t}
    /\ UNCHANGED <<edition, cached, fresh, kid, since>>

\* _decode_jwt, the claims model and extract_identity have the last word.
JudgeClaims(t) ==
    /\ stage[t] = "key_found"
    /\ \E verdict \in {"authenticated", "bad_claims"} :
          stage' = [stage EXCEPT ![t] = verdict]
    /\ UNCHANGED <<edition, cached, fresh, kid, since, served, overtaken>>

\* The provider rotates or retires a key; the TTL of the copy passes.
PublishEdition ==
    /\ edition < Len(KeySets)
    /\ edition' = edition + 1
    /\ UNCHANGED <<cached, fresh, kid, since, stage, served, overtaken>>

TtlPasses ==
    /\ fresh
    /\ fresh' = FALSE
    /\ UNCHANGED <<edition, cached, kid, since, stage, served, overtaken>>

KeyNext ==
    \/ \E t \in Tokens :
          \/ ValidateToken(t) \/ RefuseHeader(t) \/ ProviderAnswers(t)
          \/ FetchJwks(t) \/ FetchFails(t) \/ JudgeClaims(t)
    \/ PublishEdition \/ TtlPasses

KeySpec == KeyInit /\ [][KeyNext]_keyVars

-----------------------------------------------------------------------------
(* Properties *)

\* A key that was published all the while is never called unknown, however old
\* the cached copy was and whatever other validations stored in between.
PublishedKeyIsKnown ==
    \A t \in Tokens : stage[t] = "unknown_key" =>
        \E e \in since[t]..edition : kid[t] \notin KeySets[e]

\* The cache goes back to an older edition only through an answer that another
\* one overtook on its way.
OlderKeysNeedOvertaking ==
    [][cached' < cached =>
          \E t \in overtaken : served[t] = cached' /\ served'[t] = 0]_keyVars
=============================================================================
