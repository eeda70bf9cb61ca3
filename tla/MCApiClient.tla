---------------------------- MODULE MCApiClient ----------------------------
(***************************************************************************)
(* Two callers, two CVEs and room for one in the cache; the circuit opens   *)
(* after one failed call and tests with one.                                *)
(***************************************************************************)
EXTENDS ApiClient, TLC

CONSTANTS c1, c2, v1, v2

MCCallers == {c1, c2}
MCCves == {v1, v2}

\* No caller and no CVE differs from the others.
Symmetry == Permutations(MCCallers) \cup Permutations(MCCves)
=============================================================================
