---------------------------- MODULE MCEnrichment ----------------------------
(***************************************************************************)
(* Three records over two CVEs, two of them at a time, a cache for one      *)
(* entry.  The sources are all down, or answer just enough (0.6) or not     *)
(* quite (0.4) to do without OSINT.  Two batches, so that the second meets  *)
(* what the first left.                                                     *)
(***************************************************************************)
EXTENDS Enrichment

CONSTANTS t1, t2, t3

MCTasks == {t1, t2, t3}
MCCveOf == [t \in MCTasks |-> IF t = t3 THEN "other" ELSE "shared"]
MCAnswers == {{}, {"epss", "github"}, {"nvd", "epss"}}
=============================================================================
