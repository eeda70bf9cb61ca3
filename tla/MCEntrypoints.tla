--------------------------- MODULE MCEntrypoints ---------------------------
(* One webhook report and two executions of the dashboard, two of the three   *)
(* in one behaviour: the second may meet a first that was given up.           *)
EXTENDS Entrypoints

CONSTANTS h1, s1, s2

MCHooks == {h1}
MCStreams == {s1, s2}
MCRuns == {h1, s1, s2}
=============================================================================
