--------------------------- MODULE MCLiveMonitor ---------------------------
(* Two runs, so that one can begin, end or die while the other is shown. *)
EXTENDS LiveMonitor

CONSTANTS r1, r2

MCRuns == {r1, r2}
=============================================================================
