----------------------------- MODULE MCPipeline -----------------------------
(***************************************************************************)
(* Pipeline on two CVEs and two invocations.  The deployments are the ones  *)
(* the repository wires: the port builder of di/pipeline.py, the CLI (no    *)
(* feature engineer) with and without the output ports, a service without   *)
(* LLM key and checkpoints, and partial bundles like those of the tests. *)
(***************************************************************************)
EXTENDS Pipeline

MCCves == 1..2
MCService == Ports
MCWirings ==
    {MCService,
     MCService \ {"features"},
     MCService \ {"features", "outputs"},
     MCService \ {"llm", "checkpoint"},
     {"parser", "policy", "levels", "outputs"},
     {"parser", "policy", "outputs"},
     {"parser"},
     {}}

MCMlScores == {60}
MCLlmScores == {80, 95}
MCRelevances == {50}
=============================================================================
