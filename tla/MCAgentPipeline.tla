-------------------------- MODULE MCAgentPipeline --------------------------
(* Instances of AgentPipeline for TLC. *)
EXTENDS AgentPipeline, TLC

CONSTANTS custom, ps, randomValue, totalMemory, m1, m2

OneGaugeEach == (custom :> <<randomValue>>) @@ (ps :> <<totalMemory>>)
TwoRoundsAndOne == (custom :> 2) @@ (ps :> 1)
=============================================================================
