---------------------------- MODULE MCInference ----------------------------
(* Inference for TLC: small contexts, plans and bars.                      *)
EXTENDS Inference

MCPlanIds == {<<1>>, <<2>>, <<1, 3>>}
=============================================================================
