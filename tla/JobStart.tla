------------------------------ MODULE JobStart ------------------------------
(***************************************************************************)
(* What has to go right before a job trains: the nodes get to the point     *)
(* where they could (Launch), the packages they import are there            *)
(* (DependencyOverlay), SFT is laid out as it was asked for (WorkerPlan),   *)
(* or GRPO and VERL get their Ray cluster (RayCluster).                     *)
(*                                                                         *)
(* The parts share no state: the overlay is what happens within Launch's    *)
(* one step "installing", plan and cluster come after its last.  A          *)
(* behaviour is that of one part while the others rest.                     *)
(***************************************************************************)
EXTENDS Launch, DependencyOverlay, WorkerPlan, RayCluster

VARIABLE part

vars == <<part, launchVars, overlayVars, planVars, rayVars>>

RestingNeed == CHOOSE n \in Needs : TRUE
RestingImage == CHOOSE i \in Images : TRUE
RestingPlan == CHOOSE p \in Plans : TRUE

Init ==
  /\ part \in {"launch", "overlay", "plan", "ray"}
  /\ LaunchInit
  /\ RayInit /\ (part # "ray" => stopOnExit)
  /\ OverlayInit /\ (part # "overlay" => need = RestingNeed /\ image = RestingImage)
  /\ PlanInit /\ (part # "plan" => host = RestingPlan.host /\ opts = RestingPlan.opts)

Next ==
  \/ part = "launch" /\ LaunchStep /\ UNCHANGED <<part, overlayVars, planVars, rayVars>>
  \/ part = "overlay" /\ OverlayStep /\ UNCHANGED <<part, launchVars, planVars, rayVars>>
  \/ part = "plan" /\ PlanStep /\ UNCHANGED <<part, launchVars, overlayVars, rayVars>>
  \/ part = "ray" /\ RayStep /\ UNCHANGED <<part, launchVars, overlayVars, planVars>>

(* Nodes that can go on do so, and a job with a failed node is ended.       *)
Fairness ==
  /\ WF_launchVars(part = "launch" /\ (Train \/ GiveUp))
  /\ WF_rayVars(part = "ray" /\ RayGiveUp)
  /\ \A n \in Nodes : WF_launchVars(part = "launch" /\ NodeStep(n))
  /\ \A n \in RayNodes : WF_rayVars(part = "ray" /\ RayNodeStep(n))

Spec == Init /\ [][Next]_vars /\ Fairness

-----------------------------------------------------------------------------
(* No node is failed, and no Ray daemon left or lost, by the order in which  *)
(* the nodes of a job come up or by what earlier launches left; the two      *)
(* exceptions are StartedTooLate and misled.                                 *)
FaultlessJobFailsNobody == NobodyIsTurnedAway /\ RayIsUndisturbed

(* And such a job trains: no node waits for ever for a state file, a marker, *)
(* a product, the head or the workers.                                       *)
FaultlessJobTrains == FaultlessLaunchTrains /\ RayLaunchTrains
=============================================================================
