---------------------------- MODULE Environments ----------------------------
(***************************************************************************)
(* Every environment of the repository that can run a rollout by itself:   *)
(* ProofOPDEnv with a group of one (ProofGroup), the packaged copy and the *)
(* environments that score answers (SoloRollout), the judged environment   *)
(* of DeepSeekMath-V2 (JudgedRollout), and the datasets the environments   *)
(* are given (DatasetRows).  They share no state: a behaviour is that of   *)
(* one of them, the others rest.                                           *)
(***************************************************************************)
EXTENDS SoloRollout, JudgedRollout, DatasetRows

CONSTANTS N, ContinueCount, RefineRounds, GateEnabled, SelectorEnabled, Hybrid, Qualities

VARIABLES part, pc, stage, work, payload, told, recorded, records, gateOpen, selected,
          selIn, selFailed, poolOpen, pool, leader

(* ProofGroup, with the theorems about it.                                 *)
Group == INSTANCE ProofGroup_proofs

ASSUME EnvironmentsAssumption == Group!GroupAssumption

groupVars == <<pc, stage, work, payload, told, recorded, records, gateOpen, selected,
               selIn, selFailed, poolOpen, pool, leader>>
vars == <<part, groupVars, soloVars, judgeVars, rowsVars>>

(* A part that rests is in the first of its initial states.                *)
Init ==
  /\ part \in {"group", "solo", "judged", "rows"}
  /\ Group!Init /\ SoloInit /\ JudgeInit /\ DatasetInit
  /\ part # "group" => \A c \in DOMAIN work : work[c].continue
  /\ part # "solo" => env = "train"
  /\ part # "judged" => most = 0 /\ mode = "best" /\ backend = "none"
  /\ part # "rows" => /\ files = <<<<>>, <<>>>> /\ dmode = "single"
                      /\ limit = CHOOSE l \in Limits : TRUE

Next ==
  \/ part = "group" /\ Group!Next /\ UNCHANGED <<part, soloVars, judgeVars, rowsVars>>
  \/ part = "solo" /\ SoloStep /\ UNCHANGED <<part, groupVars, judgeVars, rowsVars>>
  \/ part = "judged" /\ JudgeStep /\ UNCHANGED <<part, groupVars, soloVars, rowsVars>>
  \/ part = "rows" /\ RowsStep /\ UNCHANGED <<part, groupVars, soloVars, judgeVars>>

Spec == Init /\ [][Next]_vars

-----------------------------------------------------------------------------
(* max_turns never cuts a rollout off, in any of the environments: no      *)
(* reply, the one that is read last included, is thrown away unread.       *)
TurnBudgetSuffices ==
  /\ Group!TurnBudgetSuffices
  /\ SoloTurnsSuffice
  /\ JudgeTurnsSuffice

(* The best round counts.  A round that was verified to its end never      *)
(* lowers a rollout's reward, and a refinement quotes the best round with  *)
(* the reviews of that round.                                              *)
VerifiedRoundKeepsBest ==
  [][/\ \A c \in DOMAIN stage :
          stage[c] \in {"verifier", "meta"} => payload'[c].reward >= payload[c].reward
     /\ step \in {"verifier", "meta"} => paid'.reward >= paid.reward
     /\ SoloRefinesTheBest']_vars

(* What a finished rollout is paid for is the round its environment says:  *)
(* the best verified one when it trains, the last answer when answers are  *)
(* scored, the round of refine_reward_mode when a judge scores.            *)
PaidForTheRightRound == SoloPaysTheRightRound /\ JudgePaysTheRightRound
=============================================================================
