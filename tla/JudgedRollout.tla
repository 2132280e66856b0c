--------------------------- MODULE JudgedRollout ---------------------------
(***************************************************************************)
(* A rollout of src/deepseek_math_v2_env.py: a proof, or a proof and some  *)
(* refinements, each scored by a judge the rubric calls.                   *)
(* A base reward is in units of 1/400: weights in hundredths, scores in    *)
(* halves, alignment times self-evaluation score in quarters; a reward is  *)
(* a format score in tenths times that.                                    *)
(***************************************************************************)
EXTENDS Integers, Sequences

CONSTANTS
  JudgeRoundCounts,  \* refine_rounds; 0 is the single-turn environment
  JudgeStop,         \* early_stop_reward, in units of a reward
  ProofWeight,       \* proof_weight, in hundredths
  SelfWeight,        \* self_eval_weight, in hundredths
  JudgeMeta          \* enable_meta_verification

ASSUME JudgeAssumption ==
  /\ JudgeRoundCounts \subseteq Nat
  /\ ProofWeight \in Nat /\ SelfWeight \in Nat

VARIABLES
  most,        \* max_refine_rounds
  mode,        \* refine_reward_mode
  backend,     \* judge_backend: is there a judge?
  jat,         \* "model", "reply", "over"; "raised": a call failed; "unread": cut off
  judged,      \* state["deepseekmath_v2_rounds"]: the reward of every round
  bestIndex,   \* state["deepseekmath_v2_best_round_index"], from 1; 0 is None
  verdict,     \* state["deepseekmath_v2_reward_payload"]: reward, selected round, best reward
  jcalls       \* Len(state["trajectory"])

judgeVars == <<most, mode, backend, jat, judged, bestIndex, verdict, jcalls>>

NoVerdict == [reward |-> 0, selected |-> 0, best |-> 0]

(* setup_state                                                             *)
JudgeInit ==
  /\ most \in JudgeRoundCounts
  /\ mode \in {"selected", "best", "final"}
  /\ backend \in {"none", "api"}
  /\ jat = "model" /\ judged = <<>> /\ bestIndex = 0
  /\ verdict = NoVerdict /\ jcalls = 0

-----------------------------------------------------------------------------
(* Scores.  A missing self score counts 0.                                 *)
Alignment(self, proof) == 2 - (IF self > proof THEN self - proof ELSE proof - self)

BaseReward(proof, self, meta) ==
  2 * ProofWeight * proof + SelfWeight * Alignment(self, proof) * meta

(* _score_without_judge: the model's own score is believed.                *)
Unjudged == {f * 200 * s : f \in {0, 7, 10}, s \in 0 .. 2}

(* _score_with_judge_details: nothing for a fatal format error or a judge  *)
(* without a score, else both scores weighted; the judge of the self       *)
(* evaluation is asked when there is one.                                  *)
JudgedRewards ==
  {0} \union {f * BaseReward(p, s, m) :
                f \in {7, 10}, p \in 0 .. 2, s \in 0 .. 2, m \in IF JudgeMeta THEN 0 .. 2 ELSE {0}}

(* _score and _empty_solution_payload: what a reply can be worth.          *)
Worth == {0} \union IF backend = "none" THEN Unjudged ELSE JudgedRewards

(* max_turns: one more than there are replies, so that the last reply is   *)
(* scored before the library would stop.                                   *)
JudgeTurnLimit == IF most = 0 THEN 1 ELSE most + 2

JudgeReply ==
  /\ jat = "model"
  /\ jcalls' = jcalls + 1
  /\ jat' = IF most > 0 /\ jcalls' >= JudgeTurnLimit THEN "unread" ELSE "reply"
  /\ UNCHANGED <<most, mode, backend, judged, bestIndex, verdict>>

JudgeCallFails ==
  /\ jat = "model"
  /\ jat' = "raised"
  /\ UNCHANGED <<most, mode, backend, judged, bestIndex, verdict, jcalls>>

BestAfter_Last(rewards) == Len(rewards)

(* _score_latest_turn: a later round wins a tie.                           *)
BestAfter(rewards) ==
  IF bestIndex = 0 \/ rewards[Len(rewards)] >= rewards[bestIndex]
  THEN Len(rewards) ELSE bestIndex

(* _select_payload: the round the reward is taken from.                    *)
SelectedAfter(rewards) == IF mode = "final" THEN Len(rewards) ELSE BestAfter(rewards)

(* env_response and _score_latest_turn: the reply is scored, and unless it *)
(* is good enough or the last one another round is asked for.              *)
ScoreTurn ==
  /\ jat = "reply" /\ most > 0
  /\ \E r \in Worth :
       LET rewards == Append(judged, r) IN
       /\ judged' = rewards
       /\ bestIndex' = BestAfter(rewards)
       /\ verdict' = [reward |-> rewards[SelectedAfter(rewards)],
                      selected |-> SelectedAfter(rewards), best |-> rewards[bestIndex']]
       /\ jat' = IF Len(rewards) > most \/ r >= JudgeStop THEN "over" ELSE "model"
  /\ UNCHANGED <<most, mode, backend, jcalls>>

(* deepseekmath_v2_reward of the single-turn environment: the rubric       *)
(* scores the completion, for no payload was kept on the way.              *)
ScoreOnce ==
  /\ jat = "reply" /\ most = 0
  /\ \E r \in Worth :
       /\ judged' = <<r>>
       /\ verdict' = [reward |-> r, selected |-> 1, best |-> r]
  /\ bestIndex' = 1
  /\ jat' = "over"
  /\ UNCHANGED <<most, mode, backend, jcalls>>

(* _call_judge raises.                                                     *)
JudgeRaises ==
  /\ jat = "reply" /\ backend = "api"
  /\ jat' = "raised"
  /\ UNCHANGED <<most, mode, backend, judged, bestIndex, verdict, jcalls>>

JudgeStep == JudgeReply \/ JudgeCallFails \/ ScoreTurn \/ ScoreOnce \/ JudgeRaises

-----------------------------------------------------------------------------
(* The extra loop of max_turns (src/deepseek_math_v2_env.py:700): every    *)
(* reply is scored, none is cut off.                                       *)
JudgeTurnsSuffice == jat # "unread" /\ (jat = "over" => Len(judged) = jcalls)

(* The reward a rollout is given is that of the round its mode names, and  *)
(* the best reward it reports is the best there was.                       *)
JudgePaysTheRightRound ==
  judged # <<>> =>
    /\ \A i \in DOMAIN judged : judged[i] <= verdict.best
    /\ \E i \in DOMAIN judged : judged[i] = verdict.best
    /\ verdict.reward = IF mode = "final" THEN judged[Len(judged)] ELSE verdict.best
    /\ verdict.reward = judged[verdict.selected]
=============================================================================
