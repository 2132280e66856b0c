---------------------------- MODULE SoloRollout ----------------------------
(***************************************************************************)
(* A rollout that has no group.  Three environments run one:               *)
(*   "train"    ProofOPDEnv of src/proof_opd_env/proof_opd_env.py, the     *)
(*              packaged copy, which has no gate and no selector;          *)
(*   "answers"  its ProofOPDVerifiableEvalEnv, where the answer of the     *)
(*              last round is compared with the known one;                 *)
(*   "select"   ProofOPDVerifiableEvalEnv of src/proof_opd_env.py, which   *)
(*              inherits a selector as well.                               *)
(* Verifier and meta scores are in halves, a round's sum of their products *)
(* in quarters, a format score in tenths.                                  *)
(***************************************************************************)
EXTENDS Integers, Sequences, FiniteSets

CONSTANTS
  SoloRefineRounds,   \* refine_rounds
  NumVerifiers,       \* num_verifiers
  ReviewN,            \* refine_review_n
  SelectorTopK,       \* selector_top_k
  EarlyStopReward,    \* refine_early_stop_reward, in units of a round's reward
  EnableMeta,         \* enable_meta_verification
  FormatScores,       \* the format scores a usable proof can have, in tenths
  Scores              \* the scores verifiers and meta-verifiers give, in halves

ASSUME SoloAssumption ==
  /\ SoloRefineRounds \in Nat
  /\ NumVerifiers \in Nat \ {0}
  /\ EnableMeta \in BOOLEAN
  /\ FormatScores \subseteq 1 .. 10
  /\ Scores \subseteq 0 .. 2

VARIABLES
  env,       \* which of the three environments
  at,        \* "model": a call is in flight; "reply": it was answered; "over"
  step,      \* state["proof_opd_stage"]
  gen,       \* state["proof_opd_generation"]: its format score, and is its answer right?
  results,   \* state["proof_opd_verifier_results"] ...
  earned,    \* ... and the sum of what its reviews are worth
  pending,   \* the score of the review the meta-verifier is reading
  rounds,    \* state["proof_opd_rounds"]
  paid,      \* state["proof_opd_reward_payload"]: its reward and round
  quoted,    \* the round and the reviews the last refinement prompt quotes
  calls      \* Len(state["trajectory"])

soloVars == <<env, at, step, gen, results, earned, pending, rounds, paid, quoted, calls>>

NoGeneration == [fmt |-> 0, right |-> FALSE]
Unpaid == [reward |-> 0, round |-> -1]
Perfect == 10 * 4 * NumVerifiers     \* a reward of 1

(* setup_state, and the first prompt.                                      *)
SoloInit ==
  /\ env \in {"train", "answers", "select"}
  /\ at = "model" /\ step = "proof"
  /\ gen = NoGeneration /\ results = <<>> /\ earned = 0 /\ pending = 0
  /\ rounds = <<>> /\ paid = Unpaid
  /\ quoted = [round |-> 0, reviews |-> {}]
  /\ calls = 0

-----------------------------------------------------------------------------
(* Rounds.                                                                 *)

(* __init__: one generation and one or two calls per verifier a round, and *)
(* one call more (two for the environment that knows a selector).          *)
TurnLimit ==
  (1 + NumVerifiers * (IF EnableMeta THEN 2 ELSE 1)) * (SoloRefineRounds + 1)
    + IF env = "select" THEN 2 ELSE 1

(* _verifier_reward_term: an invalid review is worth nothing, an invalid   *)
(* meta-review one half.                                                   *)
Term(result) == IF result.valid THEN result.score * result.meta ELSE 0

(* _summarize_verifier_results sums the terms of all results.              *)
EarnedWith(result) == earned + Term(result)
RoundReward(round) == round.fmt * round.sum

(* The order of _select_refinement_reviews: low scores first, among them   *)
(* the ones the meta-verifier trusts, among those the earlier ones.        *)
Sooner(rs, i, j) ==
  \/ rs[i].score < rs[j].score
  \/ rs[i].score = rs[j].score /\ rs[i].meta > rs[j].meta
  \/ rs[i].score = rs[j].score /\ rs[i].meta = rs[j].meta /\ i < j

(* _select_refinement_reviews: the first refine_review_n valid reviews.    *)
ReviewsOf(rs) ==
  LET valid == {i \in DOMAIN rs : rs[i].valid}
  IN  {i \in valid : Cardinality({j \in valid : Sooner(rs, j, i)}) < ReviewN}

(* max(range(len(rounds)), key=reward): the first of the best.             *)
BestOf(rs) ==
  CHOOSE i \in DOMAIN rs :
    \A j \in DOMAIN rs : \/ RoundReward(rs[i]) > RoundReward(rs[j])
                         \/ RoundReward(rs[i]) = RoundReward(rs[j]) /\ i <= j

(* _rank_selector_candidates of the rounds with a proof.                   *)
Usable == {i \in DOMAIN rounds' : rounds'[i].fmt > 0}
Ahead(i, j) ==
  LET a == rounds'[i]  b == rounds'[j] IN
  \/ RoundReward(a) > RoundReward(b)
  \/ RoundReward(a) = RoundReward(b) /\ a.fmt > b.fmt
  \/ RoundReward(a) = RoundReward(b) /\ a.fmt = b.fmt /\ i > j
Ranked == {i \in Usable : Cardinality({j \in Usable : Ahead(j, i)}) < SelectorTopK}

-----------------------------------------------------------------------------
(* Where the rollout goes after a reply.                                   *)
Ask(s) == at' = "model" /\ step' = s
StopHere == at' = "over" /\ UNCHANGED step

(* _finish_candidate of the environment with a selector: a poor rollout    *)
(* with a usable proof has its rounds ranked by one more call.             *)
FinishSelecting ==
  IF paid'.reward < EarlyStopReward /\ Usable # {} THEN Ask("selector") ELSE StopHere

(* _attach_answer_metrics and _maybe_score_valid_generation_for_eval: the  *)
(* valid proof of the last round is only compared with the known answer.   *)
AnswerScored(g) ==
  /\ rounds' = Append(rounds, [fmt |-> g.fmt, sum |-> 0, reviews |-> {}])
  /\ paid' = [reward |-> IF g.right THEN Perfect ELSE 0, round |-> Len(rounds)]
  /\ StopHere
  /\ UNCHANGED <<results, earned>>

(* _invalid_generation_payload: the payload is the invalid round's and is  *)
(* worth nothing, whatever the earlier rounds were worth.                  *)
Invalid ==
  /\ rounds' = Append(rounds, [fmt |-> 0, sum |-> 0, reviews |-> {}])
  /\ paid' = [reward |-> 0, round |-> Len(rounds)]
  /\ IF env = "select" THEN FinishSelecting ELSE StopHere
  /\ UNCHANGED <<results, earned>>

(* _start_verification_round                                               *)
Verify ==
  /\ results' = <<>> /\ earned' = 0
  /\ Ask("verifier")
  /\ UNCHANGED <<rounds, paid>>

(* What parse_generation_response and _generation_invalid_reason find in a *)
(* reply: no usable proof, or one whose format is whole or partial.        *)
Proofs == [valid : {FALSE}, fmt : {0}, right : {FALSE}]
            \union [valid : {TRUE}, fmt : FormatScores, right : BOOLEAN]

(* The stages "proof" and "refine" of _advance_after_completion.           *)
ReadProof ==
  /\ at = "reply" /\ step \in {"proof", "refine"}
  /\ \E p \in Proofs :
       /\ env = "train" => ~p.right     \* nothing looks at the answer
       /\ gen' = [fmt |-> p.fmt, right |-> p.right]
       /\ IF ~p.valid THEN Invalid
          ELSE IF env # "train" /\ Len(rounds) >= SoloRefineRounds THEN AnswerScored(gen')
          ELSE Verify
  /\ UNCHANGED <<env, pending, quoted, calls>>

(* _should_refine: the environments that score answers always refine.      *)
ShouldRefine(rs, reward) ==
  /\ Len(rs) <= SoloRefineRounds
  /\ env = "train" => reward < EarlyStopReward

Quote_Latest(k, rs) == [round |-> k, reviews |-> rs[Len(rs)].reviews]

(* _next_refinement_prompt: the proof of the payload's round with reviews  *)
(* of that round.                                                          *)
Quote(k, rs) == [round |-> k, reviews |-> rs[k].reviews]

(* _finalize_round and the rest of _after_verifier_result.                 *)
FinalizeRound(rs) ==
  LET best == BestOf(rs) IN
  /\ rounds' = rs
  /\ paid' = [reward |-> RoundReward(rs[best]), round |-> best - 1]
  /\ IF ShouldRefine(rs, paid'.reward)
     THEN /\ quoted' = Quote(best, rs)
          /\ gen' = NoGeneration /\ results' = <<>> /\ earned' = 0
          /\ Ask("refine")
     ELSE StopHere /\ UNCHANGED <<quoted, gen, results, earned>>

(* _append_verifier_result and _after_verifier_result                      *)
Appended(result) ==
  LET rs == Append(results, result) IN
  IF Len(rs) < NumVerifiers
  THEN /\ results' = rs /\ earned' = EarnedWith(result)
       /\ Ask("verifier")
       /\ UNCHANGED <<rounds, paid, quoted, gen>>
  ELSE FinalizeRound(Append(rounds, [fmt |-> gen.fmt, sum |-> EarnedWith(result), reviews |-> ReviewsOf(rs)]))

(* A review is worth reading by the meta-verifier; the newer environment   *)
(* spares it the perfect ones.                                             *)
NeedsMeta(score) == EnableMeta /\ (env = "select" => score < 2)

(* The stage "verifier" of _advance_after_completion.                      *)
ReadReview ==
  /\ at = "reply" /\ step = "verifier"
  /\ \/ Appended([valid |-> FALSE, score |-> 0, meta |-> 0]) /\ UNCHANGED pending
     \/ \E score \in Scores :
          IF NeedsMeta(score)
          THEN /\ pending' = score
               /\ Ask("meta")
               /\ UNCHANGED <<results, earned, rounds, paid, quoted, gen>>
          ELSE Appended([valid |-> TRUE, score |-> score, meta |-> 2]) /\ UNCHANGED pending
  /\ UNCHANGED <<env, calls>>

(* The stage "meta" of _advance_after_completion.                          *)
ReadMeta ==
  /\ at = "reply" /\ step = "meta"
  /\ \E m \in Scores \union {1} :
       Appended([valid |-> TRUE, score |-> pending, meta |-> m])
  /\ pending' = 0
  /\ UNCHANGED <<env, calls>>

(* The stage "selector": _finalize_selector takes the round the reply      *)
(* names, or the first of the ranking.                                     *)
ReadChoice ==
  /\ at = "reply" /\ step = "selector"
  /\ rounds' = rounds
  /\ \E i \in Ranked : paid' = [reward |-> RoundReward(rounds[i]), round |-> i - 1]
  /\ StopHere
  /\ UNCHANGED <<env, gen, results, earned, pending, quoted, calls>>

(* The library appends a reply; at max_turns it stops without reading it.  *)
SoloReply ==
  /\ at = "model"
  /\ calls' = calls + 1
  /\ at' = IF calls' >= TurnLimit THEN "over" ELSE "reply"
  /\ UNCHANGED <<env, step, gen, results, earned, pending, rounds, paid, quoted>>

(* A call that fails ends the rollout.                                     *)
SoloFail ==
  /\ at = "model"
  /\ at' = "over"
  /\ UNCHANGED <<env, step, gen, results, earned, pending, rounds, paid, quoted, calls>>

SoloStep == SoloReply \/ SoloFail \/ ReadProof \/ ReadReview \/ ReadMeta \/ ReadChoice

-----------------------------------------------------------------------------
(* max_turns of __init__ (src/proof_opd_env/proof_opd_env.py:938) leaves   *)
(* room for every call: no reply is thrown away unread.                    *)
SoloTurnsSuffice == calls < TurnLimit

(* A refinement prompt quotes the best round there is, with reviews that   *)
(* were written about that round's proof.                                  *)
SoloRefinesTheBest ==
  step = "refine" /\ at = "model" =>
    /\ \A i \in DOMAIN rounds : RoundReward(rounds[i]) <= RoundReward(rounds[quoted.round])
    /\ quoted.reviews = rounds[quoted.round].reviews
    /\ paid.round = quoted.round - 1

(* An environment that scores answers and has no selector pays for the     *)
(* answer of the last round or nothing; one that trains pays, unless its   *)
(* last proof was invalid, what the best round is worth.                   *)
SoloPaysTheRightRound ==
  at = "over" /\ rounds # <<>> =>
    LET last == rounds[Len(rounds)] IN
    /\ env = "train" /\ last.fmt > 0 => \A i \in DOMAIN rounds : RoundReward(rounds[i]) <= paid.reward
    /\ env = "answers" /\ Len(rounds) > SoloRefineRounds =>
         paid.reward = IF last.fmt > 0 /\ gen.right THEN Perfect ELSE 0
=============================================================================
