----------------------------- MODULE ProofAttempt -----------------------------
(***************************************************************************)
(* One candidate proof of the inference pipeline (src/run.py): rounds of   *)
(* verification, meta-verification and refinement, as run_single_attempt   *)
(* and run_verification_round run them.                                    *)
(*                                                                         *)
(* A round asks VerifyN verifiers, and MetaN meta-verifiers about every    *)
(* review they return, all concurrently.  Results are taken in batches,    *)
(* whatever asyncio.wait finds finished, and a round may end early.        *)
(* Scores are counted in halves: 0, 1, 2 stand for 0, 0.5 and 1.           *)
(***************************************************************************)
EXTENDS Integers, Sequences, FiniteSets

CONSTANTS
  VerifyN,         \* verify_n
  MetaN,           \* meta_n
  AllReviews,      \* meta_policy is all-reviews, not low-only
  StrictPassMeta,  \* strict_pass_meta
  RefineRounds,    \* refine_rounds
  RefineReviewN,   \* refine_review_n
  One              \* the score 1: weighted scores are counted in 1 / One

ASSUME AttemptAssumption ==
  /\ VerifyN \in Nat \ {0}
  /\ {MetaN, RefineRounds, RefineReviewN} \subseteq Nat
  /\ {AllReviews, StrictPassMeta} \subseteq BOOLEAN

(* Every mean of scores is a whole number of parts: 20 for 0.6 of a half,  *)
(* k for the mean of k votes, n for the mean of n verifiers.               *)
ASSUME ScoresAreExact ==
  /\ One \in Nat \ {0}
  /\ \A k \in {1} \union 1 .. MetaN, n \in 1 .. VerifyN : One % (20 * k * n) = 0

Verifiers == 1 .. VerifyN
Pass == 2
NoScore == -1       \* the answer could not be parsed, or the call failed
Answers == {0, 1, Pass, NoScore}

VARIABLES
  pc,        \* "verify", "refine", "done" or "failed"
  proof,     \* the proof at hand: 0 is the first, n the one refined n-th
  pending,   \* tasks of the round that have not been taken
  batch,     \* tasks that asyncio.wait returned and that are not processed
  verdicts,  \* verifier_results_by_index
  votes,     \* meta_results_by_verifier: how many votes of each kind
  stop,      \* early_stop
  rounds,    \* the rounds that are over, with their aggregation
  best       \* best_round_idx, 0 before the first round is over

roundVars == <<pending, batch, verdicts, votes, stop>>
vars == <<pc, proof, roundVars, rounds, best>>

VerifierTasks == [verifier : Verifiers, meta : {0}]
MetaTasks(i) == [verifier : {i}, meta : 1 .. MetaN]
Tasks == [verifier : Verifiers, meta : 0 .. MetaN]
NoVotes == [i \in Verifiers |-> [a \in Answers |-> 0]]

-----------------------------------------------------------------------------
(* aggregate_proof_label, for the verdicts v and the votes m of a round.   *)

(* summarize_meta_votes: the votes on a review, and those that were parsed. *)
All(m, i) == m[i][0] + m[i][1] + m[i][Pass] + m[i][NoScore]
Parsed(m, i) == m[i][0] + m[i][1] + m[i][Pass]
Scored(v) == {i \in DOMAIN v : v[i] # NoScore}

(* A majority of the votes there are, parsed or not.                       *)
Majority(m, i) == m[i][Pass] >= All(m, i) \div 2 + 1
Critiques(v, m) == {i \in Scored(v) : v[i] < Pass /\ (MetaN = 0 \/ Majority(m, i))}

(* verifier_meta_factor: the mean of the parsed votes, 0.6 if there is     *)
(* none; and the mean of the scores weighted by it.                        *)
Weighted(v, m, i) ==
  CASE MetaN = 0         -> (v[i] * One) \div 2
    [] Parsed(m, i) = 0  -> (v[i] * 3 * One) \div 10
    [] OTHER             -> (v[i] * (m[i][1] + 2 * m[i][Pass]) * One) \div (4 * Parsed(m, i))
WeightedSum(v, m) ==
  LET sum[k \in 0 .. VerifyN] ==
        IF k = 0 THEN 0 ELSE sum[k - 1] + (IF k \in Scored(v) THEN Weighted(v, m, k) ELSE 0)
  IN  sum[VerifyN]
FinalScore(v, m) ==
  IF Scored(v) = {} THEN NoScore ELSE WeightedSum(v, m) \div Cardinality(Scored(v))

AllPassed_OfParsed(v) == Scored(v) # {} /\ \A i \in Scored(v) : v[i] = Pass

(* compute_strict_pass                                                     *)
AllPassed(v) == DOMAIN v # {} /\ \A i \in DOMAIN v : v[i] = Pass
StrictPass(v, m) ==
  /\ AllPassed(v)
  /\ StrictPassMeta /\ MetaN > 0
       => \A i \in DOMAIN v : Parsed(m, i) > 0 /\ Majority(m, i)

Aggregation(v, m) ==
  [score |-> FinalScore(v, m), critiques |-> Critiques(v, m), strict |-> StrictPass(v, m)]

(* A proof scored below 1 for a validated reason is worth refining.        *)
Refinable(a) == a.score # NoScore /\ a.score < One /\ a.critiques # {}

-----------------------------------------------------------------------------
(* run_verification_round                                                  *)

FreshRound ==
  /\ pending' = VerifierTasks /\ batch' = {}
  /\ verdicts' = <<>> /\ votes' = NoVotes /\ stop' = FALSE

Init ==
  /\ pc = "verify" /\ proof = 0
  /\ pending = VerifierTasks /\ batch = {}
  /\ verdicts = <<>> /\ votes = NoVotes /\ stop = FALSE
  /\ rounds = <<>> /\ best = 0

(* asyncio.wait returns the tasks that are finished.                       *)
Wait ==
  /\ pc = "verify" /\ batch = {}
  /\ batch' \in (SUBSET pending) \ {{}}
  /\ pending' = pending \ batch'
  /\ UNCHANGED <<pc, proof, verdicts, votes, stop, rounds, best>>

(* should_run_meta_verification                                            *)
NeedsMeta(s) == s # NoScore /\ (AllReviews \/ s < Pass)

(* enough_validated_critiques: no more reviews are needed to refine.       *)
Enough(v, m) ==
  LET a == Aggregation(v, m) IN
  /\ Len(rounds) < RefineRounds
  /\ Refinable(a) /\ Cardinality(a.critiques) >= RefineReviewN

(* After the last task of a batch the others are cancelled if the round    *)
(* ends early.                                                             *)
Proceed(t, added) ==
  /\ batch' = batch \ {t}
  /\ stop' = (stop \/ Enough(verdicts', votes'))
  /\ pending' = IF batch' = {} /\ stop' THEN {} ELSE pending \union added
  /\ UNCHANGED <<pc, proof, rounds, best>>

TakeReview_LosesMeta(t) ==
  /\ t.meta = 0
  /\ \E s \in Answers :
       /\ verdicts' = [i \in DOMAIN verdicts \union {t.verifier} |->
                         IF i = t.verifier THEN s ELSE verdicts[i]]
       /\ UNCHANGED votes
       /\ Proceed(t, IF NeedsMeta(s) /\ batch = {t} THEN MetaTasks(t.verifier) ELSE {})

(* A verifier's review is recorded and, if the policy asks for it, sent to *)
(* the meta-verifiers.                                                     *)
TakeReview(t) ==
  /\ t.meta = 0
  /\ \E s \in Answers :
       /\ verdicts' = [i \in DOMAIN verdicts \union {t.verifier} |->
                         IF i = t.verifier THEN s ELSE verdicts[i]]
       /\ UNCHANGED votes
       /\ Proceed(t, IF NeedsMeta(s) THEN MetaTasks(t.verifier) ELSE {})

TakeVote(t) ==
  /\ t.meta # 0
  /\ \E s \in Answers :
       /\ votes' = [votes EXCEPT ![t.verifier][s] = @ + 1]
       /\ UNCHANGED verdicts
       /\ Proceed(t, {})

-----------------------------------------------------------------------------
(* run_single_attempt                                                      *)

(* The number of the round counts from 0.                                  *)
ShouldRefine_AfterLast(a) == Len(rounds) <= RefineRounds /\ Refinable(a)
ShouldRefine(a) == Len(rounds) < RefineRounds /\ Refinable(a)

Better_Latest(a) == TRUE

(* The later of two rounds with the same score is kept.                    *)
Better(a) == best = 0 \/ a.score >= rounds[best].result.score

EndRound ==
  /\ pc = "verify" /\ pending = {} /\ batch = {}
  /\ LET a == Aggregation(verdicts, votes) IN
     /\ rounds' = Append(rounds, [proof |-> proof, verdicts |-> verdicts, votes |-> votes,
                                  stop |-> stop, result |-> a])
     /\ best' = IF Better(a) THEN Len(rounds) + 1 ELSE best
     /\ pc' = IF ShouldRefine(a) THEN "refine" ELSE "done"
  /\ UNCHANGED <<proof, roundVars>>

(* The refined proof is verified in the next round, if there is one.  An   *)
(* answer without a valid proof keeps the previous proof and ends the      *)
(* attempt; a call that raises loses the candidate.                        *)
Refine ==
  /\ pc = "refine"
  /\ \/ /\ proof' = proof + 1
        /\ IF Len(rounds) <= RefineRounds
           THEN pc' = "verify" /\ FreshRound
           ELSE pc' = "done" /\ UNCHANGED roundVars
     \/ /\ pc' \in {"done", "failed"}
        /\ UNCHANGED <<proof, roundVars>>
  /\ UNCHANGED <<rounds, best>>

(* What the attempt returns: if a round before the last one was better,    *)
(* its proof and its aggregation.                                          *)
Returned ==
  LET back == best # Len(rounds) IN
  [proof  |-> IF back THEN rounds[best].proof ELSE proof,
   result |-> IF back THEN rounds[best].result ELSE rounds[Len(rounds)].result]

Next ==
  \/ Wait
  \/ \E t \in batch : TakeReview(t) \/ TakeVote(t)
  \/ EndRound
  \/ Refine

Spec == Init /\ [][Next]_vars
-----------------------------------------------------------------------------
TypeOK ==
  /\ pc \in {"verify", "refine", "done", "failed"}
  /\ proof \in 0 .. RefineRounds
  /\ pending \subseteq Tasks /\ batch \subseteq Tasks
  /\ DOMAIN verdicts \subseteq Verifiers /\ \A i \in DOMAIN verdicts : verdicts[i] \in Answers
  /\ votes \in [Verifiers -> [Answers -> 0 .. MetaN]]
  /\ stop \in BOOLEAN
  /\ Len(rounds) <= RefineRounds + 1 /\ best \in 0 .. Len(rounds)

-----------------------------------------------------------------------------
(* Properties.                                                             *)

(* A refinement never costs a score: what the attempt returns was scored   *)
(* at least as high as every proof it verified (the rollback of            *)
(* run_single_attempt).                                                    *)
KeepsTheBest ==
  pc = "done" => \A r \in DOMAIN rounds : Returned.result.score >= rounds[r].result.score

(* The proof that is returned is the one whose verification is returned    *)
(* with it: no refined proof leaves the attempt unverified, and a rollback *)
(* takes proof and aggregation from the same round.                        *)
ReturnedProofWasVerified ==
  pc = "done" => \E r \in DOMAIN rounds :
                   rounds[r].proof = Returned.proof /\ rounds[r].result = Returned.result

(* A strict pass, which ends the search for a proof, was given by all the  *)
(* verifiers that were asked: reviews that were cancelled, that failed or  *)
(* that could not be parsed do not turn a partial pass into a strict one.  *)
StrictPassIsUnanimous ==
  \A r \in DOMAIN rounds : rounds[r].result.strict =>
    \A i \in Verifiers : i \in DOMAIN rounds[r].verdicts /\ rounds[r].verdicts[i] = Pass

(* A round that is not ended early takes every review and every vote it    *)
(* asked for, also of meta-verifiers that were asked while a batch was     *)
(* processed (run_verification_round adds them to the set it waits on).    *)
RoundIsComplete ==
  \A r \in DOMAIN rounds : ~rounds[r].stop =>
    /\ DOMAIN rounds[r].verdicts = Verifiers
    /\ \A i \in Verifiers :
         NeedsMeta(rounds[r].verdicts[i]) => All(rounds[r].votes, i) = MetaN

(* run.py:3938: "early stopping verification round due to enough validated *)
(* critiques".  A round that is ended early has enough critiques to refine *)
(* the proof with.                                                         *)
EarlyStopHasCritiques ==
  \A r \in DOMAIN rounds : rounds[r].stop => rounds[r].result.critiques # {}
=============================================================================
