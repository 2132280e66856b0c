-------------------------- MODULE Environments_proofs --------------------------
(***************************************************************************)
(* The environments that run a rollout by itself, for any number of rounds, *)
(* verifiers and weights: what a rollout is paid for, and that max_turns    *)
(* leaves room for every call.  For datasets of any size, how two are mixed.*)
(***************************************************************************)
EXTENDS Environments, NaturalsInduction, WellFoundedInduction, FiniteSetTheorems,
        FunctionTheorems, TLAPS

-----------------------------------------------------------------------------
(* The judged environment.                                                  *)

JudgeTypeOK ==
  /\ most \in Nat
  /\ mode \in {"selected", "best", "final"}
  /\ backend \in {"none", "api"}
  /\ jat \in {"model", "reply", "over", "raised"}
  /\ judged \in Seq(Nat)
  /\ bestIndex \in Nat
  /\ jcalls \in Nat

(* The index of the best round is that of a best round, and the payload is *)
(* that of the rounds there are.                                           *)
VerdictInv ==
  /\ bestIndex = 0 <=> judged = <<>>
  /\ judged # <<>> =>
       /\ bestIndex \in 1 .. Len(judged)
       /\ \A i \in 1 .. Len(judged) : judged[i] <= judged[bestIndex]
       /\ verdict.best = judged[bestIndex]
       /\ verdict.selected = IF mode = "final" THEN Len(judged) ELSE bestIndex
       /\ verdict.reward = judged[verdict.selected]

(* Every reply but the one at hand was scored.                             *)
JudgeTurns ==
  /\ jat = "model" => jcalls = Len(judged) /\ Len(judged) <= most
  /\ jat = "reply" => jcalls = Len(judged) + 1 /\ Len(judged) <= most
  /\ jat = "over" => jcalls = Len(judged)

JudgeInv == JudgeTypeOK /\ VerdictInv /\ JudgeTurns

LEMMA ProductIsNat ==
  ASSUME NEW m \in Nat, NEW n \in Nat
  PROVE  m * n \in Nat
  OBVIOUS

(* What a reply is worth is a number of the unit.                          *)
LEMMA WorthIsNat == Worth \subseteq Nat
<1>1. Unjudged \subseteq Nat
  BY DEF Unjudged
<1>2. ASSUME NEW p \in 0 .. 2, NEW s \in 0 .. 2, NEW m \in 0 .. 2
      PROVE  BaseReward(p, s, m) \in Nat
  <2>1. Alignment(s, p) \in 0 .. 2
    BY DEF Alignment
  <2>2. ProofWeight \in Nat /\ SelfWeight \in Nat
    BY JudgeAssumption
  <2>3. 2 * ProofWeight * p \in Nat
    BY <2>2, ProductIsNat
  <2>4. SelfWeight * Alignment(s, p) \in Nat
    BY <2>1, <2>2, ProductIsNat
  <2>5. SelfWeight * Alignment(s, p) * m \in Nat
    BY <2>4, ProductIsNat
  <2>6. QED
    BY <2>3, <2>5 DEF BaseReward
<1>3. ASSUME NEW f \in {7, 10}, NEW p \in 0 .. 2, NEW s \in 0 .. 2, NEW m \in 0 .. 2
      PROVE  f * BaseReward(p, s, m) \in Nat
  BY <1>2, ProductIsNat
<1>4. JudgedRewards \subseteq Nat
  BY <1>3 DEF JudgedRewards
<1>5. QED
  BY <1>1, <1>4 DEF Worth

LEMMA JudgeInvInit == JudgeInit => JudgeInv
  BY JudgeAssumption DEF JudgeInit, JudgeInv, JudgeTypeOK, VerdictInv, JudgeTurns

LEMMA AppendFacts ==
  ASSUME NEW S, NEW s \in Seq(S), NEW e \in S
  PROVE  /\ Append(s, e) \in Seq(S) /\ Append(s, e) # <<>>
         /\ Len(Append(s, e)) = Len(s) + 1 /\ Len(s) \in Nat
         /\ DOMAIN Append(s, e) = 1 .. Len(s) + 1 /\ DOMAIN s = 1 .. Len(s)
         /\ Append(s, e)[Len(s) + 1] = e
         /\ \A i \in 1 .. Len(s) : Append(s, e)[i] = s[i]
  OBVIOUS

LEMMA JudgeInvStep == JudgeInv /\ [JudgeStep]_judgeVars => JudgeInv'
<1> SUFFICES ASSUME JudgeInv, [JudgeStep]_judgeVars PROVE JudgeInv'
  OBVIOUS
<1>1. CASE JudgeReply
  <2>1. /\ jat = "model" /\ jcalls' = jcalls + 1
        /\ UNCHANGED <<most, mode, backend, judged, bestIndex, verdict>>
    BY <1>1 DEF JudgeReply
  <2>2. jcalls = Len(judged) /\ Len(judged) <= most /\ Len(judged) \in Nat
    BY <2>1 DEF JudgeInv, JudgeTurns, JudgeTypeOK
  <2>3. jat' = "reply"
    BY <1>1, <2>1, <2>2 DEF JudgeReply, JudgeTurnLimit, JudgeInv, JudgeTypeOK
  <2>4. QED
    BY <2>1, <2>2, <2>3 DEF JudgeInv, JudgeTypeOK, VerdictInv, JudgeTurns
<1>2. CASE JudgeCallFails
  BY <1>2 DEF JudgeCallFails, JudgeInv, JudgeTypeOK, VerdictInv, JudgeTurns
<1>3. CASE JudgeRaises
  BY <1>3 DEF JudgeRaises, JudgeInv, JudgeTypeOK, VerdictInv, JudgeTurns
<1>4. CASE ScoreTurn
  <2> DEFINE n == Len(judged) + 1
  <2>1. PICK r \in Worth :
          LET rewards == Append(judged, r) IN
          /\ judged' = rewards
          /\ bestIndex' = BestAfter(rewards)
          /\ verdict' = [reward |-> rewards[SelectedAfter(rewards)],
                         selected |-> SelectedAfter(rewards), best |-> rewards[bestIndex']]
          /\ jat' = IF Len(rewards) > most \/ r >= JudgeStop THEN "over" ELSE "model"
    BY <1>4 DEF ScoreTurn
  <2>2. r \in Nat
    BY WorthIsNat
  <2>3. /\ judged' = Append(judged, r) /\ judged' \in Seq(Nat) /\ judged' # <<>>
        /\ Len(judged') = n /\ n \in Nat \ {0} /\ judged'[n] = r
        /\ \A i \in 1 .. Len(judged) : judged'[i] = judged[i]
    BY <2>1, <2>2, AppendFacts DEF JudgeInv, JudgeTypeOK
  <2>4. UNCHANGED <<most, mode, backend, jcalls>> /\ jat = "reply"
    BY <1>4 DEF ScoreTurn
  <2>5. bestIndex' = IF bestIndex = 0 \/ judged'[n] >= judged'[bestIndex] THEN n ELSE bestIndex
    BY <2>1, <2>3 DEF BestAfter
  <2>6. bestIndex' \in 1 .. n /\ \A i \in 1 .. n : judged'[i] <= judged'[bestIndex']
    <3>1. CASE bestIndex = 0
      <4>1. judged = <<>> /\ n = 1
        BY <3>1 DEF JudgeInv, VerdictInv
      <4>2. QED
        BY <2>2, <2>3, <2>5, <3>1, <4>1
    <3>2. CASE bestIndex # 0
      <4>1. /\ bestIndex \in 1 .. Len(judged)
            /\ \A i \in 1 .. Len(judged) : judged[i] <= judged[bestIndex]
        BY <3>2 DEF JudgeInv, VerdictInv
      <4>2. \A i \in 1 .. Len(judged) : judged[i] \in Nat
        BY DEF JudgeInv, JudgeTypeOK
      <4>3. Len(judged) \in Nat
        BY DEF JudgeInv, JudgeTypeOK
      <4>4. /\ judged'[bestIndex] = judged[bestIndex]
            /\ \A i \in 1 .. n : i = n \/ i \in 1 .. Len(judged)
        BY <2>3, <4>1, <4>3
      <4>5. CASE r >= judged[bestIndex]
        <5>1. bestIndex' = n
          BY <2>3, <2>5, <4>4, <4>5
        <5>2. ASSUME NEW i \in 1 .. Len(judged) PROVE judged'[i] <= r
          BY <2>2, <2>3, <4>1, <4>2, <4>5
        <5>3. QED
          BY <2>2, <2>3, <4>4, <5>1, <5>2
      <4>6. CASE ~(r >= judged[bestIndex])
        <5>1. bestIndex' = bestIndex /\ bestIndex \in 1 .. n
          BY <2>3, <2>5, <3>2, <4>1, <4>3, <4>4, <4>6
        <5>2. r <= judged[bestIndex]
          BY <2>2, <4>1, <4>2, <4>6
        <5>3. QED
          BY <2>3, <4>1, <4>4, <5>1, <5>2
      <4> QED BY <4>5, <4>6
    <3> QED BY <3>1, <3>2
  <2>7. /\ verdict'.best = judged'[bestIndex']
        /\ verdict'.selected = IF mode = "final" THEN n ELSE bestIndex'
        /\ verdict'.reward = judged'[verdict'.selected]
    BY <2>1, <2>3 DEF SelectedAfter
  <2>8. VerdictInv'
    BY <2>3, <2>4, <2>6, <2>7 DEF VerdictInv
  <2>9. jcalls = n
    BY <2>4 DEF JudgeInv, JudgeTurns
  <2>10. jat' = "over" \/ (jat' = "model" /\ n <= most)
    <3>1. CASE n > most
      BY <2>1, <2>3, <3>1
    <3>2. CASE n <= most
      BY <2>1, <2>3, <3>2
    <3> QED BY <2>3, <3>1, <3>2 DEF JudgeInv, JudgeTypeOK
  <2>11. JudgeTurns'
    BY <2>3, <2>4, <2>9, <2>10 DEF JudgeTurns
  <2>12. JudgeTypeOK'
    BY <2>3, <2>4, <2>6, <2>10 DEF JudgeInv, JudgeTypeOK
  <2> QED
    BY <2>8, <2>11, <2>12 DEF JudgeInv
<1>5. CASE ScoreOnce
  <2>1. PICK r \in Worth :
          /\ judged' = <<r>>
          /\ verdict' = [reward |-> r, selected |-> 1, best |-> r]
    BY <1>5 DEF ScoreOnce
  <2>2. bestIndex' = 1 /\ jat' = "over" /\ jat = "reply" /\ most = 0 /\ UNCHANGED <<most, mode, backend, jcalls>>
    BY <1>5 DEF ScoreOnce
  <2>3. r \in Nat
    BY WorthIsNat
  <2>4. judged' \in Seq(Nat) /\ Len(judged') = 1 /\ judged'[1] = r /\ judged' # <<>>
    BY <2>1, <2>3
  <2>5. jcalls = 1
    BY <2>2 DEF JudgeInv, JudgeTurns, JudgeTypeOK
  <2>6. VerdictInv'
    BY <2>1, <2>2, <2>3, <2>4 DEF VerdictInv
  <2> QED
    BY <2>2, <2>4, <2>5, <2>6 DEF JudgeInv, JudgeTypeOK, JudgeTurns
<1>6. CASE UNCHANGED judgeVars
  BY <1>6 DEF judgeVars, JudgeInv, JudgeTypeOK, VerdictInv, JudgeTurns
<1> QED
  BY <1>1, <1>2, <1>3, <1>4, <1>5, <1>6 DEF JudgeStep

LEMMA JudgeKeepsItsWord == JudgeInv => JudgeTurnsSuffice /\ JudgePaysTheRightRound
<1> SUFFICES ASSUME JudgeInv PROVE JudgeTurnsSuffice /\ JudgePaysTheRightRound
  OBVIOUS
<1>1. JudgeTurnsSuffice
  BY DEF JudgeTurnsSuffice, JudgeInv, JudgeTypeOK, JudgeTurns
<1>2. ASSUME judged # <<>>
      PROVE  /\ \A i \in DOMAIN judged : judged[i] <= verdict.best
             /\ \E i \in DOMAIN judged : judged[i] = verdict.best
             /\ verdict.reward = IF mode = "final" THEN judged[Len(judged)] ELSE verdict.best
             /\ verdict.reward = judged[verdict.selected]
  <2>1. DOMAIN judged = 1 .. Len(judged)
    BY DEF JudgeInv, JudgeTypeOK
  <2>2. QED
    BY <1>2, <2>1 DEF JudgeInv, VerdictInv
<1> QED
  BY <1>1, <1>2 DEF JudgePaysTheRightRound

-----------------------------------------------------------------------------
(* The best of a sequence of rounds.                                       *)

LEMMA SmallestOf ==
  ASSUME NEW S, S \subseteq Nat, S # {}
  PROVE  \E i \in S : \A j \in S : i <= j
<1> DEFINE R == {d \in Nat \X Nat : d[1] < d[2]}
<1>1. R = OpToRel(<, Nat)
  BY DEF OpToRel
<1>2. IsWellFoundedOn(R, Nat)
  BY <1>1, NatLessThanWellFounded
<1>3. PICK i \in S : \A j \in S : <<j, i>> \notin R
  BY <1>2, WFMin
<1>4. ASSUME NEW j \in S, j < i PROVE <<j, i>> \in R
  <2>1. <<j, i>> \in Nat \X Nat
    OBVIOUS
  <2>2. <<j, i>>[1] < <<j, i>>[2]
    BY <1>4
  <2> QED BY <2>1, <2>2
<1> HIDE DEF R
<1>5. \A j \in S : ~(j < i)
  BY <1>3, <1>4
<1>6. \A j \in S : i <= j
  BY <1>5
<1> QED BY <1>6

(* Is i the first of the largest of the first m?                           *)
FirstOf(f, i, m) ==
  \A j \in 1 .. m : f[i] > f[j] \/ (f[i] = f[j] /\ i <= j)

(* A shortest prefix without a first largest one cannot be.                *)
LEMMA LargestExists ==
  ASSUME NEW n \in Nat \ {0}, NEW f \in [1 .. n -> Nat]
  PROVE  \E i \in 1 .. n : FirstOf(f, i, n)
<1> DEFINE Bad == {m \in 1 .. n : ~ \E i \in 1 .. m : FirstOf(f, i, m)}
<1>1. SUFFICES ASSUME n \in Bad PROVE FALSE
  OBVIOUS
<1>2. PICK m \in Bad : \A k \in Bad : m <= k
  <2>1. Bad \subseteq 1 .. n
    OBVIOUS
  <2>2. Bad # {}
    BY <1>1, Zenon
  <2> HIDE DEF Bad
  <2>3. Bad \subseteq Nat
    BY <2>1
  <2>4. QED
    BY <2>2, <2>3, SmallestOf
<1>3. m \in 1 .. n /\ ~ \E i \in 1 .. m : FirstOf(f, i, m)
  OBVIOUS
<1>4. CASE m = 1
  <2>1. FirstOf(f, 1, 1)
    BY DEF FirstOf
  <2>2. QED
    BY <1>3, <1>4, <2>1
<1>5. CASE m # 1
  <2>1. m - 1 \in 1 .. n /\ m - 1 \notin Bad
    BY <1>2, <1>3, <1>5
  <2>2. PICK i \in 1 .. m - 1 : FirstOf(f, i, m - 1)
    BY <2>1
  <2>3. f[i] \in Nat /\ f[m] \in Nat /\ \A j \in 1 .. m : f[j] \in Nat
    BY <1>3
  <2>4. CASE f[m] > f[i]
    <3>1. ASSUME NEW j \in 1 .. m PROVE f[m] > f[j] \/ (f[m] = f[j] /\ m <= j)
      <4>1. CASE j = m
        BY <1>3, <2>3, <4>1
      <4>2. CASE j # m
        <5>1. j \in 1 .. m - 1
          BY <1>3, <4>2
        <5>2. f[i] > f[j] \/ f[i] = f[j]
          BY <2>2, <5>1 DEF FirstOf
        <5>3. QED
          BY <2>3, <2>4, <5>2
      <4> QED BY <4>1, <4>2
    <3> HIDE DEF Bad
    <3>a. FirstOf(f, m, m)
      BY <3>1 DEF FirstOf
    <3>2. QED
      BY <1>3, <3>a
  <2>5. CASE ~(f[m] > f[i])
    <3>1. FirstOf(f, i, m)
      BY <1>3, <2>2, <2>3, <2>5 DEF FirstOf
    <3>2. QED
      BY <1>3, <2>2, <3>1
  <2> QED BY <2>4, <2>5
<1> QED BY <1>4, <1>5

RoundT == [fmt : Nat, sum : Nat, reviews : SUBSET Nat]

LEMMA RewardIsNat ==
  ASSUME NEW r \in RoundT
  PROVE  RoundReward(r) \in Nat
  BY ProductIsNat DEF RoundReward, RoundT

(* _finalize_round finds a best round.                                     *)
LEMMA BestIsBest ==
  ASSUME NEW rs \in Seq(RoundT), rs # <<>>
  PROVE  /\ BestOf(rs) \in 1 .. Len(rs)
         /\ \A j \in 1 .. Len(rs) : RoundReward(rs[j]) <= RoundReward(rs[BestOf(rs)])
<1> DEFINE f == [i \in 1 .. Len(rs) |-> RoundReward(rs[i])]
<1>1. Len(rs) \in Nat \ {0} /\ DOMAIN rs = 1 .. Len(rs) /\ \A i \in 1 .. Len(rs) : rs[i] \in RoundT
  OBVIOUS
<1>2. \A i \in 1 .. Len(rs) : RoundReward(rs[i]) \in Nat
  BY <1>1, RewardIsNat
<1>3. f \in [1 .. Len(rs) -> Nat]
  BY <1>2
<1>4. \A i \in 1 .. Len(rs) : f[i] = RoundReward(rs[i])
  OBVIOUS
<1> HIDE DEF f
<1>5. PICK i \in 1 .. Len(rs) : FirstOf(f, i, Len(rs))
  BY <1>1, <1>3, LargestExists
<1>6. \A j \in DOMAIN rs : \/ RoundReward(rs[i]) > RoundReward(rs[j])
                           \/ RoundReward(rs[i]) = RoundReward(rs[j]) /\ i <= j
  BY <1>1, <1>4, <1>5 DEF FirstOf
<1>7. /\ BestOf(rs) \in DOMAIN rs
      /\ \A j \in DOMAIN rs :
           \/ RoundReward(rs[BestOf(rs)]) > RoundReward(rs[j])
           \/ RoundReward(rs[BestOf(rs)]) = RoundReward(rs[j]) /\ BestOf(rs) <= j
  BY <1>1, <1>5, <1>6 DEF BestOf
<1>8. QED
  BY <1>1, <1>2, <1>7

-----------------------------------------------------------------------------
(* Turns of a rollout, by the round and by the review.                      *)

PerReview == IF EnableMeta THEN 2 ELSE 1
Reviews(r) == PerReview * r
PerRound == 1 + NumVerifiers * PerReview
Spent(k) == PerRound * k

LEMMA ReviewTurns ==
  /\ PerReview \in {1, 2} /\ (EnableMeta => PerReview = 2)
  /\ \A r \in Nat : Reviews(r) \in Int /\ Reviews(r + 1) = Reviews(r) + PerReview
  /\ Reviews(0) = 0
  /\ PerRound \in Nat /\ PerRound = 1 + Reviews(NumVerifiers)
  /\ \A r \in Nat : r < NumVerifiers => Reviews(r) + PerReview <= Reviews(NumVerifiers)
<1>1. NumVerifiers \in Nat \ {0} /\ EnableMeta \in BOOLEAN
  BY SoloAssumption
<1>2. CASE EnableMeta
  BY <1>1, <1>2 DEF PerReview, Reviews, PerRound
<1>3. CASE ~EnableMeta
  BY <1>1, <1>3 DEF PerReview, Reviews, PerRound
<1> QED BY <1>1, <1>2, <1>3

LEMMA RoundTurns ==
  /\ \A k \in Nat : Spent(k) \in Nat /\ Spent(k + 1) = Spent(k) + PerRound
  /\ \A k, l \in Nat : k <= l => Spent(k) <= Spent(l)
<1>1. PerRound \in Nat
  BY ReviewTurns
<1>2. QED
  BY <1>1 DEF Spent

LEMMA LimitIsSpent ==
  TurnLimit = Spent(SoloRefineRounds + 1) + (IF env = "select" THEN 2 ELSE 1)
  BY DEF TurnLimit, Spent, PerRound, PerReview

-----------------------------------------------------------------------------
(* A rollout without a group.                                              *)

Result == [valid : BOOLEAN, score : Nat, meta : Nat]

SoloTypeOK ==
  /\ env \in {"train", "answers", "select"}
  /\ at \in {"model", "reply", "over"}
  /\ step \in {"proof", "verifier", "meta", "refine", "selector"}
  /\ gen \in [fmt : Nat, right : BOOLEAN]
  /\ results \in Seq(Result) /\ earned \in Nat /\ pending \in Nat
  /\ rounds \in Seq(RoundT)
  /\ paid \in [reward : Nat, round : Int]
  /\ calls \in Nat

(* The payload is worth the best round there is.                           *)
PaidIsBest ==
  /\ rounds = <<>> => paid.reward = 0
  /\ rounds # <<>> =>
       /\ \A i \in 1 .. Len(rounds) : RoundReward(rounds[i]) <= paid.reward
       /\ \E i \in 1 .. Len(rounds) : RoundReward(rounds[i]) = paid.reward

Reviewing == step \in {"verifier", "meta"}

(* Where a rollout that goes on is: within its rounds, its reviews and its *)
(* turns.                                                                  *)
UnderWay ==
  at # "over" =>
    /\ step # "selector" => PaidIsBest /\ Len(rounds) <= SoloRefineRounds
    /\ step = "selector" => env = "select" /\ Len(rounds) <= SoloRefineRounds + 1
    /\ Reviewing => /\ Len(results) < NumVerifiers
                    /\ env # "train" => Len(rounds) < SoloRefineRounds
    /\ step = "meta" => EnableMeta

Used ==
  Spent(Len(rounds)) + (IF Reviewing THEN 1 + Reviews(Len(results)) ELSE 0)
                     + (IF step = "meta" THEN 1 ELSE 0)

Turns ==
  /\ calls < TurnLimit
  /\ at = "model" => calls <= Used
  /\ at = "reply" => calls <= Used + 1

SoloInv == SoloTypeOK /\ UnderWay /\ Turns /\ SoloRefinesTheBest /\ SoloPaysTheRightRound

LEMMA SoloInvInit == SoloInit => SoloInv
<1> SUFFICES ASSUME SoloInit PROVE SoloInv
  OBVIOUS
<1>1. SoloTypeOK
  BY DEF SoloInit, SoloTypeOK, NoGeneration, Unpaid
<1>2. UnderWay
  BY SoloAssumption DEF SoloInit, UnderWay, PaidIsBest, Unpaid, Reviewing
<1>3. Turns
  <2>1. calls = 0 /\ Len(rounds) = 0 /\ step = "proof" /\ at = "model"
    BY DEF SoloInit
  <2>2. SoloRefineRounds + 1 \in Nat /\ 0 \in Nat
    BY SoloAssumption
  <2>3. TurnLimit > 0 /\ Spent(0) \in Nat
    <3>1. Spent(0) \in Nat /\ Spent(SoloRefineRounds + 1) \in Nat
      BY <2>2, RoundTurns
    <3>2. PICK s \in Nat : s = Spent(SoloRefineRounds + 1)
      BY <3>1
    <3>3. TurnLimit = s + 2 \/ TurnLimit = s + 1
      BY <3>2, LimitIsSpent
    <3> QED BY <3>1, <3>3
  <2>4. Used = Spent(0)
    BY <2>1, <2>3 DEF Used, Reviewing
  <2>5. QED
    BY <2>1, <2>3, <2>4 DEF Turns
<1>4. SoloRefinesTheBest /\ SoloPaysTheRightRound
  BY DEF SoloInit, SoloRefinesTheBest, SoloPaysTheRightRound
<1> QED
  BY <1>1, <1>2, <1>3, <1>4 DEF SoloInv

(* _finalize_round pays the best round, and goes on with a refinement that *)
(* quotes it or is over.                                                   *)
LEMMA Finalized ==
  ASSUME NEW rs \in Seq(RoundT), rs # <<>>, FinalizeRound(rs)
  PROVE  /\ rounds' = rs /\ paid' \in [reward : Nat, round : Int]
         /\ PaidIsBest'
         /\ \/ /\ at' = "model" /\ step' = "refine" /\ Len(rs) <= SoloRefineRounds
               /\ gen' = NoGeneration /\ results' = <<>> /\ earned' = 0
               /\ SoloRefinesTheBest'
            \/ /\ at' = "over" /\ UNCHANGED <<step, quoted, gen, results, earned>>
               /\ env = "train" \/ ~(Len(rs) <= SoloRefineRounds)
<1> DEFINE best == BestOf(rs)
<1>1. /\ rounds' = rs /\ paid' = [reward |-> RoundReward(rs[best]), round |-> best - 1]
  BY DEF FinalizeRound
<1>2. /\ best \in 1 .. Len(rs) /\ Len(rs) \in Nat
      /\ \A j \in 1 .. Len(rs) : RoundReward(rs[j]) <= RoundReward(rs[best])
  BY BestIsBest
<1>3. rs[best] \in RoundT /\ DOMAIN rs = 1 .. Len(rs)
  BY <1>2
<1>4. RoundReward(rs[best]) \in Nat /\ best - 1 \in Int
  BY <1>2, <1>3, RewardIsNat
<1> HIDE DEF best
<1>5. paid' \in [reward : Nat, round : Int]
  BY <1>1, <1>4
<1>6. PaidIsBest'
  BY <1>1, <1>2 DEF PaidIsBest
<1>7. CASE ShouldRefine(rs, paid'.reward)
  <2>1. /\ quoted' = Quote(best, rs) /\ gen' = NoGeneration /\ results' = <<>> /\ earned' = 0
        /\ at' = "model" /\ step' = "refine"
    BY <1>7 DEF FinalizeRound, Ask, best
  <2>2. quoted'.round = best /\ quoted'.reviews = rs[best].reviews
    BY <2>1 DEF Quote
  <2>3. SoloRefinesTheBest'
    BY <1>1, <1>2, <1>3, <1>4, <2>2 DEF SoloRefinesTheBest
  <2>4. Len(rs) <= SoloRefineRounds
    BY <1>7 DEF ShouldRefine
  <2>5. QED
    BY <1>1, <1>5, <1>6, <2>1, <2>3, <2>4
<1>8. CASE ~ShouldRefine(rs, paid'.reward)
  <2>1. at' = "over" /\ UNCHANGED <<step, quoted, gen, results, earned>>
    BY <1>8 DEF FinalizeRound, StopHere
  <2>2. env = "train" \/ ~(Len(rs) <= SoloRefineRounds)
    BY <1>8 DEF ShouldRefine
  <2>3. QED
    BY <1>1, <1>5, <1>6, <2>1, <2>2
<1> QED BY <1>7, <1>8

(* What a review's reply comes to.                                         *)
LEMMA Reviewed ==
  ASSUME SoloInv, at = "reply", Reviewing, NEW result \in Result, Appended(result),
         env' = env, calls' = calls, pending' \in Nat,
         calls <= Spent(Len(rounds)) + 1 + Reviews(Len(results)) + PerReview
  PROVE  SoloInv'
<1> DEFINE rs == Append(results, result)
           worth == EarnedWith(result)
           more == Append(rounds, [fmt |-> gen.fmt, sum |-> worth, reviews |-> ReviewsOf(rs)])
<1>1. /\ rs \in Seq(Result) /\ Len(rs) = Len(results) + 1 /\ DOMAIN rs = 1 .. Len(rs)
      /\ Len(results) \in Nat /\ Len(results) < NumVerifiers
  BY AppendFacts DEF SoloInv, SoloTypeOK, UnderWay
<1>2. worth \in Nat
  <2>1. result.score * result.meta \in Nat
    BY ProductIsNat DEF Result
  <2>2. Term(result) \in Nat
    BY <2>1 DEF Term
  <2>3. QED
    BY <2>2 DEF EarnedWith, SoloInv, SoloTypeOK
<1>3. ReviewsOf(rs) \subseteq Nat
  BY <1>1 DEF ReviewsOf
<1>4. gen \in [fmt : Nat, right : BOOLEAN] /\ Len(rounds) \in Nat /\ rounds \in Seq(RoundT)
  BY DEF SoloInv, SoloTypeOK
<1>5. [fmt |-> gen.fmt, sum |-> worth, reviews |-> ReviewsOf(rs)] \in RoundT
  BY <1>2, <1>3, <1>4 DEF RoundT
<1>6. more \in Seq(RoundT) /\ Len(more) = Len(rounds) + 1 /\ more # <<>>
  BY <1>4, <1>5, AppendFacts
<1>7. /\ PaidIsBest /\ Len(rounds) <= SoloRefineRounds /\ SoloRefineRounds \in Nat
      /\ env # "train" => Len(rounds) < SoloRefineRounds
      /\ calls < TurnLimit
  BY SoloAssumption DEF SoloInv, UnderWay, Reviewing, Turns
<1>8. TurnLimit' = TurnLimit
  BY DEF TurnLimit
<1>9. /\ Spent(Len(rounds)) \in Int /\ Spent(Len(rounds) + 1) = Spent(Len(rounds)) + PerRound
      /\ Reviews(Len(results)) \in Int
      /\ Reviews(Len(results) + 1) = Reviews(Len(results)) + PerReview
      /\ Reviews(Len(results)) + PerReview <= Reviews(NumVerifiers)
      /\ PerRound = 1 + Reviews(NumVerifiers) /\ PerReview \in {1, 2} /\ PerRound \in Nat
      /\ NumVerifiers \in Nat
  BY <1>1, <1>4, ReviewTurns, RoundTurns, SoloAssumption
<1>10. calls \in Nat
  BY DEF SoloInv, SoloTypeOK
<1>13. calls <= Spent(Len(rounds)) + 1 + Reviews(Len(results)) + PerReview
  OBVIOUS
<1>11. CASE Len(rs) < NumVerifiers
  <2>1. /\ results' = rs /\ earned' = worth /\ at' = "model" /\ step' = "verifier"
        /\ UNCHANGED <<rounds, paid, quoted, gen>>
    BY <1>11 DEF Appended, Ask
  <2> HIDE DEF rs, worth
  <2>2. SoloTypeOK'
    BY <1>1, <1>2, <2>1 DEF SoloInv, SoloTypeOK
  <2>3. UnderWay'
    BY <1>1, <1>7, <1>11, <2>1 DEF UnderWay, Reviewing, PaidIsBest
  <2>4. Used' = Spent(Len(rounds)) + 1 + Reviews(Len(results) + 1)
    <3>1. rounds' = rounds /\ Len(results') = Len(results) + 1 /\ step' = "verifier"
      BY <1>1, <2>1
    <3>2. Used' = Spent(Len(rounds)) + (1 + Reviews(Len(results) + 1)) + 0
      BY <3>1 DEF Used, Reviewing
    <3>3. Reviews(Len(results) + 1) \in Int /\ Spent(Len(rounds)) \in Int
      BY <1>9
    <3>4. QED
      BY <3>2, <3>3
  <2>5. Turns'
    <3>1. calls <= Used'
      <4>1. PICK spent \in Int, reviews \in Int, per \in Int :
              spent = Spent(Len(rounds)) /\ reviews = Reviews(Len(results)) /\ per = PerReview
        BY <1>9
      <4>2. calls <= spent + 1 + reviews + per
        BY <1>13, <4>1
      <4>3. Used' = spent + 1 + (reviews + per)
        BY <1>9, <2>4, <4>1
      <4>4. QED
        BY <1>10, <4>1, <4>2, <4>3
    <3>2. QED
      BY <1>7, <1>8, <2>1, <3>1 DEF Turns
  <2>6. SoloRefinesTheBest' /\ SoloPaysTheRightRound'
    BY <2>1 DEF SoloRefinesTheBest, SoloPaysTheRightRound
  <2> QED BY <2>2, <2>3, <2>5, <2>6 DEF SoloInv
<1>12. CASE ~(Len(rs) < NumVerifiers)
  <2>1. FinalizeRound(more)
    BY <1>12 DEF Appended
  <2> HIDE DEF more
  <2>2. rounds' = more /\ paid' \in [reward : Nat, round : Int] /\ PaidIsBest'
    BY <1>6, <2>1, Finalized
  <2>3. CASE /\ at' = "model" /\ step' = "refine" /\ Len(more) <= SoloRefineRounds
             /\ gen' = NoGeneration /\ results' = <<>> /\ earned' = 0
             /\ SoloRefinesTheBest'
    <3>1. SoloTypeOK'
      BY <1>6, <2>2, <2>3 DEF SoloInv, SoloTypeOK, NoGeneration
    <3>2. UnderWay'
      BY <2>2, <2>3 DEF UnderWay, Reviewing
    <3>3. Used' = Spent(Len(rounds) + 1)
      <4>1. Len(rounds') = Len(rounds) + 1 /\ step' = "refine"
        BY <1>6, <2>2, <2>3
      <4>2. Used' = Spent(Len(rounds) + 1) + 0 + 0
        BY <4>1 DEF Used, Reviewing
      <4>3. Spent(Len(rounds) + 1) \in Int
        BY <1>9
      <4>4. QED
        BY <4>2, <4>3
    <3>4. Turns'
      <4>1. calls <= Spent(Len(rounds) + 1)
        <5>1. Spent(Len(rounds)) + 1 + Reviews(Len(results)) + PerReview <= Spent(Len(rounds) + 1)
          <6>1. PICK a \in Int, b \in Int : a = Spent(Len(rounds)) /\ b = Reviews(Len(results))
            BY <1>9
          <6>2. PICK c \in Int, d \in Int : c = Reviews(NumVerifiers) /\ d = PerReview
            <7>1. PerReview \in Int
              BY <1>9
            <7>2. Reviews(NumVerifiers) \in Int
              BY <1>9, ReviewTurns
            <7>3. QED
              BY <7>1, <7>2, Zenon
          <6>3. b + d <= c /\ Spent(Len(rounds) + 1) = a + (1 + c)
            BY <1>9, <6>1, <6>2
          <6>4. QED
            BY <6>1, <6>2, <6>3, SMTT(30)
        <5>2. PICK e \in Int : e = Spent(Len(rounds)) + 1 + Reviews(Len(results)) + PerReview
          <6>1. PICK a \in Int, b \in Int, d \in Int :
                  a = Spent(Len(rounds)) /\ b = Reviews(Len(results)) /\ d = PerReview
            BY <1>9
          <6> QED BY <6>1
        <5>3. PICK g \in Int : g = Spent(Len(rounds) + 1)
          BY <1>9
        <5>4. QED
          BY <1>10, <1>13, <5>1, <5>2, <5>3
      <4>2. QED
        BY <1>7, <1>8, <2>3, <3>3, <4>1 DEF Turns
    <3>5. SoloPaysTheRightRound'
      BY <2>3 DEF SoloPaysTheRightRound
    <3> QED BY <2>3, <3>1, <3>2, <3>4, <3>5 DEF SoloInv
  <2>4. CASE /\ at' = "over" /\ UNCHANGED <<step, quoted, gen, results, earned>>
             /\ env = "train" \/ ~(Len(more) <= SoloRefineRounds)
    <3>1. SoloTypeOK'
      BY <1>6, <2>2, <2>4 DEF SoloInv, SoloTypeOK
    <3>2. UnderWay' /\ Turns' /\ SoloRefinesTheBest'
      BY <1>7, <1>8, <2>4 DEF UnderWay, Turns, SoloRefinesTheBest
    <3>3. env = "train"
      BY <1>6, <1>7, <2>4
    <3>4. SoloPaysTheRightRound'
      <4>1. DOMAIN rounds' = 1 .. Len(rounds') /\ rounds' # <<>>
        BY <1>6, <2>2
      <4>2. \A i \in DOMAIN rounds' : RoundReward(rounds'[i]) <= paid'.reward
        BY <2>2, <4>1 DEF PaidIsBest
      <4>3. QED
        BY <3>3, <4>2 DEF SoloPaysTheRightRound
    <3> QED BY <3>1, <3>2, <3>4 DEF SoloInv
  <2> QED BY <1>6, <2>1, <2>3, <2>4, Finalized
<1> QED BY <1>11, <1>12

(* The replies that hold a proof.                                          *)
LEMMA ProofRead == SoloInv /\ ReadProof => SoloInv'
<1> SUFFICES ASSUME SoloInv, ReadProof PROVE SoloInv'
  OBVIOUS
<1>1. at = "reply" /\ step \in {"proof", "refine"} /\ UNCHANGED <<env, pending, quoted, calls>>
  BY DEF ReadProof
<1>2. PICK p \in Proofs :
        /\ env = "train" => ~p.right
        /\ gen' = [fmt |-> p.fmt, right |-> p.right]
        /\ IF ~p.valid THEN Invalid
           ELSE IF env # "train" /\ Len(rounds) >= SoloRefineRounds THEN AnswerScored(gen')
           ELSE Verify
  BY DEF ReadProof
<1>3. /\ p.valid \in BOOLEAN /\ p.right \in BOOLEAN /\ p.fmt \in Nat
      /\ p.valid => p.fmt > 0
  <2>1. FormatScores \subseteq Nat /\ (\A f \in FormatScores : f > 0)
    BY SoloAssumption
  <2>2. CASE p \in [valid : {FALSE}, fmt : {0}, right : {FALSE}]
    <3>1. p.valid = FALSE /\ p.right = FALSE /\ p.fmt = 0
      BY <2>2
    <3>2. p.valid \in BOOLEAN /\ p.right \in BOOLEAN
      BY <3>1, Zenon
    <3>3. p.fmt \in Nat
      BY <3>1
    <3>4. ~p.valid
      BY <3>1, Zenon
    <3>5. QED
      BY <3>2, <3>3, <3>4, Zenon
  <2>3. CASE p \in [valid : {TRUE}, fmt : FormatScores, right : BOOLEAN]
    <3>1. p.valid = TRUE /\ p.right \in BOOLEAN /\ p.fmt \in FormatScores
      BY <2>3
    <3>2. QED
      BY <2>1, <3>1
  <2> QED BY <2>2, <2>3 DEF Proofs
<1>4. gen'.fmt = p.fmt /\ gen'.right = p.right /\ gen' \in [fmt : Nat, right : BOOLEAN]
  BY <1>2, <1>3
<1>5. /\ SoloTypeOK /\ PaidIsBest /\ Len(rounds) <= SoloRefineRounds
      /\ calls < TurnLimit /\ TurnLimit' = TurnLimit
      /\ rounds \in Seq(RoundT) /\ Len(rounds) \in Nat /\ SoloRefineRounds \in Nat
  BY <1>1, SoloAssumption DEF SoloInv, SoloTypeOK, UnderWay, Turns, TurnLimit
<1>6. calls <= Spent(Len(rounds)) + 1 /\ Spent(Len(rounds)) \in Nat
  <2>1. Spent(Len(rounds)) \in Nat
    BY <1>5, RoundTurns
  <2>2. QED
    BY <1>1, <2>1 DEF SoloInv, Turns, Used, Reviewing
<1>7. CASE ~p.valid
  <2> DEFINE more == Append(rounds, [fmt |-> 0, sum |-> 0, reviews |-> {}])
  <2>1. /\ rounds' = more /\ paid' = [reward |-> 0, round |-> Len(rounds)]
        /\ IF env = "select" THEN FinishSelecting ELSE StopHere
        /\ UNCHANGED <<results, earned>>
    BY <1>2, <1>7 DEF Invalid
  <2>2. [fmt |-> 0, sum |-> 0, reviews |-> {}] \in RoundT
    BY DEF RoundT
  <2>3. /\ more \in Seq(RoundT) /\ Len(more) = Len(rounds) + 1
        /\ more[Len(rounds) + 1] = [fmt |-> 0, sum |-> 0, reviews |-> {}]
    BY <1>5, <2>2, AppendFacts
  <2> HIDE DEF more
  <2>4. paid' \in [reward : Nat, round : Int] /\ paid'.reward = 0
    BY <1>5, <2>1
  <2>5. rounds'[Len(rounds')].fmt = 0
    BY <2>1, <2>3
  <2>6. CASE at' = "over" /\ UNCHANGED step
    <3>1. SoloTypeOK'
      BY <1>1, <1>4, <1>5, <2>1, <2>3, <2>4, <2>6 DEF SoloTypeOK
    <3>2. UnderWay' /\ Turns' /\ SoloRefinesTheBest'
      BY <1>1, <1>5, <2>6 DEF UnderWay, Turns, SoloRefinesTheBest
    <3>3. SoloPaysTheRightRound'
      BY <2>4, <2>5 DEF SoloPaysTheRightRound
    <3> QED BY <3>1, <3>2, <3>3 DEF SoloInv
  <2>7. CASE env = "select" /\ at' = "model" /\ step' = "selector"
    <3>1. SoloTypeOK'
      BY <1>1, <1>4, <1>5, <2>1, <2>3, <2>4, <2>7 DEF SoloTypeOK
    <3>2. UnderWay'
      BY <1>1, <1>5, <2>1, <2>3, <2>7 DEF UnderWay, Reviewing
    <3>3. Used' = Spent(Len(rounds) + 1)
      <4>1. Spent(Len(rounds) + 1) \in Nat
        BY <1>5, RoundTurns
      <4>2. QED
        BY <2>1, <2>3, <2>7, <4>1 DEF Used, Reviewing
    <3>4. Spent(Len(rounds) + 1) >= Spent(Len(rounds)) + 1
      <4>1. PerRound \in Nat /\ PerRound >= 1
        <5>1. NumVerifiers \in Nat /\ PerReview \in {1, 2}
          BY ReviewTurns, SoloAssumption
        <5>2. QED
          BY <5>1 DEF PerRound
      <4>2. Spent(Len(rounds) + 1) = Spent(Len(rounds)) + PerRound
        BY <1>5, RoundTurns
      <4>3. QED
        BY <1>6, <4>1, <4>2
    <3>5. Turns'
      <4>1. calls \in Nat /\ Spent(Len(rounds) + 1) \in Nat
        BY <1>5, RoundTurns DEF SoloTypeOK
      <4>2. QED
        BY <1>1, <1>5, <1>6, <2>7, <3>3, <3>4, <4>1 DEF Turns
    <3>6. SoloRefinesTheBest' /\ SoloPaysTheRightRound'
      BY <2>7 DEF SoloRefinesTheBest, SoloPaysTheRightRound
    <3> QED BY <3>1, <3>2, <3>5, <3>6 DEF SoloInv
  <2> QED BY <2>1, <2>6, <2>7 DEF FinishSelecting, StopHere, Ask
<1>8. CASE p.valid /\ env # "train" /\ Len(rounds) >= SoloRefineRounds
  <2> DEFINE more == Append(rounds, [fmt |-> p.fmt, sum |-> 0, reviews |-> {}])
  <2>1. /\ rounds' = more
        /\ paid' = [reward |-> IF p.right THEN Perfect ELSE 0, round |-> Len(rounds)]
        /\ at' = "over" /\ UNCHANGED <<step, results, earned>>
    BY <1>2, <1>4, <1>8 DEF AnswerScored, StopHere
  <2>2. [fmt |-> p.fmt, sum |-> 0, reviews |-> {}] \in RoundT
    BY <1>3 DEF RoundT
  <2>3. /\ more \in Seq(RoundT) /\ Len(more) = Len(rounds) + 1
        /\ more[Len(rounds) + 1] = [fmt |-> p.fmt, sum |-> 0, reviews |-> {}]
    BY <1>5, <2>2, AppendFacts
  <2> HIDE DEF more
  <2>4. Perfect \in Nat
    BY SoloAssumption DEF Perfect
  <2>5. paid' \in [reward : Nat, round : Int] /\ paid'.reward = IF p.right THEN Perfect ELSE 0
    BY <1>3, <1>5, <2>1, <2>4
  <2>6. rounds'[Len(rounds')].fmt = p.fmt
    BY <2>1, <2>3
  <2>7. SoloTypeOK'
    BY <1>1, <1>4, <1>5, <2>1, <2>3, <2>5 DEF SoloTypeOK
  <2>8. UnderWay' /\ Turns' /\ SoloRefinesTheBest'
    BY <1>1, <1>5, <2>1 DEF UnderWay, Turns, SoloRefinesTheBest
  <2>9. paid'.reward = IF rounds'[Len(rounds')].fmt > 0 /\ gen'.right THEN Perfect ELSE 0
    BY <1>3, <1>4, <1>8, <2>5, <2>6
  <2>10. SoloPaysTheRightRound'
    BY <1>1, <1>8, <2>9 DEF SoloPaysTheRightRound
  <2> QED BY <2>7, <2>8, <2>10 DEF SoloInv
<1>9. CASE p.valid /\ ~(env # "train" /\ Len(rounds) >= SoloRefineRounds)
  <2>1. /\ results' = <<>> /\ earned' = 0 /\ at' = "model" /\ step' = "verifier"
        /\ UNCHANGED <<rounds, paid>>
    BY <1>2, <1>9 DEF Verify, Ask
  <2>2. env # "train" => Len(rounds) < SoloRefineRounds
    BY <1>5, <1>9
  <2>3. SoloTypeOK'
    BY <1>1, <1>4, <1>5, <2>1 DEF SoloTypeOK
  <2>4. UnderWay'
    <3>1. Len(results') = 0 /\ 0 < NumVerifiers
      BY <2>1, SoloAssumption
    <3>2. PaidIsBest'
      BY <1>5, <2>1 DEF PaidIsBest
    <3>3. QED
      BY <1>1, <1>5, <2>1, <2>2, <3>1, <3>2 DEF UnderWay, Reviewing
  <2>5. Used' = Spent(Len(rounds)) + 1
    <3>1. Reviews(Len(results')) = 0
      BY <2>1, ReviewTurns
    <3>2. QED
      BY <1>6, <2>1, <3>1 DEF Used, Reviewing
  <2>6. Turns'
    BY <1>1, <1>5, <1>6, <2>1, <2>5 DEF Turns
  <2>7. SoloRefinesTheBest' /\ SoloPaysTheRightRound'
    BY <2>1 DEF SoloRefinesTheBest, SoloPaysTheRightRound
  <2> QED BY <2>3, <2>4, <2>6, <2>7 DEF SoloInv
<1> QED BY <1>3, <1>7, <1>8, <1>9

LEMMA SoloInvStep == SoloInv /\ [SoloStep]_soloVars => SoloInv'
<1> SUFFICES ASSUME SoloInv, [SoloStep]_soloVars PROVE SoloInv'
  OBVIOUS
<1>a. /\ SoloTypeOK /\ Len(rounds) \in Nat /\ Len(results) \in Nat /\ calls \in Nat
      /\ SoloRefineRounds \in Nat /\ SoloRefineRounds + 1 \in Nat
      /\ Spent(Len(rounds)) \in Nat /\ Reviews(Len(results)) \in Int
  <2>1. /\ SoloTypeOK /\ Len(rounds) \in Nat /\ Len(results) \in Nat /\ calls \in Nat
        /\ SoloRefineRounds \in Nat /\ SoloRefineRounds + 1 \in Nat
    BY SoloAssumption DEF SoloInv, SoloTypeOK
  <2>2. Spent(Len(rounds)) \in Nat /\ Reviews(Len(results)) \in Int
    BY <2>1, RoundTurns, ReviewTurns
  <2> QED BY <2>1, <2>2
<1>1. CASE SoloReply
  <2>1. /\ at = "model" /\ calls' = calls + 1
        /\ UNCHANGED <<env, step, gen, results, earned, pending, rounds, paid, quoted>>
    BY <1>1 DEF SoloReply
  <2>2. TurnLimit' = TurnLimit /\ Used' = Used
    BY <2>1 DEF TurnLimit, Used, Reviewing
  <2>3. Used + 1 < TurnLimit /\ calls <= Used /\ Used \in Int
    <3>1. calls <= Used
      BY <2>1 DEF SoloInv, Turns
    <3>2. CASE step = "selector"
      <4>1. env = "select" /\ Len(rounds) <= SoloRefineRounds + 1
        BY <2>1, <3>2 DEF SoloInv, UnderWay
      <4>2. Spent(Len(rounds)) <= Spent(SoloRefineRounds + 1) /\ Spent(SoloRefineRounds + 1) \in Nat
        BY <1>a, <4>1, RoundTurns
      <4>3. Used = Spent(Len(rounds))
        BY <1>a, <3>2 DEF Used, Reviewing
      <4>4. QED
        BY <1>a, <3>1, <4>1, <4>2, <4>3, LimitIsSpent
    <3>3. CASE step # "selector"
      <4>1. /\ Len(rounds) <= SoloRefineRounds
            /\ Reviewing => Len(results) < NumVerifiers
            /\ step = "meta" => EnableMeta
        BY <2>1, <3>3 DEF SoloInv, UnderWay
      <4>2. /\ Spent(Len(rounds)) <= Spent(SoloRefineRounds)
            /\ Spent(SoloRefineRounds + 1) = Spent(SoloRefineRounds) + PerRound
            /\ Spent(SoloRefineRounds) \in Nat
        BY <1>a, <4>1, RoundTurns
      <4>3. /\ PerRound = 1 + Reviews(NumVerifiers) /\ PerReview \in {1, 2} /\ PerRound \in Nat
            /\ EnableMeta => PerReview = 2
            /\ Reviews(NumVerifiers) \in Int /\ NumVerifiers \in Nat
            /\ Reviewing => Reviews(Len(results)) + PerReview <= Reviews(NumVerifiers)
        BY <1>a, <4>1, ReviewTurns, SoloAssumption
      <4>4. PerRound >= 2
        BY <4>3, SoloAssumption DEF PerRound
      <4>5. TurnLimit >= Spent(SoloRefineRounds + 1) + 1 /\ TurnLimit \in Int
        BY <4>2, <4>3, LimitIsSpent, SMTT(30)
      <4>6. Used + 1 <= Spent(Len(rounds)) + PerRound /\ Used \in Int
        <5>1. PICK a \in Int, b \in Int, d \in Int, e \in Int, r \in Int :
                /\ a = Spent(Len(rounds)) /\ b = Reviews(Len(results))
                /\ d = Reviews(NumVerifiers) /\ e = PerReview /\ r = PerRound
          <6>1. PerReview \in Int /\ PerRound \in Int /\ Spent(Len(rounds)) \in Int
            BY <1>a, <4>3
          <6> QED BY <1>a, <4>3, <6>1, Zenon
        <5>2. r = 1 + d /\ r >= 2 /\ e \in {1, 2} /\ (Reviewing => b + e <= d)
          BY <4>3, <4>4, <5>1
        <5>a. SUFFICES Used \in Int /\ Used + 1 <= a + r
          BY <5>1
        <5>3. CASE step = "verifier"
          <6>1. Used = a + (1 + b) + 0 /\ b + e <= d
            BY <5>1, <5>2, <5>3 DEF Used, Reviewing
          <6> QED BY <5>2, <6>1
        <5>4. CASE step = "meta"
          <6>1. Used = a + (1 + b) + 1 /\ e = 2 /\ b + e <= d
            BY <4>1, <4>3, <5>1, <5>2, <5>4 DEF Used, Reviewing
          <6> QED BY <5>2, <6>1
        <5>5. CASE ~Reviewing
          <6>1. Used = a + 0 + 0
            BY <5>1, <5>5 DEF Used, Reviewing
          <6> QED BY <5>2, <6>1
        <5> QED BY <5>3, <5>4, <5>5 DEF Reviewing
      <4>7. Used + 1 <= Spent(SoloRefineRounds) + PerRound
        <5>1. PICK u \in Int, a \in Int, b \in Int, c \in Int :
                u = Used /\ a = Spent(Len(rounds)) /\ b = Spent(SoloRefineRounds) /\ c = PerRound
          BY <1>a, <4>2, <4>3, <4>6
        <5>2. u + 1 <= a + c /\ a <= b
          BY <4>2, <4>6, <5>1
        <5>3. u + 1 <= b + c
          BY <5>1, <5>2
        <5>4. QED
          BY <5>1, <5>3
      <4>8. QED
        <5>1. PICK u \in Int, t \in Int, b \in Int, c \in Int :
                u = Used /\ t = TurnLimit /\ b = Spent(SoloRefineRounds) /\ c = PerRound
          BY <4>2, <4>3, <4>5, <4>6
        <5>2. u + 1 <= b + c /\ t >= b + c + 1
          BY <4>2, <4>5, <4>7, <5>1
        <5>3. u + 1 < t
          BY <5>1, <5>2
        <5>4. QED
          BY <3>1, <4>6, <5>1, <5>3
    <3> QED BY <3>2, <3>3
  <2>4. at' = "reply" /\ calls' < TurnLimit /\ calls' <= Used + 1
    <3>1. TurnLimit \in Int
      BY <1>a, RoundTurns, LimitIsSpent
    <3>2. calls' < TurnLimit /\ calls' <= Used + 1 /\ ~(calls' >= TurnLimit)
      BY <1>a, <2>1, <2>3, <3>1
    <3>3. QED
      BY <1>1, <2>2, <3>2 DEF SoloReply
  <2>5. SoloTypeOK'
    BY <1>a, <2>1, <2>4 DEF SoloTypeOK
  <2>6. UnderWay'
    BY <2>1, <2>4 DEF SoloInv, UnderWay, PaidIsBest, Reviewing
  <2>7. Turns'
    BY <2>2, <2>4 DEF Turns
  <2>8. SoloRefinesTheBest' /\ SoloPaysTheRightRound'
    BY <2>4 DEF SoloRefinesTheBest, SoloPaysTheRightRound
  <2> QED BY <2>5, <2>6, <2>7, <2>8 DEF SoloInv
<1>2. CASE SoloFail
  <2>1. /\ at = "model" /\ at' = "over"
        /\ UNCHANGED <<env, step, gen, results, earned, pending, rounds, paid, quoted, calls>>
    BY <1>2 DEF SoloFail
  <2>2. SoloTypeOK' /\ UnderWay' /\ SoloRefinesTheBest'
    BY <1>a, <2>1 DEF SoloTypeOK, UnderWay, SoloRefinesTheBest
  <2>3. Turns'
    BY <2>1 DEF SoloInv, Turns, TurnLimit
  <2>4. ASSUME env # "select"
        PROVE  SoloPaysTheRightRound'
    <3>1. step # "selector"
      BY <2>1, <2>4 DEF SoloInv, UnderWay
    <3>2. PaidIsBest /\ Len(rounds) <= SoloRefineRounds
      BY <2>1, <3>1 DEF SoloInv, UnderWay
    <3>3. DOMAIN rounds = 1 .. Len(rounds)
      BY <1>a DEF SoloTypeOK
    <3>4. QED
      BY <1>a, <2>1, <3>2, <3>3 DEF PaidIsBest, SoloPaysTheRightRound
  <2>5. ASSUME env = "select" PROVE SoloPaysTheRightRound'
    BY <2>1, <2>5 DEF SoloPaysTheRightRound
  <2> QED BY <2>2, <2>3, <2>4, <2>5 DEF SoloInv
<1>3. CASE ReadProof
  BY <1>3, ProofRead
<1>4. CASE ReadReview
  <2>1. at = "reply" /\ step = "verifier" /\ Reviewing /\ UNCHANGED <<env, calls>>
    BY <1>4 DEF ReadReview, Reviewing
  <2>2. calls <= Spent(Len(rounds)) + 1 + Reviews(Len(results)) + 1
    BY <1>a, <2>1 DEF SoloInv, Turns, Used
  <2>3. calls <= Spent(Len(rounds)) + 1 + Reviews(Len(results)) + PerReview
    <3>1. PerReview \in {1, 2}
      BY ReviewTurns
    <3>2. QED
      BY <1>a, <2>2, <3>1
  <2>4. CASE Appended([valid |-> FALSE, score |-> 0, meta |-> 0]) /\ UNCHANGED pending
    <3>1. [valid |-> FALSE, score |-> 0, meta |-> 0] \in Result /\ pending' \in Nat
      BY <1>a, <2>4 DEF Result, SoloTypeOK
    <3>2. QED
      BY <2>1, <2>3, <2>4, <3>1, Reviewed
  <2>5. ASSUME NEW score \in Scores, ~NeedsMeta(score),
               Appended([valid |-> TRUE, score |-> score, meta |-> 2]), UNCHANGED pending
        PROVE  SoloInv'
    <3>1. [valid |-> TRUE, score |-> score, meta |-> 2] \in Result /\ pending' \in Nat
      BY <1>a, <2>5, SoloAssumption DEF Result, SoloTypeOK
    <3>2. QED
      BY <2>1, <2>3, <2>5, <3>1, Reviewed
  <2>6. ASSUME NEW score \in Scores, NeedsMeta(score), pending' = score, Ask("meta"),
               UNCHANGED <<results, earned, rounds, paid, quoted, gen>>
        PROVE  SoloInv'
    <3>1. at' = "model" /\ step' = "meta" /\ EnableMeta /\ score \in Nat
      BY <2>6, SoloAssumption DEF Ask, NeedsMeta
    <3>2. SoloTypeOK'
      BY <1>a, <2>1, <2>6, <3>1 DEF SoloTypeOK
    <3>3. UnderWay'
      BY <2>1, <2>6, <3>1 DEF SoloInv, UnderWay, PaidIsBest, Reviewing
    <3>4. Used' = Spent(Len(rounds)) + 1 + Reviews(Len(results)) + 1
      BY <1>a, <2>6, <3>1 DEF Used, Reviewing
    <3>5. Turns'
      BY <2>1, <2>2, <3>1, <3>4 DEF SoloInv, Turns, TurnLimit
    <3>6. SoloRefinesTheBest' /\ SoloPaysTheRightRound'
      BY <3>1 DEF SoloRefinesTheBest, SoloPaysTheRightRound
    <3> QED BY <3>2, <3>3, <3>5, <3>6 DEF SoloInv
  <2> QED BY <1>4, <2>4, <2>5, <2>6 DEF ReadReview
<1>5. CASE ReadMeta
  <2>1. at = "reply" /\ step = "meta" /\ Reviewing /\ UNCHANGED <<env, calls>> /\ pending' = 0
    BY <1>5 DEF ReadMeta, Reviewing
  <2>2. calls <= Spent(Len(rounds)) + 1 + Reviews(Len(results)) + 1 + 1
    BY <1>a, <2>1 DEF SoloInv, Turns, Used
  <2>3. PerReview = 2
    BY <2>1, ReviewTurns DEF SoloInv, UnderWay
  <2>4. calls <= Spent(Len(rounds)) + 1 + Reviews(Len(results)) + PerReview
    BY <1>a, <2>2, <2>3
  <2>5. PICK m \in Scores \union {1} : Appended([valid |-> TRUE, score |-> pending, meta |-> m])
    BY <1>5 DEF ReadMeta
  <2>6. [valid |-> TRUE, score |-> pending, meta |-> m] \in Result
    BY <1>a, SoloAssumption DEF Result, SoloTypeOK
  <2>7. QED
    BY <2>1, <2>4, <2>5, <2>6, Reviewed
<1>6. CASE ReadChoice
  <2>1. /\ at = "reply" /\ step = "selector" /\ rounds' = rounds
        /\ at' = "over" /\ UNCHANGED <<step, env, gen, results, earned, pending, quoted, calls>>
    BY <1>6 DEF ReadChoice, StopHere
  <2>2. PICK i \in Ranked : paid' = [reward |-> RoundReward(rounds[i]), round |-> i - 1]
    BY <1>6 DEF ReadChoice
  <2>3. i \in 1 .. Len(rounds) /\ rounds[i] \in RoundT
    BY <1>a, <2>1 DEF Ranked, Usable, SoloTypeOK
  <2>4. RoundReward(rounds[i]) \in Nat /\ i - 1 \in Int
    BY <1>a, <2>3, RewardIsNat
  <2>5. SoloTypeOK'
    BY <1>a, <2>1, <2>2, <2>4 DEF SoloTypeOK
  <2>6. UnderWay' /\ SoloRefinesTheBest'
    BY <2>1 DEF UnderWay, SoloRefinesTheBest
  <2>7. Turns'
    BY <2>1 DEF SoloInv, Turns, TurnLimit
  <2>8. env = "select"
    BY <2>1 DEF SoloInv, UnderWay
  <2>9. SoloPaysTheRightRound'
    BY <2>1, <2>8 DEF SoloPaysTheRightRound
  <2> QED BY <2>5, <2>6, <2>7, <2>9 DEF SoloInv
<1>7. CASE UNCHANGED soloVars
  <2>1. UNCHANGED <<env, at, step, gen, results, earned, pending, rounds, paid, quoted, calls>>
    BY <1>7 DEF soloVars
  <2>2. SoloTypeOK' /\ UnderWay'
    BY <2>1 DEF SoloInv, SoloTypeOK, UnderWay, PaidIsBest, Reviewing
  <2>3. Turns'
    BY <2>1 DEF SoloInv, Turns, TurnLimit, Used, Reviewing
  <2>4. SoloRefinesTheBest' /\ SoloPaysTheRightRound'
    BY <2>1 DEF SoloInv, SoloRefinesTheBest, SoloPaysTheRightRound
  <2> QED BY <2>2, <2>3, <2>4 DEF SoloInv
<1> QED
  BY <1>1, <1>2, <1>3, <1>4, <1>5, <1>6, <1>7 DEF SoloStep

LEMMA SoloKeepsItsWord == SoloInv => SoloTurnsSuffice /\ SoloPaysTheRightRound /\ SoloRefinesTheBest
  BY DEF SoloInv, Turns, SoloTurnsSuffice

(* A review, the one that ends a round included, never costs a rollout.    *)
LEMMA SoloReviewPays ==
  SoloInv /\ [SoloStep]_soloVars => (Reviewing => paid'.reward >= paid.reward)
<1> SUFFICES ASSUME SoloInv, [SoloStep]_soloVars, Reviewing PROVE paid'.reward >= paid.reward
  OBVIOUS
<1>1. SoloTypeOK /\ paid.reward \in Nat
  BY DEF SoloInv, SoloTypeOK
<1>2. CASE UNCHANGED paid
  BY <1>1, <1>2
<1>3. ASSUME at = "reply", NEW result \in Result, Appended(result)
      PROVE  paid'.reward >= paid.reward
  <2> DEFINE rs == Append(results, result)
             worth == EarnedWith(result)
             more == Append(rounds, [fmt |-> gen.fmt, sum |-> worth, reviews |-> ReviewsOf(rs)])
  <2>1. CASE FinalizeRound(more)
    <3>1. worth \in Nat
      <4>1. result.score * result.meta \in Nat
        BY ProductIsNat DEF Result
      <4>2. Term(result) \in Nat
        BY <4>1 DEF Term
      <4> QED BY <1>1, <4>2 DEF EarnedWith, SoloTypeOK
    <3>2. ReviewsOf(rs) \subseteq Nat
      <4>1. rs \in Seq(Result)
        BY <1>1, AppendFacts DEF SoloTypeOK
      <4> QED BY <4>1 DEF ReviewsOf
    <3>3. [fmt |-> gen.fmt, sum |-> worth, reviews |-> ReviewsOf(rs)] \in RoundT
      BY <1>1, <3>1, <3>2 DEF RoundT, SoloTypeOK
    <3>4. /\ more \in Seq(RoundT) /\ more # <<>> /\ Len(more) = Len(rounds) + 1 /\ Len(rounds) \in Nat
          /\ \A i \in 1 .. Len(rounds) : more[i] = rounds[i]
      BY <1>1, <3>3, AppendFacts DEF SoloTypeOK
    <3> HIDE DEF more
    <3>5. rounds' = more /\ paid' \in [reward : Nat, round : Int] /\ PaidIsBest'
      BY <2>1, <3>4, Finalized
    <3>6. \A i \in 1 .. Len(more) : RoundReward(more[i]) <= paid'.reward
      BY <3>4, <3>5 DEF PaidIsBest
    <3>7. PaidIsBest
      BY <1>3 DEF SoloInv, UnderWay, Reviewing
    <3>8. CASE rounds = <<>>
      BY <3>5, <3>7, <3>8 DEF PaidIsBest
    <3>9. CASE rounds # <<>>
      <4>1. PICK i \in 1 .. Len(rounds) : RoundReward(rounds[i]) = paid.reward
        BY <3>7, <3>9 DEF PaidIsBest
      <4>2. i \in 1 .. Len(more) /\ more[i] = rounds[i]
        BY <3>4, <4>1
      <4>3. paid.reward <= paid'.reward /\ paid'.reward \in Nat
        BY <3>5, <3>6, <4>1, <4>2
      <4> QED BY <1>1, <4>3
    <3> QED BY <3>8, <3>9
  <2> QED BY <1>2, <1>3, <2>1 DEF Appended
<1>4. CASE SoloReply \/ SoloFail \/ ReadProof \/ ReadChoice \/ UNCHANGED soloVars
  BY <1>2, <1>4 DEF SoloReply, SoloFail, ReadProof, ReadChoice, soloVars, Reviewing
<1>5. CASE ReadReview
  <2>1. ASSUME NEW score \in Scores
        PROVE  [valid |-> TRUE, score |-> score, meta |-> 2] \in Result
    BY SoloAssumption DEF Result
  <2>2. [valid |-> FALSE, score |-> 0, meta |-> 0] \in Result
    BY DEF Result
  <2>3. at = "reply" /\ (UNCHANGED paid \/ \E result \in Result : Appended(result))
    BY <1>5, <2>1, <2>2 DEF ReadReview
  <2> QED BY <1>2, <1>3, <2>3
<1>6. CASE ReadMeta
  <2>1. PICK m \in Scores \union {1} : Appended([valid |-> TRUE, score |-> pending, meta |-> m])
    BY <1>6 DEF ReadMeta
  <2>2. [valid |-> TRUE, score |-> pending, meta |-> m] \in Result
    BY <1>1, SoloAssumption DEF Result, SoloTypeOK
  <2>3. at = "reply"
    BY <1>6 DEF ReadMeta
  <2> QED BY <1>3, <2>1, <2>2, <2>3
<1> QED BY <1>4, <1>5, <1>6 DEF SoloStep

-----------------------------------------------------------------------------
(* The datasets.                                                            *)

(* Quotients and remainders as numbers of their own.                       *)
LEMMA DivMod ==
  ASSUME NEW a \in Nat, NEW b \in Nat \ {0}
  PROVE  \E q \in Nat, r \in Nat : q = a \div b /\ r = a % b /\ r < b /\ a = b * q + r
<1>1. a \div b \in Int /\ a % b \in Nat /\ a % b < b
  OBVIOUS
<1>2. PICK q \in Int, r \in Int : q = a \div b /\ r = a % b
  BY <1>1
<1>3. a = b * q + r
  BY <1>2
<1>4. q >= 0
  BY <1>2
<1>5. q \in Nat
  BY <1>4
<1>6. r \in Nat /\ r < b
  BY <1>1, <1>2
<1> QED BY <1>2, <1>3, <1>5, <1>6, Zenon

LEMMA MultipleIsMonotone ==
  ASSUME NEW x \in Nat, NEW y \in Nat, NEW b \in Nat, x <= y
  PROVE  b * x <= b * y /\ x * b <= y * b
<1>1. PICK d \in Nat : y = x + d
  <2>1. y - x \in Nat /\ y = x + (y - x)
    OBVIOUS
  <2> QED BY <2>1
<1>2. b * y = b * x + b * d /\ b * d \in Nat
  BY <1>1
<1> QED BY <1>2

LEMMA DivisionIsUnique ==
  ASSUME NEW b \in Nat \ {0}, NEW q \in Nat, NEW r \in Nat, r < b, NEW p \in Nat, NEW s \in Nat, s < b,
         b * q + r = b * p + s
  PROVE  q = p /\ r = s
<1>1. CASE q < p
  <2>1. b * (q + 1) <= b * p
    BY <1>1, MultipleIsMonotone
  <2>2. b * (q + 1) = b * q + b
    OBVIOUS
  <2>3. b * q \in Nat /\ b * p \in Nat
    OBVIOUS
  <2> QED BY <2>1, <2>2, <2>3
<1>2. CASE p < q
  <2>1. b * (p + 1) <= b * q
    BY <1>2, MultipleIsMonotone
  <2>2. b * (p + 1) = b * p + b
    OBVIOUS
  <2>3. b * q \in Nat /\ b * p \in Nat
    OBVIOUS
  <2> QED BY <2>1, <2>2, <2>3
<1>3. CASE p = q
  <2>1. b * q \in Nat
    OBVIOUS
  <2> QED BY <1>3, <2>1
<1> QED BY <1>1, <1>2, <1>3

(* As many rows as there are can be counted through.                        *)
LEMMA NthOfIsThere ==
  ASSUME NEW S, S \subseteq Nat, IsFiniteSet(S), NEW k \in 1 .. Cardinality(S)
  PROVE  NthOf(S, k) \in S /\ Cardinality({j \in S : j <= NthOf(S, k)}) = k
<1> DEFINE n == Cardinality(S)
           upTo(i) == {j \in S : j <= i}
           place == [i \in S |-> Cardinality(upTo(i))]
<1>1. n \in Nat
  BY FS_CardinalityType
<1>2. ASSUME NEW i \in S PROVE IsFiniteSet(upTo(i)) /\ Cardinality(upTo(i)) \in 1 .. n
  <2>1. upTo(i) \subseteq S /\ i \in upTo(i)
    OBVIOUS
  <2>2. IsFiniteSet(upTo(i)) /\ Cardinality(upTo(i)) <= n
    BY <2>1, FS_Subset
  <2>3. Cardinality(upTo(i)) # 0 /\ Cardinality(upTo(i)) \in Nat
    BY <2>1, <2>2, FS_EmptySet, FS_CardinalityType
  <2> QED BY <1>1, <2>2, <2>3
<1>3. ASSUME NEW i \in S, NEW j \in S, i < j PROVE Cardinality(upTo(i)) # Cardinality(upTo(j))
  <2>1. \A x \in S : x <= i => x <= j
    BY <1>3
  <2>2. j <= j /\ ~(j <= i)
    BY <1>3
  <2>3. upTo(i) \subseteq upTo(j) /\ j \in upTo(j) /\ j \notin upTo(i)
    BY <2>1, <2>2
  <2>4. upTo(i) # upTo(j)
    BY <2>3
  <2> QED BY <1>2, <2>3, <2>4, FS_Subset
<1>4. place \in [S -> 1 .. n]
  BY <1>2
<1>5. \A i \in S : place[i] = Cardinality(upTo(i))
  OBVIOUS
<1>6. \A i, j \in S : place[i] = place[j] => i = j
  <2> SUFFICES ASSUME NEW i \in S, NEW j \in S, i # j PROVE place[i] # place[j]
    OBVIOUS
  <2>1. i < j \/ j < i
    OBVIOUS
  <2> QED BY <1>3, <1>5, <2>1
<1> HIDE DEF place, n
<1>7. place \in Injection(S, 1 .. n)
  BY <1>4, <1>6 DEF Injection, IsInjective
<1>8. IsFiniteSet(1 .. n) /\ Cardinality(1 .. n) = n
  BY <1>1, FS_Interval
<1>9. place \in Surjection(S, 1 .. n)
  BY <1>7, <1>8, FS_Injection DEF n
<1>10. PICK i \in S : place[i] = k
  BY <1>9 DEF Surjection, n
<1>11. Cardinality({j \in S : j <= i}) = k
  BY <1>5, <1>10
<1> QED BY <1>11 DEF NthOf

(* The rows d[off + 1 .. off + c] are those of file f, round robin: after   *)
(* q whole turns the m-th row is its q-th copy.                             *)
Turn(d, f, off, of, L, p) ==
  \E q \in Nat : \E m \in 1 .. L :
    p = off + L * q + m /\ d[p] = [file |-> f, row |-> of[m], copy |-> q]

Block(d, f, off, c) ==
  \E L \in Nat \ {0} : \E of \in Injection(1 .. L, Nat) :
    \A p \in off + 1 .. off + c : Turn(d, f, off, of, L, p)

LEMMA FunctionsAreSequences ==
  ASSUME NEW n \in Nat, NEW R, NEW s \in [1 .. n -> R]
  PROVE  s \in Seq(R) /\ Len(s) = n
  OBVIOUS

DatasetRow == [file : {1, 2}, row : Nat, copy : Nat]

(* What a normalisation returns: rows of the file, none twice.              *)
FileRows(rows, f) ==
  \E n \in Nat : \E of \in Injection(1 .. n, Nat) :
    rows = [k \in 1 .. n |-> [file |-> f, row |-> of[k], copy |-> 0]]

LEMMA NormalizedGivesFileRows ==
  ASSUME NEW f \in {1, 2}, files \in Files \X Files, NEW kinds, NEW max \in Nat
  PROVE  FileRows(Normalized(f, kinds, max), f)
<1> DEFINE good == UsableRows(f, kinds)
           n == IF max > 0 /\ max < Cardinality(good) THEN max ELSE Cardinality(good)
           of == [k \in 1 .. n |-> NthOf(good, k)]
<1>1. PICK m \in 0 .. MaxRows : DOMAIN files[f] = 1 .. m
  BY DEF Files
<1>a. m \in Int /\ IsFiniteSet(1 .. m)
  BY DatasetAssumption, FS_Interval
<1>2. IsFiniteSet(1 .. m) /\ good \subseteq 1 .. m /\ good \subseteq Nat
  BY <1>1, <1>a DEF UsableRows
<1>3. IsFiniteSet(good) /\ Cardinality(good) \in Nat
  BY <1>2, FS_Subset, FS_CardinalityType
<1>4. n \in Nat /\ n <= Cardinality(good)
  BY <1>3
<1>5. \A k \in 1 .. n : NthOf(good, k) \in Nat /\ Cardinality({j \in good : j <= NthOf(good, k)}) = k
  <2> SUFFICES ASSUME NEW k \in 1 .. n
               PROVE NthOf(good, k) \in Nat /\ Cardinality({j \in good : j <= NthOf(good, k)}) = k
    OBVIOUS
  <2>1. k \in 1 .. Cardinality(good)
    BY <1>3, <1>4
  <2> HIDE DEF good, n
  <2> QED BY <1>2, <1>3, <2>1, NthOfIsThere
<1>6. Normalized(f, kinds, max) = [k \in 1 .. n |-> [file |-> f, row |-> NthOf(good, k), copy |-> 0]]
  BY DEF Normalized
<1> HIDE DEF good, n
<1>7. of \in [1 .. n -> Nat] /\ \A k \in 1 .. n : of[k] = NthOf(good, k)
  BY <1>5
<1>8. \A k, l \in 1 .. n : of[k] = of[l] => k = l
  BY <1>5, <1>7
<1> HIDE DEF of
<1>9. of \in Injection(1 .. n, Nat)
  BY <1>7, <1>8 DEF Injection, IsInjective
<1>10. Normalized(f, kinds, max) = [k \in 1 .. n |-> [file |-> f, row |-> of[k], copy |-> 0]]
  BY <1>6, <1>7
<1> QED BY <1>4, <1>9, <1>10 DEF FileRows

(* They are a block by themselves ...                                       *)
LEMMA FileRowsAreBlock ==
  ASSUME NEW rows, NEW f \in {1, 2}, FileRows(rows, f), rows # <<>>
  PROVE  \E n \in Nat : rows \in Seq(DatasetRow) /\ Len(rows) = n /\ Block(rows, f, 0, n)
<1>a. PICK n \in Nat : \E of \in Injection(1 .. n, Nat) :
        rows = [k \in 1 .. n |-> [file |-> f, row |-> of[k], copy |-> 0]]
  BY DEF FileRows
<1>1. PICK of \in Injection(1 .. n, Nat) :
        rows = [k \in 1 .. n |-> [file |-> f, row |-> of[k], copy |-> 0]]
  BY <1>a
<1>2. of \in [1 .. n -> Nat]
  BY DEF Injection
<1>b. rows \in [1 .. n -> DatasetRow]
  BY <1>1, <1>2 DEF DatasetRow
<1>3. rows \in Seq(DatasetRow) /\ Len(rows) = n
  BY <1>b, FunctionsAreSequences
<1>4. n \in Nat \ {0}
  BY <1>3
<1>5. ASSUME NEW p \in 0 + 1 .. 0 + n PROVE Turn(rows, f, 0, of, n, p)
  <2>1. p \in 1 .. n /\ p = 0 + n * 0 + p
    BY <1>4
  <2>2. rows[p] = [file |-> f, row |-> of[p], copy |-> 0]
    BY <1>1, <2>1
  <2> QED BY <2>1, <2>2 DEF Turn
<1> QED BY <1>3, <1>4, <1>5 DEF Block

(* ... and so is what is taken from them.                                   *)
LEMMA TakeIsBlock ==
  ASSUME NEW rows, NEW f \in {1, 2}, FileRows(rows, f), rows # <<>>, NEW c \in Nat
  PROVE  /\ Take(rows, c) \in Seq(DatasetRow) /\ Len(Take(rows, c)) = c
         /\ Block(Take(rows, c), f, 0, c)
<1>a. PICK n \in Nat : \E of \in Injection(1 .. n, Nat) :
        rows = [k \in 1 .. n |-> [file |-> f, row |-> of[k], copy |-> 0]]
  BY DEF FileRows
<1>1. PICK of \in Injection(1 .. n, Nat) :
        rows = [k \in 1 .. n |-> [file |-> f, row |-> of[k], copy |-> 0]]
  BY <1>a
<1>2. of \in [1 .. n -> Nat]
  BY DEF Injection
<1>b. rows \in [1 .. n -> DatasetRow]
  BY <1>1, <1>2 DEF DatasetRow
<1>3. rows \in Seq(DatasetRow) /\ Len(rows) = n
  BY <1>b, FunctionsAreSequences
<1>4. n \in Nat \ {0}
  BY <1>3
<1>5. ASSUME NEW p \in 1 .. c
      PROVE  (p - 1) % n \in 0 .. n - 1 /\ (p - 1) \div n \in Nat
  BY <1>4
<1>6. ASSUME NEW p \in 1 .. c
      PROVE  [rows[((p - 1) % Len(rows)) + 1] EXCEPT !.copy = (p - 1) \div Len(rows)]
               = [file |-> f, row |-> of[((p - 1) % n) + 1], copy |-> (p - 1) \div n]
  <2>a. ((p - 1) % n) + 1 \in 1 .. n /\ (p - 1) \div n \in Nat
    BY <1>4, <1>5
  <2>1. PICK x \in 1 .. n, q \in Nat : x = ((p - 1) % n) + 1 /\ q = (p - 1) \div n
    BY <2>a
  <2>2. rows[x] = [file |-> f, row |-> of[x], copy |-> 0]
    BY <1>1
  <2>3. [rows[x] EXCEPT !.copy = q] = [file |-> f, row |-> of[x], copy |-> q]
    BY <2>2
  <2> QED BY <1>3, <2>1, <2>3
<1>7. Take(rows, c) = [p \in 1 .. c |-> [file |-> f, row |-> of[((p - 1) % n) + 1], copy |-> (p - 1) \div n]]
  BY <1>6 DEF Take
<1>8. Take(rows, c) \in Seq(DatasetRow) /\ Len(Take(rows, c)) = c
  <2>1. \A p \in 1 .. c : of[((p - 1) % n) + 1] \in Nat
    BY <1>2, <1>5
  <2> QED BY <1>5, <1>7, <2>1 DEF DatasetRow
<1>9. ASSUME NEW p \in 0 + 1 .. 0 + c PROVE Turn(Take(rows, c), f, 0, of, n, p)
  <2>1. PICK t \in Nat : t = p - 1
    OBVIOUS
  <2>2. PICK q \in Nat, r \in Nat : q = t \div n /\ r = t % n /\ r < n /\ t = n * q + r
    BY <1>4, DivMod
  <2>3. Take(rows, c)[p] = [file |-> f, row |-> of[r + 1], copy |-> q]
    BY <1>7, <2>1, <2>2
  <2>4. r + 1 \in 1 .. n /\ n * q \in Nat
    BY <1>4, <2>2
  <2>5. p = 0 + n * q + (r + 1)
    BY <2>1, <2>2, <2>4
  <2> QED BY <2>3, <2>4, <2>5 DEF Turn
<1> QED BY <1>4, <1>8, <1>9 DEF Block

LEMMA JoinedBlocks ==
  ASSUME NEW a, NEW b, NEW R, a \in Seq(R), b \in Seq(R), NEW f, NEW g,
         Block(a, f, 0, Len(a)), Block(b, g, 0, Len(b))
  PROVE  Block(a \o b, f, 0, Len(a)) /\ Block(a \o b, g, Len(a), Len(b))
<1> DEFINE s == a \o b
<1>1. PICK n \in Nat, k \in Nat : n = Len(a) /\ k = Len(b)
  OBVIOUS
<1>2. /\ \A p \in 1 .. n : s[p] = a[p]
      /\ \A p \in 1 .. k : s[n + p] = b[p]
  BY <1>1
<1> HIDE DEF s
<1>3. Block(s, f, 0, n)
  <2>1. PICK L \in Nat \ {0} : \E of \in Injection(1 .. L, Nat) :
          \A p \in 0 + 1 .. 0 + n : Turn(a, f, 0, of, L, p)
    BY <1>1 DEF Block
  <2>2. PICK of \in Injection(1 .. L, Nat) : \A p \in 0 + 1 .. 0 + n : Turn(a, f, 0, of, L, p)
    BY <2>1
  <2>3. \A p \in 0 + 1 .. 0 + n : s[p] = a[p]
    BY <1>2
  <2>4. ASSUME NEW p \in 0 + 1 .. 0 + n PROVE Turn(s, f, 0, of, L, p)
    <3>1. Turn(a, f, 0, of, L, p) /\ s[p] = a[p]
      BY <2>2, <2>3
    <3> QED BY <3>1 DEF Turn
  <2> QED BY <2>4 DEF Block
<1>4. Block(s, g, n, k)
  <2>1. PICK L \in Nat \ {0} : \E of \in Injection(1 .. L, Nat) :
          \A p \in 0 + 1 .. 0 + k : Turn(b, g, 0, of, L, p)
    BY <1>1 DEF Block
  <2>2. PICK of \in Injection(1 .. L, Nat) : \A p \in 0 + 1 .. 0 + k : Turn(b, g, 0, of, L, p)
    BY <2>1
  <2>3. ASSUME NEW p \in n + 1 .. n + k PROVE Turn(s, g, n, of, L, p)
    <3>1. PICK r \in 1 .. k : p = n + r
      <4>1. p - n \in 1 .. k /\ p = n + (p - n)
        OBVIOUS
      <4> QED BY <4>1
    <3>2. PICK q \in Nat, m \in 1 .. L : r = 0 + L * q + m /\ b[r] = [file |-> g, row |-> of[m], copy |-> q]
      <4>1. r \in 0 + 1 .. 0 + k
        BY <3>1
      <4>2. Turn(b, g, 0, of, L, r)
        BY <2>2, <4>1
      <4> QED BY <4>2 DEF Turn
    <3>3. L * q \in Nat
      OBVIOUS
    <3>4. p = n + L * q + m
      BY <3>1, <3>2, <3>3
    <3>5. s[p] = [file |-> g, row |-> of[m], copy |-> q]
      BY <1>2, <3>1, <3>2
    <3> QED BY <3>4, <3>5 DEF Turn
  <2> QED BY <2>3 DEF Block
<1> QED BY <1>1, <1>3, <1>4 DEF s

(* Where in which turn a place is.                                          *)
LEMMA TurnsAreUnique ==
  ASSUME NEW L \in Nat \ {0}, NEW q \in Nat, NEW m \in 1 .. L, NEW r \in Nat, NEW x \in 1 .. L,
         L * q + m = L * r + x
  PROVE  q = r /\ m = x
<1>1. PICK a \in Nat, b \in Nat : m = a + 1 /\ x = b + 1
  <2>1. m - 1 \in Nat /\ x - 1 \in Nat /\ m = (m - 1) + 1 /\ x = (x - 1) + 1
    OBVIOUS
  <2> QED BY <2>1
<1>2. L * q \in Nat /\ L * r \in Nat
  OBVIOUS
<1>3. L * q + a = L * r + b /\ a < L /\ b < L
  BY <1>1, <1>2
<1>4. q = r /\ a = b
  BY <1>3, DivisionIsUnique
<1> QED BY <1>1, <1>4

(* No row of a block carries the identity of another.                       *)
LEMMA BlockIsDistinct ==
  ASSUME NEW d, NEW f, NEW off \in Nat, NEW c \in Nat, Block(d, f, off, c)
  PROVE  /\ \A p \in off + 1 .. off + c : d[p].file = f
         /\ \A p, r \in off + 1 .. off + c : d[p] = d[r] => p = r
<1>1. PICK L \in Nat \ {0} : \E of \in Injection(1 .. L, Nat) :
        \A p \in off + 1 .. off + c : Turn(d, f, off, of, L, p)
  BY DEF Block
<1>2. PICK of \in Injection(1 .. L, Nat) : \A p \in off + 1 .. off + c : Turn(d, f, off, of, L, p)
  BY <1>1
<1>3. ASSUME NEW p \in off + 1 .. off + c PROVE d[p].file = f
  <2>1. Turn(d, f, off, of, L, p)
    BY <1>2
  <2> QED BY <2>1 DEF Turn
<1>4. ASSUME NEW p \in off + 1 .. off + c, NEW r \in off + 1 .. off + c, d[p] = d[r]
      PROVE  p = r
  <2>1. PICK q \in Nat, m \in 1 .. L : p = off + L * q + m /\ d[p] = [file |-> f, row |-> of[m], copy |-> q]
    BY <1>2 DEF Turn
  <2>2. PICK u \in Nat, x \in 1 .. L : r = off + L * u + x /\ d[r] = [file |-> f, row |-> of[x], copy |-> u]
    BY <1>2 DEF Turn
  <2>3. of[m] = of[x] /\ q = u
    <3>1. d[p].row = of[m] /\ d[p].copy = q /\ d[r].row = of[x] /\ d[r].copy = u
      BY <2>1, <2>2
    <3> QED BY <1>4, <3>1
  <2>4. m = x
    BY <2>3 DEF Injection, IsInjective
  <2> QED BY <2>1, <2>2, <2>3, <2>4
<1> QED BY <1>3, <1>4

(* The rows of a block are repeated evenly: what is not in the first turn   *)
(* comes after the same row and any other of the turn before.               *)
LEMMA BlockIsEven ==
  ASSUME NEW d, NEW f, NEW off \in Nat, NEW c \in Nat, Block(d, f, off, c),
         NEW k \in off + 1 .. off + c, NEW l \in off + 1 .. off + c
  PROVE  Cardinality({p \in off + 1 .. off + c : d[p].row = d[k].row})
           <= 1 + Cardinality({p \in off + 1 .. off + c : d[p].row = d[l].row})
<1>1. PICK L \in Nat \ {0} : \E of \in Injection(1 .. L, Nat) :
        \A p \in off + 1 .. off + c : Turn(d, f, off, of, L, p)
  BY DEF Block
<1>2. PICK of \in Injection(1 .. L, Nat) : \A p \in off + 1 .. off + c : Turn(d, f, off, of, L, p)
  BY <1>1
<1>3. ASSUME NEW p \in off + 1 .. off + c
      PROVE  \E q \in Nat : \E m \in 1 .. L : p = off + L * q + m /\ d[p].row = of[m]
  <2>1. Turn(d, f, off, of, L, p)
    BY <1>2
  <2>2. PICK q \in Nat, m \in 1 .. L : p = off + L * q + m /\ d[p] = [file |-> f, row |-> of[m], copy |-> q]
    BY <2>1 DEF Turn
  <2> QED BY <2>2
<1>4. PICK x \in 1 .. L, y \in 1 .. L : d[k].row = of[x] /\ d[l].row = of[y]
  <2>1. (\E m \in 1 .. L : d[k].row = of[m]) /\ (\E m \in 1 .. L : d[l].row = of[m])
    BY <1>3
  <2> QED BY <2>1
<1>5. \A m, v \in 1 .. L : of[m] = of[v] => m = v
  BY DEF Injection, IsInjective
<1> DEFINE X == {p \in off + 1 .. off + c : d[p].row = d[k].row}
           Y == {p \in off + 1 .. off + c : d[p].row = d[l].row}
           Z == X \ {off + x}
           back == [p \in Z |-> p - L - x + y]
<1>6. IsFiniteSet(X) /\ IsFiniteSet(Y)
  <2>1. off + 1 \in Int /\ off + c \in Int
    OBVIOUS
  <2>2. IsFiniteSet(off + 1 .. off + c)
    BY <2>1, FS_Interval
  <2> QED BY <2>2, FS_Subset
<1>7. ASSUME NEW p \in Z PROVE p - L - x + y \in Y
  <2>1. p \in off + 1 .. off + c /\ d[p].row = of[x] /\ p # off + x
    BY <1>4
  <2>2. PICK q \in Nat, m \in 1 .. L : p = off + L * q + m /\ d[p].row = of[m]
    BY <1>3, <2>1
  <2>3. m = x
    BY <1>5, <2>1, <2>2
  <2>4. q # 0
    <3>1. q = 0 => L * q = 0
      OBVIOUS
    <3> QED BY <2>1, <2>2, <2>3, <3>1
  <2>5. PICK u \in Nat : q = u + 1
    <3>1. q - 1 \in Nat /\ q = (q - 1) + 1
      BY <2>4
    <3> QED BY <3>1
  <2>6. PICK w \in Nat, z \in Nat : w = L * u /\ z = L * q /\ z = w + L
    BY <2>5
  <2>7. p = off + z + x
    BY <2>2, <2>3, <2>6
  <2>8. PICK r \in off + 1 .. off + c : r = off + w + y /\ r = p - L - x + y
    <3>1. off + w + y = p - L - x + y /\ off + w + y \in off + 1 .. off + c
      BY <2>1, <2>6, <2>7
    <3> QED BY <3>1
  <2>9. PICK v \in Nat, n \in 1 .. L : r = off + L * v + n /\ d[r].row = of[n]
    BY <1>3
  <2>10. PICK j \in Nat : j = L * v
    OBVIOUS
  <2>11. j + n = w + y
    BY <2>8, <2>9, <2>10
  <2>12. L * v + n = L * u + y
    BY <2>6, <2>10, <2>11
  <2>13. n = y
    BY <2>12, TurnsAreUnique
  <2> QED BY <1>4, <2>8, <2>9, <2>13
<1>8. Z \subseteq Int
  OBVIOUS
<1> HIDE DEF X, Y, Z
<1>9. back \in Injection(Z, Y)
  <2>1. back \in [Z -> Y]
    BY <1>7
  <2>2. ASSUME NEW p \in Z, NEW r \in Z, back[p] = back[r] PROVE p = r
    <3>1. p - L - x + y = r - L - x + y
      BY <2>2
    <3> QED BY <1>8, <3>1
  <2> QED BY <2>1, <2>2 DEF Injection, IsInjective
<1>10. Cardinality(Z) <= Cardinality(Y)
  BY <1>6, <1>9, FS_Injection
<1>11. Cardinality(Z) = Cardinality(X) - 1 \/ Z = X
  <2>1. CASE off + x \in X
    BY <1>6, <2>1, FS_RemoveElement DEF Z
  <2>2. CASE off + x \notin X
    BY <2>2 DEF Z
  <2> QED BY <2>1, <2>2
<1>12. Cardinality(X) \in Nat /\ Cardinality(Y) \in Nat
  BY <1>6, FS_CardinalityType
<1>13. Cardinality(X) <= 1 + Cardinality(Y)
  BY <1>10, <1>11, <1>12
<1> QED BY <1>13 DEF X, Y

-----------------------------------------------------------------------------
(* The share of the second file.                                            *)
SecondInv(asked, n, second) ==
  \/ 2 * (Denominator * second - n * asked) \in -Denominator .. Denominator
  \/ second = 1 /\ 2 * n * asked < Denominator

LEMMA ShareIsRounded ==
  ASSUME share \in Shares, share > 0, NEW n \in Nat, n > 0
  PROVE  SecondCount(n) \in 0 .. n /\ SecondInv(share, n, SecondCount(n))
<1>1. PICK D \in Nat \ {0}, s \in Nat \ {0} : D = Denominator /\ s = share /\ s <= D
  BY DatasetAssumption
<1>2. PICK x \in Nat : x = n * s
  <2>1. n * s \in Nat
    BY <1>1
  <2> QED BY <2>1
<1>3. PICK q \in Nat, r \in Nat : q = x \div D /\ r = x % D /\ r < D /\ x = D * q + r
  BY DivMod
<1>4. PICK c \in Nat : /\ c = RoundedShare(x)
                       /\ \/ c = q + 1 /\ 2 * r >= D
                          \/ c = q /\ 2 * r <= D
  <2>1. RoundedShare(x) = IF 2 * r > D \/ (2 * r = D /\ q % 2 = 1) THEN q + 1 ELSE q
    BY <1>1, <1>3 DEF RoundedShare
  <2>2. CASE 2 * r > D \/ (2 * r = D /\ q % 2 = 1)
    BY <2>1, <2>2
  <2>3. CASE ~(2 * r > D \/ (2 * r = D /\ q % 2 = 1))
    BY <2>1, <2>3
  <2> QED BY <2>2, <2>3
<1>5. x <= D * n
  <2>1. n * s <= n * D
    BY <1>1, MultipleIsMonotone
  <2>2. n * D = D * n
    OBVIOUS
  <2> QED BY <1>2, <2>1, <2>2
<1>6. PICK y \in Nat, z \in Nat : y = D * q /\ z = D * n
  <2>1. D * q \in Nat /\ D * n \in Nat
    OBVIOUS
  <2> QED BY <2>1
<1>7. c <= n
  <2>1. CASE c = q
    <3>1. ~(q >= n + 1)
      <4>1. SUFFICES ASSUME q >= n + 1 PROVE FALSE
        OBVIOUS
      <4>2. D * (n + 1) <= D * q
        BY <4>1, MultipleIsMonotone
      <4>3. D * (n + 1) = D * n + D
        OBVIOUS
      <4> QED BY <1>3, <1>5, <1>6, <4>2, <4>3
    <3> QED BY <2>1, <3>1
  <2>2. CASE c = q + 1 /\ 2 * r >= D
    <3>1. ~(q >= n)
      <4>1. SUFFICES ASSUME q >= n PROVE FALSE
        OBVIOUS
      <4>2. D * n <= D * q
        BY <4>1, MultipleIsMonotone
      <4> QED BY <1>3, <1>5, <1>6, <2>2, <4>2
    <3> QED BY <2>2, <3>1
  <2> QED BY <1>4, <2>1, <2>2
<1>8. RoundedShare(n * share) = c
  BY <1>1, <1>2, <1>4
<1>9. CASE c = 0
  <2>1. SecondCount(n) = 1
    BY <1>8, <1>9 DEF SecondCount
  <2>2. q = 0 /\ 2 * r <= D
    BY <1>4, <1>9
  <2>3. D * q = 0
    BY <2>2
  <2>4. x = r
    BY <1>3, <2>3
  <2>5. D * 1 = D
    OBVIOUS
  <2>6. SecondInv(share, n, 1)
    <3>1. CASE 2 * r < D
      <4>1. 2 * n * share = 2 * x
        BY <1>1, <1>2
      <4> QED BY <1>1, <2>4, <3>1, <4>1 DEF SecondInv
    <3>2. CASE 2 * r = D
      <4>1. 2 * (Denominator * 1 - n * share) = D
        BY <1>1, <1>2, <2>4, <2>5, <3>2
      <4> QED BY <1>1, <4>1 DEF SecondInv
    <3> QED BY <2>2, <3>1, <3>2
  <2> QED BY <2>1, <2>6
<1>10. CASE c # 0
  <2>1. SecondCount(n) = c
    BY <1>7, <1>8, <1>10 DEF SecondCount
  <2>2. D * c = y \/ D * c = y + D
    <3>1. D * (q + 1) = D * q + D
      OBVIOUS
    <3> QED BY <1>4, <1>6, <3>1
  <2>3. PICK w \in Nat : w = D * c /\ (c = q => w = y) /\ (c = q + 1 => w = y + D)
    <3>1. D * (q + 1) = D * q + D /\ D * c \in Nat
      OBVIOUS
    <3> QED BY <1>6, <3>1
  <2>4. 2 * (w - x) \in -D .. D
    BY <1>3, <1>4, <1>6, <2>3
  <2>5. Denominator * c - n * share = w - x
    BY <1>1, <1>2, <2>3
  <2>6. SecondInv(share, n, c)
    BY <1>1, <2>4, <2>5 DEF SecondInv
  <2> QED BY <1>7, <2>1, <2>6
<1> QED BY <1>9, <1>10

-----------------------------------------------------------------------------
(* The invariant: a dataset is a block of rows of the first file and one of *)
(* the second.                                                              *)
Blocks(d, n, second) ==
  /\ n \in Nat /\ second \in 0 .. n
  /\ d \in Seq(DatasetRow) /\ Len(d) = n
  /\ Block(d, 1, 0, n - second) /\ Block(d, 2, n - second, second)

DatasetInv ==
  /\ files \in Files \X Files /\ limit \in Nat /\ share \in Shares
  /\ dmode \in {"single", "hybrid", "verifiable", "mixed"}
  /\ loaded = "yes" =>
       \E n \in Nat : \E second \in 0 .. n :
         /\ Blocks(dataset, n, second)
         /\ dmode \in {"single", "verifiable"} => second = 0
         /\ dmode \in {"hybrid", "mixed"} /\ files[2] # <<>> /\ share > 0 =>
              (limit > 0 => n = limit) /\ SecondInv(share, n, second)

LEMMA NothingIsABlock ==
  ASSUME NEW d, NEW f, NEW off \in Nat
  PROVE  Block(d, f, off, 0)
<1>1. [i \in 1 .. 1 |-> i] \in Injection(1 .. 1, Nat)
  BY DEF Injection, IsInjective
<1>2. off + 1 .. off + 0 = {}
  OBVIOUS
<1>3. \A p \in off + 1 .. off + 0 : Turn(d, f, off, [i \in 1 .. 1 |-> i], 1, p)
  BY <1>2
<1> HIDE DEF Turn
<1>4. 1 \in Nat \ {0}
  OBVIOUS
<1> QED BY <1>1, <1>3, <1>4, Zenon DEF Block

LEMMA RowsAreBlocks ==
  ASSUME NEW rows, FileRows(rows, 1)
  PROVE  \E n \in Nat : Blocks(rows, n, 0)
<1>1. CASE rows = <<>>
  <2>1. Block(rows, 1, 0, 0) /\ Block(rows, 2, 0, 0)
    BY NothingIsABlock
  <2>2. rows \in Seq(DatasetRow) /\ Len(rows) = 0
    BY <1>1
  <2>3. Blocks(rows, 0, 0)
    BY <2>1, <2>2 DEF Blocks
  <2> QED BY <2>3
<1>2. CASE rows # <<>>
  <2>1. PICK n \in Nat : rows \in Seq(DatasetRow) /\ Len(rows) = n /\ Block(rows, 1, 0, n)
    BY <1>2, FileRowsAreBlock
  <2>3. Block(rows, 2, n, 0)
    BY NothingIsABlock
  <2>4. n - 0 = n /\ 0 \in 0 .. n
    OBVIOUS
  <2>5. Blocks(rows, n, 0)
    BY <2>1, <2>3, <2>4 DEF Blocks
  <2> QED BY <2>5
<1> QED BY <1>1, <1>2

LEMMA MixIsBlocks ==
  ASSUME NEW first, NEW second, FileRows(first, 1), FileRows(second, 2), first # <<>>, second # <<>>,
         limit \in Nat, share \in Shares
  PROVE  \E n \in Nat : \E c \in 0 .. n :
           /\ Blocks(Mix(first, second), n, c)
           /\ limit > 0 => n = limit
           /\ share > 0 => SecondInv(share, n, c)
<1>1. PICK k \in Nat : Len(first) = k /\ k > 0
  <2>1. PICK k \in Nat : first \in Seq(DatasetRow) /\ Len(first) = k
    BY FileRowsAreBlock
  <2> QED BY <2>1
<1>2. PICK n \in Nat : n = (IF limit > 0 THEN limit ELSE Len(first)) /\ n > 0
  BY <1>1
<1>3. PICK c \in 0 .. n : c = SecondCount(n) /\ (share > 0 => SecondInv(share, n, c))
  <2>1. CASE share > 0
    BY <1>2, <2>1, ShareIsRounded
  <2>2. CASE ~(share > 0)
    <3>1. share = 0
      BY <2>2, DatasetAssumption
    <3>2. PICK D \in Nat \ {0} : D = Denominator
      BY DatasetAssumption
    <3>3. n * share = 0 /\ 0 \div D = 0 /\ 0 % D = 0 /\ ~(2 * 0 > D) /\ 2 * 0 # D
      BY <3>1
    <3>4. RoundedShare(n * share) = 0
      BY <3>2, <3>3 DEF RoundedShare
    <3>5. SecondCount(n) = 0
      BY <1>2, <2>2, <3>4 DEF SecondCount
    <3> QED BY <2>2, <3>5
  <2> QED BY <2>1, <2>2
<1>4. PICK m \in Nat : m = n - c
  BY <1>2
<1> DEFINE a == Take(first, m)
           b == Take(second, c)
<1>5. /\ a \in Seq(DatasetRow) /\ Len(a) = m /\ Block(a, 1, 0, m)
      /\ b \in Seq(DatasetRow) /\ Len(b) = c /\ Block(b, 2, 0, c)
  <2>1. a \in Seq(DatasetRow) /\ Len(a) = m /\ Block(a, 1, 0, m)
    BY TakeIsBlock
  <2>2. c \in Nat
    BY <1>3
  <2>3. b \in Seq(DatasetRow) /\ Len(b) = c /\ Block(b, 2, 0, c)
    BY <2>2, TakeIsBlock
  <2> QED BY <2>1, <2>3
<1>6. Mix(first, second) = a \o b
  BY <1>2, <1>3, <1>4 DEF Mix
<1> HIDE DEF a, b
<1>8. Block(a \o b, 1, 0, m) /\ Block(a \o b, 2, m, c)
  BY <1>5, JoinedBlocks
<1>9. a \o b \in Seq(DatasetRow) /\ Len(a \o b) = n
  BY <1>4, <1>5
<1>10. Blocks(a \o b, n, c)
  BY <1>4, <1>8, <1>9 DEF Blocks
<1> QED BY <1>2, <1>3, <1>6, <1>10

LEMMA DatasetInvInit == DatasetInit => DatasetInv
  BY DatasetAssumption DEF DatasetInit, DatasetInv

LEMMA LoadIsBlocks ==
  ASSUME files \in Files \X Files, limit \in Nat, share \in Shares,
         LoadSingle \/ LoadHybrid \/ LoadVerifiable \/ LoadMixed, loaded' = "yes"
  PROVE  \E n \in Nat : \E second \in 0 .. n :
           /\ Blocks(dataset', n, second)
           /\ dmode \in {"single", "verifiable"} => second = 0
           /\ dmode \in {"hybrid", "mixed"} /\ files[2] # <<>> /\ share > 0 =>
                (limit > 0 => n = limit) /\ SecondInv(share, n, second)
<1>1. ASSUME NEW parts, NEW rows, OrRaise(parts, rows)
      PROVE  (\A p \in parts : p # <<>>) /\ dataset' = rows
  BY <1>1 DEF OrRaise
<1>2. ASSUME NEW f \in {1, 2}, NEW kinds, NEW max \in Nat
      PROVE  FileRows(Normalized(f, kinds, max), f)
  BY NormalizedGivesFileRows
<1>3. ASSUME NEW parts, NEW rows, OrRaise(parts, rows), FileRows(rows, 1)
      PROVE  \E n \in Nat : Blocks(dataset', n, 0)
  <2>1. dataset' = rows
    BY <1>1, <1>3
  <2> QED BY <1>3, <2>1, RowsAreBlocks
<1>4. ASSUME NEW first, NEW second, OrRaise({first, second}, Mix(first, second)),
             FileRows(first, 1), FileRows(second, 2)
      PROVE  \E n \in Nat : \E c \in 0 .. n :
               /\ Blocks(dataset', n, c)
               /\ limit > 0 => n = limit
               /\ share > 0 => SecondInv(share, n, c)
  <2>1. first # <<>> /\ second # <<>> /\ dataset' = Mix(first, second)
    BY <1>1, <1>4
  <2> QED BY <1>4, <2>1, MixIsBlocks
<1>5. CASE LoadSingle
  <2>1. FileRows(Normalized(1, WithMessages, limit), 1)
    BY <1>2
  <2>2. PICK n \in Nat : Blocks(dataset', n, 0)
    BY <1>3, <1>5, <2>1 DEF LoadSingle
  <2> QED BY <1>5, <2>2 DEF LoadSingle
<1>6. CASE LoadVerifiable
  <2>1. FileRows(Normalized(1, WithAnswer, limit), 1)
    BY <1>2
  <2>2. PICK n \in Nat : Blocks(dataset', n, 0)
    BY <1>3, <1>6, <2>1 DEF LoadVerifiable
  <2> QED BY <1>6, <2>2 DEF LoadVerifiable
<1>7. CASE LoadHybrid
  <2>1. FileRows(Normalized(1, WithMessages, 0), 1) /\ FileRows(Normalized(2, WithProblem, 0), 2)
    BY <1>2
  <2> QED BY <1>4, <1>7, <2>1 DEF LoadHybrid
<1>8. CASE LoadMixed
  <2>1. /\ FileRows(Normalized(1, WithProblem, 0), 1) /\ FileRows(Normalized(2, WithAnswer, 0), 2)
        /\ FileRows(Normalized(1, WithProblem, limit), 1)
    BY <1>2
  <2>2. CASE files[2] = <<>> \/ share <= 0
    <3>1. OrRaise({Normalized(1, WithProblem, 0)}, Normalized(1, WithProblem, limit))
      BY <1>8, <2>2 DEF LoadMixed
    <3>2. PICK n \in Nat : Blocks(dataset', n, 0)
      BY <1>3, <2>1, <3>1
    <3>3. share \in Int
      BY DatasetAssumption
    <3> QED BY <2>2, <3>2, <3>3
  <2>3. CASE ~(files[2] = <<>> \/ share <= 0)
    BY <1>4, <1>8, <2>1, <2>3 DEF LoadMixed
  <2> QED BY <2>2, <2>3
<1> QED BY <1>5, <1>6, <1>7, <1>8

LEMMA DatasetInvStep ==
  ASSUME DatasetInv, RowsStep \/ UNCHANGED rowsVars
  PROVE  DatasetInv'
<1>1. CASE UNCHANGED rowsVars
  BY <1>1 DEF rowsVars, DatasetInv
<1>2. CASE RowsStep
  <2>1. /\ files \in Files \X Files /\ limit \in Nat /\ share \in Shares
        /\ dmode \in {"single", "hybrid", "verifiable", "mixed"}
        /\ dmode' = dmode /\ files' = files /\ limit' = limit /\ share' = share
        /\ LoadSingle \/ LoadHybrid \/ LoadVerifiable \/ LoadMixed
    BY <1>2 DEF RowsStep, DatasetInv
  <2>2. CASE loaded' = "yes"
    BY <2>1, <2>2, LoadIsBlocks DEF DatasetInv
  <2>3. CASE loaded' # "yes"
    BY <2>1, <2>3 DEF DatasetInv
  <2> QED BY <2>2, <2>3
<1> QED BY <1>1, <1>2

(* Which rows are of which file.                                            *)
LEMMA FilesInBlocks ==
  ASSUME NEW d, NEW n, NEW c, Blocks(d, n, c)
  PROVE  /\ DOMAIN d = 1 .. n
         /\ \A k \in DOMAIN d : d[k].file \in {1, 2}
         /\ {p \in DOMAIN d : d[p].file = 1} = 0 + 1 .. 0 + (n - c)
         /\ {p \in DOMAIN d : d[p].file = 2} = (n - c) + 1 .. (n - c) + c
<1>1. PICK m \in Nat, e \in Nat : m = n - c /\ e = c /\ n = m + e
  BY DEF Blocks
<1>2. DOMAIN d = 1 .. n /\ Block(d, 1, 0, m) /\ Block(d, 2, m, e)
  BY <1>1 DEF Blocks
<1>3. \A p \in 0 + 1 .. 0 + m : d[p].file = 1
  BY <1>2, BlockIsDistinct
<1>4. \A p \in m + 1 .. m + e : d[p].file = 2
  BY <1>2, BlockIsDistinct
<1>5. \A p \in 1 .. n : p \in 0 + 1 .. 0 + m \/ p \in m + 1 .. m + e
  BY <1>1
<1>6. 0 + 1 .. 0 + m \subseteq 1 .. n /\ m + 1 .. m + e \subseteq 1 .. n
  BY <1>1
<1>7. {p \in DOMAIN d : d[p].file = 1} = 0 + 1 .. 0 + m
  BY <1>2, <1>3, <1>4, <1>5, <1>6
<1>8. {p \in DOMAIN d : d[p].file = 2} = m + 1 .. m + e
  BY <1>2, <1>3, <1>4, <1>5, <1>6
<1>9. \A k \in DOMAIN d : d[k].file \in {1, 2}
  BY <1>2, <1>3, <1>4, <1>5
<1> QED BY <1>1, <1>2, <1>7, <1>8, <1>9

(* Rows of the same file are in the same block, and so are all that are     *)
(* counted with them.                                                       *)
LEMMA CountedInBlock ==
  ASSUME NEW d, NEW n, NEW c, Blocks(d, n, c), NEW k \in DOMAIN d
  PROVE  \E off \in Nat : \E m \in Nat :
           /\ Block(d, d[k].file, off, m)
           /\ {p \in DOMAIN d : d[p].file = d[k].file} = off + 1 .. off + m
<1>1. n - c \in Nat /\ c \in Nat /\ 0 \in Nat /\ Block(d, 1, 0, n - c) /\ Block(d, 2, n - c, c)
  BY DEF Blocks
<1>2. CASE d[k].file = 1
  BY <1>1, <1>2, FilesInBlocks
<1>3. CASE d[k].file = 2
  BY <1>1, <1>3, FilesInBlocks
<1> QED BY <1>2, <1>3, FilesInBlocks

LEMMA BlocksAreBalanced ==
  ASSUME NEW d, NEW n, NEW c, Blocks(d, n, c)
  PROVE  LET used(f, i) == Cardinality({k \in DOMAIN d : d[k].file = f /\ d[k].row = i})
         IN  /\ \A j, k \in DOMAIN d : j # k => d[j] # d[k]
             /\ \A k, l \in DOMAIN d : d[k].file = d[l].file =>
                  used(d[k].file, d[k].row) <= 1 + used(d[l].file, d[l].row)
             /\ Len(d) = n
             /\ Cardinality({k \in DOMAIN d : d[k].file = 2}) = c
<1> DEFINE used(f, i) == Cardinality({k \in DOMAIN d : d[k].file = f /\ d[k].row = i})
<1>2. ASSUME NEW j \in DOMAIN d, NEW k \in DOMAIN d, d[j] = d[k] PROVE j = k
  <2>1. PICK off \in Nat, m \in Nat :
          /\ Block(d, d[k].file, off, m)
          /\ {p \in DOMAIN d : d[p].file = d[k].file} = off + 1 .. off + m
    BY CountedInBlock
  <2>2. k \in off + 1 .. off + m /\ j \in off + 1 .. off + m
    BY <1>2, <2>1
  <2> QED BY <1>2, <2>1, <2>2, BlockIsDistinct
<1>3. ASSUME NEW k \in DOMAIN d, NEW l \in DOMAIN d, d[k].file = d[l].file
      PROVE  used(d[k].file, d[k].row) <= 1 + used(d[l].file, d[l].row)
  <2>1. PICK off \in Nat, m \in Nat :
          /\ Block(d, d[k].file, off, m)
          /\ {p \in DOMAIN d : d[p].file = d[k].file} = off + 1 .. off + m
    BY CountedInBlock
  <2>2. k \in off + 1 .. off + m /\ l \in off + 1 .. off + m
    BY <1>3, <2>1
  <2>3. \A i : {p \in DOMAIN d : d[p].file = d[k].file /\ d[p].row = i} = {p \in off + 1 .. off + m : d[p].row = i}
    BY <2>1
  <2>4. Cardinality({p \in off + 1 .. off + m : d[p].row = d[k].row})
          <= 1 + Cardinality({p \in off + 1 .. off + m : d[p].row = d[l].row})
    BY <2>1, <2>2, BlockIsEven
  <2>5. /\ used(d[k].file, d[k].row) = Cardinality({p \in off + 1 .. off + m : d[p].row = d[k].row})
        /\ used(d[l].file, d[l].row) = Cardinality({p \in off + 1 .. off + m : d[p].row = d[l].row})
    <3>1. used(d[k].file, d[k].row) = Cardinality({p \in off + 1 .. off + m : d[p].row = d[k].row})
      BY <2>3
    <3>2. used(d[l].file, d[l].row) = used(d[k].file, d[l].row)
      BY <1>3
    <3>3. used(d[k].file, d[l].row) = Cardinality({p \in off + 1 .. off + m : d[p].row = d[l].row})
      BY <2>3
    <3> QED BY <3>1, <3>2, <3>3, Zenon
  <2> HIDE DEF used
  <2> QED BY <2>4, <2>5
<1>4. Len(d) = n
  BY DEF Blocks
<1>5. Cardinality({k \in DOMAIN d : d[k].file = 2}) = c
  <2>1. PICK a \in Int, b \in Int : a = (n - c) + 1 /\ b = (n - c) + c /\ b - a + 1 = c /\ c \in Nat
    BY DEF Blocks
  <2>2. Cardinality(a .. b) = IF a > b THEN 0 ELSE b - a + 1
    BY FS_Interval
  <2>3. Cardinality(a .. b) = c
    BY <2>1, <2>2
  <2>4. {k \in DOMAIN d : d[k].file = 2} = (n - c) + 1 .. (n - c) + c
    BY FilesInBlocks
  <2> QED BY <2>1, <2>3, <2>4
<1> QED BY <1>2, <1>3, <1>4, <1>5

(* Two rows with one task_id are rows the code cannot tell apart.           *)
LEMMA IdsAreShared ==
  ASSUME dmode \in {"single", "hybrid", "verifiable", "mixed"},
         NEW j \in DatasetRow, NEW k \in DatasetRow, j # k, TaskId(j) = TaskId(k),
         dmode \in {"single", "verifiable"} => j.file = 1 /\ k.file = 1
  PROVE  MayShareId(j, k)
<1>1. /\ Rendered(j.file) = Rendered(k.file) /\ j.copy = k.copy
      /\ (IF Rendered(j.file) \/ Own(j) = Unnamed THEN j.row - 1 ELSE Own(j))
           = (IF Rendered(k.file) \/ Own(k) = Unnamed THEN k.row - 1 ELSE Own(k))
  BY DEF TaskId
<1>2. j.file \in {1, 2} /\ k.file \in {1, 2} /\ j.row \in Nat /\ k.row \in Nat
  BY DEF DatasetRow
<1>3. CASE j.file # k.file
  <2>1. dmode \in {"hybrid", "mixed"}
    BY <1>3
  <2>2. dmode # "hybrid"
    BY <1>1, <1>2, <1>3 DEF Rendered
  <2> QED BY <1>3, <2>1, <2>2 DEF MayShareId
<1>4. CASE j.file = k.file
  <2>1. j.row # k.row
    BY <1>1, <1>4 DEF DatasetRow
  <2>2. ~(j.row - 1 = k.row - 1)
    BY <1>2, <2>1
  <2>3. ~Rendered(j.file) /\ (Own(j) # Unnamed \/ Own(k) # Unnamed)
    BY <1>1, <1>4, <2>2
  <2> QED BY <1>4, <2>1, <2>3 DEF MayShareId
<1> QED BY <1>3, <1>4

LEMMA DatasetInvGivesBalance ==
  ASSUME DatasetInv
  PROVE  MixIsBalanced
<1> SUFFICES ASSUME loaded = "yes" PROVE MixIsBalanced
  BY DEF MixIsBalanced
<1>1. PICK n \in Nat : \E c \in 0 .. n :
         /\ Blocks(dataset, n, c)
         /\ dmode \in {"single", "verifiable"} => c = 0
         /\ dmode \in {"hybrid", "mixed"} /\ files[2] # <<>> /\ share > 0 =>
              (limit > 0 => n = limit) /\ SecondInv(share, n, c)
  BY DEF DatasetInv
<1>2. PICK c \in 0 .. n :
         /\ Blocks(dataset, n, c)
         /\ dmode \in {"single", "verifiable"} => c = 0
         /\ dmode \in {"hybrid", "mixed"} /\ files[2] # <<>> /\ share > 0 =>
              (limit > 0 => n = limit) /\ SecondInv(share, n, c)
  BY <1>1
<1>3. /\ Len(dataset) = n
      /\ Cardinality({k \in DOMAIN dataset : dataset[k].file = 2}) = c
  BY <1>2, BlocksAreBalanced
<1>4. ASSUME NEW j \in DOMAIN dataset, NEW k \in DOMAIN dataset, j # k,
             TaskId(dataset[j]) = TaskId(dataset[k])
      PROVE  MayShareId(dataset[j], dataset[k])
  <2>1. dataset[j] \in DatasetRow /\ dataset[k] \in DatasetRow /\ dataset[j] # dataset[k]
    <3>1. dataset \in Seq(DatasetRow)
      BY <1>2 DEF Blocks
    <3>2. dataset[j] # dataset[k]
      BY <1>2, <1>4, BlocksAreBalanced
    <3> QED BY <3>1, <3>2
  <2>2. ASSUME c = 0, NEW i \in DOMAIN dataset PROVE dataset[i].file = 1
    <3>1. {p \in DOMAIN dataset : dataset[p].file = 2} = (n - c) + 1 .. (n - c) + c
      BY <1>2, FilesInBlocks
    <3>2. (n - c) + 1 .. (n - c) + c = {}
      BY <2>2
    <3>3. dataset[i].file \in {1, 2}
      BY <1>2, FilesInBlocks
    <3> QED BY <3>1, <3>2, <3>3
  <2>3. dmode \in {"single", "verifiable"} => dataset[j].file = 1 /\ dataset[k].file = 1
    BY <1>2, <2>2
  <2>4. dmode \in {"single", "hybrid", "verifiable", "mixed"}
    BY DEF DatasetInv
  <2> QED BY <1>4, <2>1, <2>3, <2>4, IdsAreShared
<1> QED BY <1>2, <1>3, <1>4, BlocksAreBalanced DEF MixIsBalanced, SecondInv

-----------------------------------------------------------------------------
(* The environments together.                                              *)

EnvInv == SoloInv /\ JudgeInv /\ DatasetInv /\ Group!TypeOK /\ Group!BudgetInv

LEMMA RestingParts ==
  ASSUME [Next]_vars
  PROVE  /\ [Group!Next]_(Group!vars) /\ [SoloStep]_soloVars /\ [JudgeStep]_judgeVars
         /\ RowsStep \/ UNCHANGED rowsVars
<1>1. UNCHANGED groupVars => UNCHANGED Group!vars
  BY DEF groupVars, Group!vars, Group!groupVars, Group!selectorVars
<1> QED BY <1>1 DEF Next, vars

LEMMA EnvInvInit == Init => EnvInv
<1>1. Init => Group!Init /\ SoloInit /\ JudgeInit /\ DatasetInit
  BY DEF Init
<1>2. Group!Init => Group!TypeOK /\ Group!BudgetInv
  BY EnvironmentsAssumption, Group!InitType, Group!BudgetInvInit
<1> QED BY <1>1, <1>2, SoloInvInit, JudgeInvInit, DatasetInvInit DEF EnvInv

LEMMA EnvInvStep == EnvInv /\ [Next]_vars => EnvInv'
<1> SUFFICES ASSUME EnvInv, [Next]_vars PROVE EnvInv'
  OBVIOUS
<1>1. /\ [Group!Next]_(Group!vars) /\ [SoloStep]_soloVars /\ [JudgeStep]_judgeVars
      /\ RowsStep \/ UNCHANGED rowsVars
  BY RestingParts
<1>2. Group!TypeOK'
  BY <1>1, EnvironmentsAssumption, Group!TypeStep DEF EnvInv
<1>3. Group!BudgetInv'
  BY <1>1, EnvironmentsAssumption, Group!BudgetInvStep DEF EnvInv
<1> QED BY <1>1, <1>2, <1>3, SoloInvStep, JudgeInvStep, DatasetInvStep DEF EnvInv

LEMMA EnvInvHolds == Spec => []EnvInv
  BY EnvInvInit, EnvInvStep, PTL DEF Spec

(* No reply is thrown away unread, in any of the environments, for any     *)
(* number of rounds and of verifiers: max_turns of __init__                *)
(* (src/proof_opd_env.py:1307, src/deepseek_math_v2_env.py:700) leaves room *)
(* for every call.                                                         *)
THEOREM RolloutsAreNotCutOff == Spec => []TurnBudgetSuffices
<1>1. Group!BudgetInv => Group!TurnBudgetSuffices
  BY DEF Group!BudgetInv, Group!InBudget, Group!TurnBudgetSuffices
<1>2. EnvInv => TurnBudgetSuffices
  BY <1>1, SoloKeepsItsWord, JudgeKeepsItsWord DEF EnvInv, TurnBudgetSuffices
<1> QED BY <1>2, EnvInvHolds, PTL

(* A finished rollout is paid for the round its environment says, for any  *)
(* weights, scores and numbers of rounds.                                  *)
THEOREM PaysTheRightRound == Spec => []PaidForTheRightRound
<1>1. EnvInv => PaidForTheRightRound
  BY SoloKeepsItsWord, JudgeKeepsItsWord DEF EnvInv, PaidForTheRightRound
<1> QED BY <1>1, EnvInvHolds, PTL

(* A mix has the size and the shares it was asked for and repeats the rows *)
(* of a file evenly, and two rows have one task_id only where the code does *)
(* not tell them apart: across the two files of a mixed dataset, or where  *)
(* a row brings an id.  For files of any length, any ids and any limit and *)
(* fraction (_take_rows, _clone_dataset_row, the normalisations).          *)
THEOREM MixesAreBalanced == Spec => []MixIsBalanced
<1>1. EnvInv => MixIsBalanced
  BY DatasetInvGivesBalance DEF EnvInv
<1> QED BY <1>1, EnvInvHolds, PTL

(* A round that was verified to its end never lowers a reward, and a       *)
(* refinement quotes the best round with that round's reviews              *)
(* (_finalize_round, _next_refinement_prompt).                             *)
THEOREM BestRoundCounts == Spec => VerifiedRoundKeepsBest
<1>1. EnvInv /\ [Next]_vars =>
        /\ \A c \in DOMAIN stage :
             stage[c] \in {"verifier", "meta"} => payload'[c].reward >= payload[c].reward
        /\ step \in {"verifier", "meta"} => paid'.reward >= paid.reward
  <2> SUFFICES ASSUME EnvInv, [Next]_vars
               PROVE  /\ \A c \in DOMAIN stage :
                           stage[c] \in {"verifier", "meta"} => payload'[c].reward >= payload[c].reward
                      /\ step \in {"verifier", "meta"} => paid'.reward >= paid.reward
    OBVIOUS
  <2>1. [Group!Next]_(Group!vars) /\ [SoloStep]_soloVars
    BY RestingParts
  <2>2. DOMAIN stage = Group!Candidates
    BY DEF EnvInv, Group!TypeOK
  <2>3. \A c \in Group!Candidates :
          stage[c] \in {"verifier", "meta"} => payload'[c].reward >= payload[c].reward
    BY <2>1, EnvironmentsAssumption, Group!VerifiedRoundPays DEF EnvInv
  <2>4. step \in {"verifier", "meta"} => paid'.reward >= paid.reward
    BY <2>1, SoloReviewPays DEF EnvInv, Reviewing
  <2> QED BY <2>2, <2>3, <2>4
<1>2. EnvInv /\ [Next]_vars => SoloRefinesTheBest'
  <2>1. SoloInv' => SoloRefinesTheBest'
    BY DEF SoloInv
  <2> QED BY <2>1, EnvInvStep DEF EnvInv
<1> QED
  BY <1>1, <1>2, EnvInvHolds, PTL DEF VerifiedRoundKeepsBest, Spec
=============================================================================
