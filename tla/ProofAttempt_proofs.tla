------------------------- MODULE ProofAttempt_proofs -------------------------
(***************************************************************************)
(* Proofs about ProofAttempt, for every number of verifiers, meta-votes    *)
(* and rounds, and every policy.                                           *)
(***************************************************************************)
EXTENDS ProofAttempt, SequenceTheorems, FiniteSetTheorems, WellFoundedInduction, TLAPS

Review(i) == [verifier |-> i, meta |-> 0]
Votes == [Verifiers -> [Answers -> Nat]]
Verdicts == UNION {[S -> Answers] : S \in SUBSET Verifiers}
Results == [score : Int, critiques : SUBSET Verifiers, strict : BOOLEAN]
Rounds == [proof : Nat, verdicts : Verdicts, votes : Votes, stop : BOOLEAN, result : Results]

Types ==
  /\ pc \in {"verify", "refine", "done", "failed"}
  /\ proof \in Nat
  /\ pending \subseteq Tasks /\ batch \subseteq Tasks
  /\ verdicts \in Verdicts /\ votes \in Votes /\ stop \in BOOLEAN
  /\ rounds \in Seq(Rounds)

(* The round at hand: a review is taken once, no review is lost unless the *)
(* round ends early, and a round only ends early after a review that was   *)
(* no pass, which stays among the verdicts.                                *)
RoundInv ==
  /\ pending \intersect batch = {}
  /\ \A i \in DOMAIN verdicts : Review(i) \notin pending \union batch
  /\ ~stop => \A i \in Verifiers \ DOMAIN verdicts : Review(i) \in pending \union batch
  /\ stop => \E i \in DOMAIN verdicts : verdicts[i] # Pass

(* The votes: those on a review that are counted and those that are out    *)
(* make up MetaN, unless the round ends early; nobody votes on a review    *)
(* that has not been taken.                                                *)
Out(i) == (pending \union batch) \intersect MetaTasks(i)
VoteInv ==
  /\ \A i \in Verifiers \ DOMAIN verdicts : Out(i) = {} /\ All(votes, i) = 0
  /\ ~stop => \A i \in DOMAIN verdicts :
       NeedsMeta(verdicts[i]) => All(votes, i) + Cardinality(Out(i)) = MetaN

(* The attempt: the best round is one of those that are over and has the   *)
(* highest score, and between rounds the proof at hand is the one verified *)
(* last.                                                                   *)
AttemptInv ==
  /\ rounds # <<>> => best \in 1 .. Len(rounds)
  /\ rounds = <<>> => best = 0
  /\ \A k \in DOMAIN rounds : rounds[best].result.score >= rounds[k].result.score
  /\ pc # "verify" => rounds # <<>>
  /\ pc \in {"refine", "done"} => rounds[Len(rounds)].proof = proof
  /\ pc = "refine" => Len(rounds) <= RefineRounds

IInv == Types /\ RoundInv /\ VoteInv /\ AttemptInv /\ StrictPassIsUnanimous /\ RoundIsComplete

-----------------------------------------------------------------------------
(* Scores are integers, so that the rounds of an attempt can be compared.  *)
(* The sum that FinalScore takes is a function defined by recursion: that  *)
(* there is one, and that its values are integers, follows by way of a     *)
(* smallest counterexample.                                                *)
LEMMA LeastOf ==
  ASSUME NEW S, S \subseteq Nat, S # {}
  PROVE  \E i \in S : \A j \in S : i <= j
<1> DEFINE R == {d \in Nat \X Nat : d[1] < d[2]}
<1>1. R = OpToRel(<, Nat)
  BY DEF OpToRel
<1>2. IsWellFoundedOn(R, Nat)
  BY <1>1, NatLessThanWellFounded
<1>3. PICK i \in S : \A j \in S : <<j, i>> \notin R
  BY <1>2, WFMin
<1>4. ASSUME NEW j \in S, j < i PROVE <<j, i>> \in R
  <2>1. <<j, i>> \in Nat \X Nat
    OBVIOUS
  <2>2. <<j, i>>[1] < <<j, i>>[2]
    BY <1>4
  <2> QED BY <2>1, <2>2
<1> HIDE DEF R
<1>5. \A j \in S : ~(j < i)
  BY <1>3, <1>4
<1>6. \A j \in S : i <= j
  BY <1>5
<1> QED BY <1>6

(* Partial sums of h.                                                      *)
Sums(h, n) == {f \in [0 .. n -> Int] : f = [k \in 0 .. n |-> IF k = 0 THEN 0 ELSE f[k - 1] + h[k]]}

LEMMA SumsExist ==
  ASSUME NEW h \in [Verifiers -> Int], NEW n \in 0 .. VerifyN
  PROVE  Sums(h, n) # {}
<1> DEFINE S == {k \in 0 .. VerifyN : Sums(h, k) = {}}
<1> SUFFICES ASSUME S # {} PROVE FALSE
  OBVIOUS
<1>1. VerifyN \in Nat
  BY AttemptAssumption
<1>2. PICK i \in S : \A j \in S : i <= j
  <2>1. S \subseteq Nat
    BY <1>1
  <2> HIDE DEF S
  <2> QED BY <2>1, LeastOf
<1>3. i \in 0 .. VerifyN /\ Sums(h, i) = {}
  BY <1>2
<1>4. CASE i = 0
  <2> DEFINE f == [k \in 0 .. 0 |-> 0]
  <2>1. f \in [0 .. 0 -> Int]
    OBVIOUS
  <2>2. f = [k \in 0 .. 0 |-> IF k = 0 THEN 0 ELSE f[k - 1] + h[k]]
    OBVIOUS
  <2>3. f \in Sums(h, 0)
    BY <2>1, <2>2 DEF Sums
  <2> QED BY <1>3, <1>4, <2>3
<1>5. CASE i # 0
  <2>1. i - 1 \in 0 .. VerifyN /\ i \in Verifiers /\ i - 1 < i /\ i \in Nat
    BY <1>1, <1>3, <1>5 DEF Verifiers
  <2>2. PICK g : g \in Sums(h, i - 1)
    BY <1>2, <2>1
  <2>3. g \in [0 .. i - 1 -> Int] /\ \A k \in 0 .. i - 1 : g[k] = IF k = 0 THEN 0 ELSE g[k - 1] + h[k]
    <3>1. g \in [0 .. i - 1 -> Int] /\ g = [k \in 0 .. i - 1 |-> IF k = 0 THEN 0 ELSE g[k - 1] + h[k]]
      BY <2>2 DEF Sums
    <3> DEFINE e(k) == IF k = 0 THEN 0 ELSE g[k - 1] + h[k]
    <3>2. g = [k \in 0 .. i - 1 |-> e(k)]
      BY <3>1
    <3> HIDE DEF e
    <3>3. \A k \in 0 .. i - 1 : g[k] = e(k)
      BY <3>2
    <3> QED BY <3>1, <3>3 DEF e
  <2> DEFINE f == [k \in 0 .. i |-> IF k = i THEN g[i - 1] + h[i] ELSE g[k]]
  <2>4. f \in [0 .. i -> Int]
    <3>1. ASSUME NEW k \in 0 .. i PROVE (IF k = i THEN g[i - 1] + h[i] ELSE g[k]) \in Int
      BY <2>1, <2>3, <3>1
    <3> QED BY <3>1
  <2>5. ASSUME NEW k \in 0 .. i PROVE f[k] = IF k = 0 THEN 0 ELSE f[k - 1] + h[k]
    BY <1>5, <2>1, <2>3
  <2> HIDE DEF f
  <2>6. f = [k \in 0 .. i |-> IF k = 0 THEN 0 ELSE f[k - 1] + h[k]]
    BY <2>4, <2>5
  <2>7. f \in Sums(h, i)
    BY <2>4, <2>6 DEF Sums
  <2> QED BY <1>3, <2>7
<1> QED BY <1>4, <1>5

LEMMA ScoredVerifiers ==
  ASSUME NEW v \in Verdicts
  PROVE  Scored(v) \subseteq Verifiers /\ \A i \in Scored(v) : v[i] \in Int
<1>1. PICK D \in SUBSET Verifiers : v \in [D -> Answers]
  BY DEF Verdicts
<1> QED BY <1>1 DEF Scored, Answers, Pass, NoScore

LEMMA WeightedIsAnInteger ==
  ASSUME NEW v \in Verdicts, NEW m \in Votes, NEW i \in Scored(v)
  PROVE  Weighted(v, m, i) \in Int
<1>1. v[i] \in Int /\ i \in Verifiers
  BY ScoredVerifiers
<1>2. One \in Nat
  BY ScoresAreExact
<1>3. m[i] \in [Answers -> Nat]
  BY <1>1 DEF Votes
<1>4. m[i][0] \in Nat /\ m[i][1] \in Nat /\ m[i][Pass] \in Nat
  BY <1>3 DEF Answers, Pass
<1>5. Parsed(m, i) \in Nat
  BY <1>4 DEF Parsed
<1>6. (v[i] * One) \in Int /\ (v[i] * 3 * One) \in Int /\ (v[i] * (m[i][1] + 2 * m[i][Pass]) * One) \in Int
  BY <1>1, <1>2, <1>4
<1>7. (v[i] * One) \div 2 \in Int /\ (v[i] * 3 * One) \div 10 \in Int
  BY <1>6
<1>8. ASSUME Parsed(m, i) # 0
      PROVE  (v[i] * (m[i][1] + 2 * m[i][Pass]) * One) \div (4 * Parsed(m, i)) \in Int
  <2> DEFINE a == v[i] * (m[i][1] + 2 * m[i][Pass]) * One
             b == 4 * Parsed(m, i)
  <2>1. a \in Int /\ b \in Int /\ b > 0
    BY <1>5, <1>6, <1>8
  <2> HIDE DEF a, b
  <2>2. a \div b \in Int
    BY <2>1
  <2> QED BY <2>2 DEF a, b
<1> HIDE DEF Parsed
<1> QED BY <1>7, <1>8 DEF Weighted

LEMMA ScoreIsAnInteger ==
  ASSUME NEW v \in Verdicts, NEW m \in Votes
  PROVE  FinalScore(v, m) \in Int
<1> DEFINE h == [k \in Verifiers |-> IF k \in Scored(v) THEN Weighted(v, m, k) ELSE 0]
           F(f) == f = [k \in 0 .. VerifyN |->
                          IF k = 0 THEN 0
                          ELSE f[k - 1] + (IF k \in Scored(v) THEN Weighted(v, m, k) ELSE 0)]
<1>1. h \in [Verifiers -> Int]
  BY WeightedIsAnInteger
<1>2. \A k \in 0 .. VerifyN : k # 0 => k \in Verifiers
  BY AttemptAssumption DEF Verifiers
<1>3. \E f : F(f)
  <2>1. VerifyN \in 0 .. VerifyN
    BY AttemptAssumption
  <2>2. PICK f : f \in Sums(h, VerifyN)
    BY <1>1, <2>1, SumsExist
  <2>3. f = [k \in 0 .. VerifyN |-> IF k = 0 THEN 0 ELSE f[k - 1] + h[k]]
    BY <2>2 DEF Sums
  <2>4. F(f)
    BY <1>2, <2>3
  <2> QED BY <2>4
<1> DEFINE sum == CHOOSE f : F(f)
<1>4. F(sum)
  BY <1>3
<1>5. WeightedSum(v, m) = sum[VerifyN]
  BY DEF WeightedSum
<1>6. sum = [k \in 0 .. VerifyN |->
               IF k = 0 THEN 0 ELSE sum[k - 1] + (IF k \in Scored(v) THEN Weighted(v, m, k) ELSE 0)]
  BY <1>4
<1> HIDE DEF F, sum
<1>7. \A k \in 0 .. VerifyN : sum[k] = IF k = 0 THEN 0 ELSE sum[k - 1] + h[k]
  <2> DEFINE e(k) == IF k = 0 THEN 0
                     ELSE sum[k - 1] + (IF k \in Scored(v) THEN Weighted(v, m, k) ELSE 0)
  <2>1. sum = [k \in 0 .. VerifyN |-> e(k)]
    BY <1>6
  <2> HIDE DEF e
  <2>2. \A k \in 0 .. VerifyN : sum[k] = e(k)
    BY <2>1
  <2> QED BY <1>2, <2>2 DEF e
<1> HIDE DEF h
<1>8. sum[VerifyN] \in Int
  <2>1. VerifyN \in Nat
    BY AttemptAssumption
  <2> DEFINE S == {k \in 0 .. VerifyN : sum[k] \notin Int}
  <2> SUFFICES ASSUME S # {} PROVE FALSE
    BY <2>1
  <2>2. PICK i \in S : \A j \in S : i <= j
    <3>1. S \subseteq Nat
      BY <2>1
    <3> HIDE DEF S
    <3> QED BY <3>1, LeastOf
  <2>3. i \in 0 .. VerifyN /\ sum[i] \notin Int
    BY <2>2
  <2>4. CASE i = 0
    BY <1>7, <2>3, <2>4
  <2>5. CASE i # 0
    <3>1. i - 1 \in 0 .. VerifyN /\ i \in Verifiers /\ i - 1 < i
      BY <1>2, <2>1, <2>3, <2>5
    <3>2. sum[i - 1] \in Int
      BY <2>2, <2>3, <3>1
    <3>3. sum[i] = sum[i - 1] + h[i] /\ h[i] \in Int
      BY <1>1, <1>7, <2>3, <2>5, <3>1
    <3> QED BY <2>3, <3>2, <3>3
  <2> QED BY <2>4, <2>5
<1>9. WeightedSum(v, m) \in Int
  BY <1>5, <1>8
<1>10. ASSUME Scored(v) # {} PROVE WeightedSum(v, m) \div Cardinality(Scored(v)) \in Int
  <2>1. IsFiniteSet(Verifiers)
    BY AttemptAssumption, FS_Interval DEF Verifiers
  <2>2. IsFiniteSet(Scored(v))
    BY <2>1, ScoredVerifiers, FS_Subset
  <2> DEFINE c == Cardinality(Scored(v))
  <2>3. c \in Nat /\ c # 0
    BY <1>10, <2>2, FS_EmptySet, FS_CardinalityType
  <2> HIDE DEF c
  <2>4. WeightedSum(v, m) \div c \in Int
    BY <1>9, <2>3
  <2> QED BY <2>4 DEF c
<1> QED BY <1>10 DEF FinalScore, NoScore

LEMMA AggregationType ==
  ASSUME NEW v \in Verdicts, NEW m \in Votes
  PROVE  Aggregation(v, m) \in Results
<1>1. FinalScore(v, m) \in Int
  BY ScoreIsAnInteger
<1>2. Critiques(v, m) \subseteq Verifiers
  BY ScoredVerifiers DEF Critiques
<1>3. StrictPass(v, m) \in BOOLEAN
  BY DEF StrictPass, AllPassed
<1> QED BY <1>1, <1>2, <1>3 DEF Aggregation, Results

LEMMA ReviewIsTask ==
  /\ \A i \in Verifiers : Review(i) \in VerifierTasks
  /\ \A t \in VerifierTasks : t.verifier \in Verifiers /\ t = Review(t.verifier)
  /\ VerifierTasks \subseteq Tasks
<1>1. 0 \in 0 .. MetaN
  BY AttemptAssumption
<1>2. QED
  BY <1>1 DEF Review, VerifierTasks, Tasks

LEMMA NothingYet ==
  <<>> \in Verdicts /\ DOMAIN <<>> = {} /\ NoVotes \in Votes
<1>1. DOMAIN <<>> = {}
  OBVIOUS
<1>2. <<>> \in [{} -> Answers]
  OBVIOUS
<1>3. {} \in SUBSET Verifiers
  OBVIOUS
<1>4. NoVotes \in Votes
  BY DEF NoVotes, Votes
<1>5. QED
  BY <1>1, <1>2, <1>3, <1>4 DEF Verdicts

(* A critique is a review that did not pass the proof.                     *)
LEMMA EnoughHasACritique ==
  ASSUME NEW v, NEW m, Enough(v, m)
  PROVE  \E i \in DOMAIN v : v[i] # Pass
<1>1. Critiques(v, m) # {}
  BY DEF Enough, Refinable, Aggregation
<1>2. PICK i \in Scored(v) : v[i] < Pass
  BY <1>1 DEF Critiques
<1>3. v[i] # Pass
  BY <1>2 DEF Pass
<1>4. QED
  BY <1>2, <1>3 DEF Scored

(* The tasks of a round are reviews, or votes on one of them.              *)
LEMMA MetaTasksOf ==
  /\ \A i \in Verifiers : MetaTasks(i) \subseteq Tasks /\ \A j : Review(j) \notin MetaTasks(i)
  /\ \A i, j \in Verifiers : i # j => MetaTasks(i) \intersect MetaTasks(j) = {}
  /\ \A t \in Tasks : t.meta # 0 => t.verifier \in Verifiers /\ t \in MetaTasks(t.verifier)
  /\ VerifierTasks \intersect UNION {MetaTasks(i) : i \in Verifiers} = {}
<1>1. MetaN \in Nat
  BY AttemptAssumption
<1> QED BY <1>1 DEF MetaTasks, Tasks, VerifierTasks, Review

LEMMA MetaTasksAreMetaN ==
  ASSUME NEW i \in Verifiers
  PROVE  IsFiniteSet(MetaTasks(i)) /\ Cardinality(MetaTasks(i)) = MetaN
<1> DEFINE f == [k \in 1 .. MetaN |-> [verifier |-> i, meta |-> k]]
<1>1. f \in Bijection(1 .. MetaN, MetaTasks(i))
  <2>1. f \in [1 .. MetaN -> MetaTasks(i)]
    BY DEF MetaTasks
  <2>2. \A j, k \in 1 .. MetaN : f[j] = f[k] => j = k
    OBVIOUS
  <2>3. \A t \in MetaTasks(i) : \E k \in 1 .. MetaN : f[k] = t
    <3>1. ASSUME NEW t \in MetaTasks(i) PROVE t.meta \in 1 .. MetaN /\ f[t.meta] = t
      BY DEF MetaTasks
    <3> QED BY <3>1
  <2> HIDE DEF f
  <2> QED BY <2>1, <2>2, <2>3 DEF Bijection, Injection, Surjection, IsInjective
<1> HIDE DEF f
<1>2. IsFiniteSet(1 .. MetaN) /\ Cardinality(1 .. MetaN) = MetaN
  BY AttemptAssumption, FS_Interval
<1>3. ExistsBijection(1 .. MetaN, MetaTasks(i))
  BY <1>1 DEF ExistsBijection
<1>4. IsFiniteSet(MetaTasks(i)) /\ Cardinality(MetaTasks(i)) = Cardinality(1 .. MetaN)
  BY <1>2, <1>3, FS_Bijection
<1> QED BY <1>2, <1>4

LEMMA FreshRoundInv ==
  ASSUME FreshRound
  PROVE  /\ pending' \subseteq Tasks /\ batch' \subseteq Tasks
         /\ verdicts' \in Verdicts /\ votes' \in Votes /\ stop' \in BOOLEAN
         /\ RoundInv' /\ VoteInv'
<1>1. RoundInv'
  BY ReviewIsTask, NothingYet DEF FreshRound, RoundInv
<1>2. VoteInv'
  <2>1. \A i \in Verifiers : VerifierTasks \intersect MetaTasks(i) = {} /\ All(NoVotes, i) = 0
    BY MetaTasksOf DEF NoVotes, All, Answers, Pass, NoScore
  <2> QED BY <2>1, NothingYet DEF FreshRound, VoteInv, Out
<1> QED BY <1>1, <1>2, ReviewIsTask, NothingYet DEF FreshRound

LEMMA InitIInv == Init => IInv
<1> SUFFICES ASSUME Init PROVE IInv
  OBVIOUS
<1>1. rounds \in Seq(Rounds) /\ DOMAIN rounds = {}
  BY NothingYet DEF Init
<1>2. Types
  BY <1>1, ReviewIsTask, NothingYet DEF Init, Types
<1>3. RoundInv
  BY ReviewIsTask, NothingYet DEF Init, RoundInv
<1>4. VoteInv
  <2>1. \A i \in Verifiers : VerifierTasks \intersect MetaTasks(i) = {} /\ All(NoVotes, i) = 0
    BY MetaTasksOf DEF NoVotes, All, Answers, Pass, NoScore
  <2> QED BY <2>1, NothingYet DEF Init, VoteInv, Out
<1>5. AttemptInv
  BY <1>1 DEF Init, AttemptInv
<1>6. StrictPassIsUnanimous /\ RoundIsComplete
  BY <1>1 DEF StrictPassIsUnanimous, RoundIsComplete
<1>7. QED
  BY <1>2, <1>3, <1>4, <1>5, <1>6 DEF IInv

-----------------------------------------------------------------------------
(* What the steps of a round leave alone, they leave invariant.            *)
LEMMA SameRounds ==
  ASSUME IInv, UNCHANGED <<pc, proof, rounds, best>>
  PROVE  AttemptInv' /\ StrictPassIsUnanimous' /\ RoundIsComplete'
<1>1. AttemptInv'
  BY DEF IInv, AttemptInv
<1>2. StrictPassIsUnanimous' /\ RoundIsComplete'
  BY DEF IInv, StrictPassIsUnanimous, RoundIsComplete
<1>3. QED
  BY <1>1, <1>2

LEMMA WaitInv == IInv /\ Wait => IInv'
<1> SUFFICES ASSUME IInv, Wait PROVE IInv'
  OBVIOUS
<1>1. Types'
  BY DEF IInv, Types, Wait
<1>2. pending' \union batch' = pending \union batch /\ pending' \intersect batch' = {}
  BY DEF Wait
<1>3. RoundInv'
  BY <1>2 DEF IInv, RoundInv, Wait
<1>4. VoteInv'
  BY <1>2 DEF IInv, VoteInv, Out, Wait
<1>5. QED
  BY <1>1, <1>3, <1>4, SameRounds DEF IInv, Wait

(* A review that is taken sends its votes out; the other votes stay.       *)
LEMMA TakeReviewVotes ==
  ASSUME IInv, NEW t \in batch, TakeReview(t)
  PROVE  VoteInv'
<1> DEFINE i == t.verifier
<1>1. t \in VerifierTasks /\ i \in Verifiers /\ t = Review(i)
  <2>1. t \in VerifierTasks
    BY DEF IInv, Types, TakeReview, Tasks, VerifierTasks
  <2>2. QED
    BY <2>1, ReviewIsTask
<1>2. PICK s \in Answers :
        /\ verdicts' = [j \in DOMAIN verdicts \union {i} |-> IF j = i THEN s ELSE verdicts[j]]
        /\ Proceed(t, IF NeedsMeta(s) THEN MetaTasks(i) ELSE {})
  BY DEF TakeReview
<1> DEFINE added == IF NeedsMeta(s) THEN MetaTasks(i) ELSE {}
<1>3. votes' = votes /\ DOMAIN verdicts' = DOMAIN verdicts \union {i} /\ i \notin DOMAIN verdicts
  BY <1>1, <1>2 DEF TakeReview, IInv, RoundInv
<1>4. Out(i) = {} /\ All(votes, i) = 0
  BY <1>1, <1>3 DEF IInv, VoteInv
<1>5. (pending' \union batch') \subseteq ((pending \union batch) \ {t}) \union added
  BY <1>2 DEF Proceed, IInv, RoundInv
<1>6. ~stop' => ~stop /\ pending' \union batch' = ((pending \union batch) \ {t}) \union added
  BY <1>2 DEF Proceed, IInv, RoundInv
<1>7. \A j \in Verifiers : t \notin MetaTasks(j) /\ (j # i => added \intersect MetaTasks(j) = {})
  BY <1>1, MetaTasksOf
<1>8. added \intersect MetaTasks(i) = added
  OBVIOUS
<1> HIDE DEF added, i
<1>9. \A j \in Verifiers \ DOMAIN verdicts' : Out(j)' = {} /\ All(votes', j) = 0
  BY <1>3, <1>5, <1>7 DEF IInv, VoteInv, Out
<1>10. ASSUME ~stop', NEW j \in DOMAIN verdicts', NeedsMeta(verdicts'[j])
       PROVE  All(votes', j) + Cardinality(Out(j)') = MetaN
  <2>1. CASE j = i
    <3>1. verdicts'[j] = s
      BY <1>2, <1>3, <2>1 DEF i
    <3>2. added = MetaTasks(i)
      BY <1>10, <2>1, <3>1 DEF added
    <3>3. Out(i)' = MetaTasks(i)
      BY <1>1, <1>4, <1>6, <1>7, <1>8, <1>10, <3>2 DEF Out
    <3> QED BY <1>1, <1>3, <1>4, <2>1, <3>3, MetaTasksAreMetaN, AttemptAssumption
  <2>2. CASE j # i
    <3>1. j \in DOMAIN verdicts /\ j \in Verifiers /\ verdicts'[j] = verdicts[j]
      <4>1. DOMAIN verdicts \subseteq Verifiers
        BY DEF IInv, Types, Verdicts
      <4> QED BY <1>2, <1>3, <1>10, <2>2, <4>1 DEF i
    <3>2. Out(j)' = Out(j)
      BY <1>6, <1>7, <1>10, <2>2, <3>1 DEF Out
    <3> QED BY <1>3, <1>6, <1>10, <3>1, <3>2 DEF IInv, VoteInv
  <2> QED BY <2>1, <2>2
<1> QED BY <1>9, <1>10 DEF VoteInv

(* A vote that is taken is counted.                                        *)
LEMMA TakeVoteVotes ==
  ASSUME IInv, NEW t \in batch, TakeVote(t)
  PROVE  VoteInv'
<1> DEFINE i == t.verifier
<1>1. t \in MetaTasks(i) /\ i \in Verifiers /\ t \notin pending
  BY MetaTasksOf DEF IInv, Types, RoundInv, TakeVote
<1>2. i \in DOMAIN verdicts /\ t \in Out(i)
  BY <1>1 DEF IInv, VoteInv, Out
<1>3. verdicts' = verdicts /\ Proceed(t, {})
  BY DEF TakeVote
<1>4. /\ All(votes', i) = All(votes, i) + 1
      /\ \A j \in Verifiers : j # i => All(votes', j) = All(votes, j)
  <2>1. PICK s \in Answers : votes' = [votes EXCEPT ![i][s] = @ + 1]
    BY DEF TakeVote
  <2>2. votes \in [Verifiers -> [Answers -> Nat]]
    BY DEF IInv, Types, Votes
  <2>3. votes'[i] = [votes[i] EXCEPT ![s] = @ + 1] /\ \A j \in Verifiers : j # i => votes'[j] = votes[j]
    BY <1>1, <2>1, <2>2
  <2>4. \A a \in Answers : votes'[i][a] = (IF a = s THEN votes[i][a] + 1 ELSE votes[i][a])
    BY <1>1, <2>2, <2>3
  <2>5. \A a \in Answers : votes[i][a] \in Nat
    BY <1>1, <2>2
  <2> QED BY <2>3, <2>4, <2>5 DEF All, Answers, Pass, NoScore
<1>5. (pending' \union batch') \subseteq (pending \union batch) \ {t}
  BY <1>1, <1>3 DEF Proceed
<1>6. ~stop' => ~stop /\ pending' \union batch' = (pending \union batch) \ {t}
  BY <1>1, <1>3 DEF Proceed
<1> HIDE DEF i
<1>7. \A j \in Verifiers \ DOMAIN verdicts' : Out(j)' = {} /\ All(votes', j) = 0
  BY <1>2, <1>3, <1>4, <1>5 DEF IInv, VoteInv, Out
<1>8. ASSUME ~stop', NEW j \in DOMAIN verdicts', NeedsMeta(verdicts'[j])
      PROVE  All(votes', j) + Cardinality(Out(j)') = MetaN
  <2>1. j \in Verifiers
    <3>1. DOMAIN verdicts \subseteq Verifiers
      BY DEF IInv, Types, Verdicts
    <3> QED BY <1>3, <1>8, <3>1
  <2>2. All(votes, j) + Cardinality(Out(j)) = MetaN /\ All(votes, j) \in Nat
    BY <1>3, <1>6, <1>8, <2>1 DEF IInv, VoteInv, Types, Votes, All, Answers, Pass, NoScore
  <2>3. CASE j = i
    <3>1. Out(j)' = Out(j) \ {t}
      BY <1>6, <1>8 DEF Out
    <3>2. IsFiniteSet(Out(j))
      BY <2>1, MetaTasksAreMetaN, FS_Subset DEF Out
    <3>3. Cardinality(Out(j)') = Cardinality(Out(j)) - 1 /\ Cardinality(Out(j)) \in Nat
      BY <1>2, <2>3, <3>1, <3>2, FS_RemoveElement, FS_CardinalityType
    <3> QED BY <1>4, <2>2, <2>3, <3>3
  <2>4. CASE j # i
    <3>1. Out(j)' = Out(j)
      BY <1>1, <1>6, <1>8, <2>1, <2>4, MetaTasksOf DEF Out
    <3> QED BY <1>4, <2>1, <2>2, <2>4, <3>1
  <2> QED BY <2>3, <2>4
<1> QED BY <1>7, <1>8 DEF VoteInv

LEMMA TakeReviewInv ==
  ASSUME IInv, NEW t \in batch, TakeReview(t)
  PROVE  IInv'
<1> DEFINE i == t.verifier
<1>1. t \in VerifierTasks /\ i \in Verifiers /\ t = Review(i)
  <2>1. t \in VerifierTasks
    BY DEF IInv, Types, TakeReview, Tasks, VerifierTasks
  <2>2. QED
    BY <2>1, ReviewIsTask
<1>2. PICK s \in Answers, added \in SUBSET MetaTasks(i) :
        /\ verdicts' = [j \in DOMAIN verdicts \union {i} |-> IF j = i THEN s ELSE verdicts[j]]
        /\ Proceed(t, added)
  BY DEF TakeReview
<1>3. \A a \in added : a \in Tasks /\ \A j : a # Review(j)
  BY <1>1, <1>2, AttemptAssumption DEF MetaTasks, Tasks, Review
<1>4. verdicts' \in Verdicts /\ DOMAIN verdicts' = DOMAIN verdicts \union {i}
  <2>1. PICK D \in SUBSET Verifiers : verdicts \in [D -> Answers]
    BY DEF IInv, Types, Verdicts
  <2>2. DOMAIN verdicts = D
    BY <2>1
  <2>3. verdicts' \in [D \union {i} -> Answers]
    BY <1>2, <2>1, <2>2
  <2>4. D \union {i} \in SUBSET Verifiers
    BY <1>1
  <2>5. QED
    BY <2>2, <2>3, <2>4 DEF Verdicts
<1>5. i \notin DOMAIN verdicts
  BY <1>1 DEF IInv, RoundInv
<1>6. \A j \in DOMAIN verdicts : verdicts'[j] = verdicts[j]
  BY <1>2, <1>5
<1>7. Types'
  <2>1. batch' \subseteq Tasks /\ pending' \subseteq Tasks
    BY <1>2, <1>3 DEF IInv, Types, Proceed
  <2>2. stop' \in BOOLEAN
    BY <1>2 DEF Proceed
  <2>3. QED
    BY <1>2, <1>4, <2>1, <2>2 DEF IInv, Types, Proceed, TakeReview
<1>8. RoundInv'
  <2>1. pending' \intersect batch' = {}
    <3>1. added \intersect (pending \union batch) = {}
      BY <1>1, <1>2, <1>5 DEF IInv, VoteInv, Out
    <3> QED BY <1>2, <3>1 DEF IInv, RoundInv, Proceed
  <2>2. ASSUME NEW j \in DOMAIN verdicts' PROVE Review(j) \notin pending' \union batch'
    BY <1>1, <1>2, <1>3, <1>4 DEF IInv, RoundInv, Proceed
  <2>3. ASSUME ~stop', NEW j \in Verifiers \ DOMAIN verdicts'
        PROVE  Review(j) \in pending' \union batch'
    <3>1. ~stop /\ pending' = pending \union added /\ batch' = batch \ {t}
      BY <1>2, <2>3 DEF Proceed
    <3>2. Review(j) \in pending \union batch
      BY <1>4, <2>3, <3>1 DEF IInv, RoundInv
    <3>3. Review(j) # t
      BY <1>1, <1>4, <2>3 DEF Review
    <3>4. QED
      BY <3>1, <3>2, <3>3
  <2>4. ASSUME stop' PROVE \E j \in DOMAIN verdicts' : verdicts'[j] # Pass
    BY <1>2, <1>4, <1>6, <2>4, EnoughHasACritique DEF IInv, RoundInv, Proceed
  <2>5. QED
    BY <2>1, <2>2, <2>3, <2>4 DEF RoundInv
<1>9. QED
  BY <1>2, <1>7, <1>8, TakeReviewVotes, SameRounds DEF IInv, Proceed

LEMMA TakeVoteInv ==
  ASSUME IInv, NEW t \in batch, TakeVote(t)
  PROVE  IInv'
<1>1. \A j : t # Review(j)
  BY DEF TakeVote, Review
<1>2. Proceed(t, {}) /\ verdicts' = verdicts
  BY DEF TakeVote
<1>3. votes' \in Votes
  <2>1. PICK s \in Answers : votes' = [votes EXCEPT ![t.verifier][s] = @ + 1]
    BY DEF TakeVote
  <2>2. t.verifier \in Verifiers
    BY DEF IInv, Types, Tasks
  <2>3. QED
    BY <2>1, <2>2 DEF IInv, Types, Votes
<1>4. Types'
  <2>1. batch' \subseteq Tasks /\ pending' \subseteq Tasks /\ stop' \in BOOLEAN
    BY <1>2 DEF IInv, Types, Proceed
  <2>2. QED
    BY <1>2, <1>3, <2>1 DEF IInv, Types, Proceed
<1>5. RoundInv'
  <2>1. pending' \intersect batch' = {}
    BY <1>2 DEF IInv, RoundInv, Proceed
  <2>2. ASSUME NEW j \in DOMAIN verdicts' PROVE Review(j) \notin pending' \union batch'
    BY <1>2 DEF IInv, RoundInv, Proceed
  <2>3. ASSUME ~stop', NEW j \in Verifiers \ DOMAIN verdicts'
        PROVE  Review(j) \in pending' \union batch'
    <3>1. ~stop /\ pending' = pending /\ batch' = batch \ {t}
      BY <1>2, <2>3 DEF Proceed
    <3>2. QED
      BY <1>1, <1>2, <2>3, <3>1 DEF IInv, RoundInv
  <2>4. ASSUME stop' PROVE \E j \in DOMAIN verdicts' : verdicts'[j] # Pass
    BY <1>2, <2>4, EnoughHasACritique DEF IInv, RoundInv, Proceed
  <2>5. QED
    BY <2>1, <2>2, <2>3, <2>4 DEF RoundInv
<1>6. QED
  BY <1>2, <1>4, <1>5, TakeVoteVotes, SameRounds DEF IInv, Proceed

(* The round is over: a strict pass excludes that it ended early, and one  *)
(* that did not end early has every review.                                *)
LEMMA EndRoundInv ==
  ASSUME IInv, EndRound
  PROVE  IInv'
<1> DEFINE a == Aggregation(verdicts, votes)
           r == [proof |-> proof, verdicts |-> verdicts, votes |-> votes,
                 stop |-> stop, result |-> a]
<1>1. /\ rounds' = Append(rounds, r)
      /\ best' = IF Better(a) THEN Len(rounds) + 1 ELSE best
      /\ pc' = IF ShouldRefine(a) THEN "refine" ELSE "done"
      /\ UNCHANGED <<proof, roundVars>>
      /\ pending = {} /\ batch = {}
  BY DEF EndRound
<1>2. r \in Rounds
  <2>1. a \in Results
    BY AggregationType DEF IInv, Types
  <2>2. QED
    BY <2>1 DEF IInv, Types, Rounds
<1>3. /\ rounds' \in Seq(Rounds)
      /\ Len(rounds') = Len(rounds) + 1
      /\ rounds'[Len(rounds')] = r
      /\ \A k \in DOMAIN rounds : rounds'[k] = rounds[k]
      /\ DOMAIN rounds' = DOMAIN rounds \union {Len(rounds')}
  BY <1>1, <1>2 DEF IInv, Types
<1>4. Types'
  BY <1>1, <1>3 DEF IInv, Types, roundVars
<1>5. RoundInv' /\ VoteInv'
  <2>1. UNCHANGED roundVars
    BY <1>1
  <2> QED BY <2>1 DEF IInv, RoundInv, VoteInv, Out, All, roundVars
<1>6. AttemptInv'
  <2>1. rounds' # <<>>
    BY <1>3 DEF IInv, Types
  <2>2. best' \in 1 .. Len(rounds')
    <3>1. CASE Better(a)
      BY <1>1, <1>3, <3>1 DEF IInv, Types
    <3>2. CASE ~Better(a)
      <4>1. best # 0 /\ best' = best
        BY <1>1, <3>2 DEF Better
      <4>2. QED
        BY <1>3, <4>1 DEF IInv, Types, AttemptInv
    <3>3. QED
      BY <3>1, <3>2
  <2>3. rounds'[Len(rounds')].proof = proof'
    BY <1>1, <1>3
  <2>4. pc' = "refine" => Len(rounds') <= RefineRounds
    <3>1. Len(rounds) \in Nat /\ RefineRounds \in Nat
      BY AttemptAssumption DEF IInv, Types
    <3>2. QED
      BY <1>1, <1>3, <3>1 DEF ShouldRefine
  <2>5. ASSUME NEW k \in DOMAIN rounds'
        PROVE  rounds'[best'].result.score >= rounds'[k].result.score
    <3>1. a.score \in Int
      <4>1. a \in Results
        BY AggregationType DEF IInv, Types
      <4> QED BY <4>1 DEF Results
    <3>2. \A j \in DOMAIN rounds : rounds[j].result.score \in Int
      <4>1. \A j \in DOMAIN rounds : rounds[j] \in Rounds
        BY ElementOfSeq DEF IInv, Types
      <4> QED BY <4>1 DEF Rounds, Results
    <3>3. /\ DOMAIN rounds = 1 .. Len(rounds) /\ Len(rounds) \in Nat
          /\ rounds # <<>> => best \in DOMAIN rounds
          /\ \A j \in DOMAIN rounds : rounds # <<>> /\ rounds[best].result.score >= rounds[j].result.score
      <4>1. rounds = <<>> => DOMAIN rounds = {}
        OBVIOUS
      <4> QED BY <4>1 DEF IInv, Types, AttemptInv
    <3>4. rounds'[Len(rounds')].result = a /\ (k = Len(rounds') \/ k \in DOMAIN rounds)
      BY <1>3
    <3> HIDE DEF a, r
    <3>5. CASE Better(a)
      <4>1. best' = Len(rounds')
        BY <1>1, <1>3, <3>5
      <4>2. ASSUME NEW j \in DOMAIN rounds PROVE a.score >= rounds[j].result.score
        <5>1. best \in DOMAIN rounds /\ best # 0
          BY <3>3
        <5>2. a.score >= rounds[best].result.score
          BY <3>5, <5>1 DEF Better
        <5> QED BY <3>1, <3>2, <3>3, <5>1, <5>2
      <4> QED BY <1>3, <3>1, <3>4, <4>1, <4>2
    <3>6. CASE ~Better(a)
      <4>1. best # 0 /\ best' = best /\ ~(a.score >= rounds[best].result.score)
        BY <1>1, <3>6 DEF Better
      <4>2. best \in DOMAIN rounds
        BY <3>3, <4>1 DEF IInv, AttemptInv
      <4> QED BY <1>3, <3>1, <3>2, <3>3, <3>4, <4>1, <4>2
    <3> QED BY <3>5, <3>6
  <2>6. QED
    BY <2>1, <2>2, <2>3, <2>4, <2>5 DEF AttemptInv
<1>7. StrictPassIsUnanimous'
  <2>1. ASSUME a.strict, NEW i \in Verifiers PROVE i \in DOMAIN verdicts /\ verdicts[i] = Pass
    <3>1. \A j \in DOMAIN verdicts : verdicts[j] = Pass
      BY <2>1 DEF Aggregation, StrictPass, AllPassed
    <3>2. ~stop
      BY <3>1 DEF IInv, RoundInv
    <3>3. i \in DOMAIN verdicts
      BY <1>1, <3>2 DEF IInv, RoundInv
    <3>4. QED
      BY <3>1, <3>3
  <2>2. ASSUME NEW k \in DOMAIN rounds', rounds'[k].result.strict, NEW i \in Verifiers
        PROVE  i \in DOMAIN rounds'[k].verdicts /\ rounds'[k].verdicts[i] = Pass
    <3>1. CASE k \in DOMAIN rounds
      BY <1>3, <2>2, <3>1 DEF IInv, StrictPassIsUnanimous
    <3>2. CASE k = Len(rounds')
      BY <1>3, <2>1, <2>2, <3>2
    <3>3. QED
      BY <1>3, <3>1, <3>2
  <2>3. QED
    BY <2>2 DEF StrictPassIsUnanimous
<1>8. RoundIsComplete'
  <2>1. ASSUME ~stop
        PROVE  /\ DOMAIN verdicts = Verifiers
               /\ \A i \in Verifiers : NeedsMeta(verdicts[i]) => All(votes, i) = MetaN
    <3>1. DOMAIN verdicts \subseteq Verifiers
      BY DEF IInv, Types, Verdicts
    <3>2. DOMAIN verdicts = Verifiers
      BY <1>1, <2>1, <3>1 DEF IInv, RoundInv
    <3>3. \A i : Out(i) = {}
      BY <1>1 DEF Out
    <3>4. ASSUME NEW i \in Verifiers, NeedsMeta(verdicts[i]) PROVE All(votes, i) = MetaN
      <4>1. All(votes, i) + 0 = MetaN
        BY <2>1, <3>2, <3>3, <3>4, FS_EmptySet DEF IInv, VoteInv
      <4>2. All(votes, i) \in Nat
        BY DEF IInv, Types, Votes, All, Answers, Pass, NoScore
      <4> QED BY <4>1, <4>2
    <3> QED BY <3>2, <3>4
  <2>2. ASSUME NEW k \in DOMAIN rounds', ~rounds'[k].stop
        PROVE  /\ DOMAIN rounds'[k].verdicts = Verifiers
               /\ \A i \in Verifiers :
                    NeedsMeta(rounds'[k].verdicts[i]) => All(rounds'[k].votes, i) = MetaN
    <3>1. CASE k \in DOMAIN rounds
      BY <1>3, <2>2, <3>1 DEF IInv, RoundIsComplete
    <3>2. CASE k = Len(rounds')
      <4>1. rounds'[k] = r
        BY <1>3, <3>2
      <4>2. ~stop /\ r.verdicts = verdicts /\ r.votes = votes
        BY <2>2, <4>1
      <4> HIDE DEF r
      <4> QED BY <2>1, <4>1, <4>2
    <3> QED BY <1>3, <3>1, <3>2
  <2> QED BY <2>2 DEF RoundIsComplete
<1>9. QED
  BY <1>4, <1>5, <1>6, <1>7, <1>8 DEF IInv

LEMMA RefineInv ==
  ASSUME IInv, Refine
  PROVE  IInv'
<1>1. StrictPassIsUnanimous' /\ RoundIsComplete'
  BY DEF IInv, StrictPassIsUnanimous, RoundIsComplete, Refine
<1>2. CASE proof' = proof + 1 /\ pc' = "verify" /\ FreshRound
  <2>1. Types'
    BY <1>2, FreshRoundInv DEF IInv, Types, Refine
  <2>2. RoundInv' /\ VoteInv'
    BY <1>2, FreshRoundInv
  <2>3. AttemptInv'
    BY <1>2 DEF IInv, AttemptInv, Refine
  <2>4. QED
    BY <1>1, <2>1, <2>2, <2>3 DEF IInv
<1>3. CASE pc' \in {"done", "failed"} /\ UNCHANGED <<proof, roundVars>>
  <2>1. Types'
    BY <1>3 DEF IInv, Types, Refine, roundVars
  <2>2. RoundInv' /\ VoteInv'
    BY <1>3 DEF IInv, RoundInv, VoteInv, Out, All, Refine, roundVars
  <2>3. AttemptInv'
    BY <1>3 DEF IInv, AttemptInv, Refine
  <2>4. QED
    BY <1>1, <2>1, <2>2, <2>3 DEF IInv
<1>4. QED
  <2>1. Len(rounds) <= RefineRounds
    BY DEF IInv, AttemptInv, Refine
  <2>2. QED
    BY <1>2, <1>3, <2>1 DEF Refine

LEMMA NextIInv == IInv /\ [Next]_vars => IInv'
<1> SUFFICES ASSUME IInv, [Next]_vars PROVE IInv'
  OBVIOUS
<1>1. CASE Wait
  BY <1>1, WaitInv
<1>2. ASSUME NEW t \in batch, TakeReview(t) PROVE IInv'
  BY <1>2, TakeReviewInv
<1>3. ASSUME NEW t \in batch, TakeVote(t) PROVE IInv'
  BY <1>3, TakeVoteInv
<1>4. CASE EndRound
  BY <1>4, EndRoundInv
<1>5. CASE Refine
  BY <1>5, RefineInv
<1>6. CASE UNCHANGED vars
  <2>1. Types' /\ RoundInv' /\ VoteInv'
    BY <1>6 DEF IInv, Types, RoundInv, VoteInv, Out, All, vars, roundVars
  <2>2. QED
    BY <1>6, <2>1, SameRounds DEF IInv, vars
<1>7. QED
  BY <1>1, <1>2, <1>3, <1>4, <1>5, <1>6 DEF Next

(* An attempt keeps its invariant, in any order and batching of results.   *)
THEOREM AttemptInductive == Spec => []IInv
  BY InitIInv, NextIInv, PTL DEF Spec

-----------------------------------------------------------------------------
(* For any number of verifiers, votes and rounds, a strict pass is the     *)
(* verdict of every verifier that was asked.                               *)
THEOREM StrictIsUnanimous == Spec => []StrictPassIsUnanimous
<1>1. IInv => StrictPassIsUnanimous
  BY DEF IInv
<1>2. QED
  BY <1>1, AttemptInductive, PTL

(* For any number of rounds, what an attempt returns is a proof it has     *)
(* verified, with that verification.                                       *)
THEOREM ReturnsAVerifiedProof == Spec => []ReturnedProofWasVerified
<1>1. IInv => ReturnedProofWasVerified
  <2> SUFFICES ASSUME IInv, pc = "done"
               PROVE  \E r \in DOMAIN rounds :
                        rounds[r].proof = Returned.proof /\ rounds[r].result = Returned.result
    BY DEF ReturnedProofWasVerified
  <2>1. /\ rounds \in Seq(Rounds) /\ rounds # <<>>
        /\ best \in 1 .. Len(rounds)
        /\ rounds[Len(rounds)].proof = proof
    BY DEF IInv, Types, AttemptInv
  <2>2. best \in DOMAIN rounds /\ Len(rounds) \in DOMAIN rounds
    BY <2>1
  <2>3. CASE best # Len(rounds)
    BY <2>2, <2>3 DEF Returned
  <2>4. CASE best = Len(rounds)
    BY <2>1, <2>2, <2>4 DEF Returned
  <2>5. QED
    BY <2>3, <2>4
<1>2. QED
  BY <1>1, AttemptInductive, PTL

(* For any number of verifiers and votes, a round that is not ended early  *)
(* has taken every review and every vote it asked for.                     *)
THEOREM RoundTakesEverything == Spec => []RoundIsComplete
<1>1. IInv => RoundIsComplete
  BY DEF IInv
<1>2. QED
  BY <1>1, AttemptInductive, PTL

(* For any number of rounds and any scores, an attempt returns a result    *)
(* that no round of it beats: a refinement never costs a score.            *)
THEOREM RefinementNeverCosts == Spec => []KeepsTheBest
<1>1. IInv => KeepsTheBest
  <2> SUFFICES ASSUME IInv, pc = "done", NEW r \in DOMAIN rounds
               PROVE  Returned.result.score >= rounds[r].result.score
    BY DEF KeepsTheBest
  <2>1. Returned.result = rounds[best].result
    BY DEF Returned
  <2>2. rounds[best].result.score >= rounds[r].result.score
    BY DEF IInv, AttemptInv
  <2> QED BY <2>1, <2>2
<1>2. QED
  BY <1>1, AttemptInductive, PTL
=============================================================================
