-------------------------- MODULE ProofGroup_proofs --------------------------
(***************************************************************************)
(* Proofs about ProofGroup, for every group size, quota and score set.     *)
(***************************************************************************)
EXTENDS ProofGroup, FiniteSetTheorems, TLAPS

-----------------------------------------------------------------------------
(* Type correctness.                                                       *)

GateRecord == [valid : BOOLEAN, fmt : Nat, quality : {-1} \union Qualities]
PoolEntry == [src : Candidates, round : Nat, fmt : Nat, sum : Nat]
Payload == [reward : Nat, round : Nat \union {NoRound}]

(* The sleepers' program counters stay program counters when all of them   *)
(* are notified.                                                           *)
LEMMA NotifyAllType ==
  ASSUME NEW p \in [Candidates -> PC]
  PROVE  NotifyAll(p) \in [Candidates -> PC]
  BY DEF NotifyAll, PC

LEMMA CallStopType ==
  ASSUME NEW p \in [Candidates -> PC], NEW c \in Candidates
  PROVE  Call(p, c) \in [Candidates -> PC] /\ Stop(p, c) \in [Candidates -> PC]
  BY DEF Call, Stop, PC

LEMMA GenerationType ==
  ASSUME NEW gen \in Generations
  PROVE  gen.valid \in BOOLEAN /\ gen.fmt \in Nat
<1>1. gen.valid \in BOOLEAN
  BY DEF Generations
<1>2. gen.fmt \in FormatScores \union {0}
  BY DEF Generations
<1>3. \A s \in FormatScores : s \in Nat
  BY GroupAssumption
<1>4. gen.fmt \in Nat
  BY <1>2, <1>3
<1>5. QED
  BY <1>1, <1>4

LEMMA ScoreType ==
  ASSUME NEW s \in Scores
  PROVE  s \in Nat /\ 2 * s \in Nat
<1>1. s \in 0 .. 2
  BY GroupAssumption
<1>2. QED
  BY <1>1

LEMMA ReadType ==
  ASSUME NEW w \in Work, NEW v \in BOOLEAN, NEW f \in Nat
  PROVE  [w EXCEPT !.valid = v, !.fmt = f] \in Work
  BY DEF Work

LEMMA AfterGateType ==
  ASSUME TypeOK, NEW c \in Candidates, NEW p \in [Candidates -> PC], NEW w \in Work,
         NEW chosen \in BOOLEAN, AfterGate(c, p, w, chosen)
  PROVE  /\ pc' \in [Candidates -> PC]
         /\ stage' \in [Candidates -> Stages]
         /\ work' \in [Candidates -> Work]
         /\ payload' \in [Candidates -> Payload]
<1> DEFINE entry == [fmt |-> IF w.valid THEN w.fmt ELSE 0, sum |-> 0]
<1>1. entry \in Round
  BY DEF Work, Round
<1>2. [w EXCEPT !.rounds = Append(@, entry)] \in Work
  <2>1. Append(w.rounds, entry) \in Seq(Round)
    BY <1>1 DEF Work
  <2>2. QED
    BY <2>1 DEF Work
<1>3. StartVerification(w) \in Work
  BY DEF StartVerification, Work
<1>4. [reward |-> 0, round |-> w.round] \in Payload
  BY DEF Payload, Work
<1>5. CASE w.valid /\ chosen /\ w.continue
  <2>1. /\ pc' = Call(p, c)
        /\ stage' = [stage EXCEPT ![c] = "verifier"]
        /\ work' = [work EXCEPT ![c] = StartVerification(w)]
        /\ payload' = payload
    BY <1>5 DEF AfterGate
  <2>2. pc' \in [Candidates -> PC]
    BY <2>1, CallStopType
  <2>3. stage' \in [Candidates -> Stages]
    BY <2>1 DEF TypeOK, Stages
  <2>4. work' \in [Candidates -> Work]
    BY <1>3, <2>1 DEF TypeOK
  <2>5. QED
    BY <2>1, <2>2, <2>3, <2>4 DEF TypeOK, Payload
<1>6. CASE ~(w.valid /\ chosen /\ w.continue)
  <2>1. /\ pc' = Stop(p, c)
        /\ stage' = stage
        /\ work' = [work EXCEPT ![c] = [w EXCEPT !.rounds = Append(@, entry)]]
        /\ payload' = [payload EXCEPT ![c] = [reward |-> 0, round |-> w.round]]
    BY <1>6 DEF AfterGate
  <2>2. pc' \in [Candidates -> PC]
    BY <2>1, CallStopType
  <2>3. work' \in [Candidates -> Work]
    BY <1>2, <2>1 DEF TypeOK
  <2>4. payload' \in [Candidates -> Payload]
    BY <1>4, <2>1 DEF TypeOK, Payload
  <2>5. QED
    BY <2>1, <2>2, <2>3, <2>4 DEF TypeOK
<1>7. QED
  BY <1>5, <1>6

LEMMA SubmitGateRecordType ==
  ASSUME TypeOK, NEW c \in Candidates, NEW rec \in GateRecord, SubmitGateRecord(c, rec)
  PROVE  /\ recorded' \subseteq Candidates
         /\ records' \in [Candidates -> GateRecord]
         /\ gateOpen' \in BOOLEAN
         /\ selected' \subseteq Candidates
  BY DEF SubmitGateRecord, TypeOK, GateRecord, Choose, Valid

LEMMA OwnEntriesType ==
  ASSUME NEW c \in Candidates, NEW w \in Work
  PROVE  OwnEntries(c, w) \subseteq PoolEntry
<1>1. w.rounds \in Seq(Round)
  BY DEF Work
<1>2. ASSUME NEW i \in DOMAIN w.rounds
      PROVE  Entry(c, w, i) \in PoolEntry
  <2>1. i \in Nat \ {0} /\ w.rounds[i] \in Round
    BY <1>1
  <2>2. QED
    BY <2>1 DEF Entry, PoolEntry, Round
<1>3. QED
  BY <1>2 DEF OwnEntries, UsableRounds

(* The pool holds rounds of candidates that handed in their rounds.        *)
LEMMA GroupPoolType ==
  ASSUME NEW recs, NEW wk \in [Candidates -> Work], NEW in \in SUBSET Candidates, NEW failed
  PROVE  GroupPool(recs, wk, in, failed) \subseteq PoolEntry
<1>1. ASSUME NEW c \in Candidates
      PROVE  OwnEntries(c, wk[c]) \subseteq PoolEntry
  BY OwnEntriesType
<1>2. QED
  BY <1>1 DEF GroupPool, Top, First

LEMMA LeadersType ==
  ASSUME NEW recs, NEW entries \in SUBSET PoolEntry, NEW chosen \in SUBSET Candidates
  PROVE  Leaders(recs, entries, chosen) \subseteq Candidates \union {NoLeader}
  BY DEF Leaders, First, Least, PoolEntry

LEMMA SubmitSelectorRecordType ==
  ASSUME TypeOK, NEW c \in Candidates, NEW wk \in [Candidates -> Work],
         NEW failed \in BOOLEAN, SubmitSelectorRecord(c, wk, failed)
  PROVE  /\ selIn' \subseteq Candidates
         /\ selFailed' \subseteq Candidates
         /\ poolOpen' \in BOOLEAN
         /\ pool' \subseteq PoolEntry
         /\ leader' \in Candidates \union {NoLeader}
<1>1. selIn' \subseteq Candidates /\ selFailed' \subseteq Candidates
  BY DEF SubmitSelectorRecord, TypeOK
<1>2. pool' \subseteq PoolEntry
  BY <1>1, GroupPoolType DEF SubmitSelectorRecord, TypeOK, PoolEntry
<1>3. leader' \in Candidates \union {NoLeader}
  BY <1>2, LeadersType DEF SubmitSelectorRecord, TypeOK
<1>4. poolOpen' \in BOOLEAN
  BY DEF SubmitSelectorRecord, TypeOK
<1>5. QED
  BY <1>1, <1>2, <1>3, <1>4

LEMMA ConcludeGroupType ==
  ASSUME stage \in [Candidates -> Stages], NEW c \in Candidates,
         NEW p \in [Candidates -> PC], NEW lead, NEW entries,
         ConcludeGroup(c, p, lead, entries)
  PROVE  pc' \in [Candidates -> PC] /\ stage' \in [Candidates -> Stages]
<1>1. CASE c = lead /\ entries # {}
  BY <1>1, CallStopType DEF ConcludeGroup, Stages
<1>2. CASE ~(c = lead /\ entries # {})
  BY <1>2, CallStopType DEF ConcludeGroup
<1>3. QED
  BY <1>1, <1>2

LEMMA FinishCandidateType ==
  ASSUME TypeOK, NEW c \in Candidates, NEW w \in Work, NEW pl \in Payload,
         FinishCandidate(c, w, pl)
  PROVE  TypeOK'
<1>1. work' \in [Candidates -> Work] /\ payload' \in [Candidates -> Payload]
  BY DEF FinishCandidate, TypeOK, Payload
<1>2. UNCHANGED groupVars
  BY DEF FinishCandidate
<1>3. CASE ~SelectorEnabled \/ ~Gated
  <2>1. UNCHANGED selectorVars
    BY <1>3 DEF FinishCandidate
  <2>2. \/ pc' = Stop(pc, c) /\ UNCHANGED stage
        \/ pc' = Call(pc, c) /\ stage' = [stage EXCEPT ![c] = "selector"]
    BY <1>3 DEF FinishCandidate
  <2>3. pc' \in [Candidates -> PC]
    BY <2>2, CallStopType DEF TypeOK
  <2>4. stage' \in [Candidates -> Stages]
    BY <2>2 DEF TypeOK, Stages
  <2>5. QED
    BY <1>1, <1>2, <2>1, <2>3, <2>4 DEF TypeOK, groupVars, selectorVars, Payload
<1>4. CASE SelectorEnabled /\ Gated
  <2>1. SubmitSelectorRecord(c, work', FALSE)
    BY <1>4 DEF FinishCandidate
  <2>2. WokenBySelector(pc) \in [Candidates -> PC]
    BY NotifyAllType DEF WokenBySelector, TypeOK
  <2>3. IF poolOpen' THEN ConcludeGroup(c, WokenBySelector(pc), leader', pool')
                     ELSE pc' = [pc EXCEPT ![c] = "group"] /\ UNCHANGED stage
    BY <1>4 DEF FinishCandidate
  <2>4. pc' \in [Candidates -> PC] /\ stage' \in [Candidates -> Stages]
    <3>1. CASE poolOpen'
      BY <2>2, <2>3, <3>1, ConcludeGroupType DEF TypeOK
    <3>2. CASE ~poolOpen'
      BY <2>3, <3>2 DEF TypeOK, PC
    <3>3. QED
      BY <3>1, <3>2
  <2>5. QED
    BY <1>1, <1>2, <2>1, <2>4, SubmitSelectorRecordType
       DEF TypeOK, groupVars, Payload, PoolEntry
<1>5. QED
  BY <1>3, <1>4

LEMMA ProductType ==
  ASSUME NEW a \in Nat, NEW b \in Nat
  PROVE  a * b \in Nat
  OBVIOUS

LEMMA FinishRoundType ==
  ASSUME TypeOK, NEW c \in Candidates, NEW w \in Work, FinishRound(c, w)
  PROVE  TypeOK'
<1> DEFINE rounds == Append(w.rounds, [fmt |-> w.fmt, sum |-> w.sum])
           done == [w EXCEPT !.rounds = rounds]
           next == [done EXCEPT !.round = @ + 1, !.verify = 0, !.sum = 0,
                                !.valid = FALSE, !.fmt = 0]
<1>1. rounds \in Seq(Round)
  BY DEF Work, Round
<1>2. done \in Work /\ next \in Work
  <2>1. done \in Work
    <3> HIDE DEF rounds
    <3>1. QED
      BY <1>1 DEF Work
  <2>2. next \in Work
    <3> HIDE DEF done
    <3>1. done.round + 1 \in Nat
      BY <2>1 DEF Work
    <3>2. QED
      BY <2>1, <3>1 DEF Work
  <2>3. QED
    BY <2>1, <2>2
<1>3. PICK best \in BestRounds(rounds) :
        LET pl == [reward |-> RoundScore(rounds[best]), round |-> best - 1] IN
        IF Len(rounds) <= RefineRounds /\ pl.reward < EarlyStopReward
        THEN /\ work' = [work EXCEPT ![c] = next]
             /\ payload' = [payload EXCEPT ![c] = pl]
             /\ stage' = [stage EXCEPT ![c] = "refine"]
             /\ pc' = Call(pc, c)
             /\ UNCHANGED <<groupVars, selectorVars>>
        ELSE FinishCandidate(c, done, pl)
  BY DEF FinishRound
<1> DEFINE pl == [reward |-> RoundScore(rounds[best]), round |-> best - 1]
<1>4. pl \in Payload
  <2>1. best \in DOMAIN rounds
    BY DEF BestRounds
  <2>2. best \in Nat \ {0} /\ rounds[best] \in Round
    <3> HIDE DEF rounds
    <3>1. QED
      BY <1>1, <2>1
  <2>3. rounds[best].fmt \in Nat /\ rounds[best].sum \in Nat
    BY <2>2 DEF Round
  <2>4. RoundScore(rounds[best]) \in Nat
    BY <2>3, ProductType DEF RoundScore
  <2>5. QED
    <3> HIDE DEF rounds
    <3>1. QED
      BY <2>2, <2>4 DEF Payload
<1>5. CASE Len(rounds) <= RefineRounds /\ pl.reward < EarlyStopReward
  <2>1. /\ work' = [work EXCEPT ![c] = next]
        /\ payload' = [payload EXCEPT ![c] = pl]
        /\ stage' = [stage EXCEPT ![c] = "refine"]
        /\ pc' = Call(pc, c)
        /\ UNCHANGED <<groupVars, selectorVars>>
    BY <1>3, <1>5
  <2> HIDE DEF next, pl
  <2>2. pc' \in [Candidates -> PC]
    BY <2>1, CallStopType DEF TypeOK
  <2>3. QED
    BY <1>2, <1>4, <2>1, <2>2 DEF TypeOK, Payload, Stages, groupVars, selectorVars
<1>6. CASE ~(Len(rounds) <= RefineRounds /\ pl.reward < EarlyStopReward)
  <2>1. FinishCandidate(c, done, pl)
    BY <1>3, <1>6
  <2> HIDE DEF done, pl
  <2>2. QED
    BY <1>2, <1>4, <2>1, FinishCandidateType
<1>7. QED
  BY <1>5, <1>6

LEMMA AfterVerifierResultType ==
  ASSUME TypeOK, NEW c \in Candidates, NEW term \in Nat, AfterVerifierResult(c, term)
  PROVE  TypeOK'
<1> DEFINE w == [work[c] EXCEPT !.verify = @ + 1, !.sum = @ + term, !.pending = 0]
<1>1. w \in Work
  <2>1. work[c] \in Work
    BY DEF TypeOK
  <2>2. work[c].verify + 1 \in Nat /\ work[c].sum + term \in Nat
    BY <2>1 DEF Work
  <2>3. QED
    BY <2>1, <2>2 DEF Work
<1>2. CASE w.verify < NumVerifiers
  <2>1. /\ work' = [work EXCEPT ![c] = w]
        /\ stage' = [stage EXCEPT ![c] = "verifier"]
        /\ pc' = Call(pc, c)
        /\ UNCHANGED <<payload, groupVars, selectorVars>>
    BY <1>2 DEF AfterVerifierResult
  <2> HIDE DEF w
  <2>2. pc' \in [Candidates -> PC]
    BY <2>1, CallStopType DEF TypeOK
  <2>3. QED
    BY <1>1, <2>1, <2>2 DEF TypeOK, Stages, groupVars, selectorVars
<1>3. CASE ~(w.verify < NumVerifiers)
  <2>1. FinishRound(c, w)
    BY <1>3 DEF AfterVerifierResult
  <2> HIDE DEF w
  <2>2. QED
    BY <1>1, <2>1, FinishRoundType
<1>4. QED
  BY <1>2, <1>3

(* Every action of one rollout keeps the types.                            *)
LEMMA RolloutType ==
  ASSUME TypeOK, NEW c \in Candidates, Rollout(c)
  PROVE  TypeOK'
<1>1. CASE Reply(c)
  <2>1. work' = [work EXCEPT ![c] = [work[c] EXCEPT !.turns = @ + 1]]
    BY <1>1 DEF Reply
  <2>2. [work[c] EXCEPT !.turns = @ + 1] \in Work
    <3>1. work[c] \in Work /\ work[c].turns + 1 \in Nat
      BY SMTT(30) DEF TypeOK, Work
    <3>2. QED
      BY <3>1 DEF Work
  <2>3. work' \in [Candidates -> Work]
    BY <2>1, <2>2 DEF TypeOK
  <2>4. pc' \in [Candidates -> PC]
    BY <1>1 DEF Reply, TypeOK, PC
  <2>5. QED
    BY <1>1, <2>3, <2>4 DEF Reply, TypeOK, groupVars, selectorVars
<1>2. CASE Fail(c)
  <2>1. pc' \in [Candidates -> PC]
    BY <1>2, CallStopType DEF Fail, TypeOK
  <2>2. QED
    BY <1>2, <2>1 DEF Fail, TypeOK, groupVars, selectorVars
<1>3. CASE AdvanceProof(c)
  <2>1. PICK gen \in Generations, q \in Qualities :
          LET w == [work[c] EXCEPT !.valid = gen.valid, !.fmt = gen.fmt] IN
          IF ~Gated
          THEN /\ AfterGate(c, pc, w, TRUE)
               /\ UNCHANGED groupVars
          ELSE /\ SubmitGateRecord(c, [valid |-> gen.valid, fmt |-> gen.fmt, quality |-> q])
               /\ IF gateOpen'
                  THEN /\ told' = IF c \in selected' THEN told \union {c} ELSE told
                       /\ AfterGate(c, Woken(pc), w, c \in selected')
                  ELSE /\ pc' = [pc EXCEPT ![c] = "gate"]
                       /\ work' = [work EXCEPT ![c] = w]
                       /\ UNCHANGED <<told, stage, payload>>
    BY <1>3 DEF AdvanceProof
  <2> DEFINE w == [work[c] EXCEPT !.valid = gen.valid, !.fmt = gen.fmt]
             rec == [valid |-> gen.valid, fmt |-> gen.fmt, quality |-> q]
  <2>2. gen.valid \in BOOLEAN /\ gen.fmt \in Nat
    BY GenerationType
  <2>3. w \in Work
    BY <2>2, ReadType DEF TypeOK
  <2>4. rec \in GateRecord
    BY <2>2 DEF GateRecord
  <2>5. UNCHANGED selectorVars
    BY <1>3 DEF AdvanceProof
  <2>6. CASE ~Gated
    <3>1. AfterGate(c, pc, w, TRUE) /\ UNCHANGED groupVars
      BY <2>1, <2>6
    <3> HIDE DEF w
    <3>2. pc \in [Candidates -> PC]
      BY DEF TypeOK
    <3>3. QED
      BY <2>3, <2>5, <3>1, <3>2, AfterGateType
         DEF TypeOK, groupVars, selectorVars, Payload
  <2>7. CASE Gated
    <3>1. /\ SubmitGateRecord(c, rec)
          /\ IF gateOpen'
             THEN /\ told' = IF c \in selected' THEN told \union {c} ELSE told
                  /\ AfterGate(c, Woken(pc), w, c \in selected')
             ELSE /\ pc' = [pc EXCEPT ![c] = "gate"]
                  /\ work' = [work EXCEPT ![c] = w]
                  /\ UNCHANGED <<told, stage, payload>>
      BY <2>1, <2>7
    <3> HIDE DEF w, rec
    <3>2. /\ recorded' \subseteq Candidates
          /\ records' \in [Candidates -> GateRecord]
          /\ gateOpen' \in BOOLEAN
          /\ selected' \subseteq Candidates
      BY <2>4, <3>1, SubmitGateRecordType
    <3>3. /\ told' \subseteq Candidates
          /\ pc' \in [Candidates -> PC]
          /\ stage' \in [Candidates -> Stages]
          /\ work' \in [Candidates -> Work]
          /\ payload' \in [Candidates -> Payload]
      <4>1. CASE gateOpen'
        <5>1. told' \subseteq Candidates
          BY <3>1, <4>1 DEF TypeOK
        <5>2. Woken(pc) \in [Candidates -> PC]
          BY NotifyAllType DEF Woken, TypeOK
        <5>3. AfterGate(c, Woken(pc), w, c \in selected')
          BY <3>1, <4>1
        <5>4. (c \in selected') \in BOOLEAN
          OBVIOUS
        <5>5. QED
          BY <2>3, <5>1, <5>2, <5>3, <5>4, AfterGateType
      <4>2. CASE ~gateOpen'
        BY <2>3, <3>1, <4>2 DEF TypeOK, PC, Payload
      <4>3. QED
        BY <4>1, <4>2
    <3>4. QED
      BY <2>5, <3>2, <3>3 DEF TypeOK, selectorVars, Payload, GateRecord
  <2>8. QED
    BY <2>6, <2>7
<1>4. CASE ResumeAtGate(c)
  <2>1. pc \in [Candidates -> PC] /\ work[c] \in Work
    BY DEF TypeOK
  <2>2. CASE gateOpen
    <3>1. /\ told' = IF c \in selected THEN told \union {c} ELSE told
          /\ AfterGate(c, pc, work[c], c \in selected)
      BY <1>4, <2>2 DEF ResumeAtGate
    <3>2. (c \in selected) \in BOOLEAN
      OBVIOUS
    <3>3. /\ pc' \in [Candidates -> PC]
          /\ stage' \in [Candidates -> Stages]
          /\ work' \in [Candidates -> Work]
          /\ payload' \in [Candidates -> Payload]
      BY <2>1, <3>1, <3>2, AfterGateType
    <3>4. QED
      BY <1>4, <3>1, <3>3 DEF ResumeAtGate, TypeOK, selectorVars, Payload
  <2>3. CASE ~gateOpen
    <3>1. pc' \in [Candidates -> PC]
      BY <1>4, <2>1, <2>3 DEF ResumeAtGate, PC
    <3>2. QED
      BY <1>4, <2>3, <3>1 DEF ResumeAtGate, TypeOK, selectorVars
  <2>4. QED
    BY <2>2, <2>3
<1>5. CASE AdvanceVerifier(c)
  <2>1. CASE AfterVerifierResult(c, 0)
    BY <2>1, AfterVerifierResultType
  <2>2. ASSUME NEW score \in Scores, ~(EnableMeta /\ score < 2),
               AfterVerifierResult(c, 2 * score)
        PROVE  TypeOK'
    <3>1. 2 * score \in Nat
      BY ScoreType
    <3>2. QED
      BY <2>2, <3>1, AfterVerifierResultType
  <2>3. ASSUME NEW score \in Scores,
               work' = [work EXCEPT ![c].pending = score],
               stage' = [stage EXCEPT ![c] = "meta"],
               pc' = Call(pc, c),
               UNCHANGED <<payload, groupVars, selectorVars>>
        PROVE  TypeOK'
    <3>1. pc' \in [Candidates -> PC]
      BY <2>3, CallStopType DEF TypeOK
    <3>2. [work[c] EXCEPT !.pending = score] \in Work
      <4>1. score \in Nat /\ work[c] \in Work
        BY ScoreType DEF TypeOK
      <4>2. QED
        BY <4>1 DEF Work
    <3>3. work' \in [Candidates -> Work]
      BY <2>3, <3>2 DEF TypeOK
    <3>4. QED
      BY <2>3, <3>1, <3>3 DEF TypeOK, Stages, groupVars, selectorVars
  <2>4. QED
    BY <1>5, <2>1, <2>2, <2>3 DEF AdvanceVerifier
<1>6. CASE AdvanceMeta(c)
  <2>1. PICK score \in Scores \union {1} : AfterVerifierResult(c, work[c].pending * score)
    BY <1>6 DEF AdvanceMeta
  <2>2. score \in Nat /\ work[c].pending \in Nat
    <3>1. score \in Nat
      BY ScoreType
    <3>2. work[c] \in Work
      BY DEF TypeOK
    <3>3. QED
      BY <3>1, <3>2 DEF Work
  <2>3. work[c].pending * score \in Nat
    BY <2>2, ProductType
  <2>4. QED
    BY <2>1, <2>3, AfterVerifierResultType
<1>7. CASE AdvanceRefine(c)
  <2>1. PICK gen \in Generations :
          LET w == [work[c] EXCEPT !.valid = gen.valid, !.fmt = gen.fmt]
              failed == [w EXCEPT !.rounds = Append(@, [fmt |-> 0, sum |-> 0])]
              pl == [reward |-> 0, round |-> w.round]
          IN
          IF gen.valid
          THEN /\ work' = [work EXCEPT ![c] = StartVerification(w)]
               /\ stage' = [stage EXCEPT ![c] = "verifier"]
               /\ pc' = Call(pc, c)
               /\ UNCHANGED <<payload, groupVars, selectorVars>>
          ELSE IF UsableRounds(failed) # {}
          THEN FinishCandidate(c, failed, pl)
          ELSE /\ work' = [work EXCEPT ![c] = failed]
               /\ payload' = [payload EXCEPT ![c] = pl]
               /\ pc' = Stop(pc, c)
               /\ UNCHANGED <<stage, groupVars, selectorVars>>
    BY <1>7 DEF AdvanceRefine
  <2> DEFINE w == [work[c] EXCEPT !.valid = gen.valid, !.fmt = gen.fmt]
             failed == [w EXCEPT !.rounds = Append(@, [fmt |-> 0, sum |-> 0])]
             pl == [reward |-> 0, round |-> w.round]
  <2>2. gen.valid \in BOOLEAN /\ gen.fmt \in Nat
    BY GenerationType
  <2>3. w \in Work
    BY <2>2, ReadType DEF TypeOK
  <2>4. StartVerification(w) \in Work
    <3> HIDE DEF w
    <3>1. QED
      BY <2>3 DEF StartVerification, Work
  <2>5. failed \in Work
    <3> HIDE DEF w
    <3>1. [fmt |-> 0, sum |-> 0] \in Round
      BY DEF Round
    <3>2. Append(w.rounds, [fmt |-> 0, sum |-> 0]) \in Seq(Round)
      BY <2>3, <3>1 DEF Work
    <3>3. QED
      BY <2>3, <3>2 DEF Work
  <2>6. pl \in Payload
    <3> HIDE DEF w
    <3>1. QED
      BY <2>3 DEF Payload, Work
  <2>7. CASE gen.valid
    <3>1. /\ work' = [work EXCEPT ![c] = StartVerification(w)]
          /\ stage' = [stage EXCEPT ![c] = "verifier"]
          /\ pc' = Call(pc, c)
          /\ UNCHANGED <<payload, groupVars, selectorVars>>
      BY <2>1, <2>7
    <3> HIDE DEF w
    <3>2. pc' \in [Candidates -> PC]
      BY <3>1, CallStopType DEF TypeOK
    <3>3. QED
      BY <2>4, <3>1, <3>2 DEF TypeOK, Stages, groupVars, selectorVars
  <2>8. CASE ~gen.valid /\ UsableRounds(failed) # {}
    <3>1. FinishCandidate(c, failed, pl)
      BY <2>1, <2>8
    <3> HIDE DEF failed, pl
    <3>2. QED
      BY <2>5, <2>6, <3>1, FinishCandidateType
  <2>9. CASE ~gen.valid /\ UsableRounds(failed) = {}
    <3>1. /\ work' = [work EXCEPT ![c] = failed]
          /\ payload' = [payload EXCEPT ![c] = pl]
          /\ pc' = Stop(pc, c)
          /\ UNCHANGED <<stage, groupVars, selectorVars>>
      BY <2>1, <2>9
    <3> HIDE DEF failed, pl
    <3>2. pc' \in [Candidates -> PC]
      BY <3>1, CallStopType DEF TypeOK
    <3>3. QED
      BY <2>5, <2>6, <3>1, <3>2 DEF TypeOK, Payload, groupVars, selectorVars
  <2>10. QED
    BY <2>7, <2>8, <2>9
<1>8. CASE ResumeAtSelector(c)
  <2>1. CASE poolOpen
    <3>1. pc' \in [Candidates -> PC] /\ stage' \in [Candidates -> Stages]
      BY <1>8, <2>1, ConcludeGroupType DEF ResumeAtSelector, TypeOK
    <3>2. QED
      BY <1>8, <3>1 DEF ResumeAtSelector, TypeOK, groupVars, selectorVars
  <2>2. CASE ~poolOpen
    <3>1. pc' \in [Candidates -> PC]
      BY <1>8, <2>2 DEF ResumeAtSelector, TypeOK, PC
    <3>2. QED
      BY <1>8, <2>2, <3>1 DEF ResumeAtSelector, TypeOK, groupVars, selectorVars
  <2>3. QED
    BY <2>1, <2>2
<1>9. CASE AdvanceSelector(c)
  <2>1. PICK e \in IF Gated THEN pool ELSE Top(records, OwnEntries(c, work[c])) :
          payload' = [payload EXCEPT ![c] = [reward |-> RoundScore(e), round |-> e.round]]
    BY <1>9 DEF AdvanceSelector
  <2>2. e \in PoolEntry
    <3>1. CASE Gated
      BY <2>1, <3>1 DEF TypeOK, PoolEntry
    <3>2. CASE ~Gated
      <4>1. e \in OwnEntries(c, work[c])
        BY <2>1, <3>2 DEF Top
      <4>2. QED
        BY <4>1, OwnEntriesType DEF TypeOK
    <3>3. QED
      BY <3>1, <3>2
  <2>3. e.fmt \in Nat /\ e.sum \in Nat /\ e.round \in Nat
    BY <2>2 DEF PoolEntry
  <2>4. [reward |-> RoundScore(e), round |-> e.round] \in Payload
    BY <2>3, ProductType DEF RoundScore, Payload
  <2>5. pc' \in [Candidates -> PC]
    BY <1>9, CallStopType DEF AdvanceSelector, TypeOK
  <2>6. QED
    BY <1>9, <2>1, <2>4, <2>5 DEF AdvanceSelector, TypeOK, Payload, groupVars, selectorVars
<1>10. CASE ReleaseGate(c)
  <2>1. CASE Gated /\ c \notin recorded
    <3>1. /\ SubmitGateRecord(c, InvalidRecord)
          /\ told' = IF gateOpen' /\ c \in selected' THEN told \union {c} ELSE told
          /\ pc' = [Woken(pc) EXCEPT ![c] = "cleanup40"]
      BY <1>10, <2>1 DEF ReleaseGate
    <3>2. InvalidRecord \in GateRecord
      BY DEF InvalidRecord, GateRecord
    <3>3. Woken(pc) \in [Candidates -> PC]
      BY NotifyAllType DEF Woken, TypeOK
    <3>4. pc' \in [Candidates -> PC] /\ told' \subseteq Candidates
      BY <3>1, <3>3 DEF PC, TypeOK
    <3>5. /\ recorded' \subseteq Candidates
          /\ records' \in [Candidates -> GateRecord]
          /\ gateOpen' \in BOOLEAN
          /\ selected' \subseteq Candidates
      BY <3>1, <3>2, SubmitGateRecordType
    <3>6. QED
      BY <1>10, <3>4, <3>5 DEF ReleaseGate, TypeOK, GateRecord, selectorVars
  <2>2. CASE ~(Gated /\ c \notin recorded)
    <3>1. pc' \in [Candidates -> PC]
      BY <1>10, <2>2 DEF ReleaseGate, TypeOK, PC
    <3>2. QED
      BY <1>10, <2>2, <3>1 DEF ReleaseGate, TypeOK, groupVars, selectorVars
  <2>3. QED
    BY <2>1, <2>2
<1>11. CASE ReleaseSelector(c)
  <2>1. CASE SelectorEnabled /\ Gated /\ c \in told \ selIn
    <3>1. /\ SubmitSelectorRecord(c, work, TRUE)
          /\ pc' = [WokenBySelector(pc) EXCEPT ![c] = "done"]
      BY <1>11, <2>1 DEF ReleaseSelector
    <3>2. WokenBySelector(pc) \in [Candidates -> PC]
      BY NotifyAllType DEF WokenBySelector, TypeOK
    <3>3. pc' \in [Candidates -> PC]
      BY <3>1, <3>2 DEF PC
    <3>4. /\ selIn' \subseteq Candidates
          /\ selFailed' \subseteq Candidates
          /\ poolOpen' \in BOOLEAN
          /\ pool' \subseteq PoolEntry
          /\ leader' \in Candidates \union {NoLeader}
      BY <3>1, SubmitSelectorRecordType DEF TypeOK
    <3>5. QED
      BY <1>11, <3>3, <3>4 DEF ReleaseSelector, TypeOK, PoolEntry, groupVars
  <2>2. CASE ~(SelectorEnabled /\ Gated /\ c \in told \ selIn)
    <3>1. pc' \in [Candidates -> PC]
      BY <1>11, <2>2 DEF ReleaseSelector, TypeOK, PC
    <3>2. QED
      BY <1>11, <2>2, <3>1 DEF ReleaseSelector, TypeOK, groupVars, selectorVars
  <2>3. QED
    BY <2>1, <2>2
<1>12. QED
  BY <1>1, <1>2, <1>3, <1>4, <1>5, <1>6, <1>7, <1>8, <1>9, <1>10, <1>11 DEF Rollout

LEMMA InitType == Init => TypeOK
<1> SUFFICES ASSUME Init PROVE TypeOK
  OBVIOUS
<1>1. work \in [Candidates -> Work]
  <2>1. PICK cont \in [Candidates -> IF Hybrid THEN BOOLEAN ELSE {TRUE}] :
          work = [c \in Candidates |->
                    [round |-> 0, verify |-> 0, sum |-> 0, pending |-> 0, valid |-> FALSE,
                     fmt |-> 0, turns |-> 0, continue |-> cont[c], rounds |-> <<>>]]
    BY DEF Init
  <2>2. ASSUME NEW c \in Candidates
        PROVE  cont[c] \in BOOLEAN
    BY <2>1
  <2>3. <<>> \in Seq(Round)
    OBVIOUS
  <2>4. QED
    BY <2>1, <2>2, <2>3 DEF Work
<1>2. QED
  BY <1>1 DEF Init, TypeOK, PC, Stages, InvalidRecord, NoRound, NoLeader

LEMMA TypeStep == TypeOK /\ [Next]_vars => TypeOK'
<1> SUFFICES ASSUME TypeOK, [Next]_vars PROVE TypeOK'
  OBVIOUS
<1>1. CASE \E c \in Candidates : Rollout(c)
  BY <1>1, RolloutType
<1>2. CASE UNCHANGED vars
  BY <1>2 DEF TypeOK, vars, groupVars, selectorVars
<1> QED
  BY <1>1, <1>2 DEF Next, Finished

(* Every variable keeps its type, for every size of the group, every quota *)
(* and every set of scores.                                                *)
THEOREM TypeCorrect == Spec => []TypeOK
  BY TypeStep, InitType, PTL DEF Spec

-----------------------------------------------------------------------------
(* Turns and payloads: a rollout's calls, by the round and by the review.  *)

PerReview == IF EnableMeta THEN 2 ELSE 1
ReviewCalls(r) == PerReview * r
Spent(k) == TurnsPerRound * k

LEMMA ReviewTurns ==
  /\ PerReview \in {1, 2} /\ (EnableMeta => PerReview = 2)
  /\ \A r \in Nat : ReviewCalls(r) \in Nat /\ ReviewCalls(r + 1) = ReviewCalls(r) + PerReview
  /\ ReviewCalls(0) = 0
  /\ TurnsPerRound \in Nat /\ TurnsPerRound = 1 + ReviewCalls(NumVerifiers)
  /\ TurnsPerRound >= 2
  /\ \A r \in Nat : r < NumVerifiers => ReviewCalls(r) + PerReview <= ReviewCalls(NumVerifiers)
<1>1. NumVerifiers \in Nat \ {0} /\ EnableMeta \in BOOLEAN
  BY GroupAssumption
<1>2. CASE EnableMeta
  BY <1>1, <1>2 DEF PerReview, ReviewCalls, TurnsPerRound
<1>3. CASE ~EnableMeta
  BY <1>1, <1>3 DEF PerReview, ReviewCalls, TurnsPerRound
<1> QED BY <1>1, <1>2, <1>3

LEMMA RoundTurns ==
  /\ \A k \in Nat : Spent(k) \in Nat /\ Spent(k + 1) = Spent(k) + TurnsPerRound
  /\ \A k, l \in Nat : k <= l => Spent(k) <= Spent(l)
  /\ Spent(0) = 0
<1>1. TurnsPerRound \in Nat
  BY ReviewTurns
<1>2. QED
  BY <1>1 DEF Spent

(* What a rollout has used before the call of stage s, after k rounds and  *)
(* v reviews.                                                              *)
Used(s, k, v) ==
  Spent(k) + (IF s \in {"verifier", "meta"} THEN 1 + ReviewCalls(v) ELSE 0)
           + (IF s = "meta" THEN 1 ELSE 0)

LEMMA UsedFacts ==
  ASSUME NEW k \in Nat, NEW v \in Nat
  PROVE  /\ \A s \in Stages : Used(s, k, v) \in Nat
         /\ \A s \in Stages \ {"verifier", "meta"} : Used(s, k, v) = Spent(k)
         /\ Used("verifier", k, v) = Spent(k) + 1 + ReviewCalls(v)
         /\ Used("meta", k, v) = Spent(k) + 1 + ReviewCalls(v) + 1
<1>1. Spent(k) \in Nat /\ ReviewCalls(v) \in Nat
  BY RoundTurns, ReviewTurns
<1>2. QED
  BY <1>1 DEF Used, Stages

Awake == {"model", "reply", "gate", "gateWoken"}
Asleep == {"group", "groupWoken"}

(* r is what one of the rounds is worth.                                   *)
WorthOf(rounds, r) ==
  IF rounds = <<>> THEN r = 0 ELSE \E i \in DOMAIN rounds : RoundScore(rounds[i]) = r

(* Where a rollout at p in stage s, with work w and reward r, is: within   *)
(* its rounds, its reviews and its turns.                                  *)
InBudget(p, s, w, r) ==
  /\ w.turns < MaxTurns
  /\ p \in Awake =>
       /\ s # "selector" => Len(w.rounds) <= RefineRounds /\ WorthOf(w.rounds, r)
       /\ s = "selector" => Len(w.rounds) <= RefineRounds + 1
       /\ s \in {"verifier", "meta"} => w.verify < NumVerifiers
       /\ s = "meta" => EnableMeta
       /\ p = "model" => w.turns <= Used(s, Len(w.rounds), w.verify)
       /\ p # "model" => w.turns <= Used(s, Len(w.rounds), w.verify) + 1
       /\ p \in {"gate", "gateWoken"} => s = "proof"
  /\ p \in Asleep => Len(w.rounds) <= RefineRounds + 1 /\ w.turns <= Spent(Len(w.rounds))

BudgetInv == \A c \in Candidates : InBudget(pc[c], stage[c], work[c], payload[c].reward)

LEMMA WorkFacts ==
  ASSUME NEW w \in Work
  PROVE  /\ w.turns \in Nat /\ w.verify \in Nat /\ w.rounds \in Seq(Round)
         /\ Len(w.rounds) \in Nat /\ DOMAIN w.rounds = 1 .. Len(w.rounds)
  BY DEF Work

(* There is room for one call more.                                        *)
LEMMA CallFits ==
  ASSUME NEW s \in Stages, NEW w \in Work, NEW r, InBudget("model", s, w, r)
  PROVE  w.turns + 1 < MaxTurns
<1> DEFINE k == Len(w.rounds)
           v == w.verify
<1>1. /\ k \in Nat /\ v \in Nat /\ w.turns \in Nat /\ RefineRounds \in Nat /\ NumVerifiers \in Nat
  BY WorkFacts, GroupAssumption
<1>2. /\ w.turns <= Used(s, k, v)
      /\ s # "selector" => k <= RefineRounds
      /\ s = "selector" => k <= RefineRounds + 1
      /\ s \in {"verifier", "meta"} => v < NumVerifiers
      /\ s = "meta" => EnableMeta
  BY DEF InBudget, Awake
<1> HIDE DEF k, v
<1>3. PICK t \in Nat, a \in Nat, b \in Nat, rv \in Nat, all \in Nat, one \in Nat, per \in Nat :
        /\ t = w.turns /\ a = Spent(k) /\ b = Spent(RefineRounds) /\ rv = ReviewCalls(v)
        /\ all = ReviewCalls(NumVerifiers) /\ one = PerReview /\ per = TurnsPerRound
  <2>1. Spent(k) \in Nat /\ Spent(RefineRounds) \in Nat
    BY <1>1, RoundTurns
  <2>2. ReviewCalls(v) \in Nat /\ ReviewCalls(NumVerifiers) \in Nat /\ TurnsPerRound \in Nat
    BY <1>1, ReviewTurns
  <2>3. PerReview \in Nat
    BY ReviewTurns
  <2> QED BY <1>1, <2>1, <2>2, <2>3
<1>4. MaxTurns = b + per + 2 /\ per = 1 + all /\ per >= 2 /\ one \in {1, 2}
  <2>1. TurnsPerRound * (RefineRounds + 1) = Spent(RefineRounds) + TurnsPerRound
    BY <1>1, RoundTurns DEF Spent
  <2>2. QED
    BY <1>3, <2>1, ReviewTurns DEF MaxTurns
<1>5. CASE s = "verifier"
  <2>1. a <= b /\ rv + one <= all
    BY <1>1, <1>2, <1>3, <1>5, RoundTurns, ReviewTurns
  <2>2. t <= a + 1 + rv
    BY <1>1, <1>2, <1>3, <1>5, UsedFacts
  <2>3. t + 1 < b + per + 2
    BY <1>3, <1>4, <2>1, <2>2
  <2> QED BY <1>3, <1>4, <2>3
<1>6. CASE s = "meta"
  <2>1. a <= b /\ rv + one <= all /\ one = 2
    BY <1>1, <1>2, <1>3, <1>6, RoundTurns, ReviewTurns
  <2>2. t <= a + 1 + rv + 1
    BY <1>1, <1>2, <1>3, <1>6, UsedFacts
  <2>3. t + 1 < b + per + 2
    BY <1>3, <1>4, <2>1, <2>2
  <2> QED BY <1>3, <1>4, <2>3
<1>7. CASE s = "selector"
  <2>1. Spent(k) <= Spent(RefineRounds + 1) /\ Spent(RefineRounds + 1) = Spent(RefineRounds) + TurnsPerRound
    <3>1. RefineRounds + 1 \in Nat
      BY <1>1
    <3>2. QED
      BY <1>1, <1>2, <1>7, <3>1, RoundTurns
  <2>2. a <= b + per
    BY <1>3, <2>1
  <2>3. t <= a
    <3>1. s \in Stages \ {"verifier", "meta"}
      BY <1>7
    <3>2. Used(s, k, v) = Spent(k)
      BY <1>1, <3>1, UsedFacts
    <3> QED BY <1>2, <1>3, <3>2
  <2>4. t + 1 < b + per + 2
    BY <1>3, <1>4, <2>2, <2>3
  <2> QED BY <1>3, <1>4, <2>4
<1>8. CASE s \in {"proof", "refine"}
  <2>1. a <= b
    BY <1>1, <1>2, <1>3, <1>8, RoundTurns
  <2>2. t <= a
    <3>1. s \in Stages \ {"verifier", "meta"}
      BY <1>8
    <3>2. Used(s, k, v) = Spent(k)
      BY <1>1, <3>1, UsedFacts
    <3> QED BY <1>2, <1>3, <3>2
  <2>3. t + 1 < b + per + 2
    BY <1>3, <1>4, <2>1, <2>2
  <2> QED BY <1>3, <1>4, <2>3
<1> QED BY <1>5, <1>6, <1>7, <1>8 DEF Stages

(* A rollout that ended has nothing more to use, and one that was woken is *)
(* where it was when it went to sleep.                                     *)
LEMMA EndedInBudget ==
  ASSUME NEW p \in {"cleanup50", "cleanup40", "done"}, NEW s, NEW w, NEW r, w.turns < MaxTurns
  PROVE  InBudget(p, s, w, r)
  BY DEF InBudget, Awake, Asleep

LEMMA WokenInBudget ==
  ASSUME NEW p \in [Candidates -> PC], NEW d \in Candidates, NEW s, NEW w, NEW r, InBudget(p[d], s, w, r)
  PROVE  InBudget(NotifyAll(p)[d], s, w, r)
<1>1. CASE p[d] = "gate"
  <2>1. NotifyAll(p)[d] = "gateWoken"
    BY <1>1 DEF NotifyAll
  <2> QED BY <1>1, <2>1 DEF InBudget, Awake, Asleep
<1>2. CASE p[d] = "group"
  <2>1. NotifyAll(p)[d] = "groupWoken"
    BY <1>2 DEF NotifyAll
  <2> QED BY <1>2, <2>1 DEF InBudget, Awake, Asleep
<1>3. CASE p[d] \notin {"gate", "group"}
  <2>1. NotifyAll(p)[d] = p[d]
    BY <1>3 DEF NotifyAll
  <2> QED BY <2>1
<1> QED BY <1>1, <1>2, <1>3

(* A step of c may wake the others and does nothing else to them.          *)
Apart(c) ==
  \A d \in Candidates \ {c} :
    /\ stage'[d] = stage[d] /\ work'[d] = work[d] /\ payload'[d] = payload[d]
    /\ pc'[d] = pc[d] \/ pc'[d] = NotifyAll(pc)[d]

LEMMA OwnStep ==
  ASSUME TypeOK, BudgetInv, NEW c \in Candidates, Apart(c),
         InBudget(pc'[c], stage'[c], work'[c], payload'[c].reward)
  PROVE  BudgetInv'
<1>1. ASSUME NEW d \in Candidates \ {c}
      PROVE  InBudget(pc'[d], stage'[d], work'[d], payload'[d].reward)
  <2>1. InBudget(pc[d], stage[d], work[d], payload[d].reward)
    BY DEF BudgetInv
  <2>2. pc \in [Candidates -> PC]
    BY DEF TypeOK
  <2>3. InBudget(NotifyAll(pc)[d], stage[d], work[d], payload[d].reward)
    BY <2>1, <2>2, WokenInBudget
  <2> QED BY <2>1, <2>3 DEF Apart
<1>2. \A d \in Candidates : InBudget(pc'[d], stage'[d], work'[d], payload'[d].reward)
  BY <1>1
<1> QED BY <1>2 DEF BudgetInv

(* p is pc with or without the sleepers woken.                             *)
Wakes(p) == p = pc \/ p = NotifyAll(pc)

LEMMA WakesFacts ==
  ASSUME TypeOK
  PROVE  /\ Wakes(pc) /\ Wakes(Woken(pc)) /\ Wakes(WokenBySelector(pc))
         /\ \A p : Wakes(p) => p \in [Candidates -> PC]
<1>1. pc \in [Candidates -> PC]
  BY DEF TypeOK
<1>2. NotifyAll(pc) \in [Candidates -> PC]
  BY <1>1, NotifyAllType
<1> QED BY <1>1, <1>2 DEF Wakes, Woken, WokenBySelector

(* Past the gate a rollout starts to verify or takes its leave.            *)
VerifiesOrLeaves(c, w) ==
  \/ /\ pc'[c] = "model" /\ stage'[c] = "verifier"
     /\ work'[c] = StartVerification(w) /\ payload'[c] = payload[c]
  \/ /\ pc'[c] = "cleanup50"
     /\ \E e : work'[c] = [w EXCEPT !.rounds = Append(@, e)]

LEMMA AfterGateEffect ==
  ASSUME TypeOK, NEW c \in Candidates, NEW p, Wakes(p), NEW w, NEW chosen, AfterGate(c, p, w, chosen)
  PROVE  Apart(c) /\ VerifiesOrLeaves(c, w)
<1>1. p \in [Candidates -> PC]
  BY WakesFacts
<1>2. /\ stage \in [Candidates -> Stages] /\ work \in [Candidates -> Work]
      /\ DOMAIN payload = Candidates
  BY DEF TypeOK
<1>3. CASE w.valid /\ chosen /\ w.continue
  <2>1. /\ pc' = [p EXCEPT ![c] = "model"]
        /\ stage' = [stage EXCEPT ![c] = "verifier"]
        /\ work' = [work EXCEPT ![c] = StartVerification(w)]
        /\ payload' = payload
    BY <1>3 DEF AfterGate, Call
  <2>2. Apart(c) /\ pc'[c] = "model" /\ stage'[c] = "verifier"
        /\ work'[c] = StartVerification(w) /\ payload'[c] = payload[c]
    BY <1>1, <1>2, <2>1 DEF Apart, Wakes
  <2> QED BY <2>2 DEF VerifiesOrLeaves
<1>4. CASE ~(w.valid /\ chosen /\ w.continue)
  <2> DEFINE entry == [fmt |-> IF w.valid THEN w.fmt ELSE 0, sum |-> 0]
  <2>1. /\ pc' = [p EXCEPT ![c] = "cleanup50"]
        /\ work' = [work EXCEPT ![c] = [w EXCEPT !.rounds = Append(@, entry)]]
        /\ payload' = [payload EXCEPT ![c] = [reward |-> 0, round |-> w.round]]
        /\ stage' = stage
    BY <1>4 DEF AfterGate, Stop
  <2> HIDE DEF entry
  <2>2. pc'[c] = "cleanup50" /\ work'[c] = [w EXCEPT !.rounds = Append(@, entry)]
    BY <1>1, <1>2, <2>1
  <2>3. Apart(c)
    BY <1>1, <1>2, <2>1 DEF Apart, Wakes
  <2> QED BY <2>2, <2>3 DEF VerifiesOrLeaves
<1> QED BY <1>3, <1>4

LEMMA ConcludeGroupEffect ==
  ASSUME TypeOK, NEW c \in Candidates, NEW p, Wakes(p), NEW lead, NEW entries,
         ConcludeGroup(c, p, lead, entries)
  PROVE  /\ \A d \in Candidates \ {c} : /\ stage'[d] = stage[d]
                                        /\ pc'[d] = pc[d] \/ pc'[d] = NotifyAll(pc)[d]
         /\ \/ pc'[c] = "model" /\ stage'[c] = "selector"
            \/ pc'[c] = "cleanup50" /\ stage'[c] = stage[c]
<1>1. p \in [Candidates -> PC] /\ stage \in [Candidates -> Stages]
  BY WakesFacts DEF TypeOK
<1>2. \/ pc' = [p EXCEPT ![c] = "model"] /\ stage' = [stage EXCEPT ![c] = "selector"]
      \/ pc' = [p EXCEPT ![c] = "cleanup50"] /\ stage' = stage
  BY DEF ConcludeGroup, Call, Stop
<1> QED BY <1>1, <1>2 DEF Wakes

LEMMA FinishCandidateEffect ==
  ASSUME TypeOK, NEW c \in Candidates, NEW w, NEW pl, FinishCandidate(c, w, pl)
  PROVE  /\ Apart(c) /\ work'[c] = w /\ payload'[c] = pl
         /\ \/ pc'[c] = "model" /\ stage'[c] = "selector"
            \/ pc'[c] \in {"group", "cleanup50"}
<1>1. /\ pc \in [Candidates -> PC] /\ stage \in [Candidates -> Stages]
      /\ work \in [Candidates -> Work] /\ DOMAIN payload = Candidates
  BY DEF TypeOK
<1>2. work' = [work EXCEPT ![c] = w] /\ payload' = [payload EXCEPT ![c] = pl]
  BY DEF FinishCandidate
<1>3. CASE pc' = Stop(pc, c) /\ stage' = stage
  BY <1>1, <1>2, <1>3 DEF Stop, Apart
<1>4. CASE pc' = [pc EXCEPT ![c] = "group"] /\ stage' = stage
  BY <1>1, <1>2, <1>4 DEF Apart
<1>5. CASE pc' = Call(pc, c) /\ stage' = [stage EXCEPT ![c] = "selector"]
  BY <1>1, <1>2, <1>5 DEF Call, Apart
<1>6. CASE ConcludeGroup(c, WokenBySelector(pc), leader', pool')
  <2>1. Wakes(WokenBySelector(pc))
    BY WakesFacts
  <2>2. /\ \A d \in Candidates \ {c} : /\ stage'[d] = stage[d]
                                       /\ pc'[d] = pc[d] \/ pc'[d] = NotifyAll(pc)[d]
        /\ \/ pc'[c] = "model" /\ stage'[c] = "selector"
           \/ pc'[c] = "cleanup50" /\ stage'[c] = stage[c]
    BY <1>6, <2>1, ConcludeGroupEffect
  <2>3. \A d \in Candidates \ {c} : work'[d] = work[d] /\ payload'[d] = payload[d]
    BY <1>1, <1>2
  <2>4. work'[c] = w /\ payload'[c] = pl
    BY <1>1, <1>2
  <2> QED BY <2>2, <2>3, <2>4 DEF Apart
<1> QED
  BY <1>3, <1>4, <1>5, <1>6 DEF FinishCandidate

(* A rollout that finishes within its rounds and turns.                    *)
LEMMA FinishCandidateInBudget ==
  ASSUME TypeOK, BudgetInv, NEW c \in Candidates, NEW w \in Work, NEW pl,
         FinishCandidate(c, w, pl),
         Len(w.rounds) <= RefineRounds + 1, w.turns <= Spent(Len(w.rounds)), w.turns < MaxTurns
  PROVE  BudgetInv'
<1>1. /\ Apart(c) /\ work'[c] = w /\ payload'[c] = pl
      /\ \/ pc'[c] = "model" /\ stage'[c] = "selector"
         \/ pc'[c] \in {"group", "cleanup50"}
  BY FinishCandidateEffect
<1>2. CASE pc'[c] = "model" /\ stage'[c] = "selector"
  <2>1. Used("selector", Len(w.rounds), w.verify) = Spent(Len(w.rounds))
    <3>1. Len(w.rounds) \in Nat /\ w.verify \in Nat
      BY WorkFacts
    <3>2. "selector" \in Stages \ {"verifier", "meta"}
      BY DEF Stages
    <3> QED BY <3>1, <3>2, UsedFacts
  <2>2. InBudget("model", "selector", w, pl.reward)
    BY <2>1 DEF InBudget, Awake, Asleep
  <2> QED BY <1>1, <1>2, <2>2, OwnStep
<1>3. CASE pc'[c] \in {"group", "cleanup50"}
  <2>1. InBudget(pc'[c], stage'[c], w, pl.reward)
    BY <1>3 DEF InBudget, Awake, Asleep
  <2> QED BY <1>1, <2>1, OwnStep
<1> QED BY <1>1, <1>2, <1>3

LEMMA AppendFacts ==
  ASSUME NEW S, NEW s \in Seq(S), NEW e \in S
  PROVE  /\ Append(s, e) \in Seq(S) /\ Append(s, e) # <<>>
         /\ Len(Append(s, e)) = Len(s) + 1 /\ Len(s) \in Nat
         /\ DOMAIN Append(s, e) = 1 .. Len(s) + 1 /\ DOMAIN s = 1 .. Len(s)
         /\ Append(s, e)[Len(s) + 1] = e
         /\ \A i \in 1 .. Len(s) : Append(s, e)[i] = s[i]
  OBVIOUS

LEMMA ScoreIsNat ==
  ASSUME NEW e \in Round
  PROVE  RoundScore(e) \in Nat
  BY ProductType DEF RoundScore, Round

(* What _finalize_round makes of a round: the payload is the best round,   *)
(* and there is a refinement or the rollout finishes.                      *)
LEMMA FinishRoundEffect ==
  ASSUME TypeOK, NEW c \in Candidates, NEW w \in Work, FinishRound(c, w)
  PROVE  \E more \in Seq(Round), pl \in Payload :
           /\ Len(more) = Len(w.rounds) + 1
           /\ \A i \in 1 .. Len(w.rounds) : more[i] = w.rounds[i]
           /\ pl.reward \in Nat
           /\ WorthOf(more, pl.reward)
           /\ \A i \in 1 .. Len(more) : RoundScore(more[i]) <= pl.reward
           /\ \/ /\ Len(more) <= RefineRounds
                 /\ payload' = [payload EXCEPT ![c] = pl]
                 /\ work' = [work EXCEPT ![c] = [w EXCEPT !.rounds = more, !.round = @ + 1, !.verify = 0,
                                                          !.sum = 0, !.valid = FALSE, !.fmt = 0]]
                 /\ stage' = [stage EXCEPT ![c] = "refine"] /\ pc' = Call(pc, c)
              \/ FinishCandidate(c, [w EXCEPT !.rounds = more], pl)
<1> DEFINE entry == [fmt |-> w.fmt, sum |-> w.sum]
           more == Append(w.rounds, entry)
           done == [w EXCEPT !.rounds = more]
<1>1. w.rounds \in Seq(Round) /\ Len(w.rounds) \in Nat /\ entry \in Round
  BY DEF Work, Round
<1>2. /\ more \in Seq(Round) /\ more # <<>> /\ Len(more) = Len(w.rounds) + 1
      /\ DOMAIN more = 1 .. Len(more)
      /\ \A i \in 1 .. Len(w.rounds) : more[i] = w.rounds[i]
  BY <1>1, AppendFacts
<1>3. PICK best \in BestRounds(more) :
        LET pl == [reward |-> RoundScore(more[best]), round |-> best - 1] IN
        IF Len(more) <= RefineRounds /\ pl.reward < EarlyStopReward
        THEN /\ work' = [work EXCEPT ![c] = [done EXCEPT !.round = @ + 1, !.verify = 0, !.sum = 0,
                                                         !.valid = FALSE, !.fmt = 0]]
             /\ payload' = [payload EXCEPT ![c] = pl]
             /\ stage' = [stage EXCEPT ![c] = "refine"]
             /\ pc' = Call(pc, c)
             /\ UNCHANGED <<groupVars, selectorVars>>
        ELSE FinishCandidate(c, done, pl)
  BY DEF FinishRound
<1> DEFINE pl == [reward |-> RoundScore(more[best]), round |-> best - 1]
<1>4. [done EXCEPT !.round = @ + 1, !.verify = 0, !.sum = 0, !.valid = FALSE, !.fmt = 0]
        = [w EXCEPT !.rounds = more, !.round = @ + 1, !.verify = 0, !.sum = 0, !.valid = FALSE, !.fmt = 0]
  BY DEF Work
<1> HIDE DEF entry, more
<1>5. /\ best \in DOMAIN more
      /\ \A j \in DOMAIN more : \/ RoundScore(more[best]) > RoundScore(more[j])
                                \/ RoundScore(more[best]) = RoundScore(more[j]) /\ best <= j
  BY DEF BestRounds
<1>6. \A i \in DOMAIN more : RoundScore(more[i]) \in Nat
  BY <1>2, ScoreIsNat
<1>7. \A i \in 1 .. Len(more) : RoundScore(more[i]) <= RoundScore(more[best])
  BY <1>2, <1>5, <1>6
<1>8. pl \in Payload /\ pl.reward = RoundScore(more[best]) /\ pl.reward \in Nat
  <2>1. best - 1 \in Nat
    BY <1>2, <1>5
  <2>2. RoundScore(more[best]) \in Nat
    BY <1>5, <1>6
  <2> QED BY <2>1, <2>2 DEF Payload
<1>9. WorthOf(more, pl.reward)
  BY <1>2, <1>5, <1>8 DEF WorthOf
<1>10. \/ /\ Len(more) <= RefineRounds
          /\ payload' = [payload EXCEPT ![c] = pl]
          /\ work' = [work EXCEPT ![c] = [w EXCEPT !.rounds = more, !.round = @ + 1, !.verify = 0,
                                                   !.sum = 0, !.valid = FALSE, !.fmt = 0]]
          /\ stage' = [stage EXCEPT ![c] = "refine"] /\ pc' = Call(pc, c)
       \/ FinishCandidate(c, [w EXCEPT !.rounds = more], pl)
  BY <1>3, <1>4
<1> HIDE DEF pl
<1> QED BY <1>2, <1>7, <1>8, <1>9, <1>10

LEMMA FinishRoundInBudget ==
  ASSUME TypeOK, BudgetInv, NEW c \in Candidates, NEW w \in Work, FinishRound(c, w),
         Len(w.rounds) <= RefineRounds, w.turns < MaxTurns,
         w.turns <= Spent(Len(w.rounds) + 1)
  PROVE  BudgetInv'
<1>1. PICK more \in Seq(Round), pl \in Payload :
           /\ Len(more) = Len(w.rounds) + 1
           /\ \A i \in 1 .. Len(w.rounds) : more[i] = w.rounds[i]
           /\ pl.reward \in Nat
           /\ WorthOf(more, pl.reward)
           /\ \A i \in 1 .. Len(more) : RoundScore(more[i]) <= pl.reward
           /\ \/ /\ Len(more) <= RefineRounds
                 /\ payload' = [payload EXCEPT ![c] = pl]
                 /\ work' = [work EXCEPT ![c] = [w EXCEPT !.rounds = more, !.round = @ + 1, !.verify = 0,
                                                          !.sum = 0, !.valid = FALSE, !.fmt = 0]]
                 /\ stage' = [stage EXCEPT ![c] = "refine"] /\ pc' = Call(pc, c)
              \/ FinishCandidate(c, [w EXCEPT !.rounds = more], pl)
  BY FinishRoundEffect
<1>2. Len(w.rounds) \in Nat /\ w.turns \in Nat /\ RefineRounds \in Nat
  BY WorkFacts, GroupAssumption
<1>3. CASE /\ Len(more) <= RefineRounds
           /\ payload' = [payload EXCEPT ![c] = pl]
           /\ work' = [work EXCEPT ![c] = [w EXCEPT !.rounds = more, !.round = @ + 1, !.verify = 0,
                                                    !.sum = 0, !.valid = FALSE, !.fmt = 0]]
           /\ stage' = [stage EXCEPT ![c] = "refine"] /\ pc' = Call(pc, c)
  <2>1. Apart(c) /\ pc'[c] = "model" /\ stage'[c] = "refine" /\ payload'[c] = pl
    BY <1>3 DEF Apart, Call, TypeOK
  <2>2. /\ work'[c].rounds = more /\ work'[c].turns = w.turns /\ work'[c].verify = 0
    BY <1>3 DEF TypeOK, Work
  <2>3. Used("refine", Len(more), 0) = Spent(Len(more))
    <3>1. "refine" \in Stages \ {"verifier", "meta"} /\ Len(more) \in Nat /\ 0 \in Nat
      BY DEF Stages
    <3> QED BY <3>1, UsedFacts
  <2>4. InBudget(pc'[c], stage'[c], work'[c], payload'[c].reward)
    BY <1>1, <1>3, <2>1, <2>2, <2>3 DEF InBudget, Awake, Asleep
  <2> QED BY <2>1, <2>4, OwnStep
<1>4. CASE FinishCandidate(c, [w EXCEPT !.rounds = more], pl)
  <2> DEFINE done == [w EXCEPT !.rounds = more]
  <2>1. done \in Work /\ done.rounds = more /\ done.turns = w.turns
    BY DEF Work
  <2> HIDE DEF done
  <2>2. Len(done.rounds) <= RefineRounds + 1 /\ done.turns <= Spent(Len(done.rounds)) /\ done.turns < MaxTurns
    BY <1>1, <1>2, <2>1
  <2>3. FinishCandidate(c, done, pl)
    BY <1>4 DEF done
  <2> QED BY <2>1, <2>2, <2>3, FinishCandidateInBudget
<1> QED BY <1>1, <1>3, <1>4

(* What is left of a round when a review is in.                            *)
LEMMA ReviewFits ==
  ASSUME NEW k \in Nat, NEW v \in Nat, v < NumVerifiers,
         NEW t \in Nat, t <= Spent(k) + 1 + ReviewCalls(v) + PerReview
  PROVE  /\ t <= Used("verifier", k, v + 1)
         /\ t <= Spent(k + 1)
<1>1. v + 1 \in Nat /\ NumVerifiers \in Nat
  BY GroupAssumption
<1>2. /\ Used("verifier", k, v + 1) = Spent(k) + 1 + ReviewCalls(v + 1)
      /\ ReviewCalls(v + 1) = ReviewCalls(v) + PerReview
      /\ ReviewCalls(v) + PerReview <= ReviewCalls(NumVerifiers)
      /\ TurnsPerRound = 1 + ReviewCalls(NumVerifiers)
      /\ Spent(k + 1) = Spent(k) + TurnsPerRound
  BY <1>1, UsedFacts, ReviewTurns, RoundTurns
<1>3. PICK a \in Nat, b \in Nat, d \in Nat, e \in Nat :
        a = Spent(k) /\ b = ReviewCalls(v) /\ d = PerReview /\ e = ReviewCalls(NumVerifiers)
  <2>1. Spent(k) \in Nat
    BY RoundTurns
  <2>2. ReviewCalls(v) \in Nat /\ ReviewCalls(NumVerifiers) \in Nat
    BY <1>1, ReviewTurns
  <2>3. PerReview \in Nat
    BY ReviewTurns
  <2> QED BY <2>1, <2>2, <2>3
<1>4. Used("verifier", k, v + 1) = a + 1 + (b + d) /\ Spent(k + 1) = a + (1 + e) /\ b + d <= e
  BY <1>2, <1>3
<1>5. t <= a + 1 + b + d
  BY <1>3
<1> QED BY <1>3, <1>4, <1>5

LEMMA AfterVerifierResultInBudget ==
  ASSUME TypeOK, BudgetInv, NEW c \in Candidates, NEW term \in Nat, AfterVerifierResult(c, term),
         pc[c] = "reply", stage[c] \in {"verifier", "meta"},
         work[c].turns <= Spent(Len(work[c].rounds)) + 1 + ReviewCalls(work[c].verify) + PerReview
  PROVE  BudgetInv'
<1> DEFINE w == [work[c] EXCEPT !.verify = @ + 1, !.sum = @ + term, !.pending = 0]
<1>1. work[c] \in Work /\ w \in Work
  <2>1. work[c] \in Work
    BY DEF TypeOK
  <2>2. work[c].verify + 1 \in Nat /\ work[c].sum + term \in Nat
    BY <2>1, SMTT(30) DEF Work
  <2> QED BY <2>1, <2>2 DEF Work
<1>2. /\ w.turns = work[c].turns /\ w.rounds = work[c].rounds /\ w.verify = work[c].verify + 1
  BY <1>1 DEF Work
<1>3. /\ work[c].turns < MaxTurns /\ Len(work[c].rounds) <= RefineRounds
      /\ work[c].verify < NumVerifiers /\ WorthOf(work[c].rounds, payload[c].reward)
  BY DEF BudgetInv, InBudget, Awake
<1>4. /\ work[c].turns <= Used("verifier", Len(work[c].rounds), work[c].verify + 1)
      /\ work[c].turns <= Spent(Len(work[c].rounds) + 1)
  <2>1. work[c].turns \in Nat /\ Len(work[c].rounds) \in Nat /\ work[c].verify \in Nat
    BY <1>1, WorkFacts
  <2> QED BY <1>3, <2>1, ReviewFits
<1>5. CASE w.verify < NumVerifiers
  <2>1. /\ work' = [work EXCEPT ![c] = w] /\ stage' = [stage EXCEPT ![c] = "verifier"]
        /\ pc' = Call(pc, c) /\ UNCHANGED payload
    BY <1>5 DEF AfterVerifierResult
  <2> HIDE DEF w
  <2>2. Apart(c) /\ pc'[c] = "model" /\ stage'[c] = "verifier" /\ work'[c] = w /\ payload'[c] = payload[c]
    BY <2>1 DEF Apart, Call, TypeOK
  <2>3. InBudget("model", "verifier", w, payload[c].reward)
    BY <1>2, <1>3, <1>4, <1>5 DEF InBudget, Awake, Asleep
  <2> QED BY <2>2, <2>3, OwnStep
<1>6. CASE ~(w.verify < NumVerifiers)
  <2>1. FinishRound(c, w)
    BY <1>6 DEF AfterVerifierResult
  <2> HIDE DEF w
  <2>2. Len(w.rounds) <= RefineRounds /\ w.turns < MaxTurns /\ w.turns <= Spent(Len(w.rounds) + 1)
    BY <1>2, <1>3, <1>4
  <2> QED BY <1>1, <2>1, <2>2, FinishRoundInBudget
<1> QED BY <1>5, <1>6

LEMMA AfterGateInBudget ==
  ASSUME TypeOK, BudgetInv, NEW c \in Candidates, NEW p, Wakes(p), NEW w \in Work, NEW chosen,
         w.rounds = work[c].rounds, w.turns = work[c].turns,
         pc[c] \in Awake \ {"model"}, stage[c] = "proof", AfterGate(c, p, w, chosen)
  PROVE  BudgetInv'
<1>1. Apart(c) /\ VerifiesOrLeaves(c, w)
  BY AfterGateEffect
<1>2. /\ Len(w.rounds) \in Nat /\ w.turns \in Nat /\ w.verify \in Nat /\ work[c].verify \in Nat
  BY WorkFacts DEF TypeOK
<1>3. /\ w.turns < MaxTurns /\ Len(w.rounds) <= RefineRounds /\ WorthOf(w.rounds, payload[c].reward)
      /\ w.turns <= Used("proof", Len(w.rounds), work[c].verify) + 1
  BY DEF BudgetInv, InBudget
<1>4. CASE pc'[c] = "cleanup50" /\ \E e : work'[c] = [w EXCEPT !.rounds = Append(@, e)]
  <2>1. work'[c].turns = w.turns
    BY <1>4 DEF Work
  <2>2. InBudget(pc'[c], stage'[c], work'[c], payload'[c].reward)
    <3>1. work'[c].turns < MaxTurns /\ pc'[c] = "cleanup50"
      BY <1>3, <1>4, <2>1
    <3> QED BY <3>1 DEF InBudget, Awake, Asleep
  <2> QED BY <1>1, <2>2, OwnStep
<1>5. CASE /\ pc'[c] = "model" /\ stage'[c] = "verifier"
           /\ work'[c] = StartVerification(w) /\ payload'[c] = payload[c]
  <2>1. work'[c].turns = w.turns /\ work'[c].rounds = w.rounds /\ work'[c].verify = 0
    BY <1>5 DEF Work, StartVerification
  <2>2. 0 < NumVerifiers
    BY GroupAssumption
  <2>3. w.turns <= Used("verifier", Len(w.rounds), 0)
    <3>1. Used("verifier", Len(w.rounds), 0) = Spent(Len(w.rounds)) + 1 + ReviewCalls(0)
      BY <1>2, UsedFacts
    <3>2. Used("proof", Len(w.rounds), work[c].verify) = Spent(Len(w.rounds))
      <4>1. "proof" \in Stages \ {"verifier", "meta"}
        BY DEF Stages
      <4> QED BY <1>2, <4>1, UsedFacts
    <3>3. ReviewCalls(0) = 0 /\ Spent(Len(w.rounds)) \in Nat
      BY <1>2, ReviewTurns, RoundTurns
    <3> QED BY <1>3, <3>1, <3>2, <3>3
  <2>4. InBudget("model", "verifier", work'[c], payload[c].reward)
    BY <1>3, <2>1, <2>2, <2>3 DEF InBudget, Awake, Asleep
  <2> QED BY <1>1, <1>5, <2>4, OwnStep
<1> QED BY <1>1, <1>4, <1>5 DEF VerifiesOrLeaves

LEMMA ProofReadInBudget ==
  ASSUME TypeOK, BudgetInv, NEW c \in Candidates, AdvanceProof(c)
  PROVE  BudgetInv'
<1>1. pc[c] = "reply" /\ stage[c] = "proof" /\ pc[c] \in Awake \ {"model"}
  BY DEF AdvanceProof, Awake
<1>2. PICK gen \in Generations, q \in Qualities :
        LET w == [work[c] EXCEPT !.valid = gen.valid, !.fmt = gen.fmt] IN
        IF ~Gated
        THEN /\ AfterGate(c, pc, w, TRUE)
             /\ UNCHANGED groupVars
        ELSE /\ SubmitGateRecord(c, [valid |-> gen.valid, fmt |-> gen.fmt, quality |-> q])
             /\ IF gateOpen'
                THEN /\ told' = IF c \in selected' THEN told \union {c} ELSE told
                     /\ AfterGate(c, Woken(pc), w, c \in selected')
                ELSE /\ pc' = [pc EXCEPT ![c] = "gate"]
                     /\ work' = [work EXCEPT ![c] = w]
                     /\ UNCHANGED <<told, stage, payload>>
  BY DEF AdvanceProof
<1> DEFINE w == [work[c] EXCEPT !.valid = gen.valid, !.fmt = gen.fmt]
<1>3. work[c] \in Work /\ w \in Work
  <2>1. gen.valid \in BOOLEAN /\ gen.fmt \in Nat
    BY GenerationType
  <2>2. work[c] \in Work
    BY DEF TypeOK
  <2> QED BY <2>1, <2>2, ReadType
<1>4. w.rounds = work[c].rounds /\ w.turns = work[c].turns /\ w.verify = work[c].verify
  BY <1>3 DEF Work
<1>5. Wakes(pc) /\ Wakes(Woken(pc))
  BY WakesFacts
<1>6. \/ AfterGate(c, pc, w, TRUE)
      \/ AfterGate(c, Woken(pc), w, c \in selected')
      \/ /\ pc' = [pc EXCEPT ![c] = "gate"] /\ work' = [work EXCEPT ![c] = w]
         /\ UNCHANGED <<told, stage, payload>>
  BY <1>2
<1> HIDE DEF w
<1>7. CASE AfterGate(c, pc, w, TRUE)
  BY <1>1, <1>3, <1>4, <1>5, <1>7, AfterGateInBudget
<1>8. CASE AfterGate(c, Woken(pc), w, c \in selected')
  BY <1>1, <1>3, <1>4, <1>5, <1>8, AfterGateInBudget
<1>9. CASE /\ pc' = [pc EXCEPT ![c] = "gate"] /\ work' = [work EXCEPT ![c] = w]
           /\ UNCHANGED <<told, stage, payload>>
  <2>1. Apart(c) /\ pc'[c] = "gate" /\ stage'[c] = "proof" /\ work'[c] = w /\ payload'[c] = payload[c]
    BY <1>1, <1>9 DEF Apart, TypeOK
  <2>2. InBudget("reply", "proof", work[c], payload[c].reward)
    BY <1>1 DEF BudgetInv
  <2>3. InBudget("gate", "proof", w, payload[c].reward)
    BY <1>4, <2>2 DEF InBudget, Awake, Asleep
  <2> QED BY <2>1, <2>3, OwnStep
<1> QED BY <1>6, <1>7, <1>8, <1>9

LEMMA GateResumedInBudget ==
  ASSUME TypeOK, BudgetInv, NEW c \in Candidates, ResumeAtGate(c)
  PROVE  BudgetInv'
<1>1. pc[c] = "gateWoken" /\ pc[c] \in Awake \ {"model"}
  BY DEF ResumeAtGate, Awake
<1>2. InBudget("gateWoken", stage[c], work[c], payload[c].reward) /\ stage[c] = "proof"
  BY <1>1 DEF BudgetInv, InBudget
<1>3. CASE gateOpen
  <2>1. AfterGate(c, pc, work[c], c \in selected)
    BY <1>3 DEF ResumeAtGate
  <2>2. Wakes(pc) /\ work[c] \in Work
    BY WakesFacts DEF TypeOK
  <2> QED BY <1>1, <1>2, <2>1, <2>2, AfterGateInBudget
<1>4. CASE ~gateOpen
  <2>1. pc' = [pc EXCEPT ![c] = "gate"] /\ UNCHANGED <<told, stage, work, payload>>
    BY <1>4 DEF ResumeAtGate
  <2>2. Apart(c) /\ pc'[c] = "gate"
    BY <2>1 DEF Apart, TypeOK
  <2>3. InBudget("gate", stage[c], work[c], payload[c].reward)
    BY <1>2 DEF InBudget, Awake, Asleep
  <2> QED BY <2>1, <2>2, <2>3, OwnStep
<1> QED BY <1>3, <1>4

(* What a rollout that reads a reply has used.                             *)
LEMMA ReplyUsed ==
  ASSUME TypeOK, BudgetInv, NEW c \in Candidates, pc[c] = "reply"
  PROVE  /\ work[c] \in Work /\ stage[c] \in Stages
         /\ work[c].turns < MaxTurns
         /\ work[c].turns <= Used(stage[c], Len(work[c].rounds), work[c].verify) + 1
         /\ stage[c] # "selector" => /\ Len(work[c].rounds) <= RefineRounds
                                     /\ WorthOf(work[c].rounds, payload[c].reward)
         /\ stage[c] \in {"verifier", "meta"} => work[c].verify < NumVerifiers
         /\ stage[c] = "meta" => EnableMeta
  BY DEF TypeOK, BudgetInv, InBudget, Awake

LEMMA ReviewReadInBudget ==
  ASSUME TypeOK, BudgetInv, NEW c \in Candidates, AdvanceVerifier(c)
  PROVE  BudgetInv'
<1> DEFINE k == Len(work[c].rounds)
           v == work[c].verify
           t == work[c].turns
<1>1. pc[c] = "reply" /\ stage[c] = "verifier"
  BY DEF AdvanceVerifier
<1>2. /\ work[c] \in Work /\ t < MaxTurns /\ k <= RefineRounds /\ v < NumVerifiers
      /\ WorthOf(work[c].rounds, payload[c].reward) /\ t <= Used("verifier", k, v) + 1
  BY <1>1, ReplyUsed
<1>3. k \in Nat /\ v \in Nat /\ t \in Nat
  BY <1>2, WorkFacts
<1>a. /\ work[c].turns = t /\ work[c].verify = v /\ Len(work[c].rounds) = k
  OBVIOUS
<1> HIDE DEF k, v, t
<1>4. Spent(k) \in Nat /\ ReviewCalls(v) \in Nat
  BY <1>3, RoundTurns, ReviewTurns
<1>5. t <= Spent(k) + 1 + ReviewCalls(v) + 1
  <2>1. Used("verifier", k, v) = Spent(k) + 1 + ReviewCalls(v)
    BY <1>3, UsedFacts
  <2> QED BY <1>2, <2>1
<1>6. t <= Spent(k) + 1 + ReviewCalls(v) + PerReview
  <2>1. PerReview \in {1, 2}
    BY ReviewTurns
  <2> QED BY <1>3, <1>4, <1>5, <2>1
<1>7. CASE AfterVerifierResult(c, 0)
  BY <1>1, <1>6, <1>7, <1>a, AfterVerifierResultInBudget
<1>8. ASSUME NEW score \in Scores, AfterVerifierResult(c, 2 * score)
      PROVE  BudgetInv'
  <2>1. 2 * score \in Nat
    BY ScoreType
  <2> QED BY <1>1, <1>6, <1>8, <1>a, <2>1, AfterVerifierResultInBudget
<1>9. ASSUME NEW score \in Scores, EnableMeta,
             work' = [work EXCEPT ![c].pending = score], stage' = [stage EXCEPT ![c] = "meta"],
             pc' = Call(pc, c), UNCHANGED payload
      PROVE  BudgetInv'
  <2>1. /\ Apart(c) /\ pc'[c] = "model" /\ stage'[c] = "meta" /\ payload'[c] = payload[c]
        /\ work'[c] = [work[c] EXCEPT !.pending = score]
    BY <1>9 DEF Apart, Call, TypeOK
  <2>2. work'[c].turns = t /\ work'[c].verify = v /\ work'[c].rounds = work[c].rounds
    BY <1>2, <1>a, <2>1 DEF Work
  <2>3. t <= Used("meta", k, v)
    <3>1. Used("meta", k, v) = Spent(k) + 1 + ReviewCalls(v) + 1
      BY <1>3, UsedFacts
    <3> QED BY <1>5, <3>1
  <2>4. InBudget("model", "meta", work'[c], payload[c].reward)
    BY <1>2, <1>9, <1>a, <2>2, <2>3 DEF InBudget, Awake, Asleep
  <2> QED BY <2>1, <2>4, OwnStep
<1> QED
  BY <1>7, <1>8, <1>9 DEF AdvanceVerifier

LEMMA MetaReadInBudget ==
  ASSUME TypeOK, BudgetInv, NEW c \in Candidates, AdvanceMeta(c)
  PROVE  BudgetInv'
<1> DEFINE k == Len(work[c].rounds)
           v == work[c].verify
           t == work[c].turns
<1>1. pc[c] = "reply" /\ stage[c] = "meta"
  BY DEF AdvanceMeta
<1>2. work[c] \in Work /\ t <= Used("meta", k, v) + 1 /\ EnableMeta
  BY <1>1, ReplyUsed
<1>3. k \in Nat /\ v \in Nat /\ t \in Nat
  BY <1>2, WorkFacts
<1>a. /\ work[c].turns = t /\ work[c].verify = v /\ Len(work[c].rounds) = k
  OBVIOUS
<1> HIDE DEF k, v, t
<1>4. Spent(k) \in Nat /\ ReviewCalls(v) \in Nat /\ PerReview = 2
  BY <1>2, <1>3, RoundTurns, ReviewTurns
<1>5. t <= Spent(k) + 1 + ReviewCalls(v) + PerReview
  <2>1. Used("meta", k, v) = Spent(k) + 1 + ReviewCalls(v) + 1
    BY <1>3, UsedFacts
  <2>2. t <= Spent(k) + 1 + ReviewCalls(v) + 1 + 1
    BY <1>2, <2>1
  <2> QED BY <1>3, <1>4, <2>2
<1>6. PICK score \in Scores \union {1} : AfterVerifierResult(c, work[c].pending * score)
  BY DEF AdvanceMeta
<1>7. work[c].pending * score \in Nat
  <2>1. score \in Nat
    BY ScoreType
  <2>2. work[c].pending \in Nat
    BY <1>2 DEF Work
  <2> QED BY <2>1, <2>2, ProductType
<1> QED
  BY <1>1, <1>5, <1>6, <1>7, <1>a, AfterVerifierResultInBudget

LEMMA RefinementReadInBudget ==
  ASSUME TypeOK, BudgetInv, NEW c \in Candidates, AdvanceRefine(c)
  PROVE  BudgetInv'
<1> DEFINE k == Len(work[c].rounds)
           t == work[c].turns
<1>1. pc[c] = "reply" /\ stage[c] = "refine"
  BY DEF AdvanceRefine
<1>2. /\ work[c] \in Work /\ t < MaxTurns /\ k <= RefineRounds
      /\ WorthOf(work[c].rounds, payload[c].reward) /\ t <= Used("refine", k, work[c].verify) + 1
  BY <1>1, ReplyUsed
<1>3. k \in Nat /\ t \in Nat /\ work[c].verify \in Nat /\ RefineRounds \in Nat
  BY <1>2, WorkFacts, GroupAssumption
<1>a. work[c].turns = t /\ Len(work[c].rounds) = k
  OBVIOUS
<1> HIDE DEF k, t
<1>4. Spent(k) \in Nat /\ TurnsPerRound \in Nat /\ TurnsPerRound >= 2 /\ Spent(k + 1) = Spent(k) + TurnsPerRound
  BY <1>3, RoundTurns, ReviewTurns
<1>5. t <= Spent(k) + 1
  <2>1. "refine" \in Stages \ {"verifier", "meta"}
    BY DEF Stages
  <2>2. Used("refine", k, work[c].verify) = Spent(k)
    BY <1>3, <2>1, UsedFacts
  <2> QED BY <1>2, <2>2
<1>6. t <= Spent(k + 1)
  BY <1>3, <1>4, <1>5
<1>7. PICK gen \in Generations :
        LET w == [work[c] EXCEPT !.valid = gen.valid, !.fmt = gen.fmt]
            failed == [w EXCEPT !.rounds = Append(@, [fmt |-> 0, sum |-> 0])]
            pl == [reward |-> 0, round |-> w.round]
        IN
        IF gen.valid
        THEN /\ work' = [work EXCEPT ![c] = StartVerification(w)]
             /\ stage' = [stage EXCEPT ![c] = "verifier"]
             /\ pc' = Call(pc, c)
             /\ UNCHANGED <<payload, groupVars, selectorVars>>
        ELSE IF UsableRounds(failed) # {}
        THEN FinishCandidate(c, failed, pl)
        ELSE /\ work' = [work EXCEPT ![c] = failed]
             /\ payload' = [payload EXCEPT ![c] = pl]
             /\ pc' = Stop(pc, c)
             /\ UNCHANGED <<stage, groupVars, selectorVars>>
  BY DEF AdvanceRefine
<1> DEFINE w == [work[c] EXCEPT !.valid = gen.valid, !.fmt = gen.fmt]
           failed == [w EXCEPT !.rounds = Append(@, [fmt |-> 0, sum |-> 0])]
           pl == [reward |-> 0, round |-> w.round]
<1>8. w \in Work /\ w.turns = t /\ w.rounds = work[c].rounds
  <2>1. gen.valid \in BOOLEAN /\ gen.fmt \in Nat
    BY GenerationType
  <2>2. w \in Work
    BY <1>2, <2>1, ReadType
  <2> QED BY <1>2, <1>a, <2>2 DEF Work
<1>9. /\ failed \in Work /\ failed.turns = t /\ Len(failed.rounds) = k + 1
  <2>1. [fmt |-> 0, sum |-> 0] \in Round
    BY DEF Round
  <2>2. work[c].rounds \in Seq(Round)
    BY <1>2, WorkFacts
  <2> DEFINE more == Append(w.rounds, [fmt |-> 0, sum |-> 0])
  <2>3. more \in Seq(Round) /\ Len(more) = k + 1
    BY <1>8, <1>a, <2>1, <2>2, AppendFacts
  <2> HIDE DEF w, more
  <2>4. failed = [w EXCEPT !.rounds = more]
    BY DEF more
  <2>5. failed \in Work /\ failed.turns = w.turns /\ failed.rounds = more
    BY <1>8, <2>3, <2>4 DEF Work
  <2> QED BY <1>8, <2>3, <2>5
<1>10. \/ /\ work' = [work EXCEPT ![c] = StartVerification(w)]
          /\ stage' = [stage EXCEPT ![c] = "verifier"]
          /\ pc' = Call(pc, c) /\ UNCHANGED payload
       \/ FinishCandidate(c, failed, pl)
       \/ /\ work' = [work EXCEPT ![c] = failed] /\ payload' = [payload EXCEPT ![c] = pl]
          /\ pc' = Stop(pc, c) /\ UNCHANGED stage
  BY <1>7
<1> HIDE DEF w, failed, pl
<1>11. CASE /\ work' = [work EXCEPT ![c] = StartVerification(w)]
            /\ stage' = [stage EXCEPT ![c] = "verifier"]
            /\ pc' = Call(pc, c) /\ UNCHANGED payload
  <2>1. /\ Apart(c) /\ pc'[c] = "model" /\ stage'[c] = "verifier" /\ payload'[c] = payload[c]
        /\ work'[c] = StartVerification(w)
    BY <1>11 DEF Apart, Call, TypeOK
  <2>2. work'[c].turns = t /\ work'[c].rounds = work[c].rounds /\ work'[c].verify = 0
    BY <1>8, <2>1 DEF StartVerification, Work
  <2>3. t <= Used("verifier", k, 0) /\ 0 < NumVerifiers
    <3>1. Used("verifier", k, 0) = Spent(k) + 1 + ReviewCalls(0) /\ ReviewCalls(0) = 0
      BY <1>3, UsedFacts, ReviewTurns
    <3> QED BY <1>4, <1>5, <3>1, GroupAssumption
  <2>4. InBudget("model", "verifier", work'[c], payload[c].reward)
    BY <1>2, <1>a, <2>2, <2>3 DEF InBudget, Awake, Asleep
  <2> QED BY <2>1, <2>4, OwnStep
<1>12. CASE FinishCandidate(c, failed, pl)
  <2>1. /\ Len(failed.rounds) <= RefineRounds + 1 /\ failed.turns <= Spent(Len(failed.rounds))
        /\ failed.turns < MaxTurns
    BY <1>2, <1>3, <1>6, <1>9
  <2> QED BY <1>9, <1>12, <2>1, FinishCandidateInBudget
<1>13. CASE /\ work' = [work EXCEPT ![c] = failed] /\ payload' = [payload EXCEPT ![c] = pl]
            /\ pc' = Stop(pc, c) /\ UNCHANGED stage
  <2>1. Apart(c) /\ pc'[c] = "cleanup50" /\ work'[c] = failed
    BY <1>13 DEF Apart, Stop, TypeOK
  <2>2. InBudget(pc'[c], stage'[c], work'[c], payload'[c].reward)
    BY <1>2, <1>9, <2>1 DEF InBudget, Awake, Asleep
  <2> QED BY <2>1, <2>2, OwnStep
<1> QED BY <1>10, <1>11, <1>12, <1>13

(* The steps that read no reply: a call returns or fails, a sleeper at the *)
(* selector goes on, the cleanup handlers run.                             *)
LEMMA QuietStepInBudget ==
  ASSUME TypeOK, BudgetInv, NEW c \in Candidates,
         Reply(c) \/ Fail(c) \/ ResumeAtSelector(c) \/ AdvanceSelector(c) \/ ReleaseGate(c) \/ ReleaseSelector(c)
  PROVE  BudgetInv'
<1>1. /\ InBudget(pc[c], stage[c], work[c], payload[c].reward) /\ work[c] \in Work /\ stage[c] \in Stages
      /\ work[c].turns < MaxTurns
  BY DEF BudgetInv, TypeOK, InBudget
<1>2. /\ pc \in [Candidates -> PC] /\ stage \in [Candidates -> Stages]
      /\ work \in [Candidates -> Work] /\ DOMAIN payload = Candidates
  BY DEF TypeOK
<1>3. CASE Reply(c)
  <2>1. pc[c] = "model" /\ UNCHANGED <<stage, payload>>
    BY <1>3 DEF Reply
  <2>2. work' = [work EXCEPT ![c] = [work[c] EXCEPT !.turns = @ + 1]]
    BY <1>3 DEF Reply
  <2>3. /\ work'[c].turns = work[c].turns + 1 /\ work'[c].rounds = work[c].rounds
        /\ work'[c].verify = work[c].verify
    BY <1>1, <1>2, <2>2 DEF Work
  <2>4. work[c].turns + 1 < MaxTurns
    BY <1>1, <2>1, CallFits
  <2>5. MaxTurns \in Int /\ work[c].turns \in Nat
    <3>1. TurnsPerRound * (RefineRounds + 1) \in Nat
      <4>1. TurnsPerRound \in Nat /\ RefineRounds + 1 \in Nat
        BY ReviewTurns, GroupAssumption
      <4> QED BY <4>1, ProductType
    <3> QED BY <1>1, <3>1, WorkFacts DEF MaxTurns
  <2>6. pc' = [pc EXCEPT ![c] = "reply"]
    <3>1. ~(work'[c].turns >= MaxTurns)
      BY <2>3, <2>4, <2>5
    <3> QED BY <1>3, <3>1 DEF Reply
  <2>7. Apart(c) /\ pc'[c] = "reply" /\ stage'[c] = stage[c] /\ payload'[c] = payload[c]
    BY <1>2, <2>1, <2>2, <2>6 DEF Apart
  <2>8. work[c].turns + 1 <= Used(stage[c], Len(work[c].rounds), work[c].verify) + 1
    <3>1. Used(stage[c], Len(work[c].rounds), work[c].verify) \in Nat
      <4>1. Len(work[c].rounds) \in Nat /\ work[c].verify \in Nat
        BY <1>1, WorkFacts
      <4> QED BY <1>1, <4>1, UsedFacts
    <3>2. work[c].turns <= Used(stage[c], Len(work[c].rounds), work[c].verify)
      BY <1>1, <2>1 DEF InBudget, Awake
    <3> QED BY <2>5, <3>1, <3>2
  <2>9. InBudget("reply", stage[c], work'[c], payload[c].reward)
    BY <1>1, <2>1, <2>3, <2>4, <2>8 DEF InBudget, Awake, Asleep
  <2> QED BY <2>7, <2>9, OwnStep
<1>4. CASE Fail(c)
  <2>1. Apart(c) /\ pc'[c] = "cleanup50" /\ work'[c] = work[c]
    BY <1>2, <1>4 DEF Fail, Stop, Apart
  <2>2. InBudget(pc'[c], stage'[c], work'[c], payload'[c].reward)
    BY <1>1, <2>1 DEF InBudget, Awake, Asleep
  <2> QED BY <2>1, <2>2, OwnStep
<1>5. CASE ResumeAtSelector(c)
  <2>1. pc[c] = "groupWoken" /\ UNCHANGED <<work, payload>>
    BY <1>5 DEF ResumeAtSelector
  <2>2. Len(work[c].rounds) <= RefineRounds + 1 /\ work[c].turns <= Spent(Len(work[c].rounds))
    BY <1>1, <2>1 DEF InBudget, Asleep
  <2>3. CASE poolOpen
    <3>1. Wakes(pc) /\ ConcludeGroup(c, pc, leader, pool)
      BY <1>5, <2>3, WakesFacts DEF ResumeAtSelector
    <3>2. /\ Apart(c)
          /\ \/ pc'[c] = "model" /\ stage'[c] = "selector"
             \/ pc'[c] = "cleanup50" /\ stage'[c] = stage[c]
      BY <2>1, <3>1, ConcludeGroupEffect DEF Apart
    <3>3. Used("selector", Len(work[c].rounds), work[c].verify) = Spent(Len(work[c].rounds))
      <4>1. Len(work[c].rounds) \in Nat /\ work[c].verify \in Nat /\ "selector" \in Stages \ {"verifier", "meta"}
        BY <1>1, WorkFacts DEF Stages
      <4> QED BY <4>1, UsedFacts
    <3>4. InBudget(pc'[c], stage'[c], work[c], payload'[c].reward)
      BY <1>1, <2>2, <3>2, <3>3 DEF InBudget, Awake, Asleep
    <3>5. work'[c] = work[c]
      BY <2>1
    <3> QED BY <3>2, <3>4, <3>5, OwnStep
  <2>4. CASE ~poolOpen
    <3>1. Apart(c) /\ pc'[c] = "group" /\ work'[c] = work[c]
      BY <1>2, <1>5, <2>1, <2>4 DEF ResumeAtSelector, Apart
    <3>2. InBudget(pc'[c], stage'[c], work'[c], payload'[c].reward)
      BY <1>1, <2>2, <3>1 DEF InBudget, Awake, Asleep
    <3> QED BY <3>1, <3>2, OwnStep
  <2> QED BY <2>3, <2>4
<1>6. CASE AdvanceSelector(c)
  <2>1. /\ \E pl : payload' = [payload EXCEPT ![c] = pl]
        /\ pc' = Stop(pc, c) /\ UNCHANGED <<stage, work>>
    BY <1>6 DEF AdvanceSelector
  <2>2. Apart(c) /\ pc'[c] = "cleanup50" /\ work'[c] = work[c]
    BY <1>2, <2>1 DEF Stop, Apart
  <2>3. InBudget(pc'[c], stage'[c], work'[c], payload'[c].reward)
    BY <1>1, <2>2 DEF InBudget, Awake, Asleep
  <2> QED BY <2>2, <2>3, OwnStep
<1>7. CASE ReleaseGate(c)
  <2>1. /\ \E p : Wakes(p) /\ pc' = [p EXCEPT ![c] = "cleanup40"]
        /\ UNCHANGED <<stage, work, payload>>
    BY <1>7, WakesFacts DEF ReleaseGate
  <2>2. Apart(c) /\ pc'[c] = "cleanup40" /\ work'[c] = work[c]
    BY <1>2, <2>1, WakesFacts DEF Apart, Wakes
  <2>3. InBudget(pc'[c], stage'[c], work'[c], payload'[c].reward)
    BY <1>1, <2>2 DEF InBudget, Awake, Asleep
  <2> QED BY <2>2, <2>3, OwnStep
<1>8. CASE ReleaseSelector(c)
  <2>1. /\ \E p : Wakes(p) /\ pc' = [p EXCEPT ![c] = "done"]
        /\ UNCHANGED <<stage, work, payload>>
    BY <1>8, WakesFacts DEF ReleaseSelector
  <2>2. Apart(c) /\ pc'[c] = "done" /\ work'[c] = work[c]
    BY <1>2, <2>1, WakesFacts DEF Apart, Wakes
  <2>3. InBudget(pc'[c], stage'[c], work'[c], payload'[c].reward)
    BY <1>1, <2>2 DEF InBudget, Awake, Asleep
  <2> QED BY <2>2, <2>3, OwnStep
<1> QED BY <1>3, <1>4, <1>5, <1>6, <1>7, <1>8

LEMMA BudgetInvInit == Init => BudgetInv
<1> SUFFICES ASSUME Init PROVE BudgetInv
  OBVIOUS
<1>1. ASSUME NEW c \in Candidates
      PROVE  InBudget(pc[c], stage[c], work[c], payload[c].reward)
  <2>1. /\ pc[c] = "model" /\ stage[c] = "proof" /\ payload[c].reward = 0
        /\ work[c].turns = 0 /\ work[c].rounds = <<>> /\ work[c].verify = 0
    BY DEF Init
  <2>2. Used("proof", 0, 0) = 0
    <3>1. "proof" \in Stages \ {"verifier", "meta"} /\ 0 \in Nat
      BY DEF Stages
    <3> QED BY <3>1, UsedFacts, RoundTurns
  <2>3. 0 < MaxTurns
    <3>1. TurnsPerRound * (RefineRounds + 1) \in Nat
      <4>1. TurnsPerRound \in Nat /\ RefineRounds + 1 \in Nat
        BY ReviewTurns, GroupAssumption
      <4> QED BY <4>1, ProductType
    <3> QED BY <3>1 DEF MaxTurns
  <2>4. Len(work[c].rounds) = 0 /\ 0 <= RefineRounds
    BY <2>1, GroupAssumption
  <2> QED BY <2>1, <2>2, <2>3, <2>4 DEF InBudget, Awake, Asleep, WorthOf
<1> QED BY <1>1 DEF BudgetInv

LEMMA BudgetInvStep == TypeOK /\ BudgetInv /\ [Next]_vars => BudgetInv'
<1> SUFFICES ASSUME TypeOK, BudgetInv, [Next]_vars PROVE BudgetInv'
  OBVIOUS
<1>1. ASSUME NEW c \in Candidates, Rollout(c) PROVE BudgetInv'
  BY <1>1, ProofReadInBudget, GateResumedInBudget, ReviewReadInBudget, MetaReadInBudget,
     RefinementReadInBudget, QuietStepInBudget DEF Rollout
<1>2. CASE UNCHANGED vars
  BY <1>2 DEF vars, BudgetInv
<1> QED BY <1>1, <1>2 DEF Next, Finished

(* Every reply is read: no rollout comes to max_turns before its end, for  *)
(* any number of rounds and of verifiers, with a gate, a selector and      *)
(* meta-verification or without (src/proof_opd_env.py:1307).               *)
THEOREM EveryReplyIsRead == Spec => []TurnBudgetSuffices
<1>1. BudgetInv => TurnBudgetSuffices
  BY DEF BudgetInv, InBudget, TurnBudgetSuffices
<1> QED
  BY <1>1, BudgetInvInit, BudgetInvStep, TypeCorrect, PTL DEF Spec

(* The payload of a rollout changes by its own steps only.                 *)
LEMMA OthersPayload ==
  ASSUME TypeOK, NEW c \in Candidates, Rollout(c)
  PROVE  \A d \in Candidates \ {c} : payload'[d] = payload[d]
<1> DEFINE Own == payload' = payload \/ \E pl : payload' = [payload EXCEPT ![c] = pl]
<1> SUFFICES Own
  BY DEF TypeOK
<1>1. ASSUME NEW p, NEW w, NEW chosen, AfterGate(c, p, w, chosen)
      PROVE  Own
  <2>1. CASE w.valid /\ chosen /\ w.continue
    BY <1>1, <2>1 DEF AfterGate
  <2>2. CASE ~(w.valid /\ chosen /\ w.continue)
    <3>1. payload' = [payload EXCEPT ![c] = [reward |-> 0, round |-> w.round]]
      BY <1>1, <2>2 DEF AfterGate
    <3> QED BY <3>1
  <2> QED BY <2>1, <2>2
<1>2. ASSUME NEW w, NEW pl, FinishCandidate(c, w, pl)
      PROVE  Own
  BY <1>2 DEF FinishCandidate
<1>3. ASSUME NEW w, FinishRound(c, w)
      PROVE  Own
  <2> DEFINE more == Append(w.rounds, [fmt |-> w.fmt, sum |-> w.sum])
             done == [w EXCEPT !.rounds = more]
             pl(best) == [reward |-> RoundScore(more[best]), round |-> best - 1]
  <2>1. PICK best \in BestRounds(more) :
          \/ payload' = [payload EXCEPT ![c] = pl(best)]
          \/ FinishCandidate(c, done, pl(best))
    BY <1>3 DEF FinishRound
  <2> HIDE DEF more, done, pl
  <2>2. QED
    BY <1>2, <2>1
<1>4. ASSUME NEW term, AfterVerifierResult(c, term)
      PROVE  Own
  <2>1. UNCHANGED payload \/ \E w : FinishRound(c, w)
    BY <1>4 DEF AfterVerifierResult
  <2> QED BY <1>3, <2>1
<1>a. UNCHANGED payload => Own
  OBVIOUS
<1>b. ASSUME NEW pl, payload' = [payload EXCEPT ![c] = pl] PROVE Own
  BY <1>b
<1> HIDE DEF Own
<1>5. CASE AdvanceRefine(c)
  <2> DEFINE w(gen) == [work[c] EXCEPT !.valid = gen.valid, !.fmt = gen.fmt]
             failed(gen) == [w(gen) EXCEPT !.rounds = Append(@, [fmt |-> 0, sum |-> 0])]
             pl(gen) == [reward |-> 0, round |-> w(gen).round]
  <2>1. PICK gen \in Generations :
          \/ UNCHANGED payload
          \/ FinishCandidate(c, failed(gen), pl(gen))
          \/ payload' = [payload EXCEPT ![c] = pl(gen)]
    BY <1>5 DEF AdvanceRefine
  <2> HIDE DEF w, failed, pl
  <2> QED BY <1>2, <1>a, <1>b, <2>1
<1>6. CASE AdvanceProof(c)
  <2>1. UNCHANGED payload \/ \E p, w, chosen : AfterGate(c, p, w, chosen)
    BY <1>6 DEF AdvanceProof
  <2> QED BY <1>1, <1>a, <2>1
<1>7. CASE ResumeAtGate(c)
  <2>1. UNCHANGED payload \/ \E p, w, chosen : AfterGate(c, p, w, chosen)
    BY <1>7 DEF ResumeAtGate
  <2> QED BY <1>1, <1>a, <2>1
<1>8. CASE AdvanceVerifier(c) \/ AdvanceMeta(c)
  <2>1. UNCHANGED payload \/ \E term : AfterVerifierResult(c, term)
    BY <1>8 DEF AdvanceVerifier, AdvanceMeta
  <2> QED BY <1>4, <1>a, <2>1
<1>9. CASE AdvanceSelector(c)
  <2>1. \E pl : payload' = [payload EXCEPT ![c] = pl]
    BY <1>9 DEF AdvanceSelector
  <2> QED BY <1>b, <2>1
<1>10. CASE Reply(c) \/ Fail(c) \/ ResumeAtSelector(c) \/ ReleaseGate(c) \/ ReleaseSelector(c)
  BY <1>10, <1>a DEF Reply, Fail, ResumeAtSelector, ReleaseGate, ReleaseSelector
<1> QED
  BY <1>5, <1>6, <1>7, <1>8, <1>9, <1>10 DEF Rollout

LEMMA ReviewPays ==
  ASSUME TypeOK, BudgetInv, NEW c \in Candidates, NEW term \in Nat, AfterVerifierResult(c, term),
         pc[c] = "reply", stage[c] \in {"verifier", "meta"}
  PROVE  payload'[c].reward >= payload[c].reward
<1> DEFINE w == [work[c] EXCEPT !.verify = @ + 1, !.sum = @ + term, !.pending = 0]
<1>1. work[c] \in Work /\ w \in Work /\ w.rounds = work[c].rounds
  <2>1. work[c] \in Work
    BY DEF TypeOK
  <2>2. work[c].verify + 1 \in Nat /\ work[c].sum + term \in Nat
    BY <2>1 DEF Work
  <2> QED BY <2>1, <2>2 DEF Work
<1>2. payload[c].reward \in Nat /\ WorthOf(w.rounds, payload[c].reward) /\ DOMAIN payload = Candidates
  <2>1. WorthOf(work[c].rounds, payload[c].reward)
    BY ReplyUsed
  <2>2. payload[c].reward \in Nat /\ DOMAIN payload = Candidates
    BY DEF TypeOK
  <2> QED BY <1>1, <2>1, <2>2
<1>3. CASE UNCHANGED payload
  BY <1>2, <1>3
<1>4. CASE FinishRound(c, w)
  <2> HIDE DEF w
  <2>1. PICK more \in Seq(Round), pl \in Payload :
           /\ Len(more) = Len(w.rounds) + 1
           /\ \A i \in 1 .. Len(w.rounds) : more[i] = w.rounds[i]
           /\ pl.reward \in Nat
           /\ WorthOf(more, pl.reward)
           /\ \A i \in 1 .. Len(more) : RoundScore(more[i]) <= pl.reward
           /\ \/ /\ Len(more) <= RefineRounds
                 /\ payload' = [payload EXCEPT ![c] = pl]
                 /\ work' = [work EXCEPT ![c] = [w EXCEPT !.rounds = more, !.round = @ + 1, !.verify = 0,
                                                          !.sum = 0, !.valid = FALSE, !.fmt = 0]]
                 /\ stage' = [stage EXCEPT ![c] = "refine"] /\ pc' = Call(pc, c)
              \/ FinishCandidate(c, [w EXCEPT !.rounds = more], pl)
    BY <1>1, <1>4, FinishRoundEffect, Zenon
  <2>2. payload'[c] = pl
    <3>1. CASE payload' = [payload EXCEPT ![c] = pl]
      BY <1>2, <3>1
    <3>2. CASE FinishCandidate(c, [w EXCEPT !.rounds = more], pl)
      BY <1>2, <3>2 DEF FinishCandidate
    <3> QED BY <2>1, <3>1, <3>2
  <2>3. CASE w.rounds = <<>>
    <3>1. payload[c].reward = 0
      BY <1>2, <2>3 DEF WorthOf
    <3> QED BY <2>1, <2>2, <3>1
  <2>4. CASE w.rounds # <<>>
    <3>1. PICK i \in DOMAIN w.rounds : RoundScore(w.rounds[i]) = payload[c].reward
      BY <1>2, <2>4 DEF WorthOf
    <3>2. i \in 1 .. Len(w.rounds) /\ i \in 1 .. Len(more)
      BY <1>1, <2>1, WorkFacts
    <3>3. RoundScore(more[i]) = payload[c].reward /\ RoundScore(more[i]) <= pl.reward
      BY <2>1, <3>1, <3>2
    <3> QED BY <1>2, <2>1, <2>2, <3>3
  <2> QED BY <2>3, <2>4
<1> QED BY <1>3, <1>4 DEF AfterVerifierResult

(* A round that was verified to its end never lowers a rollout's payload.  *)
LEMMA VerifiedRoundPays ==
  TypeOK /\ BudgetInv /\ [Next]_vars =>
    \A c \in Candidates : stage[c] \in {"verifier", "meta"} => payload'[c].reward >= payload[c].reward
<1> SUFFICES ASSUME TypeOK, BudgetInv, [Next]_vars, NEW c \in Candidates,
                    stage[c] \in {"verifier", "meta"}
             PROVE  payload'[c].reward >= payload[c].reward
  OBVIOUS
<1>1. payload[c].reward \in Nat
  BY DEF TypeOK
<1>2. CASE payload'[c] = payload[c]
  BY <1>1, <1>2
<1>3. CASE Rollout(c)
  <2>1. CASE AdvanceProof(c) \/ AdvanceRefine(c) \/ AdvanceSelector(c)
    BY <2>1 DEF AdvanceProof, AdvanceRefine, AdvanceSelector
  <2>2. CASE ResumeAtGate(c)
    BY <2>2 DEF ResumeAtGate, BudgetInv, InBudget, Awake
  <2>3. CASE AdvanceVerifier(c)
    <3>1. pc[c] = "reply" /\ stage[c] \in {"verifier", "meta"}
      BY <2>3 DEF AdvanceVerifier
    <3>2. UNCHANGED payload \/ AfterVerifierResult(c, 0) \/ \E score \in Scores : AfterVerifierResult(c, 2 * score)
      BY <2>3 DEF AdvanceVerifier
    <3>3. 0 \in Nat /\ \A score \in Scores : 2 * score \in Nat
      BY ScoreType
    <3> QED BY <1>2, <3>1, <3>2, <3>3, ReviewPays
  <2>4. CASE AdvanceMeta(c)
    <3>1. pc[c] = "reply" /\ stage[c] \in {"verifier", "meta"}
      BY <2>4 DEF AdvanceMeta
    <3>2. PICK score \in Scores \union {1} : AfterVerifierResult(c, work[c].pending * score)
      BY <2>4 DEF AdvanceMeta
    <3>3. score \in Nat /\ work[c].pending \in Nat
      BY ScoreType, SMTT(30) DEF TypeOK, Work
    <3>4. work[c].pending * score \in Nat
      BY <3>3, ProductType
    <3> QED BY <3>1, <3>2, <3>4, ReviewPays
  <2>5. CASE Reply(c) \/ Fail(c) \/ ResumeAtSelector(c) \/ ReleaseGate(c) \/ ReleaseSelector(c)
    BY <1>2, <2>5 DEF Reply, Fail, ResumeAtSelector, ReleaseGate, ReleaseSelector
  <2> QED BY <1>3, <2>1, <2>2, <2>3, <2>4, <2>5 DEF Rollout
<1>4. ASSUME NEW d \in Candidates \ {c}, Rollout(d)
      PROVE  payload'[c] = payload[c]
  BY <1>4, OthersPayload
<1>5. CASE UNCHANGED vars
  BY <1>2, <1>5 DEF vars
<1> QED BY <1>2, <1>3, <1>4, <1>5 DEF Next, Finished

-----------------------------------------------------------------------------
(* The two barriers.  That a sleeper has a releaser is not inductive: it   *)
(* depends on where every task that has not submitted its record can be.   *)
(* IInv says it for each task, and ties the open flags to who has arrived. *)

InRounds == {"verifier", "meta", "refine"}

(* A candidate that has not submitted a gate record is still at its proof  *)
(* and on its way to submit one; one that the open gate chose and that     *)
(* does not know it yet has been woken.                                    *)
GateTask(c) ==
  /\ Gated /\ c \notin recorded => pc[c] \in Running /\ stage[c] = "proof"
  /\ pc[c] \in {"model", "reply"} /\ stage[c] = "proof" => c \notin recorded
  /\ pc[c] = "gate" => Gated /\ ~gateOpen /\ stage[c] = "proof" /\ c \in recorded
  /\ pc[c] = "gateWoken" => Gated /\ gateOpen /\ stage[c] = "proof" /\ c \notin told
  /\ c \in selected \ told => pc[c] = "gateWoken"
  /\ ~gateOpen /\ c \in recorded => pc[c] = "gate" \/ ~records[c].valid
  /\ Gated /\ stage[c] # "proof" => c \in told

GateInv ==
  /\ gateOpen = (Gated /\ recorded = Candidates)
  /\ ~gateOpen => selected = {}
  /\ gateOpen => selected = Choose(records)
  /\ told \subseteq selected /\ selIn \subseteq told /\ selFailed \subseteq selIn
  /\ \A c \in Candidates : GateTask(c)

(* A candidate that was let through and has not handed in its rounds is    *)
(* running; one that has is asleep until the pool is there.                *)
SelectorTask(c) ==
  /\ pc[c] \in {"group", "groupWoken"} =>
       /\ Gated /\ SelectorEnabled /\ c \in selIn /\ stage[c] \in InRounds
       /\ poolOpen <=> pc[c] = "groupWoken"
  /\ SelectorEnabled /\ Gated /\ c \in told \ selIn => pc[c] \in Running \union {"cleanup40"}
  /\ pc[c] \in {"model", "reply"} /\ c \in selIn => stage[c] = "selector"
  /\ Gated /\ stage[c] = "selector" => poolOpen /\ c = leader
  /\ c \in selIn \ selFailed /\ ~poolOpen => pc[c] = "group"

LeaderInv ==
  poolOpen /\ pool # {} =>
    /\ leader \in selIn \ selFailed
    /\ pc[leader] = "groupWoken" \/ stage[leader] = "selector"

SelectorInv ==
  /\ poolOpen = (gateOpen /\ selIn = selected /\ selIn # {})
  /\ LeaderInv
  /\ \A c \in Candidates : SelectorTask(c)

IInv == TypeOK /\ GateInv /\ SelectorInv

-----------------------------------------------------------------------------
(* Finite sets of candidates.                                              *)

LEMMA CandidatesFinite == IsFiniteSet(Candidates)
  BY GroupAssumption, FS_Interval DEF Candidates

(* The count the code compares says what it is meant to say.               *)
LEMMA CountIsAll ==
  ASSUME NEW A, NEW B, A \subseteq B, B \subseteq Candidates
  PROVE  (Cardinality(A) >= Cardinality(B)) <=> A = B
<1>1. IsFiniteSet(B) /\ IsFiniteSet(A)
  BY CandidatesFinite, FS_Subset
<1>2. Cardinality(A) \in Nat /\ Cardinality(B) \in Nat
  BY <1>1, FS_CardinalityType
<1>3. Cardinality(A) <= Cardinality(B)
  BY <1>1, FS_Subset
<1>4. Cardinality(A) = Cardinality(B) => A = B
  BY <1>1, FS_Subset
<1>5. QED
  BY <1>2, <1>3, <1>4

-----------------------------------------------------------------------------
(* What the shared steps do.                                               *)

LEMMA NotifyAllEffect ==
  ASSUME NEW p \in [Candidates -> PC], NEW d \in Candidates
  PROVE  /\ p[d] = "gate" => NotifyAll(p)[d] = "gateWoken"
         /\ p[d] = "group" => NotifyAll(p)[d] = "groupWoken"
         /\ p[d] \notin {"gate", "group"} => NotifyAll(p)[d] = p[d]
  BY DEF NotifyAll

(* A gate record is submitted while the gate is closed, and the last one   *)
(* opens it.                                                               *)
LEMMA GateSubmission ==
  ASSUME IInv, Gated, NEW c \in Candidates \ recorded, NEW rec, SubmitGateRecord(c, rec)
  PROVE  /\ ~gateOpen /\ ~poolOpen /\ selected = {} /\ told = {} /\ selIn = {}
         /\ recorded' = recorded \union {c}
         /\ gateOpen' = (recorded' = Candidates)
         /\ gateOpen' => selected' = Choose(records')
         /\ ~gateOpen' => selected' = {}
<1>1. ~gateOpen
  BY DEF IInv, GateInv
<1>2. ~poolOpen /\ selected = {} /\ told = {} /\ selIn = {}
  BY <1>1 DEF IInv, GateInv, SelectorInv
<1>3. QED
  BY <1>1, <1>2 DEF SubmitGateRecord

LEMMA PoolSources ==
  ASSUME NEW recs, NEW wk, NEW in, NEW failed, NEW e \in GroupPool(recs, wk, in, failed)
  PROVE  e.src \in in \ failed
<1>1. PICK c \in in \ failed : e \in First(recs, OwnEntries(c, wk[c]))
  BY DEF GroupPool, Top
<1>2. e \in OwnEntries(c, wk[c])
  BY <1>1 DEF First
<1>3. QED
  BY <1>2 DEF OwnEntries, Entry

(* A candidate hands in its rounds while the pool is not there, the last   *)
(* one makes it, and the leader is a candidate that did not fail.          *)
LEMMA SelectorSubmission ==
  ASSUME IInv, Gated, SelectorEnabled, NEW c \in told \ selIn, NEW wk, NEW failed \in BOOLEAN,
         SubmitSelectorRecord(c, wk, failed)
  PROVE  /\ gateOpen /\ ~poolOpen /\ c \in Candidates
         /\ selIn' = selIn \union {c}
         /\ selFailed' = IF failed THEN selFailed \union {c} ELSE selFailed
         /\ poolOpen' = (selIn' = selected)
         /\ WokenBySelector(pc) = IF poolOpen' THEN NotifyAll(pc) ELSE pc
         /\ poolOpen' /\ pool' # {} => leader' \in selIn' \ selFailed'
<1>1. gateOpen /\ ~poolOpen /\ c \in Candidates /\ selIn \union {c} \subseteq selected
  BY DEF IInv, GateInv, SelectorInv, TypeOK
<1>2. /\ selIn' = selIn \union {c}
      /\ selFailed' = IF failed THEN selFailed \union {c} ELSE selFailed
  BY DEF SubmitSelectorRecord
<1>3. selected \subseteq Candidates
  BY DEF IInv, TypeOK
<1>4. (Cardinality(selIn') >= Cardinality(selected)) <=> selIn' = selected
  BY <1>1, <1>2, <1>3, CountIsAll
<1>5. poolOpen' = (selIn' = selected)
  BY <1>1, <1>4 DEF SubmitSelectorRecord
<1>6. ASSUME poolOpen', pool' # {}
      PROVE  leader' \in selIn' \ selFailed'
  <2>1. /\ pool' = GroupPool(records, wk, selIn', selFailed')
        /\ leader' \in Leaders(records, pool', selected)
    BY <1>1, <1>4, <1>5, <1>6 DEF SubmitSelectorRecord
  <2>2. PICK e \in pool' : leader' = e.src
    BY <1>6, <2>1 DEF Leaders, First
  <2>3. QED
    BY <2>1, <2>2, PoolSources
<1>7. QED
  BY <1>1, <1>2, <1>4, <1>5, <1>6 DEF WokenBySelector

(* A step of one task that touches neither barrier keeps the invariant if  *)
(* the task's own part of it is kept.                                      *)
LEMMA LocalStep ==
  ASSUME IInv, TypeOK', NEW c \in Candidates, NEW x, NEW y,
         pc' = [pc EXCEPT ![c] = x],
         stage' = [stage EXCEPT ![c] = y],
         UNCHANGED <<groupVars, selectorVars>>,
         GateTask(c)', SelectorTask(c)',
         pool = {} \/ leader # c \/ ~poolOpen \/ x = "groupWoken" \/ y = "selector"
  PROVE  IInv'
<1>1. \A d \in Candidates \ {c} : pc'[d] = pc[d] /\ stage'[d] = stage[d]
  BY DEF IInv, TypeOK
<1>2. pc'[c] = x /\ stage'[c] = y
  BY DEF IInv, TypeOK
<1>3. ASSUME NEW d \in Candidates PROVE GateTask(d)'
  <2>1. CASE d = c
    BY <2>1
  <2>2. CASE d # c
    BY <1>1, <2>2 DEF IInv, GateInv, GateTask, groupVars
  <2>3. QED
    BY <2>1, <2>2
<1>4. ASSUME NEW d \in Candidates PROVE SelectorTask(d)'
  <2>1. CASE d = c
    BY <2>1
  <2>2. CASE d # c
    BY <1>1, <2>2 DEF IInv, SelectorInv, SelectorTask, groupVars, selectorVars
  <2>3. QED
    BY <2>1, <2>2
<1>5. LeaderInv'
  <2>1. CASE poolOpen /\ pool # {}
    <3>1. /\ leader \in selIn \ selFailed
          /\ pc[leader] = "groupWoken" \/ stage[leader] = "selector"
      BY <2>1 DEF IInv, SelectorInv, LeaderInv
    <3>2. leader \in Candidates
      BY <3>1 DEF IInv, TypeOK
    <3>3. QED
      BY <1>1, <1>2, <2>1, <3>1, <3>2 DEF LeaderInv, selectorVars
  <2>2. CASE ~(poolOpen /\ pool # {})
    BY <2>2 DEF LeaderInv, selectorVars
  <2>3. QED
    BY <2>1, <2>2
<1>6. GateInv'
  BY <1>3 DEF IInv, GateInv, groupVars, selectorVars
<1>7. SelectorInv'
  BY <1>4, <1>5 DEF IInv, SelectorInv, groupVars, selectorVars
<1>8. QED
  BY <1>6, <1>7 DEF IInv

(* A task that goes on with another call of its rounds, or that stops.     *)
LEMMA RoundStep ==
  ASSUME IInv, TypeOK', NEW c \in Candidates, NEW y \in InRounds,
         pc[c] = "reply", stage[c] \in InRounds,
         pc' = Call(pc, c), stage' = [stage EXCEPT ![c] = y],
         UNCHANGED <<groupVars, selectorVars>>
  PROVE  IInv'
<1>1. pc'[c] = "model" /\ stage'[c] = y
  BY DEF Call, IInv, TypeOK
<1>2. GateTask(c) /\ SelectorTask(c)
  BY DEF IInv, GateInv, SelectorInv
<1>3. c \notin selIn
  BY <1>2 DEF SelectorTask, InRounds
<1>4. GateTask(c)'
  BY <1>1, <1>2 DEF GateTask, InRounds, groupVars
<1>5. SelectorTask(c)'
  BY <1>1, <1>2, <1>3 DEF SelectorTask, Running, InRounds, groupVars, selectorVars
<1>6. pool = {} \/ leader # c \/ ~poolOpen
  BY <1>3 DEF IInv, SelectorInv, LeaderInv
<1>7. QED
  BY <1>4, <1>5, <1>6, LocalStep DEF Call

LEMMA StopStep ==
  ASSUME IInv, TypeOK', NEW c \in Candidates, pc[c] \in {"model", "reply"},
         pc' = Stop(pc, c), UNCHANGED <<stage, groupVars, selectorVars>>
  PROVE  IInv'
<1>1. pc'[c] = "cleanup50" /\ stage' = [stage EXCEPT ![c] = stage[c]]
  BY DEF Stop, IInv, TypeOK
<1>2. GateTask(c) /\ SelectorTask(c)
  BY DEF IInv, GateInv, SelectorInv
<1>3. GateTask(c)'
  BY <1>1, <1>2 DEF GateTask, Running, groupVars
<1>4. SelectorTask(c)'
  BY <1>1, <1>2 DEF SelectorTask, Running, groupVars, selectorVars
<1>5. pool = {} \/ leader # c \/ ~poolOpen \/ stage[c] = "selector"
  BY DEF IInv, SelectorInv, LeaderInv
<1>6. QED
  BY <1>1, <1>3, <1>4, <1>5, LocalStep DEF Stop

(* The step in which candidate c submits its gate record: it goes on as x  *)
(* at stage y, and if the gate opened every sleeper was woken.             *)
LEMMA GateStep ==
  ASSUME IInv, TypeOK', Gated, NEW c \in Candidates \ recorded, NEW rec, NEW x, NEW y,
         SubmitGateRecord(c, rec),
         pc' = [Woken(pc) EXCEPT ![c] = x],
         stage' = [stage EXCEPT ![c] = y],
         told' = told \union ({c} \intersect selected'),
         UNCHANGED selectorVars,
         GateTask(c)', SelectorTask(c)'
  PROVE  IInv'
<1>1. /\ ~gateOpen /\ ~poolOpen /\ selected = {} /\ told = {} /\ selIn = {}
      /\ recorded' = recorded \union {c}
      /\ gateOpen' = (recorded' = Candidates)
      /\ gateOpen' => selected' = Choose(records')
      /\ ~gateOpen' => selected' = {}
  BY GateSubmission
<1>2. /\ pc \in [Candidates -> PC] /\ stage \in [Candidates -> Stages]
      /\ DOMAIN records = Candidates
  BY DEF IInv, TypeOK
<1>3. records' = [records EXCEPT ![c] = rec]
  BY DEF SubmitGateRecord
<1>4. ASSUME NEW d \in Candidates \ {c}
      PROVE  GateTask(d)' /\ SelectorTask(d)'
  <2>1. GateTask(d) /\ SelectorTask(d)
    BY DEF IInv, GateInv, SelectorInv
  <2>2. stage'[d] = stage[d] /\ records'[d] = records[d]
    BY <1>2, <1>3
  <2>3. pc'[d] = Woken(pc)[d]
    <3>1. Woken(pc) \in [Candidates -> PC]
      BY <1>2, NotifyAllType DEF Woken
    <3>2. QED
      BY <3>1
  <2>4. stage[d] = "proof" /\ pc[d] \notin {"gateWoken", "group", "groupWoken"}
    BY <1>1, <2>1 DEF GateTask, SelectorTask
  <2>5. pc'[d] = IF gateOpen' /\ pc[d] = "gate" THEN "gateWoken" ELSE pc[d]
    BY <1>1, <1>2, <2>3, <2>4, NotifyAllEffect DEF Woken
  <2>6. d \notin told' /\ selIn' = {} /\ poolOpen' = FALSE
    BY <1>1 DEF selectorVars, IInv, TypeOK
  <2>7. d \in selected' => pc'[d] = "gateWoken"
    <3>1. SUFFICES ASSUME d \in selected' PROVE pc'[d] = "gateWoken"
      OBVIOUS
    <3>2. gateOpen' /\ d \in recorded
      BY <1>1, <3>1
    <3>3. records'[d].valid
      BY <1>1, <3>1, <3>2 DEF Choose, Valid
    <3>4. pc[d] = "gate"
      BY <1>1, <2>1, <2>2, <3>2, <3>3 DEF GateTask
    <3>5. QED
      BY <2>5, <3>2, <3>4
  <2>8. GateTask(d)'
    BY <1>1, <2>1, <2>2, <2>4, <2>5, <2>6, <2>7 DEF GateTask, Running
  <2>9. SelectorTask(d)'
    BY <2>1, <2>2, <2>4, <2>5, <2>6 DEF SelectorTask
  <2>10. QED
    BY <2>8, <2>9
<1>5. GateInv'
  <2>1. told' \subseteq selected' /\ selIn' \subseteq told' /\ selFailed' \subseteq selIn'
    BY <1>1 DEF IInv, GateInv, selectorVars
  <2>2. gateOpen' = (Gated /\ recorded' = Candidates)
    BY <1>1
  <2>3. QED
    BY <1>1, <1>4, <2>1, <2>2 DEF GateInv
<1>6. SelectorInv'
  BY <1>1, <1>4 DEF IInv, SelectorInv, LeaderInv, selectorVars, TypeOK
<1>7. QED
  BY <1>5, <1>6 DEF IInv

(* The step in which candidate c submits its selector record, going on as  *)
(* x at stage y; if the pool was made every sleeper was woken.             *)
LEMMA SelectorStep ==
  ASSUME IInv, TypeOK', Gated, SelectorEnabled, NEW c \in told \ selIn, NEW wk,
         NEW failed \in BOOLEAN, NEW x, NEW y,
         SubmitSelectorRecord(c, wk, failed),
         pc' = [WokenBySelector(pc) EXCEPT ![c] = x],
         stage' = [stage EXCEPT ![c] = y],
         UNCHANGED groupVars,
         GateTask(c)', SelectorTask(c)',
         c = leader' /\ poolOpen' /\ pool' # {} /\ ~failed => y = "selector"
  PROVE  IInv'
<1>1. /\ gateOpen /\ ~poolOpen /\ c \in Candidates
      /\ selIn' = selIn \union {c}
      /\ selFailed' = IF failed THEN selFailed \union {c} ELSE selFailed
      /\ poolOpen' = (selIn' = selected)
      /\ WokenBySelector(pc) = IF poolOpen' THEN NotifyAll(pc) ELSE pc
      /\ poolOpen' /\ pool' # {} => leader' \in selIn' \ selFailed'
  BY SelectorSubmission
<1>2. pc \in [Candidates -> PC] /\ stage \in [Candidates -> Stages]
  BY DEF IInv, TypeOK
<1>3. ASSUME NEW d \in Candidates \ {c}
      PROVE  GateTask(d)' /\ SelectorTask(d)'
             /\ (pc[d] = "group" /\ poolOpen' => pc'[d] = "groupWoken")
  <2>1. GateTask(d) /\ SelectorTask(d)
    BY DEF IInv, GateInv, SelectorInv
  <2>2. stage'[d] = stage[d]
    BY <1>2
  <2>3. pc'[d] = WokenBySelector(pc)[d]
    <3>1. WokenBySelector(pc) \in [Candidates -> PC]
      BY <1>1, <1>2, NotifyAllType
    <3>2. QED
      BY <1>1, <3>1
  <2>4. pc[d] \notin {"gate", "groupWoken"}
    BY <1>1, <2>1 DEF GateTask, SelectorTask
  <2>5. pc'[d] = IF poolOpen' /\ pc[d] = "group" THEN "groupWoken" ELSE pc[d]
    BY <1>1, <1>2, <2>3, <2>4, NotifyAllEffect
  <2>6. GateTask(d)'
    BY <2>1, <2>2, <2>4, <2>5 DEF GateTask, Running, groupVars
  <2>7. SelectorTask(d)'
    BY <1>1, <2>1, <2>2, <2>4, <2>5 DEF SelectorTask, Running, groupVars
  <2>8. QED
    BY <2>5, <2>6, <2>7
<1>4. LeaderInv'
  <2>1. SUFFICES ASSUME poolOpen', pool' # {}
                 PROVE  /\ leader' \in selIn' \ selFailed'
                        /\ pc'[leader'] = "groupWoken" \/ stage'[leader'] = "selector"
    BY DEF LeaderInv
  <2>2. leader' \in selIn' \ selFailed'
    BY <1>1, <2>1
  <2>3. CASE leader' = c
    <3>1. ~failed
      BY <1>1, <2>2, <2>3
    <3>2. QED
      BY <1>1, <1>2, <2>1, <2>2, <2>3, <3>1
  <2>4. CASE leader' # c
    <3>1. leader' \in selIn \ selFailed /\ leader' \in Candidates
      BY <1>1, <2>2, <2>4 DEF IInv, TypeOK
    <3>2. pc[leader'] = "group"
      BY <1>1, <3>1 DEF IInv, SelectorInv, SelectorTask
    <3>3. QED
      BY <1>3, <2>1, <2>2, <2>4, <3>1, <3>2
  <2>5. QED
    BY <2>3, <2>4
<1>5. GateInv'
  <2>1. selIn' \subseteq told' /\ selFailed' \subseteq selIn'
    BY <1>1 DEF IInv, GateInv, groupVars
  <2>2. QED
    BY <1>3, <2>1 DEF IInv, GateInv, groupVars
<1>6. SelectorInv'
  BY <1>1, <1>3, <1>4 DEF SelectorInv, groupVars
<1>7. QED
  BY <1>5, <1>6 DEF IInv

LEMMA FinishCandidateKeeps ==
  ASSUME IInv, TypeOK', NEW c \in Candidates, NEW w, NEW pl,
         pc[c] = "reply", stage[c] \in InRounds, FinishCandidate(c, w, pl)
  PROVE  IInv'
<1>1. GateTask(c) /\ SelectorTask(c)
  BY DEF IInv, GateInv, SelectorInv
<1>2. c \notin selIn
  BY <1>1 DEF SelectorTask, InRounds
<1>3. UNCHANGED groupVars /\ pc \in [Candidates -> PC] /\ stage \in [Candidates -> Stages]
  BY DEF FinishCandidate, IInv, TypeOK
<1>4. CASE ~SelectorEnabled
  <2>1. pc' = Stop(pc, c) /\ UNCHANGED <<stage, selectorVars>>
    BY <1>4 DEF FinishCandidate
  <2>2. QED
    BY <1>3, <2>1, StopStep
<1>5. CASE SelectorEnabled /\ ~Gated
  <2>1. UNCHANGED selectorVars
    BY <1>5 DEF FinishCandidate
  <2>2. CASE pc' = Stop(pc, c) /\ UNCHANGED stage
    BY <1>3, <2>1, <2>2, StopStep
  <2>3. CASE pc' = Call(pc, c) /\ stage' = [stage EXCEPT ![c] = "selector"]
    <3>1. pc'[c] = "model" /\ stage'[c] = "selector"
      BY <1>3, <2>3 DEF Call
    <3>2. GateTask(c)'
      BY <1>1, <1>3, <1>5, <3>1 DEF GateTask, groupVars
    <3>3. SelectorTask(c)'
      BY <1>1, <1>2, <1>5, <2>1, <3>1 DEF SelectorTask, selectorVars
    <3>4. QED
      BY <1>3, <2>1, <2>3, <3>2, <3>3, LocalStep DEF Call
  <2>4. QED
    BY <1>5, <2>2, <2>3 DEF FinishCandidate
<1>6. CASE SelectorEnabled /\ Gated
  <2>1. c \in told
    BY <1>1, <1>6 DEF GateTask, InRounds
  <2>2. /\ SubmitSelectorRecord(c, work', FALSE)
        /\ IF poolOpen' THEN ConcludeGroup(c, WokenBySelector(pc), leader', pool')
                        ELSE pc' = [pc EXCEPT ![c] = "group"] /\ UNCHANGED stage
    BY <1>6 DEF FinishCandidate
  <2>3. /\ gateOpen /\ ~poolOpen
        /\ selIn' = selIn \union {c}
        /\ selFailed' = selFailed
        /\ poolOpen' = (selIn' = selected)
        /\ WokenBySelector(pc) = IF poolOpen' THEN NotifyAll(pc) ELSE pc
    BY <1>2, <1>6, <2>1, <2>2, SelectorSubmission
  <2>4. WokenBySelector(pc) \in [Candidates -> PC]
    BY <1>3, <2>3, NotifyAllType
  <2>5. c \in selIn' /\ c \in recorded /\ c \notin selected' \ told'
    BY <1>3, <2>1, <2>3 DEF IInv, GateInv, groupVars
  <2>6. ASSUME NEW x, NEW y,
               pc' = [WokenBySelector(pc) EXCEPT ![c] = x],
               stage' = [stage EXCEPT ![c] = y],
               \/ x = "model" /\ y = "selector" /\ c = leader' /\ poolOpen'
               \/ x = "cleanup50" /\ y = stage[c] /\ poolOpen' /\ ~(c = leader' /\ pool' # {})
               \/ x = "group" /\ y = stage[c] /\ ~poolOpen'
        PROVE  IInv'
    <3>1. pc'[c] = x /\ stage'[c] = y
      BY <1>3, <2>4, <2>6
    <3>2. GateTask(c)'
      BY <1>1, <1>3, <1>6, <2>1, <2>3, <2>5, <2>6, <3>1 DEF GateTask, InRounds, groupVars
    <3>3. SelectorTask(c)'
      BY <1>1, <1>3, <1>6, <2>1, <2>5, <2>6, <3>1 DEF SelectorTask, Running, InRounds
    <3>4. QED
      BY <1>2, <1>3, <1>6, <2>1, <2>2, <2>6, <3>2, <3>3, SelectorStep
  <2>7. stage = [stage EXCEPT ![c] = stage[c]]
    BY <1>3
  <2>8. CASE poolOpen' /\ c = leader' /\ pool' # {}
    BY <2>2, <2>6, <2>8 DEF ConcludeGroup, Call
  <2>9. CASE poolOpen' /\ ~(c = leader' /\ pool' # {})
    BY <2>2, <2>6, <2>7, <2>9 DEF ConcludeGroup, Stop
  <2>10. CASE ~poolOpen'
    BY <2>2, <2>3, <2>6, <2>7, <2>10
  <2>11. QED
    BY <2>8, <2>9, <2>10
<1>7. QED
  BY <1>4, <1>5, <1>6

LEMMA FinishRoundKeeps ==
  ASSUME IInv, TypeOK', NEW c \in Candidates, NEW w,
         pc[c] = "reply", stage[c] \in InRounds, FinishRound(c, w)
  PROVE  IInv'
<1>1. CASE pc' = Call(pc, c) /\ stage' = [stage EXCEPT ![c] = "refine"]
           /\ UNCHANGED <<groupVars, selectorVars>>
  BY <1>1, RoundStep DEF InRounds
<1>2. CASE \E v, pl : FinishCandidate(c, v, pl)
  BY <1>2, FinishCandidateKeeps
<1>3. QED
  BY <1>1, <1>2 DEF FinishRound

LEMMA AfterVerifierResultKeeps ==
  ASSUME IInv, TypeOK', NEW c \in Candidates, NEW term,
         pc[c] = "reply", stage[c] \in InRounds, AfterVerifierResult(c, term)
  PROVE  IInv'
<1>1. CASE pc' = Call(pc, c) /\ stage' = [stage EXCEPT ![c] = "verifier"]
           /\ UNCHANGED <<groupVars, selectorVars>>
  BY <1>1, RoundStep DEF InRounds
<1>2. CASE \E w : FinishRound(c, w)
  BY <1>2, FinishRoundKeeps
<1>3. QED
  BY <1>1, <1>2 DEF AfterVerifierResult

LEMMA AdvanceProofKeeps ==
  ASSUME IInv, TypeOK', NEW c \in Candidates, AdvanceProof(c)
  PROVE  IInv'
<1>1. pc[c] = "reply" /\ stage[c] = "proof" /\ UNCHANGED selectorVars
  BY DEF AdvanceProof
<1>2. GateTask(c) /\ SelectorTask(c)
  BY DEF IInv, GateInv, SelectorInv
<1>3. c \notin recorded
  BY <1>1, <1>2 DEF GateTask
<1>4. pc \in [Candidates -> PC] /\ stage \in [Candidates -> Stages]
  BY DEF IInv, TypeOK
<1>5. stage = [stage EXCEPT ![c] = "proof"]
  BY <1>1, <1>4
<1>6. CASE ~Gated
  <2>1. PICK w : AfterGate(c, pc, w, TRUE) /\ UNCHANGED groupVars
    BY <1>6 DEF AdvanceProof
  <2>2. CASE pc' = Stop(pc, c) /\ UNCHANGED stage
    BY <1>1, <2>1, <2>2, StopStep
  <2>3. CASE pc' = Call(pc, c) /\ stage' = [stage EXCEPT ![c] = "verifier"]
    <3>1. pc'[c] = "model" /\ stage'[c] = "verifier"
      BY <1>4, <2>3 DEF Call
    <3>2. ~gateOpen /\ selected = {} /\ selIn = {} /\ ~poolOpen
      BY <1>6 DEF IInv, GateInv, SelectorInv
    <3>3. GateTask(c)'
      BY <1>2, <1>6, <2>1, <3>1 DEF GateTask, groupVars
    <3>4. SelectorTask(c)'
      BY <1>1, <1>6, <3>1, <3>2 DEF SelectorTask, selectorVars
    <3>5. QED
      BY <1>1, <2>1, <2>3, <3>2, <3>3, <3>4, LocalStep DEF Call
  <2>4. QED
    BY <2>1, <2>2, <2>3 DEF AfterGate
<1>7. CASE Gated
  <2>1. PICK w, rec :
          /\ SubmitGateRecord(c, rec)
          /\ IF gateOpen'
             THEN /\ told' = IF c \in selected' THEN told \union {c} ELSE told
                  /\ AfterGate(c, Woken(pc), w, c \in selected')
             ELSE /\ pc' = [pc EXCEPT ![c] = "gate"]
                  /\ UNCHANGED <<told, stage>>
    BY <1>7 DEF AdvanceProof
  <2>2. /\ ~gateOpen /\ ~poolOpen /\ selected = {} /\ told = {} /\ selIn = {}
        /\ recorded' = recorded \union {c}
        /\ gateOpen' = (recorded' = Candidates)
        /\ ~gateOpen' => selected' = {}
    BY <1>3, <1>7, <2>1, GateSubmission
  <2>3. told' = told \union ({c} \intersect selected')
    BY <2>1, <2>2
  <2>4. Woken(pc) \in [Candidates -> PC] /\ (~gateOpen' => Woken(pc) = pc)
    BY <1>4, <2>2, NotifyAllType DEF Woken
  <2>5. ASSUME NEW x, NEW y,
               pc' = [Woken(pc) EXCEPT ![c] = x],
               stage' = [stage EXCEPT ![c] = y],
               \/ x = "model" /\ y = "verifier" /\ c \in selected' /\ gateOpen'
               \/ x = "cleanup50" /\ y = "proof" /\ gateOpen'
               \/ x = "gate" /\ y = "proof" /\ ~gateOpen'
        PROVE  IInv'
    <3>1. pc'[c] = x /\ stage'[c] = y
      BY <1>4, <2>4, <2>5
    <3>2. c \in recorded' /\ c \notin selected' \ told' /\ c \notin selIn'
          /\ (c \in selected' => c \in told') /\ (c \in told' => gateOpen')
      BY <1>1, <2>2, <2>3 DEF selectorVars
    <3>3. GateTask(c)'
      BY <1>7, <2>5, <3>1, <3>2 DEF GateTask
    <3>4. SelectorTask(c)'
      BY <2>5, <3>1, <3>2 DEF SelectorTask, Running
    <3>5. QED
      BY <1>1, <1>3, <1>7, <2>1, <2>3, <2>5, <3>3, <3>4, GateStep
  <2>6. CASE gateOpen'
    <3>1. AfterGate(c, Woken(pc), w, c \in selected')
      BY <2>1, <2>6
    <3>2. CASE pc' = Call(Woken(pc), c) /\ stage' = [stage EXCEPT ![c] = "verifier"]
               /\ c \in selected'
      BY <2>5, <2>6, <3>2 DEF Call
    <3>3. CASE pc' = Stop(Woken(pc), c) /\ UNCHANGED stage
      BY <1>5, <2>5, <2>6, <3>3 DEF Stop
    <3>4. QED
      BY <3>1, <3>2, <3>3 DEF AfterGate
  <2>7. CASE ~gateOpen'
    BY <1>5, <2>1, <2>4, <2>5, <2>7
  <2>8. QED
    BY <2>6, <2>7
<1>8. QED
  BY <1>6, <1>7

LEMMA ResumeAtGateKeeps ==
  ASSUME IInv, TypeOK', NEW c \in Candidates, ResumeAtGate(c)
  PROVE  IInv'
<1>1. pc[c] = "gateWoken" /\ UNCHANGED <<recorded, records, gateOpen, selected, selectorVars>>
  BY DEF ResumeAtGate
<1>2. GateTask(c) /\ SelectorTask(c)
  BY DEF IInv, GateInv, SelectorInv
<1>3. Gated /\ gateOpen /\ stage[c] = "proof" /\ c \notin told /\ c \notin selIn
  BY <1>1, <1>2 DEF GateTask, IInv, GateInv
<1>4. /\ told' = IF c \in selected THEN told \union {c} ELSE told
      /\ AfterGate(c, pc, work[c], c \in selected)
  BY <1>3 DEF ResumeAtGate
<1>5. pc \in [Candidates -> PC] /\ stage \in [Candidates -> Stages]
  BY DEF IInv, TypeOK
<1>6. PICK x, y :
        /\ pc' = [pc EXCEPT ![c] = x] /\ stage' = [stage EXCEPT ![c] = y]
        /\ \/ x = "model" /\ y = "verifier" /\ c \in selected
           \/ x = "cleanup50" /\ y = "proof"
  <2>1. stage = [stage EXCEPT ![c] = "proof"]
    BY <1>3, <1>5
  <2>2. QED
    BY <1>4, <2>1 DEF AfterGate, Call, Stop
<1>7. ASSUME NEW d \in Candidates
      PROVE  GateTask(d)' /\ SelectorTask(d)'
  <2>1. GateTask(d) /\ SelectorTask(d)
    BY DEF IInv, GateInv, SelectorInv
  <2>2. CASE d = c
    <3>1. pc'[c] = x /\ stage'[c] = y
      BY <1>5, <1>6
    <3>2. c \in recorded
      BY <1>3 DEF IInv, GateInv
    <3>3. GateTask(c)'
      BY <1>1, <1>3, <1>4, <1>6, <3>1, <3>2 DEF GateTask
    <3>4. SelectorTask(c)'
      <4>1. c \notin selIn'
        BY <1>1, <1>3 DEF selectorVars
      <4>2. pc'[c] \in {"model", "cleanup50"} /\ stage'[c] # "selector"
        BY <1>6, <3>1
      <4>3. QED
        BY <4>1, <4>2 DEF SelectorTask, Running
    <3>5. QED
      BY <2>2, <3>3, <3>4
  <2>3. CASE d # c
    <3>1. pc'[d] = pc[d] /\ stage'[d] = stage[d] /\ (d \in told' <=> d \in told)
      BY <1>4, <1>5, <1>6, <2>3
    <3>2. QED
      BY <1>1, <2>1, <3>1 DEF GateTask, SelectorTask, selectorVars
  <2>4. QED
    BY <2>2, <2>3
<1>8. GateInv'
  <2>1. told' \subseteq selected' /\ selIn' \subseteq told'
    BY <1>1, <1>4 DEF IInv, GateInv, selectorVars
  <2>2. QED
    BY <1>1, <1>7, <2>1 DEF IInv, GateInv, selectorVars
<1>9. LeaderInv'
  <2>1. SUFFICES ASSUME poolOpen, pool # {}
                 PROVE  /\ leader \in selIn \ selFailed
                        /\ pc'[leader] = "groupWoken" \/ stage'[leader] = "selector"
    BY <1>1 DEF LeaderInv, selectorVars
  <2>2. /\ leader \in selIn \ selFailed /\ leader \in Candidates
        /\ pc[leader] = "groupWoken" \/ stage[leader] = "selector"
    BY <2>1 DEF IInv, SelectorInv, LeaderInv, TypeOK
  <2>3. leader # c
    BY <1>3, <2>2
  <2>4. QED
    BY <1>5, <1>6, <2>2, <2>3
<1>10. SelectorInv'
  BY <1>1, <1>7, <1>9 DEF IInv, SelectorInv, selectorVars
<1>11. QED
  BY <1>8, <1>10 DEF IInv

LEMMA ReleaseGateKeeps ==
  ASSUME IInv, TypeOK', NEW c \in Candidates, ReleaseGate(c)
  PROVE  IInv'
<1>1. pc[c] = "cleanup50" /\ UNCHANGED <<stage, selectorVars>>
  BY DEF ReleaseGate
<1>2. GateTask(c) /\ SelectorTask(c)
  BY DEF IInv, GateInv, SelectorInv
<1>3. pc \in [Candidates -> PC] /\ stage' = [stage EXCEPT ![c] = stage[c]]
  BY <1>1 DEF IInv, TypeOK
<1>4. CASE Gated /\ c \notin recorded
  <2>1. /\ SubmitGateRecord(c, InvalidRecord)
        /\ told' = IF gateOpen' /\ c \in selected' THEN told \union {c} ELSE told
        /\ pc' = [Woken(pc) EXCEPT ![c] = "cleanup40"]
    BY <1>4 DEF ReleaseGate
  <2>2. /\ told = {} /\ selected = {} /\ selIn = {}
        /\ recorded' = recorded \union {c}
        /\ gateOpen' => selected' = Choose(records')
        /\ ~gateOpen' => selected' = {}
    BY <1>4, <2>1, GateSubmission
  <2>3. records'[c] = InvalidRecord
    BY <2>1 DEF SubmitGateRecord, IInv, TypeOK
  <2>4. c \notin selected'
    <3>1. ~records'[c].valid
      BY <2>3 DEF InvalidRecord
    <3>2. c \notin Choose(records')
      BY <3>1 DEF Choose, Valid
    <3>3. QED
      BY <2>2, <3>2
  <2>5. told' = told \union ({c} \intersect selected') /\ c \notin told'
    BY <2>1, <2>2, <2>4
  <2>6. pc'[c] = "cleanup40" /\ stage'[c] = stage[c] /\ stage[c] = "proof"
    <3>1. Woken(pc) \in [Candidates -> PC]
      BY <1>3, NotifyAllType DEF Woken
    <3>2. QED
      BY <1>1, <1>2, <1>4, <2>1, <3>1 DEF GateTask
  <2>7. GateTask(c)'
    BY <2>2, <2>3, <2>4, <2>6 DEF GateTask, InvalidRecord
  <2>8. SelectorTask(c)'
    BY <1>1, <2>2, <2>5, <2>6 DEF SelectorTask, selectorVars
  <2>9. QED
    BY <1>1, <1>3, <1>4, <2>1, <2>5, <2>7, <2>8, GateStep
<1>5. CASE ~(Gated /\ c \notin recorded)
  <2>1. pc' = [pc EXCEPT ![c] = "cleanup40"] /\ UNCHANGED groupVars
    BY <1>5 DEF ReleaseGate
  <2>2. pc'[c] = "cleanup40" /\ stage'[c] = stage[c]
    BY <1>1, <1>3, <2>1
  <2>3. GateTask(c)'
    BY <1>1, <1>2, <1>5, <2>1, <2>2 DEF GateTask, groupVars
  <2>4. SelectorTask(c)'
    BY <1>1, <1>2, <2>1, <2>2 DEF SelectorTask, groupVars, selectorVars
  <2>5. pool = {} \/ leader # c \/ ~poolOpen \/ stage[c] = "selector"
    BY <1>1 DEF IInv, SelectorInv, LeaderInv
  <2>6. QED
    BY <1>1, <1>3, <2>1, <2>3, <2>4, <2>5, LocalStep
<1>6. QED
  BY <1>4, <1>5

LEMMA ReleaseSelectorKeeps ==
  ASSUME IInv, TypeOK', NEW c \in Candidates, ReleaseSelector(c)
  PROVE  IInv'
<1>1. pc[c] = "cleanup40" /\ UNCHANGED <<stage, groupVars>>
  BY DEF ReleaseSelector
<1>2. GateTask(c) /\ SelectorTask(c)
  BY DEF IInv, GateInv, SelectorInv
<1>3. pc \in [Candidates -> PC] /\ stage' = [stage EXCEPT ![c] = stage[c]]
  BY <1>1 DEF IInv, TypeOK
<1>4. CASE SelectorEnabled /\ Gated /\ c \in told \ selIn
  <2>1. /\ SubmitSelectorRecord(c, work, TRUE)
        /\ pc' = [WokenBySelector(pc) EXCEPT ![c] = "done"]
    BY <1>4 DEF ReleaseSelector
  <2>2. /\ ~poolOpen
        /\ selIn' = selIn \union {c} /\ selFailed' = selFailed \union {c}
        /\ WokenBySelector(pc) = IF poolOpen' THEN NotifyAll(pc) ELSE pc
    BY <1>4, <2>1, SelectorSubmission
  <2>3. pc'[c] = "done" /\ stage'[c] = stage[c]
    <3>1. WokenBySelector(pc) \in [Candidates -> PC]
      BY <1>3, <2>2, NotifyAllType
    <3>2. QED
      BY <1>1, <2>1, <3>1
  <2>4. GateTask(c)'
    BY <1>1, <1>2, <2>3 DEF GateTask, Running, groupVars
  <2>5. SelectorTask(c)'
    BY <1>1, <1>2, <2>2, <2>3 DEF SelectorTask
  <2>6. QED
    BY <1>1, <1>3, <1>4, <2>1, <2>4, <2>5, SelectorStep
<1>5. CASE ~(SelectorEnabled /\ Gated /\ c \in told \ selIn)
  <2>1. pc' = [pc EXCEPT ![c] = "done"] /\ UNCHANGED selectorVars
    BY <1>5 DEF ReleaseSelector
  <2>2. pc'[c] = "done" /\ stage'[c] = stage[c]
    BY <1>1, <1>3, <2>1
  <2>3. GateTask(c)'
    BY <1>1, <1>2, <2>1, <2>2 DEF GateTask, Running, groupVars
  <2>4. SelectorTask(c)'
    BY <1>1, <1>2, <1>5, <2>1, <2>2 DEF SelectorTask, groupVars, selectorVars
  <2>5. pool = {} \/ leader # c \/ ~poolOpen \/ stage[c] = "selector"
    BY <1>1 DEF IInv, SelectorInv, LeaderInv
  <2>6. QED
    BY <1>1, <1>3, <2>1, <2>3, <2>4, <2>5, LocalStep
<1>6. QED
  BY <1>4, <1>5

LEMMA ResumeAtSelectorKeeps ==
  ASSUME IInv, TypeOK', NEW c \in Candidates, ResumeAtSelector(c)
  PROVE  IInv'
<1>1. pc[c] = "groupWoken" /\ UNCHANGED <<groupVars, selectorVars>>
  BY DEF ResumeAtSelector
<1>2. GateTask(c) /\ SelectorTask(c)
  BY DEF IInv, GateInv, SelectorInv
<1>3. Gated /\ c \in selIn /\ poolOpen /\ gateOpen /\ c \in told /\ c \in recorded
  BY <1>1, <1>2 DEF SelectorTask, IInv, GateInv, SelectorInv
<1>4. ConcludeGroup(c, pc, leader, pool)
  BY <1>1, <1>3 DEF ResumeAtSelector
<1>5. pc \in [Candidates -> PC] /\ stage = [stage EXCEPT ![c] = stage[c]]
  BY DEF IInv, TypeOK
<1>6. PICK x, y :
        /\ pc' = [pc EXCEPT ![c] = x] /\ stage' = [stage EXCEPT ![c] = y]
        /\ \/ x = "model" /\ y = "selector" /\ c = leader
           \/ x = "cleanup50" /\ y = stage[c] /\ ~(c = leader /\ pool # {})
  BY <1>4, <1>5 DEF ConcludeGroup, Call, Stop
<1>7. pc'[c] = x /\ stage'[c] = y
  BY <1>6 DEF IInv, TypeOK
<1>8. GateTask(c)'
  BY <1>1, <1>2, <1>3, <1>6, <1>7 DEF GateTask, groupVars
<1>9. SelectorTask(c)'
  BY <1>1, <1>2, <1>3, <1>6, <1>7 DEF SelectorTask, groupVars, selectorVars
<1>10. QED
  BY <1>1, <1>6, <1>8, <1>9, LocalStep

LEMMA ReplyKeeps ==
  ASSUME IInv, TypeOK', NEW c \in Candidates, Reply(c)
  PROVE  IInv'
<1>1. pc[c] = "model" /\ UNCHANGED <<stage, groupVars, selectorVars>>
  BY DEF Reply
<1>2. CASE pc' = [pc EXCEPT ![c] = "cleanup50"]
  BY <1>1, <1>2, StopStep DEF Stop
<1>3. CASE pc' = [pc EXCEPT ![c] = "reply"]
  <2>1. GateTask(c) /\ SelectorTask(c)
    BY DEF IInv, GateInv, SelectorInv
  <2>2. pc'[c] = "reply" /\ stage' = [stage EXCEPT ![c] = stage[c]]
    BY <1>1, <1>3 DEF IInv, TypeOK
  <2>3. GateTask(c)'
    BY <1>1, <2>1, <2>2 DEF GateTask, Running, groupVars
  <2>4. SelectorTask(c)'
    BY <1>1, <2>1, <2>2 DEF SelectorTask, Running, groupVars, selectorVars
  <2>5. pool = {} \/ leader # c \/ ~poolOpen \/ stage[c] = "selector"
    BY <1>1 DEF IInv, SelectorInv, LeaderInv
  <2>6. QED
    BY <1>1, <1>3, <2>2, <2>3, <2>4, <2>5, LocalStep
<1>4. QED
  BY <1>2, <1>3 DEF Reply

LEMMA RolloutKeeps ==
  ASSUME IInv, NEW c \in Candidates, Rollout(c)
  PROVE  IInv'
<1>1. TypeOK'
  BY RolloutType DEF IInv
<1>2. CASE Reply(c)
  BY <1>1, <1>2, ReplyKeeps
<1>3. CASE Fail(c)
  BY <1>1, <1>3, StopStep DEF Fail
<1>4. CASE AdvanceProof(c)
  BY <1>1, <1>4, AdvanceProofKeeps
<1>5. CASE ResumeAtGate(c)
  BY <1>1, <1>5, ResumeAtGateKeeps
<1>6. CASE AdvanceVerifier(c)
  <2>1. pc[c] = "reply" /\ stage[c] \in InRounds
    BY <1>6 DEF AdvanceVerifier, InRounds
  <2>2. CASE \E term : AfterVerifierResult(c, term)
    BY <1>1, <2>1, <2>2, AfterVerifierResultKeeps
  <2>3. CASE pc' = Call(pc, c) /\ stage' = [stage EXCEPT ![c] = "meta"]
             /\ UNCHANGED <<groupVars, selectorVars>>
    BY <1>1, <2>1, <2>3, RoundStep DEF InRounds
  <2>4. QED
    BY <1>6, <2>2, <2>3 DEF AdvanceVerifier
<1>7. CASE AdvanceMeta(c)
  BY <1>1, <1>7, AfterVerifierResultKeeps DEF AdvanceMeta, InRounds
<1>8. CASE AdvanceRefine(c)
  <2>1. pc[c] = "reply" /\ stage[c] \in InRounds
    BY <1>8 DEF AdvanceRefine, InRounds
  <2>2. CASE pc' = Call(pc, c) /\ stage' = [stage EXCEPT ![c] = "verifier"]
             /\ UNCHANGED <<groupVars, selectorVars>>
    BY <1>1, <2>1, <2>2, RoundStep DEF InRounds
  <2>3. CASE \E w, pl : FinishCandidate(c, w, pl)
    BY <1>1, <2>1, <2>3, FinishCandidateKeeps
  <2>4. CASE pc' = Stop(pc, c) /\ UNCHANGED <<stage, groupVars, selectorVars>>
    BY <1>1, <2>1, <2>4, StopStep
  <2>5. QED
    BY <1>8, <2>2, <2>3, <2>4 DEF AdvanceRefine
<1>9. CASE ResumeAtSelector(c)
  BY <1>1, <1>9, ResumeAtSelectorKeeps
<1>10. CASE AdvanceSelector(c)
  BY <1>1, <1>10, StopStep DEF AdvanceSelector
<1>11. CASE ReleaseGate(c)
  BY <1>1, <1>11, ReleaseGateKeeps
<1>12. CASE ReleaseSelector(c)
  BY <1>1, <1>12, ReleaseSelectorKeeps
<1>13. QED
  BY <1>2, <1>3, <1>4, <1>5, <1>6, <1>7, <1>8, <1>9, <1>10, <1>11, <1>12 DEF Rollout

LEMMA InitIInv == Init => IInv
<1> SUFFICES ASSUME Init PROVE IInv
  OBVIOUS
<1>1. \A c \in Candidates : pc[c] = "model" /\ stage[c] = "proof"
  BY DEF Init
<1>2. Candidates # {}
  BY GroupAssumption DEF Candidates
<1>3. GateInv
  BY <1>1, <1>2 DEF Init, GateInv, GateTask, Running
<1>4. SelectorInv
  BY <1>1 DEF Init, SelectorInv, LeaderInv, SelectorTask
<1>5. QED
  BY <1>3, <1>4, InitType DEF IInv

LEMMA NextIInv == IInv /\ [Next]_vars => IInv'
<1> SUFFICES ASSUME IInv, [Next]_vars PROVE IInv'
  OBVIOUS
<1>1. CASE \E c \in Candidates : Rollout(c)
  BY <1>1, RolloutKeeps
<1>2. CASE UNCHANGED vars
  BY <1>2 DEF IInv, TypeOK, GateInv, GateTask, SelectorInv, LeaderInv, SelectorTask,
              vars, groupVars, selectorVars
<1>3. QED
  BY <1>1, <1>2 DEF Next, Finished

THEOREM Inductive == Spec => []IInv
  BY InitIInv, NextIInv, PTL DEF Spec

-----------------------------------------------------------------------------
(* No rollout is left asleep in condition.wait(), at the gate or at the    *)
(* selector: somebody who has yet to arrive is still running.              *)
THEOREM NoLostWakeup == Spec => []WaitersHaveAReleaser
<1>1. IInv => WaitersHaveAReleaser
  <2> SUFFICES ASSUME IInv PROVE WaitersHaveAReleaser
    OBVIOUS
  <2>1. ASSUME NEW c \in Candidates, pc[c] = "gate"
        PROVE  ~gateOpen /\ \E d \in Candidates \ recorded : pc[d] \in Running
    <3>1. Gated /\ ~gateOpen
      BY <2>1 DEF IInv, GateInv, GateTask
    <3>2. PICK d \in Candidates : d \notin recorded
      BY <3>1 DEF IInv, GateInv, TypeOK
    <3>3. pc[d] \in Running
      BY <3>1, <3>2 DEF IInv, GateInv, GateTask
    <3>4. QED
      BY <3>1, <3>2, <3>3
  <2>2. ASSUME NEW c \in Candidates, pc[c] = "group"
        PROVE  ~poolOpen
               /\ \E d \in selected \ selIn : pc[d] \in Running \union {"cleanup40", "gateWoken"}
    <3>1. Gated /\ SelectorEnabled /\ c \in selIn /\ ~poolOpen
      BY <2>2 DEF IInv, SelectorInv, SelectorTask
    <3>2. gateOpen /\ selIn \subseteq selected
      BY <3>1 DEF IInv, GateInv
    <3>3. PICK d \in selected : d \notin selIn
      BY <3>1, <3>2 DEF IInv, SelectorInv
    <3>4. d \in Candidates
      BY DEF IInv, TypeOK
    <3>5. CASE d \in told
      BY <3>1, <3>3, <3>4, <3>5 DEF IInv, SelectorInv, SelectorTask
    <3>6. CASE d \notin told
      BY <3>1, <3>3, <3>4, <3>6 DEF IInv, GateInv, GateTask
    <3>7. QED
      BY <3>1, <3>3, <3>5, <3>6
  <2>3. QED
    BY <2>1, <2>2 DEF WaitersHaveAReleaser
<1>2. QED
  BY <1>1, Inductive, PTL

(* Only the leader makes the selector call, after every chosen candidate   *)
(* handed in its rounds or failed, and the pool is elected for a leader    *)
(* that has not failed.                                                    *)
THEOREM SelectorCalledByLeader == Spec => []LeaderCallsSelector
<1>1. IInv => OneSelectorCall
  BY DEF IInv, GateInv, SelectorInv, SelectorTask, OneSelectorCall
<1>2. IInv => LeaderIsAlive
  BY DEF IInv, SelectorInv, LeaderInv, LeaderIsAlive
<1>3. IInv => LeaderCallsSelector
  BY <1>1, <1>2 DEF LeaderCallsSelector
<1>4. QED
  BY <1>3, Inductive, PTL

-----------------------------------------------------------------------------
(* The choice of the gate.  Counting the better records ranks the valid    *)
(* ones: no two have the same count, so the counts are 0 .. n - 1 and the  *)
(* ones below ContinueCount belong to that many records.                   *)

Typed(recs) ==
  recs \in [Candidates -> [valid : BOOLEAN, fmt : Nat, quality : {-1} \union Qualities]]

Better(recs, c) == {d \in Valid(recs) : Outranks(recs, d, c)}

LEMMA KeyIsANumber ==
  ASSUME NEW recs, Typed(recs), NEW c \in Valid(recs)
  PROVE  c \in Int /\ recs[c].fmt \in Int /\ recs[c].quality \in Int
<1>1. c \in Candidates /\ recs[c].valid
  BY DEF Valid
<1>2. c \in Int
  BY <1>1, GroupAssumption DEF Candidates
<1>3. recs[c] \in [valid : BOOLEAN, fmt : Nat, quality : {-1} \union Qualities]
  BY <1>1 DEF Typed
<1>4. recs[c].fmt \in Nat /\ recs[c].quality \in {-1} \union Qualities
  BY <1>3
<1>5. Qualities \subseteq Int
  BY GroupAssumption
<1>6. recs[c].quality \in Int
  <2>1. recs[c].quality = -1 \/ recs[c].quality \in Qualities
    BY <1>4
  <2>2. -1 \in Int
    OBVIOUS
  <2>3. QED
    BY <1>5, <2>1, <2>2, Zenon
<1>7. recs[c].fmt \in Int
  BY <1>4
<1>8. QED
  BY <1>2, <1>6, <1>7

(* Among valid records the key is the format score, the quality and the    *)
(* index, in this order.                                                   *)
LEMMA KeyOfValid ==
  ASSUME NEW recs, Typed(recs), NEW c \in Valid(recs), NEW d \in Valid(recs)
  PROVE  Outranks(recs, c, d) <=>
           \/ recs[c].fmt > recs[d].fmt
           \/ recs[c].fmt = recs[d].fmt /\ recs[c].quality > recs[d].quality
           \/ recs[c].fmt = recs[d].fmt /\ recs[c].quality = recs[d].quality /\ c < d
<1>1. c \in Candidates /\ d \in Candidates /\ recs[c].valid /\ recs[d].valid
  BY DEF Valid
<1>2. recs[c].valid \in BOOLEAN /\ recs[d].valid \in BOOLEAN
  BY <1>1 DEF Typed
<1>3. recs[c].valid = recs[d].valid
  BY <1>1, <1>2
<1>4. QED
  BY <1>1, <1>3 DEF Outranks

(* The sort key orders the valid records strictly and totally: ties are    *)
(* broken by the index.                                                    *)
LEMMA RankingIsTotal ==
  ASSUME NEW recs, Typed(recs), NEW c \in Valid(recs), NEW d \in Valid(recs)
  PROVE  /\ ~Outranks(recs, c, c)
         /\ c # d => Outranks(recs, c, d) \/ Outranks(recs, d, c)
         /\ Outranks(recs, c, d) => ~Outranks(recs, d, c)
  BY KeyIsANumber, KeyOfValid

LEMMA RankingIsTransitive ==
  ASSUME NEW recs, Typed(recs),
         NEW c \in Valid(recs), NEW d \in Valid(recs), NEW e \in Valid(recs),
         Outranks(recs, c, d), Outranks(recs, d, e)
  PROVE  Outranks(recs, c, e)
  BY KeyIsANumber, KeyOfValid

LEMMA ValidFinite ==
  ASSUME NEW recs
  PROVE  /\ IsFiniteSet(Valid(recs)) /\ Cardinality(Valid(recs)) \in Nat
         /\ \A c : IsFiniteSet(Better(recs, c)) /\ Cardinality(Better(recs, c)) \in Nat
<1>1. IsFiniteSet(Valid(recs))
  BY CandidatesFinite, FS_Subset DEF Valid
<1>2. ASSUME NEW c
      PROVE  IsFiniteSet(Better(recs, c))
  BY <1>1, FS_Subset DEF Better
<1>3. QED
  BY <1>1, <1>2, FS_CardinalityType

(* Who is outranked has more records above it than who outranks it.        *)
LEMMA BetterGrows ==
  ASSUME NEW recs, Typed(recs), NEW c \in Valid(recs), NEW d \in Valid(recs),
         Outranks(recs, c, d)
  PROVE  Cardinality(Better(recs, c)) < Cardinality(Better(recs, d))
<1>1. Better(recs, c) \subseteq Better(recs, d)
  BY RankingIsTransitive DEF Better
<1>2. c \in Better(recs, d) /\ c \notin Better(recs, c)
  BY RankingIsTotal DEF Better
<1>3. /\ Cardinality(Better(recs, c)) <= Cardinality(Better(recs, d))
      /\ Cardinality(Better(recs, c)) # Cardinality(Better(recs, d))
  BY <1>1, <1>2, ValidFinite, FS_Subset
<1>4. QED
  BY <1>3, ValidFinite

(* The place of a valid record is the number of better ones.               *)
Place(recs) == [c \in Valid(recs) |-> Cardinality(Better(recs, c))]

(* The places are 0 .. n - 1, each taken once.                             *)
LEMMA PlacesAreTaken ==
  ASSUME NEW recs, Typed(recs)
  PROVE  Place(recs) \in Bijection(Valid(recs), 0 .. Cardinality(Valid(recs)) - 1)
<1> DEFINE n == Cardinality(Valid(recs))
           place == Place(recs)
<1>1. n \in Nat
  BY ValidFinite
<1>2. ASSUME NEW c \in Valid(recs)
      PROVE  Cardinality(Better(recs, c)) \in 0 .. n - 1
  <2>1. Better(recs, c) \subseteq Valid(recs) /\ c \notin Better(recs, c)
    BY RankingIsTotal DEF Better
  <2>2. Cardinality(Better(recs, c)) <= n /\ Cardinality(Better(recs, c)) # n
    BY <2>1, ValidFinite, FS_Subset
  <2>3. QED
    BY <2>2, ValidFinite
<1>3. place \in [Valid(recs) -> 0 .. n - 1]
  BY <1>2 DEF Place
<1>4. ASSUME NEW c \in Valid(recs), NEW d \in Valid(recs), place[c] = place[d]
      PROVE  c = d
  <2>1. Cardinality(Better(recs, c)) = Cardinality(Better(recs, d))
    BY <1>4 DEF Place
  <2>2. ~Outranks(recs, c, d) /\ ~Outranks(recs, d, c)
    BY <2>1, BetterGrows, ValidFinite
  <2>3. QED
    BY <2>2, RankingIsTotal
<1> HIDE DEF place, n
<1>5. place \in Injection(Valid(recs), 0 .. n - 1)
  BY <1>3, <1>4 DEF Injection, IsInjective
<1>6. IsFiniteSet(0 .. n - 1) /\ Cardinality(0 .. n - 1) = n
  BY <1>1, FS_Interval
<1>7. place \in Surjection(Valid(recs), 0 .. n - 1)
  BY <1>5, <1>6, FS_Injection DEF n
<1>8. QED
  BY <1>5, <1>7 DEF Bijection, place, n

(* As many as there are places to give away, or everybody.                 *)
LEMMA ChoiceIsFull ==
  ASSUME NEW recs, Typed(recs)
  PROVE  Cardinality(Choose(recs)) = IF Cardinality(Valid(recs)) < ContinueCount
                                     THEN Cardinality(Valid(recs)) ELSE ContinueCount
<1> DEFINE n == Cardinality(Valid(recs))
           m == IF n < ContinueCount THEN n ELSE ContinueCount
           place == Place(recs)
           taken == [c \in Choose(recs) |-> Cardinality(Better(recs, c))]
<1>1. n \in Nat /\ ContinueCount \in Nat \ {0}
  BY ValidFinite, GroupAssumption
<1>2. place \in Injection(Valid(recs), 0 .. n - 1) /\ place \in Surjection(Valid(recs), 0 .. n - 1)
  BY PlacesAreTaken DEF Bijection
<1>3. Choose(recs) = {c \in Valid(recs) : Cardinality(Better(recs, c)) < ContinueCount}
  BY DEF Choose, Better
<1>4. ASSUME NEW c \in Valid(recs)
      PROVE  place[c] = Cardinality(Better(recs, c)) /\ place[c] \in 0 .. n - 1
  BY <1>2 DEF Place, Injection, IsInjective
<1>5. \A c \in Choose(recs) : c \in Valid(recs) /\ taken[c] = place[c]
  BY <1>3, <1>4
<1>6. \A c \in Choose(recs) : Cardinality(Better(recs, c)) \in 0 .. m - 1
  BY <1>1, <1>3, <1>4
<1>7. taken \in [Choose(recs) -> 0 .. m - 1]
  BY <1>6
<1>8. ASSUME NEW c \in Choose(recs), NEW d \in Choose(recs), taken[c] = taken[d]
      PROVE  c = d
  <2>1. c \in Valid(recs) /\ d \in Valid(recs) /\ place[c] = place[d]
    BY <1>5, <1>8
  <2> HIDE DEF place
  <2>2. QED
    BY <1>2, <2>1 DEF Injection, IsInjective
<1>9. ASSUME NEW i \in 0 .. m - 1
      PROVE  \E c \in Choose(recs) : taken[c] = i
  <2>1. i \in 0 .. n - 1 /\ i < ContinueCount
    BY <1>1
  <2>2. PICK c \in Valid(recs) : place[c] = i
    BY <1>2, <2>1 DEF Surjection
  <2>3. c \in Choose(recs)
    BY <1>3, <1>4, <2>1, <2>2
  <2>4. QED
    BY <1>5, <2>2, <2>3
<1> HIDE DEF taken, m
<1>10. taken \in Bijection(Choose(recs), 0 .. m - 1)
  BY <1>7, <1>8, <1>9 DEF Bijection, Injection, IsInjective, Surjection
<1>11. IsFiniteSet(Choose(recs))
  BY <1>3, ValidFinite, FS_Subset
<1>12. Cardinality(0 .. m - 1) = Cardinality(Choose(recs))
  BY <1>10, <1>11, FS_Bijection DEF ExistsBijection
<1>13. m \in Nat
  BY <1>1 DEF m
<1>14. Cardinality(0 .. m - 1) = m
  BY <1>13, FS_Interval
<1>15. QED
  BY <1>12, <1>14 DEF m

(* Nobody who was turned away outranks anybody who was let through.        *)
LEMMA ChoiceIsTheTop ==
  ASSUME NEW recs, Typed(recs), NEW c \in Choose(recs), NEW d \in Valid(recs) \ Choose(recs)
  PROVE  Outranks(recs, c, d)
<1>1. /\ c \in Valid(recs) /\ Cardinality(Better(recs, c)) < ContinueCount
      /\ ~(Cardinality(Better(recs, d)) < ContinueCount)
  BY DEF Choose, Better
<1>2. ~Outranks(recs, d, c)
  BY <1>1, BetterGrows, ValidFinite, GroupAssumption
<1>3. QED
  BY <1>1, <1>2, RankingIsTotal

(* When the gate opens it lets the best valid proofs through, as many as   *)
(* continue_count allows: for every group size, every count and every      *)
(* order in which the records come in.                                     *)
THEOREM GateLetsTheBestThrough == Spec => []GateChoosesTheBest
<1>1. ASSUME IInv
      PROVE  GateChoosesTheBest
  <2>1. SUFFICES ASSUME gateOpen
                 PROVE  /\ selected \subseteq Valid(records)
                        /\ Cardinality(selected) = IF Cardinality(Valid(records)) < ContinueCount
                                                   THEN Cardinality(Valid(records))
                                                   ELSE ContinueCount
                        /\ \A c \in selected, d \in Valid(records) \ selected :
                              Outranks(records, c, d)
    BY DEF GateChoosesTheBest
  <2>2. Typed(records) /\ selected = Choose(records)
    BY <1>1, <2>1 DEF IInv, TypeOK, GateInv, Typed
  <2>3. selected \subseteq Valid(records)
    BY <2>2 DEF Choose
  <2>4. QED
    BY <2>2, <2>3, ChoiceIsFull, ChoiceIsTheTop
<1>2. QED
  BY <1>1, Inductive, PTL

-----------------------------------------------------------------------------
(* What the actions of the rounds do to stage and to the group.            *)

LEMMA FinishCandidateStage ==
  ASSUME NEW c, NEW w, NEW pl, FinishCandidate(c, w, pl)
  PROVE  UNCHANGED stage \/ stage' = [stage EXCEPT ![c] = "selector"]
  BY DEF FinishCandidate, ConcludeGroup

LEMMA RoundsCases ==
  ASSUME NEW c, AdvanceVerifier(c) \/ AdvanceMeta(c) \/ AdvanceRefine(c)
  PROVE  /\ pc[c] = "reply" /\ stage[c] \in InRounds
         /\ UNCHANGED groupVars
         /\ \/ \E y \in InRounds : stage' = [stage EXCEPT ![c] = y] /\ UNCHANGED selectorVars
            \/ UNCHANGED <<stage, selectorVars>>
            \/ \E w, pl : FinishCandidate(c, w, pl)
<1> DEFINE Goal == /\ UNCHANGED groupVars
                   /\ \/ \E y \in InRounds : stage' = [stage EXCEPT ![c] = y]
                                             /\ UNCHANGED selectorVars
                      \/ UNCHANGED <<stage, selectorVars>>
                      \/ \E w, pl : FinishCandidate(c, w, pl)
<1>1. ASSUME NEW w, NEW pl, FinishCandidate(c, w, pl) PROVE Goal
  BY <1>1 DEF FinishCandidate
<1>2. ASSUME NEW y \in InRounds, stage' = [stage EXCEPT ![c] = y],
             UNCHANGED <<groupVars, selectorVars>>
      PROVE  Goal
  BY <1>2
<1> HIDE DEF Goal
<1>3. ASSUME NEW w, FinishRound(c, w) PROVE Goal
  BY <1>1, <1>2, <1>3 DEF FinishRound, InRounds
<1>4. ASSUME NEW term, AfterVerifierResult(c, term) PROVE Goal
  BY <1>2, <1>3, <1>4 DEF AfterVerifierResult, InRounds
<1>5. ASSUME UNCHANGED <<stage, groupVars, selectorVars>> PROVE Goal
  BY <1>5 DEF Goal
<1>6. CASE AdvanceVerifier(c)
  <2>1. Goal
    BY <1>2, <1>4, <1>6 DEF AdvanceVerifier, InRounds
  <2>2. QED
    BY <1>6, <2>1 DEF AdvanceVerifier, InRounds, Goal
<1>7. CASE AdvanceMeta(c)
  <2>1. Goal
    BY <1>4, <1>7 DEF AdvanceMeta
  <2>2. QED
    BY <1>7, <2>1 DEF AdvanceMeta, InRounds, Goal
<1>8. CASE AdvanceRefine(c)
  <2>1. Goal
    BY <1>1, <1>2, <1>5, <1>8 DEF AdvanceRefine, InRounds
  <2>2. QED
    BY <1>8, <2>1 DEF AdvanceRefine, InRounds, Goal
<1>9. QED
  BY <1>6, <1>7, <1>8

-----------------------------------------------------------------------------
(* The candidate gate.                                                     *)

Entered == {c \in Candidates : stage[c] # "proof"}

LEMMA EnteredStays ==
  ASSUME TypeOK, NEW c \in Candidates, NEW y, stage' = [stage EXCEPT ![c] = y],
         y = "proof" <=> stage[c] = "proof"
  PROVE  Entered' = Entered
  BY DEF TypeOK, Entered

LEMMA EnteredGrows ==
  ASSUME TypeOK, NEW c \in Candidates, stage' = [stage EXCEPT ![c] = "verifier"]
  PROVE  Entered' = Entered \union {c}
  BY DEF TypeOK, Entered

LEMMA GateSubmissionArrives ==
  ASSUME IInv, Gated, NEW c \in Candidates \ recorded, NEW rec, SubmitGateRecord(c, rec),
         Entered' \in {Entered} \union (IF gateOpen' THEN {Entered \union {c}} ELSE {})
  PROVE  Gate!Arrive(c)
<1>1. recorded' = recorded \union {c} /\ gateOpen' = (recorded' = Candidates)
  BY GateSubmission
<1>2. (recorded' = Candidates) = (Candidates \subseteq recorded')
  BY <1>1 DEF IInv, TypeOK
<1>3. QED
  BY <1>1, <1>2 DEF Gate!Arrive, Entered

LEMMA GateStepSimulates ==
  ASSUME IInv, Gated, NEW c \in Candidates, Rollout(c)
  PROVE  [Gate!Next]_(Gate!vars)
<1>1. TypeOK /\ GateTask(c)
  BY DEF IInv, GateInv
<1>2. ASSUME UNCHANGED <<recorded, gateOpen>>, Entered' = Entered
      PROVE  [Gate!Next]_(Gate!vars)
  BY <1>2 DEF Gate!vars, Entered
<1>3. ASSUME UNCHANGED stage PROVE Entered' = Entered
  BY <1>3 DEF Entered
<1>4. CASE Reply(c)
  BY <1>2, <1>3, <1>4 DEF Reply, groupVars
<1>5. CASE Fail(c)
  BY <1>2, <1>3, <1>5 DEF Fail, groupVars
<1>6. CASE AdvanceProof(c)
  <2>1. c \notin recorded
    BY <1>1, <1>6 DEF AdvanceProof, GateTask
  <2>2. PICK rec : /\ SubmitGateRecord(c, rec)
                   /\ \/ gateOpen' /\ \E w : AfterGate(c, Woken(pc), w, c \in selected')
                      \/ UNCHANGED stage
    BY <1>6 DEF AdvanceProof
  <2>3. \/ gateOpen' /\ stage' = [stage EXCEPT ![c] = "verifier"]
        \/ UNCHANGED stage
    BY <2>2 DEF AfterGate
  <2>4. Entered' \in {Entered} \union (IF gateOpen' THEN {Entered \union {c}} ELSE {})
    BY <1>1, <1>3, <2>3, EnteredGrows
  <2>5. Gate!Arrive(c)
    BY <2>1, <2>2, <2>4, GateSubmissionArrives
  <2>6. QED
    BY <2>5 DEF Gate!Next
<1>7. CASE ResumeAtGate(c)
  <2>1. gateOpen /\ stage[c] = "proof" /\ c \in recorded
    BY <1>1, <1>7 DEF ResumeAtGate, GateTask, IInv, GateInv
  <2>2. AfterGate(c, pc, work[c], c \in selected) /\ UNCHANGED <<recorded, gateOpen>>
    BY <1>7, <2>1 DEF ResumeAtGate
  <2>3. CASE UNCHANGED stage
    BY <1>2, <1>3, <2>2, <2>3
  <2>4. CASE stage' = [stage EXCEPT ![c] = "verifier"]
    <3>1. Entered' = Entered \union {c} /\ c \in recorded \ Entered
      BY <1>1, <2>1, <2>4, EnteredGrows DEF Entered
    <3>2. Gate!Pass(c)
      BY <2>1, <2>2, <3>1 DEF Gate!Pass, Entered
    <3>3. QED
      BY <3>2 DEF Gate!Next
  <2>5. QED
    BY <2>2, <2>3, <2>4 DEF AfterGate
<1>8. CASE AdvanceVerifier(c) \/ AdvanceMeta(c) \/ AdvanceRefine(c)
  <2>1. stage[c] \in InRounds /\ UNCHANGED <<recorded, gateOpen>>
    BY <1>8, RoundsCases DEF groupVars
  <2>2. \/ \E y \in InRounds \union {"selector"} : stage' = [stage EXCEPT ![c] = y]
        \/ UNCHANGED stage
    BY <1>8, RoundsCases, FinishCandidateStage
  <2>3. Entered' = Entered
    BY <1>1, <1>3, <2>1, <2>2, EnteredStays DEF InRounds
  <2>4. QED
    BY <1>2, <2>1, <2>3
<1>9. CASE ResumeAtSelector(c)
  <2>1. UNCHANGED <<recorded, gateOpen>> /\ pc[c] = "groupWoken"
    BY <1>9 DEF ResumeAtSelector, groupVars
  <2>2. UNCHANGED stage \/ stage' = [stage EXCEPT ![c] = "selector"]
    BY <1>9 DEF ResumeAtSelector, ConcludeGroup
  <2>3. stage[c] # "proof"
    BY <2>1 DEF IInv, SelectorInv, SelectorTask, InRounds
  <2>4. Entered' = Entered
    BY <1>1, <1>3, <2>2, <2>3, EnteredStays
  <2>5. QED
    BY <1>2, <2>1, <2>4
<1>10. CASE AdvanceSelector(c)
  BY <1>2, <1>3, <1>10 DEF AdvanceSelector, groupVars
<1>11. CASE ReleaseGate(c)
  <2>1. Entered' = Entered
    BY <1>3, <1>11 DEF ReleaseGate
  <2>2. CASE c \notin recorded
    <3>1. SubmitGateRecord(c, InvalidRecord)
      BY <1>11, <2>2 DEF ReleaseGate
    <3>2. Gate!Arrive(c)
      BY <2>1, <2>2, <3>1, GateSubmissionArrives
    <3>3. QED
      BY <3>2 DEF Gate!Next
  <2>3. CASE c \in recorded
    BY <1>2, <1>11, <2>1, <2>3 DEF ReleaseGate, groupVars
  <2>4. QED
    BY <2>2, <2>3
<1>12. CASE ReleaseSelector(c)
  BY <1>2, <1>3, <1>12 DEF ReleaseSelector, groupVars
<1>13. QED
  BY <1>4, <1>5, <1>6, <1>7, <1>8, <1>9, <1>10, <1>11, <1>12 DEF Rollout

(* The candidate gate is a barrier for every candidate of the group.       *)
THEOREM GateImplementsBarrier ==
  ASSUME Gated
  PROVE  Spec => GateIsBarrier
<1>1. Init => Gate!Init
  BY GroupAssumption DEF Init, Gate!Init
<1>2. IInv /\ [Next]_vars => [Gate!Next]_(Gate!vars)
  <2> SUFFICES ASSUME IInv, [Next]_vars PROVE [Gate!Next]_(Gate!vars)
    OBVIOUS
  <2>1. CASE \E c \in Candidates : Rollout(c)
    BY <2>1, GateStepSimulates
  <2>2. CASE UNCHANGED vars
    BY <2>2 DEF vars, groupVars, Gate!vars
  <2>3. QED
    BY <2>1, <2>2 DEF Next, Finished
<1>3. QED
  BY <1>1, <1>2, Inductive, PTL DEF Spec, GateIsBarrier, Gate!Spec

-----------------------------------------------------------------------------
(* The group selector.                                                     *)

Calling == {c \in Candidates : stage[c] = "selector"}

LEMMA CallingStays ==
  ASSUME TypeOK, NEW c \in Candidates, NEW y, stage' = [stage EXCEPT ![c] = y],
         y = "selector" <=> stage[c] = "selector"
  PROVE  Calling' = Calling
  BY DEF TypeOK, Calling

LEMMA CallingGrows ==
  ASSUME TypeOK, NEW c \in Candidates, stage' = [stage EXCEPT ![c] = "selector"]
  PROVE  Calling' = Calling \union {c}
  BY DEF TypeOK, Calling

(* The step that submits the last gate record arms the selector's barrier. *)
LEMMA GateSubmissionArms ==
  ASSUME IInv, TypeOK', Gated, NEW c \in Candidates \ recorded, NEW rec,
         SubmitGateRecord(c, rec), UNCHANGED selectorVars, Calling' = Calling
  PROVE  [SelectorBarrier!Next]_(SelectorBarrier!vars)
<1>1. /\ ~gateOpen /\ selected = {}
      /\ ~gateOpen' => selected' = {}
  BY GateSubmission
<1>2. CASE gateOpen'
  <2>1. gateOpen' = TRUE /\ selected' \in SUBSET Candidates
    BY <1>2 DEF TypeOK
  <2>2. SelectorBarrier!Arm(selected')
    BY <1>1, <2>1 DEF SelectorBarrier!Arm, selectorVars, Calling
  <2>3. QED
    BY <2>1, <2>2 DEF SelectorBarrier!Next
<1>3. CASE ~gateOpen'
  <2>1. gateOpen' = gateOpen
    BY <1>1, <1>3 DEF IInv, TypeOK
  <2>2. QED
    BY <1>1, <1>3, <2>1 DEF SelectorBarrier!vars, selectorVars, Calling
<1>4. QED
  BY <1>2, <1>3

LEMMA SelectorSubmissionArrives ==
  ASSUME IInv, Gated, SelectorEnabled, NEW c \in told \ selIn, NEW wk,
         NEW failed \in BOOLEAN, SubmitSelectorRecord(c, wk, failed), UNCHANGED groupVars,
         Calling' \in {Calling} \union (IF poolOpen' THEN {Calling \union {c}} ELSE {})
  PROVE  [SelectorBarrier!Next]_(SelectorBarrier!vars)
<1>1. /\ gateOpen /\ ~poolOpen /\ c \in Candidates
      /\ selIn' = selIn \union {c}
      /\ poolOpen' = (selIn' = selected)
  BY SelectorSubmission
<1>2. c \in selected \ selIn /\ selIn' \subseteq selected
  BY <1>1 DEF IInv, GateInv
<1>3. poolOpen' = (selected \subseteq selIn')
  BY <1>1, <1>2
<1>4. SelectorBarrier!Arrive(c)
  BY <1>1, <1>2, <1>3 DEF SelectorBarrier!Arrive, groupVars, Calling
<1>5. QED
  BY <1>1, <1>4 DEF SelectorBarrier!Next

LEMMA SelectorStepSimulates ==
  ASSUME IInv, TypeOK', Gated, NEW c \in Candidates, Rollout(c)
  PROVE  [SelectorBarrier!Next]_(SelectorBarrier!vars)
<1>1. TypeOK /\ GateTask(c) /\ SelectorTask(c)
  BY DEF IInv, GateInv, SelectorInv
<1>2. ASSUME UNCHANGED <<gateOpen, selected, selectorVars>>, Calling' = Calling
      PROVE  [SelectorBarrier!Next]_(SelectorBarrier!vars)
  BY <1>2 DEF SelectorBarrier!vars, Calling, selectorVars
<1>3. ASSUME UNCHANGED stage PROVE Calling' = Calling
  BY <1>3 DEF Calling
<1>4. CASE Reply(c)
  BY <1>2, <1>3, <1>4 DEF Reply, groupVars
<1>5. CASE Fail(c)
  BY <1>2, <1>3, <1>5 DEF Fail, groupVars
<1>6. CASE AdvanceProof(c)
  <2>1. c \notin recorded /\ stage[c] = "proof" /\ UNCHANGED selectorVars
    BY <1>1, <1>6 DEF AdvanceProof, GateTask
  <2>2. PICK rec : /\ SubmitGateRecord(c, rec)
                   /\ \/ \E w : AfterGate(c, Woken(pc), w, c \in selected')
                      \/ UNCHANGED stage
    BY <1>6 DEF AdvanceProof
  <2>3. stage' = [stage EXCEPT ![c] = "verifier"] \/ UNCHANGED stage
    BY <2>2 DEF AfterGate
  <2>4. Calling' = Calling
    BY <1>1, <1>3, <2>1, <2>3, CallingStays
  <2>5. QED
    BY <2>1, <2>2, <2>4, GateSubmissionArms
<1>7. CASE ResumeAtGate(c)
  <2>1. gateOpen /\ stage[c] = "proof" /\ UNCHANGED <<gateOpen, selected, selectorVars>>
    BY <1>1, <1>7 DEF ResumeAtGate, GateTask
  <2>2. stage' = [stage EXCEPT ![c] = "verifier"] \/ UNCHANGED stage
    BY <1>7, <2>1 DEF ResumeAtGate, AfterGate
  <2>3. Calling' = Calling
    BY <1>1, <1>3, <2>1, <2>2, CallingStays
  <2>4. QED
    BY <1>2, <2>1, <2>3
<1>8. CASE AdvanceVerifier(c) \/ AdvanceMeta(c) \/ AdvanceRefine(c)
  <2>1. /\ pc[c] = "reply" /\ stage[c] \in InRounds
        /\ UNCHANGED groupVars
        /\ \/ \E y \in InRounds : stage' = [stage EXCEPT ![c] = y] /\ UNCHANGED selectorVars
           \/ UNCHANGED <<stage, selectorVars>>
           \/ \E w, pl : FinishCandidate(c, w, pl)
    BY <1>8, RoundsCases
  <2>2. CASE \E y \in InRounds : stage' = [stage EXCEPT ![c] = y] /\ UNCHANGED selectorVars
    <3>1. Calling' = Calling
      BY <1>1, <2>1, <2>2, CallingStays DEF InRounds
    <3>2. QED
      BY <1>2, <2>1, <2>2, <3>1 DEF groupVars
  <2>3. CASE UNCHANGED <<stage, selectorVars>>
    BY <1>2, <1>3, <2>1, <2>3 DEF groupVars
  <2>4. CASE \E w, pl : FinishCandidate(c, w, pl)
    <3>1. CASE ~SelectorEnabled
      BY <1>2, <1>3, <2>1, <2>4, <3>1 DEF FinishCandidate, groupVars
    <3>2. CASE SelectorEnabled
      <4>1. c \in told \ selIn
        BY <1>1, <2>1 DEF GateTask, SelectorTask, InRounds
      <4>2. /\ SubmitSelectorRecord(c, work', FALSE)
            /\ IF poolOpen' THEN ConcludeGroup(c, WokenBySelector(pc), leader', pool')
                            ELSE UNCHANGED stage
        BY <2>4, <3>2 DEF FinishCandidate
      <4>3. \/ poolOpen' /\ stage' = [stage EXCEPT ![c] = "selector"]
            \/ UNCHANGED stage
        BY <4>2 DEF ConcludeGroup
      <4>4. Calling' \in {Calling} \union (IF poolOpen' THEN {Calling \union {c}} ELSE {})
        BY <1>1, <1>3, <4>3, CallingGrows
      <4>5. QED
        BY <2>1, <3>2, <4>1, <4>2, <4>4, SelectorSubmissionArrives
    <3>3. QED
      BY <3>1, <3>2
  <2>5. QED
    BY <2>1, <2>2, <2>3, <2>4
<1>9. CASE ResumeAtSelector(c)
  <2>1. UNCHANGED <<gateOpen, selected, selectorVars>> /\ pc[c] = "groupWoken"
    BY <1>9 DEF ResumeAtSelector, groupVars
  <2>2. c \in selIn /\ poolOpen /\ stage[c] # "selector"
    BY <1>1, <2>1 DEF SelectorTask, InRounds
  <2>3. CASE UNCHANGED stage
    BY <1>2, <1>3, <2>1, <2>3
  <2>4. CASE stage' = [stage EXCEPT ![c] = "selector"]
    <3>1. Calling' = Calling \union {c} /\ c \in selIn \ Calling
      BY <1>1, <2>2, <2>4, CallingGrows DEF Calling
    <3>2. SelectorBarrier!Pass(c)
      BY <2>1, <2>2, <3>1 DEF SelectorBarrier!Pass, Calling, selectorVars
    <3>3. QED
      BY <3>2 DEF SelectorBarrier!Next
  <2>5. QED
    BY <1>9, <2>3, <2>4 DEF ResumeAtSelector, ConcludeGroup
<1>10. CASE AdvanceSelector(c)
  BY <1>2, <1>3, <1>10 DEF AdvanceSelector, groupVars
<1>11. CASE ReleaseGate(c)
  <2>1. Calling' = Calling /\ UNCHANGED selectorVars
    BY <1>3, <1>11 DEF ReleaseGate
  <2>2. CASE c \notin recorded
    <3>1. SubmitGateRecord(c, InvalidRecord)
      BY <1>11, <2>2 DEF ReleaseGate
    <3>2. QED
      BY <2>1, <2>2, <3>1, GateSubmissionArms
  <2>3. CASE c \in recorded
    BY <1>2, <1>11, <2>1, <2>3 DEF ReleaseGate, groupVars
  <2>4. QED
    BY <2>2, <2>3
<1>12. CASE ReleaseSelector(c)
  <2>1. Calling' = Calling /\ UNCHANGED groupVars
    BY <1>3, <1>12 DEF ReleaseSelector
  <2>2. CASE SelectorEnabled /\ c \in told \ selIn
    <3>1. SubmitSelectorRecord(c, work, TRUE)
      BY <1>12, <2>2 DEF ReleaseSelector
    <3>2. QED
      BY <2>1, <2>2, <3>1, SelectorSubmissionArrives
  <2>3. CASE ~(SelectorEnabled /\ c \in told \ selIn)
    BY <1>2, <1>12, <2>1, <2>3 DEF ReleaseSelector, groupVars
  <2>4. QED
    BY <2>2, <2>3
<1>13. QED
  BY <1>4, <1>5, <1>6, <1>7, <1>8, <1>9, <1>10, <1>11, <1>12 DEF Rollout

(* The group selector is a barrier for the candidates the gate chose.      *)
THEOREM SelectorImplementsBarrier ==
  ASSUME Gated
  PROVE  Spec => SelectorIsBarrier
<1>1. Init => SelectorBarrier!Init
  BY DEF Init, SelectorBarrier!Init
<1>2. IInv /\ IInv' /\ [Next]_vars => [SelectorBarrier!Next]_(SelectorBarrier!vars)
  <2> SUFFICES ASSUME IInv, IInv', [Next]_vars
               PROVE  [SelectorBarrier!Next]_(SelectorBarrier!vars)
    OBVIOUS
  <2>1. CASE \E c \in Candidates : Rollout(c)
    BY <2>1, SelectorStepSimulates DEF IInv
  <2>2. CASE UNCHANGED vars
    BY <2>2 DEF vars, groupVars, selectorVars, SelectorBarrier!vars
  <2>3. QED
    BY <2>1, <2>2 DEF Next, Finished
<1>3. QED
  BY <1>1, <1>2, Inductive, PTL DEF Spec, SelectorIsBarrier, SelectorBarrier!Spec

(* Both barriers of a gated group, for any number of candidates.           *)
THEOREM GroupIsTwoBarriers ==
  ASSUME Gated
  PROVE  Spec => BarriersHold
BY GateImplementsBarrier, SelectorImplementsBarrier DEF BarriersHold
=============================================================================
