------------------------------ MODULE ProofGroup ------------------------------
(***************************************************************************)
(* The rollouts of one ProofOPDEnv group (src/proof_opd_env.py).           *)
(*                                                                         *)
(* Each candidate of a group is an asyncio task that walks through the     *)
(* stages proof, verifier, meta, refine and selector, one model call per   *)
(* stage.  Two barriers built on ONE asyncio.Condition couple the tasks:   *)
(* the candidate gate, which lets the best ContinueCount proofs go on, and *)
(* the group selector, which elects a leader among the candidates that     *)
(* went on.  A rollout that fails anywhere is released by two cleanup      *)
(* handlers.                                                               *)
(*                                                                         *)
(* Scores are kept in integer units: a verifier or meta score in halves,   *)
(* so that a verifier's reward term (their product) is in quarters, a      *)
(* format score in tenths, and a round's reward is format * sum of terms.  *)
(*                                                                         *)
(* A definition named D_Variant is D with a mistake in it.  No             *)
(* specification uses it; putting it in the place of D shows that the      *)
(* properties notice the mistake.                                          *)
(***************************************************************************)
EXTENDS Integers, Sequences, FiniteSets

CONSTANTS
  N,                \* members of the group
  ContinueCount,    \* candidate_continue_count
  RefineRounds,     \* refine_rounds
  NumVerifiers,     \* num_verifiers
  SelectorTopK,     \* selector_top_k
  EarlyStopReward,  \* refine_early_stop_reward, in units of a round's reward
  EnableMeta,       \* enable_meta_verification
  GateEnabled,      \* candidate_gate_enabled
  SelectorEnabled,  \* selector_enabled
  Hybrid,           \* is the row a hybrid multi-turn row, which may stop after the proof?
  FormatScores,     \* the format scores a usable proof can have, in tenths
  Qualities,        \* ranks of (self_score, mean log-probability), compared lexicographically
  Scores            \* the scores verifiers and meta-verifiers give, in halves

ASSUME GroupAssumption ==
  /\ N \in Nat \ {0}
  /\ ContinueCount \in Nat \ {0}
  /\ RefineRounds \in Nat
  /\ NumVerifiers \in Nat \ {0}
  /\ SelectorTopK \in Nat \ {0}
  /\ EarlyStopReward \in Nat
  /\ {EnableMeta, GateEnabled, SelectorEnabled, Hybrid} \subseteq BOOLEAN
  /\ FormatScores \subseteq 1 .. 10
  /\ Qualities \subseteq Nat
  /\ Scores \subseteq 0 .. 2

Candidates == 0 .. N - 1

(* _run_group_states: a group of one is run without a gate.                *)
Gated == GateEnabled /\ N > 1

VARIABLES
  pc,        \* where each task is: see PC
  stage,     \* state["proof_opd_stage"]
  work,      \* the rest of the rollout's state: see Work
  payload,   \* state["proof_opd_reward_payload"]: its reward and selected_round_index
  told,      \* the candidates whose input info says candidate_selected
  recorded,  \* group["records"]: the candidates that submitted a gate record ...
  records,   \* ... and the record each of them submitted
  gateOpen,  \* group["selected"] is not None
  selected,  \* group["selected"]
  selIn,     \* group["selector_records"]: who submitted one ...
  selFailed, \* ... and whose record says failed, with no rounds
  poolOpen,  \* group["selector_candidates"] is not None
  pool,      \* group["selector_candidates"]
  leader     \* group["selector_leader"]

groupVars == <<told, recorded, records, gateOpen, selected>>
selectorVars == <<selIn, selFailed, poolOpen, pool, leader>>
vars == <<pc, stage, work, payload, groupVars, selectorVars>>

Stages == {"proof", "verifier", "meta", "refine", "selector"}

(* "model": a model call is in flight.  "reply": it was appended to the    *)
(* trajectory and the environment is about to advance.  "gate", "group":   *)
(* asleep in condition.wait(); "gateWoken", "groupWoken": notified, not    *)
(* yet running.  "cleanup50", "cleanup40": the two release handlers are    *)
(* still to run, in that order.                                            *)
PC == {"model", "reply", "gate", "gateWoken", "group", "groupWoken",
       "cleanup50", "cleanup40", "done"}

InvalidRecord == [valid |-> FALSE, fmt |-> 0, quality |-> -1]
NoLeader == -1
NoRound == -1

-----------------------------------------------------------------------------
(* The ranking of gate records and the choice of the best ones.            *)

(* _candidate_gate_sort_key: validity, format score, quality, and the      *)
(* lower index on a tie.                                                   *)
Outranks(recs, c, d) ==
  LET a == recs[c]  b == recs[d] IN
  \/ a.valid /\ ~b.valid
  \/ /\ a.valid = b.valid
     /\ \/ a.fmt > b.fmt
        \/ a.fmt = b.fmt /\ a.quality > b.quality
        \/ a.fmt = b.fmt /\ a.quality = b.quality /\ c < d

Valid(recs) == {c \in Candidates : recs[c].valid}

Choose_Unfiltered(recs) ==
  {c \in Candidates : Cardinality({d \in Candidates : Outranks(recs, d, c)}) < ContinueCount}

(* _finalize_candidate_gate_locked: the valid records, best first, cut at  *)
(* continue_count.                                                         *)
Choose(recs) ==
  {c \in Valid(recs) :
     Cardinality({d \in Valid(recs) : Outranks(recs, d, c)}) < ContinueCount}

Rank(recs, c) == 1 + Cardinality({d \in Candidates : Outranks(recs, d, c)})

-----------------------------------------------------------------------------
(* Rounds, and the pool the selector chooses from.                         *)

RoundScore(r) == r.fmt * r.sum
UsableRounds(w) == {i \in DOMAIN w.rounds : w.rounds[i].fmt > 0}

(* max(range(len(rounds)), key=reward): the first of the best rounds, as a *)
(* set of one index.                                                       *)
BestRounds(rounds) ==
  LET reward(i) == RoundScore(rounds[i])
  IN  {i \in DOMAIN rounds :
         \A j \in DOMAIN rounds : reward(i) > reward(j) \/ (reward(i) = reward(j) /\ i <= j)}

Entry(c, w, i) == [src |-> c, round |-> i - 1, fmt |-> w.rounds[i].fmt, sum |-> w.rounds[i].sum]

(* (preselection_score, format_score, verifier_meta_reward): what both     *)
(* rankings of selector candidates compare first.                          *)
Stronger(e, f) ==
  \/ RoundScore(e) > RoundScore(f)
  \/ RoundScore(e) = RoundScore(f) /\ e.fmt > f.fmt
  \/ RoundScore(e) = RoundScore(f) /\ e.fmt = f.fmt /\ e.sum > f.sum
Equal(e, f) == e.fmt = f.fmt /\ e.sum = f.sum

(* Among one rollout's rounds the later one wins a tie; among candidates   *)
(* the better gate rank does, which is a total order.                      *)
Preferred(recs, e, f) ==
  \/ Stronger(e, f)
  \/ Equal(e, f) /\ e.src = f.src /\ e.round > f.round
  \/ Equal(e, f) /\ e.src # f.src /\ Rank(recs, e.src) < Rank(recs, f.src)

Top(recs, entries) ==
  {e \in entries : Cardinality({f \in entries : Preferred(recs, f, e)}) < SelectorTopK}
First(recs, entries) == {e \in entries : \A f \in entries : f = e \/ Preferred(recs, e, f)}

OwnEntries(c, w) == {Entry(c, w, i) : i \in UsableRounds(w)}

(* _finalize_group_selector_locked: the best usable round of each record   *)
(* that did not fail, and the best selector_top_k of those.                *)
GroupPool(recs, wk, in, failed) ==
  Top(recs, UNION {First(recs, OwnEntries(c, wk[c])) : c \in in \ failed})

Least(S) == {c \in S : \A d \in S : c <= d}

Leaders_Least(recs, entries, chosen) == IF chosen # {} THEN Least(chosen) ELSE {NoLeader}

(* The candidate of the first pool entry, else the first chosen one.       *)
Leaders(recs, entries, chosen) ==
  IF entries # {} THEN {e.src : e \in First(recs, entries)}
  ELSE IF chosen # {} THEN Least(chosen) ELSE {NoLeader}

-----------------------------------------------------------------------------
(* The trajectory may hold max_turns model calls: for each round one       *)
(* generation and one or two calls per verifier, and two more.             *)
TurnsPerRound == 1 + NumVerifiers * (IF EnableMeta THEN 2 ELSE 1)
MaxTurns_Exact == TurnsPerRound * (RefineRounds + 1) + 1
MaxTurns == TurnsPerRound * (RefineRounds + 1) + 2

Round == [fmt : Nat, sum : Nat]
Work == [round : Nat, verify : Nat, sum : Nat, pending : Nat, valid : BOOLEAN, fmt : Nat,
         turns : Nat, continue : BOOLEAN, rounds : Seq(Round)]

(* setup_state, after _run_group_states made the group.                    *)
Init ==
  /\ pc = [c \in Candidates |-> "model"]
  /\ stage = [c \in Candidates |-> "proof"]
  /\ \E cont \in [Candidates -> IF Hybrid THEN BOOLEAN ELSE {TRUE}] :
       work = [c \in Candidates |->
                 [round |-> 0, verify |-> 0, sum |-> 0, pending |-> 0, valid |-> FALSE,
                  fmt |-> 0, turns |-> 0, continue |-> cont[c], rounds |-> <<>>]]
  /\ payload = [c \in Candidates |-> [reward |-> 0, round |-> NoRound]]
  /\ told = {}
  /\ recorded = {}
  /\ records = [c \in Candidates |-> InvalidRecord]
  /\ gateOpen = FALSE
  /\ selected = {}
  /\ selIn = {}
  /\ selFailed = {}
  /\ poolOpen = FALSE
  /\ pool = {}
  /\ leader = NoLeader

-----------------------------------------------------------------------------
(* Where a task goes next.  Each operator gives the pc of rollout c in a   *)
(* function p of the others' pcs.                                          *)
Call(p, c) == [p EXCEPT ![c] = "model"]
Stop(p, c) == [p EXCEPT ![c] = "cleanup50"]

NotifyAll_GateOnly(p) == [d \in DOMAIN p |-> IF p[d] = "gate" THEN "gateWoken" ELSE p[d]]

(* condition.notify_all(): gate and selector waiters share the condition.  *)
NotifyAll(p) == [d \in DOMAIN p |-> CASE p[d] = "gate"  -> "gateWoken"
                                      [] p[d] = "group" -> "groupWoken"
                                      [] OTHER          -> p[d]]

(* _start_verification_round                                               *)
StartVerification(w) == [w EXCEPT !.verify = 0, !.sum = 0]

(* What a rollout does once it knows whether the gate chose it: an invalid *)
(* proof ends it, a proof that was not chosen or that the hybrid routing   *)
(* sampled out is kept as proof only, any other enters verification.  A    *)
(* first round that is invalid leaves nothing for the selector to rank.    *)
AfterGate(c, p, w, chosen) ==
  LET entry == [fmt |-> IF w.valid THEN w.fmt ELSE 0, sum |-> 0] IN
  IF w.valid /\ chosen /\ w.continue
  THEN /\ pc' = Call(p, c)
       /\ stage' = [stage EXCEPT ![c] = "verifier"]
       /\ work' = [work EXCEPT ![c] = StartVerification(w)]
       /\ UNCHANGED payload
  ELSE /\ pc' = Stop(p, c)
       /\ work' = [work EXCEPT ![c] = [w EXCEPT !.rounds = Append(@, entry)]]
       /\ payload' = [payload EXCEPT ![c] = [reward |-> 0, round |-> w.round]]
       /\ UNCHANGED stage

SubmitGateRecord_Quota(c, rec) ==
  /\ recorded' = recorded \union {c}
  /\ records' = [records EXCEPT ![c] = rec]
  /\ gateOpen' = (gateOpen \/ Cardinality(recorded') >= ContinueCount)
  /\ selected' = IF ~gateOpen /\ gateOpen' THEN Choose(records') ELSE selected

(* The part of _submit_candidate_gate_record that runs under the lock up   *)
(* to the first wait; told' is set by the caller.                          *)
SubmitGateRecord(c, rec) ==
  /\ recorded' = recorded \union {c}
  /\ records' = [records EXCEPT ![c] = rec]
  /\ gateOpen' = (gateOpen \/ recorded' = Candidates)
  /\ selected' = IF ~gateOpen /\ recorded' = Candidates THEN Choose(records') ELSE selected

Woken(p) == IF recorded' = Candidates THEN NotifyAll(p) ELSE p

SubmitSelectorRecord_First(c, wk, failed) ==
  /\ selIn' = selIn \union {c}
  /\ selFailed' = IF failed THEN selFailed \union {c} ELSE selFailed
  /\ poolOpen' = TRUE
  /\ pool' = IF ~poolOpen THEN GroupPool(records, wk, selIn', selFailed') ELSE pool
  /\ leader' \in IF ~poolOpen THEN Leaders(records, pool', selected) ELSE {leader}

(* The same for _submit_group_selector_record, given the rollouts' work.   *)
SubmitSelectorRecord(c, wk, failed) ==
  /\ selIn' = selIn \union {c}
  /\ selFailed' = IF failed THEN selFailed \union {c} ELSE selFailed
  /\ LET full == ~poolOpen /\ Cardinality(selIn') >= Cardinality(selected) IN
     /\ poolOpen' = (poolOpen \/ full)
     /\ pool' = IF full THEN GroupPool(records, wk, selIn', selFailed') ELSE pool
     /\ leader' \in IF full THEN Leaders(records, pool', selected) ELSE {leader}

WokenBySelector(p) ==
  IF Cardinality(selIn') >= Cardinality(selected) THEN NotifyAll(p) ELSE p

(* _finish_candidate once the pool is known: the leader calls the selector *)
(* unless the pool is empty, everyone else delegates and stops.            *)
ConcludeGroup(c, p, lead, entries) ==
  IF c = lead /\ entries # {}
  THEN pc' = Call(p, c) /\ stage' = [stage EXCEPT ![c] = "selector"]
  ELSE pc' = Stop(p, c) /\ UNCHANGED stage

(* _finish_candidate: w is the rollout's new work and pl its new payload.  *)
FinishCandidate(c, w, pl) ==
  /\ work' = [work EXCEPT ![c] = w]
  /\ payload' = [payload EXCEPT ![c] = pl]
  /\ \/ /\ ~SelectorEnabled
        /\ pc' = Stop(pc, c)
        /\ UNCHANGED <<stage, selectorVars>>
     \/ /\ SelectorEnabled /\ Gated
        /\ SubmitSelectorRecord(c, work', FALSE)
        /\ IF poolOpen' THEN ConcludeGroup(c, WokenBySelector(pc), leader', pool')
                        ELSE /\ pc' = [pc EXCEPT ![c] = "group"]
                             /\ UNCHANGED stage
     \/ /\ SelectorEnabled /\ ~Gated
        /\ IF pl.reward < EarlyStopReward /\ OwnEntries(c, w) # {}
           THEN pc' = Call(pc, c) /\ stage' = [stage EXCEPT ![c] = "selector"]
           ELSE pc' = Stop(pc, c) /\ UNCHANGED stage
        /\ UNCHANGED selectorVars
  /\ UNCHANGED groupVars

-----------------------------------------------------------------------------
(* Model calls, made by the verifiers library around get_prompt_messages.  *)

(* A reply is appended to the trajectory.  At max_turns the library ends   *)
(* the rollout without asking the environment to read the reply.           *)
Reply(c) ==
  /\ pc[c] = "model"
  /\ work' = [work EXCEPT ![c].turns = @ + 1]
  /\ pc' = [pc EXCEPT ![c] = IF work'[c].turns >= MaxTurns THEN "cleanup50" ELSE "reply"]
  /\ UNCHANGED <<stage, payload, groupVars, selectorVars>>

(* The call raises an error the library turns into the end of the rollout. *)
Fail(c) ==
  /\ pc[c] = "model"
  /\ pc' = Stop(pc, c)
  /\ UNCHANGED <<stage, work, payload, groupVars, selectorVars>>

(* What parse_generation_response can find: a usable proof has a positive  *)
(* format score, and a truncated or unclosed one may have one as well.     *)
Generations == [valid : {TRUE}, fmt : FormatScores] \union
               [valid : {FALSE}, fmt : FormatScores \union {0}]

-----------------------------------------------------------------------------
(* _advance_after_completion, one action per stage.                        *)

(* stage "proof": read the proof and submit its record to the gate.  The   *)
(* last rollout to submit opens the gate and goes on at once, any other    *)
(* goes to sleep.  Without a gate the rollout goes on as if chosen.        *)
AdvanceProof(c) ==
  /\ pc[c] = "reply" /\ stage[c] = "proof"
  /\ \E gen \in Generations, q \in Qualities :
       LET w == [work[c] EXCEPT !.valid = gen.valid, !.fmt = gen.fmt] IN
       IF ~Gated
       THEN /\ AfterGate(c, pc, w, TRUE)
            /\ UNCHANGED groupVars
       ELSE /\ SubmitGateRecord(c, [valid |-> gen.valid, fmt |-> gen.fmt, quality |-> q])
            /\ IF gateOpen'
               THEN /\ told' = IF c \in selected' THEN told \union {c} ELSE told
                    /\ AfterGate(c, Woken(pc), w, c \in selected')
               ELSE /\ pc' = [pc EXCEPT ![c] = "gate"]
                    /\ work' = [work EXCEPT ![c] = w]
                    /\ UNCHANGED <<told, stage, payload>>
  /\ UNCHANGED selectorVars

(* The sleeper re-acquires the lock and finds the gate open (or goes back  *)
(* to sleep, as the while loop around condition.wait() requires).          *)
ResumeAtGate(c) ==
  /\ pc[c] = "gateWoken"
  /\ IF gateOpen
     THEN /\ told' = IF c \in selected THEN told \union {c} ELSE told
          /\ AfterGate(c, pc, work[c], c \in selected)
     ELSE /\ pc' = [pc EXCEPT ![c] = "gate"]
          /\ UNCHANGED <<told, stage, work, payload>>
  /\ UNCHANGED <<recorded, records, gateOpen, selected, selectorVars>>

(* _finalize_round, _should_refine and _next_refinement_prompt: the best   *)
(* round so far is the payload, and while it is poor and rounds are left   *)
(* another one starts.                                                     *)
FinishRound(c, w) ==
  LET rounds == Append(w.rounds, [fmt |-> w.fmt, sum |-> w.sum])
      done   == [w EXCEPT !.rounds = rounds]
  IN
  \E best \in BestRounds(rounds) :
    LET pl == [reward |-> RoundScore(rounds[best]), round |-> best - 1] IN
    IF Len(rounds) <= RefineRounds /\ pl.reward < EarlyStopReward
    THEN /\ work' = [work EXCEPT ![c] = [done EXCEPT !.round = @ + 1, !.verify = 0, !.sum = 0,
                                                     !.valid = FALSE, !.fmt = 0]]
         /\ payload' = [payload EXCEPT ![c] = pl]
         /\ stage' = [stage EXCEPT ![c] = "refine"]
         /\ pc' = Call(pc, c)
         /\ UNCHANGED <<groupVars, selectorVars>>
    ELSE FinishCandidate(c, done, pl)

(* _append_verifier_result and _after_verifier_result                      *)
AfterVerifierResult(c, term) ==
  LET w == [work[c] EXCEPT !.verify = @ + 1, !.sum = @ + term, !.pending = 0] IN
  IF w.verify < NumVerifiers
  THEN /\ work' = [work EXCEPT ![c] = w]
       /\ stage' = [stage EXCEPT ![c] = "verifier"]
       /\ pc' = Call(pc, c)
       /\ UNCHANGED <<payload, groupVars, selectorVars>>
  ELSE FinishRound(c, w)

(* stage "verifier": an invalid review counts 0, a perfect one needs no    *)
(* meta-verification, any other is sent to the meta-verifier.              *)
AdvanceVerifier(c) ==
  /\ pc[c] = "reply" /\ stage[c] = "verifier"
  /\ \/ AfterVerifierResult(c, 0)                          \* invalid review
     \/ \E score \in Scores :
          IF EnableMeta /\ score < 2
          THEN /\ work' = [work EXCEPT ![c].pending = score]
               /\ stage' = [stage EXCEPT ![c] = "meta"]
               /\ pc' = Call(pc, c)
               /\ UNCHANGED <<payload, groupVars, selectorVars>>
          ELSE AfterVerifierResult(c, 2 * score)

(* stage "meta": an invalid meta-review counts one half.                   *)
AdvanceMeta(c) ==
  /\ pc[c] = "reply" /\ stage[c] = "meta"
  /\ \E score \in Scores \union {1} : AfterVerifierResult(c, work[c].pending * score)

(* stage "refine": an invalid refinement is a round of its own with reward *)
(* 0, and ends the candidate with what its earlier rounds are worth.       *)
AdvanceRefine(c) ==
  /\ pc[c] = "reply" /\ stage[c] = "refine"
  /\ \E gen \in Generations :
       LET w == [work[c] EXCEPT !.valid = gen.valid, !.fmt = gen.fmt]
           failed == [w EXCEPT !.rounds = Append(@, [fmt |-> 0, sum |-> 0])]
           pl == [reward |-> 0, round |-> w.round]
       IN
       IF gen.valid
       THEN /\ work' = [work EXCEPT ![c] = StartVerification(w)]
            /\ stage' = [stage EXCEPT ![c] = "verifier"]
            /\ pc' = Call(pc, c)
            /\ UNCHANGED <<payload, groupVars, selectorVars>>
       ELSE IF UsableRounds(failed) # {}
       THEN FinishCandidate(c, failed, pl)
       ELSE /\ work' = [work EXCEPT ![c] = failed]
            /\ payload' = [payload EXCEPT ![c] = pl]
            /\ pc' = Stop(pc, c)
            /\ UNCHANGED <<stage, groupVars, selectorVars>>

(* _submit_group_selector_record after its wait, and the rest of           *)
(* _finish_candidate.                                                      *)
ResumeAtSelector(c) ==
  /\ pc[c] = "groupWoken"
  /\ IF poolOpen
     THEN ConcludeGroup(c, pc, leader, pool)
     ELSE /\ pc' = [pc EXCEPT ![c] = "group"]
          /\ UNCHANGED stage
  /\ UNCHANGED <<work, payload, groupVars, selectorVars>>

(* stage "selector": a valid reply names any candidate of the prompt, an   *)
(* invalid one falls back to the first.                                    *)
AdvanceSelector(c) ==
  /\ pc[c] = "reply" /\ stage[c] = "selector"
  /\ \E e \in IF Gated THEN pool ELSE Top(records, OwnEntries(c, work[c])) :
       payload' = [payload EXCEPT ![c] = [reward |-> RoundScore(e), round |-> e.round]]
  /\ pc' = Stop(pc, c)
  /\ UNCHANGED <<stage, work, groupVars, selectorVars>>

ReleaseGate_Never(c) ==
  /\ pc[c] = "cleanup50"
  /\ pc' = [pc EXCEPT ![c] = "cleanup40"]
  /\ UNCHANGED <<stage, work, payload, groupVars, selectorVars>>

(* release_candidate_gate_on_failed_rollout: a rollout that never reached  *)
(* the gate submits an invalid record for it and does not wait.            *)
ReleaseGate(c) ==
  /\ pc[c] = "cleanup50"
  /\ IF Gated /\ c \notin recorded
     THEN /\ SubmitGateRecord(c, InvalidRecord)
          /\ told' = IF gateOpen' /\ c \in selected' THEN told \union {c} ELSE told
          /\ pc' = [Woken(pc) EXCEPT ![c] = "cleanup40"]
     ELSE /\ pc' = [pc EXCEPT ![c] = "cleanup40"]
          /\ UNCHANGED groupVars
  /\ UNCHANGED <<stage, work, payload, selectorVars>>

(* release_group_selector_on_failed_rollout: the same for the selector.    *)
ReleaseSelector(c) ==
  /\ pc[c] = "cleanup40"
  /\ IF SelectorEnabled /\ Gated /\ c \in told \ selIn
     THEN /\ SubmitSelectorRecord(c, work, TRUE)
          /\ pc' = [WokenBySelector(pc) EXCEPT ![c] = "done"]
     ELSE /\ pc' = [pc EXCEPT ![c] = "done"]
          /\ UNCHANGED selectorVars
  /\ UNCHANGED <<stage, work, payload, groupVars>>

-----------------------------------------------------------------------------
Rollout(c) ==
  \/ Reply(c)
  \/ Fail(c)
  \/ AdvanceProof(c)
  \/ ResumeAtGate(c)
  \/ AdvanceVerifier(c)
  \/ AdvanceMeta(c)
  \/ AdvanceRefine(c)
  \/ ResumeAtSelector(c)
  \/ AdvanceSelector(c)
  \/ ReleaseGate(c)
  \/ ReleaseSelector(c)

(* asyncio.gather returned: the group is popped and nothing moves.         *)
Finished == (\A c \in Candidates : pc[c] = "done") /\ UNCHANGED vars

Next == (\E c \in Candidates : Rollout(c)) \/ Finished

Spec == Init /\ [][Next]_vars

(* A model call returns or fails, and the event loop runs every ready task. *)
FairSpec == Spec /\ \A c \in Candidates : WF_vars(Rollout(c))

-----------------------------------------------------------------------------
TypeOK ==
  /\ pc \in [Candidates -> PC]
  /\ stage \in [Candidates -> Stages]
  /\ work \in [Candidates -> Work]
  /\ payload \in [Candidates -> [reward : Nat, round : Nat \union {NoRound}]]
  /\ told \subseteq Candidates /\ recorded \subseteq Candidates /\ selected \subseteq Candidates
  /\ selIn \subseteq Candidates /\ selFailed \subseteq Candidates
  /\ records \in [Candidates -> [valid : BOOLEAN, fmt : Nat, quality : {-1} \union Qualities]]
  /\ gateOpen \in BOOLEAN /\ poolOpen \in BOOLEAN
  /\ pool \subseteq [src : Candidates, round : Nat, fmt : Nat, sum : Nat]
  /\ leader \in Candidates \union {NoLeader}

-----------------------------------------------------------------------------
(* Properties.                                                             *)

(* No wakeup is lost and nobody is left waiting: a rollout asleep in       *)
(* condition.wait() at the gate (src/proof_opd_env.py:1547) means the gate *)
(* is closed and some rollout whose record is missing can still submit it, *)
(* in person or through its cleanup handler; the same holds for the        *)
(* rollouts asleep at the selector.                                        *)
Running == {"model", "reply", "cleanup50"}
WaitersHaveAReleaser ==
  /\ (\E c \in Candidates : pc[c] = "gate") =>
       /\ ~gateOpen
       /\ \E d \in Candidates \ recorded : pc[d] \in Running
  /\ (\E c \in Candidates : pc[c] = "group") =>
       /\ ~poolOpen
       /\ \E d \in selected \ selIn : pc[d] \in Running \union {"cleanup40", "gateWoken"}

(* The gate lets through as many proofs as it may, only valid ones, and    *)
(* every one of them outranks every valid proof it turned away             *)
(* (_finalize_candidate_gate_locked).                                      *)
GateChoosesTheBest ==
  gateOpen =>
    LET valid == Valid(records) IN
    /\ selected \subseteq valid
    /\ Cardinality(selected) = IF Cardinality(valid) < ContinueCount
                               THEN Cardinality(valid) ELSE ContinueCount
    /\ \A c \in selected, d \in valid \ selected : Outranks(records, c, d)

OneSelectorCall ==
  Gated => \A c \in Candidates :
             stage[c] = "selector" => poolOpen /\ c = leader /\ selIn = selected

LeaderIsAlive ==
  poolOpen /\ pool # {} =>
    /\ leader \in selIn \ selFailed
    /\ pc[leader] \in {"cleanup50", "cleanup40", "done"} => stage[leader] = "selector"

(* Only the leader ever makes the selector call of a gated group, and only *)
(* after every chosen rollout handed in its rounds or failed.  It is not   *)
(* elected in vain: if the pool holds a proof, the leader is a rollout     *)
(* that did not fail before its election, so that the selector call is     *)
(* made unless that very call fails.                                       *)
LeaderCallsSelector == OneSelectorCall /\ LeaderIsAlive

(* max_turns (src/proof_opd_env.py:1307) never cuts a rollout off: no      *)
(* reply, the selector's included, is thrown away unread.                  *)
TurnBudgetSuffices == \A c \in Candidates : work[c].turns < MaxTurns

(* Every rollout of the group comes to its end, whatever fails.            *)
AllRolloutsFinish == <>(\A c \in Candidates : pc[c] = "done")

(* The two barriers implement the abstract one.                            *)
Gate == INSTANCE Barrier WITH
          Member <- Candidates, expected <- Candidates, armed <- TRUE,
          arrived <- recorded, open <- gateOpen,
          through <- {c \in Candidates : stage[c] # "proof"}
SelectorBarrier == INSTANCE Barrier WITH
          Member <- Candidates, expected <- selected, armed <- gateOpen,
          arrived <- selIn, open <- poolOpen,
          through <- {c \in Candidates : stage[c] = "selector"}
GateIsBarrier == Gate!Spec
SelectorIsBarrier == SelectorBarrier!Spec

(* Whatever the order in which rollouts hand in, fail and wake: a barrier  *)
(* opens once, when all it expects have arrived, lets nobody through       *)
(* before, and the gate is open before the selector expects anybody.       *)
BarriersHold == GateIsBarrier /\ SelectorIsBarrier

(* docs/prime_rl_opd.md:158: "Invalid train proof output ends the trace    *)
(* with zero proof reward."                                                *)
InvalidProofEndsTrace ==
  \A c \in Candidates :
    LET rounds == work[c].rounds IN
    rounds # <<>> /\ rounds[Len(rounds)].fmt = 0 =>
      /\ pc[c] \notin {"model", "reply"}
      /\ payload[c].reward = 0
=============================================================================
