---------------------------- MODULE CandidateStream ----------------------------
(***************************************************************************)
(* The search for a proof of one problem (src/run.py): a pipeline for each *)
(* candidate, run concurrently by asyncio, the throttle that holds         *)
(* verification back while candidates are still generated, the filter over *)
(* all generations, the collector that takes candidates as they are        *)
(* finished and may end the search, and the selection of the answer.       *)
(*                                                                         *)
(* What a candidate's verification does is the module ProofAttempt's; here *)
(* a round is VerifyN calls and a result.  A step of a pipeline is what it *)
(* does between two awaits.                                                *)
(***************************************************************************)
EXTENDS Integers, Sequences, FiniteSets

CONSTANTS
  Pipelines,       \* one for each candidate, pipelines_per_problem of them
  NoOne,
  VerifyN,         \* verify_n
  RefineRounds,    \* refine_rounds
  CandidateLimit,  \* verify_candidate_limit_while_generating, 0 for no limit
  RequestLimit,    \* verify_request_limit_while_generating, 0 for no limit
  MaxCalls,        \* max_concurrent_requests
  WaitModes,       \* the values of wait_for_all_generations_before_verify
  SkipZero,        \* skip_self_score_zero
  TopScore,        \* scores are 0 .. TopScore, a score of 1 is TopScore
  MinScore         \* selector_min_final_score

ASSUME StreamAssumption ==
  /\ IsFiniteSet(Pipelines) /\ Pipelines # {} /\ NoOne \notin Pipelines
  /\ {VerifyN, MaxCalls} \subseteq Nat \ {0}
  /\ {RefineRounds, CandidateLimit, RequestLimit, TopScore, MinScore} \subseteq Nat
  /\ WaitModes \subseteq BOOLEAN /\ SkipZero \in BOOLEAN

N == Cardinality(Pipelines)
Requests == 1 .. VerifyN
Own == 0         \* the call a pipeline makes for itself: generation or refinement
NoScore == -1    \* final_score is None
Scores == (0 .. TopScore) \union {NoScore}

VARIABLES
  waitAll,   \* is verification put off until all candidates are generated?
  pc,        \* where each pipeline is
  round,     \* the refinements each pipeline has made
  call,      \* the state of the calls of each pipeline: "idle", "queued" in the throttle,
             \* "waiting" for the semaphore of the scheduler, "running", "returned"
  gen,       \* what was generated: "none", "good", "zero" or "truncated"
  outcome,   \* how each pipeline ended, with final_score and strict_pass
  remaining, active, requests,  \* the counters of the throttle
  slot, permit,   \* the pipelines and the requests that were counted
  filtered, admitted,           \* generation_filter_cache, and whom it lets pass
  phase,     \* of the collector: "collect", "cancel", "select" or "done"
  timeUp,    \* has the time budget run out?
  queue,     \* the pipelines that ended in time, in that order
  taken,     \* how many of them were collected
  selected   \* the candidate that is the answer, or NoOne

throttleVars == <<remaining, active, requests, slot, permit>>
filterVars == <<filtered, admitted>>
pipeVars == <<pc, round, call, gen, outcome>>
collectVars == <<phase, timeUp, queue, taken, selected>>
vars == <<waitAll, pipeVars, throttleVars, filterVars, collectVars>>

NoCalls == [k \in Requests \union {Own} |-> "idle"]
OwnCall == [NoCalls EXCEPT ![Own] = "waiting"]
Kinds == {"pending", "candidate", "failed", "cancelled"}
Outcome(k, s, p) == [kind |-> k, score |-> s, strict |-> p]
Pending == Outcome("pending", NoScore, FALSE)
Failed == Outcome("failed", NoScore, FALSE)

Init ==
  /\ waitAll \in WaitModes
  /\ pc = [i \in Pipelines |-> "generate"]
  /\ round = [i \in Pipelines |-> 0]
  /\ call = [i \in Pipelines |-> OwnCall]
  /\ gen = [i \in Pipelines |-> "none"]
  /\ outcome = [i \in Pipelines |-> Pending]
  /\ remaining = N /\ active = 0 /\ requests = 0
  /\ slot = {} /\ permit = {}
  /\ filtered = FALSE /\ admitted = {}
  /\ phase = "collect" /\ timeUp = FALSE
  /\ queue = <<>> /\ taken = 0 /\ selected = NoOne

-----------------------------------------------------------------------------
(* VerificationThrottle: while candidates are generated, verification is   *)
(* limited, and what begins then is counted.                               *)

Generating == remaining > 0
Full(limit, count) == Generating /\ limit > 0 /\ count >= limit
Counts(limit) == Generating /\ limit > 0

GiveBack_Nothing(i) == UNCHANGED <<slot, active, permit, requests>>

(* What a pipeline was counted for is given back.                          *)
GiveBack(i) ==
  /\ slot' = slot \ {i}
  /\ active' = active - Cardinality(slot \intersect {i})
  /\ permit' = permit \ ({i} \X Requests)
  /\ requests' = requests - Cardinality(permit \intersect ({i} \X Requests))

-----------------------------------------------------------------------------
(* run_candidate_pipeline                                                  *)

Goto(i, p) == pc' = [pc EXCEPT ![i] = p]
End(i, o) ==
  /\ Goto(i, "over")
  /\ outcome' = [outcome EXCEPT ![i] = o]
  /\ queue' = IF timeUp THEN queue ELSE Append(queue, i)
Continue(i, p) == Goto(i, p) /\ UNCHANGED <<outcome, queue>>

(* ChatScheduler.call: at most MaxCalls run at a time.                     *)
Running == {c \in Pipelines \X (Requests \union {Own}) : call[c[1]][c[2]] = "running"}
MayStart(i, k) ==
  /\ pc[i] \in {"generate", "verify", "refine"}
  /\ call[i][k] = "waiting" /\ Cardinality(Running) < MaxCalls
StartCall(i, k) ==
  /\ MayStart(i, k)
  /\ call' = [call EXCEPT ![i][k] = "running"]
  /\ UNCHANGED <<waitAll, pc, round, gen, outcome, throttleVars, filterVars, collectVars>>

(* The answer to the call a pipeline makes for itself may come.            *)
Answered(i, place) == pc[i] = place /\ call[i][Own] = "running"

(* The kind of a generation matters to the filter only.                    *)
Generations == {"none", "good"} \union IF waitAll THEN {"zero", "truncated"} ELSE {}

Generated_Unmarked(i) ==
  /\ Answered(i, "generate")
  /\ call' = [call EXCEPT ![i] = NoCalls]
  /\ \E g \in Generations :
       /\ gen' = [gen EXCEPT ![i] = g]
       /\ remaining' = IF g = "none" THEN remaining ELSE remaining - 1
       /\ IF g = "none" THEN End(i, Failed)
          ELSE Continue(i, IF waitAll THEN "asleep" ELSE "slot")
  /\ UNCHANGED <<waitAll, round, active, requests, slot, permit, filterVars,
                 phase, timeUp, taken, selected>>

(* The generation is over, and is marked so also if it was invalid or      *)
(* raised.                                                                 *)
Generated(i) ==
  /\ Answered(i, "generate")
  /\ call' = [call EXCEPT ![i] = NoCalls]
  /\ remaining' = remaining - 1
  /\ \E g \in Generations :
       /\ gen' = [gen EXCEPT ![i] = g]
       /\ IF g = "none" THEN End(i, Failed)
          ELSE Continue(i, IF waitAll THEN "asleep" ELSE "slot")
  /\ UNCHANGED <<waitAll, round, active, requests, slot, permit, filterVars,
                 phase, timeUp, taken, selected>>

(* filter_generations_before_verification and what maybe_wait_all_         *)
(* candidates makes of it: truncated and zero-scored generations are       *)
(* dropped unless nothing would be left; one is kept in any case.          *)
Keep(S, P) == IF P = {} THEN S ELSE P
Valid == {i \in Pipelines : gen[i] # "none"}
Pool ==
  LET whole == Keep(Valid, {i \in Valid : gen[i] # "truncated"}) IN
  IF SkipZero THEN Keep(whole, {i \in whole : gen[i] # "zero"}) ELSE whole
Filter ==
  LET whole == {i \in Pool : gen[i] # "truncated"} IN
  IF whole = {} THEN {{i} : i \in Pool} ELSE {whole}

Wake_Early(i) ==
  /\ pc[i] = "asleep"
  /\ filtered' = TRUE
  /\ IF filtered THEN UNCHANGED admitted ELSE admitted' \in Filter
  /\ IF i \in admitted' THEN Continue(i, "slot") ELSE End(i, Failed)
  /\ UNCHANGED <<waitAll, round, call, gen, throttleVars, phase, timeUp, taken, selected>>

(* The first pipeline that is woken decides for all.                       *)
MayWake(i) == pc[i] = "asleep" /\ ~Generating
Wake(i) ==
  /\ MayWake(i)
  /\ filtered' = TRUE
  /\ IF filtered THEN UNCHANGED admitted ELSE admitted' \in Filter
  /\ IF i \in admitted' THEN Continue(i, "slot") ELSE End(i, Failed)
  /\ UNCHANGED <<waitAll, round, call, gen, throttleVars, phase, timeUp, taken, selected>>

(* run_single_attempt: a round of verification takes a slot, and each of   *)
(* its requests a permit.                                                  *)
MayEnter(i) == pc[i] = "slot" /\ ~Full(CandidateLimit, active)
EnterRound(i) ==
  /\ MayEnter(i)
  /\ Continue(i, "verify")
  /\ call' = [call EXCEPT ![i] = [k \in DOMAIN NoCalls |-> IF k = Own THEN "idle" ELSE "queued"]]
  /\ IF Counts(CandidateLimit)
     THEN active' = active + 1 /\ slot' = slot \union {i}
     ELSE UNCHANGED <<active, slot>>
  /\ UNCHANGED <<waitAll, round, gen, remaining, requests, permit, filterVars,
                 phase, timeUp, taken, selected>>

(* verification_call: the request's permit is given back when it returns.  *)
MayAsk(i, k) == pc[i] = "verify" /\ call[i][k] = "queued" /\ ~Full(RequestLimit, requests)
Permit(i, k) ==
  /\ MayAsk(i, k)
  /\ call' = [call EXCEPT ![i][k] = "waiting"]
  /\ IF Counts(RequestLimit)
     THEN requests' = requests + 1 /\ permit' = permit \union {<<i, k>>}
     ELSE UNCHANGED <<requests, permit>>
  /\ UNCHANGED <<waitAll, pc, round, gen, outcome, remaining, active, slot, filterVars,
                 collectVars>>

MayReturn(i, k) == pc[i] = "verify" /\ k \in Requests /\ call[i][k] = "running"
Return(i, k) ==
  /\ MayReturn(i, k)
  /\ call' = [call EXCEPT ![i][k] = "returned"]
  /\ requests' = requests - Cardinality(permit \intersect {<<i, k>>})
  /\ permit' = permit \ {<<i, k>>}
  /\ UNCHANGED <<waitAll, pc, round, gen, outcome, remaining, active, slot, filterVars,
                 collectVars>>

Returned(i) == {k \in Requests : call[i][k] = "returned"}

(* A round ends when all its requests returned, or early, when a later     *)
(* round may follow; the other requests are then cancelled.  A strict pass *)
(* takes all verifiers, and is scored 1 (there are no meta-verifiers).     *)
MayEnd(i) ==
  /\ pc[i] = "verify"
  /\ Returned(i) = Requests \/ (Returned(i) # {} /\ round[i] < RefineRounds)
EndRound(i) ==
  /\ MayEnd(i)
  /\ \/ /\ round[i] < RefineRounds
        /\ Continue(i, "refine")
        /\ call' = [call EXCEPT ![i] = OwnCall]
     \/ /\ \E s \in Scores, p \in BOOLEAN :
             /\ p => Returned(i) = Requests /\ s = TopScore
             /\ End(i, Outcome("candidate", s, p))
        /\ call' = [call EXCEPT ![i] = NoCalls]
  /\ GiveBack(i)
  /\ UNCHANGED <<waitAll, round, gen, remaining, filterVars, phase, timeUp, taken, selected>>

Refined_Uncounted(i) ==
  /\ Answered(i, "refine")
  /\ call' = [call EXCEPT ![i] = NoCalls]
  /\ \/ Continue(i, "slot")
     \/ \E s \in 0 .. TopScore - 1 : End(i, Outcome("candidate", s, FALSE))
     \/ End(i, Failed)
  /\ UNCHANGED <<waitAll, round, gen, throttleVars, filterVars, phase, timeUp, taken, selected>>

(* The refined proof is verified; an invalid one keeps the previous proof; *)
(* a call that raises loses the candidate.                                 *)
Refined(i) ==
  /\ Answered(i, "refine")
  /\ call' = [call EXCEPT ![i] = NoCalls]
  /\ \/ Continue(i, "slot") /\ round' = [round EXCEPT ![i] = @ + 1]
     \/ /\ UNCHANGED round
        /\ \/ \E s \in 0 .. TopScore - 1 : End(i, Outcome("candidate", s, FALSE))
           \/ End(i, Failed)
  /\ UNCHANGED <<waitAll, gen, throttleVars, filterVars, phase, timeUp, taken, selected>>

-----------------------------------------------------------------------------
(* run_streaming_candidates.  The pipelines are taken in the order they    *)
(* ended; those that end after the budget ran out are not taken.           *)

Over == {i \in Pipelines : pc[i] = "over"}
Taken == {queue[j] : j \in 1 .. taken}
Candidates == {i \in Taken : outcome[i].kind = "candidate"}

TimeUp ==
  /\ phase = "collect" /\ ~timeUp
  /\ timeUp' = TRUE
  /\ UNCHANGED <<waitAll, pipeVars, throttleVars, filterVars, phase, queue, taken, selected>>

(* cancel_pending_tasks: who was generating still has to be marked done.   *)
CancelAll ==
  /\ pc' = [i \in Pipelines |-> CASE pc[i] = "over"     -> "over"
                                  [] pc[i] = "generate" -> "unmark"
                                  [] OTHER              -> "unwind"]
  /\ phase' = "cancel"

Collect_Breaks ==
  /\ phase = "collect" /\ taken < Len(queue)
  /\ taken' = taken + 1
  /\ phase' = IF outcome[queue[taken + 1]].strict \/ taken + 1 = N THEN "select" ELSE phase
  /\ UNCHANGED <<waitAll, pipeVars, throttleVars, filterVars, timeUp, queue, selected>>

(* A strict pass ends the search.                                          *)
Collect ==
  /\ phase = "collect" /\ taken < Len(queue)
  /\ taken' = taken + 1
  /\ IF outcome[queue[taken + 1]].strict THEN CancelAll
     ELSE phase' = (IF taken + 1 = N THEN "select" ELSE phase) /\ UNCHANGED pc
  /\ UNCHANGED <<waitAll, round, call, gen, outcome, throttleVars, filterVars, timeUp, queue,
                 selected>>

TimedOut_AtOnce ==
  /\ phase = "collect" /\ timeUp
  /\ CancelAll
  /\ UNCHANGED <<waitAll, round, call, gen, outcome, throttleVars, filterVars, timeUp, queue,
                 taken, selected>>

TimedOut ==
  /\ phase = "collect" /\ timeUp /\ taken = Len(queue)
  /\ CancelAll
  /\ UNCHANGED <<waitAll, round, call, gen, outcome, throttleVars, filterVars, timeUp, queue,
                 taken, selected>>

(* A cancelled pipeline leaves its finally clauses and context managers.   *)
Unwind(i) ==
  /\ pc[i] \in {"unmark", "unwind"}
  /\ Goto(i, "over")
  /\ outcome' = [outcome EXCEPT ![i] = Outcome("cancelled", NoScore, FALSE)]
  /\ call' = [call EXCEPT ![i] = NoCalls]
  /\ remaining' = IF pc[i] = "unmark" THEN remaining - 1 ELSE remaining
  /\ GiveBack(i)
  /\ UNCHANGED <<waitAll, round, gen, filterVars, collectVars>>

Cancelled ==
  /\ phase = "cancel" /\ Over = Pipelines
  /\ phase' = "select"
  /\ UNCHANGED <<waitAll, pipeVars, throttleVars, filterVars, timeUp, queue, taken, selected>>

Select_AnyAbove ==
  /\ phase = "select"
  /\ LET above == {i \in Candidates : outcome[i].score > MinScore}
     IN IF Candidates = {} THEN selected' = NoOne
        ELSE selected' \in IF above # {} THEN above ELSE Candidates
  /\ phase' = "done"
  /\ UNCHANGED <<waitAll, pipeVars, throttleVars, filterVars, timeUp, queue, taken>>

(* solve_problem, with selector_mode "score": the strict pass, or one with *)
(* the best score of those above the threshold, if any.                    *)
Answers ==
  LET strict == {i \in Candidates : outcome[i].strict}
      above  == {i \in Candidates : outcome[i].score > MinScore}
      pool   == IF strict # {} THEN strict ELSE IF above # {} THEN above ELSE Candidates
  IN IF pool = {} THEN {NoOne}
     ELSE {i \in pool : \A j \in pool : outcome[i].score >= outcome[j].score}
Select ==
  /\ phase = "select"
  /\ selected' \in Answers
  /\ phase' = "done"
  /\ UNCHANGED <<waitAll, pipeVars, throttleVars, filterVars, timeUp, queue, taken>>

-----------------------------------------------------------------------------
Pipeline(i) ==
  \/ \E k \in Requests \union {Own} : StartCall(i, k)
  \/ \E k \in Requests : Permit(i, k) \/ Return(i, k)
  \/ Generated(i) \/ Wake(i) \/ EnterRound(i) \/ EndRound(i) \/ Refined(i) \/ Unwind(i)

Work == (\E i \in Pipelines : Pipeline(i)) \/ Collect \/ TimedOut \/ Cancelled \/ Select

Next == Work \/ TimeUp

Spec == Init /\ [][Next]_vars

-----------------------------------------------------------------------------
(* Properties.                                                             *)

UnderWay(i) == {k \in Requests : call[i][k] \in {"waiting", "running"}}
Throttled ==
  Generating /\ phase = "collect" =>
    /\ CandidateLimit > 0 => Cardinality({i \in Pipelines : pc[i] = "verify"}) <= CandidateLimit
    /\ RequestLimit > 0 =>
         Cardinality({c \in Pipelines \X Requests : c[2] \in UnderWay(c[1])}) <= RequestLimit

NothingLeaks ==
  /\ active = Cardinality(slot) /\ requests = Cardinality(permit)
  /\ \A i \in slot : pc[i] \in {"verify", "unwind"}
  /\ \A c \in permit : c[1] \in {i \in Pipelines : pc[i] \in {"verify", "unwind"}}
  /\ phase \in {"select", "done"} => active = 0 /\ requests = 0 /\ remaining = 0

(* While candidates are still generated, at most CandidateLimit are        *)
(* verified and at most RequestLimit of their requests are under way,      *)
(* whichever rounds ended early or were cancelled before; and the throttle *)
(* never leaks: a slot or permit is held only by a pipeline that verifies, *)
(* so that all of them are free once the search is over                    *)
(* (VerificationThrottle).                                                 *)
ThrottleHolds == Throttled /\ NothingLeaks

(* The filter's decision is cached by the first pipeline that is woken.    *)
(* It is the decision all generations ask for, and never drops them all.   *)
FilterIsRight == filtered => admitted \in Filter /\ admitted # {}

(* No pipeline goes on when the search has returned.                       *)
NothingRunsAfterReturn == phase \in {"select", "done"} => Over = Pipelines

(* README.md:119: "Select the proof with the highest average verifier      *)
(* score."  It is chosen among all that were finished before the time      *)
(* budget ran out: none of them is overtaken by the end of the search,     *)
(* and a strict pass, which ends it, does not select a worse one.          *)
BestFinishedIsSelected ==
  LET done == {queue[k] : k \in 1 .. Len(queue)}
      finished == {i \in done : outcome[i].kind = "candidate"}
  IN phase = "done" =>
       IF selected = NoOne THEN finished = {}
       ELSE /\ selected \in Candidates
            /\ \A i \in finished : outcome[selected].score >= outcome[i].score

(* Every step of the search takes it further: a pipeline goes on to a      *)
(* later place or to one of its RefineRounds refinements, one of its calls *)
(* comes nearer its answer, or the collector takes one more or goes on;    *)
(* and nothing falls back.  So the search ends, unless it stalls           *)
(* (run_candidate_pipeline, run_single_attempt).                           *)
Place == [generate |-> 0, asleep |-> 1, slot |-> 2, verify |-> 3, refine |-> 4,
          unmark |-> 5, unwind |-> 5, over |-> 6]
Progress == [idle |-> 0, queued |-> 1, waiting |-> 2, running |-> 3, returned |-> 4]
Unmoved(i) == round'[i] = round[i] /\ pc'[i] = pc[i] /\ call'[i] = call[i]
Further(i) ==
  \/ round[i] < round'[i] /\ round'[i] <= RefineRounds
  \/ round'[i] = round[i] /\ Place[pc[i]] < Place[pc'[i]]
  \/ /\ round'[i] = round[i] /\ pc'[i] = pc[i] /\ call'[i] # call[i]
     /\ \A k \in Requests \union {Own} : Progress[call[i][k]] <= Progress[call'[i][k]]
Stage == [collect |-> 0, cancel |-> 1, select |-> 2, done |-> 3]
CollectorUnmoved == UNCHANGED <<phase, taken, timeUp>>
CollectorFurther ==
  \/ Stage[phase] < Stage[phase']
  \/ phase' = phase /\ taken < taken' /\ taken' <= N
  \/ phase' = phase /\ taken' = taken /\ ~timeUp /\ timeUp'
EveryStepLeadsOn ==
  [][/\ \A i \in Pipelines : Unmoved(i) \/ Further(i)
     /\ CollectorUnmoved \/ CollectorFurther
     /\ CollectorFurther \/ \E i \in Pipelines : Further(i)]_vars

(* The search never stalls, even if the time budget never runs out: neither *)
(* the throttle, nor the semaphore, nor the wait for all generations keeps *)
(* everybody waiting, a collector that has taken all there is has somebody *)
(* to wait for, and there is always something to decide for                *)
(* (run_streaming_candidates, maybe_wait_all_candidates).                  *)
CanGoOn(i) ==
  \/ \E k \in Requests \union {Own} : MayStart(i, k)
  \/ \E k \in Requests : MayAsk(i, k) \/ MayReturn(i, k)
  \/ Answered(i, "generate") \/ Answered(i, "refine")
  \/ MayWake(i) /\ Filter # {}
  \/ MayEnter(i) \/ MayEnd(i)
NeverStalls ==
  /\ phase = "collect" => taken < Len(queue) \/ timeUp \/ \E i \in Pipelines : CanGoOn(i)
  /\ phase = "cancel" => Over = Pipelines \/ \E i \in Pipelines : pc[i] \in {"unmark", "unwind"}
  /\ phase = "select" => Answers # {}
=============================================================================
