------------------------ MODULE CandidateStream_proofs ------------------------
(***************************************************************************)
(* The search for a proof keeps its limits, gives everything back and       *)
(* selects the best candidate that was finished in time, for any number of  *)
(* pipelines, requests, rounds and scores and any limits.                   *)
(***************************************************************************)
EXTENDS CandidateStream, FiniteSetTheorems, WellFoundedInduction, TLAPS

Places == {"generate", "asleep", "slot", "verify", "refine", "unmark", "unwind", "over"}
CallStates == {"idle", "queued", "waiting", "running", "returned"}
Calls == Requests \union {Own}
Outcomes == [kind : Kinds, score : Scores, strict : BOOLEAN]

StreamTypes ==
  /\ waitAll \in BOOLEAN
  /\ pc \in [Pipelines -> Places] /\ round \in [Pipelines -> Nat]
  /\ call \in [Pipelines -> [Calls -> CallStates]]
  /\ gen \in [Pipelines -> {"none", "good", "zero", "truncated"}]
  /\ outcome \in [Pipelines -> Outcomes]
  /\ slot \subseteq Pipelines /\ permit \subseteq Pipelines \X Requests
  /\ filtered \in BOOLEAN /\ admitted \subseteq Pipelines
  /\ phase \in {"collect", "cancel", "select", "done"} /\ timeUp \in BOOLEAN
  /\ queue \in Seq(Pipelines) /\ taken \in 0 .. Len(queue)
  /\ selected \in Pipelines \union {NoOne}

(* The counters of the throttle count what they stand for.                 *)
Unmarked == {i \in Pipelines : pc[i] \in {"generate", "unmark"}}
CountersCount ==
  /\ remaining = Cardinality(Unmarked)
  /\ active = Cardinality(slot) /\ requests = Cardinality(permit)

(* Who verifies, or has a request under way, while others generate was     *)
(* counted when it began, for it began while others generated.             *)
WhoBeganWasCounted ==
  /\ CandidateLimit > 0 => active <= CandidateLimit
  /\ RequestLimit > 0 => requests <= RequestLimit
  /\ \A i \in slot : pc[i] \in {"verify", "unwind"}
  /\ \A c \in permit : pc[c[1]] \in {"verify", "unwind"}
  /\ Generating /\ CandidateLimit > 0 => \A i \in Pipelines : pc[i] = "verify" => i \in slot
  /\ Generating /\ RequestLimit > 0 =>
       \A i \in Pipelines, k \in Requests : call[i][k] \in {"waiting", "running"} => <<i, k>> \in permit
  /\ \A i \in Pipelines, k \in Requests : <<i, k>> \in permit => call[i][k] \in {"waiting", "running"}

(* Cancelled pipelines unwind, and nobody moves afterwards.                *)
PhaseInv ==
  /\ phase = "collect" => \A i \in Pipelines : pc[i] \notin {"unmark", "unwind"}
  /\ phase # "collect" => \A i \in Pipelines : pc[i] \in {"unmark", "unwind", "over"}
  /\ NothingRunsAfterReturn

(* The decision of the filter is made when no generation can change it.    *)
FilterInv ==
  /\ filtered => ~Generating
  /\ FilterIsRight

(* The queue holds every pipeline once, with its final outcome.            *)
QueueInv ==
  /\ \A j \in 1 .. Len(queue) : pc[queue[j]] = "over"
  /\ \A j, k \in 1 .. Len(queue) : queue[j] = queue[k] => j = k
  /\ \A i \in Pipelines : outcome[i].strict => outcome[i].kind = "candidate" /\ outcome[i].score = TopScore

(* The collector leaves nothing in the queue, unless it has a strict pass. *)
AllOrStrict == taken = Len(queue) \/ \E j \in 1 .. taken : outcome[queue[j]].strict
CollectInv ==
  /\ phase # "collect" => AllOrStrict
  /\ BestFinishedIsSelected

(* A pipeline waits for what its place says.                               *)
WaitsFor(i) ==
  /\ pc[i] \in {"generate", "refine"} => call[i][Own] \in {"waiting", "running"}
  /\ pc[i] = "verify" => \A k \in Requests : call[i][k] # "idle"
  /\ pc[i] = "asleep" => gen[i] # "none"
  /\ pc[i] = "refine" => round[i] < RefineRounds
  /\ phase = "collect" => \A k \in Calls : call[i][k] \in {"waiting", "running"} =>
       IF k = Own THEN pc[i] \in {"generate", "refine"} ELSE pc[i] = "verify"
CallsInv == \A i \in Pipelines : WaitsFor(i)

(* A collector that still collects has not had all pipelines, and before   *)
(* the time is up those that ended are in its queue.                       *)
EndedIsQueued == \A i \in Pipelines : pc[i] = "over" => \E j \in 1 .. Len(queue) : queue[j] = i
AwaitsInv == phase = "collect" => taken < N /\ (~timeUp => EndedIsQueued)

StreamInv ==
  /\ StreamTypes /\ CountersCount /\ WhoBeganWasCounted
  /\ PhaseInv /\ FilterInv /\ QueueInv /\ CollectInv
  /\ CallsInv /\ AwaitsInv

-----------------------------------------------------------------------------
(* Facts about sets of pipelines and calls.                                *)

LEMMA SetsAreFinite ==
  /\ IsFiniteSet(Pipelines) /\ IsFiniteSet(Requests) /\ IsFiniteSet(Pipelines \X Requests)
  /\ N \in Nat \ {0} /\ Own \in Calls /\ Own \notin Requests /\ Requests \subseteq Calls
<1>1. IsFiniteSet(Pipelines) /\ VerifyN \in Nat
  BY StreamAssumption
<1>2. IsFiniteSet(Requests)
  BY <1>1, FS_Interval DEF Requests
<1>3. IsFiniteSet(Pipelines \X Requests)
  BY <1>1, <1>2, FS_Product
<1>4. N \in Nat /\ N # 0
  BY <1>1, StreamAssumption, FS_CardinalityType, FS_EmptySet DEF N
<1>5. Own \in Calls /\ Own \notin Requests /\ Requests \subseteq Calls
  BY <1>1 DEF Own, Calls, Requests
<1> QED BY <1>1, <1>2, <1>3, <1>4, <1>5

LEMMA CountersAreNumbers ==
  ASSUME StreamTypes, CountersCount
  PROVE  /\ IsFiniteSet(Unmarked) /\ IsFiniteSet(slot) /\ IsFiniteSet(permit)
         /\ remaining \in Nat /\ active \in Nat /\ requests \in Nat
<1>1. Unmarked \subseteq Pipelines /\ slot \subseteq Pipelines /\ permit \subseteq Pipelines \X Requests
  BY DEF Unmarked, StreamTypes
<1>2. IsFiniteSet(Unmarked) /\ IsFiniteSet(slot) /\ IsFiniteSet(permit)
  BY <1>1, SetsAreFinite, FS_Subset
<1>3. \A S : IsFiniteSet(S) => Cardinality(S) \in Nat
  BY FS_CardinalityType
<1> QED BY <1>2, <1>3 DEF CountersCount

(* Nobody generates any more when the counter says so.                     *)
LEMMA GeneratingMeansSomebody ==
  ASSUME StreamTypes, CountersCount
  PROVE  Generating <=> Unmarked # {}
<1>1. IsFiniteSet(Unmarked) /\ remaining \in Nat
  BY CountersAreNumbers
<1>2. remaining = 0 <=> Unmarked = {}
  BY <1>1, FS_EmptySet DEF CountersCount
<1> QED BY <1>1, <1>2 DEF Generating

(* A queue that holds every pipeline at most once is not longer than there *)
(* are pipelines, and holds all of them if it is as long.                  *)
LEMMA QueueIsBounded ==
  ASSUME StreamTypes, QueueInv
  PROVE  /\ Len(queue) \in Nat /\ Len(queue) <= N
         /\ Len(queue) = N => \A i \in Pipelines : pc[i] = "over"
<1>1. Len(queue) \in Nat /\ queue \in [1 .. Len(queue) -> Pipelines]
  BY DEF StreamTypes
<1>2. queue \in Injection(1 .. Len(queue), Pipelines)
  BY <1>1 DEF QueueInv, Injection, IsInjective
<1>3. Cardinality(1 .. Len(queue)) = Len(queue)
  BY <1>1, FS_Interval
<1>4. /\ Cardinality(1 .. Len(queue)) <= N
      /\ Cardinality(1 .. Len(queue)) = N => queue \in Surjection(1 .. Len(queue), Pipelines)
  BY <1>2, SetsAreFinite, FS_Injection DEF N
<1>5. ASSUME Len(queue) = N, NEW i \in Pipelines PROVE pc[i] = "over"
  <2>1. PICK j \in 1 .. Len(queue) : queue[j] = i
    BY <1>3, <1>4, <1>5 DEF Surjection
  <2> QED BY <2>1 DEF QueueInv
<1> QED BY <1>1, <1>3, <1>4, <1>5

-----------------------------------------------------------------------------
LEMMA StreamInvInit == Init => StreamInv
<1> SUFFICES ASSUME Init PROVE StreamInv
  OBVIOUS
<1>1. StreamTypes
  <2>1. OwnCall \in [Calls -> CallStates]
    BY SetsAreFinite DEF OwnCall, NoCalls, Calls, CallStates
  <2>2. Pending \in [kind : Kinds, score : Scores, strict : BOOLEAN]
    BY DEF Pending, Outcome, Kinds, Scores
  <2>3. waitAll \in BOOLEAN
    BY StreamAssumption DEF Init
  <2>4. queue \in Seq(Pipelines) /\ taken \in 0 .. Len(queue)
    BY DEF Init
  <2> QED BY <2>1, <2>2, <2>3, <2>4 DEF Init, StreamTypes, Places, Outcomes
<1>2. CountersCount
  <2>1. Unmarked = Pipelines
    BY DEF Init, Unmarked
  <2> QED BY <2>1, FS_EmptySet DEF Init, CountersCount, N
<1>3. WhoBeganWasCounted
  <2>1. \A i \in Pipelines, k \in Requests : call[i][k] = "idle"
    BY SetsAreFinite DEF Init, OwnCall, NoCalls, Calls
  <2> QED BY <2>1, StreamAssumption DEF Init, WhoBeganWasCounted
<1>4. PhaseInv /\ FilterInv
  BY DEF Init, PhaseInv, FilterInv, NothingRunsAfterReturn, FilterIsRight
<1>5. QueueInv /\ CollectInv
  BY DEF Init, QueueInv, CollectInv, BestFinishedIsSelected, Pending, Outcome
<1>6. CallsInv
  BY SetsAreFinite DEF Init, CallsInv, WaitsFor, OwnCall, NoCalls, Calls
<1>7. AwaitsInv
  BY SetsAreFinite DEF Init, AwaitsInv, EndedIsQueued
<1> QED BY <1>1, <1>2, <1>3, <1>4, <1>5, <1>6, <1>7 DEF StreamInv

(* The helpers of a step keep the types of what they change.               *)
LEMMA HelpersKeepTypes ==
  ASSUME StreamTypes, NEW i \in Pipelines
  PROVE  /\ NoCalls \in [Calls -> CallStates] /\ OwnCall \in [Calls -> CallStates]
         /\ Failed \in Outcomes
         /\ \A s \in Scores, p \in BOOLEAN : Outcome("candidate", s, p) \in Outcomes
         /\ Outcome("cancelled", NoScore, FALSE) \in Outcomes
         /\ (\E p \in Places : Continue(i, p)) \/ (\E o \in Outcomes : End(i, o)) =>
              /\ pc' \in [Pipelines -> Places] /\ outcome' \in [Pipelines -> Outcomes]
              /\ queue' \in Seq(Pipelines) /\ Len(queue) <= Len(queue')
         /\ GiveBack(i) => slot' \subseteq Pipelines /\ permit' \subseteq Pipelines \X Requests
<1>1. NoCalls \in [Calls -> CallStates] /\ OwnCall \in [Calls -> CallStates]
  BY SetsAreFinite DEF OwnCall, NoCalls, Calls, CallStates
<1>2. /\ Failed \in Outcomes /\ Outcome("cancelled", NoScore, FALSE) \in Outcomes
      /\ \A s \in Scores, p \in BOOLEAN : Outcome("candidate", s, p) \in Outcomes
  BY DEF Failed, Outcome, Outcomes, Kinds, Scores
<1>3. ASSUME NEW p \in Places, Continue(i, p)
      PROVE  /\ pc' \in [Pipelines -> Places] /\ outcome' \in [Pipelines -> Outcomes]
             /\ queue' \in Seq(Pipelines) /\ Len(queue) <= Len(queue')
  BY <1>3 DEF Continue, Goto, StreamTypes
<1>4. ASSUME NEW o \in Outcomes, End(i, o)
      PROVE  /\ pc' \in [Pipelines -> Places] /\ outcome' \in [Pipelines -> Outcomes]
             /\ queue' \in Seq(Pipelines) /\ Len(queue) <= Len(queue')
  <2>1. pc' \in [Pipelines -> Places]
    BY <1>4 DEF End, Goto, StreamTypes, Places
  <2>2. outcome' \in [Pipelines -> Outcomes]
    BY <1>4 DEF End, StreamTypes, Outcomes
  <2>3. queue' \in Seq(Pipelines) /\ Len(queue) <= Len(queue')
    BY <1>4 DEF End, StreamTypes
  <2> QED BY <2>1, <2>2, <2>3
<1>5. GiveBack(i) => slot' \subseteq Pipelines /\ permit' \subseteq Pipelines \X Requests
  BY DEF GiveBack, StreamTypes
<1> QED BY <1>1, <1>2, <1>3, <1>4, <1>5

LEMMA TypesStep ==
  ASSUME StreamTypes, QueueInv, FilterInv, [Next]_vars
  PROVE  StreamTypes'
<1> USE SetsAreFinite
<1>1. ASSUME NEW i \in Pipelines, NEW k \in Calls, StartCall(i, k) PROVE StreamTypes'
  BY <1>1 DEF StartCall, throttleVars, filterVars, collectVars, StreamTypes, CallStates
<1>2. ASSUME NEW i \in Pipelines, NEW k \in Requests, Permit(i, k) PROVE StreamTypes'
  <2>1. call' \in [Pipelines -> [Calls -> CallStates]]
    BY <1>2 DEF Permit, StreamTypes, CallStates
  <2>2. permit' \subseteq Pipelines \X Requests
    BY <1>2 DEF Permit, StreamTypes
  <2> QED BY <1>2, <2>1, <2>2 DEF Permit, filterVars, collectVars, StreamTypes
<1>3. ASSUME NEW i \in Pipelines, NEW k \in Requests, Return(i, k) PROVE StreamTypes'
  <2>1. call' \in [Pipelines -> [Calls -> CallStates]]
    BY <1>3 DEF Return, StreamTypes, CallStates
  <2> QED BY <1>3, <2>1 DEF Return, filterVars, collectVars, StreamTypes
<1>4. ASSUME NEW i \in Pipelines, Generated(i) PROVE StreamTypes'
  <2>1. call' \in [Pipelines -> [Calls -> CallStates]]
    BY <1>4, HelpersKeepTypes DEF Generated, StreamTypes
  <2>2. PICK g \in Generations : gen' = [gen EXCEPT ![i] = g]
    BY <1>4 DEF Generated
  <2>3. gen' \in [Pipelines -> {"none", "good", "zero", "truncated"}]
    BY <2>2 DEF Generations, StreamTypes
  <2>4. End(i, Failed) \/ \E p \in {"asleep", "slot"} : Continue(i, p)
    BY <1>4 DEF Generated
  <2>5. /\ pc' \in [Pipelines -> Places] /\ outcome' \in [Pipelines -> Outcomes]
        /\ queue' \in Seq(Pipelines) /\ Len(queue) <= Len(queue')
    BY <2>4, HelpersKeepTypes DEF Places
  <2>6. taken' \in 0 .. Len(queue')
    BY <1>4, <2>5 DEF Generated, StreamTypes
  <2> QED BY <1>4, <2>1, <2>3, <2>5, <2>6 DEF Generated, filterVars, StreamTypes
<1>5. ASSUME NEW i \in Pipelines, Wake(i) PROVE StreamTypes'
  <2>1. End(i, Failed) \/ Continue(i, "slot")
    BY <1>5 DEF Wake
  <2>2. /\ pc' \in [Pipelines -> Places] /\ outcome' \in [Pipelines -> Outcomes]
        /\ queue' \in Seq(Pipelines) /\ Len(queue) <= Len(queue')
    BY <2>1, HelpersKeepTypes DEF Places
  <2>3. taken' \in 0 .. Len(queue')
    BY <1>5, <2>2 DEF Wake, StreamTypes
  <2>4. admitted' \subseteq Pipelines
    <3>1. Pool \subseteq Pipelines
      BY DEF Pool, Keep, Valid
    <3>2. \A S \in Filter : S \subseteq Pipelines
      BY <3>1 DEF Filter
    <3> QED BY <1>5, <3>2 DEF Wake, StreamTypes
  <2> QED BY <1>5, <2>2, <2>3, <2>4 DEF Wake, throttleVars, StreamTypes
<1>6. ASSUME NEW i \in Pipelines, EnterRound(i) PROVE StreamTypes'
  <2>1. call' \in [Pipelines -> [Calls -> CallStates]]
    <3>1. DOMAIN NoCalls = Calls
      BY DEF NoCalls, Calls
    <3> QED BY <1>6, <3>1 DEF EnterRound, StreamTypes, CallStates
  <2>2. pc' \in [Pipelines -> Places] /\ outcome' = outcome /\ queue' = queue
    BY <1>6, HelpersKeepTypes DEF EnterRound, Places, Continue
  <2> QED BY <1>6, <2>1, <2>2 DEF EnterRound, filterVars, StreamTypes
<1>7. ASSUME NEW i \in Pipelines, EndRound(i) PROVE StreamTypes'
  <2>1. call' \in [Pipelines -> [Calls -> CallStates]]
    BY <1>7, HelpersKeepTypes DEF EndRound, StreamTypes
  <2>2. Continue(i, "refine") \/ \E o \in Outcomes : End(i, o)
    BY <1>7, HelpersKeepTypes DEF EndRound
  <2>3. /\ pc' \in [Pipelines -> Places] /\ outcome' \in [Pipelines -> Outcomes]
        /\ queue' \in Seq(Pipelines) /\ Len(queue) <= Len(queue')
    BY <2>2, HelpersKeepTypes DEF Places
  <2>4. taken' \in 0 .. Len(queue')
    BY <1>7, <2>3 DEF EndRound, StreamTypes
  <2>5. slot' \subseteq Pipelines /\ permit' \subseteq Pipelines \X Requests
    BY <1>7, HelpersKeepTypes DEF EndRound
  <2> QED BY <1>7, <2>1, <2>3, <2>4, <2>5 DEF EndRound, filterVars, StreamTypes
<1>8. ASSUME NEW i \in Pipelines, Refined(i) PROVE StreamTypes'
  <2>1. call' \in [Pipelines -> [Calls -> CallStates]]
    BY <1>8, HelpersKeepTypes DEF Refined, StreamTypes
  <2>2. Continue(i, "slot") \/ \E o \in Outcomes : End(i, o)
    <3>1. 0 .. TopScore - 1 \subseteq Scores
      BY StreamAssumption DEF Scores
    <3> QED BY <1>8, <3>1, HelpersKeepTypes DEF Refined
  <2>3. /\ pc' \in [Pipelines -> Places] /\ outcome' \in [Pipelines -> Outcomes]
        /\ queue' \in Seq(Pipelines) /\ Len(queue) <= Len(queue')
    BY <2>2, HelpersKeepTypes DEF Places
  <2>4. taken' \in 0 .. Len(queue')
    BY <1>8, <2>3 DEF Refined, StreamTypes
  <2>5. round' \in [Pipelines -> Nat]
    <3>1. round' = round \/ round' = [round EXCEPT ![i] = @ + 1]
      BY <1>8 DEF Refined
    <3>2. round \in [Pipelines -> Nat] /\ round[i] + 1 \in Nat
      BY DEF StreamTypes
    <3>3. CASE round' = [round EXCEPT ![i] = @ + 1]
      BY <3>2, <3>3
    <3> QED BY <3>1, <3>2, <3>3
  <2> QED BY <1>8, <2>1, <2>3, <2>4, <2>5 DEF Refined, throttleVars, filterVars, StreamTypes
<1>9. ASSUME NEW i \in Pipelines, Unwind(i) PROVE StreamTypes'
  <2>1. call' \in [Pipelines -> [Calls -> CallStates]]
    BY <1>9, HelpersKeepTypes DEF Unwind, StreamTypes
  <2>2. pc' \in [Pipelines -> Places]
    BY <1>9 DEF Unwind, Goto, StreamTypes, Places
  <2>3. outcome' \in [Pipelines -> Outcomes]
    BY <1>9, HelpersKeepTypes DEF Unwind, StreamTypes
  <2>4. slot' \subseteq Pipelines /\ permit' \subseteq Pipelines \X Requests
    BY <1>9, HelpersKeepTypes DEF Unwind
  <2> QED BY <1>9, <2>1, <2>2, <2>3, <2>4
          DEF Unwind, filterVars, collectVars, StreamTypes
<1>10. ASSUME CancelAll PROVE pc' \in [Pipelines -> Places] /\ phase' = "cancel"
  BY <1>10 DEF CancelAll, Places
<1>11. CASE Collect
  <2>1. pc' \in [Pipelines -> Places] /\ phase' \in {"collect", "cancel", "select", "done"}
    BY <1>10, <1>11 DEF Collect, StreamTypes
  <2>2. taken' \in 0 .. Len(queue')
    BY <1>11 DEF Collect, StreamTypes
  <2> QED BY <1>11, <2>1, <2>2 DEF Collect, throttleVars, filterVars, StreamTypes
<1>12. CASE TimedOut
  BY <1>10, <1>12 DEF TimedOut, throttleVars, filterVars, StreamTypes
<1>13. CASE Cancelled
  BY <1>13 DEF Cancelled, pipeVars, throttleVars, filterVars, StreamTypes
<1>14. CASE Select
  <2>1. selected' \in Pipelines \union {NoOne}
    <3>1. Candidates \subseteq Pipelines
      BY DEF Candidates, Taken, StreamTypes
    <3> QED BY <1>14, <3>1 DEF Select, Answers
  <2> QED BY <1>14, <2>1 DEF Select, pipeVars, throttleVars, filterVars, StreamTypes
<1>15. CASE TimeUp
  BY <1>15 DEF TimeUp, pipeVars, throttleVars, filterVars, StreamTypes
<1>16. CASE UNCHANGED vars
  BY <1>16 DEF vars, pipeVars, throttleVars, filterVars, collectVars, StreamTypes
<1> QED
  BY <1>1, <1>2, <1>3, <1>4, <1>5, <1>6, <1>7, <1>8, <1>9, <1>11, <1>12, <1>13, <1>14, <1>15, <1>16
  DEF Next, Work, Pipeline, Calls

-----------------------------------------------------------------------------
(* The counters.                                                           *)

(* What a pipeline ends or continues with is its new place.                *)
LEMMA Moves ==
  ASSUME StreamTypes, NEW i \in Pipelines
  PROVE  /\ \A p : Continue(i, p) => pc' = [pc EXCEPT ![i] = p] /\ UNCHANGED <<outcome, queue>>
         /\ \A o : End(i, o) => /\ pc' = [pc EXCEPT ![i] = "over"]
                                /\ outcome' = [outcome EXCEPT ![i] = o]
                                /\ queue' = IF timeUp THEN queue ELSE Append(queue, i)
  BY DEF Continue, End, Goto

LEMMA RemainingStep ==
  ASSUME StreamInv, [Next]_vars
  PROVE  remaining' = Cardinality(Unmarked') /\ (remaining = 0 => remaining' = 0)
<1> USE DEF StreamInv, CountersCount
<1>a. StreamTypes /\ StreamTypes'
  BY TypesStep
<1>b. IsFiniteSet(Unmarked) /\ remaining \in Nat
  BY CountersAreNumbers
<1>c. ASSUME NEW i \in Unmarked, Unmarked' = Unmarked \ {i}, remaining' = remaining - 1
      PROVE  remaining' = Cardinality(Unmarked') /\ remaining # 0
  <2>1. Cardinality(Unmarked') = remaining - 1
    BY <1>b, <1>c, FS_RemoveElement
  <2>2. remaining # 0
    BY <1>b, FS_EmptySet
  <2> QED BY <1>c, <2>1, <2>2
<1>d. ASSUME Unmarked' = Unmarked, remaining' = remaining
      PROVE  remaining' = Cardinality(Unmarked') /\ (remaining = 0 => remaining' = 0)
  BY <1>d
<1>1. ASSUME NEW i \in Pipelines, Generated(i) PROVE i \in Unmarked /\ Unmarked' = Unmarked \ {i} /\ remaining' = remaining - 1
  <2>1. \E p \in {"asleep", "slot", "over"} : pc' = [pc EXCEPT ![i] = p]
    BY <1>1, <1>a, Moves DEF Generated
  <2> QED BY <1>1, <1>a, <2>1 DEF Generated, Answered, Unmarked, StreamTypes
<1>2. ASSUME NEW i \in Pipelines, Unwind(i)
      PROVE  \/ i \in Unmarked /\ Unmarked' = Unmarked \ {i} /\ remaining' = remaining - 1
             \/ Unmarked' = Unmarked /\ remaining' = remaining
  BY <1>2, <1>a DEF Unwind, Goto, Unmarked, StreamTypes
<1>3. ASSUME phase = "collect", CancelAll PROVE Unmarked' = Unmarked
  BY <1>3 DEF CancelAll, PhaseInv, Unmarked
<1>4. ASSUME NEW i \in Pipelines, Wake(i) \/ EnterRound(i) \/ EndRound(i) \/ Refined(i)
      PROVE  Unmarked' = Unmarked /\ remaining' = remaining
  <2>1. pc[i] \in {"asleep", "slot", "verify", "refine"}
        /\ \E p \in {"slot", "verify", "refine", "over"} : pc' = [pc EXCEPT ![i] = p]
    BY <1>4, <1>a, Moves DEF Wake, MayWake, EnterRound, MayEnter, EndRound, MayEnd, Refined, Answered
  <2>2. remaining' = remaining
    BY <1>4 DEF Wake, EnterRound, EndRound, Refined, throttleVars
  <2> QED BY <1>a, <2>1, <2>2 DEF Unmarked, StreamTypes
<1>5. ASSUME NEW i \in Pipelines, NEW k \in Calls, StartCall(i, k) \/ (k \in Requests /\ (Permit(i, k) \/ Return(i, k)))
      PROVE  Unmarked' = Unmarked /\ remaining' = remaining
  BY <1>5 DEF StartCall, Permit, Return, throttleVars, Unmarked
<1>6. ASSUME Collect \/ TimedOut \/ Cancelled \/ Select \/ TimeUp \/ UNCHANGED vars
      PROVE  Unmarked' = Unmarked /\ remaining' = remaining
  <2>1. pc' = pc \/ (phase = "collect" /\ CancelAll)
    BY <1>6 DEF Collect, TimedOut, Cancelled, Select, TimeUp, vars, pipeVars
  <2>2. remaining' = remaining
    BY <1>6 DEF Collect, TimedOut, Cancelled, Select, TimeUp, vars, pipeVars, throttleVars
  <2> QED BY <1>3, <2>1, <2>2 DEF Unmarked
<1> QED
  BY <1>c, <1>d, <1>1, <1>2, <1>4, <1>5, <1>6, SetsAreFinite DEF Next, Work, Pipeline, Calls

(* What is given back was counted.                                         *)
LEMMA GiveBackCounts ==
  ASSUME StreamInv, NEW i \in Pipelines, GiveBack(i)
  PROVE  /\ active' = Cardinality(slot') /\ requests' = Cardinality(permit')
         /\ active' <= active /\ requests' <= requests
<1>1. IsFiniteSet(slot) /\ IsFiniteSet(permit)
  BY CountersAreNumbers DEF StreamInv
<1>2. slot' = slot \ {i} /\ active' = active - Cardinality(slot \intersect {i})
  BY DEF GiveBack
<1>3. permit' = permit \ ({i} \X Requests) /\ requests' = requests - Cardinality(permit \intersect ({i} \X Requests))
  BY DEF GiveBack
<1>4. active = Cardinality(slot) /\ requests = Cardinality(permit)
  BY DEF StreamInv, CountersCount
<1>5. active' = Cardinality(slot') /\ requests' = Cardinality(permit')
  BY <1>1, <1>2, <1>3, <1>4, FS_Difference
<1>6. Cardinality(slot') <= Cardinality(slot) /\ Cardinality(permit') <= Cardinality(permit)
  BY <1>1, <1>2, <1>3, FS_Subset
<1> QED BY <1>4, <1>5, <1>6

LEMMA CountersStep ==
  ASSUME StreamInv, [Next]_vars
  PROVE  /\ active' = Cardinality(slot') /\ requests' = Cardinality(permit')
         /\ CandidateLimit > 0 => active' <= CandidateLimit
         /\ RequestLimit > 0 => requests' <= RequestLimit
<1> DEFINE Goal == /\ active' = Cardinality(slot') /\ requests' = Cardinality(permit')
                   /\ CandidateLimit > 0 => active' <= CandidateLimit
                   /\ RequestLimit > 0 => requests' <= RequestLimit
<1>a. StreamTypes /\ CandidateLimit \in Nat /\ RequestLimit \in Nat
  BY StreamAssumption DEF StreamInv
<1>b. /\ IsFiniteSet(slot) /\ IsFiniteSet(permit) /\ active \in Nat /\ requests \in Nat
      /\ active = Cardinality(slot) /\ requests = Cardinality(permit)
  BY CountersAreNumbers DEF StreamInv, CountersCount
<1>c. (CandidateLimit > 0 => active <= CandidateLimit) /\ (RequestLimit > 0 => requests <= RequestLimit)
  BY DEF StreamInv, WhoBeganWasCounted
<1>1. ASSUME UNCHANGED <<active, requests, slot, permit>> PROVE Goal
  BY <1>b, <1>c, <1>1
<1>2. ASSUME NEW i \in Pipelines, EndRound(i) \/ Unwind(i) PROVE Goal
  <2>1. GiveBack(i)
    BY <1>2 DEF EndRound, Unwind
  <2>2. active' = Cardinality(slot') /\ requests' = Cardinality(permit') /\ active' <= active /\ requests' <= requests
    BY <2>1, GiveBackCounts
  <2>3. IsFiniteSet(slot') /\ IsFiniteSet(permit')
    BY <1>b, <2>1, FS_Subset DEF GiveBack
  <2>4. active' \in Nat /\ requests' \in Nat
    BY <2>2, <2>3, FS_CardinalityType
  <2> QED BY <1>a, <1>b, <1>c, <2>2, <2>4
<1>3. ASSUME NEW i \in Pipelines, EnterRound(i) PROVE Goal
  <2>1. i \notin slot /\ UNCHANGED <<requests, permit>>
    BY <1>3 DEF EnterRound, MayEnter, StreamInv, WhoBeganWasCounted
  <2>2. Cardinality(slot \union {i}) = active + 1
    BY <1>b, <2>1, FS_AddElement
  <2>3. \/ UNCHANGED <<active, slot>>
        \/ active' = active + 1 /\ slot' = slot \union {i} /\ ~(active >= CandidateLimit)
    BY <1>3 DEF EnterRound, MayEnter, Counts, Full
  <2>4. CASE UNCHANGED <<active, slot>>
    BY <1>1, <2>1, <2>4
  <2>5. CASE active' = active + 1 /\ slot' = slot \union {i} /\ ~(active >= CandidateLimit)
    <3>1. active' <= CandidateLimit /\ active' = Cardinality(slot')
      BY <1>a, <1>b, <2>2, <2>5
    <3> QED BY <1>b, <1>c, <2>1, <3>1
  <2> QED BY <2>3, <2>4, <2>5
<1>4. ASSUME NEW i \in Pipelines, NEW k \in Requests, Permit(i, k) PROVE Goal
  <2>1. <<i, k>> \notin permit /\ UNCHANGED <<active, slot>>
    BY <1>4 DEF Permit, MayAsk, StreamInv, WhoBeganWasCounted
  <2>2. Cardinality(permit \union {<<i, k>>}) = requests + 1
    BY <1>b, <2>1, FS_AddElement
  <2>3. \/ UNCHANGED <<requests, permit>>
        \/ requests' = requests + 1 /\ permit' = permit \union {<<i, k>>} /\ ~(requests >= RequestLimit)
    BY <1>4 DEF Permit, MayAsk, Counts, Full
  <2>4. CASE UNCHANGED <<requests, permit>>
    BY <1>1, <2>1, <2>4
  <2>5. CASE requests' = requests + 1 /\ permit' = permit \union {<<i, k>>} /\ ~(requests >= RequestLimit)
    <3>1. requests' <= RequestLimit /\ requests' = Cardinality(permit')
      BY <1>a, <1>b, <2>2, <2>5
    <3> QED BY <1>b, <1>c, <2>1, <3>1
  <2> QED BY <2>3, <2>4, <2>5
<1>5. ASSUME NEW i \in Pipelines, NEW k \in Requests, Return(i, k) PROVE Goal
  <2>1. /\ UNCHANGED <<active, slot>> /\ permit' = permit \ {<<i, k>>}
        /\ requests' = requests - Cardinality(permit \intersect {<<i, k>>})
    BY <1>5 DEF Return
  <2>2. IsFiniteSet(permit') /\ requests' = Cardinality(permit')
    BY <1>b, <2>1, FS_Difference
  <2>3. requests' <= requests /\ requests' \in Nat
    BY <1>b, <2>1, <2>2, FS_Subset, FS_CardinalityType
  <2> QED BY <1>a, <1>b, <1>c, <2>1, <2>2, <2>3
<1>6. ASSUME NEW i \in Pipelines, Generated(i) \/ Wake(i) \/ Refined(i) PROVE UNCHANGED <<active, requests, slot, permit>>
  BY <1>6 DEF Generated, Wake, Refined, throttleVars
<1>7. ASSUME NEW i \in Pipelines, NEW k \in Calls, StartCall(i, k) PROVE UNCHANGED <<active, requests, slot, permit>>
  BY <1>7 DEF StartCall, throttleVars
<1>8. ASSUME Collect \/ TimedOut \/ Cancelled \/ Select \/ TimeUp \/ UNCHANGED vars
      PROVE  UNCHANGED <<active, requests, slot, permit>>
  BY <1>8 DEF Collect, TimedOut, Cancelled, Select, TimeUp, vars, throttleVars
<1> QED
  BY <1>1, <1>2, <1>3, <1>4, <1>5, <1>6, <1>7, <1>8 DEF Next, Work, Pipeline, Calls

(* Only who has been counted begins while others generate, and what was    *)
(* counted is under way until it is given back.                            *)
LEMMA HoldersStep ==
  ASSUME StreamInv, [Next]_vars
  PROVE  WhoBeganWasCounted'
<1> DEFINE
     Slots == /\ \A i \in slot : pc[i] \in {"verify", "unwind"}
              /\ Generating /\ CandidateLimit > 0 => \A i \in Pipelines : pc[i] = "verify" => i \in slot
     Permits == /\ \A c \in permit : pc[c[1]] \in {"verify", "unwind"}
                /\ \A i \in Pipelines, k \in Requests : <<i, k>> \in permit => call[i][k] \in {"waiting", "running"}
     Begun == Generating /\ RequestLimit > 0 =>
                \A i \in Pipelines, k \in Requests : call[i][k] \in {"waiting", "running"} => <<i, k>> \in permit
<1>a. StreamTypes /\ Slots /\ Permits /\ Begun
  BY DEF StreamInv, WhoBeganWasCounted
<1>b. Generating' => Generating
  <2>1. remaining \in Nat
    BY CountersAreNumbers DEF StreamInv
  <2> QED BY <2>1, RemainingStep DEF Generating
<1> SUFFICES Slots' /\ Permits' /\ Begun'
  BY CountersStep DEF WhoBeganWasCounted
<1>1. ASSUME pc' = pc, UNCHANGED <<call, slot, permit>> PROVE Slots' /\ Permits' /\ Begun'
  BY <1>1, <1>a, <1>b
<1>2. ASSUME phase = "collect", CancelAll, UNCHANGED <<call, slot, permit>> PROVE Slots' /\ Permits' /\ Begun'
  <2>1. \A i \in Pipelines : (pc[i] = "verify" => pc'[i] = "unwind") /\ pc'[i] # "verify" /\ pc[i] # "unwind"
    BY <1>2 DEF CancelAll, StreamInv, PhaseInv
  <2>2. slot \subseteq Pipelines /\ \A c \in permit : c[1] \in Pipelines
    BY <1>a DEF StreamTypes
  <2> QED BY <1>2, <1>a, <1>b, <2>1, <2>2
<1>3. ASSUME Collect \/ TimedOut \/ Cancelled \/ Select \/ TimeUp \/ UNCHANGED vars
      PROVE  Slots' /\ Permits' /\ Begun'
  <2>1. pc' = pc \/ (phase = "collect" /\ CancelAll)
    BY <1>3 DEF Collect, TimedOut, Cancelled, Select, TimeUp, vars, pipeVars
  <2>2. UNCHANGED <<call, slot, permit>>
    BY <1>3 DEF Collect, TimedOut, Cancelled, Select, TimeUp, vars, pipeVars, throttleVars
  <2> QED BY <1>1, <1>2, <2>1, <2>2
<1>4. ASSUME NEW i \in Pipelines, NEW k \in Calls, StartCall(i, k) PROVE Slots' /\ Permits' /\ Begun'
  <2>1. UNCHANGED <<pc, slot, permit>> /\ call[i][k] = "waiting" /\ call' = [call EXCEPT ![i][k] = "running"]
    BY <1>4 DEF StartCall, MayStart, throttleVars
  <2>2. \A j \in Pipelines, l \in Requests : call'[j][l] \in {"waiting", "running"} <=> call[j][l] \in {"waiting", "running"}
    BY <1>a, <2>1, SetsAreFinite DEF StreamTypes
  <2> QED BY <1>a, <1>b, <2>1, <2>2
<1>5. ASSUME NEW i \in Pipelines, NEW k \in Requests, Permit(i, k) PROVE Slots' /\ Permits' /\ Begun'
  <2>1. UNCHANGED <<pc, slot>> /\ pc[i] = "verify" /\ call' = [call EXCEPT ![i][k] = "waiting"]
    BY <1>5 DEF Permit, MayAsk
  <2>2. /\ permit' = permit \/ permit' = permit \union {<<i, k>>}
        /\ Generating /\ RequestLimit > 0 => permit' = permit \union {<<i, k>>}
    BY <1>5 DEF Permit, Counts
  <2>3. /\ call'[i][k] = "waiting"
        /\ \A j \in Pipelines, l \in Requests : <<j, l>> # <<i, k>> => call'[j][l] = call[j][l]
    BY <1>a, <2>1, SetsAreFinite DEF StreamTypes
  <2>4. Slots' /\ Permits'
    BY <1>a, <1>b, <2>1, <2>2, <2>3
  <2>5. Begun'
    BY <1>a, <1>b, <2>2, <2>3
  <2> QED BY <2>4, <2>5
<1>6. ASSUME NEW i \in Pipelines, NEW k \in Requests, Return(i, k) PROVE Slots' /\ Permits' /\ Begun'
  <2>1. UNCHANGED <<pc, slot>> /\ permit' = permit \ {<<i, k>>} /\ call' = [call EXCEPT ![i][k] = "returned"]
    BY <1>6 DEF Return
  <2>2. /\ call'[i][k] = "returned"
        /\ \A j \in Pipelines, l \in Requests : <<j, l>> # <<i, k>> => call'[j][l] = call[j][l]
    BY <1>a, <2>1, SetsAreFinite DEF StreamTypes
  <2> QED BY <1>a, <1>b, <2>1, <2>2
<1>7. ASSUME NEW i \in Pipelines, pc[i] \in {"generate", "asleep", "slot", "refine"}, NEW p \in {"asleep", "slot", "over"},
             pc' = [pc EXCEPT ![i] = p], UNCHANGED <<slot, permit>>,
             call' = call \/ call' = [call EXCEPT ![i] = NoCalls]
      PROVE  Slots' /\ Permits' /\ Begun'
  <2>1. \A j \in Pipelines : pc'[j] = IF j = i THEN p ELSE pc[j]
    BY <1>7, <1>a DEF StreamTypes
  <2>2. i \notin slot /\ (\A l \in Requests : <<i, l>> \notin permit)
    BY <1>7, <1>a
  <2>3. \A j \in Pipelines, l \in Requests : call'[j][l] = call[j][l] \/ (j = i /\ call'[j][l] = "idle")
    BY <1>7, <1>a, SetsAreFinite DEF StreamTypes, NoCalls, Calls
  <2>4. slot \subseteq Pipelines /\ permit \subseteq Pipelines \X Requests
    BY <1>a DEF StreamTypes
  <2>5. Slots' /\ Begun'
    BY <1>7, <1>a, <1>b, <2>1, <2>2, <2>3, <2>4
  <2>6. Permits'
    <3>1. \A c \in permit : c[1] \in Pipelines /\ c[1] # i
      BY <2>2, <2>4
    <3> QED BY <1>7, <1>a, <2>1, <2>2, <2>3, <3>1
  <2> QED BY <2>5, <2>6
<1>8. ASSUME NEW i \in Pipelines, Generated(i) \/ Wake(i) \/ Refined(i) PROVE Slots' /\ Permits' /\ Begun'
  <2>1. pc[i] \in {"generate", "asleep", "slot", "refine"} /\ UNCHANGED <<slot, permit>>
    BY <1>8 DEF Generated, Answered, Wake, MayWake, Refined, throttleVars
  <2>2. \E p \in {"asleep", "slot", "over"} : pc' = [pc EXCEPT ![i] = p]
    BY <1>8, <1>a, Moves DEF Generated, Wake, Refined
  <2>3. call' = call \/ call' = [call EXCEPT ![i] = NoCalls]
    BY <1>8 DEF Generated, Wake, Refined
  <2> QED BY <1>7, <2>1, <2>2, <2>3
<1>9. ASSUME NEW i \in Pipelines, EnterRound(i) PROVE Slots' /\ Permits' /\ Begun'
  <2>1. /\ pc[i] = "slot" /\ pc' = [pc EXCEPT ![i] = "verify"] /\ permit' = permit
        /\ slot' = slot \/ slot' = slot \union {i}
        /\ Generating /\ CandidateLimit > 0 => slot' = slot \union {i}
    BY <1>9, <1>a, Moves DEF EnterRound, MayEnter, Counts
  <2>2. \A j \in Pipelines, l \in Requests : call'[j][l] = call[j][l] \/ (j = i /\ call'[j][l] = "queued")
    BY <1>9, <1>a, SetsAreFinite DEF EnterRound, StreamTypes, NoCalls, Calls
  <2>3. \A j \in Pipelines : pc'[j] = IF j = i THEN "verify" ELSE pc[j]
    BY <1>a, <2>1 DEF StreamTypes
  <2>4. /\ slot \subseteq Pipelines /\ \A l \in Requests : <<i, l>> \notin permit
        /\ \A c \in permit : c[1] \in Pipelines
    BY <1>a, <2>1 DEF StreamTypes
  <2>5. Slots' /\ Begun'
    BY <1>a, <1>b, <2>1, <2>2, <2>3, <2>4
  <2>6. Permits'
    BY <1>a, <2>1, <2>2, <2>3, <2>4
  <2> QED BY <2>5, <2>6
<1>10. ASSUME NEW i \in Pipelines, EndRound(i) \/ Unwind(i) PROVE Slots' /\ Permits' /\ Begun'
  <2>1. slot' = slot \ {i} /\ permit' = permit \ ({i} \X Requests)
    BY <1>10 DEF EndRound, Unwind, GiveBack
  <2>2. \E p \in {"refine", "over"} : pc' = [pc EXCEPT ![i] = p]
    BY <1>10, <1>a, Moves DEF EndRound, Unwind, Goto
  <2>3. \A j \in Pipelines : IF j = i THEN pc'[j] \in {"refine", "over"} ELSE pc'[j] = pc[j]
    BY <1>a, <2>2 DEF StreamTypes
  <2>4. call' = [call EXCEPT ![i] = NoCalls] \/ call' = [call EXCEPT ![i] = OwnCall]
    BY <1>10 DEF EndRound, Unwind
  <2>5. \A j \in Pipelines, l \in Requests : call'[j][l] = IF j = i THEN "idle" ELSE call[j][l]
    BY <1>a, <2>4, SetsAreFinite DEF StreamTypes, OwnCall, NoCalls, Calls
  <2>6. slot \subseteq Pipelines /\ permit \subseteq Pipelines \X Requests
    BY <1>a DEF StreamTypes
  <2>7. Slots' /\ Begun'
    <3>1. \A j \in Pipelines, l \in Requests : j # i => (<<j, l>> \in permit' <=> <<j, l>> \in permit)
      BY <2>1
    <3>2. \A j \in Pipelines, l \in Requests : call'[j][l] \in {"waiting", "running"} => call[j][l] \in {"waiting", "running"} /\ j # i
      BY <2>5
    <3>3. Begun'
      BY <1>a, <1>b, <3>1, <3>2
    <3>4. Slots'
      BY <1>a, <1>b, <2>1, <2>3, <2>6
    <3> QED BY <3>3, <3>4
  <2>8. Permits'
    <3>1. \A c \in permit' : c \in permit /\ c[1] \in Pipelines /\ c[1] # i
      BY <2>1, <2>6
    <3> QED BY <1>a, <2>2, <2>3, <2>5, <3>1
  <2> QED BY <2>7, <2>8
<1> QED
  BY <1>3, <1>4, <1>5, <1>6, <1>8, <1>9, <1>10 DEF Next, Work, Pipeline, Calls
-----------------------------------------------------------------------------

-----------------------------------------------------------------------------
(* The order in which the search ends.                                     *)

(* What a step of a pipeline does to the pipelines and the queue: it goes  *)
(* on, it ends while candidates are collected, or it unwinds.              *)
LEMMA PipelineMoves ==
  ASSUME StreamInv, NEW i \in Pipelines, Pipeline(i)
  PROVE  /\ UNCHANGED <<phase, timeUp, taken, selected>>
         /\ \A j \in Pipelines \ {i} : pc'[j] = pc[j] /\ outcome'[j] = outcome[j]
         /\ \/ /\ {pc[i], pc'[i]} \intersect {"unmark", "unwind", "over"} = {}
               /\ UNCHANGED <<outcome, queue>>
            \/ /\ pc[i] \notin {"unmark", "unwind", "over"} /\ pc'[i] = "over"
               /\ outcome'[i].strict => outcome'[i].kind = "candidate" /\ outcome'[i].score = TopScore
               /\ queue' = IF timeUp THEN queue ELSE Append(queue, i)
            \/ /\ pc[i] \in {"unmark", "unwind"} /\ pc'[i] = "over"
               /\ outcome'[i].strict = FALSE /\ queue' = queue
<1> DEFINE
     Rest == \A j \in Pipelines \ {i} : pc'[j] = pc[j] /\ outcome'[j] = outcome[j]
     Ends == /\ pc[i] \notin {"unmark", "unwind", "over"} /\ pc'[i] = "over"
             /\ outcome'[i].strict => outcome'[i].kind = "candidate" /\ outcome'[i].score = TopScore
             /\ queue' = IF timeUp THEN queue ELSE Append(queue, i)
     GoesOn == /\ {pc[i], pc'[i]} \intersect {"unmark", "unwind", "over"} = {}
               /\ UNCHANGED <<outcome, queue>>
     Unwinds == /\ pc[i] \in {"unmark", "unwind"} /\ pc'[i] = "over"
                /\ outcome'[i].strict = FALSE /\ queue' = queue
<1> SUFFICES UNCHANGED <<phase, timeUp, taken, selected>> /\ Rest /\ (GoesOn \/ Ends \/ Unwinds)
  OBVIOUS
<1>a. pc \in [Pipelines -> Places] /\ outcome \in [Pipelines -> Outcomes] /\ StreamTypes
  BY DEF StreamInv, StreamTypes
<1>1. ASSUME NEW p \in {"asleep", "slot", "verify", "refine"}, Continue(i, p), pc[i] \notin {"unmark", "unwind", "over"}
      PROVE  Rest /\ GoesOn
  BY <1>1, <1>a DEF Continue, Goto
<1>2. ASSUME NEW o, End(i, o), pc[i] \notin {"unmark", "unwind", "over"},
             o.strict => o.kind = "candidate" /\ o.score = TopScore
      PROVE  Rest /\ Ends
  BY <1>2, <1>a DEF End, Goto
<1>3. Failed.strict = FALSE
  BY DEF Failed, Outcome
<1>4. CASE Generated(i)
  <2>1. End(i, Failed) \/ \E p \in {"asleep", "slot"} : Continue(i, p)
    BY <1>4 DEF Generated
  <2>2. UNCHANGED <<phase, timeUp, taken, selected>> /\ pc[i] = "generate"
    BY <1>4 DEF Generated, Answered
  <2> QED BY <1>1, <1>2, <1>3, <2>1, <2>2
<1>5. CASE Wake(i)
  <2>1. End(i, Failed) \/ Continue(i, "slot")
    BY <1>5 DEF Wake
  <2>2. UNCHANGED <<phase, timeUp, taken, selected>> /\ pc[i] = "asleep"
    BY <1>5 DEF Wake, MayWake
  <2> QED BY <1>1, <1>2, <1>3, <2>1, <2>2
<1>6. CASE EnterRound(i)
  BY <1>1, <1>6 DEF EnterRound, MayEnter
<1>7. CASE EndRound(i)
  <2>1. \/ Continue(i, "refine")
        \/ \E s \in Scores, p \in BOOLEAN : (p => s = TopScore) /\ End(i, Outcome("candidate", s, p))
    BY <1>7 DEF EndRound
  <2>2. UNCHANGED <<phase, timeUp, taken, selected>> /\ pc[i] = "verify"
    BY <1>7 DEF EndRound, MayEnd
  <2>3. ASSUME NEW s \in Scores, NEW p \in BOOLEAN, p => s = TopScore, End(i, Outcome("candidate", s, p))
        PROVE  Rest /\ Ends
    BY <1>2, <2>2, <2>3 DEF Outcome
  <2> QED BY <1>1, <2>1, <2>2, <2>3
<1>8. CASE Refined(i)
  <2>1. Continue(i, "slot") \/ End(i, Failed) \/ \E s \in 0 .. TopScore - 1 : End(i, Outcome("candidate", s, FALSE))
    BY <1>8 DEF Refined
  <2>2. UNCHANGED <<phase, timeUp, taken, selected>> /\ pc[i] = "refine"
    BY <1>8 DEF Refined, Answered
  <2>3. \A s : Outcome("candidate", s, FALSE).strict = FALSE
    BY DEF Outcome
  <2> QED BY <1>1, <1>2, <1>3, <2>1, <2>2, <2>3
<1>9. CASE Unwind(i)
  BY <1>9, <1>a DEF Unwind, Goto, Outcome, collectVars
<1>10. ASSUME NEW k \in Calls, StartCall(i, k) \/ (k \in Requests /\ (Permit(i, k) \/ Return(i, k)))
       PROVE  UNCHANGED <<phase, timeUp, taken, selected>> /\ Rest /\ GoesOn
  BY <1>10 DEF StartCall, Permit, Return, collectVars
<1> QED
  BY <1>4, <1>5, <1>6, <1>7, <1>8, <1>9, <1>10, SetsAreFinite DEF Pipeline, Calls

LEMMA PhaseStep ==
  ASSUME StreamInv, [Next]_vars
  PROVE  PhaseInv'
<1>a. PhaseInv /\ QueueInv /\ StreamTypes /\ NothingRunsAfterReturn
  BY DEF StreamInv, PhaseInv
<1>1. ASSUME NEW i \in Pipelines, Pipeline(i) PROVE PhaseInv'
  <2>1. phase' = phase /\ pc[i] # "over" /\ \A j \in Pipelines \ {i} : pc'[j] = pc[j]
    BY <1>1, PipelineMoves
  <2>2. phase \notin {"select", "done"}
    BY <1>a, <2>1 DEF NothingRunsAfterReturn, Over
  <2>3. IF pc[i] \in {"unmark", "unwind"} THEN pc'[i] = "over" ELSE pc'[i] \notin {"unmark", "unwind"}
    BY <1>1, PipelineMoves
  <2> QED BY <1>a, <2>1, <2>2, <2>3 DEF PhaseInv, NothingRunsAfterReturn
<1>2. ASSUME CancelAll PROVE PhaseInv'
  BY <1>2 DEF CancelAll, PhaseInv, NothingRunsAfterReturn
<1>3. CASE Collect
  <2>1. CASE CancelAll
    BY <1>2, <2>1
  <2>2. CASE ~CancelAll
    <3>1. pc' = pc /\ phase = "collect" /\ phase' = IF taken + 1 = N THEN "select" ELSE "collect"
      BY <1>3, <2>2 DEF Collect
    <3>2. taken + 1 = N => Over = Pipelines
      <4>1. taken + 1 <= Len(queue) /\ Len(queue) \in Nat /\ taken \in Nat
        BY <1>3, <1>a DEF Collect, StreamTypes
      <4>2. N \in Nat /\ Len(queue) <= N
        BY <1>a, SetsAreFinite, QueueIsBounded
      <4>3. taken + 1 = N => Len(queue) = N
        BY <4>1, <4>2
      <4> QED BY <1>a, <4>3, QueueIsBounded DEF Over
    <3>3. Over' = Over /\ (Over = Pipelines => \A i \in Pipelines : pc[i] = "over")
      BY <3>1 DEF Over
    <3> QED BY <1>a, <3>1, <3>2, <3>3 DEF PhaseInv, NothingRunsAfterReturn
  <2> QED BY <2>1, <2>2
<1>4. CASE TimedOut
  BY <1>2, <1>4 DEF TimedOut
<1>5. CASE Cancelled
  BY <1>5, <1>a DEF Cancelled, pipeVars, PhaseInv, NothingRunsAfterReturn, Over
<1>6. CASE Select \/ TimeUp \/ UNCHANGED vars
  <2>1. pc' = pc /\ (phase' = phase \/ (phase = "select" /\ phase' = "done"))
    BY <1>6 DEF Select, TimeUp, vars, pipeVars, collectVars
  <2> QED BY <1>a, <2>1 DEF PhaseInv, NothingRunsAfterReturn, Over
<1> QED BY <1>1, <1>3, <1>4, <1>5, <1>6 DEF Next, Work

LEMMA QueueStep ==
  ASSUME StreamInv, [Next]_vars
  PROVE  QueueInv'
<1>a. PhaseInv /\ QueueInv /\ StreamTypes
  BY DEF StreamInv
<1>b. Len(queue) \in Nat /\ \A j \in 1 .. Len(queue) : queue[j] \in Pipelines
  BY <1>a DEF StreamTypes
<1>1. ASSUME NEW i \in Pipelines, Pipeline(i) PROVE QueueInv'
  <2>1. /\ pc[i] # "over" /\ \A j \in Pipelines \ {i} : pc'[j] = pc[j] /\ outcome'[j] = outcome[j]
        /\ outcome'[i] = outcome[i] \/ (outcome'[i].strict => outcome'[i].kind = "candidate" /\ outcome'[i].score = TopScore)
    BY <1>1, PipelineMoves
  <2>2. \A j \in 1 .. Len(queue) : queue[j] # i /\ pc'[queue[j]] = "over"
    BY <1>a, <1>b, <2>1 DEF QueueInv
  <2>3. \A j \in Pipelines : outcome'[j].strict => outcome'[j].kind = "candidate" /\ outcome'[j].score = TopScore
    BY <1>a, <2>1 DEF QueueInv
  <2>4. CASE queue' = queue
    BY <1>a, <2>2, <2>3, <2>4 DEF QueueInv
  <2>5. CASE queue' = Append(queue, i) /\ pc'[i] = "over"
    <3>1. /\ Len(queue') = Len(queue) + 1 /\ queue'[Len(queue) + 1] = i
          /\ \A j \in 1 .. Len(queue) : queue'[j] = queue[j]
      BY <1>a, <2>5 DEF StreamTypes
    <3>2. \A j \in 1 .. Len(queue') : j \in 1 .. Len(queue) \/ j = Len(queue) + 1
      BY <1>b, <3>1
    <3>3. \A j, k \in 1 .. Len(queue') : queue'[j] = queue'[k] => j = k
      BY <1>a, <2>2, <3>1, <3>2 DEF QueueInv
    <3>4. \A j \in 1 .. Len(queue') : pc'[queue'[j]] = "over"
      BY <2>2, <2>5, <3>1, <3>2
    <3> QED BY <2>3, <3>3, <3>4 DEF QueueInv
  <2> QED BY <1>1, <2>4, <2>5, PipelineMoves
<1>2. CASE Collect \/ TimedOut \/ Cancelled \/ Select \/ TimeUp \/ UNCHANGED vars
  <2>1. UNCHANGED <<outcome, queue>> /\ (pc' = pc \/ CancelAll)
    BY <1>2 DEF Collect, TimedOut, Cancelled, Select, TimeUp, vars, pipeVars, collectVars
  <2>2. \A j \in Pipelines : pc[j] = "over" => pc'[j] = "over"
    BY <2>1 DEF CancelAll
  <2> QED BY <1>a, <1>b, <2>1, <2>2 DEF QueueInv
<1> QED BY <1>1, <1>2 DEF Next, Work

(* The decision of the filter is of use as long as nothing is generated.   *)
LEMMA FilterStep ==
  ASSUME StreamInv, [Next]_vars
  PROVE  FilterInv'
<1>a. FilterInv /\ StreamTypes /\ remaining \in Nat
  BY CountersAreNumbers DEF StreamInv
<1>b. Generating' => Generating
  BY <1>a, RemainingStep DEF Generating
<1>1. ASSUME gen' = gen PROVE Filter' = Filter
  BY <1>1 DEF Filter, Pool, Valid, Keep
<1>2. ASSUME UNCHANGED <<gen, filtered, admitted>> PROVE FilterInv'
  BY <1>1, <1>2, <1>a, <1>b DEF FilterInv, FilterIsRight
<1>3. ASSUME NEW i \in Pipelines, Wake(i) PROVE FilterInv'
  <2>1. gen' = gen /\ ~Generating /\ (IF filtered THEN admitted' = admitted ELSE admitted' \in Filter)
    BY <1>3 DEF Wake, MayWake
  <2>2. \A S \in Filter : S # {}
    BY DEF Filter
  <2> QED BY <1>1, <1>a, <1>b, <2>1, <2>2 DEF FilterInv, FilterIsRight
<1>4. ASSUME NEW i \in Pipelines, Generated(i) PROVE FilterInv'
  <2>1. i \in Unmarked /\ UNCHANGED <<filtered, admitted>>
    BY <1>4 DEF Generated, Answered, Unmarked, filterVars
  <2>2. Generating
    BY <2>1, GeneratingMeansSomebody DEF StreamInv
  <2> QED BY <1>a, <2>1, <2>2 DEF FilterInv, FilterIsRight
<1>5. ASSUME NEW i \in Pipelines, EnterRound(i) \/ EndRound(i) \/ Refined(i) \/ Unwind(i)
      PROVE  UNCHANGED <<gen, filtered, admitted>>
  BY <1>5 DEF EnterRound, EndRound, Refined, Unwind, filterVars
<1>6. ASSUME NEW i \in Pipelines, NEW k \in Calls, StartCall(i, k) \/ (k \in Requests /\ (Permit(i, k) \/ Return(i, k)))
      PROVE  UNCHANGED <<gen, filtered, admitted>>
  BY <1>6 DEF StartCall, Permit, Return, filterVars
<1>7. ASSUME Collect \/ TimedOut \/ Cancelled \/ Select \/ TimeUp \/ UNCHANGED vars
      PROVE  UNCHANGED <<gen, filtered, admitted>>
  BY <1>7 DEF Collect, TimedOut, Cancelled, Select, TimeUp, vars, pipeVars, filterVars
<1> QED
  BY <1>2, <1>3, <1>4, <1>5, <1>6, <1>7, SetsAreFinite DEF Next, Work, Pipeline, Calls

(* What was collected when the search ended: everything that was finished, *)
(* or a strict pass.                                                       *)
LEMMA CollectStep ==
  ASSUME StreamInv, [Next]_vars
  PROVE  phase' # "collect" => AllOrStrict'
<1>a. PhaseInv /\ QueueInv /\ StreamTypes /\ (phase # "collect" => AllOrStrict)
  BY DEF StreamInv, CollectInv
<1>b. Len(queue) \in Nat /\ taken \in Nat /\ taken <= Len(queue) /\ \A j \in 1 .. Len(queue) : queue[j] \in Pipelines
  BY <1>a DEF StreamTypes
<1>1. ASSUME NEW i \in Pipelines, Pipeline(i), phase' # "collect" PROVE AllOrStrict'
  <2>1. UNCHANGED <<phase, taken>> /\ pc[i] \in {"unmark", "unwind", "over"}
    BY <1>1, <1>a, PipelineMoves DEF PhaseInv
  <2>2. /\ queue' = queue /\ pc[i] # "over"
        /\ \A j \in Pipelines \ {i} : outcome'[j] = outcome[j]
    BY <1>1, <2>1, PipelineMoves
  <2>3. \A j \in 1 .. taken : outcome'[queue[j]] = outcome[queue[j]]
    BY <1>a, <1>b, <2>2 DEF QueueInv
  <2> QED BY <1>1, <1>a, <2>1, <2>2, <2>3 DEF AllOrStrict
<1>2. CASE Collect
  <2>1. UNCHANGED <<outcome, queue>> /\ taken' = taken + 1 /\ taken < Len(queue)
    BY <1>2 DEF Collect
  <2>2. CASE outcome[queue[taken + 1]].strict
    <3>1. taken + 1 \in 1 .. taken'
      BY <1>b, <2>1
    <3> QED BY <2>1, <2>2, <3>1 DEF AllOrStrict
  <2>3. CASE ~outcome[queue[taken + 1]].strict /\ phase' # "collect"
    <3>1. taken + 1 = N
      BY <1>2, <2>3 DEF Collect
    <3>2. Len(queue) <= N
      BY <1>a, QueueIsBounded
    <3> QED BY <1>b, <2>1, <3>1, <3>2 DEF AllOrStrict
  <2> QED BY <2>2, <2>3
<1>3. CASE TimedOut
  BY <1>3 DEF TimedOut, AllOrStrict
<1>4. CASE Cancelled \/ Select \/ TimeUp \/ UNCHANGED vars
  <2>1. UNCHANGED <<outcome, queue, taken>> /\ (phase = "collect" => phase' = "collect")
    BY <1>4 DEF Cancelled, Select, TimeUp, vars, pipeVars, collectVars
  <2> QED BY <1>a, <2>1 DEF AllOrStrict
<1> QED BY <1>1, <1>2, <1>3, <1>4 DEF Next, Work

(* The selection, once it is known what was collected.                     *)
LEMMA SelectionStep ==
  ASSUME StreamInv, [Next]_vars
  PROVE  BestFinishedIsSelected'
<1>a. PhaseInv /\ QueueInv /\ StreamTypes /\ BestFinishedIsSelected /\ (phase # "collect" => AllOrStrict)
  BY DEF StreamInv, CollectInv
<1>b. /\ Len(queue) \in Nat /\ taken \in Nat /\ taken <= Len(queue)
      /\ \A j \in 1 .. Len(queue) : queue[j] \in Pipelines
  BY <1>a DEF StreamTypes
<1>1. CASE Select
  <2>1. /\ UNCHANGED <<outcome, queue, taken>> /\ phase = "select" /\ phase' = "done"
    BY <1>1 DEF Select, pipeVars
  <2> DEFINE
       finished == {i \in {queue[k] : k \in 1 .. Len(queue)} : outcome[i].kind = "candidate"}
       strict == {i \in Candidates : outcome[i].strict}
       above  == {i \in Candidates : outcome[i].score > MinScore}
       pool   == IF strict # {} THEN strict ELSE IF above # {} THEN above ELSE Candidates
  <2>2. IF pool = {} THEN selected' = NoOne
        ELSE selected' \in pool /\ \A j \in pool : outcome[selected'].score >= outcome[j].score
    BY <1>1 DEF Select, Answers
  <2>3. Candidates \subseteq finished /\ finished \subseteq Pipelines /\ Candidates' = Candidates
    BY <1>b, <2>1 DEF Candidates, Taken
  <2>4. \A i \in Pipelines : /\ outcome[i].score \in Int /\ outcome[i].score <= TopScore
                             /\ outcome[i].strict => outcome[i].score = TopScore
    BY <1>a, StreamAssumption DEF StreamTypes, Outcomes, Scores, NoScore, QueueInv
  <2>5. MinScore \in Int /\ TopScore \in Int /\ NoOne \notin Pipelines
    BY StreamAssumption
  <2>6. strict = {} => Candidates = finished
    <3>1. ASSUME NEW j \in 1 .. taken, outcome[queue[j]].strict PROVE queue[j] \in strict
      BY <1>a, <1>b, <3>1 DEF QueueInv, Candidates, Taken
    <3>2. taken = Len(queue) => Candidates = finished
      BY DEF Candidates, Taken
    <3> QED BY <1>a, <2>1, <3>1, <3>2 DEF AllOrStrict
  <2>7. CASE strict # {}
    <3>1. selected' \in strict
      BY <2>2, <2>7
    <3>2. selected' \in Candidates /\ selected' # NoOne
      BY <2>3, <2>5, <3>1
    <3>3. \A i \in finished : outcome[selected'].score >= outcome[i].score
      BY <2>3, <2>4, <2>5, <3>1
    <3> QED BY <2>1, <2>3, <3>2, <3>3 DEF BestFinishedIsSelected
  <2>8. CASE strict = {} /\ Candidates = {}
    <3>1. selected' = NoOne /\ finished = {}
      BY <2>2, <2>6, <2>8
    <3> QED BY <2>1, <3>1 DEF BestFinishedIsSelected
  <2>9. CASE strict = {} /\ Candidates # {}
    <3>1. pool # {} /\ pool \subseteq Candidates
      BY <2>9
    <3>2. selected' \in pool /\ \A j \in pool : outcome[selected'].score >= outcome[j].score
      BY <2>2, <3>1
    <3>3. selected' \in Candidates /\ selected' \in Pipelines /\ selected' # NoOne
      BY <2>3, <2>5, <3>1, <3>2
    <3>4. ASSUME NEW i \in finished PROVE outcome[selected'].score >= outcome[i].score
      <4>1. i \in Candidates /\ i \in Pipelines
        BY <2>3, <2>6, <2>9
      <4>2. CASE i \in pool
        BY <3>2, <4>2
      <4>3. CASE i \notin pool
        <5>1. selected' \in above /\ ~(outcome[i].score > MinScore)
          BY <2>9, <3>2, <4>1, <4>3
        <5> QED BY <2>4, <2>5, <3>3, <4>1, <5>1
      <4> QED BY <4>2, <4>3
    <3> QED BY <2>1, <2>3, <3>3, <3>4 DEF BestFinishedIsSelected
  <2> QED BY <2>7, <2>8, <2>9
<1>2. ASSUME NEW i \in Pipelines, Pipeline(i) PROVE phase' # "done"
  BY <1>2, <1>a, PipelineMoves DEF PhaseInv, NothingRunsAfterReturn, Over
<1>3. CASE Collect \/ TimedOut \/ Cancelled \/ TimeUp
  <2>1. phase' # "done"
    BY <1>3, <1>a DEF Collect, TimedOut, CancelAll, Cancelled, TimeUp
  <2> QED BY <2>1 DEF BestFinishedIsSelected
<1>4. CASE UNCHANGED vars
  BY <1>4, <1>a DEF vars, pipeVars, collectVars, BestFinishedIsSelected, Candidates, Taken
<1> QED
  <2>1. ASSUME phase' # "done" PROVE BestFinishedIsSelected'
    BY <2>1 DEF BestFinishedIsSelected
  <2> QED BY <1>1, <1>2, <1>3, <1>4, <2>1 DEF Next, Work

-----------------------------------------------------------------------------
(* What everybody waits for.                                               *)

LEMMA CallsStep ==
  ASSUME StreamInv, [Next]_vars
  PROVE  CallsInv'
<1>a. /\ pc \in [Pipelines -> Places] /\ call \in [Pipelines -> [Calls -> CallStates]]
      /\ gen \in [Pipelines -> {"none", "good", "zero", "truncated"}]
      /\ CallsInv /\ PhaseInv /\ StreamTypes
      /\ Own \in Calls /\ Own \notin Requests /\ Requests \subseteq Calls
  BY SetsAreFinite DEF StreamInv, StreamTypes
<1>b. /\ \A k \in Calls : NoCalls[k] = "idle"
      /\ \A k \in Calls : OwnCall[k] = IF k = Own THEN "waiting" ELSE "idle"
      /\ NoCalls \in [Calls -> CallStates] /\ OwnCall \in [Calls -> CallStates]
  BY <1>a DEF NoCalls, OwnCall, Calls, CallStates
<1>c. ASSUME NEW i \in Pipelines, NEW p \in Places, NEW c \in [Calls -> CallStates],
             pc' = [pc EXCEPT ![i] = p], call' = [call EXCEPT ![i] = c], phase' = phase,
             \A j \in Pipelines \ {i} : gen'[j] = gen[j] /\ round'[j] = round[j],
             p \in {"generate", "refine"} => c[Own] \in {"waiting", "running"},
             p = "verify" => \A k \in Requests : c[k] # "idle",
             p = "asleep" => gen'[i] # "none", p = "refine" => round'[i] < RefineRounds,
             phase = "collect" => \A k \in Calls : c[k] \in {"waiting", "running"} =>
               IF k = Own THEN p \in {"generate", "refine"} ELSE p = "verify"
      PROVE  CallsInv'
  <2>1. \A j \in Pipelines \ {i} : pc'[j] = pc[j] /\ call'[j] = call[j] /\ gen'[j] = gen[j] /\ round'[j] = round[j]
    BY <1>a, <1>c
  <2>2. \A j \in Pipelines \ {i} : WaitsFor(j)'
    BY <1>a, <1>c, <2>1 DEF CallsInv, WaitsFor
  <2>3. pc'[i] = p /\ call'[i] = c
    BY <1>a, <1>c
  <2>4. WaitsFor(i)'
    BY <1>c, <2>3 DEF WaitsFor
  <2> QED BY <2>2, <2>4 DEF CallsInv
<1>d. ASSUME UNCHANGED <<pc, call, gen, round>>, phase' = phase \/ phase' # "collect" PROVE CallsInv'
  BY <1>a, <1>d DEF CallsInv, WaitsFor
<1>e. ASSUME CancelAll PROVE CallsInv'
  BY <1>e DEF CancelAll, CallsInv, WaitsFor
<1>1. ASSUME NEW i \in Pipelines, NEW k \in Calls, StartCall(i, k) PROVE CallsInv'
  <2> DEFINE c == [call[i] EXCEPT ![k] = "running"]
  <2>1. /\ c \in [Calls -> CallStates] /\ call' = [call EXCEPT ![i] = c] /\ pc' = [pc EXCEPT ![i] = pc[i]]
        /\ phase' = phase /\ gen' = gen /\ round' = round /\ call[i][k] = "waiting" /\ pc[i] # "asleep"
    BY <1>1, <1>a DEF StartCall, MayStart, collectVars, CallStates
  <2>2. WaitsFor(i)
    BY <1>a DEF CallsInv
  <2> QED BY <1>a, <1>c, <2>1, <2>2 DEF WaitsFor
<1>2. ASSUME NEW i \in Pipelines, NEW k \in Requests, Permit(i, k) \/ Return(i, k) PROVE CallsInv'
  <2>1. PICK s \in {"waiting", "returned"} : call' = [call EXCEPT ![i][k] = s]
    BY <1>2 DEF Permit, Return
  <2> DEFINE c == [call[i] EXCEPT ![k] = s]
  <2>2. /\ c \in [Calls -> CallStates] /\ call' = [call EXCEPT ![i] = c] /\ pc' = [pc EXCEPT ![i] = pc[i]]
        /\ phase' = phase /\ gen' = gen /\ round' = round /\ pc[i] = "verify"
    BY <1>2, <1>a, <2>1 DEF Permit, MayAsk, Return, MayReturn, collectVars, CallStates
  <2>3. WaitsFor(i)
    BY <1>a DEF CallsInv
  <2> QED BY <1>a, <1>c, <2>2, <2>3 DEF WaitsFor
<1>3. ASSUME NEW i \in Pipelines, Generated(i) PROVE CallsInv'
  <2>1. call' = [call EXCEPT ![i] = NoCalls] /\ phase' = phase /\ round' = round
    BY <1>3 DEF Generated
  <2>2. PICK g \in Generations :
          /\ gen' = [gen EXCEPT ![i] = g]
          /\ IF g = "none" THEN End(i, Failed) ELSE Continue(i, IF waitAll THEN "asleep" ELSE "slot")
    BY <1>3 DEF Generated
  <2>3. PICK p \in {"asleep", "slot", "over"} : pc' = [pc EXCEPT ![i] = p] /\ (p = "asleep" => g # "none")
    BY <2>2, <1>a, Moves
  <2> QED BY <1>a, <1>b, <1>c, <2>1, <2>2, <2>3 DEF Places
<1>4. ASSUME NEW i \in Pipelines, Wake(i) PROVE CallsInv'
  <2>1. /\ UNCHANGED <<call, gen, phase, round>> /\ call' = [call EXCEPT ![i] = call[i]] /\ pc[i] = "asleep"
        /\ call[i] \in [Calls -> CallStates]
    BY <1>4, <1>a DEF Wake, MayWake
  <2>2. PICK p \in {"slot", "over"} : pc' = [pc EXCEPT ![i] = p]
    BY <1>4, <1>a, Moves DEF Wake
  <2>3. WaitsFor(i)
    BY <1>a DEF CallsInv
  <2> QED BY <1>a, <1>c, <2>1, <2>2, <2>3 DEF WaitsFor, Places
<1>5. ASSUME NEW i \in Pipelines, EnterRound(i) PROVE CallsInv'
  <2> DEFINE c == [k \in DOMAIN NoCalls |-> IF k = Own THEN "idle" ELSE "queued"]
  <2>1. /\ call' = [call EXCEPT ![i] = c] /\ UNCHANGED <<gen, phase, round>> /\ pc' = [pc EXCEPT ![i] = "verify"]
    BY <1>5, <1>a, Moves DEF EnterRound
  <2>2. c \in [Calls -> CallStates] /\ \A k \in Calls : c[k] = IF k = Own THEN "idle" ELSE "queued"
    BY <1>b DEF CallStates
  <2> QED BY <1>a, <1>c, <2>1, <2>2 DEF Places
<1>6. ASSUME NEW i \in Pipelines, EndRound(i) PROVE CallsInv'
  <2>1. UNCHANGED <<gen, phase, round>>
    BY <1>6 DEF EndRound
  <2>2. \/ round[i] < RefineRounds /\ pc' = [pc EXCEPT ![i] = "refine"] /\ call' = [call EXCEPT ![i] = OwnCall]
        \/ pc' = [pc EXCEPT ![i] = "over"] /\ call' = [call EXCEPT ![i] = NoCalls]
    BY <1>6, <1>a, Moves DEF EndRound
  <2> QED BY <1>a, <1>b, <1>c, <2>1, <2>2 DEF Places
<1>7. ASSUME NEW i \in Pipelines, Refined(i) \/ Unwind(i) PROVE CallsInv'
  <2>1. /\ UNCHANGED <<gen, phase>> /\ call' = [call EXCEPT ![i] = NoCalls]
        /\ \A j \in Pipelines \ {i} : round'[j] = round[j]
    <3>1. round' = round \/ round' = [round EXCEPT ![i] = @ + 1]
      BY <1>7 DEF Refined, Unwind
    <3> QED BY <1>7, <1>a, <3>1 DEF Refined, Unwind, collectVars, StreamTypes
  <2>2. PICK p \in {"slot", "over"} : pc' = [pc EXCEPT ![i] = p]
    BY <1>7, <1>a, Moves DEF Refined, Unwind, Goto
  <2> QED BY <1>a, <1>b, <1>c, <2>1, <2>2 DEF Places
<1>8. CASE Collect
  <2>1. CASE CancelAll
    BY <1>e, <2>1
  <2>2. CASE ~CancelAll
    <3>1. UNCHANGED <<pc, call, gen, round>> /\ (phase' = phase \/ phase' # "collect")
      BY <1>8, <2>2 DEF Collect
    <3> QED BY <1>d, <3>1
  <2> QED BY <2>1, <2>2
<1>9. CASE TimedOut
  BY <1>9, <1>e DEF TimedOut
<1>10. CASE Cancelled \/ Select \/ TimeUp \/ UNCHANGED vars
  BY <1>10, <1>d DEF Cancelled, Select, TimeUp, vars, pipeVars, collectVars
<1> QED
  BY <1>1, <1>2, <1>3, <1>4, <1>5, <1>6, <1>7, <1>8, <1>9, <1>10, SetsAreFinite DEF Next, Work, Pipeline, Calls

LEMMA AwaitsStep ==
  ASSUME StreamInv, [Next]_vars
  PROVE  AwaitsInv'
<1>a. /\ AwaitsInv /\ PhaseInv /\ StreamTypes /\ QueueInv /\ queue \in Seq(Pipelines) /\ Len(queue) \in Nat
      /\ taken \in Nat /\ taken <= Len(queue) /\ N \in Nat /\ Len(queue) <= N
      /\ pc \in [Pipelines -> Places]
  BY SetsAreFinite, QueueIsBounded DEF StreamInv, StreamTypes
<1>1. ASSUME NEW i \in Pipelines, Pipeline(i) PROVE AwaitsInv'
  <2>1. UNCHANGED <<phase, timeUp, taken>> /\ \A j \in Pipelines \ {i} : pc'[j] = pc[j]
    BY <1>1, PipelineMoves
  <2> SUFFICES ASSUME phase = "collect", ~timeUp, EndedIsQueued PROVE EndedIsQueued'
    BY <1>a, <2>1 DEF AwaitsInv
  <2>2. pc[i] \notin {"unmark", "unwind"}
    BY <1>a DEF PhaseInv
  <2>3. CASE pc'[i] # "over" /\ queue' = queue
    BY <2>1, <2>3 DEF EndedIsQueued
  <2>4. CASE queue' = Append(queue, i)
    <3>1. /\ Len(queue') = Len(queue) + 1 /\ queue'[Len(queue) + 1] = i
          /\ \A j \in 1 .. Len(queue) : queue'[j] = queue[j]
      BY <1>a, <2>4
    <3>2. 1 .. Len(queue) \subseteq 1 .. Len(queue') /\ Len(queue) + 1 \in 1 .. Len(queue')
      BY <1>a, <3>1
    <3> QED BY <2>1, <3>1, <3>2 DEF EndedIsQueued
  <2> QED BY <1>1, <2>2, <2>3, <2>4, PipelineMoves
<1>2. CASE Collect
  <2>1. taken' = taken + 1 /\ UNCHANGED <<timeUp, queue>> /\ taken < Len(queue)
    BY <1>2 DEF Collect
  <2>2. phase' = "collect" => pc' = pc /\ phase = "collect" /\ taken + 1 # N
    BY <1>2 DEF Collect, CancelAll
  <2> QED BY <1>a, <2>1, <2>2 DEF AwaitsInv, EndedIsQueued
<1>3. CASE TimedOut \/ Cancelled \/ Select
  BY <1>3 DEF TimedOut, CancelAll, Cancelled, Select, AwaitsInv
<1>4. CASE TimeUp \/ UNCHANGED vars
  BY <1>4, <1>a DEF TimeUp, vars, pipeVars, collectVars, AwaitsInv, EndedIsQueued
<1> QED BY <1>1, <1>2, <1>3, <1>4 DEF Next, Work

-----------------------------------------------------------------------------
(* The search keeps its invariant, in any order of its pipelines and callers. *)
THEOREM StreamInductive == Spec => []StreamInv
<1>1. Init => StreamInv
  BY StreamInvInit
<1>2. StreamInv /\ [Next]_vars => StreamInv'
  <2> SUFFICES ASSUME StreamInv, [Next]_vars PROVE StreamInv'
    OBVIOUS
  <2>1. StreamTypes'
    BY TypesStep DEF StreamInv
  <2>2. CountersCount'
    BY RemainingStep, CountersStep DEF CountersCount
  <2>3. WhoBeganWasCounted' /\ PhaseInv' /\ QueueInv' /\ FilterInv'
    BY HoldersStep, PhaseStep, QueueStep, FilterStep
  <2>4. CollectInv'
    BY CollectStep, SelectionStep DEF CollectInv
  <2>5. CallsInv' /\ AwaitsInv'
    BY CallsStep, AwaitsStep
  <2> QED BY <2>1, <2>2, <2>3, <2>4, <2>5 DEF StreamInv
<1> QED BY <1>1, <1>2, PTL DEF Spec

(* While candidates are generated, no more of them are verified, and no    *)
(* more of their requests are under way, than the throttle allows; and     *)
(* what it counted is given back, so that nothing is held by a search that *)
(* is over: for every number of pipelines, and limits of any size.         *)
THEOREM ThrottleIsRight == Spec => []ThrottleHolds
<1>1. StreamInv => ThrottleHolds
  <2> SUFFICES ASSUME StreamInv PROVE ThrottleHolds
    OBVIOUS
  <2> USE DEF StreamInv
  <2>1. /\ IsFiniteSet(slot) /\ IsFiniteSet(permit)
        /\ active \in Nat /\ requests \in Nat /\ active = Cardinality(slot) /\ requests = Cardinality(permit)
    BY CountersAreNumbers DEF CountersCount
  <2>2. CandidateLimit \in Nat /\ RequestLimit \in Nat /\ StreamTypes
    BY StreamAssumption
  <2>3. Throttled
    <3>1. ASSUME Generating, CandidateLimit > 0
          PROVE  Cardinality({i \in Pipelines : pc[i] = "verify"}) <= CandidateLimit
      <4>1. {i \in Pipelines : pc[i] = "verify"} \in SUBSET slot /\ active <= CandidateLimit
        BY <3>1 DEF WhoBeganWasCounted
      <4>2. /\ IsFiniteSet({i \in Pipelines : pc[i] = "verify"})
            /\ Cardinality({i \in Pipelines : pc[i] = "verify"}) <= Cardinality(slot)
        BY <2>1, <4>1, FS_Subset
      <4>3. Cardinality({i \in Pipelines : pc[i] = "verify"}) \in Nat
        BY <4>2, FS_CardinalityType
      <4> QED BY <2>1, <2>2, <4>1, <4>2, <4>3
    <3>2. ASSUME Generating, RequestLimit > 0
          PROVE  Cardinality({c \in Pipelines \X Requests : c[2] \in UnderWay(c[1])}) <= RequestLimit
      <4> DEFINE begun == {c \in Pipelines \X Requests : c[2] \in UnderWay(c[1])}
      <4>1. begun \in SUBSET permit /\ requests <= RequestLimit
        BY <3>2 DEF WhoBeganWasCounted, UnderWay
      <4>2. IsFiniteSet(begun) /\ Cardinality(begun) <= Cardinality(permit)
        BY <2>1, <4>1, FS_Subset
      <4>3. Cardinality(begun) \in Nat
        BY <4>2, FS_CardinalityType
      <4> QED BY <2>1, <2>2, <4>1, <4>2, <4>3
    <3> QED BY <3>1, <3>2 DEF Throttled
  <2>4. NothingLeaks
    <3>1. /\ \A i \in slot : pc[i] \in {"verify", "unwind"}
          /\ \A c \in permit : c[1] \in {i \in Pipelines : pc[i] \in {"verify", "unwind"}}
      BY <2>2 DEF WhoBeganWasCounted, StreamTypes
    <3>2. ASSUME phase \in {"select", "done"} PROVE active = 0 /\ requests = 0 /\ remaining = 0
      <4>1. \A i \in Pipelines : pc[i] = "over"
        BY <3>2 DEF PhaseInv, NothingRunsAfterReturn, Over
      <4>2. slot = {} /\ permit = {} /\ Unmarked = {}
        BY <2>2, <3>1, <4>1 DEF StreamTypes, Unmarked
      <4> QED BY <4>2, FS_EmptySet DEF CountersCount
    <3> QED BY <2>1, <3>1, <3>2 DEF NothingLeaks
  <2> QED BY <2>3, <2>4 DEF ThrottleHolds
<1> QED BY <1>1, StreamInductive, PTL

(* The cached decision of the filter is the one all generations ask for.   *)
THEOREM FilterDecidesOnce == Spec => []FilterIsRight
<1>1. StreamInv => FilterIsRight
  BY DEF StreamInv, FilterInv
<1> QED BY <1>1, StreamInductive, PTL

(* Nobody runs when the search has returned.                               *)
THEOREM SearchLeavesNobodyBehind == Spec => []NothingRunsAfterReturn
<1>1. StreamInv => NothingRunsAfterReturn
  BY DEF StreamInv, PhaseInv
<1> QED BY <1>1, StreamInductive, PTL

(* The answer is the best of all candidates that were finished in time,    *)
(* whatever ended the search.                                              *)
THEOREM BestIsSelected == Spec => []BestFinishedIsSelected
<1>1. StreamInv => BestFinishedIsSelected
  BY DEF StreamInv, CollectInv
<1> QED BY <1>1, StreamInductive, PTL

-----------------------------------------------------------------------------
(* Nobody waits for nothing.                                               *)

(* Of some candidates one has the best score.                              *)
LEMMA SomebodyIsBest ==
  ASSUME StreamTypes, NEW S, S \subseteq Pipelines, S # {}
  PROVE  \E i \in S : \A j \in S : outcome[i].score >= outcome[j].score
<1> DEFINE R == {d \in Nat \X Nat : d[1] < d[2]}
           M == {TopScore - outcome[i].score : i \in S}
<1>1. R = OpToRel(<, Nat)
  BY DEF OpToRel
<1>2. IsWellFoundedOn(R, Nat)
  BY <1>1, NatLessThanWellFounded
<1>3. \A i \in S : outcome[i].score \in Int /\ TopScore - outcome[i].score \in Nat
  BY StreamAssumption DEF StreamTypes, Outcomes, Scores, NoScore
<1>4. M \subseteq Nat /\ M # {}
  BY <1>3
<1> HIDE DEF M
<1>5. PICK m \in M : \A n \in M : <<n, m>> \notin R
  BY <1>2, <1>4, WFMin
<1>6. ASSUME NEW n \in M, n < m PROVE <<n, m>> \in R
  <2>1. <<n, m>> \in Nat \X Nat
    BY <1>4
  <2>2. <<n, m>>[1] < <<n, m>>[2]
    BY <1>6
  <2> QED BY <2>1, <2>2
<1> HIDE DEF R
<1>7. \A n \in M : m <= n
  <2>1. \A n \in M : ~(n < m)
    BY <1>5, <1>6
  <2> QED BY <1>4, <2>1
<1> USE DEF M
<1>8. PICK i \in S : m = TopScore - outcome[i].score
  OBVIOUS
<1>9. \A j \in S : m <= TopScore - outcome[j].score
  BY <1>7
<1>10. TopScore \in Nat
  BY StreamAssumption
<1> QED BY <1>3, <1>8, <1>9, <1>10

(* A collector that took all there is, before the time is up, has a        *)
(* pipeline that is not over.                                              *)
LEMMA SomebodyIsAwaited ==
  ASSUME StreamInv, phase = "collect", ~timeUp, taken = Len(queue)
  PROVE  \E i \in Pipelines : pc[i] # "over"
<1> SUFFICES ASSUME \A i \in Pipelines : pc[i] = "over" PROVE FALSE
  OBVIOUS
<1>1. /\ Len(queue) \in Nat /\ queue \in [1 .. Len(queue) -> Pipelines]
      /\ Len(queue) < N /\ EndedIsQueued
  BY DEF StreamInv, StreamTypes, AwaitsInv
<1>2. queue \in Surjection(1 .. Len(queue), Pipelines)
  BY <1>1 DEF EndedIsQueued, Surjection
<1>3. Cardinality(1 .. Len(queue)) = Len(queue) /\ IsFiniteSet(1 .. Len(queue))
  <2>1. \A n \in Nat : Cardinality(1 .. n) = n /\ IsFiniteSet(1 .. n)
    BY FS_Interval
  <2> QED BY <1>1, <2>1
<1>4. N <= Len(queue)
  BY <1>2, <1>3, FS_Surjection DEF N
<1> QED BY <1>1, <1>4, SetsAreFinite

(* While nothing else can go on, calls hold no place of the semaphore, so  *)
(* no generation is left, so the throttle is open.                         *)
LEMMA SomebodyCanGoOn ==
  ASSUME StreamInv, phase = "collect", NEW i \in Pipelines, pc[i] # "over"
  PROVE  \E j \in Pipelines : CanGoOn(j)
<1> SUFFICES ASSUME \A j \in Pipelines : ~CanGoOn(j) PROVE FALSE
  OBVIOUS
<1>a. /\ pc \in [Pipelines -> Places] /\ call \in [Pipelines -> [Calls -> CallStates]]
      /\ \A j \in Pipelines : WaitsFor(j) /\ pc[j] \notin {"unmark", "unwind"}
      /\ Own \in Calls /\ Own \notin Requests /\ Requests \subseteq Calls /\ StreamTypes /\ CountersCount
      /\ Requests \union {Own} = Calls
  BY SetsAreFinite DEF StreamInv, StreamTypes, CallsInv, PhaseInv, Calls
<1>1. \A j \in Pipelines, k \in Calls : call[j][k] # "running"
  <2> SUFFICES ASSUME NEW j \in Pipelines, NEW k \in Calls, call[j][k] = "running" PROVE FALSE
    OBVIOUS
  <2>1. IF k = Own THEN pc[j] \in {"generate", "refine"} ELSE pc[j] = "verify" /\ k \in Requests
    BY <1>a DEF WaitsFor
  <2>2. ~Answered(j, "generate") /\ ~Answered(j, "refine") /\ \A l \in Requests : ~MayReturn(j, l)
    BY DEF CanGoOn
  <2> QED BY <2>1, <2>2 DEF Answered, MayReturn
<1>2. Running = {}
  BY <1>1, <1>a DEF Running
<1>3. Cardinality(Running) < MaxCalls
  BY <1>2, FS_EmptySet, StreamAssumption
<1>4. \A j \in Pipelines, k \in Calls :
        pc[j] \in {"generate", "verify", "refine"} => call[j][k] # "waiting"
  BY <1>3, <1>a DEF CanGoOn, MayStart
<1>5. \A j \in Pipelines : pc[j] \notin {"generate", "refine"}
  BY <1>1, <1>4, <1>a DEF WaitsFor
<1>6. Unmarked = {}
  BY <1>5, <1>a DEF Unmarked
<1>7. ~Generating
  BY <1>6, <1>a, GeneratingMeansSomebody
<1>8. pc[i] # "asleep"
  <2> SUFFICES ASSUME pc[i] = "asleep" PROVE FALSE
    OBVIOUS
  <2>1. i \in Valid
    BY <1>a DEF WaitsFor, Valid
  <2>2. Pool # {}
    BY <2>1 DEF Pool, Keep
  <2>3. Filter # {}
    BY <2>2 DEF Filter
  <2> QED BY <1>7, <2>3 DEF CanGoOn, MayWake
<1>9. pc[i] # "slot"
  BY <1>7 DEF CanGoOn, MayEnter, Full
<1>10. pc[i] # "verify"
  <2> SUFFICES ASSUME pc[i] = "verify" PROVE FALSE
    OBVIOUS
  <2>1. \A k \in Requests : call[i][k] \notin {"idle", "waiting", "running"}
    BY <1>1, <1>4, <1>a DEF WaitsFor
  <2>2. \A k \in Requests : call[i][k] # "queued"
    BY <1>7 DEF CanGoOn, MayAsk, Full
  <2>3. Returned(i) = Requests
    BY <1>a, <2>1, <2>2 DEF Returned, CallStates
  <2> QED BY <2>3 DEF CanGoOn, MayEnd
<1> QED BY <1>5, <1>8, <1>9, <1>10, <1>a DEF Places

(* The search never stalls, whatever the limits of throttle and semaphore, *)
(* and however many pipelines wait for each other.                         *)
THEOREM SearchNeverStalls == Spec => []NeverStalls
<1>1. StreamInv => NeverStalls
  <2> SUFFICES ASSUME StreamInv PROVE NeverStalls
    OBVIOUS
  <2>1. ASSUME phase = "collect", ~(taken < Len(queue)), ~timeUp PROVE \E i \in Pipelines : CanGoOn(i)
    <3>1. taken = Len(queue)
      BY <2>1 DEF StreamInv, StreamTypes
    <3> QED BY <2>1, <3>1, SomebodyIsAwaited, SomebodyCanGoOn
  <2>2. ASSUME phase = "cancel" PROVE Over = Pipelines \/ \E i \in Pipelines : pc[i] \in {"unmark", "unwind"}
    BY <2>2 DEF StreamInv, PhaseInv, Over
  <2>3. Answers # {}
    <3> DEFINE
         strict == {i \in Candidates : outcome[i].strict}
         above  == {i \in Candidates : outcome[i].score > MinScore}
         pool   == IF strict # {} THEN strict ELSE IF above # {} THEN above ELSE Candidates
    <3>1. Answers = IF pool = {} THEN {NoOne}
                    ELSE {i \in pool : \A j \in pool : outcome[i].score >= outcome[j].score}
      BY DEF Answers
    <3>2. pool \subseteq Pipelines
      BY DEF StreamInv, StreamTypes, Candidates, Taken
    <3> HIDE DEF pool
    <3> QED BY <3>1, <3>2, SomebodyIsBest DEF StreamInv
  <2> QED BY <2>1, <2>2, <2>3 DEF NeverStalls
<1> QED BY <1>1, StreamInductive, PTL

-----------------------------------------------------------------------------
(* Every step leads on.                                                    *)

LEMMA PipelineLeadsOn ==
  ASSUME StreamInv, NEW i \in Pipelines, Pipeline(i)
  PROVE  CollectorUnmoved /\ Further(i) /\ \A j \in Pipelines \ {i} : Unmoved(j)
<1>a. /\ pc \in [Pipelines -> Places] /\ call \in [Pipelines -> [Calls -> CallStates]]
      /\ round \in [Pipelines -> Nat] /\ StreamTypes /\ RefineRounds \in Nat
      /\ pc[i] = "refine" => round[i] < RefineRounds
      /\ Own \in Calls /\ Requests \subseteq Calls /\ Requests \union {Own} = Calls
  BY SetsAreFinite, StreamAssumption DEF StreamInv, StreamTypes, CallsInv, WaitsFor, Calls
<1>b. CollectorUnmoved
  BY PipelineMoves DEF CollectorUnmoved
<1>c. ASSUME NEW p \in Places, pc' = [pc EXCEPT ![i] = p], Place[pc[i]] < Place[p], round' = round,
             \A j \in Pipelines \ {i} : call'[j] = call[j]
      PROVE  Further(i) /\ \A j \in Pipelines \ {i} : Unmoved(j)
  BY <1>a, <1>c DEF Further, Unmoved
<1>d. ASSUME NEW k \in Calls, NEW s \in CallStates, pc' = pc, round' = round,
             call' = [call EXCEPT ![i][k] = s], Progress[call[i][k]] < Progress[s]
      PROVE  Further(i) /\ \A j \in Pipelines \ {i} : Unmoved(j)
  <2>1. call'[i] = [call[i] EXCEPT ![k] = s] /\ \A j \in Pipelines \ {i} : call'[j] = call[j]
    BY <1>a, <1>d
  <2>2. call'[i][k] = s /\ \A l \in Calls \ {k} : call'[i][l] = call[i][l]
    BY <1>a, <2>1
  <2>3. \A x \in CallStates : Progress[x] \in Nat
    BY DEF Progress, CallStates
  <2>4. \A l \in Calls : call[i][l] \in CallStates
    BY <1>a
  <2>5. call'[i] # call[i]
    BY <1>d, <2>2, <2>3, <2>4
  <2>6. \A l \in Calls : Progress[call[i][l]] <= Progress[call'[i][l]]
    BY <1>d, <2>2, <2>3, <2>4
  <2> QED BY <1>a, <1>d, <2>1, <2>5, <2>6 DEF Further, Unmoved
<1>1. ASSUME NEW k \in Calls, StartCall(i, k) PROVE Further(i) /\ \A j \in Pipelines \ {i} : Unmoved(j)
  <2>1. pc' = pc /\ round' = round /\ call' = [call EXCEPT ![i][k] = "running"] /\ call[i][k] = "waiting"
    BY <1>1 DEF StartCall, MayStart
  <2>2. Progress["waiting"] < Progress["running"] /\ "running" \in CallStates
    BY DEF Progress, CallStates
  <2> QED BY <1>d, <2>1, <2>2
<1>2. ASSUME NEW k \in Requests, Permit(i, k) PROVE Further(i) /\ \A j \in Pipelines \ {i} : Unmoved(j)
  <2>1. pc' = pc /\ round' = round /\ call' = [call EXCEPT ![i][k] = "waiting"] /\ call[i][k] = "queued"
    BY <1>2 DEF Permit, MayAsk
  <2>2. Progress["queued"] < Progress["waiting"] /\ "waiting" \in CallStates /\ k \in Calls
    BY <1>a DEF Progress, CallStates
  <2> QED BY <1>d, <2>1, <2>2
<1>3. ASSUME NEW k \in Requests, Return(i, k) PROVE Further(i) /\ \A j \in Pipelines \ {i} : Unmoved(j)
  <2>1. pc' = pc /\ round' = round /\ call' = [call EXCEPT ![i][k] = "returned"] /\ call[i][k] = "running"
    BY <1>3 DEF Return, MayReturn
  <2>2. Progress["running"] < Progress["returned"] /\ "returned" \in CallStates /\ k \in Calls
    BY <1>a DEF Progress, CallStates
  <2> QED BY <1>d, <2>1, <2>2
<1>e. ASSUME NEW p \in Places, pc' = [pc EXCEPT ![i] = p], round' = round,
             \A j \in Pipelines \ {i} : call'[j] = call[j],
             \/ pc[i] = "generate" /\ p \in {"asleep", "slot", "over"}
             \/ pc[i] = "asleep" /\ p \in {"slot", "over"}
             \/ pc[i] = "slot" /\ p = "verify"
             \/ pc[i] = "verify" /\ p \in {"refine", "over"}
             \/ pc[i] \in {"refine", "unmark", "unwind"} /\ p = "over"
      PROVE  Further(i) /\ \A j \in Pipelines \ {i} : Unmoved(j)
  <2>1. Place[pc[i]] < Place[p]
    BY <1>e DEF Place
  <2> QED BY <1>c, <1>e, <2>1
<1>4. CASE Generated(i)
  <2>1. /\ pc[i] = "generate" /\ round' = round
        /\ \A j \in Pipelines \ {i} : call'[j] = call[j]
    BY <1>4, <1>a DEF Generated, Answered
  <2>2. PICK p \in {"asleep", "slot", "over"} : pc' = [pc EXCEPT ![i] = p]
    BY <1>4, <1>a, Moves DEF Generated
  <2>3. p \in Places
    BY DEF Places
  <2> QED BY <1>b, <1>e, <2>1, <2>2, <2>3
<1>5. CASE Wake(i)
  <2>1. pc[i] = "asleep" /\ round' = round /\ call' = call
    BY <1>5 DEF Wake, MayWake
  <2>2. PICK p \in {"slot", "over"} : pc' = [pc EXCEPT ![i] = p]
    BY <1>5, <1>a, Moves DEF Wake
  <2>3. p \in Places
    BY DEF Places
  <2> QED BY <1>b, <1>e, <2>1, <2>2, <2>3
<1>6. CASE EnterRound(i)
  <2>1. /\ pc[i] = "slot" /\ round' = round /\ pc' = [pc EXCEPT ![i] = "verify"]
        /\ \A j \in Pipelines \ {i} : call'[j] = call[j]
    BY <1>6, <1>a, Moves DEF EnterRound, MayEnter
  <2>2. "verify" \in Places
    BY DEF Places
  <2> QED BY <1>b, <1>e, <2>1, <2>2
<1>7. CASE EndRound(i)
  <2>1. /\ pc[i] = "verify" /\ round' = round
        /\ \A j \in Pipelines \ {i} : call'[j] = call[j]
    BY <1>7, <1>a DEF EndRound, MayEnd
  <2>2. PICK p \in {"refine", "over"} : pc' = [pc EXCEPT ![i] = p]
    BY <1>7, <1>a, Moves DEF EndRound
  <2>3. p \in Places
    BY DEF Places
  <2> QED BY <1>b, <1>e, <2>1, <2>2, <2>3
<1>8. CASE Refined(i)
  <2>1. pc[i] = "refine" /\ \A j \in Pipelines \ {i} : call'[j] = call[j]
    BY <1>8, <1>a DEF Refined, Answered
  <2>2. CASE pc' = [pc EXCEPT ![i] = "slot"] /\ round' = [round EXCEPT ![i] = @ + 1]
    <3>1. round'[i] = round[i] + 1 /\ round[i] \in Nat /\ \A j \in Pipelines \ {i} : round'[j] = round[j]
      BY <1>a, <2>2
    <3>2. \A j \in Pipelines \ {i} : pc'[j] = pc[j]
      BY <1>a, <2>2
    <3>3. round[i] < round'[i] /\ round'[i] <= RefineRounds
      BY <1>a, <2>1, <3>1
    <3> QED BY <1>b, <2>1, <3>1, <3>2, <3>3 DEF Further, Unmoved
  <2>3. CASE pc' = [pc EXCEPT ![i] = "over"] /\ round' = round
    <3>1. "over" \in Places
      BY DEF Places
    <3> QED BY <1>b, <1>e, <2>1, <2>3, <3>1
  <2> QED BY <1>8, <1>a, <2>2, <2>3, Moves DEF Refined
<1>9. CASE Unwind(i)
  <2>1. /\ pc[i] \in {"unmark", "unwind"} /\ round' = round /\ pc' = [pc EXCEPT ![i] = "over"]
        /\ \A j \in Pipelines \ {i} : call'[j] = call[j]
    BY <1>9, <1>a DEF Unwind, Goto
  <2>2. "over" \in Places
    BY DEF Places
  <2> QED BY <1>b, <1>e, <2>1, <2>2
<1> QED
  BY <1>b, <1>1, <1>2, <1>3, <1>4, <1>5, <1>6, <1>7, <1>8, <1>9 DEF Pipeline, Calls

(* No step of a search falls back and each leads on: rounds, places, calls *)
(* and what is collected are bounded and only grow.                        *)
THEOREM SearchLeadsOn == Spec => EveryStepLeadsOn
<1> DEFINE
     LeadsOn == /\ \A i \in Pipelines : Unmoved(i) \/ Further(i)
                /\ CollectorUnmoved \/ CollectorFurther
                /\ CollectorFurther \/ \E i \in Pipelines : Further(i)
<1>1. StreamInv /\ [Next]_vars => [LeadsOn]_vars
  <2> SUFFICES ASSUME StreamInv, Next PROVE LeadsOn
    BY DEF LeadsOn
  <2>a. /\ pc \in [Pipelines -> Places] /\ taken \in Nat /\ Len(queue) \in Nat /\ Len(queue) <= N /\ N \in Nat
    BY SetsAreFinite, QueueIsBounded DEF StreamInv, StreamTypes
  <2>1. ASSUME NEW i \in Pipelines, Pipeline(i) PROVE LeadsOn
    BY <2>1, PipelineLeadsOn
  <2>2. ASSUME phase = "collect", CancelAll, UNCHANGED <<round, call, timeUp>> PROVE LeadsOn
    <3>1. Stage[phase] < Stage[phase']
      BY <2>2 DEF CancelAll, Stage
    <3>2. ASSUME NEW i \in Pipelines PROVE Unmoved(i) \/ Further(i)
      <4>1. pc[i] \in {"generate", "asleep", "slot", "verify", "refine", "over"}
        BY <2>2, <2>a DEF StreamInv, PhaseInv, Places
      <4>2. pc'[i] = CASE pc[i] = "over" -> "over" [] pc[i] = "generate" -> "unmark" [] OTHER -> "unwind"
        BY <2>2 DEF CancelAll
      <4>3. CASE pc[i] = "over"
        BY <2>2, <4>2, <4>3 DEF Unmoved
      <4>4. CASE pc[i] # "over"
        <5>1. Place[pc[i]] < Place[pc'[i]]
          BY <4>1, <4>2, <4>4 DEF Place
        <5> QED BY <2>2, <5>1 DEF Further
      <4> QED BY <4>3, <4>4
    <3> QED BY <3>1, <3>2 DEF CollectorFurther
  <2>3. ASSUME UNCHANGED <<pc, round, call>>, CollectorFurther PROVE LeadsOn
    BY <2>3 DEF Unmoved
  <2>4. CASE Collect
    <3>1. CASE CancelAll
      BY <2>2, <2>4, <3>1 DEF Collect
    <3>2. CASE ~CancelAll
      <4>1. /\ UNCHANGED <<pc, round, call>> /\ phase = "collect" /\ phase' \in {"collect", "select"}
            /\ taken' = taken + 1 /\ taken < Len(queue)
        BY <2>4, <3>2 DEF Collect
      <4>2. CollectorFurther
        BY <2>a, <4>1 DEF CollectorFurther, Stage
      <4> QED BY <2>3, <4>1, <4>2
    <3> QED BY <3>1, <3>2
  <2>5. CASE TimedOut
    BY <2>2, <2>5 DEF TimedOut
  <2>6. CASE Cancelled \/ Select \/ TimeUp
    <3>1. UNCHANGED <<pc, round, call>>
      BY <2>6 DEF Cancelled, Select, TimeUp, pipeVars
    <3>2. CollectorFurther
      BY <2>6 DEF Cancelled, Select, TimeUp, CollectorFurther, Stage
    <3> QED BY <2>3, <3>1, <3>2
  <2> QED BY <2>1, <2>4, <2>5, <2>6 DEF Next, Work
<1> QED BY <1>1, StreamInductive, PTL DEF Spec, EveryStepLeadsOn
=============================================================================
