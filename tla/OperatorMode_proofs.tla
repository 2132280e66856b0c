-------------------------- MODULE OperatorMode_proofs --------------------------
(***************************************************************************)
(* The operators of a node keep track of their runs, pass the key on to    *)
(* younger ones only and do not end each other, for any number of          *)
(* operators, commands and runs.                                           *)
(***************************************************************************)
EXTENDS OperatorMode, SequenceTheorems, FiniteSetTheorems, WellFoundedInduction, TLAPS

RunStates == {"running", "signalled", "exited", "uploaded"}
Commands == [kind : AllKinds, target : Nat]
Runs == [cmd : Nat, state : RunStates]

OperatorTypes ==
  /\ file \in Seq(Commands)
  /\ owner \in Operators \union {NoOne} /\ sha \in Nat /\ resets \in Nat
  /\ st \in [Operators -> States]
  /\ started \in [Operators -> Nat] /\ cause \in [Operators -> Nat]
  /\ seen \in [Operators -> Nat] /\ prev \in [Operators -> 0 .. Len(file)]
  /\ runs \in [Operators -> Seq(Runs)]
  /\ active \in [Operators -> SUBSET Nat]

(* Who is about to write the key file has read a record that is older than *)
(* its own, unless the file changed since.                                 *)
KeyInv ==
  \A p \in Operators :
    /\ st[p] \in {"none", "spawned"} => owner # p
    /\ st[p] \in {"write", "rewrite"} => seen[p] <= sha /\ (seen[p] = sha => Stale(p))

(* An operator has a command in hand between taking it and polling again.  *)
InHand == {"key", "reclaim", "rewrite", "act", "stopping"}
CommandInv ==
  \A p \in Operators :
    /\ st[p] \in InHand => prev[p] \in DOMAIN file
    /\ st[p] \in {"key", "reclaim", "rewrite"} => Kind(prev[p]) \notin Control
    /\ st[p] = "stopping" => Kind(prev[p]) = "STOP"

(* Operators come up one after the other: each time is the number of those *)
(* that were up, and nobody else has it.                                   *)
Up == {q \in Operators : started[q] > 0}
ClockInv ==
  \A p \in Operators :
    /\ started[p] <= Cardinality(Up)
    /\ st[p] \in {"none", "spawned"} => started[p] = 0
    /\ st[p] \notin {"none", "spawned", "down"} => started[p] > 0

(* A command that is about to be run is newer than all that were.          *)
RunsInv ==
  \A p \in Operators :
    /\ st[p] = "none" => runs[p] = <<>>
    /\ active[p] \subseteq DOMAIN runs[p]
    /\ \A i \in DOMAIN runs[p] :
         /\ runs[p][i].cmd <= prev[p]
         /\ st[p] \in InHand /\ Kind(prev[p]) = "run" => runs[p][i].cmd < prev[p]

(* Once an operator took a command somebody is settled: it is past the     *)
(* part of its start where it may fail, and nobody ends it but another     *)
(* that is settled.                                                        *)
Settled == {"term", "kill", "poll", "key", "reclaim", "rewrite", "act"}
SomeoneSettled ==
  ~ExitOnMismatch /\ (\E p \in Operators : prev[p] # 0) /\ (\A c \in DOMAIN file : Kind(c) # "STOP")
    => \E p \in Operators : st[p] \in Settled

OperatorInv ==
  /\ OperatorTypes /\ KeyInv /\ ClockInv /\ CommandInv /\ RunsInv /\ SomeoneSettled
  /\ RunsAreAccountedFor /\ StopLeavesNothing

(* An operator that was overtaken while it polled takes no run in hand.    *)
Overtaken(p) ==
  /\ st[p] \in {"poll", "key", "act", "stopping", "stopped", "down"}
  /\ st[p] = "act" => Kind(prev[p]) \in Control
  /\ owner \in Operators \ {p} /\ started[p] <= started[owner] /\ resets = MaxResets

-----------------------------------------------------------------------------
(* Facts about runs.                                                       *)

LEMMA OperatorsAreNumbers == Operators \subseteq Nat /\ NoOne \notin Operators
BY OperatorAssumption DEF Operators, NoOne

LEMMA SequencesOfRuns ==
  ASSUME NEW s \in Seq(Runs)
  PROVE  /\ Len(s) \in Nat /\ DOMAIN s = 1 .. Len(s) /\ DOMAIN s \subseteq Nat
         /\ \A i \in DOMAIN s : s[i] \in Runs
         /\ \A f \in [DOMAIN s -> Runs] : f \in Seq(Runs)
<1>1. Len(s) \in Nat /\ DOMAIN s = 1 .. Len(s) /\ s \in [1 .. Len(s) -> Runs]
  BY LenProperties
<1>2. \A f \in [DOMAIN s -> Runs] : f \in Seq(Runs)
  BY <1>1, SeqDef
<1> QED BY <1>1, <1>2

(* The first of some runs is one of them.                                  *)
LEMMA FirstIsOne ==
  ASSUME NEW S, S \subseteq Nat, S # {}
  PROVE  FirstOf(S) \in S
<1> DEFINE R == {d \in Nat \X Nat : d[1] < d[2]}
<1>1. R = OpToRel(<, Nat)
  BY DEF OpToRel
<1>2. IsWellFoundedOn(R, Nat)
  BY <1>1, NatLessThanWellFounded
<1>3. PICK i \in S : \A j \in S : <<j, i>> \notin R
  BY <1>2, WFMin
<1>4. ASSUME NEW j \in S, j < i PROVE <<j, i>> \in R
  <2>1. <<j, i>> \in Nat \X Nat
    OBVIOUS
  <2>2. <<j, i>>[1] < <<j, i>>[2]
    BY <1>4
  <2> QED BY <2>1, <2>2
<1> HIDE DEF R
<1>5. \A j \in S : ~(j < i)
  BY <1>3, <1>4
<1>6. \A j \in S : i <= j
  BY <1>5
<1> QED BY <1>6 DEF FirstOf

(* An edit changes the states of runs only, and marks those in up, of p,   *)
(* as uploaded.                                                            *)
Edited(p, up) ==
  /\ runs' \in [Operators -> Seq(Runs)]
  /\ \A q \in Operators :
       /\ DOMAIN runs'[q] = DOMAIN runs[q]
       /\ \A i \in DOMAIN runs[q] :
            /\ runs'[q][i].cmd = runs[q][i].cmd
            /\ runs'[q][i].state = "uploaded" <=> runs[q][i].state = "uploaded" \/ (q = p /\ i \in up)

LEMMA OneRunChanges ==
  ASSUME OperatorTypes, NEW p \in Operators, NEW i \in DOMAIN runs[p], NEW s \in RunStates,
         runs' = [runs EXCEPT ![p][i].state = s], runs[p][i].state = "uploaded" => s = "uploaded"
  PROVE  Edited(p, IF s = "uploaded" THEN {i} ELSE {})
<1>1. /\ runs \in [Operators -> Seq(Runs)] /\ runs[p] \in Seq(Runs)
      /\ DOMAIN runs[p] \subseteq Nat /\ \A j \in DOMAIN runs[p] : runs[p][j] \in Runs
  BY SequencesOfRuns DEF OperatorTypes
<1> DEFINE r == [runs[p] EXCEPT ![i] = [@ EXCEPT !.state = s]]
<1>2. r \in [DOMAIN runs[p] -> Runs]
  <2>1. [runs[p][i] EXCEPT !.state = s] \in Runs
    BY <1>1 DEF Runs
  <2> QED BY <1>1, <2>1
<1>3. r \in Seq(Runs) /\ DOMAIN r = DOMAIN runs[p]
  BY <1>1, <1>2, SequencesOfRuns
<1>4. runs' = [runs EXCEPT ![p] = r]
  OBVIOUS
<1>5. \A j \in DOMAIN runs[p] : /\ r[j].cmd = runs[p][j].cmd
                                /\ r[j].state = IF j = i THEN s ELSE runs[p][j].state
  BY <1>1 DEF Runs
<1> HIDE DEF r
<1>6. runs' \in [Operators -> Seq(Runs)] /\ \A q \in Operators : runs'[q] = IF q = p THEN r ELSE runs[q]
  BY <1>1, <1>3, <1>4
<1> QED BY <1>1, <1>3, <1>5, <1>6 DEF Edited

LEMMA SignalsEdit ==
  ASSUME OperatorTypes, NEW p \in Operators, NEW S
  PROVE  /\ Signalled(p, S) \in [DOMAIN runs[p] -> Runs]
         /\ \A i \in DOMAIN runs[p] : /\ Signalled(p, S)[i].cmd = runs[p][i].cmd
                                      /\ Signalled(p, S)[i].state = "uploaded" <=> runs[p][i].state = "uploaded"
<1>1. \A i \in DOMAIN runs[p] : runs[p][i] \in Runs
  BY SequencesOfRuns DEF OperatorTypes
<1>2. \A r \in Runs : /\ [r EXCEPT !.state = "signalled"] \in Runs
                      /\ [r EXCEPT !.state = "signalled"].cmd = r.cmd
                      /\ [r EXCEPT !.state = "signalled"].state = "signalled"
  BY DEF Runs, RunStates
<1> QED BY <1>1, <1>2 DEF Signalled

(* A command that is not a run, and the end of a child, upload nothing.    *)
LEMMA ControlEdits ==
  ASSUME OperatorTypes, NEW p \in Operators
  PROVE  /\ Cancel(p) \/ Stop(p) \/ Kill(p) => Edited(p, {})
         /\ \A i : ChildExits(p, i) => Edited(p, {})
<1>1. /\ runs \in [Operators -> Seq(Runs)]
      /\ \A q \in Operators : \A i \in DOMAIN runs[q] : runs[q][i] \in Runs
  BY SequencesOfRuns DEF OperatorTypes
<1>2. ASSUME Cancel(p) \/ Stop(p) PROVE Edited(p, {})
  <2>1. runs' = [runs EXCEPT ![p] = Signalled(p, active[p])]
    BY <1>2 DEF Cancel, Stop
  <2>2. Signalled(p, active[p]) \in Seq(Runs) /\ DOMAIN Signalled(p, active[p]) = DOMAIN runs[p]
    BY <1>1, SignalsEdit, SequencesOfRuns
  <2>3. runs' \in [Operators -> Seq(Runs)] /\ \A q \in Operators : runs'[q] = IF q = p THEN Signalled(p, active[p]) ELSE runs[q]
    BY <1>1, <2>1, <2>2
  <2>4. \A i \in DOMAIN runs[p] :
          /\ Signalled(p, active[p])[i].cmd = runs[p][i].cmd
          /\ Signalled(p, active[p])[i].state = "uploaded" <=> runs[p][i].state = "uploaded"
    BY SignalsEdit
  <2> QED BY <2>2, <2>3, <2>4 DEF Edited
<1>3. ASSUME Kill(p) PROVE Edited(p, {})
  <2> DEFINE target == file[prev[p]].target
             mine == {i \in active[p] : runs[p][i].cmd = target}
             killed(q) == [i \in DOMAIN runs[q] |->
               IF q = p /\ i \in mine THEN Signalled(p, mine)[i]
               ELSE IF runs[q][i].cmd = target /\ ~Over(runs[q][i])
               THEN [runs[q][i] EXCEPT !.state = "exited"]
               ELSE runs[q][i]]
  <2>1. runs' = [q \in Operators |-> killed(q)]
    BY <1>3 DEF Kill
  <2>2. \A r \in Runs : /\ [r EXCEPT !.state = "exited"] \in Runs
                        /\ [r EXCEPT !.state = "exited"].cmd = r.cmd
                        /\ [r EXCEPT !.state = "exited"].state = "exited"
    BY DEF Runs, RunStates
  <2>3. /\ Signalled(p, mine) \in [DOMAIN runs[p] -> Runs]
        /\ \A i \in DOMAIN runs[p] : /\ Signalled(p, mine)[i].cmd = runs[p][i].cmd
                                     /\ Signalled(p, mine)[i].state = "uploaded" <=> runs[p][i].state = "uploaded"
    BY SignalsEdit
  <2> HIDE DEF target, mine
  <2>4. ASSUME NEW q \in Operators
        PROVE  /\ killed(q) \in [DOMAIN runs[q] -> Runs]
               /\ \A i \in DOMAIN runs[q] : /\ killed(q)[i].cmd = runs[q][i].cmd
                                            /\ killed(q)[i].state = "uploaded" <=> runs[q][i].state = "uploaded"
    BY <1>1, <2>2, <2>3 DEF Over
  <2> HIDE DEF killed
  <2>5. \A q \in Operators : killed(q) \in Seq(Runs) /\ DOMAIN killed(q) = DOMAIN runs[q]
    BY <1>1, <2>4, SequencesOfRuns
  <2> QED BY <2>1, <2>4, <2>5 DEF Edited
<1>4. ASSUME NEW i, ChildExits(p, i) PROVE Edited(p, {})
  <2>1. i \in DOMAIN runs[p] /\ runs' = [runs EXCEPT ![p][i].state = "exited"] /\ runs[p][i].state # "uploaded"
    BY <1>4 DEF ChildExits, Over
  <2>2. "exited" \in RunStates
    BY DEF RunStates
  <2> QED BY <2>1, <2>2, OneRunChanges
<1> QED BY <1>2, <1>3, <1>4

LEMMA UploadsEdit ==
  ASSUME OperatorTypes, RunsInv, NEW p \in Operators
  PROVE  /\ Finalize(p) => \E i \in DOMAIN runs[p] : Edited(p, {i}) /\ active' = [active EXCEPT ![p] = @ \ {i}]
         /\ StopJoin(p) => \E i \in DOMAIN runs[p] : Edited(p, {i})
<1>1. active[p] \subseteq DOMAIN runs[p] /\ DOMAIN runs[p] \subseteq Nat
  BY SequencesOfRuns DEF OperatorTypes, RunsInv
<1>2. ASSUME NEW i \in DOMAIN runs[p], runs' = [runs EXCEPT ![p][i].state = "uploaded"] PROVE Edited(p, {i})
  <2>1. "uploaded" \in RunStates
    BY DEF RunStates
  <2> QED BY <1>2, <2>1, OneRunChanges
<1>3. ASSUME Finalize(p)
      PROVE  \E i \in DOMAIN runs[p] : Edited(p, {i}) /\ active' = [active EXCEPT ![p] = @ \ {i}]
  <2> DEFINE i == FirstOf(OverRuns(p))
  <2>1. i \in OverRuns(p)
    BY <1>1, <1>3, FirstIsOne DEF Finalize, OverRuns
  <2>2. i \in DOMAIN runs[p]
    BY <1>1, <2>1 DEF OverRuns
  <2> QED BY <1>2, <1>3, <2>2 DEF Finalize
<1>4. ASSUME StopJoin(p) PROVE \E i \in DOMAIN runs[p] : Edited(p, {i})
  <2> DEFINE i == FirstOf(Unfinished(p))
  <2>1. i \in Unfinished(p)
    BY <1>1, <1>4, FirstIsOne DEF StopJoin, Unfinished
  <2>2. i \in DOMAIN runs[p]
    BY <1>1, <2>1 DEF Unfinished
  <2> QED BY <1>2, <1>4, <2>2 DEF StopJoin
<1> QED BY <1>3, <1>4

(* The command in hand is the one taken last, and one that is published    *)
(* later changes none of those before it.                                  *)
LEMMA FileGrows ==
  ASSUME OperatorTypes, [Next]_vars
  PROVE  /\ Len(file) \in Nat /\ DOMAIN file = 1 .. Len(file) /\ file' \in Seq(Commands)
         /\ Len(file') \in Nat /\ DOMAIN file' = 1 .. Len(file') /\ Len(file) <= Len(file')
         /\ \A c \in DOMAIN file : file'[c] = file[c]
<1>1. file \in Seq(Commands) /\ Len(file) \in Nat /\ DOMAIN file = 1 .. Len(file)
  BY LenProperties DEF OperatorTypes
<1>2. CASE file' = file
  BY <1>1, <1>2
<1>3. CASE Publish
  <2>1. PICK k \in Kinds, t \in 0 .. Len(file) : file' = Append(file, [kind |-> k, target |-> t])
    BY <1>3 DEF Publish
  <2>2. [kind |-> k, target |-> t] \in Commands
    BY <1>1, OperatorAssumption DEF Commands
  <2> QED BY <1>1, <2>1, <2>2
<1>4. ASSUME NEW p \in Operators, StartUp(p) \/ Cycle(p) \/ Act(p) \/ Halt(p) PROVE file' = file
  <2>1. ASSUME StartUp(p) PROVE file' = file
    BY <2>1 DEF StartUp, Boot, Claim, WriteClaim, ReadKey, WriteKey, RetireCheck, RetireTerm, RetireKill
  <2>2. ASSUME Cycle(p) PROVE file' = file
    BY <2>2 DEF Cycle, Finalize, Poll, CheckKey, Reclaim, WriteReclaim, ReadKey, WriteKey
  <2>3. ASSUME Act(p) PROVE file' = file
    BY <2>3 DEF Act, StartRun, Cancel, Kill, Restart, Stop
  <2>4. ASSUME Halt(p) PROVE file' = file
    BY <2>4 DEF Halt, StopJoin, StopFails, StopDone
  <2> QED BY <1>4, <2>1, <2>2, <2>3, <2>4
<1>5. ASSUME Launch \/ ResetKeyFile \/ UNCHANGED vars \/ \E p \in Operators, i \in 1 .. MaxRuns : ChildExits(p, i)
      PROVE  file' = file
  BY <1>5 DEF Launch, ResetKeyFile, vars, ChildExits
<1> QED BY <1>2, <1>3, <1>4, <1>5 DEF Next

(* The parts of an operator's start that only move it on.                  *)
LEMMA KeyTypes ==
  ASSUME OperatorTypes, NEW p \in Operators, NEW here, NEW next \in States, NEW held \in States,
         NEW failed \in States,
         ReadKey(p, here, next, held, failed) \/ WriteKey(p, here, next, held, failed)
  PROVE  OperatorTypes'
<1>1. CASE ReadKey(p, here, next, held, failed)
  <2>1. st' \in [Operators -> States] /\ seen' \in [Operators -> Nat]
    BY <1>1 DEF ReadKey, Goto, OperatorTypes
  <2> QED BY <1>1, <2>1 DEF ReadKey, keyVars, runVars, OperatorTypes
<1>2. CASE WriteKey(p, here, next, held, failed)
  <2>1. st' \in [Operators -> States]
    BY <1>2 DEF WriteKey, Goto, OperatorTypes
  <2>2. owner' \in Operators \union {NoOne} /\ sha' \in Nat
    BY <1>2 DEF WriteKey, OperatorTypes
  <2> QED BY <1>2, <2>1, <2>2 DEF WriteKey, procVars, runVars, OperatorTypes
<1> QED BY <1>1, <1>2

LEMMA TypesStep ==
  ASSUME OperatorTypes, RunsInv, [Next]_vars
  PROVE  OperatorTypes'
<1> USE OperatorsAreNumbers
<1>a. prev' = prev => prev' \in [Operators -> 0 .. Len(file')]
  <2> SUFFICES ASSUME prev' = prev PROVE prev' \in [Operators -> 0 .. Len(file')]
    OBVIOUS
  <2>1. prev \in [Operators -> 0 .. Len(file)] /\ Len(file) \in Nat
    BY DEF OperatorTypes
  <2>2. Len(file') \in Nat /\ Len(file) <= Len(file')
    BY FileGrows
  <2>3. 0 .. Len(file) \subseteq 0 .. Len(file')
    BY <2>1, <2>2
  <2> QED BY <2>1, <2>3
<1>b. ASSUME NEW p \in Operators, NEW s \in States, Goto(p, s) PROVE st' \in [Operators -> States]
  BY <1>b DEF Goto, OperatorTypes
<1>c. ASSUME NEW p \in Operators, NEW up, Edited(p, up), UNCHANGED <<file, keyVars, procVars, prev>>,
             st' \in [Operators -> States], active' \in [Operators -> SUBSET Nat]
      PROVE  OperatorTypes'
  BY <1>c DEF Edited, keyVars, procVars, OperatorTypes
<1>1. CASE Publish
  BY <1>1, <1>a, FileGrows DEF Publish, keyVars, procVars, runVars, OperatorTypes
<1>d. ASSUME NEW states \in [Operators -> States], NEW c \in Nat, Spawn(states, c)
      PROVE  st' \in [Operators -> States] /\ cause' \in [Operators -> Nat]
  BY <1>d DEF Spawn, OperatorTypes, States
<1>2. CASE Launch
  BY <1>2, <1>a, <1>d DEF Launch, keyVars, runVars, OperatorTypes
<1>3. CASE ResetKeyFile
  <2>1. /\ owner' = NoOne /\ sha' = sha + 1 /\ resets' = resets + 1
        /\ UNCHANGED <<file, st, procVars, prev, runVars>>
    BY <1>3 DEF ResetKeyFile
  <2>2. prev' \in [Operators -> 0 .. Len(file')]
    BY <2>1 DEF OperatorTypes
  <2> QED BY <2>1, <2>2 DEF procVars, runVars, OperatorTypes
<1>4. ASSUME NEW p \in Operators, StartUp(p) PROVE OperatorTypes'
  <2>1. CASE Boot(p)
    <3>1. st' \in [Operators -> States]
      BY <2>1, <1>b DEF Boot, States
    <3>2. started' \in [Operators -> Nat]
      <4> DEFINE clock == {q \in Operators : started[q] > 0}
      <4>1. IsFiniteSet(clock) /\ Cardinality(clock) \in Nat
        <5>1. IsFiniteSet(Operators)
          BY OperatorAssumption, FS_Interval DEF Operators
        <5> QED BY <5>1, FS_Subset, FS_CardinalityType
      <4>2. \/ started' = started
            \/ started' = [started EXCEPT ![p] = 1 + Cardinality(clock)]
        BY <2>1 DEF Boot
      <4>3. started \in [Operators -> Nat] /\ 1 + Cardinality(clock) \in Nat
        BY <4>1 DEF OperatorTypes
      <4> HIDE DEF clock
      <4> QED BY <4>2, <4>3
    <3> QED BY <2>1, <1>a, <3>1, <3>2 DEF Boot, keyVars, runVars, OperatorTypes
  <2>2. CASE Claim(p) \/ WriteClaim(p)
    <3>1. {"claim", "write", "check", "down"} \subseteq States
      BY DEF States
    <3>2. ReadKey(p, "claim", "write", "check", "down") \/ WriteKey(p, "write", "claim", "check", "down")
      BY <2>2 DEF Claim, WriteClaim
    <3>3. CASE ReadKey(p, "claim", "write", "check", "down")
      BY <3>1, <3>3, KeyTypes
    <3>4. CASE WriteKey(p, "write", "claim", "check", "down")
      BY <3>1, <3>4, KeyTypes
    <3> QED BY <3>2, <3>3, <3>4
  <2>3. CASE RetireCheck(p)
    BY <2>3, <1>b DEF RetireCheck, States, keyVars, procVars, runVars, OperatorTypes
  <2>4. CASE RetireTerm(p) \/ RetireKill(p)
    <3>1. \E s \in States : EndOthers(p, s)
      BY <2>4 DEF RetireTerm, RetireKill, States
    <3>2. st' \in [Operators -> States]
      BY <3>1 DEF EndOthers, OperatorTypes, States
    <3>3. UNCHANGED <<file, keyVars, procVars, prev, runVars>>
      BY <2>4 DEF RetireTerm, RetireKill
    <3> QED BY <3>2, <3>3 DEF keyVars, procVars, runVars, OperatorTypes
  <2> QED BY <1>4, <2>1, <2>2, <2>3, <2>4 DEF StartUp
<1>5. ASSUME NEW p \in Operators, Cycle(p) PROVE OperatorTypes'
  <2>1. CASE Finalize(p)
    <3>1. PICK i \in DOMAIN runs[p] : Edited(p, {i}) /\ active' = [active EXCEPT ![p] = @ \ {i}]
      BY <2>1, UploadsEdit
    <3>2. active' \in [Operators -> SUBSET Nat]
      BY <3>1 DEF OperatorTypes
    <3> QED BY <2>1, <1>c, <3>1, <3>2 DEF Finalize, OperatorTypes
  <2>2. CASE Poll(p)
    <3>1. st' \in [Operators -> States]
      BY <2>2, <1>b DEF Poll, States
    <3>2. prev' \in [Operators -> 0 .. Len(file')] /\ file' = file
      BY <2>2, FileGrows DEF Poll, OperatorTypes
    <3> QED BY <2>2, <3>1, <3>2 DEF Poll, keyVars, procVars, runVars, OperatorTypes
  <2>3. CASE CheckKey(p)
    BY <2>3, <1>b DEF CheckKey, States, keyVars, procVars, runVars, OperatorTypes
  <2>4. CASE Reclaim(p) \/ WriteReclaim(p)
    <3>1. {"rewrite", "reclaim", "act", "poll"} \subseteq States
      BY DEF States
    <3>2. ReadKey(p, "reclaim", "rewrite", "act", "poll") \/ WriteKey(p, "rewrite", "reclaim", "act", "poll")
      BY <2>4 DEF Reclaim, WriteReclaim
    <3>3. CASE ReadKey(p, "reclaim", "rewrite", "act", "poll")
      BY <3>1, <3>3, KeyTypes
    <3>4. CASE WriteKey(p, "rewrite", "reclaim", "act", "poll")
      BY <3>1, <3>4, KeyTypes
    <3> QED BY <3>2, <3>3, <3>4
  <2> QED BY <1>5, <2>1, <2>2, <2>3, <2>4 DEF Cycle
<1>6. ASSUME NEW p \in Operators, Act(p) PROVE OperatorTypes'
  <2>1. CASE StartRun(p)
    <3> DEFINE run == [cmd |-> prev[p], state |-> "running"]
    <3>1. run \in Runs /\ runs[p] \in Seq(Runs) /\ Len(runs[p]) + 1 \in Nat
      BY LenProperties, FileGrows DEF OperatorTypes, Runs, RunStates
    <3>2. Append(runs[p], run) \in Seq(Runs)
      BY <3>1
    <3>3. runs' = [runs EXCEPT ![p] = Append(runs[p], run)]
      BY <2>1 DEF StartRun
    <3>4. runs' \in [Operators -> Seq(Runs)]
      BY <3>2, <3>3 DEF OperatorTypes
    <3>5. active' \in [Operators -> SUBSET Nat]
      BY <2>1, <3>1 DEF StartRun, OperatorTypes
    <3>6. st' \in [Operators -> States]
      BY <2>1, <1>b DEF StartRun, States
    <3> QED BY <2>1, <3>4, <3>5, <3>6 DEF StartRun, keyVars, procVars, OperatorTypes
  <2>2. CASE Cancel(p) \/ Kill(p) \/ Stop(p)
    <3>1. st' \in [Operators -> States]
      BY <2>2, <1>b DEF Cancel, Kill, Stop, States
    <3>2. Edited(p, {})
      BY <2>2, ControlEdits
    <3>3. UNCHANGED <<file, keyVars, procVars, prev, active>>
      BY <2>2 DEF Cancel, Kill, Stop
    <3> QED BY <1>c, <3>1, <3>2, <3>3 DEF OperatorTypes
  <2>3. CASE Restart(p)
    <3>1. [st EXCEPT ![p] = "poll"] \in [Operators -> States] /\ prev[p] \in Nat /\ "poll" \in States
      BY FileGrows DEF OperatorTypes, States
    <3>2. st' \in [Operators -> States] /\ cause' \in [Operators -> Nat]
      BY <2>3, <1>b, <1>d, <3>1 DEF Restart, OperatorTypes
    <3> QED BY <2>3, <3>2 DEF Restart, keyVars, runVars, OperatorTypes
  <2> QED BY <1>6, <2>1, <2>2, <2>3 DEF Act
<1>7. ASSUME NEW p \in Operators, Halt(p) PROVE OperatorTypes'
  <2>1. CASE StopJoin(p)
    <3>1. PICK i \in DOMAIN runs[p] : Edited(p, {i})
      BY <2>1, UploadsEdit
    <3> QED BY <2>1, <1>c, <3>1 DEF StopJoin, OperatorTypes
  <2>2. CASE StopFails(p)
    BY <2>2, <1>b DEF StopFails, States, keyVars, procVars, runVars, OperatorTypes
  <2>3. CASE StopDone(p)
    BY <2>3, <1>b DEF StopDone, States, keyVars, procVars, OperatorTypes
  <2> QED BY <1>7, <2>1, <2>2, <2>3 DEF Halt
<1>8. ASSUME NEW p \in Operators, NEW i, ChildExits(p, i) PROVE OperatorTypes'
  <2>1. Edited(p, {})
    BY <1>8, ControlEdits
  <2> QED BY <1>8, <1>c, <2>1 DEF ChildExits, OperatorTypes
<1>9. CASE UNCHANGED vars
  BY <1>9 DEF vars, keyVars, procVars, runVars, OperatorTypes
<1> QED BY <1>1, <1>2, <1>3, <1>4, <1>5, <1>6, <1>7, <1>8, <1>9 DEF Next

-----------------------------------------------------------------------------
(* The key.                                                                *)

(* What a step does to the key, the clocks and the operators that are      *)
(* about to write: nothing; or an operator takes its time, reads the key   *)
(* or writes it; or the key file is emptied.                               *)
Boots(p) ==
  /\ st[p] = "spawned" /\ st' = [st EXCEPT ![p] = "claim"]
  /\ started' = [started EXCEPT ![p] = 1 + Cardinality(Up)]
  /\ UNCHANGED <<owner, sha, seen>>
Reads(p) ==
  /\ owner # p /\ Stale(p)
  /\ st[p] \in {"claim", "reclaim"} /\ \E w \in {"write", "rewrite"} : st' = [st EXCEPT ![p] = w]
  /\ seen' = [seen EXCEPT ![p] = sha]
  /\ UNCHANGED <<owner, sha, started>>
Writes(p) ==
  /\ st[p] \in {"write", "rewrite"} /\ sha = seen[p]
  /\ \E s \in {"check", "down", "act", "poll"} : st' = [st EXCEPT ![p] = s]
  /\ owner' = p /\ sha' = sha + 1
  /\ UNCHANGED <<seen, started>>
Empties ==
  /\ owner' = NoOne /\ sha' = sha + 1 /\ resets < MaxResets
  /\ UNCHANGED <<st, seen, started>>
LeavesKey ==
  /\ UNCHANGED <<owner, sha, seen, started>>
  /\ \A q \in Operators :
       /\ st'[q] \in {"none", "spawned"} => st[q] \in {"none", "spawned"}
       /\ st[q] \in {"none", "spawned"} => st'[q] \in {"none", "spawned", "down"}
       /\ st'[q] \in {"write", "rewrite"} => st'[q] = st[q]

LEMMA KeyMoves ==
  ASSUME OperatorTypes, [Next]_vars
  PROVE  LeavesKey \/ Empties \/ \E p \in Operators : Boots(p) \/ Reads(p) \/ Writes(p)
<1>a. st \in [Operators -> States] /\ started \in [Operators -> Nat]
  BY DEF OperatorTypes
<1>b. ASSUME NEW p \in Operators, NEW s \in States \ {"none", "spawned", "write", "rewrite"}, Goto(p, s),
             st[p] \in {"none", "spawned"} => s = "down", UNCHANGED <<owner, sha, seen, started>>
      PROVE  LeavesKey
  BY <1>a, <1>b DEF Goto, LeavesKey
<1>c. ASSUME st' = st, UNCHANGED <<owner, sha, seen, started>> PROVE LeavesKey
  BY <1>c DEF LeavesKey
<1>d. ASSUME NEW p \in Operators, NEW states \in [Operators -> States],
             \A q \in Operators : states[q] # st[q] =>
               states[q] = "poll" /\ st[q] \notin {"none", "spawned"},
             NEW c, Spawn(states, c), UNCHANGED <<owner, sha, seen, started>>
      PROVE  LeavesKey
  BY <1>a, <1>d DEF Spawn, LeavesKey
<1>e. ASSUME NEW p \in Operators, NEW here \in {"claim", "reclaim"}, NEW w \in {"write", "rewrite"},
             NEW held \in {"check", "act"}, NEW failed \in {"down", "poll"},
             ReadKey(p, here, w, held, failed)
      PROVE  LeavesKey \/ Reads(p)
  <2>1. UNCHANGED <<owner, sha, started>>
    BY <1>e DEF ReadKey, keyVars
  <2>2. CASE owner # p /\ Stale(p) /\ Goto(p, w) /\ seen' = [seen EXCEPT ![p] = sha]
    BY <1>e, <2>1, <2>2 DEF ReadKey, Reads, Goto
  <2>3. CASE (Goto(p, held) \/ Goto(p, failed)) /\ UNCHANGED seen
    BY <1>b, <1>e, <2>1, <2>3 DEF ReadKey, States
  <2> QED BY <1>e, <2>2, <2>3 DEF ReadKey
<1>f. ASSUME NEW p \in Operators, NEW w \in {"write", "rewrite"}, NEW read \in {"claim", "reclaim"},
             NEW held \in {"check", "act"}, NEW failed \in {"down", "poll"},
             WriteKey(p, w, read, held, failed)
      PROVE  LeavesKey \/ Writes(p)
  <2>1. UNCHANGED <<seen, started>> /\ st[p] = w
    BY <1>f DEF WriteKey, procVars
  <2>2. CASE sha = seen[p] /\ owner' = p /\ sha' = sha + 1 /\ (Goto(p, held) \/ Goto(p, failed))
    BY <2>1, <2>2 DEF Writes, Goto
  <2>3. CASE Goto(p, read) /\ UNCHANGED <<owner, sha>>
    BY <1>b, <2>1, <2>3 DEF States
  <2> QED BY <1>f, <2>2, <2>3 DEF WriteKey
<1>1. CASE Publish \/ UNCHANGED vars
  BY <1>1, <1>c DEF Publish, vars, keyVars, procVars
<1>2. CASE Launch
  BY <1>2, <1>a DEF Launch, Spawn, keyVars, LeavesKey
<1>3. CASE ResetKeyFile
  BY <1>3 DEF ResetKeyFile, procVars, Empties
<1>4. ASSUME NEW p \in Operators, StartUp(p) PROVE LeavesKey \/ Boots(p) \/ Reads(p) \/ Writes(p)
  <2>1. CASE Boot(p)
    <3>1. CASE Goto(p, "down") /\ UNCHANGED started
      BY <2>1, <3>1, <1>b DEF Boot, keyVars, States
    <3>2. CASE Goto(p, "claim") /\ started' = [started EXCEPT ![p] = 1 + Cardinality({q \in Operators : started[q] > 0})]
      <4> QED BY <2>1, <3>2 DEF Boot, Boots, Up, Goto, keyVars
    <3> QED BY <2>1, <3>1, <3>2 DEF Boot
  <2>2. CASE Claim(p)
    BY <2>2, <1>e DEF Claim
  <2>3. CASE WriteClaim(p)
    BY <2>3, <1>f DEF WriteClaim
  <2>4. CASE RetireCheck(p)
    BY <2>4, <1>b DEF RetireCheck, keyVars, procVars, States
  <2>5. CASE RetireTerm(p) \/ RetireKill(p)
    <3>1. \E s \in {"poll", "kill"} : EndOthers(p, s)
      BY <2>5 DEF RetireTerm, RetireKill
    <3>2. UNCHANGED <<owner, sha, seen, started>>
      BY <2>5 DEF RetireTerm, RetireKill, keyVars, procVars
    <3>3. st[p] \notin {"none", "spawned"}
      BY <2>5 DEF RetireTerm, RetireKill
    <3> QED BY <3>1, <3>2, <3>3 DEF EndOthers, LeavesKey
  <2> QED BY <1>4, <2>1, <2>2, <2>3, <2>4, <2>5 DEF StartUp
<1>5. ASSUME NEW p \in Operators, Cycle(p) PROVE LeavesKey \/ Reads(p) \/ Writes(p)
  <2>1. CASE Finalize(p)
    BY <2>1, <1>c DEF Finalize, keyVars, procVars
  <2>2. CASE Poll(p)
    BY <2>2, <1>b DEF Poll, keyVars, procVars, States
  <2>3. CASE CheckKey(p)
    BY <2>3, <1>b DEF CheckKey, keyVars, procVars, States
  <2>4. CASE Reclaim(p)
    BY <2>4, <1>e DEF Reclaim
  <2>5. CASE WriteReclaim(p)
    BY <2>5, <1>f DEF WriteReclaim
  <2> QED BY <1>5, <2>1, <2>2, <2>3, <2>4, <2>5 DEF Cycle
<1>6. ASSUME NEW p \in Operators, Act(p) PROVE LeavesKey
  <2>1. CASE StartRun(p) \/ Cancel(p) \/ Kill(p) \/ Stop(p)
    BY <2>1, <1>b DEF StartRun, Cancel, Kill, Stop, keyVars, procVars, States
  <2>2. CASE Restart(p)
    <3>1. UNCHANGED <<owner, sha, seen, started>>
      BY <2>2 DEF Restart, keyVars
    <3>2. CASE Spawn([st EXCEPT ![p] = "poll"], prev[p])
      <4>1. /\ [st EXCEPT ![p] = "poll"] \in [Operators -> States]
            /\ \A q \in Operators : [st EXCEPT ![p] = "poll"][q] # st[q] =>
                 [st EXCEPT ![p] = "poll"][q] = "poll" /\ st[q] \notin {"none", "spawned"}
        BY <1>a, <2>2 DEF Restart, States
      <4> QED BY <1>d, <3>1, <3>2, <4>1
    <3> QED BY <2>2, <1>b, <3>1, <3>2 DEF Restart, States
  <2> QED BY <1>6, <2>1, <2>2 DEF Act
<1>7. ASSUME NEW p \in Operators, Halt(p) PROVE LeavesKey
  BY <1>7, <1>b, <1>c DEF Halt, StopJoin, StopFails, StopDone, keyVars, procVars, States
<1>8. ASSUME NEW p \in Operators, NEW i, ChildExits(p, i) PROVE LeavesKey
  BY <1>8, <1>c DEF ChildExits, keyVars, procVars
<1> QED BY <1>1, <1>2, <1>3, <1>4, <1>5, <1>6, <1>7, <1>8 DEF Next

LEMMA KeyStep ==
  ASSUME OperatorTypes, KeyInv, [Next]_vars
  PROVE  KeyInv'
<1>a. /\ st \in [Operators -> States] /\ started \in [Operators -> Nat] /\ seen \in [Operators -> Nat]
      /\ sha \in Nat /\ NoOne \notin Operators
  BY OperatorsAreNumbers DEF OperatorTypes
<1>1. CASE LeavesKey
  BY <1>1 DEF LeavesKey, KeyInv, Stale
<1>2. CASE Empties
  BY <1>a, <1>2 DEF Empties, KeyInv, Stale
<1>3. ASSUME NEW p \in Operators, Boots(p) PROVE KeyInv'
  BY <1>a, <1>3 DEF Boots, KeyInv, Stale
<1>4. ASSUME NEW p \in Operators, Reads(p) PROVE KeyInv'
  BY <1>a, <1>4 DEF Reads, KeyInv, Stale
<1>5. ASSUME NEW p \in Operators, Writes(p) PROVE KeyInv'
  BY <1>a, <1>5 DEF Writes, KeyInv, Stale
<1> QED BY <1>1, <1>2, <1>3, <1>4, <1>5, KeyMoves

-----------------------------------------------------------------------------
(* Commands and runs.                                                      *)

(* What a step does to the place of an operator that does not take a       *)
(* command.                                                                *)
Stays(q) ==
  /\ prev'[q] = prev[q]
  /\ st'[q] \in InHand => st[q] \in InHand
  /\ st'[q] \in {"key", "reclaim", "rewrite"} => st[q] \in {"key", "reclaim", "rewrite"}
  /\ st'[q] = "stopping" => st[q] = "stopping" \/ (st[q] = "act" /\ Kind(prev[q]) = "STOP")
  /\ st'[q] = "stopped" => st[q] = "stopped" \/ StopDone(q)
  /\ st'[q] = "none" => st[q] = "none"
  /\ st[q] \in {"stopped", "down"} => st'[q] = st[q]
  /\ st'[q] \in {"term", "kill", "act"} => st'[q] = st[q] \/ st[q] = "term" \/ owner' = q
  /\ ~ExitOnMismatch /\ st[q] \in Settled =>
       st'[q] \in Settled \/ st'[q] = "stopping" \/ \E p \in Operators : st'[p] \in Settled

LEMMA PlaceMoves ==
  ASSUME OperatorTypes, [Next]_vars, NEW q \in Operators
  PROVE  Stays(q) \/ Poll(q)
<1>a. st \in [Operators -> States]
  BY DEF OperatorTypes
<1> USE DEF InHand, Settled
<1>b. ASSUME NEW p \in Operators, NEW s, Goto(p, s), prev' = prev, st[p] \notin {"none", "stopped", "down"},
             \/ s \in {"claim", "check", "write", "term", "poll", "act"}
             \/ s = "down" /\ (st[p] \notin Settled \/ ExitOnMismatch)
             \/ s \in {"reclaim", "rewrite"} /\ st[p] \in {"key", "reclaim", "rewrite"}
             \/ s = "stopping" /\ st[p] = "act" /\ Kind(prev[p]) = "STOP"
             \/ s = "stopped" /\ st[p] \notin Settled /\ StopDone(p),
             s = "act" => st[p] \in InHand, s \in {"term", "act"} => owner' = p,
             s \in {"claim", "check", "write"} => st[p] \notin Settled
      PROVE  Stays(q)
  <2>1. CASE q # p
    BY <1>a, <1>b, <2>1 DEF Goto, Stays
  <2>2. CASE q = p
    BY <1>a, <1>b, <2>2 DEF Goto, Stays
  <2> QED BY <2>1, <2>2
<1>c. ASSUME st' = st, prev' = prev PROVE Stays(q)
  BY <1>c DEF Stays
<1>1. CASE Publish \/ ResetKeyFile \/ UNCHANGED vars
  BY <1>1, <1>c DEF Publish, ResetKeyFile, vars
<1>2. CASE Launch
  BY <1>2, <1>a DEF Launch, Spawn, Stays
<1>3. ASSUME NEW p \in Operators, StartUp(p) PROVE Stays(q)
  <2>1. CASE Boot(p)
    BY <2>1, <1>b DEF Boot
  <2>2. CASE Claim(p)
    BY <2>2, <1>b DEF Claim, ReadKey
  <2>3. CASE WriteClaim(p)
    BY <2>3, <1>b DEF WriteClaim, WriteKey
  <2>4. CASE RetireCheck(p)
    BY <2>4, <1>b DEF RetireCheck, keyVars
  <2>5. CASE RetireTerm(p) \/ RetireKill(p)
    <3>1. st[p] \in {"term", "kill"} /\ prev' = prev /\ \E s \in {"poll", "kill"} : EndOthers(p, s)
      BY <2>5 DEF RetireTerm, RetireKill
    <3>2. st'[p] \in {"poll", "kill"} /\ \A r \in Operators \ {p} : st'[r] = st[r] \/ (Live(r) /\ st'[r] = "down")
      BY <3>1 DEF EndOthers, Others
    <3> QED BY <3>1, <3>2 DEF Stays, Live
  <2> QED BY <1>3, <2>1, <2>2, <2>3, <2>4, <2>5 DEF StartUp
<1>4. ASSUME NEW p \in Operators, Cycle(p) PROVE Stays(q) \/ Poll(q)
  <2>1. CASE Finalize(p)
    BY <2>1, <1>c DEF Finalize
  <2>2. CASE Poll(p)
    <3>1. CASE q # p
      <4>1. prev'[q] = prev[q] /\ st'[q] = st[q]
        BY <1>a, <2>2, <3>1 DEF Poll, Goto, OperatorTypes
      <4> QED BY <4>1 DEF Stays
    <3> QED BY <2>2, <3>1
  <2>3. CASE CheckKey(p)
    BY <2>3, <1>b DEF CheckKey, keyVars
  <2>4. CASE Reclaim(p)
    BY <2>4, <1>b DEF Reclaim, ReadKey, keyVars
  <2>5. CASE WriteReclaim(p)
    BY <2>5, <1>b DEF WriteReclaim, WriteKey
  <2> QED BY <1>4, <2>1, <2>2, <2>3, <2>4, <2>5 DEF Cycle
<1>5. ASSUME NEW p \in Operators, Act(p) PROVE Stays(q)
  <2>1. CASE StartRun(p) \/ Cancel(p) \/ Kill(p)
    BY <2>1, <1>b DEF StartRun, Cancel, Kill
  <2>2. CASE Stop(p)
    BY <2>2, <1>b DEF Stop
  <2>3. CASE Restart(p)
    <3>1. CASE Goto(p, "poll")
      BY <2>3, <3>1, <1>b DEF Restart
    <3>2. CASE Spawn([st EXCEPT ![p] = "poll"], prev[p])
      <4>1. /\ st[p] = "act" /\ prev' = prev
            /\ \A r \in Operators : [st EXCEPT ![p] = "poll"][r] = IF r = p THEN "poll" ELSE st[r]
        BY <1>a, <2>3 DEF Restart
      <4>2. \E r \in Operators \ {p} : st[r] = "none" /\ \A s \in Operators :
               st'[s] = IF s = r THEN "spawned" ELSE IF s = p THEN "poll" ELSE st[s]
        BY <1>a, <3>2, <4>1 DEF Spawn
      <4> QED BY <4>1, <4>2 DEF Stays
    <3> QED BY <2>3, <3>1, <3>2 DEF Restart
  <2> QED BY <1>5, <2>1, <2>2, <2>3 DEF Act
<1>6. ASSUME NEW p \in Operators, Halt(p) PROVE Stays(q)
  <2>1. CASE StopJoin(p)
    BY <2>1, <1>c DEF StopJoin
  <2>2. CASE StopFails(p)
    BY <2>2, <1>b DEF StopFails
  <2>3. CASE StopDone(p)
    <3>1. Goto(p, "stopped") /\ prev' = prev /\ st[p] = "stopping"
      BY <2>3 DEF StopDone
    <3> QED BY <2>3, <3>1, <1>b
  <2> QED BY <1>6, <2>1, <2>2, <2>3 DEF Halt
<1>7. ASSUME NEW p \in Operators, NEW i, ChildExits(p, i) PROVE Stays(q)
  BY <1>7, <1>c DEF ChildExits
<1> QED BY <1>1, <1>2, <1>3, <1>4, <1>5, <1>6, <1>7 DEF Next

LEMMA UpIsFinite == IsFiniteSet(Up) /\ Cardinality(Up) \in Nat
<1>1. IsFiniteSet(Operators)
  BY OperatorAssumption, FS_Interval DEF Operators
<1>2. IsFiniteSet(Up)
  BY <1>1, FS_Subset DEF Up
<1> QED BY <1>2, FS_CardinalityType

LEMMA ClockStep ==
  ASSUME OperatorTypes, ClockInv, [Next]_vars
  PROVE  ClockInv'
<1>a. /\ st \in [Operators -> States] /\ started \in [Operators -> Nat] /\ Cardinality(Up) \in Nat
  BY UpIsFinite DEF OperatorTypes
<1>1. ASSUME started' = started,
             \A q \in Operators :
               /\ st'[q] \in {"none", "spawned"} => st[q] \in {"none", "spawned"}
               /\ st[q] \in {"none", "spawned"} => st'[q] \in {"none", "spawned", "down"}
      PROVE  ClockInv'
  <2>1. Up' = Up
    BY <1>1 DEF Up
  <2>2. \A q \in Operators : st'[q] \notin {"none", "spawned", "down"} => st[q] # "down"
    BY PlaceMoves DEF Stays, Poll
  <2> QED BY <1>1, <2>1, <2>2 DEF ClockInv
<1>2. CASE LeavesKey
  BY <1>1, <1>2 DEF LeavesKey
<1>3. CASE Empties
  BY <1>1, <1>3 DEF Empties
<1>4. ASSUME NEW p \in Operators, Reads(p) \/ Writes(p) PROVE ClockInv'
  BY <1>1, <1>a, <1>4 DEF Reads, Writes
<1>5. ASSUME NEW p \in Operators, Boots(p) PROVE ClockInv'
  <2>1. started[p] = 0 /\ p \notin Up
    BY <1>5, <1>a DEF ClockInv, Boots, Up
  <2>2. started'[p] = 1 + Cardinality(Up) /\ \A q \in Operators \ {p} : started'[q] = started[q]
    BY <1>5, <1>a DEF Boots
  <2>3. Up' = Up \union {p}
    BY <1>a, <2>1, <2>2 DEF Up
  <2>4. Cardinality(Up') = Cardinality(Up) + 1
    BY <2>1, <2>3, UpIsFinite, FS_AddElement
  <2>5. st'[p] = "claim" /\ \A q \in Operators \ {p} : st'[q] = st[q]
    BY <1>5, <1>a DEF Boots
  <2>6. Cardinality(Up)' = Cardinality(Up) + 1
    BY <2>4
  <2> QED BY <1>a, <2>2, <2>5, <2>6 DEF ClockInv
<1> QED BY <1>2, <1>3, <1>4, <1>5, KeyMoves

LEMMA CommandStep ==
  ASSUME OperatorTypes, CommandInv, [Next]_vars
  PROVE  CommandInv'
<1>a. /\ DOMAIN file \subseteq DOMAIN file' /\ \A c \in DOMAIN file : Kind(c)' = Kind(c)
      /\ DOMAIN file = 1 .. Len(file) /\ Len(file) \in Nat
  BY FileGrows DEF Kind
<1> SUFFICES ASSUME NEW q \in Operators
             PROVE  /\ st'[q] \in InHand => prev'[q] \in DOMAIN file'
                    /\ st'[q] \in {"key", "reclaim", "rewrite"} => Kind(prev[q])' \notin Control
                    /\ st'[q] = "stopping" => Kind(prev[q])' = "STOP"
  BY DEF CommandInv
<1>1. CASE Poll(q)
  <2> DEFINE c == Len(file)
  <2>1. c \in DOMAIN file /\ prev'[q] = c /\ st'[q] = IF Kind(c) \in Control THEN "act" ELSE "key"
    BY <1>1, <1>a, EmptySeq DEF Poll, Goto, OperatorTypes
  <2> QED BY <1>a, <2>1 DEF InHand, Kind
<1>2. CASE Stays(q)
  <2>1. st[q] \in InHand => Kind(prev[q])' = Kind(prev[q]) /\ prev[q] \in DOMAIN file /\ prev'[q] = prev[q]
    BY <1>2, <1>a DEF CommandInv, Stays, Kind
  <2> QED BY <1>2, <1>a, <2>1 DEF CommandInv, Stays, InHand
<1> QED BY <1>1, <1>2, PlaceMoves

(* What a step does to the runs.                                           *)
LEMMA RunsMove ==
  ASSUME OperatorTypes, RunsInv, [Next]_vars
  PROVE  \/ UNCHANGED <<runs, active>>
         \/ \E p \in Operators :
              \/ Edited(p, {}) /\ active' = active
              \/ \E i \in DOMAIN runs[p] : Edited(p, {i}) /\ active' = [active EXCEPT ![p] = @ \ {i}]
              \/ st[p] = "stopping" /\ \E i \in DOMAIN runs[p] : Edited(p, {i}) /\ active' = active
              \/ StartRun(p) \/ StopDone(p)
<1>1. CASE Publish \/ Launch \/ ResetKeyFile \/ UNCHANGED vars
  BY <1>1 DEF Publish, Launch, ResetKeyFile, vars, runVars
<1>2. ASSUME NEW p \in Operators, StartUp(p) PROVE UNCHANGED <<runs, active>>
  BY <1>2 DEF StartUp, Boot, Claim, WriteClaim, ReadKey, WriteKey, RetireCheck, RetireTerm, RetireKill, runVars
<1>3. ASSUME NEW p \in Operators, Cycle(p)
      PROVE  \/ UNCHANGED <<runs, active>>
             \/ \E i \in DOMAIN runs[p] : Edited(p, {i}) /\ active' = [active EXCEPT ![p] = @ \ {i}]
  <2>1. CASE Finalize(p)
    BY <2>1, UploadsEdit
  <2>2. CASE ~Finalize(p)
    BY <1>3, <2>2 DEF Cycle, Poll, CheckKey, Reclaim, WriteReclaim, ReadKey, WriteKey, runVars
  <2> QED BY <2>1, <2>2
<1>4. ASSUME NEW p \in Operators, Act(p)
      PROVE  UNCHANGED <<runs, active>> \/ (Edited(p, {}) /\ active' = active) \/ StartRun(p)
  <2>1. CASE Cancel(p) \/ Stop(p) \/ Kill(p)
    <3>1. active' = active
      BY <2>1 DEF Cancel, Stop, Kill
    <3> QED BY <2>1, <3>1, ControlEdits
  <2>2. CASE Restart(p)
    BY <2>2 DEF Restart, runVars
  <2> QED BY <1>4, <2>1, <2>2 DEF Act
<1>5. ASSUME NEW p \in Operators, Halt(p)
      PROVE  \/ UNCHANGED <<runs, active>> \/ StopDone(p)
             \/ st[p] = "stopping" /\ \E i \in DOMAIN runs[p] : Edited(p, {i}) /\ active' = active
  <2>1. CASE StopJoin(p)
    BY <2>1, UploadsEdit DEF StopJoin
  <2>2. CASE StopFails(p)
    BY <2>2 DEF StopFails, runVars
  <2> QED BY <1>5, <2>1, <2>2 DEF Halt
<1>6. ASSUME NEW p \in Operators, NEW i, ChildExits(p, i) PROVE Edited(p, {}) /\ active' = active
  BY <1>6, ControlEdits DEF ChildExits
<1> QED BY <1>1, <1>2, <1>3, <1>4, <1>5, <1>6 DEF Next

(* A run that is started is of a command newer than all before.            *)
LEMMA StartRunAppends ==
  ASSUME OperatorTypes, CommandInv, RunsInv, NEW p \in Operators, StartRun(p)
  PROVE  /\ Len(runs[p]) \in Nat /\ DOMAIN runs[p] = 1 .. Len(runs[p])
         /\ DOMAIN runs'[p] = DOMAIN runs[p] \union {Len(runs[p]) + 1}
         /\ \A i \in DOMAIN runs[p] : runs'[p][i] = runs[p][i] /\ runs[p][i].cmd < prev[p]
         /\ runs'[p][Len(runs[p]) + 1].cmd = prev[p] /\ runs'[p][Len(runs[p]) + 1].state = "running"
         /\ active'[p] = active[p] \union {Len(runs[p]) + 1}
         /\ \A q \in Operators \ {p} : runs'[q] = runs[q] /\ active'[q] = active[q]
         /\ st'[p] = "poll" /\ prev' = prev
<1>1. /\ runs[p] \in Seq(Runs) /\ Len(runs[p]) \in Nat /\ DOMAIN runs[p] = 1 .. Len(runs[p])
      /\ prev[p] \in Nat
  BY SequencesOfRuns DEF OperatorTypes
<1> DEFINE run == [cmd |-> prev[p], state |-> "running"]
<1>2. runs'[p] = Append(runs[p], run) /\ \A q \in Operators \ {p} : runs'[q] = runs[q]
  BY DEF StartRun, OperatorTypes
<1>3. run \in Runs
  BY <1>1 DEF Runs, RunStates
<1>4. /\ DOMAIN runs'[p] = 1 .. Len(runs[p]) + 1 /\ runs'[p][Len(runs[p]) + 1] = run
      /\ \A i \in DOMAIN runs[p] : runs'[p][i] = runs[p][i]
  BY <1>1, <1>2, <1>3
<1>5. \A i \in DOMAIN runs[p] : runs[p][i].cmd < prev[p] /\ runs[p][i].cmd \in Nat
  <2>1. st[p] \in InHand /\ Kind(prev[p]) = "run"
    BY DEF StartRun, InHand
  <2> QED BY <1>1, <2>1, SequencesOfRuns DEF RunsInv, Runs
<1>6. {i \in active[p] : runs[p][i].cmd # prev[p]} = active[p]
  BY <1>1, <1>5 DEF RunsInv
<1>7. /\ active'[p] = active[p] \union {Len(runs[p]) + 1}
      /\ \A q \in Operators \ {p} : active'[q] = active[q]
  BY <1>6 DEF StartRun, OperatorTypes
<1>8. st'[p] = "poll" /\ prev' = prev
  BY DEF StartRun, Goto, OperatorTypes
<1> QED BY <1>1, <1>2, <1>4, <1>5, <1>7, <1>8

LEMMA RunsStep ==
  ASSUME OperatorTypes, CommandInv, RunsInv, [Next]_vars
  PROVE  RunsInv'
<1> DEFINE
     Fit(q) == /\ st[q] = "none" => runs[q] = <<>>
               /\ active[q] \subseteq DOMAIN runs[q]
     Older(q) == \A i \in DOMAIN runs[q] :
                   /\ runs[q][i].cmd <= prev[q]
                   /\ st[q] \in InHand /\ Kind(prev[q]) = "run" => runs[q][i].cmd < prev[q]
<1>a. /\ runs \in [Operators -> Seq(Runs)] /\ prev \in [Operators -> 0 .. Len(file)] /\ Len(file) \in Nat
      /\ active \in [Operators -> SUBSET Nat]
      /\ DOMAIN file = 1 .. Len(file) /\ \A c \in DOMAIN file : Kind(c)' = Kind(c)
      /\ \A q \in Operators : Fit(q) /\ Older(q)
  BY FileGrows DEF OperatorTypes, RunsInv, Kind
<1>b. \A q \in Operators : \A i \in DOMAIN runs[q] : runs[q][i].cmd \in Nat /\ i \in Nat
  BY <1>a, SequencesOfRuns DEF Runs
<1> SUFFICES ASSUME NEW q \in Operators PROVE Fit(q)' /\ Older(q)'
  BY DEF RunsInv
<1>1. Fit(q)'
  <2>1. st'[q] = "none" => st[q] = "none"
    BY PlaceMoves DEF Stays, Poll, Goto, OperatorTypes
  <2>2. CASE UNCHANGED <<runs, active>>
    BY <1>a, <2>1, <2>2
  <2>3. ASSUME NEW p \in Operators, NEW up, Edited(p, up), active'[q] \subseteq active[q] PROVE Fit(q)'
    <3>1. DOMAIN runs'[q] = DOMAIN runs[q] /\ runs'[q] \in Seq(Runs)
      BY <2>3 DEF Edited
    <3>2. runs[q] = <<>> => runs'[q] = <<>>
      <4>1. runs[q] = <<>> => DOMAIN runs[q] = {}
        OBVIOUS
      <4>2. DOMAIN runs'[q] = {} => runs'[q] = <<>>
        <5>1. DOMAIN runs'[q] = 1 .. Len(runs'[q]) /\ Len(runs'[q]) \in Nat
          BY <3>1, LenProperties
        <5>2. runs'[q] # <<>> => Len(runs'[q]) # 0
          BY <3>1, EmptySeq
        <5>3. Len(runs'[q]) # 0 => 1 \in DOMAIN runs'[q]
          BY <5>1
        <5> QED BY <5>2, <5>3
      <4> QED BY <3>1, <4>1, <4>2
    <3> QED BY <1>a, <2>1, <2>3, <3>1, <3>2
  <2>4. ASSUME NEW p \in Operators, StartRun(p) PROVE Fit(q)'
    <3>1. CASE q = p
      BY <1>a, <2>4, <3>1, StartRunAppends
    <3>2. CASE q # p
      BY <1>a, <2>1, <2>4, <3>2, StartRunAppends
    <3> QED BY <3>1, <3>2
  <2>5. ASSUME NEW p \in Operators, StopDone(p) PROVE Fit(q)'
    BY <1>a, <2>1, <2>5 DEF StopDone
  <2>6. ASSUME NEW p \in Operators, NEW i, active' = [active EXCEPT ![p] = @ \ {i}] PROVE active'[q] \subseteq active[q]
    BY <1>a, <2>6
  <2> QED BY <2>2, <2>3, <2>4, <2>5, <2>6, RunsMove
<1>2. ASSUME UNCHANGED runs \/ \E p \in Operators : \E up : Edited(p, up) PROVE Older(q)'
  <2>1. DOMAIN runs'[q] = DOMAIN runs[q] /\ \A i \in DOMAIN runs[q] : runs'[q][i].cmd = runs[q][i].cmd
    BY <1>2 DEF Edited
  <2>2. CASE Stays(q)
    <3>1. prev'[q] = prev[q] /\ (st'[q] \in InHand => st[q] \in InHand)
      BY <2>2 DEF Stays
    <3>2. st[q] \in InHand => Kind(prev[q])' = Kind(prev[q])
      BY <1>a, <3>1 DEF CommandInv, Kind
    <3>3. Older(q)
      BY <1>a
    <3> QED BY <2>1, <3>1, <3>2, <3>3 DEF Kind
  <2>3. CASE Poll(q)
    <3>1. prev'[q] = Len(file) /\ (prev[q] # Len(file) \/ Kind(Len(file)) = "STOP") /\ file' = file
      BY <1>a, <2>3 DEF Poll
    <3>2. /\ prev[q] \in 0 .. Len(file) /\ Len(file) \in Nat
          /\ \A i \in DOMAIN runs[q] : runs[q][i].cmd <= prev[q] /\ runs[q][i].cmd \in Nat
      BY <1>a, <1>b
    <3>3. Kind(prev[q])' = Kind(Len(file))
      BY <3>1 DEF Kind
    <3>4. ASSUME NEW i \in DOMAIN runs'[q]
          PROVE  runs'[q][i].cmd <= prev'[q] /\ (Kind(prev[q])' = "run" => runs'[q][i].cmd < prev'[q])
      BY <2>1, <3>1, <3>2, <3>3
    <3> QED BY <3>4
  <2> QED BY <2>2, <2>3, PlaceMoves
<1>3. ASSUME NEW p \in Operators, StartRun(p) PROVE Older(q)'
  <2>1. CASE q = p
    <3>1. /\ st'[p] = "poll" /\ prev' = prev
          /\ \A i \in DOMAIN runs'[p] : runs'[p][i].cmd <= prev[p]
      <4> DEFINE n == Len(runs[p])
      <4>1. /\ DOMAIN runs'[p] = DOMAIN runs[p] \union {n + 1} /\ runs'[p][n + 1].cmd = prev[p]
            /\ \A i \in DOMAIN runs[p] : runs'[p][i] = runs[p][i] /\ runs[p][i].cmd < prev[p]
            /\ st'[p] = "poll" /\ prev' = prev
        BY <1>3, StartRunAppends
      <4>2. prev[p] \in Nat /\ \A i \in DOMAIN runs[p] : runs[p][i].cmd \in Nat
        BY <1>a, <1>b
      <4> HIDE DEF n
      <4> QED BY <4>1, <4>2
    <3> QED BY <2>1, <3>1 DEF InHand
  <2>2. CASE q # p
    <3>1. runs'[q] = runs[q] /\ prev'[q] = prev[q] /\ st'[q] = st[q] /\ file' = file
      BY <1>3, <2>2, StartRunAppends DEF StartRun, Goto, OperatorTypes
    <3> QED BY <1>a, <3>1 DEF Kind
  <2> QED BY <2>1, <2>2
<1>4. ASSUME NEW p \in Operators, StopDone(p) PROVE UNCHANGED runs
  BY <1>4 DEF StopDone
<1> QED BY <1>1, <1>2, <1>3, <1>4, RunsMove

LEMMA AccountsStep ==
  ASSUME OperatorTypes, CommandInv, RunsInv, RunsAreAccountedFor, StopLeavesNothing, [Next]_vars
  PROVE  RunsAreAccountedFor' /\ StopLeavesNothing'
<1> DEFINE
     Kept(q) == Live(q) => \A i \in DOMAIN runs[q] : runs[q][i].state # "uploaded" => i \in active[q]
     Once(q) == \A i, j \in DOMAIN runs[q] : runs[q][i].cmd = runs[q][j].cmd => i = j
     Clean(q) == st[q] = "stopped" => \A i \in DOMAIN runs[q] : runs[q][i].state = "uploaded"
<1>a. /\ st \in [Operators -> States] /\ active \in [Operators -> SUBSET Nat] /\ runs \in [Operators -> Seq(Runs)]
      /\ \A q \in Operators : Kept(q) /\ Once(q) /\ Clean(q)
      /\ \A q \in Operators : active[q] \subseteq DOMAIN runs[q] /\ (st[q] = "none" => runs[q] = <<>>)
  BY DEF OperatorTypes, RunsAreAccountedFor, StopLeavesNothing, RunsInv
<1> SUFFICES ASSUME NEW q \in Operators PROVE Kept(q)' /\ Once(q)' /\ Clean(q)'
  BY DEF RunsAreAccountedFor, StopLeavesNothing
<1>b. /\ Live(q)' => Live(q) \/ st[q] = "none"
      /\ st'[q] = "stopped" => st[q] = "stopped" \/ StopDone(q)
  BY <1>a, PlaceMoves DEF Stays, Live, Poll, Goto
<1>c. st[q] = "none" => DOMAIN runs[q] = {}
  BY <1>a
<1>d. ASSUME StopDone(q) PROVE \A i \in DOMAIN runs[q] : runs[q][i].state = "uploaded"
  BY <1>a, <1>d DEF StopDone, Live, Unfinished
<1>1. CASE UNCHANGED <<runs, active>>
  BY <1>1, <1>a, <1>b, <1>c, <1>d DEF Live
<1>2. ASSUME NEW p \in Operators, NEW up, Edited(p, up),
             \A i \in active[q] : i \in active'[q] \/ (q = p /\ i \in up)
      PROVE  Kept(q)' /\ Once(q)' /\ Clean(q)'
  <2>1. /\ DOMAIN runs'[q] = DOMAIN runs[q]
        /\ \A i \in DOMAIN runs[q] :
             /\ runs'[q][i].cmd = runs[q][i].cmd
             /\ runs'[q][i].state = "uploaded" <=> runs[q][i].state = "uploaded" \/ (q = p /\ i \in up)
    BY <1>2 DEF Edited
  <2>2. Once(q)'
    BY <1>a, <2>1
  <2>3. Kept(q)'
    BY <1>a, <1>b, <1>c, <1>2, <2>1
  <2>4. Clean(q)'
    BY <1>a, <1>b, <1>d, <2>1
  <2> QED BY <2>2, <2>3, <2>4
<1>3. ASSUME NEW p \in Operators, StartRun(p) PROVE Kept(q)' /\ Once(q)' /\ Clean(q)'
  <2>1. CASE q = p
    <3>1. st[p] = "act" /\ Live(p) /\ st'[p] = "poll"
      BY <1>3, StartRunAppends DEF StartRun, Live
    <3> DEFINE n == Len(runs[p])
    <3>2. /\ n \in Nat /\ DOMAIN runs[p] = 1 .. n /\ DOMAIN runs'[p] = DOMAIN runs[p] \union {n + 1}
          /\ \A i \in DOMAIN runs[p] : runs'[p][i] = runs[p][i] /\ runs[p][i].cmd < prev[p]
          /\ runs'[p][n + 1].cmd = prev[p] /\ runs'[p][n + 1].state = "running"
          /\ active'[p] = active[p] \union {n + 1}
      BY <1>3, StartRunAppends
    <3>3. prev[p] \in Nat /\ \A i \in DOMAIN runs[p] : runs[p][i].cmd \in Nat
      <4>1. prev[p] \in Nat /\ runs[p] \in Seq(Runs)
        BY DEF OperatorTypes
      <4> QED BY <4>1, SequencesOfRuns DEF Runs
    <3> HIDE DEF n
    <3>4. \A i \in DOMAIN runs[p] : runs'[p][i].cmd # prev[p]
      BY <3>2, <3>3
    <3>5. Once(q)'
      BY <1>a, <2>1, <3>2, <3>4
    <3>6. Kept(q)'
      BY <1>a, <2>1, <3>1, <3>2
    <3> QED BY <2>1, <3>1, <3>5, <3>6
  <2>2. CASE q # p
    <3>1. runs'[q] = runs[q] /\ active'[q] = active[q] /\ st'[q] = st[q]
      BY <1>3, <2>2, StartRunAppends DEF StartRun, Goto, OperatorTypes
    <3> QED BY <1>a, <3>1 DEF Live
  <2> QED BY <2>1, <2>2
<1>4. ASSUME NEW p \in Operators, StopDone(p) PROVE Kept(q)' /\ Once(q)' /\ Clean(q)'
  <2>1. runs' = runs /\ st' = [st EXCEPT ![p] = "stopped"] /\ active' = [active EXCEPT ![p] = {}]
    BY <1>4 DEF StopDone, Goto
  <2>2. CASE q = p
    <3>1. st'[q] = "stopped"
      BY <1>a, <2>1, <2>2
    <3> QED BY <1>a, <1>4, <1>d, <2>1, <2>2, <3>1 DEF Live
  <2>3. CASE q # p
    BY <1>a, <2>1, <2>3 DEF Live
  <2> QED BY <2>2, <2>3
<1>5. ASSUME NEW p \in Operators, NEW i, active' = [active EXCEPT ![p] = @ \ {i}]
      PROVE  \A j \in active[q] : j \in active'[q] \/ (q = p /\ j \in {i})
  BY <1>a, <1>5
<1> QED BY <1>1, <1>2, <1>3, <1>4, <1>5, RunsMove

(* Whoever ends a settled operator is settled itself.                      *)
LEMMA SettledStep ==
  ASSUME OperatorTypes, CommandInv, SomeoneSettled, [Next]_vars
  PROVE  SomeoneSettled'
<1> SUFFICES ASSUME ~ExitOnMismatch, NEW q \in Operators, prev'[q] # 0,
                    \A c \in DOMAIN file' : Kind(c)' # "STOP"
             PROVE  \E p \in Operators : st'[p] \in Settled
  BY DEF SomeoneSettled
<1>1. \A c \in DOMAIN file : Kind(c) # "STOP"
  BY FileGrows DEF Kind
<1>2. CASE Poll(q)
  BY <1>2 DEF Poll, Goto, Settled, OperatorTypes
<1>3. CASE Stays(q)
  <2>1. PICK p \in Operators : st[p] \in Settled
    BY <1>1, <1>3 DEF SomeoneSettled, Stays
  <2>2. st'[p] # "stopping"
    <3>1. CASE st'[p] = "stopping" /\ Stays(p)
      BY <1>1, <2>1, <3>1 DEF Stays, CommandInv, InHand, Settled
    <3>2. CASE Poll(p)
      BY <3>2 DEF Poll, Goto, OperatorTypes
    <3> QED BY <3>1, <3>2, PlaceMoves
  <2>3. CASE Stays(p)
    BY <2>1, <2>2, <2>3 DEF Stays
  <2>4. CASE Poll(p)
    BY <2>4 DEF Poll, Goto, Settled, OperatorTypes
  <2> QED BY <2>3, <2>4, PlaceMoves
<1> QED BY <1>2, <1>3, PlaceMoves

-----------------------------------------------------------------------------
(* The operators keep their invariant, whatever the repository answers.    *)
THEOREM OperatorInductive == Spec => []OperatorInv
<1>1. Init => OperatorInv
  <2> SUFFICES ASSUME Init PROVE OperatorInv
    OBVIOUS
  <2>1. OperatorTypes
    BY EmptySeq DEF Init, OperatorTypes, States
  <2>2. KeyInv /\ ClockInv /\ CommandInv /\ SomeoneSettled /\ StopLeavesNothing
    BY OperatorsAreNumbers, UpIsFinite DEF Init, KeyInv, ClockInv, CommandInv, InHand, SomeoneSettled, StopLeavesNothing
  <2>3. RunsInv /\ RunsAreAccountedFor
    BY DEF Init, RunsInv, RunsAreAccountedFor, Live
  <2> QED BY <2>1, <2>2, <2>3 DEF OperatorInv
<1>2. OperatorInv /\ [Next]_vars => OperatorInv'
  BY TypesStep, KeyStep, ClockStep, CommandStep, RunsStep, AccountsStep, SettledStep DEF OperatorInv
<1> QED BY <1>1, <1>2, PTL DEF Spec

(* The key passes to operators that started later only, whoever claims it  *)
(* when, and whenever the file was read.                                   *)
THEOREM KeyGoesToTheYounger == Spec => KeyPassesToNewer
<1>1. OperatorInv /\ [Next]_vars =>
        [owner' # owner /\ owner # NoOne /\ owner' # NoOne => started[owner] < started[owner']]_vars
  <2> SUFFICES ASSUME OperatorInv, [Next]_vars, owner' # owner, owner # NoOne, owner' # NoOne
               PROVE  started[owner] < started[owner']
    OBVIOUS
  <2>1. PICK p \in Operators : Writes(p)
    BY KeyMoves DEF OperatorInv, LeavesKey, Empties, Boots, Reads
  <2>2. Stale(p) /\ owner' = p /\ owner \in Operators
    BY <2>1 DEF Writes, OperatorInv, KeyInv, OperatorTypes
  <2>3. started[owner] \in Nat /\ started[p] \in Nat
    BY <2>2 DEF OperatorInv, OperatorTypes
  <2> QED BY <2>2, <2>3 DEF Stale
<1> QED BY <1>1, OperatorInductive, PTL DEF Spec, KeyPassesToNewer

(* No run is forgotten by its operator, and no command is run twice.       *)
THEOREM NoRunIsForgotten == Spec => []RunsAreAccountedFor
<1>1. OperatorInv => RunsAreAccountedFor
  BY DEF OperatorInv
<1> QED BY <1>1, OperatorInductive, PTL

(* An operator that stops has uploaded all its outputs.                    *)
THEOREM StopIsClean == Spec => []StopLeavesNothing
<1>1. OperatorInv => StopLeavesNothing
  BY DEF OperatorInv
<1> QED BY <1>1, OperatorInductive, PTL

(* Operators that do not exit on a mismatch never leave the node alone.    *)
THEOREM OperatorsLeaveOne == ASSUME ~ExitOnMismatch PROVE Spec => []NodeKeepsAnOperator
<1>1. OperatorInv => NodeKeepsAnOperator
  BY DEF OperatorInv, SomeoneSettled, NodeKeepsAnOperator, Settled, Live
<1> QED BY <1>1, OperatorInductive, PTL

(* An operator that a younger one overtook starts no run any more.         *)
LEMMA OvertakenPlace ==
  ASSUME OperatorInv, [Next]_vars, NEW p \in Operators, Overtaken(p)
  PROVE  /\ st'[p] \in {"poll", "key", "act", "stopping", "stopped", "down"}
         /\ st'[p] = "act" => Kind(prev[p])' \in Control
         /\ resets' = resets
<1> DEFINE
     Good == /\ st'[p] \in {"poll", "key", "act", "stopping", "stopped", "down"}
             /\ st'[p] = "act" => Kind(prev[p])' \in Control
<1>a. /\ st \in [Operators -> States] /\ ~Stale(p) /\ owner # p /\ ~(resets < MaxResets)
      /\ st[p] \in {"poll", "key", "act", "stopping", "stopped", "down"}
      /\ st[p] = "act" => Kind(prev[p]) \in Control
  <2>1. st \in [Operators -> States] /\ started \in [Operators -> Nat] /\ resets \in Nat
    BY DEF OperatorInv, OperatorTypes
  <2>2. owner \in Operators /\ ~(started[p] > started[owner]) /\ ~(resets < MaxResets)
    BY <2>1 DEF Overtaken
  <2> QED BY <2>1, <2>2 DEF Overtaken, Stale
<1>b. st[p] = "act" => Kind(prev[p])' = Kind(prev[p]) \/ prev'[p] # prev[p]
  <2>1. st[p] = "act" => prev[p] \in DOMAIN file
    BY DEF OperatorInv, CommandInv, InHand
  <2>2. \A c \in DOMAIN file : file'[c] = file[c]
    BY FileGrows DEF OperatorInv
  <2> QED BY <2>1, <2>2 DEF Kind
<1>c. ASSUME st'[p] = st[p] \/ st'[p] \in {"poll", "stopping", "stopped", "down"}, prev'[p] = prev[p] PROVE Good
  BY <1>a, <1>b, <1>c
<1>d. ASSUME NEW q \in Operators, q # p, NEW s, Goto(q, s), prev' = prev PROVE Good
  BY <1>a, <1>c, <1>d DEF Goto
<1>1. CASE Publish \/ UNCHANGED vars
  BY <1>1, <1>c DEF Publish, vars, keyVars
<1>2. CASE ResetKeyFile
  BY <1>a, <1>2 DEF ResetKeyFile
<1>3. ASSUME NEW states \in [Operators -> States], states[p] \notin {"none"}, NEW c, Spawn(states, c)
      PROVE  st'[p] = states[p]
  BY <1>3 DEF Spawn
<1>4. CASE Launch
  BY <1>4, <1>a, <1>3, <1>c DEF Launch, keyVars
<1>5. ASSUME NEW q \in Operators, StartUp(q) PROVE Good /\ resets' = resets
  <2>1. st[q] \in {"spawned", "claim", "write", "check", "term", "kill"} /\ q # p
    BY <1>5, <1>a DEF StartUp, Boot, Claim, WriteClaim, ReadKey, WriteKey, RetireCheck, RetireTerm, RetireKill
  <2>2. prev' = prev /\ resets' = resets
    BY <1>5 DEF StartUp, Boot, Claim, WriteClaim, ReadKey, WriteKey, RetireCheck, RetireTerm, RetireKill, keyVars
  <2>3. CASE RetireTerm(q) \/ RetireKill(q)
    <3>1. \E s \in {"poll", "kill"} : EndOthers(q, s)
      BY <2>3 DEF RetireTerm, RetireKill
    <3> QED BY <1>c, <2>1, <2>2, <3>1 DEF EndOthers
  <2>4. CASE ~(RetireTerm(q) \/ RetireKill(q))
    <3>1. \E s : Goto(q, s)
      BY <1>5, <2>4 DEF StartUp, Boot, Claim, WriteClaim, ReadKey, WriteKey, RetireCheck
    <3> QED BY <1>d, <2>1, <2>2, <3>1
  <2> QED BY <2>3, <2>4
<1>6. ASSUME NEW q \in Operators, Cycle(q) PROVE Good /\ resets' = resets
  <2>1. resets' = resets
    BY <1>6 DEF Cycle, Finalize, Poll, CheckKey, Reclaim, WriteReclaim, ReadKey, WriteKey, keyVars
  <2>2. CASE Finalize(q)
    BY <1>c, <2>1, <2>2 DEF Finalize
  <2>3. CASE Poll(q)
    <3>1. CASE q = p
      <4>1. prev'[p] = Len(file) /\ file' = file /\ st'[p] = IF Kind(Len(file)) \in Control THEN "act" ELSE "key"
        BY <2>3, <3>1 DEF Poll, Goto, OperatorInv, OperatorTypes
      <4> QED BY <2>1, <4>1 DEF Kind
    <3>2. CASE q # p
      <4>1. prev'[p] = prev[p] /\ st'[p] = st[p]
        BY <2>3, <3>2 DEF Poll, Goto, OperatorInv, OperatorTypes
      <4> QED BY <1>c, <2>1, <4>1
    <3> QED BY <3>1, <3>2
  <2>4. CASE CheckKey(q)
    <3>1. prev' = prev /\ \E s : Goto(q, s)
      BY <2>4 DEF CheckKey
    <3>2. q = p => Goto(p, "down") \/ Goto(p, "poll")
      BY <1>a, <2>4 DEF CheckKey
    <3>3. q = p => st'[p] \in {"down", "poll"}
      BY <1>a, <3>2 DEF Goto
    <3> QED BY <1>c, <1>d, <2>1, <3>1, <3>3
  <2>5. CASE Reclaim(q) \/ WriteReclaim(q)
    <3>1. q # p /\ prev' = prev /\ \E s : Goto(q, s)
      BY <1>a, <2>5 DEF Reclaim, WriteReclaim, ReadKey, WriteKey
    <3> QED BY <1>d, <2>1, <3>1
  <2> QED BY <1>6, <2>2, <2>3, <2>4, <2>5 DEF Cycle
<1>7. ASSUME NEW q \in Operators, Act(q) PROVE Good /\ resets' = resets
  <2>1. prev' = prev /\ resets' = resets
    BY <1>7 DEF Act, StartRun, Cancel, Kill, Restart, Stop, keyVars
  <2>2. CASE \E s \in {"poll", "stopping"} : Goto(q, s)
    <3>1. st'[p] = st[p] \/ st'[p] \in {"poll", "stopping"}
      BY <1>a, <2>2 DEF Goto
    <3> QED BY <1>c, <2>1, <3>1
  <2>3. CASE Spawn([st EXCEPT ![q] = "poll"], prev[q])
    <3> DEFINE states == [st EXCEPT ![q] = "poll"]
    <3>1. states \in [Operators -> States] /\ states[p] = IF p = q THEN "poll" ELSE st[p]
      BY <1>a DEF States
    <3>2. st'[p] = states[p]
      BY <1>3, <1>a, <2>3, <3>1
    <3> QED BY <1>c, <2>1, <3>1, <3>2
  <2> QED BY <1>7, <2>2, <2>3 DEF Act, StartRun, Cancel, Kill, Restart, Stop
<1>8. ASSUME NEW q \in Operators, Halt(q) PROVE Good /\ resets' = resets
  <2>1. prev' = prev /\ resets' = resets /\ (st' = st \/ \E s \in {"poll", "stopped"} : Goto(q, s))
    BY <1>8 DEF Halt, StopJoin, StopFails, StopDone, keyVars
  <2>2. st'[p] = st[p] \/ st'[p] \in {"poll", "stopped"}
    BY <1>a, <2>1 DEF Goto
  <2> QED BY <1>c, <2>1, <2>2
<1>9. ASSUME NEW q \in Operators, NEW i, ChildExits(q, i) PROVE Good /\ resets' = resets
  BY <1>9, <1>c DEF ChildExits, keyVars
<1> QED BY <1>1, <1>2, <1>4, <1>5, <1>6, <1>7, <1>8, <1>9 DEF Next

LEMMA OvertakenStep ==
  ASSUME OperatorInv, [Next]_vars, NEW p \in Operators, Overtaken(p)
  PROVE  Overtaken(p)' /\ Len(runs'[p]) = Len(runs[p])
<1>a. /\ OperatorTypes /\ KeyInv /\ RunsInv /\ OperatorTypes'
      /\ started \in [Operators -> Nat] /\ started' \in [Operators -> Nat]
  BY TypesStep DEF OperatorInv, OperatorTypes
<1>1. owner' \in Operators \ {p} /\ started'[p] <= started'[owner']
  <2>1. ~Empties
    <3>1. ~(resets < MaxResets)
      BY <1>a DEF Overtaken, OperatorTypes
    <3> QED BY <3>1 DEF Empties
  <2>2. CASE LeavesKey
    BY <2>2 DEF LeavesKey, Overtaken
  <2>3. ASSUME NEW q \in Operators, Boots(q) PROVE owner' \in Operators \ {p} /\ started'[p] <= started'[owner']
    <3>1. q # p /\ q # owner
      BY <1>a, <2>3 DEF Boots, Overtaken, KeyInv
    <3> QED BY <2>3, <3>1 DEF Boots, Overtaken
  <2>4. ASSUME NEW q \in Operators, Reads(q) PROVE owner' \in Operators \ {p} /\ started'[p] <= started'[owner']
    BY <2>4 DEF Reads, Overtaken
  <2>5. ASSUME NEW q \in Operators, Writes(q) PROVE owner' \in Operators \ {p} /\ started'[p] <= started'[owner']
    <3>1. Stale(q) /\ q # p /\ owner' = q /\ started' = started
      BY <1>a, <2>5 DEF Writes, KeyInv, Overtaken
    <3>2. started[q] > started[owner] /\ started[owner] >= started[p] /\ owner \in Operators
      BY <1>a, <3>1 DEF Stale, Overtaken
    <3> QED BY <1>a, <3>1, <3>2
  <2> QED BY <1>a, <2>1, <2>2, <2>3, <2>4, <2>5, KeyMoves
<1>2. Overtaken(p)'
  BY <1>1, OvertakenPlace DEF Overtaken
<1>3. ~StartRun(p)
  BY DEF StartRun, Overtaken, Control
<1>4. Len(runs'[p]) = Len(runs[p])
  <2>1. ASSUME NEW q \in Operators, NEW up, Edited(q, up) PROVE Len(runs'[p]) = Len(runs[p])
    <3>1. DOMAIN runs'[p] = DOMAIN runs[p] /\ runs[p] \in Seq(Runs) /\ runs'[p] \in Seq(Runs)
      BY <1>a, <2>1 DEF Edited, OperatorTypes
    <3>2. /\ Len(runs[p]) \in Nat /\ Len(runs'[p]) \in Nat
          /\ 1 .. Len(runs'[p]) = 1 .. Len(runs[p])
      BY <3>1, LenProperties
    <3> QED BY <3>2
  <2>2. ASSUME NEW q \in Operators, StartRun(q) PROVE runs'[p] = runs[p]
    BY <1>3, <1>a, <2>2, StartRunAppends DEF OperatorInv
  <2>3. ASSUME NEW q \in Operators, StopDone(q) PROVE runs'[p] = runs[p]
    BY <2>3 DEF StopDone
  <2> QED BY <1>a, <2>1, <2>2, <2>3, RunsMove
<1> QED BY <1>2, <1>4

(* Of all an operator was overtaken for, it starts nothing: the number of  *)
(* its runs stays what it was.                                             *)
THEOREM SupersededIsIdle == Spec => SupersededStartsNothing
<1> SUFFICES ASSUME NEW p \in Operators, NEW n \in 0 .. MaxRuns
             PROVE  Spec => [](Superseded(p) /\ Len(runs[p]) = n => [](Len(runs[p]) = n))
  BY DEF SupersededStartsNothing
<1> DEFINE Idle == Overtaken(p) /\ Len(runs[p]) = n
<1>1. OperatorInv /\ Superseded(p) /\ Len(runs[p]) = n => Idle
  <2> SUFFICES ASSUME OperatorInv, Superseded(p) PROVE Overtaken(p)
    OBVIOUS
  <2>1. owner \in Operators /\ ~(started[p] > started[owner]) /\ owner # p
    BY DEF Superseded, Stale
  <2>2. started \in [Operators -> Nat]
    BY DEF OperatorInv, OperatorTypes
  <2> QED BY <2>1, <2>2 DEF Superseded, Overtaken
<1>2. OperatorInv /\ [Next]_vars /\ Idle => Idle'
  BY OvertakenStep
<1>3. Idle => Len(runs[p]) = n
  OBVIOUS
<1> HIDE DEF Idle
<1> QED BY <1>1, <1>2, <1>3, OperatorInductive, PTL DEF Spec

-----------------------------------------------------------------------------
(* The key file is a lease.                                                *)

LEMMA UnmovedRelies ==
  ASSUME OperatorInv, [Next]_vars, NEW q \in Operators, st'[q] = st[q]
  PROVE  q \in OnTheKey' <=> q \in OnTheKey
<1>1. ~Poll(q)
  BY DEF Poll, Goto, OperatorInv, OperatorTypes
<1>2. prev'[q] = prev[q]
  BY <1>1, PlaceMoves DEF Stays, OperatorInv
<1>3. st[q] = "act" => prev[q] \in DOMAIN file
  BY DEF OperatorInv, CommandInv, InHand
<1>4. st[q] = "act" => Kind(prev[q])' = Kind(prev[q])
  BY <1>2, <1>3, FileGrows DEF OperatorInv, Kind
<1> QED BY <1>4 DEF OnTheKey

(* Nobody starts to act on the key but the one in charge.                  *)
LEMMA HolderRelies ==
  ASSUME OperatorInv, [Next]_vars, NEW q \in Operators, q \in OnTheKey'
  PROVE  q \in OnTheKey \/ owner' = q
<1>1. CASE st'[q] = st[q]
  BY <1>1, UnmovedRelies
<1>2. CASE Poll(q)
  <2>1. prev'[q] = Len(file) /\ file' = file /\ st'[q] = IF Kind(Len(file)) \in Control THEN "act" ELSE "key"
    BY <1>2 DEF Poll, Goto, OperatorInv, OperatorTypes
  <2> QED BY <2>1 DEF OnTheKey, Kind
<1>3. CASE st'[q] # st[q] /\ Stays(q)
  <2>1. st'[q] \in {"term", "kill", "act"}
    BY DEF OnTheKey
  <2> QED BY <1>3, <2>1 DEF Stays, OnTheKey
<1> QED BY <1>1, <1>2, <1>3, PlaceMoves DEF OperatorInv

(* The key file of a node, read and written on condition, is a lease that  *)
(* an operator takes in one step from nobody or from an older one; only    *)
(* who is in charge goes on to start a run or to end the others.           *)
THEOREM KeyFileIsALease == Spec => KeyIsLease
<1>1. Init => Lease!Init
  BY DEF Init, Lease!Init, OnTheKey
<1>2. OperatorInv /\ [Next]_vars => [Lease!Next]_Lease!vars
  <2> SUFFICES ASSUME OperatorInv, [Next]_vars PROVE [Lease!Next]_Lease!vars
    OBVIOUS
  <2>a. /\ st \in [Operators -> States] /\ started \in [Operators -> Nat] /\ OnTheKey \subseteq Operators
        /\ OnTheKey' \subseteq Operators
    BY DEF OperatorInv, OperatorTypes, OnTheKey
  <2>1. ASSUME UNCHANGED <<owner, started>> PROVE Lease!Settle
    <3>1. OnTheKey' \subseteq OnTheKey \union ({owner} \intersect Operators)
      BY <2>a, <2>1, HolderRelies
    <3> QED BY <2>1, <3>1 DEF Lease!Settle
  <2>2. CASE LeavesKey
    BY <2>1, <2>2 DEF LeavesKey, Lease!Next
  <2>3. CASE Empties
    <3>1. OnTheKey' = OnTheKey
      BY <2>a, <2>3, UnmovedRelies DEF Empties
    <3> QED BY <2>3, <3>1 DEF Empties, Lease!Empty, Lease!Next
  <2>4. ASSUME NEW p \in Operators, Boots(p) PROVE Lease!Appear(p)
    <3>1. st[p] = "spawned" /\ st'[p] = "claim" /\ \A q \in Operators \ {p} : st'[q] = st[q]
      BY <2>a, <2>4 DEF Boots
    <3>2. OnTheKey' = OnTheKey
      <4>1. p \notin OnTheKey /\ p \notin OnTheKey'
        BY <3>1 DEF OnTheKey
      <4>2. \A q \in Operators : q \in OnTheKey' <=> q \in OnTheKey
        BY <3>1, <4>1, UnmovedRelies
      <4> QED BY <2>a, <4>2
    <3>3. started[p] = 0 /\ owner # p /\ owner' = owner
      BY <2>4, <3>1 DEF OperatorInv, ClockInv, KeyInv, Boots
    <3>4. started'[p] = 1 + Cardinality(Up) /\ started' = [started EXCEPT ![p] = started'[p]]
      BY <2>a, <2>4 DEF Boots
    <3>5. \A q \in Operators : started[q] < started'[p]
      BY <2>a, <3>4, UpIsFinite DEF OperatorInv, ClockInv
    <3> QED BY <3>2, <3>3, <3>4, <3>5 DEF Lease!Appear
  <2>5. ASSUME NEW p \in Operators, Reads(p) PROVE Lease!Settle
    BY <2>1, <2>5 DEF Reads
  <2>6. ASSUME NEW p \in Operators, Writes(p) PROVE Lease!Take(p) \/ Lease!Settle
    <3>1. /\ st[p] \in {"write", "rewrite"} /\ owner' = p /\ started' = started
          /\ \A q \in Operators \ {p} : st'[q] = st[q]
      BY <2>a, <2>6 DEF Writes
    <3>2. p \notin OnTheKey
      BY <3>1 DEF OnTheKey
    <3>3. OnTheKey' \in {OnTheKey, OnTheKey \union {p}}
      BY <2>a, <3>1, <3>2, UnmovedRelies
    <3>4. Stale(p) /\ started[p] > 0
      BY <2>6, <3>1 DEF Writes, OperatorInv, KeyInv, ClockInv
    <3>5. owner # p
      BY <2>a, <3>4 DEF Stale
    <3>6. owner \in Operators => started[owner] < started[p]
      BY <2>a, <3>4 DEF Stale
    <3> QED BY <3>1, <3>3, <3>4, <3>5, <3>6 DEF Lease!Take
  <2> QED BY <2>2, <2>3, <2>4, <2>5, <2>6, KeyMoves DEF OperatorInv, Lease!Next
<1> QED BY <1>1, <1>2, OperatorInductive, PTL DEF Spec, KeyIsLease, Lease!Spec

(* What an operator lives for and what it leaves.                          *)
THEOREM EveryRunIsSeenToItsEnd == Spec => []NoRunIsLost
BY NoRunIsForgotten, StopIsClean, PTL DEF NoRunIsLost
=============================================================================
