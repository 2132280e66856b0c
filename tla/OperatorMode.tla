----------------------------- MODULE OperatorMode -----------------------------
(***************************************************************************)
(* The operators of one node (src/train_operator.py).                      *)
(*                                                                         *)
(* An operator is a process that polls a command file and runs what it     *)
(* finds.  Several may live on a node while one replaces another, and a    *)
(* key file in the same repository says which of them is in charge.  The   *)
(* key file is written by compare-and-swap on its blob sha.  Operators are *)
(* numbered in the order they are launched, commands in the order they are *)
(* published, and a command's number stands for the hash of its text.      *)
(*                                                                         *)
(* The key file holds the records of all nodes, so another node's write    *)
(* makes a claim conflict too.  The claim is then read and tried again,    *)
(* which leaves this node's state as it was, and is no step of its own.    *)
(***************************************************************************)
EXTENDS Integers, Sequences, FiniteSets

CONSTANTS
  MaxOperators,     \* bound: operators ever launched on the node
  MaxCommands,      \* bound: commands ever published
  MaxRuns,          \* bound: runs an operator starts
  MaxResets,        \* bound: times the key file is emptied by hand
  ExitOnMismatch,   \* operator_exit_on_key_mismatch
  Kinds             \* the commands that are published

AllKinds == {"run", "CANCEL", "STOP", "RESTART", "KILL"}

ASSUME OperatorAssumption ==
  /\ {MaxOperators, MaxCommands, MaxRuns, MaxResets} \subseteq Nat
  /\ ExitOnMismatch \in BOOLEAN
  /\ Kinds \subseteq AllKinds

Operators == 1 .. MaxOperators
NoOne == 0

VARIABLES
  file,     \* the versions of the command file, the last one is current
  owner,    \* whose record the key file holds for this node
  sha,      \* the version of the key file
  resets,   \* times the key file was emptied
  st,       \* where each operator is: see States
  started,  \* operator_started_utc, 0 before it is taken
  cause,    \* the command that launched the operator, 0 for a launch by hand
  seen,     \* the sha the operator read together with the key file
  prev,     \* previous_command_hash: the command taken last
  runs,     \* the runs each operator started: command and state of the child, "signalled"
            \* when its cancel event is set, "uploaded" when its complete output is
  active    \* active_actions: the runs the operator finalizes, cancels and joins

keyVars == <<owner, sha, resets>>
procVars == <<started, cause, seen>>
runVars == <<runs, active>>
vars == <<file, keyVars, st, procVars, prev, runVars>>

(* "check", "term" and "kill" retire the other operators of the node;      *)
(* "key", "reclaim" and "rewrite" find out who is in charge; "act" is      *)
(* about to start the command; "stopping" joins the active runs.           *)
States == {"none", "spawned", "claim", "write", "check", "term", "kill", "poll", "key",
           "reclaim", "rewrite", "act", "stopping", "stopped", "down"}
Live(p) == st[p] \notin {"none", "stopped", "down"}
Goto(p, s) == st' = [st EXCEPT ![p] = s]

Over(r) == r.state \in {"exited", "uploaded"}

Init ==
  /\ file = <<>>
  /\ owner = NoOne /\ sha = 0 /\ resets = 0
  /\ st = [p \in Operators |-> "none"]
  /\ started = [p \in Operators |-> 0]
  /\ cause = [p \in Operators |-> 0]
  /\ seen = [p \in Operators |-> 0]
  /\ prev = [p \in Operators |-> 0]
  /\ runs = [p \in Operators |-> <<>>]
  /\ active = [p \in Operators |-> {}]

-----------------------------------------------------------------------------
(* The client and the people around the node.                              *)

(* operator_client.py send, cancel, kill, restart, stop: a kill names an   *)
(* earlier command.                                                        *)
Publish ==
  /\ Len(file) < MaxCommands
  /\ \E k \in Kinds, t \in 0 .. Len(file) :
       /\ (k = "KILL") <=> (t > 0)
       /\ file' = Append(file, [kind |-> k, target |-> t])
  /\ UNCHANGED <<keyVars, st, procVars, prev, runVars>>

Spawn(states, c) ==
  \E p \in Operators :
    /\ states[p] = "none"
    /\ \A q \in Operators : q < p => states[q] # "none"
    /\ st' = [states EXCEPT ![p] = "spawned"]
    /\ cause' = [cause EXCEPT ![p] = c]

Launch ==
  /\ Spawn(st, 0)
  /\ UNCHANGED <<file, keyVars, started, seen, prev, runVars>>

ResetKeyFile ==
  /\ resets < MaxResets /\ owner # NoOne
  /\ resets' = resets + 1
  /\ owner' = NoOne
  /\ sha' = sha + 1
  /\ UNCHANGED <<file, st, procVars, prev, runVars>>

-----------------------------------------------------------------------------
(* Starting up: claim the key, then retire the other operators.  Whatever  *)
(* fails before the poll loop ends the process.                            *)

(* The repositories are fetched first; operator_started_utc is then taken. *)
Boot(p) ==
  /\ st[p] = "spawned"
  /\ \/ /\ Goto(p, "claim")
        /\ started' = [started EXCEPT
             ![p] = 1 + Cardinality({q \in Operators : started[q] > 0})]
     \/ Goto(p, "down") /\ UNCHANGED started
  /\ UNCHANGED <<file, keyVars, cause, seen, prev, runVars>>

(* operator_record_is_stale_for_local: a missing record is stale as well.  *)
Stale(p) == owner \in Operators => started[p] > started[owner]

(* claim_operator_key_github_api up to the upload: a newer record is not   *)
(* overwritten, and a download may fail for good.                          *)
ReadKey(p, here, write, held, failed) ==
  /\ st[p] = here
  /\ \/ owner = p /\ Goto(p, held) /\ UNCHANGED seen
     \/ /\ owner # p /\ Stale(p)
        /\ Goto(p, write)
        /\ seen' = [seen EXCEPT ![p] = sha]
     \/ Goto(p, failed) /\ UNCHANGED seen
  /\ UNCHANGED <<file, keyVars, started, cause, prev, runVars>>

WriteKey_NoSha(p, here, read, held, failed) ==
  /\ st[p] = here
  /\ \/ /\ owner' = p
        /\ sha' = sha + 1
        /\ Goto(p, held) \/ Goto(p, failed)
     \/ /\ sha # seen[p]
        /\ Goto(p, read)
        /\ UNCHANGED <<owner, sha>>
  /\ UNCHANGED <<file, resets, procVars, prev, runVars>>

(* The upload: it conflicts when the file changed since it was read, and   *)
(* its answer may be lost after it was applied.                            *)
WriteKey(p, here, read, held, failed) ==
  /\ st[p] = here
  /\ \/ /\ sha = seen[p]
        /\ owner' = p
        /\ sha' = sha + 1
        /\ Goto(p, held) \/ Goto(p, failed)
     \/ /\ sha # seen[p]
        /\ Goto(p, read)
        /\ UNCHANGED <<owner, sha>>
  /\ UNCHANGED <<file, resets, procVars, prev, runVars>>

Claim(p) == ReadKey(p, "claim", "write", "check", "down")
WriteClaim(p) == WriteKey(p, "write", "claim", "check", "down")

(* retire_stale_local_operator_processes: after a delay, and only if it is *)
(* still in charge, the operator lists and terminates every other operator *)
(* process of the node, and two seconds later kills those it then finds.   *)
(* Listing and terminating is one step: two operators are in charge one    *)
(* after the other, and the delay is far longer than a listing takes.      *)
RetireCheck(p) ==
  /\ st[p] = "check"
  /\ Goto(p, IF owner = p THEN "term" ELSE "poll") \/ Goto(p, "down")
  /\ UNCHANGED <<file, keyVars, procVars, prev, runVars>>

Others(p) == {q \in Operators \ {p} : Live(q)}
EndOthers(p, next) ==
  st' = [q \in Operators |-> IF q = p THEN next
                             ELSE IF q \in Others(p) THEN "down" ELSE st[q]]

RetireTerm(p) ==
  /\ st[p] = "term"
  /\ EndOthers(p, IF Others(p) = {} THEN "poll" ELSE "kill")
  /\ UNCHANGED <<file, keyVars, procVars, prev, runVars>>

RetireKill(p) ==
  /\ st[p] = "kill"
  /\ EndOthers(p, "poll")
  /\ UNCHANGED <<file, keyVars, procVars, prev, runVars>>

-----------------------------------------------------------------------------
(* The poll loop.  A download or an upload that fails is retried in the    *)
(* next cycle and changes nothing here.                                    *)

OverRuns(p) == {i \in active[p] : Over(runs[p][i])}
FirstOf(S) == CHOOSE i \in S : \A j \in S : i <= j

(* The top of a cycle: finalize_operator_action for the runs that are      *)
(* over, in the order they were started.  While an upload fails the cycle  *)
(* ends there.                                                             *)
Finalize(p) ==
  /\ st[p] = "poll" /\ OverRuns(p) # {}
  /\ LET i == FirstOf(OverRuns(p)) IN
     /\ runs' = [runs EXCEPT ![p][i].state = "uploaded"]
     /\ active' = [active EXCEPT ![p] = @ \ {i}]
  /\ UNCHANGED <<file, keyVars, st, procVars, prev>>

Control == {"CANCEL", "STOP", "RESTART", "KILL"}
Kind(c) == file[c].kind

Poll_Forgets(p) ==
  /\ st[p] = "poll" /\ OverRuns(p) = {} /\ file # <<>>
  /\ LET c == Len(file) IN
     /\ prev' = [prev EXCEPT ![p] = c]
     /\ Goto(p, IF Kind(c) \in Control THEN "act" ELSE "key")
  /\ UNCHANGED <<file, keyVars, procVars, runVars>>

Poll_StopOnce(p) ==
  /\ st[p] = "poll" /\ OverRuns(p) = {} /\ file # <<>>
  /\ LET c == Len(file) IN
     /\ c # prev[p]
     /\ prev' = [prev EXCEPT ![p] = c]
     /\ Goto(p, IF Kind(c) \in Control THEN "act" ELSE "key")
  /\ UNCHANGED <<file, keyVars, procVars, runVars>>

(* A command is taken if it is not the one taken last, or is STOP, and it  *)
(* is recorded as taken before anything is done about it.                  *)
Poll(p) ==
  /\ st[p] = "poll" /\ OverRuns(p) = {} /\ file # <<>>
  /\ LET c == Len(file) IN
     /\ c # prev[p] \/ Kind(c) = "STOP"
     /\ prev' = [prev EXCEPT ![p] = c]
     /\ Goto(p, IF Kind(c) \in Control THEN "act" ELSE "key")
  /\ UNCHANGED <<file, keyVars, procVars, runVars>>

CheckKey_Exits(p) ==
  /\ st[p] = "key"
  /\ \/ owner = p /\ Goto(p, "act")
     \/ owner # p /\ Stale(p) /\ Goto(p, "reclaim")
     \/ owner # p /\ ~Stale(p) /\ Goto(p, "down")
     \/ Goto(p, "poll")
  /\ UNCHANGED <<file, keyVars, procVars, prev, runVars>>

CheckKey_Trusting(p) ==
  /\ st[p] = "key"
  /\ Goto(p, "act")
  /\ UNCHANGED <<file, keyVars, procVars, prev, runVars>>

(* active_or_reclaimed_operator_key, for all but control commands.  If the *)
(* registry cannot be read the command is lost, for it is already recorded *)
(* as taken.                                                               *)
CheckKey(p) ==
  /\ st[p] = "key"
  /\ \/ owner = p /\ Goto(p, "act")
     \/ owner # p /\ Stale(p) /\ Goto(p, "reclaim")
     \/ owner # p /\ ~Stale(p) /\ Goto(p, IF ExitOnMismatch THEN "down" ELSE "poll")
     \/ Goto(p, "poll")
  /\ UNCHANGED <<file, keyVars, procVars, prev, runVars>>

Reclaim(p) == ReadKey(p, "reclaim", "rewrite", "act", "poll")
WriteReclaim(p) == WriteKey(p, "rewrite", "reclaim", "act", "poll")

-----------------------------------------------------------------------------
(* start_operator_action, and what run_operator_mode does around it.       *)

Signalled(p, S) ==
  [i \in DOMAIN runs[p] |->
     IF i \in S /\ runs[p][i].state = "running" THEN [runs[p][i] EXCEPT !.state = "signalled"]
                                                ELSE runs[p][i]]

(* A new run takes the place of an active one of the same command.         *)
StartRun(p) ==
  /\ st[p] = "act" /\ Kind(prev[p]) = "run"
  /\ Len(runs[p]) < MaxRuns
  /\ runs' = [runs EXCEPT ![p] = Append(@, [cmd |-> prev[p], state |-> "running"])]
  /\ active' = [active EXCEPT
       ![p] = {i \in @ : runs[p][i].cmd # prev[p]} \union {Len(runs[p]) + 1}]
  /\ Goto(p, "poll")
  /\ UNCHANGED <<file, keyVars, procVars, prev>>

Cancel_Forgets(p) ==
  /\ st[p] = "act" /\ Kind(prev[p]) = "CANCEL"
  /\ runs' = [runs EXCEPT ![p] = Signalled(p, active[p])]
  /\ active' = [active EXCEPT ![p] = {}]
  /\ Goto(p, "poll")
  /\ UNCHANGED <<file, keyVars, procVars, prev>>

Cancel(p) ==
  /\ st[p] = "act" /\ Kind(prev[p]) = "CANCEL"
  /\ runs' = [runs EXCEPT ![p] = Signalled(p, active[p])]
  /\ Goto(p, "poll")
  /\ UNCHANGED <<file, keyVars, procVars, prev, active>>

(* kill_operator_command: its own active runs of the target are signalled, *)
(* and the processes of the target found on the node are killed, whoever   *)
(* started them.                                                           *)
Kill(p) ==
  /\ st[p] = "act" /\ Kind(prev[p]) = "KILL"
  /\ LET target == file[prev[p]].target
         mine   == {i \in active[p] : runs[p][i].cmd = target}
     IN runs' = [q \in Operators |-> [i \in DOMAIN runs[q] |->
          IF q = p /\ i \in mine THEN Signalled(p, mine)[i]
          ELSE IF runs[q][i].cmd = target /\ ~Over(runs[q][i])
          THEN [runs[q][i] EXCEPT !.state = "exited"]
          ELSE runs[q][i]]]
  /\ Goto(p, "poll")
  /\ UNCHANGED <<file, keyVars, procVars, prev, active>>

(* spawn_replacement_operator, which may fail.                             *)
Restart(p) ==
  /\ st[p] = "act" /\ Kind(prev[p]) = "RESTART"
  /\ \/ Spawn([st EXCEPT ![p] = "poll"], prev[p])
     \/ Goto(p, "poll") /\ UNCHANGED cause
  /\ UNCHANGED <<file, keyVars, started, seen, prev, runVars>>

Stop(p) ==
  /\ st[p] = "act" /\ Kind(prev[p]) = "STOP"
  /\ runs' = [runs EXCEPT ![p] = Signalled(p, active[p])]
  /\ Goto(p, "stopping") \/ Goto(p, "poll")
  /\ UNCHANGED <<file, keyVars, procVars, prev, active>>

Unfinished(p) == {i \in active[p] : runs[p][i].state # "uploaded"}

(* The active runs are joined and finalized one after the other.           *)
StopJoin(p) ==
  /\ st[p] = "stopping" /\ Unfinished(p) # {}
  /\ LET i == FirstOf(Unfinished(p)) IN
     /\ Over(runs[p][i])
     /\ runs' = [runs EXCEPT ![p][i].state = "uploaded"]
  /\ UNCHANGED <<file, keyVars, st, procVars, prev, active>>

(* A run that outlives the join, or an upload that fails, sends the        *)
(* operator back to the poll loop, where it takes STOP again.              *)
StopFails(p) ==
  /\ st[p] = "stopping" /\ Unfinished(p) # {}
  /\ Goto(p, "poll")
  /\ UNCHANGED <<file, keyVars, procVars, prev, runVars>>

StopDone_Early(p) ==
  /\ st[p] = "stopping"
  /\ active' = [active EXCEPT ![p] = {}]
  /\ Goto(p, "stopped")
  /\ UNCHANGED <<file, keyVars, procVars, prev, runs>>

StopDone(p) ==
  /\ st[p] = "stopping" /\ Unfinished(p) = {}
  /\ active' = [active EXCEPT ![p] = {}]
  /\ Goto(p, "stopped")
  /\ UNCHANGED <<file, keyVars, procVars, prev, runs>>

(* run_operator_subprocess: the child ends, by itself or because its       *)
(* process group was terminated.  It is not a child of the operator's      *)
(* session and outlives an operator that is killed.                        *)
ChildExits(p, i) ==
  /\ i \in DOMAIN runs[p] /\ ~Over(runs[p][i])
  /\ runs' = [runs EXCEPT ![p][i].state = "exited"]
  /\ UNCHANGED <<file, keyVars, st, procVars, prev, active>>

-----------------------------------------------------------------------------
StartUp(p) == Boot(p) \/ Claim(p) \/ WriteClaim(p) \/ RetireCheck(p) \/ RetireTerm(p) \/ RetireKill(p)
Cycle(p) == Finalize(p) \/ Poll(p) \/ CheckKey(p) \/ Reclaim(p) \/ WriteReclaim(p)
Act(p) == StartRun(p) \/ Cancel(p) \/ Kill(p) \/ Restart(p) \/ Stop(p)
Halt(p) == StopJoin(p) \/ StopFails(p) \/ StopDone(p)

Next ==
  \/ Publish \/ Launch \/ ResetKeyFile
  \/ \E p \in Operators : StartUp(p) \/ Cycle(p) \/ Act(p) \/ Halt(p)
  \/ \E p \in Operators, i \in 1 .. MaxRuns : ChildExits(p, i)

Spec == Init /\ [][Next]_vars

(* An operator's process is scheduled; the child of a run that was         *)
(* signalled by a live operator is killed after a grace period; an upload  *)
(* that is tried again and again succeeds in the end.                      *)
FairSpec ==
  /\ Spec
  /\ \A p \in Operators :
       /\ WF_vars(StartUp(p) \/ Cycle(p) \/ Act(p) \/ Halt(p))
       /\ SF_vars(Stop(p) /\ st'[p] = "stopping")
       /\ SF_vars(StopJoin(p))
       /\ \A i \in 1 .. MaxRuns :
            WF_vars(Live(p) /\ i \in DOMAIN runs[p] /\ runs[p][i].state = "signalled" /\ ChildExits(p, i))

-----------------------------------------------------------------------------
(* Properties.                                                             *)

(* The key only ever passes to an operator that started later: an old      *)
(* operator that read the key file before a new one claimed it cannot      *)
(* take it back (claim_operator_key_github_api).                           *)
KeyPassesToNewer ==
  [][owner' # owner /\ owner # NoOne /\ owner' # NoOne => started[owner] < started[owner']]_vars

(* The file that is read, and written back if it did not change, is a      *)
(* lease that is taken in one step (KeyLease): a key that was written with *)
(* a lost answer, read too early or reclaimed during a command never       *)
(* lets an operator start a run, or end the others, that was not in charge *)
(* when it looked (claim_operator_key, active_or_reclaimed_operator_key,   *)
(* retire_stale_local_operator_processes).                                 *)
OnTheKey ==
  {p \in Operators : st[p] \in {"term", "kill"} \/ (st[p] = "act" /\ Kind(prev[p]) \notin Control)}
Lease == INSTANCE KeyLease WITH
           Member <- Operators, Nobody <- NoOne, holder <- owner, born <- started,
           relying <- OnTheKey
KeyIsLease == Lease!Spec

(* An operator that waits for its next command while a newer one holds the *)
(* key never starts a run again, unless the key file is emptied by hand    *)
(* ("only the matching key executes non-control commands",                 *)
(* train_operator.py:106).                                                 *)
Superseded(p) == st[p] = "poll" /\ ~Stale(p) /\ owner # p /\ resets = MaxResets
SupersededStartsNothing ==
  \A p \in Operators, n \in 0 .. MaxRuns :
    [](Superseded(p) /\ Len(runs[p]) = n => [](Len(runs[p]) = n))

(* Every child of an operator that lives can still be cancelled, joined    *)
(* and finalized by it: no run is dropped from active_actions before its   *)
(* output is uploaded.  And no command is run twice by one operator, though *)
(* the file is read again and again (scripts/README.md:125: to run the same *)
(* command again, "add a harmless nonce comment").                         *)
RunsAreAccountedFor ==
  \A p \in Operators :
    /\ Live(p) => \A i \in DOMAIN runs[p] : runs[p][i].state # "uploaded" => i \in active[p]
    /\ \A i, j \in DOMAIN runs[p] : runs[p][i].cmd = runs[p][j].cmd => i = j

(* An operator that leaves because of STOP leaves nothing behind: all its  *)
(* children are over and their outputs uploaded.                           *)
StopLeavesNothing ==
  \A p \in Operators : st[p] = "stopped" =>
    \A i \in DOMAIN runs[p] : runs[p][i].state = "uploaded"

(* No run is lost sight of, neither by an operator that lives nor by one   *)
(* that leaves with everything done.                                       *)
NoRunIsLost == RunsAreAccountedFor /\ StopLeavesNothing

(* If STOP is the last command, no operator stays.                         *)
StopReachesEveryone ==
  (Len(file) = MaxCommands /\ file[MaxCommands].kind = "STOP")
    ~> (\A p \in Operators : ~Live(p))

(* scripts/README.md:141: "Restart starts a fresh `train.py                *)
(* --operator_mode true` process."  One restart command, one process.      *)
RestartStartsOne ==
  \A p, q \in Operators : cause[p] = cause[q] /\ cause[p] # 0 => p = q

(* Two operators that replace each other never end each other: without     *)
(* STOP, a node whose operator reached its poll loop keeps one, provided   *)
(* operators do not exit on a mismatch (a new one may claim the key and    *)
(* then fail to start).                                                    *)
NodeKeepsAnOperator ==
  (\E p \in Operators : prev[p] # 0) /\ (\A c \in DOMAIN file : Kind(c) # "STOP")
    => \E p \in Operators : Live(p)
=============================================================================
