----------------------------- MODULE RayCluster -----------------------------
(***************************************************************************)
(* GRPO and VERL train on a Ray cluster that train_engine.py builds itself: *)
(* node 0 starts the head and runs the driver, the other nodes join it and  *)
(* watch it until it is gone.  The processes of Ray are daemons: they       *)
(* outlive the engine that started them, and a later launch finds them.     *)
(* All is asked of one address, behind which there may be an old head.      *)
(***************************************************************************)
EXTENDS Naturals

CONSTANTS
  RayNodes,       \* node 0 runs the driver
  MaxRayLaunches, \* bound: launches of the job
  MaxRayFaults,   \* bound: things that fail
  JoinAttempts    \* --grpo_ray_worker_start_retries

ASSUME RayAssumption ==
  0 \in RayNodes /\ {MaxRayLaunches, MaxRayFaults} \subseteq Nat /\ JoinAttempts \in Nat \ {0}

VARIABLES
  rayNo,      \* the number of this launch
  rayPc,      \* rayPc[n]: where node n's engine is
  raylet,     \* raylet[n]: the launch whose cluster node n's daemons belong to, or 0
  joins,      \* joins[n]: attempts to join that failed
  rayFaults,
  stopOnExit, \* --grpo_stop_ray_on_exit
  misled      \* history: a node of this launch joined the head of an earlier one

rayVars == <<rayNo, rayPc, raylet, joins, rayFaults, stopOnExit, misled>>

RayEnded == {"done", "failed"}
HeadsCluster == raylet[0]
RayWorkers == RayNodes \ {0}
Answers == HeadsCluster # 0        \* ray_status_ok

RayGo(n, from, to) == rayPc[n] = from /\ rayPc' = [rayPc EXCEPT ![n] = to]
RayFault == rayFaults < MaxRayFaults /\ rayFaults' = rayFaults + 1
NoRay(n) == raylet' = [raylet EXCEPT ![n] = 0]

RayInit ==
  /\ rayNo = 0
  /\ rayPc = [n \in RayNodes |-> "done"]
  /\ raylet = [n \in RayNodes |-> 0]
  /\ joins = [n \in RayNodes |-> 0]
  /\ rayFaults = 0 /\ stopOnExit \in BOOLEAN /\ misled = FALSE

RayAllEnded == \A n \in RayNodes : rayPc[n] \in RayEnded

RayLaunch ==
  /\ RayAllEnded /\ rayNo < MaxRayLaunches
  /\ rayNo' = rayNo + 1
  /\ rayPc' = [n \in RayNodes |-> "start"]
  /\ joins' = [n \in RayNodes |-> 0]
  /\ misled' = FALSE
  /\ UNCHANGED <<raylet, rayFaults, stopOnExit>>

-----------------------------------------------------------------------------
(* start_ray_head, start_ray_worker: first of all, `ray stop --force`.      *)
StopOwnRay(n) ==
  /\ RayGo(n, "start", IF n = 0 THEN "head" ELSE "wait")
  /\ NoRay(n)
  /\ UNCHANGED <<rayNo, joins, rayFaults, stopOnExit, misled>>

(* The judge of a GRPO launch is tried before anything is stopped.          *)
JudgePreflightFails ==
  /\ RayGo(0, "start", "raised") /\ RayFault
  /\ UNCHANGED <<rayNo, raylet, joins, stopOnExit, misled>>

StartHead ==
  /\ RayGo(0, "head", "driver")
  /\ raylet' = [raylet EXCEPT ![0] = rayNo]
  /\ UNCHANGED <<rayNo, joins, rayFaults, stopOnExit, misled>>

SeeHead(n) ==
  /\ n # 0 /\ Answers
  /\ \/ RayGo(n, "wait", "join")
     \/ RayGo(n, "joined", "monitor")
  /\ UNCHANGED <<rayNo, raylet, joins, rayFaults, stopOnExit, misled>>

Join(n) ==
  /\ RayGo(n, "join", "joined") /\ Answers
  /\ raylet' = [raylet EXCEPT ![n] = HeadsCluster]
  /\ misled' = (misled \/ HeadsCluster # rayNo)
  /\ UNCHANGED <<rayNo, joins, rayFaults, stopOnExit>>

(* Mutant: the last attempt is left out.                                    *)
TryAgain_LessOne(n) ==
  IF joins[n] + 2 < JoinAttempts
  THEN RayGo(n, "join", "wait") /\ joins' = [joins EXCEPT ![n] = @ + 1] /\ NoRay(n)
  ELSE RayGo(n, "join", "raised") /\ UNCHANGED <<joins, raylet>>

TryAgain(n) ==
  IF joins[n] + 1 < JoinAttempts
  THEN RayGo(n, "join", "wait") /\ joins' = [joins EXCEPT ![n] = @ + 1] /\ NoRay(n)
  ELSE RayGo(n, "join", "raised") /\ UNCHANGED <<joins, raylet>>

(* `ray start` fails for reasons of its own, or because the head is gone.   *)
JoinFails(n) ==
  /\ Answers /\ TryAgain(n) /\ RayFault
  /\ UNCHANGED <<rayNo, stopOnExit, misled>>

FindsNoHead(n) ==
  /\ ~Answers /\ TryAgain(n)
  /\ UNCHANGED <<rayNo, rayFaults, stopOnExit, misled>>

(* The head does not answer in grpo_ray_start_timeout, or does not start.   *)
RayTimesOut(n) ==
  /\ RayFault
  /\ rayPc[n] \in {"head", "wait", "joined"}
  /\ rayPc' = [rayPc EXCEPT ![n] = "raised"]
  /\ UNCHANGED <<rayNo, raylet, joins, stopOnExit, misled>>

-----------------------------------------------------------------------------
(* The driver asks for the GPUs of all nodes and waits until they are there.*)
(* Training takes longer than the last look at the head by those who join.  *)
AllJoined == \A n \in RayWorkers : raylet[n] = rayNo /\ rayPc[n] # "joined"
DriverEnds ==
  /\ RayGo(0, "driver", "leave") /\ AllJoined
  /\ UNCHANGED <<rayNo, raylet, joins, rayFaults, stopOnExit, misled>>

DriverFails ==
  /\ RayGo(0, "driver", "raised") /\ RayFault
  /\ UNCHANGED <<rayNo, raylet, joins, stopOnExit, misled>>

(* A node that leaves takes actors of the driver with it.                   *)
DriverLosesNode ==
  /\ RayGo(0, "driver", "raised")
  /\ \E n \in RayWorkers : rayPc[n] \in RayEnded
  /\ UNCHANGED <<rayNo, raylet, joins, rayFaults, stopOnExit, misled>>

(* Mutant: the node's own daemon is asked for.                              *)
MonitorEnds_AsksItself(n) ==
  /\ RayGo(n, "monitor", "leave") /\ raylet[n] = 0
  /\ UNCHANGED <<rayNo, raylet, joins, rayFaults, stopOnExit, misled>>

MonitorEnds(n) ==
  /\ RayGo(n, "monitor", "leave") /\ ~Answers
  /\ UNCHANGED <<rayNo, raylet, joins, rayFaults, stopOnExit, misled>>

(* One `ray status` that fails is enough, although the head is there.       *)
StatusFails(n) ==
  /\ RayGo(n, "monitor", "leave") /\ Answers /\ RayFault
  /\ UNCHANGED <<rayNo, raylet, joins, stopOnExit, misled>>

(* The finally clause, whether the engine has succeeded or raised.          *)
LeaveRay(n) ==
  /\ RayGo(n, "leave", "done") \/ RayGo(n, "raised", "failed")
  /\ IF stopOnExit THEN NoRay(n) ELSE UNCHANGED raylet
  /\ UNCHANGED <<rayNo, joins, rayFaults, stopOnExit, misled>>

(* An engine is killed: its daemons stay.  The others find out by           *)
(* themselves or not at all; then the scheduler kills them as well.         *)
RayKill(n) ==
  /\ rayPc[n] \notin RayEnded
  /\ RayFault
  /\ rayPc' = [rayPc EXCEPT ![n] = "failed"]
  /\ UNCHANGED <<rayNo, raylet, joins, stopOnExit, misled>>

RayGiveUp ==
  /\ \E n \in RayNodes : rayPc[n] = "failed"
  /\ ~RayAllEnded
  /\ rayPc' = [n \in RayNodes |-> "failed"]
  /\ UNCHANGED <<rayNo, raylet, joins, rayFaults, stopOnExit, misled>>

(* A head that is left running is watched until somebody ends the job.      *)
JobIsEnded ==
  /\ rayPc[0] = "done" /\ ~stopOnExit /\ ~RayAllEnded
  /\ rayPc' = [n \in RayNodes |-> IF n = 0 THEN "done" ELSE "failed"]
  /\ UNCHANGED <<rayNo, raylet, joins, rayFaults, stopOnExit, misled>>

RayNodeStep(n) ==
  \/ StopOwnRay(n) \/ SeeHead(n) \/ Join(n) \/ FindsNoHead(n) \/ MonitorEnds(n) \/ LeaveRay(n)
  \/ n = 0 /\ (StartHead \/ DriverEnds \/ DriverLosesNode)

RayStep ==
  \/ RayLaunch \/ JudgePreflightFails \/ DriverFails \/ RayGiveUp \/ JobIsEnded
  \/ \E n \in RayNodes : RayNodeStep(n) \/ JoinFails(n) \/ RayTimesOut(n) \/ StatusFails(n) \/ RayKill(n)

-----------------------------------------------------------------------------
(* No node raises because others are earlier or later than it, or because   *)
(* of the cluster an earlier launch left: who is told of the old head and   *)
(* finds it gone has another attempt, and the new head does not leave before *)
(* all have joined.  A job is ended by hand only after it has trained, if    *)
(* its daemons are to stay, and otherwise who is done has none.             *)
RayIsUndisturbed ==
  (rayFaults = 0 /\ ~misled /\ JoinAttempts > 1) =>
    \A n \in RayNodes :
      /\ rayPc[n] # "raised"
      /\ rayPc[n] = "failed" => rayPc[0] = "done" /\ ~stopOnExit
      /\ rayPc[n] = "done" /\ stopOnExit => raylet[n] = 0

(* A launch in which nothing fails trains, and then, unless it is to be left *)
(* running, no node waits for the head and no daemon is left behind.  The   *)
(* exception is a worker that found the head of an earlier launch before    *)
(* node 0 had stopped it: it watches the new head without belonging to its  *)
(* cluster, and the driver waits for the worker for ever.                   *)
RayBegins == rayNo > 0 /\ \A n \in RayNodes : rayPc[n] = "start"
RayTrained ==
  /\ rayPc[0] = "done"
  /\ stopOnExit => \A n \in RayNodes : rayPc[n] = "done" /\ raylet[n] = 0
RayLaunchTrains == RayBegins ~> (rayFaults > 0 \/ misled \/ RayTrained)
=============================================================================
