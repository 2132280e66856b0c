----------------------------- MODULE PrimeRoles -----------------------------
(***************************************************************************)
(* The roles of a Prime-RL training (src/src/train_engine_rl.py).  Split: two *)
(* inference servers, the head node with trainer and orchestrator, and a     *)
(* worker node with the rest of the trainer, each started by a command of    *)
(* its own.  Otherwise one process starts a teacher and Prime-RL's "rl".      *)
(***************************************************************************)
EXTENDS CheckpointStore

CONSTANT MaxRestarts   \* PRIME_RL_TEACHER_INFERENCE_MAX_RESTARTS
ASSUME RestartsAssumption == MaxRestarts \in Nat

VARIABLES
  role,     \* role[r]: the process of the role
  proc,     \* proc[c]: a child process
  status,   \* what the head returns
  restarts  \* how often the teacher was started again

primeVars == <<role, proc, status, restarts>>

Servers == {"policy", "teacher"}
Children == Servers \cup {"trainer", "orchestrator", "worker", "rl"}
Exited == {"exit0", "exit1"}

PrimeInit ==
  /\ role = [r \in Servers \cup {"head", "worker"} |-> "off"]
  /\ proc = [c \in Children |-> "none"]
  /\ status = "none" /\ restarts = 0

Alive(c) == proc[c] \in {"starting", "up"}
Becomes(r, place) == role' = [role EXCEPT ![r] = place]
Sets(c, p) == proc' = [proc EXCEPT ![c] = p]

(* run_prime_inference_component                                             *)
StartServer(r) ==
  /\ profile.split /\ r \in Servers /\ role[r] = "off"
  /\ Becomes(r, "run") /\ Sets(r, "starting")
  /\ UNCHANGED <<storeVars, status, restarts>>

ServerUp(r) ==
  /\ r \in Servers /\ proc[r] = "starting"
  /\ Sets(r, "up")
  /\ UNCHANGED <<storeVars, role, status, restarts>>

ServerDies(r) ==
  /\ r \in Servers /\ Alive(r)
  /\ Fault
  /\ \E how \in Exited : Sets(r, how)
  /\ UNCHANGED <<profile, disabled, diskVars, converted, remoteVars, role, status, restarts>>

(* Only a teacher that ended with an error is started again.                 *)
ServerEnds(r) ==
  /\ profile.split /\ r \in Servers /\ role[r] = "run" /\ proc[r] \in Exited
  /\ IF r = "teacher" /\ proc[r] = "exit1" /\ restarts < MaxRestarts
       THEN Sets(r, "starting") /\ restarts' = restarts + 1 /\ UNCHANGED role
       ELSE Becomes(r, "ended") /\ UNCHANGED <<proc, restarts>>
  /\ UNCHANGED <<storeVars, status>>

(* main of trainer_orchestrator: wait_for_external_http_ready, policy first.  *)
HeadStarts ==
  /\ profile.split /\ role["head"] = "off"
  /\ Becomes("head", "waitPolicy")
  /\ UNCHANGED <<storeVars, proc, status, restarts>>

PolicyReady ==
  /\ role["head"] = "waitPolicy" /\ proc["policy"] = "up"
  /\ Becomes("head", "waitTeacher")
  /\ UNCHANGED <<storeVars, proc, status, restarts>>

(* run_distributed_trainer_component: both processes are started.            *)
TeacherReady ==
  /\ role["head"] = "waitTeacher" /\ proc["teacher"] = "up"
  /\ Becomes("head", "run")
  /\ proc' = [proc EXCEPT !["trainer"] = "up", !["orchestrator"] = "up"]
  /\ UNCHANGED <<storeVars, status, restarts>>

(* The deadline passes: on a server that has ended it must, on one that is   *)
(* slow or has not been started it may.                                      *)
Awaited == IF role["head"] = "waitPolicy" THEN "policy" ELSE "teacher"
ReadyTimeout ==
  /\ role["head"] \in {"waitPolicy", "waitTeacher"} /\ proc[Awaited] # "up"
  /\ IF role[Awaited] = "ended" THEN UNCHANGED faults ELSE Fault
  /\ Becomes("head", "ended") /\ status' = "exit1"
  /\ UNCHANGED <<profile, disabled, diskVars, converted, remoteVars, proc, restarts>>

(* Training is over, or one of its processes fails, and with it those that   *)
(* talk to it: the trainer's ranks to each other, the orchestrator to the    *)
(* servers and the trainer.                                                  *)
TrainingOver(c) ==
  /\ c \in {"trainer", "orchestrator", "rl"} /\ proc[c] = "up"
  /\ \/ Sets(c, "exit0") /\ UNCHANGED faults
     \/ Sets(c, "exit1") /\ Fault
  /\ UNCHANGED <<profile, disabled, diskVars, converted, remoteVars, role, status, restarts>>

(* The loop that polls the two every 2 seconds: the trainer's exit counts     *)
(* first, either ends the other in the finally clause.                       *)
Polled ==
  /\ role["head"] = "run"
  /\ profile.split /\ (proc["trainer"] \in Exited \/ proc["orchestrator"] \in Exited)
  /\ status' = IF proc["trainer"] \in Exited THEN proc["trainer"] ELSE proc["orchestrator"]
  /\ Becomes("head", "stopping")
  /\ UNCHANGED <<storeVars, proc, restarts>>

(* Mutant: only the orchestrator is stopped.                                 *)
Leftover_Orchestrator == {"orchestrator"}

(* stop_process_group for both, or stop_process for the teacher.             *)
Leftover == IF profile.split THEN {"orchestrator", "trainer"} ELSE {"teacher"}

StopChildren ==
  /\ role["head"] = "stopping"
  /\ proc' = [c \in Children |-> IF c \in Leftover /\ Alive(c) THEN "killed" ELSE proc[c]]
  /\ Becomes("head", "ended")
  /\ UNCHANGED <<storeVars, status, restarts>>

(* A follower's trainer lives as long as the head's.                         *)
WorkerStarts ==
  /\ profile.split /\ role["worker"] = "off" /\ proc["trainer"] = "up"
  /\ Becomes("worker", "run") /\ Sets("worker", "up")
  /\ UNCHANGED <<storeVars, status, restarts>>

WorkerEnds ==
  /\ role["worker"] = "run" /\ proc["trainer"] # "up"
  /\ Becomes("worker", "ended")
  /\ Sets("worker", IF proc["trainer"] = "exit0" THEN "exit0" ELSE "exit1")
  /\ UNCHANGED <<storeVars, status, restarts>>

(* "full": the teacher is started without waiting for it, then "rl".          *)
FullStarts ==
  /\ ~profile.split /\ role["head"] = "off"
  /\ Becomes("head", "run")
  /\ proc' = [proc EXCEPT !["teacher"] = "starting", !["rl"] = "up"]
  /\ UNCHANGED <<storeVars, status, restarts>>

FullEnds ==
  /\ ~profile.split /\ role["head"] = "run" /\ proc["rl"] \in Exited
  /\ status' = proc["rl"]
  /\ Becomes("head", "stopping")
  /\ UNCHANGED <<storeVars, proc, restarts>>

PrimeStep ==
  \/ \E r \in Servers : StartServer(r) \/ ServerUp(r) \/ ServerEnds(r)
  \/ HeadStarts \/ PolicyReady \/ TeacherReady \/ ReadyTimeout \/ Polled \/ StopChildren
  \/ WorkerStarts \/ WorkerEnds \/ FullStarts \/ FullEnds
  \/ \E c \in Children : TrainingOver(c)
=============================================================================
