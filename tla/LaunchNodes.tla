---------------------------- MODULE LaunchNodes ----------------------------
(***************************************************************************)
(* The nodes of a multi-node training launch: one wrapper process            *)
(* (src/src/train.py) per node, which becomes the engine                     *)
(* (src/src/train_engine.py) by exec.  The nodes share nothing but a file     *)
(* system.  A job is launched again after it has ended or was killed; files  *)
(* survive, processes do not.  This module holds what the components share.  *)
(***************************************************************************)
EXTENDS Integers, FiniteSets

CONSTANTS
  None,         \* the value of what is not there
  Nodes,        \* node ranks, 0 is the coordinator
  Profiles,     \* the ways a job is launched: records, see ProfileType
  Datasets,     \* what --dataset_path may name
  MaxLaunches,  \* bound: launches of the job
  MaxNow,       \* bound: last tick of the clock (unit: 15 seconds)
  MaxFaults     \* bound: failures and kills

ASSUME NodesAssumption == 0 \in Nodes /\ Nodes \subseteq Nat
ASSUME NoneAssumption == None \notin {"fetching", "installing", "ready", "failed"} /\ None \notin Nat \X Nat
ASSUME BoundsAssumption == {MaxLaunches, MaxNow, MaxFaults} \subseteq Nat

(* "wrapper": --logdir is given, so the wrapper names the run directory.     *)
(* "engine": it is not, and the engine does.  "argv": the engine does, and   *)
(* every node has its own --node_rank on its command line.  shared: the      *)
(* cluster gives no job id, so launches have the same coordination id.       *)
ProfileType ==
  [data: Datasets, naming: {"wrapper", "engine", "argv"}, ranked: BOOLEAN,
   shared: BOOLEAN, backend: {"sft", "prime_rl", "operator"}]

ASSUME ProfilesAssumption == Profiles \subseteq ProfileType

VARIABLES
  now,     \* wall clock of all nodes
  launch,  \* [no, the profile of the current launch]
  pc,      \* pc[n]: where the process of node n is
  began,   \* began[n]: when the process image of node n started
  faults   \* failures and kills so far

nodeVars == <<now, launch, pc, began, faults>>

Ended == {"failed", "done"}
Places ==
  {"off", "rundir", "repos", "fetching", "reexec", "deps", "installing", "engine",
   "prepare", "working", "writing", "building", "announcing", "awaiting", "train"} \cup Ended

(* Mutant: the job id is left out.                                           *)
CoordinationId_NoJob == 0

(* runtime_fetch_coordination_id: a job id is new with every launch; without *)
(* one the id is made of the master's address and the number of nodes.       *)
CoordinationId == IF launch.how.shared THEN 0 ELSE launch.no

(* node_rank in (None, 0): operator mode and an unknown rank coordinate with *)
(* nobody, every node does the work itself.                                  *)
Coordinator(n) == n = 0 \/ ~launch.how.ranked \/ launch.how.backend = "operator"

Go(n, from, to) == pc[n] = from /\ pc' = [pc EXCEPT ![n] = to]

(* Something the node did not choose goes wrong: it is counted.              *)
Fault == faults < MaxFaults /\ faults' = faults + 1

(* A deadline that followers have (5 min, 30 min, 24 h) passes only when the *)
(* coordinator will not write the marker any more.                           *)
CoordinatorIsPast(places) == pc[0] \notin places
=============================================================================
