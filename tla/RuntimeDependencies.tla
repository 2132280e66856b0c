------------------------ MODULE RuntimeDependencies ------------------------
(***************************************************************************)
(* The packages every node imports, installed by the coordinator into an     *)
(* overlay directory on the shared file system, and the marker by which      *)
(* followers learn that they may import them.  What an installation does is   *)
(* in DependencyOverlay; here it is one interval with an outcome.            *)
(***************************************************************************)
EXTENDS LaunchNodes

VARIABLES
  depsState,  \* depsState[id]: status in the marker file of coordination id id
  overlay     \* overlay[id]: the directory the packages of that id go to

depsVars == <<depsState, overlay>>

DepsInit ==
  /\ depsState = [i \in 0..MaxLaunches |-> None]
  /\ overlay = [i \in 0..MaxLaunches |-> "absent"]

WriteDeps(s) == depsState' = [depsState EXCEPT ![CoordinationId] = s]
Overlay == overlay[CoordinationId]

BeginInstall(n) ==
  /\ Go(n, "deps", "installing")
  /\ Coordinator(n)
  /\ WriteDeps("installing")
  /\ UNCHANGED <<now, launch, began, faults, overlay>>

(* A package that can be imported is not installed again.                    *)
UnpackFirst(n) ==
  /\ pc[n] = "installing" /\ Overlay = "absent"
  /\ overlay' = [overlay EXCEPT ![CoordinationId] = "partial"]
  /\ UNCHANGED <<nodeVars, depsState>>

(* Mutant: the coordinator goes on without telling the others.               *)
FinishInstall_Silent(n) ==
  /\ Go(n, "installing", "engine")
  /\ Overlay # "absent"
  /\ overlay' = [overlay EXCEPT ![CoordinationId] = "complete"]
  /\ began' = [began EXCEPT ![n] = now]
  /\ UNCHANGED <<now, launch, faults, depsState>>

FinishInstall(n) ==
  /\ Go(n, "installing", "engine")
  /\ Overlay # "absent"
  /\ overlay' = [overlay EXCEPT ![CoordinationId] = "complete"]
  /\ WriteDeps("ready")
  /\ began' = [began EXCEPT ![n] = now]
  /\ UNCHANGED <<now, launch, faults>>

FailInstall(n) ==
  /\ Go(n, "installing", "failed")
  /\ Fault
  /\ WriteDeps("failed")
  /\ UNCHANGED <<now, launch, began, overlay>>

Follower(n) == pc[n] = "deps" /\ ~Coordinator(n)

(* The follower probes the imports itself before it starts the engine.       *)
FollowDeps(n) ==
  /\ Follower(n) /\ depsState[CoordinationId] = "ready"
  /\ pc' = [pc EXCEPT ![n] = IF Overlay = "complete" THEN "engine" ELSE "failed"]
  /\ began' = [began EXCEPT ![n] = now]
  /\ UNCHANGED <<now, launch, faults, depsVars>>

(* A "failed" marker ends the wait at once, however old it is.               *)
SeeFailedDeps(n) ==
  /\ Follower(n) /\ depsState[CoordinationId] = "failed"
  /\ pc' = [pc EXCEPT ![n] = "failed"]
  /\ UNCHANGED <<now, launch, began, faults, depsVars>>

DepsTimeout(n) ==
  /\ Follower(n) /\ depsState[CoordinationId] \notin {"ready", "failed"}
  /\ CoordinatorIsPast(Places \ Ended)
  /\ pc' = [pc EXCEPT ![n] = "failed"]
  /\ UNCHANGED <<now, launch, began, faults, depsVars>>

DepsStep(n) ==
  \/ BeginInstall(n) \/ UnpackFirst(n) \/ FinishInstall(n) \/ FailInstall(n)
  \/ FollowDeps(n) \/ SeeFailedDeps(n) \/ DepsTimeout(n)
=============================================================================
