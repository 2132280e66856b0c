------------------------------- MODULE Launch -------------------------------
(***************************************************************************)
(* A training job from its start on every node to training: run directory,   *)
(* runtime repositories, runtime dependencies, preparation of the engine,    *)
(* over several launches of the same job, with a crash between any two steps.*)
(***************************************************************************)
EXTENDS SftCache, RuntimeRepos, RuntimeDependencies, EnginePreparation

CONSTANT Gap   \* ticks that pass before the scheduler launches the job again

(* The slack of the run-directory marker is meant to be shorter than that.  *)
ASSUME GapAssumption == Gap \in Nat /\ Gap > Slack

diskVars == <<repoVars, depsVars>>
launchVars == <<nodeVars, dirVars, diskVars, prepVars, sftVars>>

LaunchInit ==
  /\ now = 0 /\ faults = 0
  /\ launch = [no |-> 0, how |-> None]
  /\ pc = [n \in Nodes |-> "done"]
  /\ began = [n \in Nodes |-> 0]
  /\ DirInit /\ RepoInit /\ DepsInit /\ PrepInit /\ SftInit

AllEnded == \A n \in Nodes : pc[n] \in Ended

(* The scheduler starts the job; its nodes come up one by one.               *)
NewLaunch(how) ==
  /\ AllEnded /\ launch.no < MaxLaunches
  /\ launch' = [no |-> launch.no + 1, how |-> how]
  /\ now' = IF launch.no = 0 THEN now ELSE now + Gap
  /\ pc' = [n \in Nodes |-> "off"]
  /\ dirOf' = [n \in Nodes |-> None]
  /\ step' = [n \in Nodes |-> 1]
  /\ UNCHANGED <<began, faults, dirMarker, diskVars, sftVars, done, failed, product, cutShort>>

Boot(n) ==
  /\ Go(n, "off", "rundir")
  /\ began' = [began EXCEPT ![n] = now]
  /\ UNCHANGED <<now, launch, faults, dirVars, diskVars, prepVars, sftVars>>

(* The process of one node dies; what it was doing stays half done.          *)
Crash(n) ==
  /\ pc[n] \notin {"off"} \cup Ended
  /\ Fault
  /\ pc' = [pc EXCEPT ![n] = "failed"]
  /\ todo' = [todo EXCEPT ![n] = <<>>]
  /\ git' = [git EXCEPT ![n] = "idle"]
  /\ cutShort' = (cutShort \/ pc[n] = "writing")
  /\ UNCHANGED <<now, launch, began, dirVars, fetchState, tree, indexLock, depsVars,
                 step, done, failed, product, sftVars>>

(* torchrun needs all nodes; operators work each for itself.                 *)
Train ==
  /\ \A n \in Nodes : pc[n] = "train"
  /\ pc' = [n \in Nodes |-> "done"]
  /\ UNCHANGED <<now, launch, began, faults, dirVars, diskVars, prepVars, sftVars>>

(* A node failed: the scheduler ends the launch on the others.               *)
GiveUp ==
  /\ \E n \in Nodes : pc[n] = "failed"
  /\ ~AllEnded
  /\ pc' = [n \in Nodes |-> "failed"]
  /\ todo' = [n \in Nodes |-> <<>>]
  /\ git' = [n \in Nodes |-> "idle"]
  /\ cutShort' = (cutShort \/ \E n \in Nodes : pc[n] = "writing")
  /\ UNCHANGED <<now, launch, began, faults, dirVars, fetchState, tree, indexLock, depsVars,
                 step, done, failed, product, sftVars>>

Tick ==
  /\ now < MaxNow /\ ~AllEnded
  /\ now' = now + 1
  /\ UNCHANGED <<launch, pc, began, faults, dirVars, diskVars, prepVars, sftVars>>

NodeStep(n) ==
  \/ Boot(n)
  \/ RunDirStep(n) /\ UNCHANGED <<diskVars, prepVars, sftVars>>
  \/ ReposStep(n) /\ UNCHANGED <<dirVars, depsVars, prepVars, sftVars>>
  \/ DepsStep(n) /\ UNCHANGED <<dirVars, repoVars, prepVars, sftVars>>
  \/ PrepStep(n) /\ UNCHANGED <<dirVars, diskVars, sftVars>>
  \/ SftStep(n) /\ UNCHANGED <<diskVars, prepVars>>

LaunchStep ==
  \/ \E how \in Profiles : NewLaunch(how)
  \/ \E n \in Nodes : NodeStep(n) \/ Crash(n)
  \/ Train \/ GiveUp \/ Tick

-----------------------------------------------------------------------------
(* A node starts to train only when dataset and checkpoint are there as a    *)
(* whole -- unless a preparation was once cut short in this cache.           *)
TrainsOnWholeProducts ==
  \A n \in Nodes : pc[n] = "train" =>
    /\ launch.how.backend = "sft" /\ ~cutShort => product["tokens"].whole /\ product["checkpoint"].whole
    /\ launch.how.backend = "prime_rl" => launch.how.data \in cached

(* Nodes that know their ranks work in the same directory, although a marker *)
(* of an earlier launch with the same command line is still there.           *)
OneRunDirectory ==
  (launch.no > 0 /\ launch.how.ranked) =>
    \A m, n \in Nodes : dirOf[m] # None /\ dirOf[n] # None => dirOf[m] = dirOf[n]

(* A launch is not misled by the files of earlier ones: its nodes agree on  *)
(* one run directory, and, with a job id of its own, no follower goes on     *)
(* before its own coordinator has fetched and installed.                     *)
LaunchIsItsOwn ==
  /\ OneRunDirectory
  /\ \A n \in Nodes :
       (launch.no > 0 /\ ~launch.how.shared /\ ~Coordinator(n)) =>
         /\ pc[n] = "deps" => pc[0] \notin {"off", "rundir", "repos", "fetching"}
         /\ pc[n] = "engine" => pc[0] \notin {"off", "rundir", "repos", "fetching", "reexec", "deps", "installing"}

(* A follower started more than Slack after node 0 had named the directory:  *)
(* it takes the marker for one of an earlier launch.                         *)
StartedTooLate ==
  \E n \in Nodes : dirOf[n] = None /\ dirMarker[0].name = <<launch.no, 0>> /\ ~Fresh(n, dirMarker[0])

(* A launch whose nodes wait for node 0 and find its marker.  Nodes that     *)
(* coordinate with nobody clone into the same directory, and who is late     *)
(* fails; if they share an id with others, those may read of it.             *)
Coordinated(how) == how.ranked /\ how.backend # "operator"
WellNamed ==
  /\ launch.no > 0 /\ Coordinated(launch.how) /\ launch.how.naming # "argv"
  /\ launch.how.shared => \A how \in Profiles : how.shared => Coordinated(how)

(* While nothing has failed or been killed, no node of such a launch fails: *)
(* none is turned away by what earlier launches left in state files, markers *)
(* and directories, by what others are about to write, or by a deadline      *)
(* that passes -- but for a node that comes up too late for the marker of    *)
(* the run directory.                                                        *)
NobodyIsTurnedAway ==
  (faults = 0 /\ WellNamed /\ ~StartedTooLate) => \A n \in Nodes : pc[n] # "failed"

(* And every such launch trains, nobody waits for ever.                      *)
AllOff == \A n \in Nodes : pc[n] = "off"
Trained == \A n \in Nodes : pc[n] = "done"
FaultlessLaunchTrains ==
  (WellNamed /\ AllOff) ~> (faults > 0 \/ StartedTooLate \/ Trained)
=============================================================================
