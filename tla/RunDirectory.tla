---------------------------- MODULE RunDirectory ----------------------------
(***************************************************************************)
(* One run directory for all nodes.  Node 0 invents a name and writes it to  *)
(* a marker file; followers take the marker if it was written at most Slack   *)
(* before they started (15 s), so that one of an earlier launch is ignored.  *)
(***************************************************************************)
EXTENDS LaunchNodes

CONSTANT Slack
ASSUME SlackAssumption == Slack \in Nat

VARIABLES
  dirMarker,  \* dirMarker[k]: [name, at] in the marker file with key k, or None
  dirOf       \* dirOf[n]: the run directory node n uses, or None

dirVars == <<dirMarker, dirOf>>

DirInit ==
  /\ dirMarker = [k \in Nodes |-> [name |-> None]]
  /\ dirOf = [n \in Nodes |-> None]

(* top_level_run_dir_enabled: operator mode has no run directory.            *)
WantsDir(n) == launch.how.backend # "operator" /\ dirOf[n] = None

(* run_dir_marker_path: the engine's fingerprint is taken over the raw       *)
(* command line; the wrapper's replaces the node's rank by a placeholder.    *)
MarkerKey(n) == IF launch.how.naming = "argv" THEN n ELSE 0

(* Mutant: a marker of any age is taken.                                     *)
Fresh_AnyAge(n, m) == m.name # None

Fresh(n, m) == m.name # None /\ m.at >= began[n] - Slack

(* coordinated_timestamp_run_dir_name, rank unknown: a name of its own.      *)
NamesAlone(n) ==
  /\ ~launch.how.ranked
  /\ dirOf' = [dirOf EXCEPT ![n] = <<launch.no, n>>]
  /\ UNCHANGED dirMarker

NamesForAll(n) ==
  /\ launch.how.ranked /\ n = 0
  /\ dirOf' = [dirOf EXCEPT ![n] = <<launch.no, n>>]
  /\ dirMarker' = [dirMarker EXCEPT ![MarkerKey(n)] = [name |-> <<launch.no, n>>, at |-> now]]

TakesTheMarker(n) ==
  /\ launch.how.ranked /\ n # 0
  /\ Fresh(n, dirMarker[MarkerKey(n)])
  /\ dirOf' = [dirOf EXCEPT ![n] = dirMarker[MarkerKey(n)].name]
  /\ UNCHANGED dirMarker

ChooseDir(n) == NamesAlone(n) \/ NamesForAll(n) \/ TakesTheMarker(n)

(* prepare_wrapper_run_directory: with --logdir the wrapper resolves the     *)
(* name and hands it on in OLMO_RUN_DIR_NAME, which re-execution and engine  *)
(* then find as an explicit name.                                            *)
WrapperRunDir(n) ==
  /\ Go(n, "rundir", "repos")
  /\ IF launch.how.naming = "wrapper" /\ WantsDir(n)
       THEN ChooseDir(n)
       ELSE UNCHANGED dirVars
  /\ UNCHANGED <<now, launch, began, faults>>

(* ensure_output_and_logdir of the SFT engine and of the operator; Prime-RL's *)
(* engine uses the wrapper's name or, without one, a directory per process.  *)
EngineRunDir(n) ==
  /\ Go(n, "engine", IF launch.how.backend = "operator" THEN "train" ELSE "prepare")
  /\ launch.how.backend # "prime_rl"
  /\ IF WantsDir(n) THEN ChooseDir(n) ELSE UNCHANGED dirVars
  /\ UNCHANGED <<now, launch, began, faults>>

(* The 300 seconds pass: node 0 has written what it will write.              *)
RunDirTimeout(n) ==
  /\ pc[n] \in {"rundir", "engine"} /\ n # 0 /\ launch.how.ranked /\ WantsDir(n)
  /\ IF pc[n] = "rundir" THEN launch.how.naming = "wrapper" ELSE launch.how.backend = "sft"
  /\ ~Fresh(n, dirMarker[MarkerKey(n)])
  /\ CoordinatorIsPast({"off", "rundir", "repos", "fetching", "reexec", "deps", "installing", "engine"})
  /\ pc' = [pc EXCEPT ![n] = "failed"]
  /\ UNCHANGED <<now, launch, began, faults, dirVars>>

RunDirStep(n) == WrapperRunDir(n) \/ EngineRunDir(n) \/ RunDirTimeout(n)
=============================================================================
