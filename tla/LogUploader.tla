---------------------------- MODULE LogUploader ----------------------------
(***************************************************************************)
(* The engine's main and the thread that uploads the log directory while a   *)
(* training runs (PeriodicHFLogUploader of src/src/train_logging.py, main of  *)
(* src/src/train_engine.py).  A lock keeps the periodic and the final upload  *)
(* apart.                                                                    *)
(***************************************************************************)
EXTENDS CheckpointStore

ASSUME LockAssumption == None \notin {"main", "upl"}

VARIABLES
  main,     \* the engine: "start", "run", "stopping", "final", "uploading", "ended"
  upl,      \* the thread: "off", "waits", "due", "uploads", "ended"
  lock,     \* who holds the lock: None, "main", "upl"
  stopLogs, \* _stop_event
  logs      \* status of the logs in the repository; "lost": the final upload failed

logVars == <<main, upl, lock, stopLogs, logs>>

LogInit ==
  main = "start" /\ upl = "off" /\ lock = None /\ stopLogs = FALSE /\ logs = "none"

StartLogs ==
  /\ main = "start" /\ main' = "run"
  /\ upl' = IF profile.logs THEN "waits" ELSE "off"
  /\ UNCHANGED <<storeVars, lock, stopLogs, logs>>

(* _run: wait for the event or for the interval to pass.                     *)
IntervalPasses ==
  /\ upl = "waits" /\ ~stopLogs /\ upl' = "due"
  /\ UNCHANGED <<storeVars, main, lock, stopLogs, logs>>

SeesStop ==
  /\ upl = "waits" /\ stopLogs /\ upl' = "ended"
  /\ UNCHANGED <<storeVars, main, lock, stopLogs, logs>>

BeginPeriodic ==
  /\ upl = "due" /\ upl' = "uploads"
  /\ lock = None /\ lock' = "upl"
  /\ UNCHANGED <<storeVars, main, stopLogs, logs>>

(* Mutant: the lock is released only when the upload succeeds.               *)
EndPeriodic_KeepsLock ==
  /\ upl = "uploads"
  /\ \/ upl' = "waits" /\ logs' = "running" /\ lock' = None /\ UNCHANGED faults
     \/ upl' \in {"waits", "ended"} /\ Fault /\ UNCHANGED <<lock, logs>>
  /\ UNCHANGED <<profile, disabled, diskVars, converted, remoteVars, main, stopLogs>>

(* A failed upload is logged and the thread goes on.  An exception before    *)
(* it, where the metadata is written, ends the thread.                       *)
EndPeriodic ==
  /\ upl = "uploads" /\ lock' = None
  /\ \/ upl' = "waits" /\ logs' = "running" /\ UNCHANGED faults
     \/ upl' \in {"waits", "ended"} /\ Fault /\ UNCHANGED logs
  /\ UNCHANGED <<profile, disabled, diskVars, converted, remoteVars, main, stopLogs>>

(* The backend has returned or raised.                                       *)
BackendEnds ==
  /\ main = "run" /\ main' = "stopping"
  /\ stopLogs' = TRUE
  /\ UNCHANGED <<storeVars, upl, lock, logs>>

(* stop(): join for at most 30 seconds, which an upload may outlast; a       *)
(* thread that is only about to take the lock does not.                      *)
Joined ==
  /\ main = "stopping" /\ main' = "final"
  /\ upl \in {"off", "ended", "uploads"}
  /\ UNCHANGED <<storeVars, upl, lock, stopLogs, logs>>

(* Mutant: the final upload does not wait for the lock.                      *)
BeginFinal_NoLock ==
  /\ main = "final" /\ main' = "uploading"
  /\ UNCHANGED <<storeVars, upl, lock, stopLogs, logs>>

BeginFinal ==
  /\ main = "final" /\ main' = "uploading"
  /\ lock = None /\ lock' = "main"
  /\ UNCHANGED <<storeVars, upl, stopLogs, logs>>

EndFinal ==
  /\ main = "uploading" /\ main' = "ended" /\ lock' = None
  /\ \/ logs' = (IF profile.logs THEN "final" ELSE logs) /\ UNCHANGED faults
     \/ Fault /\ logs' = "lost"
  /\ UNCHANGED <<profile, disabled, diskVars, converted, remoteVars, upl, stopLogs>>

LogStep ==
  \/ StartLogs \/ Joined \/ BeginFinal \/ EndFinal
LogThreadStep == IntervalPasses \/ SeesStop \/ BeginPeriodic \/ EndPeriodic
=============================================================================
