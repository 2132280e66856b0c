------------------------------ MODULE Training ------------------------------
(***************************************************************************)
(* One training from the engine's start to its exit, for each backend: the   *)
(* trainer and what uploads its checkpoints and logs meanwhile.              *)
(***************************************************************************)
EXTENDS CheckpointCallback, HfWatcher, VerlWatcher, PrimeRoles, LogUploader

vars == <<storeVars, callbackVars, watcherVars, verlVars, primeVars, logVars>>

Init ==
  StoreInit /\ CallbackInit /\ WatcherInit /\ VerlInit /\ PrimeInit /\ LogInit

(* A backend works between StartLogs and BackendEnds.                        *)
Runs(backend) == profile.backend = backend /\ main = "run"

OlmoStep ==
  /\ Runs("olmo") /\ (TrainerStep \/ CrashTrainer)
  /\ UNCHANGED <<watcherVars, verlVars, primeVars, logVars>>
OlmoUpload ==
  /\ Runs("olmo") /\ UploaderStep
  /\ UNCHANGED <<watcherVars, verlVars, primeVars, logVars>>
Watching ==
  /\ profile.backend = "olmo" /\ WatcherStep
  /\ UNCHANGED <<callbackVars, verlVars, primeVars, logVars>>
Verl ==
  /\ Runs("verl") /\ (RunVerl \/ VerlStep)
  /\ UNCHANGED <<callbackVars, watcherVars, primeVars, logVars>>
VerlUpload ==
  /\ Runs("verl") /\ VerlWatcherStep
  /\ UNCHANGED <<callbackVars, watcherVars, primeVars, logVars>>
Prime ==
  /\ Runs("prime") /\ PrimeStep
  /\ UNCHANGED <<callbackVars, watcherVars, verlVars, logVars>>
PrimeFault ==
  /\ Runs("prime") /\ \E r \in Servers : ServerDies(r)
  /\ UNCHANGED <<callbackVars, watcherVars, verlVars, logVars>>

BackendIsOver ==
  CASE profile.backend = "olmo" -> tpc = "ended"
    [] profile.backend = "verl" -> child = "exited" /\ vpc = "ended"
    [] OTHER -> role["head"] = "ended"

Engine ==
  /\ LogStep \/ (BackendIsOver /\ BackendEnds)
  /\ UNCHANGED <<callbackVars, watcherVars, verlVars, primeVars>>
LogThread ==
  /\ LogThreadStep
  /\ UNCHANGED <<callbackVars, watcherVars, verlVars, primeVars>>
Marker ==
  /\ Disable
  /\ UNCHANGED <<callbackVars, watcherVars, verlVars, primeVars, logVars>>

Next ==
  \/ OlmoStep \/ OlmoUpload \/ Watching \/ Verl \/ VerlUpload
  \/ Prime \/ PrimeFault \/ Engine \/ LogThread \/ Marker

(* Threads and processes are scheduled; a save, a transfer or a conversion   *)
(* ends; a training is finite.                                               *)
Fairness ==
  /\ WF_vars(OlmoStep) /\ WF_vars(OlmoUpload) /\ WF_vars(Verl) /\ WF_vars(VerlUpload)
  /\ WF_vars(Prime) /\ WF_vars(Engine) /\ WF_vars(LogThread)

Spec == Init /\ [][Next]_vars /\ Fairness

-----------------------------------------------------------------------------
(* When a training has ended, the upload of every permanent checkpoint that  *)
(* any of its processes saved was tried while the folder was there: none was *)
(* pruned before, forgotten in a list or saved after the last look.  Of a    *)
(* VERL training, every checkpoint the trainer completed is uploaded or its  *)
(* upload failed.  It does not hold                                          *)
(*   - where uploading was switched off;                                     *)
(*   - where folders are pruned and a crash left half a folder, which takes  *)
(*     the place of a checkpoint then;                                       *)
(*   - of checkpoints whose upload was queued or under way at a crash: the   *)
(*     lists live in memory and a restart submits nothing again              *)
(*     (src/train_engine.py:1904, 2275);                                     *)
(*   - of the checkpoints from the one on at which an exception ended VERL's *)
(*     final scan, which nothing catches (src/train_engine.py:1843).         *)
EveryCheckpointIsTried ==
  (main = "ended" /\ ~UploadDisabled /\ (profile.keep > 0 => ~cut)) =>
    /\ owed \ ephemeral \subseteq orphaned
    /\ profile.backend = "verl" =>
         \A s \in Completed : (cutOff = 0 \/ s < cutOff) => s \in uploaded \cup gaveUp

(* With two or more to keep there is a whole checkpoint on disk at any time  *)
(* after the first save, also between making room for the next one and the   *)
(* end of its save -- unless a crash once left half a folder, which counts   *)
(* as a checkpoint when room is made.                                        *)
AWholeCheckpointRemains ==
  (latest > 0 /\ profile.keep >= 2 /\ ~cut) => \E s \in Steps : local[s] = "whole"

(* What the watcher has uploaded and marked, and so never looks at again, is *)
(* not half there, although the callback writes to the same place, prunes it *)
(* and removes the folder during the upload -- unless a restart went back    *)
(* behind it and the callback saves and uploads it once more.                *)
MarkedIsWhole ==
  ~behind => \A s \in Steps : mark[s] = "uploaded" => remoteHf[s] \notin {"part", "enough"}

(* What stays in the repository of the logs when the engine has ended is the *)
(* final upload or, if that failed, what was there: a periodic upload that   *)
(* outlasts stop() does not write the status "running" over it.              *)
FinalLogsStay == main = "ended" /\ profile.logs => logs \in {"final", "lost"}

(* No trainer, orchestrator or teacher that this engine started outlives it, *)
(* whichever of them ended first and however it ended.                       *)
Own == IF profile.split THEN {"trainer", "orchestrator"} ELSE {"teacher", "rl"}
NoChildIsLeft == main = "ended" => \A c \in Own : ~Alive(c)

(* Behind an engine that has ended nothing runs, and nothing is overwritten. *)
EngineEndsClean == FinalLogsStay /\ NoChildIsLeft

(* A training that was started comes to its end: no thread waits for another *)
(* for ever, and the thread of the logs ends too.                            *)
TrainingEnds == (main = "run") ~> [](main = "ended" /\ upl \in {"off", "ended"})
=============================================================================
