------------------------- MODULE CheckpointCallback -------------------------
(***************************************************************************)
(* The callback that uploads checkpoints and retains the newest              *)
(* (install_checkpoint_upload_and_retention_callback of                      *)
(* src/src/train_engine.py): hooks of the trainer's thread, and one upload    *)
(* thread that works off what the hooks submit.  The trainer itself and its  *)
(* CheckpointerCallback are OLMo-core's: they call the hooks in this order.  *)
(***************************************************************************)
EXTENDS CheckpointStore

VARIABLES
  tpc,      \* where the trainer's thread is
  step,     \* the optimizer step it is at
  latest,   \* the step of the last checkpoint of this process or resumed from
  target,   \* how many checkpoints the pruning under way leaves
  goOn,     \* where the thread goes after pruning
  known,    \* checkpoints this process has saved (_known_paths)
  pending,  \* of these, the ones not yet submitted
  future,   \* future[s]: the upload of step s in this process
  job,      \* [at, stage]: what the upload thread does
  cut,      \* a crash cut a save short and left half a folder
  behind,   \* a restart found no whole checkpoint as new as the last one saved
  owed,     \* checkpoints saved whole, by any process, of which no upload was tried since
  orphaned  \* of these, the ones a crash has left behind and that were not saved again

threadVars == <<tpc, step, latest, target, goOn>>
uploadVars == <<known, pending, future>>
pastVars == <<cut, behind, orphaned>>    \* history, like owed: nothing depends on it
callbackVars == <<threadVars, uploadVars, job, pastVars, owed>>

Stages == {"start", "upload", "convert", "converting", "uploadHf", "prune"}
Idle == [at |-> None, stage |-> "start"]

NoFutures == [s \in Steps |-> "none"]
CallbackInit ==
  /\ tpc = "off" /\ step = 0 /\ latest = 0 /\ target = 0 /\ goOn = "loop"
  /\ known = {} /\ pending = <<>> /\ future = NoFutures /\ job = Idle
  /\ cut = FALSE /\ behind = FALSE /\ owed = {} /\ orphaned = {}

(* _local_checkpoint_paths: every step folder, also one that is half written. *)
Existing == {s \in Steps : local[s] # "none"}

Unfinished(s) == future[s] \in {"queued", "running"}

(* _schedule_pending_uploads                                                 *)
Schedule ==
  /\ pending' = <<>> /\ UNCHANGED known
  /\ future' =
       [s \in Steps |->
          IF ~profile.upload THEN future[s]
          ELSE IF disabled THEN (IF future[s] = "queued" THEN "cancelled" ELSE future[s])
          ELSE IF future[s] = "none" /\ \E i \in DOMAIN pending : pending[i] = s THEN "queued"
          ELSE future[s]]

At(place) == tpc = place /\ UNCHANGED <<profile, disabled, converted, remoteVars>>
Quiet == UNCHANGED <<faults, diskVars>>

(* Mutant: the folder is removed although its upload has not ended.          *)
PruneOne_NoWait ==
  /\ At("pruning")
  /\ Cardinality(Existing) > target
  /\ local' = [local EXCEPT ![Min(Existing)] = "none"]
  /\ UNCHANGED <<faults, ephemeral, threadVars, uploadVars, job>>

(* _prune_local_checkpoints: from the oldest on, each only when no upload of  *)
(* it is under way or still to come.                                         *)
PruneOne ==
  /\ At("pruning")
  /\ Cardinality(Existing) > target
  /\ ~Unfinished(Min(Existing))
  /\ local' = [local EXCEPT ![Min(Existing)] = "none"]
  /\ UNCHANGED <<faults, ephemeral, threadVars, uploadVars, job>>

PruneEnds ==
  /\ At("pruning")
  /\ Cardinality(Existing) <= target
  /\ tpc' = goOn
  /\ UNCHANGED <<faults, diskVars, step, latest, target, goOn, uploadVars, job>>

(* An rmtree that fails ends the pruning.                                    *)
PruneFails ==
  /\ At("pruning")
  /\ Cardinality(Existing) > target /\ ~Unfinished(Min(Existing))
  /\ Fault
  /\ tpc' = goOn
  /\ UNCHANGED <<diskVars, step, latest, target, goOn, uploadVars, job>>

(* Prune to n and go on; a limit of 0 prunes nothing unless it is asked for. *)
PruneTo(n, place) == tpc' = "pruning" /\ target' = n /\ goOn' = place
PruneToKeep(place) ==
  IF profile.keep > 0 THEN PruneTo(profile.keep, place)
  ELSE tpc' = place /\ UNCHANGED <<target, goOn>>

(* The trainer loads the newest whole checkpoint; then pre_train.            *)
PreTrain ==
  /\ profile.backend = "olmo"
  /\ At("off") /\ Quiet
  /\ step' = Max({0} \cup {s \in Steps : local[s] = "whole"})
  /\ latest' = step'
  /\ PruneToKeep("loop")
  /\ UNCHANGED <<uploadVars, job>>

TrainBatch ==
  /\ At("loop") /\ Quiet
  /\ step < MaxStep
  /\ step' = step + 1 /\ tpc' = "batch"
  /\ UNCHANGED <<latest, target, goOn, uploadVars, job>>

(* effective_checkpoint_intervals, _checkpoint_save_due_this_step            *)
Permanent(s) == s % profile.interval = 0
Fleeting(s) == profile.fleeting \in 1..(profile.interval - 1) /\ s % profile.fleeting = 0
Due(s) == Permanent(s) \/ Fleeting(s)

(* Mutant: room is made for two checkpoints.                                 *)
MakeRoom_Two(place) == PruneTo(Max({0, profile.keep - 2}), place)

(* Before a save the folders are pruned to one less than will be kept.       *)
MakeRoom(place) == PruneTo(Max({0, profile.keep - 1}), place)

PostTrainBatch ==
  /\ At("batch") /\ Quiet
  /\ IF Due(step) /\ profile.keep > 0
       THEN Schedule /\ MakeRoom("save")
       ELSE /\ tpc' = IF Due(step) THEN "save" ELSE "poststep"
            /\ UNCHANGED <<target, goOn, uploadVars>>
  /\ UNCHANGED <<step, latest, job>>

SaveBegins ==
  /\ tpc \in {"save", "last"} /\ At(tpc)
  /\ local' = [local EXCEPT ![step] = "part"]
  /\ ephemeral' = IF tpc = "save" /\ ~Permanent(step) THEN ephemeral \cup {step} ELSE ephemeral \ {step}
  /\ tpc' = "saving"
  /\ goOn' = IF tpc = "save" THEN "poststep" ELSE "close"
  /\ UNCHANGED <<faults, step, latest, target, uploadVars, job>>

(* post_checkpoint_saved                                                     *)
PostCheckpointSaved ==
  /\ At("saving")
  /\ local' = [local EXCEPT ![step] = "whole"]
  /\ latest' = step
  /\ known' = known \cup {step}
  /\ pending' = IF profile.upload THEN Append(pending, step) ELSE pending
  /\ PruneToKeep(goOn)
  /\ UNCHANGED <<faults, ephemeral, step, future, job>>

PostStep ==
  /\ At("poststep") /\ Quiet
  /\ Schedule
  /\ tpc' = "loop"
  /\ UNCHANGED <<step, latest, target, goOn, job>>

(* post_train of the callback, then of the checkpointer, which saves if the  *)
(* last step has no checkpoint yet.                                          *)
PostTrain ==
  /\ At("loop") /\ Quiet
  /\ step = MaxStep
  /\ IF profile.keep > 0 /\ step > latest
       THEN Schedule /\ MakeRoom("last")
       ELSE /\ tpc' = "drain" /\ goOn' = IF step > latest THEN "last" ELSE "close"
            /\ UNCHANGED <<target, uploadVars>>
  /\ UNCHANGED <<step, latest, job>>

(* A batch raises: on_error.                                                 *)
OnError ==
  /\ At("batch")
  /\ Fault
  /\ tpc' = "drain" /\ goOn' = "close"
  /\ UNCHANGED <<diskVars, step, latest, target, uploadVars, job>>

(* _drain_uploads: submit, wait for every future, prune -- or nothing when   *)
(* uploading is switched off.                                                *)
Drain ==
  /\ At("drain") /\ Quiet
  /\ Schedule
  /\ tpc' = IF UploadDisabled THEN goOn ELSE "waiting"
  /\ UNCHANGED <<step, latest, target, goOn, job>>

Drained ==
  /\ At("waiting") /\ Quiet
  /\ \A s \in Steps : ~Unfinished(s)
  /\ PruneToKeep(goOn)
  /\ UNCHANGED <<step, latest, uploadVars, job>>

Close ==
  /\ At("close") /\ Quiet
  /\ tpc' = "drain" /\ goOn' = "shutdown"
  /\ UNCHANGED <<step, latest, target, uploadVars, job>>

Shutdown ==
  /\ At("shutdown") /\ Quiet
  /\ \A s \in Steps : ~Unfinished(s)
  /\ tpc' = "ended"
  /\ UNCHANGED <<step, latest, target, goOn, uploadVars, job>>

(* The process is killed; the job is started again on the same directory.    *)
(* What was queued or under way lived in memory, and pre_train does not      *)
(* submit it again.                                                          *)
CrashTrainer ==
  /\ tpc \notin {"off", "ended"} /\ At(tpc)
  /\ Fault
  /\ cut' = (cut \/ tpc = "saving")
  /\ tpc' = "off" /\ known' = {} /\ pending' = <<>> /\ future' = NoFutures /\ job' = Idle
  /\ orphaned' = orphaned \cup owed
  /\ UNCHANGED <<diskVars, step, latest, target, goOn, behind, owed>>

TrainerStep ==
  /\ UNCHANGED cut
  /\ \/ PruneOne \/ PruneEnds \/ PruneFails \/ PreTrain \/ TrainBatch \/ PostTrainBatch
     \/ SaveBegins \/ PostCheckpointSaved \/ PostStep \/ PostTrain \/ OnError
     \/ Drain \/ Drained \/ Close \/ Shutdown
  /\ behind' = (behind \/ latest' < latest)
  /\ owed' = owed \cup (known' \ known)
  /\ orphaned' = orphaned \ (known' \ known)

-----------------------------------------------------------------------------
(* The upload thread, _upload_checkpoint_and_prune_remote.                   *)

In(stage) ==
  job.at # None /\ job.stage = stage /\ UNCHANGED <<profile, disabled, diskVars, threadVars, known, pending, pastVars>>
ToStage(stage) == job' = [job EXCEPT !.stage = stage] /\ UNCHANGED future
Ends(how) == job' = Idle /\ future' = [future EXCEPT ![job.at] = how]

TakeUpload ==
  /\ job.at = None
  /\ \E s \in Steps : future[s] = "queued"
  /\ LET s == Min({x \in Steps : future[x] = "queued"}) IN
       /\ job' = [at |-> s, stage |-> "start"]
       /\ future' = [future EXCEPT ![s] = "running"]
  /\ UNCHANGED <<storeVars, threadVars, known, pending, pastVars>>

StartUpload ==
  /\ In("start")
  /\ IF UploadDisabled \/ local[job.at] = "none" \/ job.at \in ephemeral
       THEN Ends("skipped") ELSE ToStage("upload")
  /\ UNCHANGED <<faults, converted, remoteVars>>

(* _upload_large_folder_to_hf of the checkpoint                              *)
UploadPiece ==
  /\ In("upload")
  /\ Attempted(remote, job.at) /\ Piece(remote, job.at)
  /\ remote' = [remote EXCEPT ![job.at] = Grown(@)]
  /\ UNCHANGED <<faults, future, job, converted, remoteHf>>

UploadEnds ==
  /\ In("upload")
  /\ ~Piece(remote, job.at) /\ local[job.at] = "whole"
  /\ remote' = [remote EXCEPT ![job.at] = "whole"]
  /\ ToStage("convert")
  /\ UNCHANGED <<faults, converted, remoteHf>>

(* All attempts failed, or the next one finds the marker file.  The folder   *)
(* is not submitted again.                                                   *)
UploadFails ==
  /\ In("upload")
  /\ IF disabled \/ local[job.at] = "none" THEN UNCHANGED faults ELSE Fault
  /\ Ends(IF local[job.at] = "none" THEN "skipped" ELSE "tried")
  /\ UNCHANGED <<converted, remoteVars>>

(* _convert_checkpoint_to_hf: a folder with its completion marker is reused,  *)
(* one without is removed and built again.                                   *)
Convert ==
  /\ In("convert")
  /\ IF ~profile.convert \/ disabled THEN ToStage("prune") /\ UNCHANGED converted
     ELSE IF converted[job.at] = "whole" THEN ToStage("uploadHf") /\ UNCHANGED converted
     ELSE ToStage("converting") /\ converted' = [converted EXCEPT ![job.at] = "part"]
  /\ UNCHANGED <<faults, remoteVars>>

ConvertWrites ==
  /\ In("converting")
  /\ converted[job.at] = "part"
  /\ converted' = [converted EXCEPT ![job.at] = "enough"]
  /\ UNCHANGED <<faults, future, job, remoteVars>>

ConvertEnds ==
  /\ In("converting")
  /\ converted[job.at] = "enough"
  /\ converted' = [converted EXCEPT ![job.at] = "whole"]
  /\ ToStage("uploadHf")
  /\ UNCHANGED <<faults, remoteVars>>

ConvertFails ==
  /\ In("converting")
  /\ Fault
  /\ ToStage("prune")
  /\ UNCHANGED <<converted, remoteVars>>

UploadHfPiece ==
  /\ In("uploadHf")
  /\ Attempted(remoteHf, job.at) /\ Piece(remoteHf, job.at)
  /\ remoteHf' = [remoteHf EXCEPT ![job.at] = Grown(@)]
  /\ UNCHANGED <<faults, future, job, converted, remote>>

(* _convert_and_upload_hf_checkpoint: after its upload the converted folder  *)
(* is removed, whoever else reads it.                                        *)
UploadHfEnds ==
  /\ In("uploadHf")
  /\ ~Piece(remoteHf, job.at)
  /\ remoteHf' = [remoteHf EXCEPT ![job.at] = "whole"]
  /\ converted' = IF profile.keepConverted THEN converted ELSE [converted EXCEPT ![job.at] = "none"]
  /\ ToStage("prune")
  /\ UNCHANGED <<faults, remote>>

UploadHfFails ==
  /\ In("uploadHf")
  /\ IF disabled THEN UNCHANGED faults ELSE Fault
  /\ ToStage("prune")
  /\ UNCHANGED <<converted, remoteVars>>

(* _prune_remote_checkpoints: all but the newest steps, counted over what is *)
(* listed, in both forms.  Listing or deleting may fail.                     *)
Listed == {s \in Steps : remote[s] # "none" \/ remoteHf[s] # "none"}
Outdated == {s \in Listed : Cardinality({t \in Listed : t > s}) >= profile.remoteKeep}

PruneRemote ==
  /\ In("prune")
  /\ Ends("tried")
  /\ IF UploadDisabled \/ profile.remoteKeep = 0 THEN UNCHANGED <<faults, remoteVars>>
     ELSE \E gone \in {Outdated, {}} :
            /\ IF gone = Outdated THEN UNCHANGED faults ELSE Fault
            /\ remote' = [s \in Steps |-> IF s \in gone THEN "none" ELSE remote[s]]
            /\ remoteHf' = [s \in Steps |-> IF s \in gone THEN "none" ELSE remoteHf[s]]
  /\ UNCHANGED converted

UploaderStep ==
  /\ \/ TakeUpload \/ StartUpload \/ UploadPiece \/ UploadEnds \/ UploadFails
     \/ Convert \/ ConvertWrites \/ ConvertEnds \/ ConvertFails
     \/ UploadHfPiece \/ UploadHfEnds \/ UploadHfFails \/ PruneRemote
  /\ owed' = {s \in owed : future'[s] # "tried"}
=============================================================================
