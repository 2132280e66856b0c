---------------------------- MODULE VerlWatcher ----------------------------
(***************************************************************************)
(* An external trainer run as a child process, and the thread beside it that *)
(* uploads its checkpoints (run_verl_command_with_checkpoint_watcher and     *)
(* watch_verl_checkpoints_for_hf_upload of src/src/train_engine.py).  The     *)
(* trainer writes global_step_N and then the number N to a tracker file.     *)
(***************************************************************************)
EXTENDS CheckpointStore

VARIABLES
  child,    \* the external trainer: "off", "runs", "saves", "exited"
  tracker,  \* the step in the tracker file
  vpc,      \* where the watcher thread is
  stop,     \* stop_event
  todo,     \* completed checkpoints of the scan under way
  uploaded, \* the thread's set of uploaded steps, which it writes to the state file
  gaveUp,   \* steps whose upload failed in the final scan
  cutOff    \* history: the step at which an exception ended the final scan, or 0

verlVars == <<child, tracker, vpc, stop, todo, uploaded, gaveUp, cutOff>>

VerlInit ==
  /\ child = "off" /\ tracker = 0 /\ vpc = "off" /\ stop = FALSE
  /\ todo = {} /\ uploaded = {} /\ gaveUp = {} /\ cutOff = 0

Still == UNCHANGED <<profile, disabled, ephemeral, converted, remoteHf>>

(* Without uploads the command is run alone.                                 *)
RunVerl ==
  /\ child = "off" /\ child' = "runs"
  /\ vpc' = IF profile.upload THEN "check" ELSE "ended"
  /\ UNCHANGED <<storeVars, tracker, stop, todo, uploaded, gaveUp, cutOff>>

VerlSaves ==
  /\ child = "runs" /\ tracker < MaxStep
  /\ child' = "saves"
  /\ local' = [local EXCEPT ![tracker + 1] = "part"]
  /\ Still /\ UNCHANGED <<faults, remote, tracker, vpc, stop, todo, uploaded, gaveUp, cutOff>>

VerlSaved ==
  /\ child = "saves" /\ child' = "runs"
  /\ local' = [local EXCEPT ![tracker + 1] = "whole"]
  /\ tracker' = tracker + 1
  /\ Still /\ UNCHANGED <<faults, remote, vpc, stop, todo, uploaded, gaveUp, cutOff>>

(* The child ends; the finally clause sets the event.                        *)
VerlExits ==
  /\ child \in {"runs", "saves"} /\ child' = "exited"
  /\ IF tracker = MaxStep THEN UNCHANGED faults ELSE Fault
  /\ stop' = TRUE
  /\ Still /\ UNCHANGED <<local, remote, tracker, vpc, todo, uploaded, gaveUp, cutOff>>

(* completed_verl_checkpoint_paths, less what is uploaded                    *)
Completed == {s \in Steps : s <= tracker /\ local[s] # "none"}

BeginVerlScan ==
  /\ vpc = "check" /\ vpc' = "scan"
  /\ todo' = IF disabled THEN {} ELSE Completed \ uploaded
  /\ UNCHANGED <<storeVars, child, tracker, stop, uploaded, gaveUp, cutOff>>

(* One checkpoint after the other, the oldest first; a success is written to *)
(* the state file.                                                           *)
VerlPiece ==
  /\ vpc \in {"scan", "final"} /\ todo # {}
  /\ Attempted(remote, Min(todo)) /\ Piece(remote, Min(todo))
  /\ remote' = [remote EXCEPT ![Min(todo)] = Grown(@)]
  /\ Still /\ UNCHANGED <<faults, local, verlVars>>

VerlUploads ==
  /\ vpc \in {"scan", "final"} /\ todo # {}
  /\ ~Piece(remote, Min(todo))
  /\ remote' = [remote EXCEPT ![Min(todo)] = local[Min(todo)]]
  /\ uploaded' = uploaded \cup {Min(todo)}
  /\ todo' = todo \ {Min(todo)}
  /\ Still /\ UNCHANGED <<faults, local, child, tracker, vpc, stop, gaveUp, cutOff>>

(* The upload returns False: its attempts failed, or there is the marker.    *)
(* The scan goes on.                                                         *)
VerlFails ==
  /\ vpc \in {"scan", "final"} /\ todo # {}
  /\ IF disabled THEN UNCHANGED faults ELSE Fault
  /\ todo' = todo \ {Min(todo)}
  /\ gaveUp' = IF vpc = "final" THEN gaveUp \cup {Min(todo)} ELSE gaveUp
  /\ Still /\ UNCHANGED <<local, remote, child, tracker, vpc, stop, uploaded, cutOff>>

(* An exception drops the rest of a scan.  It is caught in the loop, where   *)
(* the next scan finds the rest again, but not in the final scan: there it   *)
(* ends the thread.                                                          *)
ScanBreaksOff ==
  /\ vpc \in {"scan", "final"} /\ todo # {}
  /\ Fault
  /\ todo' = {}
  /\ vpc' = IF vpc = "final" THEN "ended" ELSE vpc
  /\ cutOff' = IF vpc = "final" THEN Min(todo) ELSE cutOff
  /\ Still /\ UNCHANGED <<local, child, tracker, stop, gaveUp>>

(* prepare_checkpoint_large_upload_staging raises, outside the try.          *)
VerlStagingRaises ==
  /\ ScanBreaksOff
  /\ ~disabled
  /\ UNCHANGED <<remote, uploaded>>

(* write_checkpoint_upload_state raises behind an upload that succeeded.     *)
VerlRecordRaises ==
  /\ ScanBreaksOff
  /\ ~Piece(remote, Min(todo))
  /\ remote' = [remote EXCEPT ![Min(todo)] = local[Min(todo)]]
  /\ uploaded' = uploaded \cup {Min(todo)}

(* Mutant: the thread leaves without a last scan.                            *)
EndVerlScan_NoFinal ==
  /\ vpc = "scan" /\ todo = {}
  /\ vpc' = IF stop THEN "ended" ELSE "check"
  /\ UNCHANGED <<storeVars, child, tracker, stop, todo, uploaded, gaveUp, cutOff>>

(* After a scan the thread looks at the event; once it is set, one more scan *)
(* finds what was saved after the last one had begun.                        *)
EndVerlScan ==
  /\ vpc = "scan" /\ todo = {}
  /\ vpc' = IF stop THEN "final" ELSE "check"
  /\ todo' = IF stop /\ ~disabled THEN Completed \ uploaded ELSE {}
  /\ UNCHANGED <<storeVars, child, tracker, stop, uploaded, gaveUp, cutOff>>

EndFinalScan ==
  /\ vpc = "final" /\ todo = {}
  /\ vpc' = "ended"
  /\ UNCHANGED <<storeVars, child, tracker, stop, todo, uploaded, gaveUp, cutOff>>

VerlStep == VerlSaves \/ VerlSaved \/ VerlExits
VerlWatcherStep ==
  \/ BeginVerlScan \/ VerlPiece \/ VerlUploads \/ VerlFails
  \/ VerlStagingRaises \/ VerlRecordRaises \/ EndVerlScan \/ EndFinalScan
=============================================================================
