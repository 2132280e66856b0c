----------------------------- MODULE HfWatcher -----------------------------
(***************************************************************************)
(* The watcher of converted checkpoints (src/src/hf_checkpoint_watcher.py):   *)
(* a process of its own that scans for folders "step*-hf", uploads those that *)
(* look complete and stay as they are, and keeps a state file for each.  It  *)
(* uploads to the same place as the callback does.                           *)
(***************************************************************************)
EXTENDS CheckpointStore

VARIABLES
  hpc,     \* where the watcher is
  scan,    \* [todo, seen]: folders still to look at, repository as listed
  folder,  \* [at, content]: the folder in hand and its first snapshot
  mark     \* mark[s]: "uploaded", "trusted" (adopted from the listing) or "no"

watcherVars == <<hpc, scan, folder, mark>>

NoFolder == [at |-> None, content |-> "none"]
Nothing == [s \in Steps |-> "none"]

WatcherInit ==
  /\ hpc = "sleep" /\ scan = [todo |-> {}, seen |-> Nothing] /\ folder = NoFolder
  /\ mark = [s \in Steps |-> "no"]

(* iter_candidate_folders and list_remote_files: one listing for a scan, an  *)
(* empty one if it fails.                                                    *)
BeginScan ==
  /\ profile.convert
  /\ hpc = "sleep" /\ hpc' = "scan"
  /\ \E s \in Steps : converted[s] # "none"
  /\ \E seen \in {remoteHf, Nothing} :
       /\ IF seen = remoteHf THEN UNCHANGED faults ELSE Fault
       /\ scan' = [todo |-> {s \in Steps : converted[s] # "none"}, seen |-> seen]
  /\ UNCHANGED <<profile, disabled, diskVars, converted, remoteVars, folder, mark>>

(* The names listed: the required files and enough shards.                   *)
RemoteFolderComplete(s) == scan.seen[s] \in LooksComplete

(* One candidate of scan_once: inspect_hf_folder, remote_folder_complete,    *)
(* read_uploaded_state.                                                      *)
Inspect(s) ==
  /\ hpc = "scan" /\ s \in scan.todo
  /\ scan' = [scan EXCEPT !.todo = @ \ {s}]
  /\ LET ready == converted[s] \in LooksComplete
         there == RemoteFolderComplete(s)
         take  == ready /\ ~there /\ mark[s] = "no"
     IN /\ mark' = IF ready /\ there THEN [mark EXCEPT ![s] = "trusted"] ELSE mark
        /\ folder' = IF take THEN [at |-> s, content |-> converted[s]] ELSE folder
        /\ hpc' = IF take THEN "watch" ELSE hpc
  /\ UNCHANGED storeVars

(* Mutant: the folder is not watched before it is uploaded.                  *)
StableEnough_Blind == TRUE

(* folder_is_stable.  A writer is at work on a folder that is not whole, and *)
(* is taken to write more often than the two snapshots are apart.            *)
StableEnough == converted[folder.at] = folder.content /\ folder.content = "whole"

Watch ==
  /\ hpc = "watch"
  /\ hpc' = IF StableEnough THEN "upload" ELSE "scan"
  /\ folder' = IF StableEnough THEN folder ELSE NoFolder
  /\ UNCHANGED <<storeVars, scan, mark>>

WatcherPiece ==
  /\ hpc = "upload"
  /\ Piece(remoteHf, folder.at)
  /\ remoteHf' = [remoteHf EXCEPT ![folder.at] = Grown(@)]
  /\ UNCHANGED <<profile, faults, disabled, diskVars, converted, remote, watcherVars>>

(* The staged links lead to the folder as it is now.                         *)
WatcherUploads ==
  /\ hpc = "upload" /\ hpc' = "scan"
  /\ ~Piece(remoteHf, folder.at) /\ converted[folder.at] \in LooksComplete
  /\ remoteHf' = [remoteHf EXCEPT ![folder.at] = IF @ = "whole" THEN @ ELSE converted[folder.at]]
  /\ mark' = [mark EXCEPT ![folder.at] = "uploaded"]
  /\ folder' = NoFolder
  /\ UNCHANGED <<profile, faults, disabled, diskVars, converted, remote, scan>>

(* The upload fails, or the folder has gone; the next scan tries again.      *)
WatcherFails ==
  /\ hpc = "upload" /\ hpc' = "scan"
  /\ IF converted[folder.at] \notin LooksComplete THEN UNCHANGED faults ELSE Fault
  /\ folder' = NoFolder
  /\ UNCHANGED <<profile, disabled, diskVars, converted, remoteVars, scan, mark>>

EndScan ==
  /\ hpc = "scan" /\ scan.todo = {}
  /\ hpc' = "sleep"
  /\ scan' = [todo |-> {}, seen |-> Nothing]
  /\ UNCHANGED <<storeVars, folder, mark>>

WatcherStep ==
  \/ BeginScan \/ (\E s \in Steps : Inspect(s)) \/ Watch
  \/ WatcherPiece \/ WatcherUploads \/ WatcherFails \/ EndScan
=============================================================================
