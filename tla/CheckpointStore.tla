--------------------------- MODULE CheckpointStore ---------------------------
(***************************************************************************)
(* What a training process, its upload thread and the watchers share: the    *)
(* checkpoint folders in the output directory, their converted copies, the   *)
(* folders in the Hugging Face repository, and the marker that switches      *)
(* uploading off.                                                            *)
(***************************************************************************)
EXTENDS Integers, Sequences, FiniteSets, FiniteSetsExt

CONSTANTS
  None,      \* the value of what is not there
  Profiles,  \* the ways a training is started: records, see ProfileType
  MaxStep,   \* bound: optimizer steps of a training
  MaxFaults  \* bound: failures, crashes and disable markers

ASSUME StoreAssumption == MaxStep \in Nat \ {0} /\ MaxFaults \in Nat /\ None \notin Nat

Steps == 1..MaxStep

(* "olmo": the trainer of this repository with its checkpoint callback.      *)
(* "verl": an external trainer beside a watcher thread.  "prime": the roles  *)
(* of Prime-RL, split over nodes or in one process.  keep and remoteKeep are *)
(* the numbers of checkpoints retained (0: all), save and fleeting the       *)
(* intervals of permanent and of ephemeral checkpoints.                      *)
ProfileType ==
  [backend: {"olmo", "verl", "prime"}, upload: BOOLEAN, logs: BOOLEAN, convert: BOOLEAN,
   keepConverted: BOOLEAN, keep: Nat, remoteKeep: Nat, interval: Nat, fleeting: Nat,
   split: BOOLEAN]

(* Prime-RL's main has no uploader of logs.                                  *)
ASSUME ProfilesAssumption ==
  /\ Profiles \subseteq ProfileType
  /\ \A p \in Profiles : p.backend = "prime" => ~p.logs

LooksComplete == {"enough", "whole"}

VARIABLES
  profile,    \* how this training was started
  faults,     \* failures so far
  disabled,   \* the marker file that disables uploads is there
  local,      \* local[s]: the checkpoint folder of step s: "none", "part", "enough" (all that
              \* a look from outside asks for: required files, enough shards) or "whole"
  ephemeral,  \* steps whose folder says in its metadata that it is ephemeral
  converted,  \* converted[s]: the folder converted from it
  remote,     \* remote[s]: the copy of the checkpoint in the repository
  remoteHf    \* remoteHf[s]: the copy of the converted one

diskVars == <<local, ephemeral>>
remoteVars == <<remote, remoteHf>>
storeVars == <<profile, faults, disabled, diskVars, converted, remoteVars>>

StoreInit ==
  /\ profile \in Profiles /\ faults = 0 /\ disabled = FALSE
  /\ local = [s \in Steps |-> "none"] /\ ephemeral = {}
  /\ converted = local /\ remote = local /\ remoteHf = local

Fault == faults < MaxFaults /\ faults' = faults + 1

(* Somebody touches the marker file.                                         *)
Disable ==
  /\ profile.upload /\ ~disabled
  /\ Fault
  /\ disabled' = TRUE
  /\ UNCHANGED <<profile, diskVars, converted, remoteVars>>

(* hf_checkpoint_upload_enabled and _upload_disabled.                        *)
UploadDisabled == ~profile.upload \/ disabled

(* upload_large_folder commits a folder in pieces: a copy grows until it is  *)
(* whole, and a copy that is whole stays so.                                 *)
Grown(copy) == CASE copy = "none" -> "part" [] copy = "part" -> "enough" [] OTHER -> copy
Piece(copies, s) == Grown(copies[s]) # copies[s]

(* The marker file is looked at before an attempt, not during it.            *)
Attempted(copies, s) == ~disabled \/ copies[s] # "none"
=============================================================================
