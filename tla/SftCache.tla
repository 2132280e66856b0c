------------------------------ MODULE SftCache ------------------------------
(***************************************************************************)
(* The normalized dataset of Prime-RL's SFT (src/src/prime_sft.py, called by *)
(* main of src/src/train_engine_rl.py): trainer node 0 builds it in a         *)
(* directory of its own and renames that to a name made of the dataset's      *)
(* fingerprint; the others wait for a ".ready" or an ".error" file named      *)
(* after the fingerprint and the launch's coordination id.                    *)
(***************************************************************************)
EXTENDS RunDirectory

VARIABLES
  cached,    \* datasets whose cache directory is there
  sftReady,  \* keys of the ".ready" files
  sftError   \* keys of the ".error" files

sftVars == <<cached, sftReady, sftError>>

SftInit == cached = {} /\ sftReady = {} /\ sftError = {}

(* main: the run directory's name, or a constant when there is none.         *)
SftKey(n) == <<launch.how.data, dirOf[n]>>

(* --prime_trainer_node_rank is 0 where it is not given.                     *)
Builds(n) == n = 0 \/ ~launch.how.ranked

Stands(n, place) == pc[n] = place /\ UNCHANGED <<now, launch, began, dirVars>>
To(n, place) == pc' = [pc EXCEPT ![n] = place]

SftCached(n) ==
  /\ Stands(n, "engine") /\ launch.how.backend = "prime_rl"
  /\ launch.how.data \in cached
  /\ To(n, "train")
  /\ UNCHANGED <<faults, sftVars>>

SftBegin(n) ==
  /\ Stands(n, "engine") /\ launch.how.backend = "prime_rl"
  /\ launch.how.data \notin cached
  /\ To(n, IF Builds(n) THEN "building" ELSE "awaiting")
  /\ IF Builds(n)
       THEN sftReady' = sftReady \ {SftKey(n)} /\ sftError' = sftError \ {SftKey(n)}
       ELSE UNCHANGED <<sftReady, sftError>>
  /\ UNCHANGED <<faults, cached>>

(* build_per_turn_sft_cache: a rename onto a directory that another process  *)
(* has put there fails and is as good.                                       *)
SftBuilt(n) ==
  /\ Stands(n, "building")
  /\ cached' = cached \cup {launch.how.data}
  /\ To(n, "announcing")
  /\ UNCHANGED <<faults, sftReady, sftError>>

SftAnnounce(n) ==
  /\ Stands(n, "announcing")
  /\ sftReady' = sftReady \cup {SftKey(n)}
  /\ To(n, "train")
  /\ UNCHANGED <<faults, cached, sftError>>

SftFail(n) ==
  /\ Stands(n, "building")
  /\ Fault
  /\ sftError' = sftError \cup {SftKey(n)}
  /\ To(n, "failed")
  /\ UNCHANGED <<cached, sftReady>>

(* The ".error" file is looked for first, whatever launch it is of.          *)
SftSeeError(n) ==
  /\ Stands(n, "awaiting")
  /\ SftKey(n) \in sftError
  /\ To(n, "failed")
  /\ UNCHANGED <<faults, sftVars>>

SftFollow(n) ==
  /\ Stands(n, "awaiting")
  /\ SftKey(n) \in sftReady \ sftError /\ launch.how.data \in cached
  /\ To(n, "train")
  /\ UNCHANGED <<faults, sftVars>>

SftTimeout(n) ==
  /\ Stands(n, "awaiting")
  /\ SftKey(n) \notin sftReady \cup sftError
  /\ pc[0] \in Ended
  /\ To(n, "failed")
  /\ UNCHANGED <<faults, sftVars>>

SftStep(n) ==
  \/ SftCached(n) \/ SftBegin(n) \/ SftBuilt(n) \/ SftAnnounce(n)
  \/ SftFail(n) \/ SftSeeError(n) \/ SftFollow(n) \/ SftTimeout(n)
=============================================================================
