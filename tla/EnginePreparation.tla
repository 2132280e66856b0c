------------------------- MODULE EnginePreparation -------------------------
(***************************************************************************)
(* What the SFT engine prepares before it trains (run_olmo_core_sft): model  *)
(* weights, raw dataset, tokenized dataset, converted checkpoint.  Each is   *)
(* made by node 0 alone (run_once_on_node0), which then writes a "done"      *)
(* marker, or a "failed" file; the others poll for either.  Products and     *)
(* markers are files of a cache directory that outlives the launch, and the  *)
(* work starts from what it finds there.                                     *)
(***************************************************************************)
EXTENDS LaunchNodes

VARIABLES
  step,     \* step[n]: the preparation node n is at, 1..Len(Steps) + 1
  done,     \* done: the keys of the "done" markers
  failed,   \* failed: the keys of the "failed" files
  product,  \* product[s]: [of, whole], what the cache holds, or Nothing
  cutShort  \* history: some work was killed or failed before it was complete

prepVars == <<step, done, failed, product, cutShort>>

Steps == <<"weights", "raw", "tokens", "checkpoint">>
Products == {Steps[i] : i \in DOMAIN Steps}
Nothing == [of |-> None, whole |-> FALSE]

(* The names of the markers: raw_dataset_marker_name is a hash over the      *)
(* dataset, olmo_core_dataset_marker_name one over the raw dataset it is     *)
(* made from; weights and checkpoint depend on the model only.               *)
Key(s) ==
  CASE s = "raw" -> <<s, launch.how.data>>
    [] s = "tokens" -> <<s, product["raw"].of>>
    [] OTHER -> <<s, "model">>

PrepInit ==
  /\ step = [n \in Nodes |-> 1]
  /\ done = {} /\ failed = {}
  /\ product = [s \in Products |-> Nothing]
  /\ cutShort = FALSE

At(n) == Steps[step[n]]
Preparing(n) == pc[n] = "prepare" /\ step[n] \in DOMAIN Steps

(* effective_node_rank is None although there are several nodes.             *)
RankUnknown(n) ==
  /\ Preparing(n) /\ ~launch.how.ranked
  /\ pc' = [pc EXCEPT ![n] = "failed"]
  /\ UNCHANGED <<now, launch, began, faults, prepVars>>

Leads(n) == Preparing(n) /\ launch.how.ranked /\ n = 0
Polls(n) == Preparing(n) /\ launch.how.ranked /\ n # 0

(* run_once_on_node0: a marker of any earlier launch saves the work.         *)
ReuseMarker(n) ==
  /\ Leads(n) /\ Key(At(n)) \in done
  /\ step' = [step EXCEPT ![n] = @ + 1]
  /\ UNCHANGED <<nodeVars, done, failed, product, cutShort>>

(* Mutant: the marker is written before the work is done.                    *)
BeginWork_Marked(n) ==
  /\ Leads(n) /\ Key(At(n)) \notin done
  /\ done' = done \cup {Key(At(n))}
  /\ pc' = [pc EXCEPT ![n] = "working"]
  /\ UNCHANGED <<now, launch, began, faults, step, failed, product, cutShort>>

BeginWork(n) ==
  /\ Leads(n) /\ Key(At(n)) \notin done
  /\ failed' = failed \ {Key(At(n))}
  /\ pc' = [pc EXCEPT ![n] = "working"]
  /\ UNCHANGED <<now, launch, began, faults, step, done, product, cutShort>>

(* What stands in the cache is taken without being made again if it looks    *)
(* right.  Weights and checkpoint are looked at for completeness; the raw    *)
(* dataset is any directory "train" (prepare_raw_dataset), the tokenized one *)
(* any pair of part files (dataset_is_olmo_core_numpy), which half of a      *)
(* conversion may have left.                                                 *)
MustKeep(s) ==
  CASE s = "raw" -> product[s] # Nothing
    [] OTHER -> product[s].whole
MayKeep(s) == MustKeep(s) \/ (s = "tokens" /\ product[s] # Nothing)

(* What the work makes, and out of what.                                     *)
Wanted(s) ==
  CASE s = "raw" -> [of |-> launch.how.data, whole |-> TRUE]
    [] s = "tokens" -> product["raw"]
    [] OTHER -> [of |-> "model", whole |-> TRUE]

(* The marker is written beside its place and renamed into it.               *)
WriteDone(n) ==
  /\ done' = done \cup {Key(At(n))}
  /\ step' = [step EXCEPT ![n] = @ + 1]

KeepProduct(n) ==
  /\ Go(n, "working", "prepare")
  /\ MayKeep(At(n))
  /\ WriteDone(n)
  /\ UNCHANGED <<now, launch, began, faults, failed, product, cutShort>>

StartProduct(n) ==
  /\ Go(n, "working", "writing")
  /\ ~MustKeep(At(n))
  /\ product' = [product EXCEPT ![At(n)] = [of |-> Wanted(At(n)).of, whole |-> FALSE]]
  /\ UNCHANGED <<now, launch, began, faults, step, done, failed, cutShort>>

FinishProduct(n) ==
  /\ Go(n, "writing", "prepare")
  /\ product' = [product EXCEPT ![At(n)] = Wanted(At(n))]
  /\ WriteDone(n)
  /\ UNCHANGED <<now, launch, began, faults, failed, cutShort>>

(* Any exception of the work: the reason goes into the "failed" file.        *)
FailWork(n) ==
  /\ Go(n, "writing", "failed")
  /\ Fault
  /\ failed' = failed \cup {Key(At(n))}
  /\ cutShort' = TRUE
  /\ UNCHANGED <<now, launch, began, step, done, product>>

(* wait_for_prepare_marker: the "done" marker is looked for first.           *)
SeeDone(n) ==
  /\ Polls(n) /\ Key(At(n)) \in done
  /\ step' = [step EXCEPT ![n] = @ + 1]
  /\ UNCHANGED <<nodeVars, done, failed, product, cutShort>>

SeeFailed(n) ==
  /\ Polls(n) /\ Key(At(n)) \in failed \ done
  /\ pc' = [pc EXCEPT ![n] = "failed"]
  /\ UNCHANGED <<now, launch, began, faults, prepVars>>

PrepareTimeout(n) ==
  /\ Polls(n) /\ Key(At(n)) \notin done \cup failed
  /\ CoordinatorIsPast(Places \ Ended)
  /\ pc' = [pc EXCEPT ![n] = "failed"]
  /\ UNCHANGED <<now, launch, began, faults, prepVars>>

(* torchrun is started with the converted checkpoint and dataset.            *)
StartTraining(n) ==
  /\ Go(n, "prepare", "train")
  /\ step[n] \notin DOMAIN Steps
  /\ UNCHANGED <<now, launch, began, faults, prepVars>>

PrepStep(n) ==
  \/ RankUnknown(n) \/ ReuseMarker(n) \/ BeginWork(n) \/ KeepProduct(n)
  \/ StartProduct(n) \/ FinishProduct(n) \/ FailWork(n)
  \/ SeeDone(n) \/ SeeFailed(n) \/ PrepareTimeout(n) \/ StartTraining(n)
=============================================================================
