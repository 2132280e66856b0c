--------------------------- MODULE Training_proofs ---------------------------
(***************************************************************************)
(* Proofs about Training, for every number of steps and of faults, and every *)
(* way to start a training: what the retention of checkpoints leaves, that   *)
(* no checkpoint is forgotten, that a marked upload is whole, and what is    *)
(* left of logs and children when the engine ends.                           *)
(***************************************************************************)
EXTENDS Training, FiniteSetTheorems, WellFoundedInduction, TLAPS

Copies == {"none", "part", "enough", "whole"}
Places == {"off", "loop", "batch", "pruning", "save", "last", "saving", "poststep",
           "drain", "waiting", "close", "shutdown", "ended"}
Goals == {"loop", "save", "last", "poststep", "close", "shutdown"}
FutureStates == {"none", "queued", "running", "tried", "skipped", "cancelled"}

StoreTypes ==
  /\ profile \in ProfileType /\ disabled \in BOOLEAN
  /\ local \in [Steps -> Copies] /\ converted \in [Steps -> Copies]
  /\ remoteHf \in [Steps -> Copies]

CallbackTypes ==
  /\ tpc \in Places /\ goOn \in Goals
  /\ step \in 0 .. MaxStep /\ latest \in 0 .. MaxStep /\ target \in Nat
  /\ known \subseteq Steps /\ pending \in Seq(Steps)
  /\ future \in [Steps -> FutureStates]
  /\ job \in [at : Steps \union {None}, stage : Stages]
  /\ cut \in BOOLEAN /\ behind \in BOOLEAN

WatcherTypes ==
  /\ hpc \in {"sleep", "scan", "watch", "upload"}
  /\ scan.todo \subseteq Steps
  /\ folder \in [at : Steps \union {None}, content : Copies]
  /\ mark \in [Steps -> {"no", "trusted", "uploaded"}]

TrainingTypes == StoreTypes /\ CallbackTypes /\ WatcherTypes

(* Where the trainer is: a step that is about to be saved is newer than all  *)
(* that were, and pruning leaves all but one of what will be kept, or all    *)
(* after a save.                                                             *)
AboutToSave ==
  \/ tpc \in {"batch", "save", "last", "saving"}
  \/ tpc = "pruning" /\ goOn \in {"save", "last"}
  \/ tpc \in {"drain", "waiting"} /\ goOn = "last"
Submits == tpc \in {"poststep", "close", "drain"} \/ (tpc = "pruning" /\ goOn \in {"poststep", "close"})

PlaceInv ==
  /\ AboutToSave => step > latest
  /\ tpc \in {"drain", "waiting"} => goOn \in {"last", "close", "shutdown"}
  /\ tpc = "saving" => goOn \in {"poststep", "close"}
  /\ tpc \notin {"off", "ended"} => latest <= step
  /\ tpc = "pruning" => profile.keep > 0 /\ target >= profile.keep - 1
  /\ tpc = "pruning" /\ goOn \notin {"save", "last"} => target = profile.keep
  /\ tpc # "off" => profile.backend = "olmo"
  /\ tpc = "off" => known = {} /\ pending = <<>> /\ future = NoFutures /\ job = Idle
  /\ pending # <<>> => Submits
  /\ \A i \in DOMAIN pending : pending[i] = latest
  /\ \A s \in known : s <= latest
  /\ latest > 0 => profile.backend = "olmo"

(* The folders, as long as no crash left half of one: all are whole but the  *)
(* one that is being saved, none is newer than the checkpoint saved last,    *)
(* and that one is there if two or more are kept.                            *)
FolderInv ==
  profile.backend = "olmo" /\ ~cut =>
    /\ \A s \in Steps : local[s] # "none" =>
         \/ local[s] = "whole" /\ s <= latest
         \/ local[s] = "part" /\ s = step /\ tpc = "saving"
    /\ profile.keep >= 2 /\ latest > 0 => local[latest] = "whole"

(* A checkpoint that was saved is on its way: still to be submitted, or its  *)
(* upload queued, running or over, and its folder there until then.          *)
Waits(s) == \E i \in DOMAIN pending : pending[i] = s
Kept == profile.keep > 0 => ~cut
SubmitInv ==
  /\ \A s \in Steps : future[s] # "none" => s \in known
  /\ \A s \in known : ~UploadDisabled => future[s] # "none" \/ Waits(s)
  /\ \A s \in Steps : Waits(s) => s \in known
  /\ \A s \in Steps : future[s] = "cancelled" => disabled
  /\ \A s \in Steps : future[s] = "skipped" /\ Kept => UploadDisabled \/ s \in ephemeral
  /\ \A s \in Steps : Kept /\ (Unfinished(s) \/ Waits(s)) => local[s] # "none"
  /\ \A s \in Steps : future[s] = "running" <=> job.at = s
  /\ tpc = "ended" => pending = <<>> /\ \A s \in Steps : ~Unfinished(s)

(* The watcher of an external trainer: its last scan begins when nothing is  *)
(* saved any more.                                                           *)
LastScanInv ==
  /\ vpc # "off" => profile.backend = "verl"
  /\ stop => child = "exited"
  /\ vpc = "final" \/ (vpc = "ended" /\ profile.upload) => stop
  /\ vpc = "final" /\ ~disabled => Completed \subseteq uploaded \union gaveUp \union todo
  /\ vpc = "final" => cutOff = 0
  /\ vpc = "ended" /\ ~UploadDisabled =>
       \A s \in Completed : (cutOff = 0 \/ s < cutOff) => s \in uploaded \union gaveUp
  /\ vpc \notin {"final", "ended"} => cutOff = 0
  /\ todo \subseteq Steps

(* A checkpoint whose upload is still owed is one of this process, or a      *)
(* crash has left it behind.                                                 *)
OwedInv ==
  /\ owed \ orphaned \subseteq known
  /\ \A s \in known \intersect owed : future[s] # "tried"

(* The engine goes on when its backend is over, which it stays.              *)
EngineInv ==
  main \notin {"start", "run"} =>
    /\ profile.backend = "olmo" => tpc = "ended"
    /\ profile.backend = "verl" => child = "exited" /\ vpc = "ended"

(* A step is converted once: until then neither the callback nor the watcher *)
(* has anything of it in the repository, and once the watcher uploads it     *)
(* nobody writes its folder again.                                           *)
Taken(s) == hpc = "upload" /\ folder.at = s
Fresh(s) == converted[s] = "none" /\ remoteHf[s] = "none" /\ mark[s] # "uploaded" /\ ~Taken(s)
At1(s, stages) == job.at = s /\ job.stage \in stages
MarkHolds ==
  /\ \A s \in Steps : s > latest => Fresh(s)
  /\ \A s \in Steps :
       Waits(s) \/ future[s] = "queued" \/ At1(s, {"start", "upload", "convert"}) => Fresh(s)
  /\ \A s \in Steps : At1(s, {"converting"}) =>
       remoteHf[s] = "none" /\ mark[s] # "uploaded" /\ ~Taken(s) /\ converted[s] \in {"part", "enough"}
  /\ \A s \in Steps : At1(s, {"uploadHf"}) =>
       converted[s] = "whole" /\ (mark[s] = "uploaded" => remoteHf[s] = "whole")
  /\ hpc \in {"watch", "upload"} => folder.at \in Steps /\ mark[folder.at] # "uploaded"
  /\ hpc = "upload" => converted[folder.at] \in {"whole", "none"}
  /\ \A s \in Steps : mark[s] = "uploaded" => remoteHf[s] \in {"none", "whole"}
MarkInv == ~behind => MarkHolds

(* A checkpoint that waits to be submitted has not been submitted before.    *)
OnceInv == \A s \in Steps : Waits(s) => future[s] = "none"

-----------------------------------------------------------------------------
(* The newest and the oldest of a set of steps.                              *)
LEMMA LeastOf ==
  ASSUME NEW S, S \subseteq Nat, S # {}
  PROVE  \E i \in S : \A j \in S : i <= j
<1> DEFINE R == {d \in Nat \X Nat : d[1] < d[2]}
<1>1. R = OpToRel(<, Nat)
  BY DEF OpToRel
<1>2. IsWellFoundedOn(R, Nat)
  BY <1>1, NatLessThanWellFounded
<1>3. PICK i \in S : \A j \in S : <<j, i>> \notin R
  BY <1>2, WFMin
<1>4. ASSUME NEW j \in S, j < i PROVE <<j, i>> \in R
  <2>1. <<j, i>> \in Nat \X Nat
    OBVIOUS
  <2>2. <<j, i>>[1] < <<j, i>>[2]
    BY <1>4
  <2> QED BY <2>1, <2>2
<1> HIDE DEF R
<1>5. \A j \in S : ~(j < i)
  BY <1>3, <1>4
<1>6. \A j \in S : i <= j
  BY <1>5
<1> QED BY <1>6

LEMMA OldestOf ==
  ASSUME NEW S, S \subseteq Nat, S # {}
  PROVE  Min(S) \in S /\ \A j \in S : Min(S) <= j
  BY LeastOf DEF Min

LEMMA NewestOf ==
  ASSUME NEW S, S \subseteq 0 .. MaxStep, S # {}
  PROVE  Max(S) \in S /\ \A j \in S : Max(S) >= j
<1> DEFINE T == {n \in 0 .. MaxStep : MaxStep - n \in S}
<1>1. MaxStep \in Nat
  BY StoreAssumption
<1>2. T \subseteq Nat
  BY <1>1
<1>3. \A j \in S : j \in 0 .. MaxStep /\ MaxStep - j \in T
  BY <1>1
<1>4. T # {}
  BY <1>3
<1>5. \A n \in T : n \in 0 .. MaxStep /\ MaxStep - n \in S
  OBVIOUS
<1> HIDE DEF T
<1>6. PICK n \in T : \A k \in T : n <= k
  BY <1>2, <1>4, LeastOf
<1>7. MaxStep - n \in S /\ \A j \in S : MaxStep - n >= j
  BY <1>1, <1>3, <1>5, <1>6
<1> QED BY <1>7 DEF Max

LEMMA RoomFor ==
  ASSUME NEW k \in Nat
  PROVE  Max({0, k - 1}) \in Nat /\ Max({0, k - 1}) >= k - 1
<1>1. \E x \in {0, k - 1} : \A y \in {0, k - 1} : x >= y
  <2>1. CASE k - 1 >= 0
    BY <2>1
  <2>2. CASE k - 1 < 0
    BY <2>2
  <2> QED BY <2>1, <2>2
<1>2. Max({0, k - 1}) \in {0, k - 1} /\ \A y \in {0, k - 1} : Max({0, k - 1}) >= y
  BY <1>1 DEF Max
<1> QED BY <1>2

LEMMA StepsAre ==
  /\ MaxStep \in Nat /\ Steps \subseteq Nat /\ None \notin Steps
  /\ \A s : s \in Steps <=> s \in 0 .. MaxStep /\ s > 0
  BY StoreAssumption DEF Steps

(* Where a training resumes: at the newest whole checkpoint.                 *)
LEMMA Resumes ==
  ASSUME StoreTypes
  PROVE  LET r == Max({0} \union {s \in Steps : local[s] = "whole"}) IN
         /\ r \in 0 .. MaxStep /\ (r > 0 => r \in Steps /\ local[r] = "whole")
         /\ \A s \in Steps : local[s] = "whole" => s <= r
<1> DEFINE S == {0} \union {s \in Steps : local[s] = "whole"}
<1>1. S \subseteq 0 .. MaxStep /\ S # {}
  BY StepsAre
<1>2. \A s \in S : s > 0 => s \in Steps /\ local[s] = "whole"
  OBVIOUS
<1>3. \A s \in Steps : local[s] = "whole" => s \in S
  OBVIOUS
<1> HIDE DEF S
<1>4. Max(S) \in S /\ \A j \in S : Max(S) >= j
  BY <1>1, NewestOf
<1> QED BY <1>1, <1>2, <1>3, <1>4, StepsAre DEF S

-----------------------------------------------------------------------------
(* What the parts that are neither the callback nor its uploads leave alone. *)
Elsewhere ==
  /\ UNCHANGED <<profile, converted, remoteHf, ephemeral, callbackVars>>
  /\ profile.backend # "verl" => local' = local
  /\ local' \in [Steps -> Copies] /\ disabled' \in BOOLEAN /\ (disabled => disabled')

LEMMA VerlStaysElsewhere ==
  ASSUME StoreTypes, Verl \/ VerlUpload
  PROVE  Elsewhere /\ UNCHANGED watcherVars
<1> USE DEF StoreTypes, Elsewhere, storeVars, diskVars, remoteVars, callbackVars, threadVars, uploadVars, pastVars, watcherVars, Still, Runs
<1>1. CASE Runs("verl") /\ UNCHANGED <<callbackVars, watcherVars>> /\ RunVerl
  BY <1>1 DEF RunVerl
<1>2. CASE Runs("verl") /\ UNCHANGED <<callbackVars, watcherVars>> /\ VerlSaves
  BY <1>2 DEF VerlSaves, Copies
<1>3. CASE Runs("verl") /\ UNCHANGED <<callbackVars, watcherVars>> /\ VerlSaved
  BY <1>3 DEF VerlSaved, Copies
<1>4. CASE Runs("verl") /\ UNCHANGED <<callbackVars, watcherVars>> /\ VerlExits
  BY <1>4 DEF VerlExits
<1>5. CASE Runs("verl") /\ UNCHANGED <<callbackVars, watcherVars>> /\ VerlWatcherStep
  <2>1. UNCHANGED <<profile, disabled, local, ephemeral, converted, remoteHf>>
    BY <1>5 DEF VerlWatcherStep, BeginVerlScan, VerlPiece, VerlUploads, VerlFails, VerlStagingRaises,
       VerlRecordRaises, ScanBreaksOff, EndVerlScan, EndFinalScan
  <2> QED BY <1>5, <2>1
<1> QED BY <1>1, <1>2, <1>3, <1>4, <1>5 DEF Verl, VerlUpload, VerlStep

LEMMA PrimeStaysElsewhere ==
  ASSUME StoreTypes, Prime \/ PrimeFault
  PROVE  Elsewhere /\ UNCHANGED watcherVars
<1>1. UNCHANGED <<callbackVars, watcherVars>>
  BY DEF Prime, PrimeFault
<1>2. UNCHANGED <<profile, disabled, local, ephemeral, converted, remoteHf>>
  <2>1. CASE PrimeFault
    BY <2>1 DEF PrimeFault, ServerDies, diskVars, remoteVars
  <2>2. CASE \E r \in Servers : StartServer(r) \/ ServerUp(r) \/ ServerEnds(r)
    BY <2>2 DEF StartServer, ServerUp, ServerEnds, storeVars, diskVars, remoteVars
  <2>3. CASE HeadStarts \/ PolicyReady \/ TeacherReady \/ ReadyTimeout \/ Polled \/ StopChildren
    BY <2>3 DEF HeadStarts, PolicyReady, TeacherReady, ReadyTimeout, Polled, StopChildren, storeVars, diskVars, remoteVars
  <2>4. CASE WorkerStarts \/ WorkerEnds \/ FullStarts \/ FullEnds
    BY <2>4 DEF WorkerStarts, WorkerEnds, FullStarts, FullEnds, storeVars, diskVars, remoteVars
  <2>5. CASE \E c \in Children : TrainingOver(c)
    BY <2>5 DEF TrainingOver, diskVars, remoteVars
  <2> QED BY <2>1, <2>2, <2>3, <2>4, <2>5 DEF Prime, PrimeStep
<1> QED BY <1>1, <1>2 DEF Elsewhere, StoreTypes

LEMMA EngineStaysElsewhere ==
  ASSUME StoreTypes, Engine \/ LogThread
  PROVE  Elsewhere /\ UNCHANGED watcherVars
<1>1. UNCHANGED <<callbackVars, watcherVars>>
  BY DEF Engine, LogThread
<1>2. UNCHANGED <<profile, disabled, local, ephemeral, converted, remoteHf>>
  <2>1. CASE Engine
    BY <2>1 DEF Engine, LogStep, BackendEnds, StartLogs, Joined, BeginFinal, EndFinal, storeVars, diskVars, remoteVars
  <2>2. CASE LogThread
    BY <2>2 DEF LogThread, LogThreadStep, IntervalPasses, SeesStop, BeginPeriodic, EndPeriodic, storeVars, diskVars, remoteVars
  <2> QED BY <2>1, <2>2
<1> QED BY <1>1, <1>2 DEF Elsewhere, StoreTypes

LEMMA MarkerStaysElsewhere ==
  ASSUME StoreTypes, Marker \/ UNCHANGED vars
  PROVE  Elsewhere /\ UNCHANGED watcherVars
  BY DEF Marker, Disable, Elsewhere, StoreTypes, vars, storeVars, diskVars, remoteVars

(* The watcher of converted folders touches only the copies of these.        *)
WatcherLeaves ==
  UNCHANGED <<profile, disabled, local, ephemeral, converted, callbackVars>>
LEMMA WatchingLeaves ==
  ASSUME Watching
  PROVE  WatcherLeaves /\ WatcherStep
<1>1. UNCHANGED <<profile, disabled, local, ephemeral, converted>>
  BY DEF Watching, WatcherStep, BeginScan, Inspect, Watch, WatcherPiece, WatcherUploads, WatcherFails, EndScan,
         storeVars, diskVars, remoteVars
<1> QED BY <1>1 DEF Watching, WatcherLeaves

(* Every step is one of the trainer, of a crash, of the upload thread, of    *)
(* the watcher, or elsewhere.                                                *)
Olmo(A) == profile.backend = "olmo" /\ main = "run" /\ A /\ UNCHANGED <<watcherVars, verlVars, main>>
LEMMA StepsOfTraining ==
  ASSUME StoreTypes, [Next]_vars
  PROVE  \/ Olmo(TrainerStep) \/ Olmo(CrashTrainer) \/ Olmo(UploaderStep)
         \/ Watching
         \/ Elsewhere /\ UNCHANGED watcherVars
<1>1. CASE OlmoStep \/ OlmoUpload
  BY <1>1 DEF OlmoStep, OlmoUpload, Olmo, Runs, logVars
<1>2. CASE Verl \/ VerlUpload
  BY <1>2, VerlStaysElsewhere
<1>3. CASE Prime \/ PrimeFault
  BY <1>3, PrimeStaysElsewhere
<1>4. CASE Engine \/ LogThread
  BY <1>4, EngineStaysElsewhere
<1>5. CASE Marker \/ UNCHANGED vars
  BY <1>5, MarkerStaysElsewhere
<1> QED BY <1>1, <1>2, <1>3, <1>4, <1>5 DEF Next

-----------------------------------------------------------------------------
(* Types, and where the trainer is.                                          *)
CoreInv == TrainingTypes /\ PlaceInv

LEMMA CoreInit == Init => CoreInv
<1> SUFFICES ASSUME Init PROVE CoreInv
  OBVIOUS
<1>1. profile \in ProfileType
  BY ProfilesAssumption DEF Init, StoreInit
<1>2. StoreTypes
  BY <1>1 DEF Init, StoreInit, StoreTypes, Copies
<1>3. CallbackTypes
  <2>1. NoFutures \in [Steps -> FutureStates]
    BY DEF NoFutures, FutureStates
  <2>2. Idle \in [at : Steps \union {None}, stage : Stages]
    BY DEF Idle, Stages
  <2>3. 0 \in 0 .. MaxStep /\ <<>> \in Seq(Steps)
    BY StepsAre
  <2> QED BY <2>1, <2>2, <2>3 DEF Init, CallbackInit, CallbackTypes, Places, Goals
<1>4. WatcherTypes
  BY DEF Init, WatcherInit, WatcherTypes, NoFolder, Copies
<1>5. PlaceInv
  BY DEF Init, CallbackInit, PlaceInv, AboutToSave, Submits
<1> QED BY <1>2, <1>3, <1>4, <1>5 DEF CoreInv, TrainingTypes

(* What is pending is queued by a schedule, unless uploading is switched off. *)
LEMMA Scheduled ==
  ASSUME CallbackTypes, Schedule
  PROVE  /\ pending' = <<>> /\ known' = known /\ future' \in [Steps -> FutureStates]
         /\ \A s \in Steps :
              \/ future'[s] = future[s]
              \/ future'[s] = "queued" /\ future[s] = "none" /\ Waits(s) /\ ~disabled
              \/ future'[s] = "cancelled" /\ future[s] = "queued" /\ disabled
         /\ \A s \in Steps : Waits(s) /\ ~UploadDisabled => future'[s] # "none"
         /\ profile.upload /\ disabled => \A s \in Steps : future'[s] # "queued"
  BY DEF CallbackTypes, Schedule, FutureStates, Waits, UploadDisabled

LEMMA PruningTo ==
  ASSUME StoreTypes, CallbackTypes, NEW place \in Goals
  PROVE  /\ PruneToKeep(place) =>
              \/ profile.keep > 0 /\ tpc' = "pruning" /\ target' = profile.keep /\ goOn' = place
              \/ profile.keep = 0 /\ tpc' = place /\ target' = target /\ goOn' = goOn
         /\ MakeRoom(place) =>
              tpc' = "pruning" /\ target' \in Nat /\ target' >= profile.keep - 1 /\ goOn' = place
         /\ profile.keep \in Nat
<1>1. profile.keep \in Nat
  BY DEF StoreTypes, ProfileType
<1> QED BY <1>1, RoomFor DEF PruneToKeep, MakeRoom, PruneTo

(* The steps of the trainer that leave the folders and the uploads alone and *)
(* only move on.                                                             *)
LEMMA CoreMovesOn ==
  ASSUME CoreInv, TrainerStep, PruneEnds \/ PruneFails \/ TrainBatch \/ Close \/ Shutdown \/ OnError
  PROVE  PlaceInv' /\ CallbackTypes'
<1> USE DEF CoreInv, TrainingTypes
<1>1. UNCHANGED <<profile, latest, target, known, pending, future, job, cut>> /\ behind' \in BOOLEAN
  BY DEF PruneEnds, PruneFails, TrainBatch, Close, Shutdown, OnError, At, uploadVars, TrainerStep, CallbackTypes
<1>2. /\ step' \in 0 .. MaxStep /\ step' >= step /\ tpc \notin {"off", "ended"} /\ tpc' # "off"
      /\ tpc' \in Places /\ goOn' \in Goals
  BY StepsAre DEF PruneEnds, PruneFails, TrainBatch, Close, Shutdown, OnError, At, CallbackTypes, Places, Goals
<1>3. CallbackTypes'
  BY <1>1, <1>2 DEF CallbackTypes
<1>4. PlaceInv'
  <2>1. ASSUME AboutToSave' PROVE step' > latest'
    <3>1. CASE PruneEnds \/ PruneFails
      <4>1. goOn \in {"save", "last"} /\ tpc = "pruning" /\ step' = step
        BY <2>1, <3>1 DEF AboutToSave, PruneEnds, PruneFails, At, CallbackTypes, Goals
      <4> QED BY <1>1, <4>1 DEF PlaceInv, AboutToSave
    <3>2. CASE TrainBatch
      BY <1>1, <3>2, StepsAre DEF PlaceInv, CallbackTypes, TrainBatch, At
    <3>3. CASE Close \/ Shutdown \/ OnError
      BY <2>1, <3>3 DEF AboutToSave, Close, Shutdown, OnError, At
    <3> QED BY <3>1, <3>2, <3>3
  <2>2. ASSUME pending' # <<>> PROVE Submits'
    <3>1. Submits
      BY <1>1, <2>2 DEF PlaceInv
    <3>2. CASE PruneEnds \/ PruneFails
      BY <3>1, <3>2 DEF Submits, PruneEnds, PruneFails, At
    <3>3. CASE TrainBatch \/ Close \/ Shutdown \/ OnError
      BY <3>1, <3>3 DEF Submits, TrainBatch, Close, Shutdown, OnError, At
    <3> QED BY <3>2, <3>3
  <2>3. /\ tpc' # "pruning"
        /\ tpc' \in {"drain", "waiting"} => goOn' \in {"last", "close", "shutdown"}
        /\ tpc' # "saving"
    BY DEF CallbackTypes, Goals, PruneEnds, PruneFails, TrainBatch, Close, Shutdown, OnError, At
  <2>4. latest' <= step'
    BY <1>1, <1>2 DEF PlaceInv, CallbackTypes
  <2> QED BY <1>1, <1>2, <2>1, <2>2, <2>3, <2>4 DEF PlaceInv
<1> QED BY <1>3, <1>4

(* The steps that submit uploads: afterwards nothing is pending.             *)
LEMMA CoreSchedules ==
  ASSUME CoreInv, TrainerStep, PostTrainBatch \/ PostStep \/ PostTrain \/ Drain
  PROVE  PlaceInv' /\ CallbackTypes'
<1> USE DEF CoreInv, TrainingTypes
<1>1. /\ UNCHANGED <<profile, latest, step, known, job, cut>> /\ behind' \in BOOLEAN
      /\ tpc \in {"batch", "poststep", "loop", "drain"}
      /\ tpc' \in Places /\ goOn' \in Goals /\ tpc' \notin {"off", "ended", "saving", "batch"}
  BY DEF PostTrainBatch, PostStep, PostTrain, Drain, At, uploadVars, Schedule, MakeRoom, PruneTo, TrainerStep,
         CallbackTypes, Places, Goals
<1>2. profile.keep \in Nat
  BY DEF StoreTypes, ProfileType
<1>3. pending' = <<>> /\ future' \in [Steps -> FutureStates]
  <2>1. CASE Schedule
    BY <2>1, Scheduled
  <2>2. CASE UNCHANGED uploadVars /\ tpc \in {"batch", "loop"}
    BY <2>2 DEF PlaceInv, Submits, CallbackTypes, uploadVars
  <2> QED BY <2>1, <2>2 DEF PostTrainBatch, PostStep, PostTrain, Drain, At
<1>4. /\ target' \in Nat
      /\ tpc' = "pruning" => profile.keep > 0 /\ target' >= profile.keep - 1 /\ goOn' \in {"save", "last"}
  BY <1>2, RoomFor DEF PostTrainBatch, PostStep, PostTrain, Drain, At, MakeRoom, PruneTo, CallbackTypes, Goals
<1>5. CallbackTypes'
  <2>1. <<>> \in Seq(Steps)
    OBVIOUS
  <2> QED BY <1>1, <1>3, <1>4, <2>1 DEF CallbackTypes
<1>6. ASSUME AboutToSave' PROVE step' > latest'
  <2>1. CASE PostTrainBatch
    BY <1>1, <2>1 DEF PlaceInv, AboutToSave, PostTrainBatch, At
  <2>2. CASE PostStep
    BY <1>6, <2>2 DEF AboutToSave, PostStep, At
  <2>3. CASE PostTrain
    BY <1>1, <1>6, <2>3 DEF AboutToSave, PostTrain, At, MakeRoom, PruneTo
  <2>4. CASE Drain
    BY <1>1, <1>6, <2>4 DEF PlaceInv, AboutToSave, Drain, At
  <2> QED BY <2>1, <2>2, <2>3, <2>4
<1>7. tpc' \in {"drain", "waiting"} => goOn' \in {"last", "close", "shutdown"}
  BY DEF PlaceInv, PostTrainBatch, PostStep, PostTrain, Drain, At, MakeRoom, PruneTo
<1>8. DOMAIN pending' = {}
  BY <1>3
<1> QED BY <1>1, <1>3, <1>4, <1>5, <1>6, <1>7, <1>8 DEF PlaceInv

(* The steps that resume, save or prune after a save.                        *)
LEMMA CoreSaves ==
  ASSUME CoreInv, TrainerStep, PreTrain \/ SaveBegins \/ PostCheckpointSaved \/ Drained \/ PruneOne
  PROVE  PlaceInv' /\ CallbackTypes' /\ StoreTypes'
<1> USE DEF CoreInv, TrainingTypes
<1>1. /\ UNCHANGED <<profile, disabled, converted, remoteHf, job, cut, future>> /\ behind' \in BOOLEAN
      /\ profile.keep \in Nat
  BY DEF PreTrain, SaveBegins, PostCheckpointSaved, Drained, PruneOne, At, Quiet, diskVars, remoteVars, threadVars,
         uploadVars, TrainerStep, CallbackTypes, StoreTypes, ProfileType
<1>2. local' \in [Steps -> Copies]
  BY DEF PreTrain, SaveBegins, PostCheckpointSaved, Drained, PruneOne, Quiet, diskVars, StoreTypes, Copies
<1>3. StoreTypes'
  BY <1>1, <1>2 DEF StoreTypes
<1>4. CASE PreTrain
  <2>1. step' \in 0 .. MaxStep /\ latest' = step' /\ profile.backend = "olmo"
    BY <1>4, Resumes DEF PreTrain
  <2>2. known = {} /\ pending = <<>> /\ UNCHANGED <<known, pending>> /\ DOMAIN pending = {}
    BY <1>4 DEF PreTrain, At, PlaceInv, uploadVars
  <2>3. \/ profile.keep > 0 /\ tpc' = "pruning" /\ target' = profile.keep /\ goOn' = "loop"
        \/ profile.keep = 0 /\ tpc' = "loop" /\ target' = target /\ goOn' = goOn
    BY <1>4, PruningTo DEF PreTrain, Goals
  <2>4. CallbackTypes'
    BY <1>1, <2>1, <2>2, <2>3 DEF CallbackTypes, Places, Goals
  <2>5. PlaceInv'
    BY <1>1, <2>1, <2>2, <2>3 DEF PlaceInv, AboutToSave, Submits
  <2> QED BY <1>3, <2>4, <2>5
<1>5. CASE SaveBegins
  <2>1. /\ UNCHANGED <<known, pending, step, latest, target>> /\ pending = <<>> /\ DOMAIN pending = {}
        /\ tpc \in {"save", "last"} /\ tpc' = "saving" /\ goOn' \in {"poststep", "close"}
    BY <1>5 DEF SaveBegins, At, PlaceInv, Submits, uploadVars
  <2>2. CallbackTypes'
    BY <1>1, <2>1 DEF CallbackTypes, Places, Goals
  <2>3. PlaceInv'
    BY <1>1, <2>1 DEF PlaceInv, AboutToSave, Submits
  <2> QED BY <1>3, <2>2, <2>3
<1>6. CASE PostCheckpointSaved
  <2>1. step > latest /\ step \in Steps /\ latest' = step /\ step' = step /\ pending = <<>> /\ profile.backend = "olmo"
    BY <1>6, StepsAre DEF PostCheckpointSaved, At, PlaceInv, AboutToSave, Submits, CallbackTypes
  <2>2. pending' \in {<<>>, <<step>>} /\ known' = known \union {step}
    BY <1>6, <2>1 DEF PostCheckpointSaved
  <2>3. \A i \in DOMAIN pending' : pending'[i] = latest'
    BY <2>1, <2>2
  <2>4. goOn \in {"poststep", "close"}
    BY <1>6 DEF PostCheckpointSaved, At, PlaceInv
  <2>5. \/ profile.keep > 0 /\ tpc' = "pruning" /\ target' = profile.keep /\ goOn' = goOn
        \/ profile.keep = 0 /\ tpc' = goOn /\ target' = target /\ goOn' = goOn
    BY <1>6, PruningTo DEF PostCheckpointSaved, CallbackTypes
  <2>6. CallbackTypes'
    <3>1. pending' \in Seq(Steps) /\ known' \subseteq Steps
      <4>1. <<>> \in Seq(Steps) /\ <<step>> \in Seq(Steps)
        BY <2>1
      <4> QED BY <2>1, <2>2, <4>1 DEF CallbackTypes
    <3>2. tpc' \in Places /\ goOn' \in Goals /\ target' \in Nat
      BY <1>1, <2>4, <2>5 DEF CallbackTypes, Places, Goals
    <3> QED BY <1>1, <2>1, <3>1, <3>2 DEF CallbackTypes
  <2>7. PlaceInv'
    BY <1>1, <2>1, <2>2, <2>3, <2>4, <2>5 DEF PlaceInv, AboutToSave, Submits, CallbackTypes
  <2> QED BY <1>3, <2>6, <2>7
<1>7. CASE Drained
  <2>1. UNCHANGED <<known, pending, step, latest>> /\ tpc = "waiting" /\ pending = <<>> /\ DOMAIN pending = {}
    BY <1>7 DEF Drained, At, uploadVars, PlaceInv, Submits
  <2>2. \/ profile.keep > 0 /\ tpc' = "pruning" /\ target' = profile.keep /\ goOn' = goOn
        \/ profile.keep = 0 /\ tpc' = goOn /\ target' = target /\ goOn' = goOn
    BY <1>7, PruningTo DEF Drained, CallbackTypes
  <2>3. goOn \in {"last", "close", "shutdown"}
    BY <2>1 DEF PlaceInv
  <2>4. CallbackTypes'
    BY <1>1, <2>1, <2>2, <2>3 DEF CallbackTypes, Places, Goals
  <2>5. PlaceInv'
    BY <1>1, <2>1, <2>2, <2>3 DEF PlaceInv, AboutToSave, Submits
  <2> QED BY <1>3, <2>4, <2>5
<1>8. CASE PruneOne
  <2>1. UNCHANGED <<threadVars, uploadVars>>
    BY <1>8 DEF PruneOne
  <2>2. CallbackTypes' /\ PlaceInv'
    BY <1>1, <2>1 DEF threadVars, uploadVars, CallbackTypes, PlaceInv, AboutToSave, Submits
  <2> QED BY <1>3, <2>2
<1> QED BY <1>4, <1>5, <1>6, <1>7, <1>8

LEMMA CoreTrainer ==
  ASSUME CoreInv, Olmo(TrainerStep)
  PROVE  CoreInv'
<1>1. WatcherTypes'
  BY DEF CoreInv, TrainingTypes, WatcherTypes, Olmo, watcherVars
<1>2. CASE PreTrain \/ SaveBegins \/ PostCheckpointSaved \/ Drained \/ PruneOne
  BY <1>1, <1>2, CoreSaves DEF CoreInv, TrainingTypes, Olmo
<1>3. CASE \/ PruneEnds \/ PruneFails \/ TrainBatch \/ Close \/ Shutdown \/ OnError
           \/ PostTrainBatch \/ PostStep \/ PostTrain \/ Drain
  <2>1. UNCHANGED <<profile, disabled, converted, remoteHf, local>>
    BY <1>3 DEF PruneEnds, PruneFails, TrainBatch, Close, Shutdown, OnError, PostTrainBatch, PostStep, PostTrain, Drain,
                At, Quiet, diskVars, remoteVars
  <2>2. StoreTypes'
    BY <2>1 DEF CoreInv, TrainingTypes, StoreTypes
  <2>3. PlaceInv' /\ CallbackTypes'
    BY <1>3, CoreMovesOn, CoreSchedules DEF Olmo
  <2> QED BY <1>1, <2>2, <2>3 DEF CoreInv, TrainingTypes
<1> QED BY <1>2, <1>3 DEF Olmo, TrainerStep

(* What the upload thread does to the state it works on.                     *)
LEMMA UploaderLeaves ==
  ASSUME CoreInv, UploaderStep
  PROVE  /\ UNCHANGED <<profile, disabled, local, ephemeral, threadVars, known, pending, pastVars>>
         /\ owed' = {s \in owed : future'[s] # "tried"}
         /\ converted' \in [Steps -> Copies] /\ remoteHf' \in [Steps -> Copies]
         /\ future' \in [Steps -> FutureStates] /\ job' \in [at : Steps \union {None}, stage : Stages]
<1> USE DEF CoreInv, TrainingTypes, StoreTypes, CallbackTypes
<1>1. UNCHANGED <<profile, disabled, local, ephemeral, threadVars, known, pending, pastVars>>
  BY DEF UploaderStep, TakeUpload, StartUpload, UploadPiece, UploadEnds, UploadFails, Convert, ConvertWrites, ConvertEnds,
         ConvertFails, UploadHfPiece, UploadHfEnds, UploadHfFails, PruneRemote, In, storeVars, diskVars
<1>2. ASSUME NEW stage \in Stages, ToStage(stage)
      PROVE  future' \in [Steps -> FutureStates] /\ job' \in [at : Steps \union {None}, stage : Stages]
  BY <1>2 DEF ToStage
<1>3. ASSUME NEW how \in FutureStates, Ends(how)
      PROVE  future' \in [Steps -> FutureStates] /\ job' \in [at : Steps \union {None}, stage : Stages]
  BY <1>3 DEF Ends, Idle, Stages
<1>4. \A copy \in Copies : Grown(copy) \in Copies
  BY DEF Grown, Copies
<1>10. owed' = {s \in owed : future'[s] # "tried"}
  BY DEF UploaderStep
<1>5. CASE TakeUpload
  <2> DEFINE S == {x \in Steps : future[x] = "queued"}
  <2>1. S \subseteq Nat /\ S # {} /\ S \subseteq Steps
    BY <1>5, StepsAre DEF TakeUpload
  <2>2. Min(S) \in S
    BY <2>1, OldestOf
  <2>3. Min(S) \in Steps /\ job' = [at |-> Min(S), stage |-> "start"] /\ future' = [future EXCEPT ![Min(S)] = "running"]
    BY <1>5, <2>1, <2>2 DEF TakeUpload
  <2>4. job' \in [at : Steps \union {None}, stage : Stages]
    BY <2>3 DEF Stages
  <2>5. future' \in [Steps -> FutureStates]
    BY <2>3 DEF FutureStates
  <2> QED BY <1>1, <1>5, <1>10, <2>4, <2>5 DEF TakeUpload, storeVars, remoteVars
<1>6. CASE StartUpload \/ UploadPiece \/ UploadEnds \/ UploadFails \/ UploadHfFails \/ ConvertFails
  <2>1. future' \in [Steps -> FutureStates] /\ job' \in [at : Steps \union {None}, stage : Stages]
    BY <1>2, <1>3, <1>6 DEF StartUpload, UploadPiece, UploadEnds, UploadFails, UploadHfFails, ConvertFails, Stages, FutureStates
  <2> QED BY <1>1, <1>6, <1>10, <2>1 DEF StartUpload, UploadPiece, UploadEnds, UploadFails, UploadHfFails, ConvertFails, remoteVars
<1>7. CASE Convert \/ ConvertWrites \/ ConvertEnds
  <2>1. future' \in [Steps -> FutureStates] /\ job' \in [at : Steps \union {None}, stage : Stages]
    BY <1>2, <1>7 DEF Convert, ConvertWrites, ConvertEnds, Stages
  <2>2. converted' \in [Steps -> Copies] /\ remoteHf' = remoteHf
    BY <1>7 DEF Convert, ConvertWrites, ConvertEnds, Copies, remoteVars
  <2> QED BY <1>1, <1>10, <2>1, <2>2
<1>8. CASE UploadHfPiece \/ UploadHfEnds
  <2>1. future' \in [Steps -> FutureStates] /\ job' \in [at : Steps \union {None}, stage : Stages]
    BY <1>2, <1>8 DEF UploadHfPiece, UploadHfEnds, Stages
  <2>2. CASE UploadHfPiece
    BY <1>1, <1>4, <1>10, <2>1, <2>2 DEF UploadHfPiece
  <2>3. CASE UploadHfEnds
    BY <1>1, <1>10, <2>1, <2>3 DEF UploadHfEnds, Copies
  <2> QED BY <1>8, <2>2, <2>3
<1>9. CASE PruneRemote
  <2>1. future' \in [Steps -> FutureStates] /\ job' \in [at : Steps \union {None}, stage : Stages]
    BY <1>3, <1>9 DEF PruneRemote, FutureStates
  <2>2. converted' = converted /\ remoteHf' \in [Steps -> Copies]
    BY <1>9 DEF PruneRemote, Copies, remoteVars
  <2> QED BY <1>1, <1>10, <2>1, <2>2
<1> QED BY <1>5, <1>6, <1>7, <1>8, <1>9 DEF UploaderStep

LEMMA CoreWatching ==
  ASSUME CoreInv, Watching
  PROVE  CoreInv'
<1> USE DEF CoreInv, TrainingTypes, StoreTypes, WatcherTypes
<1>1. WatcherLeaves /\ WatcherStep
  BY WatchingLeaves
<1>2. \A copy \in Copies : Grown(copy) \in Copies
  BY DEF Grown, Copies
<1>3. remoteHf' \in [Steps -> Copies]
  <2>1. CASE WatcherPiece
    BY <1>2, <2>1 DEF WatcherPiece
  <2>2. CASE WatcherUploads
    BY <2>2 DEF WatcherUploads, LooksComplete, Copies
  <2>3. CASE ~WatcherPiece /\ ~WatcherUploads
    BY <1>1, <2>3 DEF WatcherStep, BeginScan, Inspect, Watch, WatcherFails, EndScan, storeVars, remoteVars
  <2> QED BY <2>1, <2>2, <2>3
<1>4. WatcherTypes'
  <2>1. CASE BeginScan
    BY <2>1 DEF BeginScan
  <2>2. ASSUME NEW s \in Steps, Inspect(s) PROVE WatcherTypes'
    <3>1. scan' = [scan EXCEPT !.todo = @ \ {s}] /\ hpc' \in {hpc, "watch"}
      BY <2>2 DEF Inspect
    <3>2. mark' \in {mark, [mark EXCEPT ![s] = "trusted"]}
      BY <2>2 DEF Inspect
    <3>3. folder' \in {folder, [at |-> s, content |-> converted[s]]}
      BY <2>2 DEF Inspect
    <3>4. scan'.todo \subseteq Steps
      BY <2>2, <3>1 DEF Inspect
    <3>5. [at |-> s, content |-> converted[s]] \in [at : Steps \union {None}, content : Copies]
      OBVIOUS
    <3>6. mark' \in [Steps -> {"no", "trusted", "uploaded"}]
      BY <3>2
    <3> QED BY <3>1, <3>3, <3>4, <3>5, <3>6
  <2>3. CASE Watch \/ WatcherPiece \/ WatcherFails \/ EndScan
    <3>1. NoFolder \in [at : Steps \union {None}, content : Copies]
      BY DEF NoFolder, Copies
    <3>2. mark' = mark /\ folder' \in {folder, NoFolder} /\ hpc' \in {hpc, "upload", "scan", "sleep"} /\ scan'.todo \subseteq Steps
      BY <2>3 DEF Watch, WatcherPiece, WatcherFails, EndScan, watcherVars
    <3> QED BY <3>1, <3>2
  <2>4. CASE WatcherUploads
    <3>1. NoFolder \in [at : Steps \union {None}, content : Copies]
      BY DEF NoFolder, Copies
    <3> QED BY <2>4, <3>1 DEF WatcherUploads
  <2> QED BY <1>1, <2>1, <2>2, <2>3, <2>4 DEF WatcherStep
<1>5. StoreTypes'
  BY <1>1, <1>3 DEF WatcherLeaves
<1>6. CallbackTypes' /\ PlaceInv'
  BY <1>1 DEF WatcherLeaves, callbackVars, threadVars, uploadVars, pastVars, CallbackTypes, PlaceInv, AboutToSave, Submits
<1> QED BY <1>4, <1>5, <1>6

LEMMA CoreStep == CoreInv /\ [Next]_vars => CoreInv'
<1> SUFFICES ASSUME CoreInv, [Next]_vars PROVE CoreInv'
  OBVIOUS
<1> USE DEF CoreInv, TrainingTypes
<1>1. CASE Olmo(TrainerStep)
  BY <1>1, CoreTrainer
<1>2. CASE Olmo(CrashTrainer)
  <2>1. /\ tpc' = "off" /\ known' = {} /\ pending' = <<>> /\ future' = NoFutures /\ job' = Idle
        /\ UNCHANGED <<profile, disabled, converted, remoteHf, local, step, latest, target, goOn, behind>>
        /\ cut' \in BOOLEAN /\ DOMAIN pending' = {}
    BY <1>2 DEF Olmo, CrashTrainer, At, diskVars, remoteVars, CallbackTypes
  <2>2. NoFutures \in [Steps -> FutureStates] /\ Idle \in [at : Steps \union {None}, stage : Stages] /\ <<>> \in Seq(Steps)
    BY DEF NoFutures, FutureStates, Idle, Stages
  <2>3. StoreTypes' /\ WatcherTypes'
    BY <1>2, <2>1 DEF StoreTypes, WatcherTypes, Olmo, watcherVars
  <2>4. CallbackTypes'
    BY <2>1, <2>2 DEF CallbackTypes, Places
  <2>5. PlaceInv'
    BY <1>2, <2>1 DEF PlaceInv, AboutToSave, Submits, Olmo
  <2> QED BY <2>3, <2>4, <2>5
<1>3. CASE Olmo(UploaderStep)
  <2>1. StoreTypes' /\ CallbackTypes'
    BY <1>3, UploaderLeaves DEF Olmo, StoreTypes, CallbackTypes, threadVars, pastVars
  <2>2. WatcherTypes'
    BY <1>3 DEF Olmo, watcherVars, WatcherTypes
  <2>3. tpc # "off"
    <3>1. ASSUME tpc = "off" PROVE FALSE
      <4>1. \A s \in Steps : future[s] = "none"
        BY <3>1 DEF PlaceInv, NoFutures
      <4>2. job.at = None
        BY <3>1 DEF PlaceInv, Idle
      <4>3. TakeUpload
        BY <1>3, <4>2 DEF Olmo, UploaderStep, StartUpload, UploadPiece, UploadEnds, UploadFails, Convert, ConvertWrites,
           ConvertEnds, ConvertFails, UploadHfPiece, UploadHfEnds, UploadHfFails, PruneRemote, In
      <4> QED BY <4>1, <4>3 DEF TakeUpload
    <3> QED BY <3>1
  <2>4. PlaceInv'
    BY <1>3, <2>3, UploaderLeaves DEF Olmo, PlaceInv, AboutToSave, Submits, threadVars
  <2> QED BY <2>1, <2>2, <2>4
<1>4. CASE Watching
  BY <1>4, CoreWatching
<1>5. CASE Elsewhere /\ UNCHANGED watcherVars
  <2>1. StoreTypes' /\ CallbackTypes' /\ WatcherTypes'
    BY <1>5 DEF Elsewhere, StoreTypes, CallbackTypes, WatcherTypes, callbackVars, threadVars, uploadVars, pastVars, watcherVars
  <2>2. PlaceInv'
    BY <1>5 DEF Elsewhere, callbackVars, threadVars, uploadVars, PlaceInv, AboutToSave, Submits
  <2> QED BY <2>1, <2>2
<1> QED BY <1>1, <1>2, <1>3, <1>4, <1>5, StepsOfTraining

(* The trainer stands where its invariant says, through crashes as well: what *)
(* it is about to save is newer than all it saved.                            *)
THEOREM TrainerKeepsItsPlace == Spec => []CoreInv
  BY CoreInit, CoreStep, PTL DEF Spec

-----------------------------------------------------------------------------
(* The folders.  Pruning removes the oldest, which is not the newest as long *)
(* as one is to be left.                                                     *)
LEMMA OldestIsNotNewest ==
  ASSUME StoreTypes, NEW n \in Nat, n > 0, Cardinality(Existing) > n,
         NEW r \in Steps, \A s \in Existing : s <= r
  PROVE  Min(Existing) \in Existing /\ Min(Existing) # r
<1>1. Existing \subseteq Steps /\ Existing \subseteq Nat /\ IsFiniteSet(Existing)
  <2>1. IsFiniteSet(Steps)
    BY StepsAre, FS_Interval DEF Steps
  <2> QED BY <2>1, StepsAre, FS_Subset DEF Existing
<1>2. Cardinality(Existing) \in Nat
  BY <1>1, FS_CardinalityType
<1>3. Existing # {}
  BY <1>2, FS_EmptySet
<1>4. Min(Existing) \in Existing /\ \A s \in Existing : Min(Existing) <= s
  BY <1>1, <1>3, OldestOf
<1>5. ASSUME Min(Existing) = r PROVE FALSE
  <2>1. Existing = {r}
    <3>1. \A s \in Existing : s = r
      BY <1>1, <1>4, <1>5, StepsAre
    <3> QED BY <1>4, <1>5, <3>1
  <2>2. Cardinality(Existing) = 1
    BY <2>1, FS_Singleton
  <2> QED BY <2>2
<1> QED BY <1>4, <1>5

LEMMA Numbers ==
  ASSUME TrainingTypes
  PROVE  /\ step \in Nat /\ latest \in Nat /\ target \in Nat /\ profile.keep \in Nat
         /\ (step > 0 => step \in Steps) /\ (latest > 0 => latest \in Steps)
<1>1. step \in 0 .. MaxStep /\ latest \in 0 .. MaxStep /\ target \in Nat
  BY DEF TrainingTypes, CallbackTypes
<1>2. profile.keep \in Nat
  BY DEF TrainingTypes, StoreTypes, ProfileType
<1> QED BY <1>1, <1>2, StepsAre

LEMMA FolderInit == Init => FolderInv
  BY DEF Init, StoreInit, CallbackInit, FolderInv

LEMMA FolderStep == CoreInv /\ CoreInv' /\ FolderInv /\ [Next]_vars => FolderInv'
<1> SUFFICES ASSUME CoreInv, CoreInv', FolderInv, [Next]_vars, profile'.backend = "olmo", ~cut'
             PROVE  /\ \A s \in Steps : local'[s] # "none" =>
                         \/ local'[s] = "whole" /\ s <= latest'
                         \/ local'[s] = "part" /\ s = step' /\ tpc' = "saving"
                    /\ profile'.keep >= 2 /\ latest' > 0 => local'[latest'] = "whole"
  BY DEF FolderInv
<1> USE DEF CoreInv, TrainingTypes
<1>1. CASE Olmo(TrainerStep)
  <2>1. profile' = profile /\ ~cut /\ profile.backend = "olmo"
    BY <1>1 DEF Olmo, TrainerStep, PruneOne, PruneEnds, PruneFails, PreTrain, TrainBatch, PostTrainBatch, SaveBegins,
       PostCheckpointSaved, PostStep, PostTrain, OnError, Drain, Drained, Close, Shutdown, At
  <2>2. /\ \A s \in Steps : local[s] # "none" =>
             \/ local[s] = "whole" /\ s <= latest
             \/ local[s] = "part" /\ s = step /\ tpc = "saving"
        /\ profile.keep >= 2 /\ latest > 0 => local[latest] = "whole"
    BY <2>1 DEF FolderInv
  <2>3. CASE \/ PruneEnds \/ PruneFails \/ TrainBatch \/ Close \/ Shutdown \/ OnError
             \/ PostTrainBatch \/ PostStep \/ PostTrain \/ Drain \/ Drained
    <3>1. UNCHANGED <<local, latest>> /\ tpc # "saving"
      BY <2>3 DEF PruneEnds, PruneFails, TrainBatch, Close, Shutdown, OnError, PostTrainBatch, PostStep, PostTrain, Drain,
                  Drained, At, Quiet, diskVars, uploadVars
    <3> QED BY <2>1, <2>2, <3>1
  <2>4. CASE PruneOne
    <3>1. /\ local' = [local EXCEPT ![Min(Existing)] = "none"] /\ UNCHANGED <<latest, step, tpc>>
          /\ tpc = "pruning" /\ Cardinality(Existing) > target
      BY <2>4 DEF PruneOne, At, threadVars
    <3>2. \A s \in Steps : local'[s] # "none" => local'[s] = local[s]
      BY <3>1 DEF StoreTypes
    <3>3. ASSUME profile.keep >= 2, latest > 0 PROVE local'[latest] = "whole"
      <4>1. target > 0 /\ target \in Nat /\ latest \in Steps
        <5>1. target >= profile.keep - 1
          BY <3>1 DEF PlaceInv
        <5> QED BY <3>3, <5>1, Numbers
      <4>2. \A s \in Existing : s <= latest
        BY <2>2, <3>1 DEF Existing
      <4>3. Min(Existing) # latest
        BY <3>1, <4>1, <4>2, OldestIsNotNewest
      <4> QED BY <2>2, <3>1, <3>3, <4>1, <4>3 DEF StoreTypes
    <3> QED BY <2>1, <2>2, <3>1, <3>2, <3>3
  <2>5. CASE PreTrain
    <3>1. latest' = Max({0} \union {s \in Steps : local[s] = "whole"}) /\ local' = local /\ tpc = "off"
      BY <2>5 DEF PreTrain, Quiet, diskVars, At
    <3>2. \A s \in Steps : local[s] = "whole" => s <= latest'
      BY <3>1, Resumes
    <3>3. latest' > 0 => local[latest'] = "whole"
      BY <3>1, Resumes
    <3> QED BY <2>2, <3>1, <3>2, <3>3
  <2>6. CASE SaveBegins
    <3>1. /\ local' = [local EXCEPT ![step] = "part"] /\ UNCHANGED <<step, latest>> /\ tpc' = "saving"
          /\ tpc \in {"save", "last"}
      BY <2>6 DEF SaveBegins
    <3>2. step > latest
      BY <3>1 DEF PlaceInv, AboutToSave
    <3>3. \A s \in Steps : s # step => local'[s] = local[s]
      BY <3>1 DEF StoreTypes
    <3>4. latest > 0 => latest \in Steps /\ latest # step
      BY <3>2, Numbers
    <3> QED BY <2>1, <2>2, <3>1, <3>3, <3>4 DEF StoreTypes
  <2>7. CASE PostCheckpointSaved
    <3>1. local' = [local EXCEPT ![step] = "whole"] /\ latest' = step /\ step' = step /\ tpc = "saving"
      BY <2>7 DEF PostCheckpointSaved, At
    <3>2. step > latest /\ step \in Steps /\ step \in Nat /\ latest \in Nat
      <4>1. step > latest
        BY <3>1 DEF PlaceInv, AboutToSave
      <4> QED BY <4>1, Numbers
    <3>3. \A s \in Steps : s # step => local'[s] = local[s]
      BY <3>1 DEF StoreTypes
    <3>4. local'[step] = "whole"
      BY <3>1, <3>2 DEF StoreTypes
    <3>5. ASSUME NEW s \in Steps, local'[s] # "none" PROVE local'[s] = "whole" /\ s <= step
      <4>1. CASE s = step
        BY <3>2, <3>4, <4>1, StepsAre
      <4>2. CASE s # step
        <5>1. local[s] = "whole" /\ s <= latest
          BY <2>2, <3>3, <3>5, <4>2
        <5> QED BY <3>2, <3>3, <4>2, <5>1, StepsAre
      <4> QED BY <4>1, <4>2
    <3> QED BY <3>1, <3>4, <3>5
  <2> QED BY <1>1, <2>3, <2>4, <2>5, <2>6, <2>7 DEF Olmo, TrainerStep
<1>2. CASE Olmo(CrashTrainer)
  <2>1. UNCHANGED <<profile, local, latest>> /\ ~cut /\ tpc # "saving"
    BY <1>2 DEF Olmo, CrashTrainer, At, diskVars
  <2> QED BY <1>2, <2>1 DEF FolderInv, Olmo
<1>3. CASE Olmo(UploaderStep) \/ Watching \/ (Elsewhere /\ UNCHANGED watcherVars)
  <2>1. UNCHANGED <<profile, tpc, step, latest, cut>> /\ (profile.backend = "olmo" => local' = local)
    <3>1. CASE Olmo(UploaderStep)
      BY <3>1, UploaderLeaves DEF Olmo, threadVars, pastVars
    <3>2. CASE Watching
      BY <3>2, WatchingLeaves DEF WatcherLeaves, callbackVars, threadVars, pastVars
    <3>3. CASE Elsewhere /\ UNCHANGED watcherVars
      BY <3>3 DEF Elsewhere, callbackVars, threadVars, pastVars
    <3> QED BY <1>3, <3>1, <3>2, <3>3
  <2> QED BY <2>1 DEF FolderInv
<1> QED BY <1>1, <1>2, <1>3, StepsOfTraining

(* As long as no crash cut a save short, every folder is whole but the one    *)
(* being saved, and with two or more to keep the newest is never pruned.      *)
THEOREM FoldersAreWhole == Spec => []FolderInv
  BY FolderInit, FolderStep, TrainerKeepsItsPlace, PTL DEF Spec

(* For any number of steps, whatever fails and however often the training is *)
(* restarted: with two or more to keep, a whole checkpoint is on disk at any *)
(* time after the first save, as long as no crash left half of one.          *)
THEOREM AlwaysSomethingToResume == Spec => []AWholeCheckpointRemains
<1>1. CoreInv /\ FolderInv => AWholeCheckpointRemains
  <2> SUFFICES ASSUME CoreInv, FolderInv, latest > 0, profile.keep >= 2, ~cut
               PROVE  \E s \in Steps : local[s] = "whole"
    BY DEF AWholeCheckpointRemains
  <2>1. latest \in Steps /\ profile.backend = "olmo"
    BY StepsAre DEF CoreInv, TrainingTypes, CallbackTypes, PlaceInv
  <2> QED BY <2>1 DEF FolderInv
<1> QED BY <1>1, TrainerKeepsItsPlace, FoldersAreWhole, PTL

-----------------------------------------------------------------------------
(* The submissions.                                                          *)
LEMMA SubmitInit == Init => SubmitInv
<1> SUFFICES ASSUME Init PROVE SubmitInv
  OBVIOUS
<1>1. \A s \in Steps : future[s] = "none" /\ job.at # s
  BY StepsAre DEF Init, CallbackInit, NoFutures, Idle
<1>2. pending = <<>> /\ DOMAIN pending = {} /\ known = {} /\ tpc = "off"
  BY DEF Init, CallbackInit
<1> QED BY <1>1, <1>2 DEF SubmitInv, Waits, Unfinished

(* When nothing moves but the trainer's place.                               *)
LEMMA SubmitSame ==
  ASSUME SubmitInv, UNCHANGED <<profile, known, pending, future, job, ephemeral>>,
         cut' = cut, disabled => disabled', disabled \in BOOLEAN, disabled' \in BOOLEAN,
         \A s \in Steps : (Unfinished(s) \/ Waits(s)) /\ Kept /\ local[s] # "none" => local'[s] # "none",
         tpc' = "ended" => tpc = "ended" \/ (pending = <<>> /\ \A s \in Steps : ~Unfinished(s))
  PROVE  SubmitInv'
  BY DEF SubmitInv, Waits, Unfinished, UploadDisabled, Kept

LEMMA SubmitSchedules ==
  ASSUME CoreInv, SubmitInv, Schedule,
         UNCHANGED <<profile, disabled, job, ephemeral, local, cut>>, tpc' # "ended"
  PROVE  SubmitInv'
<1> USE DEF CoreInv, TrainingTypes
<1>1. /\ pending' = <<>> /\ known' = known /\ DOMAIN pending' = {}
      /\ \A s \in Steps :
           \/ future'[s] = future[s]
           \/ future'[s] = "queued" /\ future[s] = "none" /\ Waits(s) /\ ~disabled
           \/ future'[s] = "cancelled" /\ future[s] = "queued" /\ disabled
      /\ \A s \in Steps : Waits(s) /\ ~UploadDisabled => future'[s] # "none"
  BY Scheduled
<1>2. \A s \in Steps : ~Waits(s)'
  BY <1>1 DEF Waits
<1>3. known \subseteq Steps
  BY DEF CallbackTypes
<1>4. /\ \A s \in Steps : future'[s] # "none" => s \in known'
      /\ \A s \in known' : ~UploadDisabled' => future'[s] # "none"
  BY <1>1, <1>3 DEF SubmitInv, UploadDisabled
<1>5. /\ \A s \in Steps : future'[s] = "cancelled" => disabled'
      /\ \A s \in Steps : future'[s] = "skipped" /\ Kept' => UploadDisabled' \/ s \in ephemeral'
      /\ \A s \in Steps : future'[s] = "running" <=> job'.at = s
  BY <1>1 DEF SubmitInv, UploadDisabled, Kept
<1>6. \A s \in Steps : Kept' /\ Unfinished(s)' => local'[s] # "none"
  BY <1>1 DEF SubmitInv, Kept, Unfinished
<1> QED BY <1>1, <1>2, <1>4, <1>5, <1>6 DEF SubmitInv

LEMMA SubmitTrainer ==
  ASSUME CoreInv, CoreInv', FolderInv, SubmitInv, Olmo(TrainerStep)
  PROVE  SubmitInv'
<1> USE DEF CoreInv, TrainingTypes
<1>1. UNCHANGED <<profile, disabled, job>> /\ cut' = cut /\ profile.backend = "olmo" /\ disabled \in BOOLEAN
  BY DEF Olmo, TrainerStep, PruneOne, PruneEnds, PruneFails, PreTrain, TrainBatch, PostTrainBatch, SaveBegins,
     PostCheckpointSaved, PostStep, PostTrain, OnError, Drain, Drained, Close, Shutdown, At, StoreTypes
<1>2. CASE PruneEnds \/ PruneFails \/ PreTrain \/ TrainBatch \/ OnError \/ Drained \/ Close \/ Shutdown
  <2>1. UNCHANGED <<known, pending, future, local, ephemeral>>
    BY <1>2 DEF PruneEnds, PruneFails, PreTrain, TrainBatch, OnError, Drained, Close, Shutdown, Quiet, diskVars, uploadVars
  <2>2. ASSUME tpc' = "ended" PROVE pending = <<>> /\ \A s \in Steps : ~Unfinished(s)
    <3>1. Shutdown
      <4>1. CASE PruneEnds \/ PruneFails
        BY <2>2, <4>1 DEF PruneEnds, PruneFails, CallbackTypes, Goals
      <4>2. CASE TrainBatch \/ OnError \/ Close
        BY <2>2, <4>2 DEF TrainBatch, OnError, Close
      <4>3. CASE PreTrain \/ Drained
        BY <2>2, <4>3, PruningTo DEF PreTrain, Drained, CallbackTypes, Goals
      <4> QED BY <1>2, <4>1, <4>2, <4>3
    <3> QED BY <3>1 DEF Shutdown, At, PlaceInv, Submits
  <2> QED BY <1>1, <2>1, <2>2, SubmitSame
<1>3. CASE PostTrainBatch \/ PostStep \/ PostTrain \/ Drain
  <2>1. UNCHANGED <<local, ephemeral>> /\ tpc' # "ended"
    BY <1>3 DEF PostTrainBatch, PostStep, PostTrain, Drain, Quiet, diskVars, At, MakeRoom, PruneTo, PlaceInv
  <2>2. CASE Schedule
    BY <1>1, <2>1, <2>2, SubmitSchedules
  <2>3. CASE UNCHANGED uploadVars
    BY <1>1, <2>1, <2>3, SubmitSame DEF uploadVars
  <2> QED BY <1>3, <2>2, <2>3 DEF PostTrainBatch, PostStep, PostTrain, Drain
<1>4. CASE PruneOne
  <2>1. /\ UNCHANGED <<known, pending, future, ephemeral, tpc>> /\ tpc = "pruning"
        /\ local' = [local EXCEPT ![Min(Existing)] = "none"]
        /\ Cardinality(Existing) > target /\ ~Unfinished(Min(Existing))
    BY <1>4 DEF PruneOne, At, threadVars, uploadVars
  <2>2. ASSUME NEW s \in Steps, Unfinished(s) \/ Waits(s), Kept, local[s] # "none" PROVE local'[s] # "none"
    <3>1. CASE Unfinished(s)
      BY <2>1, <2>2, <3>1 DEF StoreTypes
    <3>2. CASE Waits(s)
      <4>1. profile.keep > 0 /\ ~cut /\ target = profile.keep /\ s = latest
        <5>1. pending # <<>> /\ \E i \in DOMAIN pending : pending[i] = s
          BY <3>2 DEF Waits
        <5> QED BY <2>1, <2>2, <5>1 DEF PlaceInv, Submits, Kept
      <4>2. \A x \in Existing : x <= latest
        BY <1>1, <2>1, <4>1 DEF FolderInv, Existing
      <4>3. Min(Existing) # s
        BY <2>1, <4>1, <4>2, Numbers, OldestIsNotNewest
      <4> QED BY <2>1, <2>2, <4>3 DEF StoreTypes
    <3> QED BY <2>2, <3>1, <3>2
  <2> QED BY <1>1, <2>1, <2>2, SubmitSame
<1>5. CASE SaveBegins
  <2>1. /\ UNCHANGED <<known, pending, future>> /\ tpc' = "saving"
        /\ local' = [local EXCEPT ![step] = "part"]
        /\ ephemeral' \in {ephemeral \cup {step}, ephemeral \ {step}} /\ tpc \in {"save", "last"}
    BY <1>5 DEF SaveBegins, uploadVars
  <2>2. step \notin known
    <3>1. step > latest
      BY <2>1 DEF PlaceInv, AboutToSave
    <3> QED BY <3>1, Numbers DEF PlaceInv
  <2>3. \A s \in Steps : local[s] # "none" => local'[s] # "none"
    BY <2>1 DEF StoreTypes
  <2>4. \A s \in Steps : Waits(s)' = Waits(s) /\ Unfinished(s)' = Unfinished(s)
    BY <2>1 DEF Waits, Unfinished
  <2>5. \A s \in Steps : future'[s] = "skipped" /\ Kept' => UploadDisabled' \/ s \in ephemeral'
    BY <1>1, <2>1, <2>2 DEF SubmitInv, Kept, UploadDisabled
  <2>6. \A s \in Steps : Kept' /\ (Unfinished(s)' \/ Waits(s)') => local'[s] # "none"
    BY <1>1, <2>3, <2>4 DEF SubmitInv, Kept
  <2>7. /\ \A s \in Steps : future'[s] # "none" => s \in known'
        /\ \A s \in known' : ~UploadDisabled' => future'[s] # "none" \/ Waits(s)'
        /\ \A s \in Steps : Waits(s)' => s \in known'
        /\ \A s \in Steps : future'[s] = "cancelled" => disabled'
        /\ \A s \in Steps : future'[s] = "running" <=> job'.at = s
    BY <1>1, <2>1, <2>4 DEF SubmitInv, UploadDisabled, CallbackTypes
  <2> QED BY <2>1, <2>5, <2>6, <2>7 DEF SubmitInv
<1>6. CASE PostCheckpointSaved
  <2>1. /\ step > latest /\ step \in Steps /\ pending = <<>> /\ UNCHANGED <<future, ephemeral>> /\ tpc = "saving"
        /\ local' = [local EXCEPT ![step] = "whole"] /\ known' = known \cup {step}
        /\ pending' = IF profile.upload THEN Append(pending, step) ELSE pending
    <3>1. tpc = "saving" /\ pending = <<>>
      BY <1>6 DEF PostCheckpointSaved, At, PlaceInv, Submits
    <3>2. step > latest /\ step \in Steps
      BY <3>1, Numbers DEF PlaceInv, AboutToSave
    <3> QED BY <1>6, <3>1, <3>2 DEF PostCheckpointSaved
  <2>2. \A s \in Steps : (Waits(s)' <=> profile.upload /\ s = step) /\ ~Waits(s) /\ (Unfinished(s)' <=> Unfinished(s))
    <3>1. CASE profile.upload
      <4>1. pending' = <<step>> /\ DOMAIN pending' = {1} /\ pending'[1] = step /\ DOMAIN pending = {}
        BY <2>1, <3>1
      <4> QED BY <2>1, <3>1, <4>1 DEF Waits, Unfinished
    <3>2. CASE ~profile.upload
      <4>1. pending' = <<>> /\ DOMAIN pending' = {} /\ DOMAIN pending = {}
        BY <2>1, <3>2
      <4> QED BY <2>1, <3>2, <4>1 DEF Waits, Unfinished
    <3> QED BY <3>1, <3>2 DEF StoreTypes, ProfileType
  <2>3. \A s \in Steps : local[s] # "none" => local'[s] # "none"
    BY <2>1 DEF StoreTypes
  <2>4. local'[step] # "none"
    BY <2>1 DEF StoreTypes
  <2>5. tpc' # "ended"
    BY <1>6, PruningTo DEF PostCheckpointSaved, CallbackTypes, Goals
  <2>6. \A s \in known' : ~UploadDisabled' => future'[s] # "none" \/ Waits(s)'
    BY <1>1, <2>1, <2>2 DEF SubmitInv, UploadDisabled, CallbackTypes
  <2>7. \A s \in Steps : Kept' /\ (Unfinished(s)' \/ Waits(s)') => local'[s] # "none"
    BY <1>1, <2>2, <2>3, <2>4 DEF SubmitInv, Kept
  <2> QED BY <1>1, <2>1, <2>2, <2>5, <2>6, <2>7 DEF SubmitInv, UploadDisabled, Kept
<1> QED BY <1>2, <1>3, <1>4, <1>5, <1>6 DEF Olmo, TrainerStep

(* The upload thread takes a queued upload, goes on with the one it has, or  *)
(* ends it: without an attempt only if there is a reason.                    *)
Takes(s) ==
  /\ job.at = None /\ future[s] = "queued"
  /\ job' = [at |-> s, stage |-> "start"] /\ future' = [future EXCEPT ![s] = "running"]
EndsUpload(how) ==
  /\ job.at \in Steps /\ Ends(how)
  /\ how = "skipped" => UploadDisabled \/ local[job.at] = "none" \/ job.at \in ephemeral
LEMMA UploaderMoves ==
  ASSUME CoreInv, UploaderStep
  PROVE  \/ \E s \in Steps : Takes(s)
         \/ job.at \in Steps /\ job'.at = job.at /\ future' = future
         \/ \E how \in {"skipped", "tried"} : EndsUpload(how)
<1> USE DEF CoreInv, TrainingTypes, CallbackTypes
<1>1. CASE TakeUpload
  <2> DEFINE S == {x \in Steps : future[x] = "queued"}
  <2>1. Min(S) \in S
    <3>1. S \subseteq Nat /\ S # {}
      BY <1>1, StepsAre DEF TakeUpload
    <3> QED BY <3>1, OldestOf
  <2>2. Takes(Min(S)) /\ Min(S) \in Steps
    BY <1>1, <2>1 DEF TakeUpload, Takes
  <2> QED BY <2>2
<1>2. ASSUME NEW stage, In(stage) PROVE job.at \in Steps
  BY <1>2 DEF In
<1>3. CASE UploadPiece \/ UploadEnds \/ Convert \/ ConvertWrites \/ ConvertEnds \/ ConvertFails
           \/ UploadHfPiece \/ UploadHfEnds \/ UploadHfFails
  BY <1>2, <1>3 DEF UploadPiece, UploadEnds, Convert, ConvertWrites, ConvertEnds, ConvertFails, UploadHfPiece, UploadHfEnds,
     UploadHfFails, ToStage
<1>4. CASE StartUpload
  <2>1. job.at \in Steps
    BY <1>2, <1>4 DEF StartUpload
  <2> QED BY <1>4, <2>1 DEF StartUpload, EndsUpload, ToStage
<1>5. CASE UploadFails
  <2>1. job.at \in Steps
    BY <1>2, <1>5 DEF UploadFails
  <2> QED BY <1>5, <2>1 DEF UploadFails, EndsUpload
<1>6. CASE PruneRemote
  <2>1. job.at \in Steps /\ Ends("tried")
    BY <1>2, <1>6 DEF PruneRemote
  <2> QED BY <2>1 DEF EndsUpload
<1> QED BY <1>1, <1>3, <1>4, <1>5, <1>6 DEF UploaderStep

LEMMA SubmitWorks ==
  ASSUME SubmitInv, UNCHANGED <<profile, disabled, local, ephemeral, tpc, known, pending, cut>>,
         known \subseteq Steps,
         \A s \in Steps : (Unfinished(s)' => Unfinished(s)) /\ (future'[s] # "none" <=> future[s] # "none"),
         \A s \in Steps : future'[s] = "running" <=> job'.at = s,
         \A s \in Steps : future'[s] = "cancelled" => disabled',
         \A s \in Steps : future'[s] = "skipped" /\ Kept => UploadDisabled \/ s \in ephemeral
  PROVE  SubmitInv'
<1>1. \A s \in Steps : Waits(s)' = Waits(s)
  BY DEF Waits
<1>2. Kept' = Kept /\ UploadDisabled' = UploadDisabled
  BY DEF Kept, UploadDisabled
<1>3. \A s \in Steps : Kept' /\ (Unfinished(s)' \/ Waits(s)') => local'[s] # "none"
  BY <1>1, <1>2 DEF SubmitInv
<1>4. tpc' = "ended" => pending' = <<>> /\ \A s \in Steps : ~Unfinished(s)'
  BY DEF SubmitInv
<1>5. /\ \A s \in Steps : future'[s] # "none" => s \in known'
      /\ \A s \in known' : ~UploadDisabled' => future'[s] # "none" \/ Waits(s)'
      /\ \A s \in Steps : Waits(s)' => s \in known'
  BY <1>1, <1>2 DEF SubmitInv
<1> QED BY <1>2, <1>3, <1>4, <1>5 DEF SubmitInv

LEMMA SubmitUploader ==
  ASSUME CoreInv, SubmitInv, Olmo(UploaderStep)
  PROVE  SubmitInv'
<1> USE DEF CoreInv, TrainingTypes
<1>1. UNCHANGED <<profile, disabled, local, ephemeral, tpc, known, pending, cut>>
  BY UploaderLeaves DEF Olmo, threadVars, pastVars
<1>2. future \in [Steps -> FutureStates] /\ future' \in [Steps -> FutureStates] /\ \A s \in Steps : s # None
  BY UploaderLeaves, StepsAre DEF Olmo, CallbackTypes
<1>3. known \subseteq Steps
  BY DEF CallbackTypes
<1>4. CASE \E s \in Steps : Takes(s)
  <2>1. PICK t \in Steps : Takes(t)
    BY <1>4
  <2>2. /\ job'.at = t /\ job.at = None /\ future[t] = "queued" /\ future'[t] = "running"
        /\ \A s \in Steps : s # t => future'[s] = future[s]
    BY <1>2, <2>1 DEF Takes
  <2>3. \A s \in Steps : Unfinished(s)' = Unfinished(s)
    BY <2>2 DEF Unfinished
  <2>4. \A s \in Steps : future'[s] = "running" <=> job'.at = s
    BY <1>2, <2>2 DEF SubmitInv
  <2>5. \A s \in Steps : (future'[s] # "none" <=> future[s] # "none") /\ future'[s] \in {future[s], "running"}
    BY <2>2
  <2>6. /\ \A s \in Steps : future'[s] = "cancelled" => disabled'
        /\ \A s \in Steps : future'[s] = "skipped" /\ Kept => UploadDisabled \/ s \in ephemeral
    BY <1>1, <2>5 DEF SubmitInv
  <2> QED BY <1>1, <1>3, <2>3, <2>4, <2>5, <2>6, SubmitWorks
<1>5. CASE job.at \in Steps /\ job'.at = job.at /\ future' = future
  <2>1. \A s \in Steps : Unfinished(s)' = Unfinished(s)
    BY <1>5 DEF Unfinished
  <2>2. /\ \A s \in Steps : future'[s] = "running" <=> job'.at = s
        /\ \A s \in Steps : future'[s] = "cancelled" => disabled'
        /\ \A s \in Steps : future'[s] = "skipped" /\ Kept => UploadDisabled \/ s \in ephemeral
    BY <1>1, <1>5 DEF SubmitInv
  <2> QED BY <1>1, <1>3, <1>5, <2>1, <2>2, SubmitWorks
<1>6. CASE \E how \in {"skipped", "tried"} : EndsUpload(how)
  <2>1. PICK how \in {"skipped", "tried"} : EndsUpload(how)
    BY <1>6
  <2>2. /\ job.at \in Steps /\ job'.at = None /\ future'[job.at] = how
        /\ \A s \in Steps : s # job.at => future'[s] = future[s]
    BY <1>2, <2>1 DEF EndsUpload, Ends, Idle
  <2>3. future[job.at] = "running"
    BY <2>2 DEF SubmitInv
  <2>4. \A s \in Steps : (Unfinished(s)' => Unfinished(s)) /\ (future'[s] # "none" <=> future[s] # "none")
    BY <2>1, <2>2, <2>3 DEF Unfinished
  <2>5. \A s \in Steps : future'[s] = "running" <=> job'.at = s
    BY <1>2, <2>1, <2>2 DEF SubmitInv
  <2>6. \A s \in Steps : future'[s] = "cancelled" => disabled'
    BY <1>1, <2>1, <2>2 DEF SubmitInv
  <2>7. \A s \in Steps : future'[s] = "skipped" /\ Kept => UploadDisabled \/ s \in ephemeral
    <3> SUFFICES ASSUME NEW s \in Steps, future'[s] = "skipped", Kept
                 PROVE  UploadDisabled \/ s \in ephemeral
      OBVIOUS
    <3>1. CASE s # job.at
      BY <2>2, <3>1 DEF SubmitInv
    <3>2. CASE s = job.at
      <4>1. local[s] # "none"
        BY <2>3, <3>2 DEF SubmitInv, Unfinished
      <4> QED BY <2>1, <2>2, <3>2, <4>1 DEF EndsUpload
    <3> QED BY <3>1, <3>2
  <2> QED BY <1>1, <1>3, <2>4, <2>5, <2>6, <2>7, SubmitWorks
<1> QED BY <1>4, <1>5, <1>6, UploaderMoves DEF Olmo

LEMMA SubmitStep == CoreInv /\ CoreInv' /\ FolderInv /\ SubmitInv /\ [Next]_vars => SubmitInv'
<1> SUFFICES ASSUME CoreInv, CoreInv', FolderInv, SubmitInv, [Next]_vars PROVE SubmitInv'
  OBVIOUS
<1> USE DEF CoreInv, TrainingTypes
<1>1. CASE Olmo(TrainerStep)
  BY <1>1, SubmitTrainer
<1>2. CASE Olmo(CrashTrainer)
  <2>1. tpc' = "off" /\ known' = {} /\ pending' = <<>> /\ DOMAIN pending' = {} /\ future' = NoFutures /\ job' = Idle
    BY <1>2 DEF Olmo, CrashTrainer
  <2>2. \A s \in Steps : future'[s] = "none" /\ job'.at # s /\ ~Waits(s)' /\ ~Unfinished(s)'
    BY <2>1, StepsAre DEF NoFutures, Idle, Waits, Unfinished
  <2> QED BY <2>1, <2>2 DEF SubmitInv
<1>3. CASE Olmo(UploaderStep)
  BY <1>3, SubmitUploader
<1>4. CASE Watching
  <2>1. UNCHANGED <<profile, disabled, local, ephemeral, known, pending, future, job, cut, tpc>>
    BY <1>4, WatchingLeaves DEF WatcherLeaves, callbackVars, uploadVars, threadVars, pastVars
  <2> QED BY <2>1 DEF SubmitInv, Waits, Unfinished, UploadDisabled, Kept
<1>5. CASE Elsewhere /\ UNCHANGED watcherVars
  <2>1. UNCHANGED <<profile, ephemeral, known, pending, future, job, cut, tpc>> /\ (disabled => disabled')
        /\ disabled \in BOOLEAN /\ disabled' \in BOOLEAN
    BY <1>5 DEF Elsewhere, callbackVars, uploadVars, threadVars, pastVars, StoreTypes
  <2>2. CASE profile.backend = "olmo"
    <3>1. local' = local
      BY <1>5, <2>2 DEF Elsewhere
    <3>2. tpc' = "ended" => tpc = "ended"
      BY <2>1
    <3> QED BY <2>1, <3>1, <3>2, SubmitSame
  <2>3. CASE profile.backend # "olmo"
    <3>1. tpc = "off" /\ known = {} /\ pending = <<>> /\ DOMAIN pending = {} /\ future = NoFutures /\ job = Idle
      BY <2>3 DEF PlaceInv
    <3>2. \A s \in Steps : future'[s] = "none" /\ job'.at # s /\ ~Waits(s)' /\ ~Unfinished(s)'
      BY <2>1, <3>1, StepsAre DEF NoFutures, Idle, Waits, Unfinished
    <3> QED BY <2>1, <3>1, <3>2 DEF SubmitInv
  <2> QED BY <2>2, <2>3
<1> QED BY <1>1, <1>2, <1>3, <1>4, <1>5, StepsOfTraining

(* Every checkpoint of the callback is pending, queued, running or over, and  *)
(* its folder stays until then.                                               *)
THEOREM UploadsAreSubmitted == Spec => []SubmitInv
  BY SubmitInit, SubmitStep, TrainerKeepsItsPlace, FoldersAreWhole, PTL DEF Spec

-----------------------------------------------------------------------------
(* The watcher of an external trainer, and the end of a backend.             *)
LEMMA StepsOfVerl ==
  ASSUME StoreTypes, [Next]_vars
  PROVE  \/ profile.backend = "verl" /\ main = "run" /\ main' = "run" /\ (Verl \/ VerlUpload)
         \/ /\ UNCHANGED <<profile, verlVars>> /\ (profile.backend = "verl" => local' = local)
            /\ disabled => disabled'
<1>1. CASE OlmoStep \/ OlmoUpload
  <2>1. UNCHANGED <<profile, disabled, verlVars>> /\ profile.backend = "olmo"
    <3>1. CASE OlmoStep
      BY <3>1 DEF OlmoStep, Runs, TrainerStep, CrashTrainer, PruneOne, PruneEnds, PruneFails, PreTrain, TrainBatch, PostTrainBatch,
         SaveBegins, PostCheckpointSaved, PostStep, PostTrain, OnError, Drain, Drained, Close, Shutdown, At
    <3>2. CASE OlmoUpload
      <4>1. UNCHANGED <<profile, disabled>>
        BY <3>2 DEF OlmoUpload, UploaderStep, TakeUpload, StartUpload, UploadPiece, UploadEnds, UploadFails, Convert,
           ConvertWrites, ConvertEnds, ConvertFails, UploadHfPiece, UploadHfEnds, UploadHfFails, PruneRemote, In, storeVars
      <4> QED BY <3>2, <4>1 DEF OlmoUpload, Runs
    <3> QED BY <1>1, <3>1, <3>2
  <2> QED BY <2>1
<1>2. CASE Verl \/ VerlUpload
  BY <1>2 DEF Verl, VerlUpload, Runs, logVars
<1>3. CASE Prime \/ PrimeFault
  BY <1>3, PrimeStaysElsewhere DEF Prime, PrimeFault, Elsewhere, Runs
<1>4. CASE Engine \/ LogThread
  <2>1. UNCHANGED <<profile, disabled, local>>
    BY <1>4 DEF Engine, LogThread, LogStep, BackendEnds, StartLogs, Joined, BeginFinal, EndFinal, LogThreadStep, IntervalPasses,
       SeesStop, BeginPeriodic, EndPeriodic, storeVars, diskVars
  <2> QED BY <1>4, <2>1 DEF Engine, LogThread
<1>5. CASE Marker \/ UNCHANGED vars
  BY <1>5 DEF Marker, Disable, vars, storeVars, diskVars
<1>6. CASE Watching
  BY <1>6, WatchingLeaves DEF WatcherLeaves, Watching
<1> QED BY <1>1, <1>2, <1>3, <1>4, <1>5, <1>6 DEF Next

LEMMA LastScanInit == Init => LastScanInv
  BY DEF Init, VerlInit, LastScanInv

LEMMA LastScanStep == CoreInv /\ LastScanInv /\ [Next]_vars => LastScanInv'
<1> SUFFICES ASSUME CoreInv, LastScanInv, [Next]_vars PROVE LastScanInv'
  OBVIOUS
<1>1. StoreTypes
  BY DEF CoreInv, TrainingTypes
<1>2. CASE UNCHANGED <<profile, verlVars>> /\ (profile.backend = "verl" => local' = local) /\ (disabled => disabled')
  <2>1. disabled \in BOOLEAN
    BY <1>1 DEF StoreTypes
  <2>2. CASE vpc = "off"
    BY <1>2, <2>2 DEF LastScanInv, verlVars
  <2>3. CASE vpc # "off"
    <3>1. local' = local
      BY <1>2, <2>3 DEF LastScanInv
    <3> QED BY <1>2, <2>1, <3>1 DEF LastScanInv, verlVars, Completed, UploadDisabled
  <2> QED BY <2>2, <2>3
<1>3. CASE profile.backend = "verl" /\ (Verl \/ VerlUpload)
  <2>1. UNCHANGED <<profile, disabled>> /\ profile.backend = "verl"
    BY <1>1, <1>3 DEF Verl, VerlUpload, RunVerl, VerlStep, VerlSaves, VerlSaved, VerlExits, VerlWatcherStep, BeginVerlScan,
       VerlPiece, VerlUploads, VerlFails, VerlStagingRaises, VerlRecordRaises, ScanBreaksOff, EndVerlScan, EndFinalScan, Still, storeVars
  <2>2. CASE RunVerl
    BY <2>1, <2>2 DEF LastScanInv, RunVerl, UploadDisabled
  <2>3. CASE VerlSaves \/ VerlSaved
    <3>1. ~stop
      BY <2>3 DEF LastScanInv, VerlSaves, VerlSaved
    <3>2. UNCHANGED <<vpc, stop, todo, cutOff>>
      BY <2>3 DEF VerlSaves, VerlSaved
    <3> QED BY <2>1, <3>1, <3>2 DEF LastScanInv, UploadDisabled
  <2>4. CASE VerlExits
    BY <2>1, <2>4 DEF LastScanInv, VerlExits, Completed, UploadDisabled
  <2>5. CASE VerlWatcherStep
    <3>1. UNCHANGED <<tracker, local, child, stop>>
      BY <2>5 DEF VerlWatcherStep, BeginVerlScan, VerlPiece, VerlUploads, VerlFails, VerlStagingRaises,
       VerlRecordRaises, ScanBreaksOff, EndVerlScan, EndFinalScan, storeVars,
         diskVars, verlVars
    <3>2. Completed' = Completed
      BY <3>1 DEF Completed
    <3>3. CASE BeginVerlScan
      BY <2>1, <3>1, <3>3 DEF LastScanInv, BeginVerlScan, Completed
    <3>4. CASE VerlPiece
      BY <2>1, <3>2, <3>4 DEF LastScanInv, VerlPiece, verlVars, UploadDisabled
    <3>5. CASE VerlUploads
      BY <2>1, <3>2, <3>5 DEF LastScanInv, VerlUploads, UploadDisabled
    <3>6. CASE VerlFails
      BY <2>1, <3>2, <3>6 DEF LastScanInv, VerlFails, UploadDisabled
    <3>9. CASE VerlStagingRaises \/ VerlRecordRaises
      <4>1. /\ vpc \in {"scan", "final"} /\ todo # {} /\ todo' = {} /\ uploaded \subseteq uploaded' /\ gaveUp' = gaveUp
            /\ vpc' = IF vpc = "final" THEN "ended" ELSE vpc
            /\ cutOff' = IF vpc = "final" THEN Min(todo) ELSE cutOff
        BY <3>9 DEF VerlStagingRaises, VerlRecordRaises, ScanBreaksOff
      <4>2. Min(todo) \in Nat /\ Min(todo) > 0 /\ \A s \in todo : Min(todo) <= s
        BY <4>1, OldestOf, StepsAre DEF LastScanInv
      <4>3. \A s \in Completed : s < Min(todo) => s \notin todo
        BY <4>2, StepsAre DEF Completed
      <4>4. CASE vpc = "final"
        BY <2>1, <3>1, <3>2, <4>1, <4>2, <4>3, <4>4 DEF LastScanInv, UploadDisabled
      <4>5. CASE vpc = "scan"
        BY <2>1, <3>1, <4>1, <4>5 DEF LastScanInv
      <4> QED BY <4>1, <4>4, <4>5
    <3>7. CASE EndVerlScan
      BY <2>1, <3>1, <3>2, <3>7 DEF LastScanInv, EndVerlScan, Completed
    <3>8. CASE EndFinalScan
      BY <2>1, <3>1, <3>2, <3>8 DEF LastScanInv, EndFinalScan, UploadDisabled
    <3> QED BY <2>5, <3>3, <3>4, <3>5, <3>6, <3>7, <3>8, <3>9 DEF VerlWatcherStep
  <2> QED BY <1>3, <2>2, <2>3, <2>4, <2>5 DEF Verl, VerlUpload, VerlStep
<1> QED BY <1>1, <1>2, <1>3, StepsOfVerl

(* The last scan of the watcher of an external trainer sees all that was      *)
(* completed.                                                                 *)
THEOREM NothingIsSavedAfterTheLastScan == Spec => []LastScanInv
  BY LastScanInit, LastScanStep, TrainerKeepsItsPlace, PTL DEF Spec

(* The engine goes on from a backend that is over only, which stays over.    *)
LEMMA EngineInit == Init => EngineInv
  BY DEF Init, LogInit, EngineInv

LEMMA EngineStep == CoreInv /\ EngineInv /\ [Next]_vars => EngineInv'
<1> SUFFICES ASSUME CoreInv, EngineInv, [Next]_vars, main' \notin {"start", "run"}
             PROVE  /\ profile'.backend = "olmo" => tpc' = "ended"
                    /\ profile'.backend = "verl" => child' = "exited" /\ vpc' = "ended"
  BY DEF EngineInv
<1>1. StoreTypes
  BY DEF CoreInv, TrainingTypes
<1>2. CASE main = "run"
  <2>1. BackendIsOver /\ BackendEnds /\ UNCHANGED <<callbackVars, verlVars>>
    <3>1. CASE Engine
      BY <1>2, <3>1 DEF Engine, LogStep, StartLogs, Joined, BeginFinal, EndFinal
    <3>2. CASE LogThread
      BY <1>2, <3>2 DEF LogThread, LogThreadStep, IntervalPasses, SeesStop, BeginPeriodic, EndPeriodic
    <3>3. CASE Watching \/ Marker \/ UNCHANGED vars
      BY <1>2, <3>3 DEF Watching, Marker, vars, logVars, WatcherStep, BeginScan, Inspect, Watch, WatcherPiece, WatcherUploads,
         WatcherFails, EndScan
    <3>4. CASE OlmoStep \/ OlmoUpload \/ Verl \/ VerlUpload \/ Prime \/ PrimeFault
      BY <1>2, <3>4 DEF OlmoStep, OlmoUpload, Verl, VerlUpload, Prime, PrimeFault, logVars
    <3> QED BY <3>1, <3>2, <3>3, <3>4 DEF Next
  <2>2. profile' = profile /\ profile.backend \in {"olmo", "verl", "prime"}
    BY <1>1, <2>1 DEF BackendEnds, storeVars, StoreTypes, ProfileType
  <2> QED BY <2>1, <2>2 DEF BackendIsOver, callbackVars, threadVars, verlVars
<1>3. CASE main # "run"
  <2>1. main # "start"
    BY <1>3 DEF Next, OlmoStep, OlmoUpload, Verl, VerlUpload, Prime, PrimeFault, Runs, Engine, LogStep, StartLogs, Joined,
       BeginFinal, EndFinal, BackendEnds, LogThread, LogThreadStep, IntervalPasses, SeesStop, BeginPeriodic, EndPeriodic,
       Watching, Marker, vars, logVars
  <2>2. UNCHANGED <<profile, tpc, child, vpc>>
    <3>1. UNCHANGED <<profile, verlVars>>
      BY <1>1, <1>3, StepsOfVerl
    <3>2. UNCHANGED callbackVars
      <4>1. CASE Watching
        BY <4>1, WatchingLeaves DEF WatcherLeaves
      <4>2. CASE Elsewhere
        BY <4>2 DEF Elsewhere
      <4> QED BY <1>1, <1>3, <4>1, <4>2, StepsOfTraining DEF Olmo
    <3> QED BY <3>1, <3>2 DEF callbackVars, threadVars, verlVars
  <2> QED BY <1>3, <2>1, <2>2 DEF EngineInv
<1> QED BY <1>2, <1>3

(* Behind the training the engine meets a backend that is over.               *)
THEOREM EngineGoesOnWhenAllIsOver == Spec => []EngineInv
  BY EngineInit, EngineStep, TrainerKeepsItsPlace, PTL DEF Spec

(* A save is of a new step, and all that is pending then.                    *)
LEMMA SavesANewOne ==
  ASSUME CoreInv, PostCheckpointSaved
  PROVE  /\ step > latest /\ step \in Steps /\ step \notin known /\ future' = future
         /\ \A s \in Steps : Waits(s)' => s = step
<1> USE DEF CoreInv, TrainingTypes
<1>1. step > latest /\ pending = <<>>
  BY DEF PostCheckpointSaved, At, PlaceInv, AboutToSave, Submits
<1>2. step \in Steps /\ latest \in Nat
  BY <1>1, Numbers
<1>3. step \notin known
  BY <1>1, <1>2, StepsAre DEF PlaceInv
<1>4. pending' = <<>> \/ pending' = <<step>>
  BY <1>1, <1>2 DEF PostCheckpointSaved
<1>5. \A s \in Steps : Waits(s)' => s = step
  BY <1>4 DEF Waits
<1> QED BY <1>1, <1>2, <1>3, <1>5 DEF PostCheckpointSaved

(* The uploads that are owed.                                                *)
LEMMA OwedInit == Init => OwedInv
  BY DEF Init, CallbackInit, OwedInv

LEMMA OwedStep == CoreInv /\ SubmitInv /\ OwedInv /\ [Next]_vars => OwedInv'
<1> SUFFICES ASSUME CoreInv, SubmitInv, OwedInv, [Next]_vars PROVE OwedInv'
  OBVIOUS
<1> USE DEF CoreInv, TrainingTypes
<1>1. CASE Olmo(TrainerStep)
  <2>1. owed' = owed \union (known' \ known) /\ orphaned' = orphaned \ (known' \ known) /\ known \subseteq Steps
    BY <1>1 DEF Olmo, TrainerStep, CallbackTypes
  <2>2. CASE Schedule
    <3>1. known' = known /\ \A s \in Steps : future'[s] = "tried" => future[s] = "tried"
      BY <2>2, Scheduled
    <3> QED BY <2>1, <3>1 DEF OwedInv
  <2>3. CASE UNCHANGED uploadVars
    BY <2>1, <2>3 DEF OwedInv, uploadVars
  <2>4. CASE PostCheckpointSaved
    <3>1. step \in Steps /\ step \notin known /\ known' = known \union {step} /\ future' = future
      BY <2>4, SavesANewOne DEF PostCheckpointSaved
    <3>2. future[step] = "none"
      BY <3>1 DEF SubmitInv
    <3> QED BY <2>1, <3>1, <3>2 DEF OwedInv
  <2> QED BY <1>1, <2>2, <2>3, <2>4 DEF Olmo, TrainerStep, PruneOne, PruneEnds, PruneFails, PreTrain, TrainBatch,
          PostTrainBatch, SaveBegins, PostStep, PostTrain, OnError, Drain, Drained, Close, Shutdown
<1>2. CASE Olmo(CrashTrainer)
  BY <1>2 DEF Olmo, CrashTrainer, OwedInv
<1>3. CASE Olmo(UploaderStep)
  BY <1>3, UploaderLeaves DEF Olmo, OwedInv, pastVars
<1>4. CASE Watching \/ Elsewhere
  BY <1>4, WatchingLeaves DEF WatcherLeaves, Elsewhere, callbackVars, uploadVars, pastVars, OwedInv
<1> QED BY <1>1, <1>2, <1>3, <1>4, StepsOfTraining

(* What is owed is known to the process, or a crash has left it behind.       *)
THEOREM OwedIsKnown == Spec => []OwedInv
  BY OwedInit, OwedStep, TrainerKeepsItsPlace, UploadsAreSubmitted, PTL DEF Spec

(* For any training, of any number of processes, that ends with uploading     *)
(* switched on: no permanent checkpoint that was saved whole is left without  *)
(* a try to upload it, but for those whose upload had not come to its end     *)
(* when a crash lost the queue (and, if a crash cut a save, where folders are *)
(* pruned); and of an external trainer's checkpoints all are uploaded or      *)
(* were given up, but for those at or behind the one at which an exception    *)
(* broke the final scan off.                                                  *)
THEOREM NoCheckpointIsForgotten == Spec => []EveryCheckpointIsTried
<1>1. CoreInv /\ SubmitInv /\ OwedInv /\ LastScanInv /\ EngineInv => EveryCheckpointIsTried
  <2> SUFFICES ASSUME CoreInv, SubmitInv, OwedInv, LastScanInv, EngineInv, main = "ended", ~UploadDisabled, Kept
               PROVE  /\ owed \ ephemeral \subseteq orphaned
                      /\ profile.backend = "verl" =>
                           \A s \in Completed : (cutOff = 0 \/ s < cutOff) => s \in uploaded \union gaveUp
    BY DEF EveryCheckpointIsTried, Kept
  <2>1. ASSUME NEW s \in known, s \notin ephemeral PROVE future[s] = "tried"
    <3>1. tpc = "ended"
      <4>1. profile.backend = "olmo"
        BY <2>1 DEF CoreInv, PlaceInv
      <4> QED BY <4>1 DEF EngineInv
    <3>2. pending = <<>> /\ DOMAIN pending = {} /\ \A x \in Steps : ~Unfinished(x)
      BY <3>1 DEF SubmitInv
    <3>3. s \in Steps /\ future[s] \in FutureStates
      BY <2>1 DEF CoreInv, TrainingTypes, CallbackTypes
    <3>4. future[s] # "none"
      BY <2>1, <3>2 DEF SubmitInv, Waits
    <3>5. future[s] \notin {"queued", "running"}
      BY <3>2, <3>3 DEF Unfinished
    <3>6. future[s] \notin {"cancelled", "skipped"}
      BY <2>1, <3>3 DEF SubmitInv, UploadDisabled
    <3> QED BY <3>3, <3>4, <3>5, <3>6 DEF FutureStates
  <2>2. owed \ ephemeral \subseteq orphaned
    BY <2>1 DEF OwedInv
  <2>3. profile.backend = "verl" =>
          \A s \in Completed : (cutOff = 0 \/ s < cutOff) => s \in uploaded \union gaveUp
    BY DEF EngineInv, LastScanInv
  <2> QED BY <2>2, <2>3
<1> QED BY <1>1, TrainerKeepsItsPlace, UploadsAreSubmitted, OwedIsKnown, NothingIsSavedAfterTheLastScan,
           EngineGoesOnWhenAllIsOver, PTL

-----------------------------------------------------------------------------
(* What is marked.                                                           *)
LEMMA OnceInit == Init => OnceInv
<1>1. ASSUME Init PROVE DOMAIN pending = {}
  BY <1>1 DEF Init, CallbackInit
<1> QED BY <1>1 DEF OnceInv, Waits

LEMMA OnceStep == CoreInv /\ SubmitInv /\ OnceInv /\ [Next]_vars => OnceInv'
<1> SUFFICES ASSUME CoreInv, SubmitInv, OnceInv, [Next]_vars PROVE OnceInv'
  OBVIOUS
<1> USE DEF CoreInv, TrainingTypes
<1>1. CASE DOMAIN pending' = {}
  BY <1>1 DEF OnceInv, Waits
<1>2. CASE pending' = pending /\ \A s \in Steps : future[s] = "none" => future'[s] = "none"
  BY <1>2 DEF OnceInv, Waits
<1>3. CASE Olmo(TrainerStep)
  <2>1. CASE Schedule
    <3>1. DOMAIN pending' = {}
      BY <2>1 DEF Schedule
    <3> QED BY <1>1, <3>1
  <2>2. CASE UNCHANGED uploadVars
    BY <1>2, <2>2 DEF uploadVars
  <2>3. CASE PostCheckpointSaved
    <3>1. future[step] = "none"
      BY <2>3, SavesANewOne DEF SubmitInv
    <3> QED BY <2>3, <3>1, SavesANewOne DEF OnceInv
  <2> QED BY <1>3, <2>1, <2>2, <2>3 DEF Olmo, TrainerStep, PruneOne, PruneEnds, PruneFails, PreTrain, TrainBatch,
          PostTrainBatch, SaveBegins, PostStep, PostTrain, OnError, Drain, Drained, Close, Shutdown
<1>4. CASE Olmo(CrashTrainer)
  <2>1. DOMAIN pending' = {}
    BY <1>4 DEF Olmo, CrashTrainer
  <2> QED BY <1>1, <2>1
<1>5. CASE Olmo(UploaderStep)
  <2>1. pending' = pending
    BY <1>5, UploaderLeaves DEF Olmo
  <2>2. \A s \in Steps : future[s] = "none" => future'[s] = "none"
    <3>1. ASSUME NEW t \in Steps, Takes(t) PROVE \A s \in Steps : future[s] = "none" => future'[s] = "none"
      BY <3>1 DEF Takes, CallbackTypes
    <3>2. ASSUME NEW how, EndsUpload(how) PROVE \A s \in Steps : future[s] = "none" => future'[s] = "none"
      <4>1. future[job.at] = "running" /\ future' = [future EXCEPT ![job.at] = how]
        BY <3>2 DEF EndsUpload, Ends, SubmitInv
      <4> QED BY <4>1 DEF CallbackTypes
    <3> QED BY <1>5, <3>1, <3>2, UploaderMoves DEF Olmo
  <2> QED BY <1>2, <2>1, <2>2
<1>6. CASE Watching \/ Elsewhere
  <2>1. UNCHANGED uploadVars
    BY <1>6, WatchingLeaves DEF WatcherLeaves, Elsewhere, callbackVars
  <2> QED BY <1>2, <2>1 DEF uploadVars
<1> QED BY <1>3, <1>4, <1>5, <1>6, StepsOfTraining

(* No checkpoint is submitted while an upload of it exists.                   *)
THEOREM SubmittedOnce == Spec => []OnceInv
  BY OnceInit, OnceStep, TrainerKeepsItsPlace, UploadsAreSubmitted, PTL DEF Spec

LEMMA MarkInit == Init => MarkInv
<1> SUFFICES ASSUME Init PROVE MarkHolds
  BY DEF MarkInv
<1>1. \A s \in Steps : converted[s] = "none" /\ remoteHf[s] = "none" /\ mark[s] = "no" /\ future[s] = "none" /\ job.at # s
  BY StepsAre DEF Init, StoreInit, CallbackInit, WatcherInit, NoFutures, Idle
<1>2. DOMAIN pending = {} /\ hpc = "sleep"
  BY DEF Init, CallbackInit, WatcherInit
<1>3. \A s \in Steps : Fresh(s) /\ ~Waits(s)
  BY <1>1, <1>2 DEF Fresh, Taken, Waits
<1> QED BY <1>1, <1>2, <1>3 DEF MarkHolds, At1

(* The trainer touches neither the converted folders nor their copies.       *)
LEMMA MarkTrainer ==
  ASSUME CoreInv, MarkHolds, UNCHANGED <<converted, remoteHf, hpc, folder, mark, job>>,
         \A s \in Steps : s > latest' => s > latest,
         \A s \in Steps : Waits(s)' \/ future'[s] = "queued" => Fresh(s)
  PROVE  MarkHolds'
<1>1. \A s \in Steps : Fresh(s)' = Fresh(s) /\ Taken(s)' = Taken(s)
  BY DEF Fresh, Taken
<1>2. \A s \in Steps : \A stages : At1(s, stages)' = At1(s, stages)
  BY DEF At1
<1>3. /\ \A s \in Steps : s > latest' => Fresh(s)'
      /\ \A s \in Steps : Waits(s)' \/ future'[s] = "queued" \/ At1(s, {"start", "upload", "convert"})' => Fresh(s)'
  BY <1>1, <1>2 DEF MarkHolds
<1>4. /\ \A s \in Steps : At1(s, {"converting"})' =>
           remoteHf'[s] = "none" /\ mark'[s] # "uploaded" /\ ~Taken(s)' /\ converted'[s] \in {"part", "enough"}
      /\ \A s \in Steps : At1(s, {"uploadHf"})' =>
           converted'[s] = "whole" /\ (mark'[s] = "uploaded" => remoteHf'[s] = "whole")
  BY <1>1, <1>2 DEF MarkHolds
<1>5. /\ hpc' \in {"watch", "upload"} => folder'.at \in Steps /\ mark'[folder'.at] # "uploaded"
      /\ hpc' = "upload" => converted'[folder'.at] \in {"whole", "none"}
      /\ \A s \in Steps : mark'[s] = "uploaded" => remoteHf'[s] \in {"none", "whole"}
  BY DEF MarkHolds
<1> QED BY <1>3, <1>4, <1>5 DEF MarkHolds

LEMMA FreshToSubmit ==
  ASSUME CoreInv, MarkHolds, Olmo(TrainerStep)
  PROVE  \A s \in Steps : Waits(s)' \/ future'[s] = "queued" => Fresh(s)
<1> USE DEF CoreInv, TrainingTypes
<1>1. CASE Schedule
  <2>1. DOMAIN pending' = {} /\ \A s \in Steps : ~Waits(s)'
    BY <1>1 DEF Schedule, Waits
  <2>2. \A s \in Steps : future'[s] = "queued" => future[s] = "queued" \/ Waits(s)
    BY <1>1, Scheduled
  <2> QED BY <2>1, <2>2 DEF MarkHolds
<1>2. CASE UNCHANGED uploadVars
  BY <1>2 DEF MarkHolds, uploadVars, Waits
<1>3. CASE PostCheckpointSaved
  BY <1>3, SavesANewOne DEF MarkHolds
<1> QED BY <1>1, <1>2, <1>3 DEF Olmo, TrainerStep, PruneOne, PruneEnds, PruneFails, PreTrain, TrainBatch,
        PostTrainBatch, SaveBegins, PostStep, PostTrain, OnError, Drain, Drained, Close, Shutdown

(* Nor does the upload thread, of any step but the one it works on; and that *)
(* one was saved before and is submitted.                                    *)
Kind(s) ==
  /\ At1(s, {"start", "upload", "convert"}) => Fresh(s)
  /\ At1(s, {"converting"}) =>
       remoteHf[s] = "none" /\ mark[s] # "uploaded" /\ ~Taken(s) /\ converted[s] \in {"part", "enough"}
  /\ At1(s, {"uploadHf"}) => converted[s] = "whole" /\ (mark[s] = "uploaded" => remoteHf[s] = "whole")
  /\ Taken(s) => converted[s] \in {"whole", "none"}
  /\ mark[s] = "uploaded" => remoteHf[s] \in {"none", "whole"}

LEMMA MarkJob ==
  ASSUME CoreInv, SubmitInv, OnceInv, MarkHolds, NEW j \in Steps, job.at = j,
         UNCHANGED <<mark, hpc, folder, latest, pending>>,
         \A s \in Steps : future'[s] = "queued" => future[s] = "queued",
         \A s \in Steps \ {j} : converted'[s] = converted[s] /\ remoteHf'[s] \in {remoteHf[s], "none"},
         job'.at \in {j, None}, Kind(j)'
  PROVE  MarkHolds'
<1>1. j \in known /\ future[j] = "running"
  BY DEF SubmitInv
<1>2. j <= latest /\ ~Waits(j)
  BY <1>1 DEF CoreInv, PlaceInv, OnceInv
<1>3. ~(j > latest)
  BY <1>2, StepsAre, Numbers DEF CoreInv
<1>4. \A s \in Steps : Taken(s)' = Taken(s) /\ Waits(s)' = Waits(s)
  BY DEF Taken, Waits
<1>5. \A s \in Steps : s # j => (Fresh(s) => Fresh(s)')
  BY <1>4 DEF Fresh
<1>6. ASSUME NEW s \in Steps, NEW stages PROVE At1(s, stages)' => s = j
  BY StepsAre DEF At1
<1>7. /\ At1(j, {"start", "upload", "convert"})' => Fresh(j)'
      /\ At1(j, {"converting"})' =>
           remoteHf'[j] = "none" /\ mark'[j] # "uploaded" /\ ~Taken(j)' /\ converted'[j] \in {"part", "enough"}
      /\ At1(j, {"uploadHf"})' => converted'[j] = "whole" /\ (mark'[j] = "uploaded" => remoteHf'[j] = "whole")
      /\ Taken(j)' => converted'[j] \in {"whole", "none"}
      /\ mark'[j] = "uploaded" => remoteHf'[j] \in {"none", "whole"}
  BY DEF Kind
<1>9. /\ \A s \in Steps : s > latest' => Fresh(s)'
      /\ \A s \in Steps : Waits(s)' \/ future'[s] = "queued" => Fresh(s)'
  BY <1>1, <1>2, <1>3, <1>4, <1>5 DEF MarkHolds
<1>10. \A s \in Steps : At1(s, {"start", "upload", "convert"})' => Fresh(s)'
  BY <1>6, <1>7
<1>11. \A s \in Steps : At1(s, {"converting"})' =>
         remoteHf'[s] = "none" /\ mark'[s] # "uploaded" /\ ~Taken(s)' /\ converted'[s] \in {"part", "enough"}
  BY <1>6, <1>7
<1>12. \A s \in Steps : At1(s, {"uploadHf"})' =>
         converted'[s] = "whole" /\ (mark'[s] = "uploaded" => remoteHf'[s] = "whole")
  BY <1>6, <1>7
<1>13. hpc' \in {"watch", "upload"} => folder'.at \in Steps /\ mark'[folder'.at] # "uploaded"
  BY DEF MarkHolds
<1>14. hpc' = "upload" => converted'[folder'.at] \in {"whole", "none"}
  <2>1. CASE folder.at = j
    BY <1>7, <2>1 DEF Taken
  <2>2. CASE folder.at # j
    BY <2>2 DEF MarkHolds, Taken
  <2> QED BY <2>1, <2>2
<1>15. \A s \in Steps : mark'[s] = "uploaded" => remoteHf'[s] \in {"none", "whole"}
  <2> SUFFICES ASSUME NEW s \in Steps, mark[s] = "uploaded" PROVE remoteHf'[s] \in {"none", "whole"}
    OBVIOUS
  <2>1. CASE s = j
    BY <1>7, <2>1
  <2>2. CASE s # j
    <3>1. remoteHf'[s] \in {remoteHf[s], "none"}
      BY <2>2
    <3> QED BY <3>1 DEF MarkHolds
  <2> QED BY <2>1, <2>2
<1> QED BY <1>9, <1>10, <1>11, <1>12, <1>13, <1>14, <1>15 DEF MarkHolds

LEMMA MarkUploader ==
  ASSUME CoreInv, SubmitInv, OnceInv, MarkHolds, Olmo(UploaderStep)
  PROVE  MarkHolds'
<1> USE DEF CoreInv, TrainingTypes
<1>1. UNCHANGED <<mark, hpc, folder, latest, pending>>
  BY UploaderLeaves DEF Olmo, watcherVars, threadVars
<1>2. CASE TakeUpload
  <2>1. PICK t \in Steps : Takes(t)
    <3>1. job.at = None
      BY <1>2 DEF TakeUpload
    <3> QED BY <3>1, UploaderMoves, StepsAre DEF Olmo, EndsUpload
  <2>2. UNCHANGED <<converted, remoteHf>>
    BY <1>2 DEF TakeUpload, storeVars, remoteVars
  <2>3. \A s \in Steps : Fresh(s)' = Fresh(s) /\ Taken(s)' = Taken(s) /\ Waits(s)' = Waits(s)
    BY <1>1, <2>2 DEF Fresh, Taken, Waits
  <2>4. Fresh(t)
    BY <2>1 DEF MarkHolds, Takes
  <2>5. \A s \in Steps : future'[s] = "queued" => future[s] = "queued"
    BY <2>1 DEF Takes, CallbackTypes
  <2>6. job' = [at |-> t, stage |-> "start"]
    BY <2>1 DEF Takes
  <2>7. /\ \A s \in Steps : At1(s, {"start", "upload", "convert"})' => s = t
        /\ \A s \in Steps : ~At1(s, {"converting"})' /\ ~At1(s, {"uploadHf"})'
    BY <2>6 DEF At1
  <2>8. \A s \in Steps :
          Waits(s)' \/ future'[s] = "queued" \/ At1(s, {"start", "upload", "convert"})' => Fresh(s)'
    BY <2>3, <2>4, <2>5, <2>7 DEF MarkHolds
  <2>9. \A s \in Steps : s > latest' => Fresh(s)'
    BY <1>1, <2>3 DEF MarkHolds
  <2>10. /\ hpc' \in {"watch", "upload"} => folder'.at \in Steps /\ mark'[folder'.at] # "uploaded"
         /\ hpc' = "upload" => converted'[folder'.at] \in {"whole", "none"}
         /\ \A s \in Steps : mark'[s] = "uploaded" => remoteHf'[s] \in {"none", "whole"}
    BY <1>1, <2>2 DEF MarkHolds
  <2> QED BY <2>7, <2>8, <2>9, <2>10 DEF MarkHolds
<1>3. CASE ~TakeUpload
  <2>1. PICK j \in Steps : job.at = j
    BY <1>3 DEF Olmo, UploaderStep, StartUpload, UploadPiece, UploadEnds, UploadFails, Convert, ConvertWrites, ConvertEnds,
       ConvertFails, UploadHfPiece, UploadHfEnds, UploadHfFails, PruneRemote, In, CallbackTypes
  <2>2. /\ job.stage \in {"start", "upload", "convert"} => Fresh(j)
        /\ job.stage = "converting" =>
             remoteHf[j] = "none" /\ mark[j] # "uploaded" /\ ~Taken(j) /\ converted[j] \in {"part", "enough"}
        /\ job.stage = "uploadHf" => converted[j] = "whole" /\ (mark[j] = "uploaded" => remoteHf[j] = "whole")
        /\ Taken(j) => converted[j] \in {"whole", "none"}
        /\ mark[j] = "uploaded" => remoteHf[j] \in {"none", "whole"}
    BY <2>1 DEF MarkHolds, At1, Taken
  <2>3. Taken(j)' = Taken(j) /\ mark'[j] = mark[j]
    BY <1>1 DEF Taken
  <2>4. ASSUME NEW stage, ToStage(stage) PROVE job'.at = j /\ job'.stage = stage /\ future' = future
    BY <2>1, <2>4 DEF ToStage, CallbackTypes
  <2>5. ASSUME NEW how \in {"skipped", "tried"}, Ends(how)
        PROVE  job'.at = None /\ \A s \in Steps : future'[s] = "queued" => future[s] = "queued"
    BY <2>1, <2>5 DEF Ends, Idle, CallbackTypes
  <2>6. ASSUME UNCHANGED <<converted, remoteHf>>,
               \/ job'.at = None
               \/ job'.at = j /\ job'.stage = "prune"
               \/ job'.at = j /\ job'.stage \in {"upload", "convert"} /\ job.stage \in {"start", "upload"}
        PROVE  Kind(j)'
    <3>1. Fresh(j)' = Fresh(j)
      BY <1>1, <2>6 DEF Fresh, Taken
    <3>2. ~At1(j, {"converting"})' /\ ~At1(j, {"uploadHf"})'
      BY <2>1, <2>6, StepsAre DEF At1
    <3>3. At1(j, {"start", "upload", "convert"})' => Fresh(j)'
      BY <2>1, <2>2, <2>6, <3>1, StepsAre DEF At1
    <3> QED BY <2>2, <2>3, <2>6, <3>2, <3>3 DEF Kind
  <2>7. ASSUME job'.at \in {j, None}, Kind(j)',
               \A s \in Steps : future'[s] = "queued" => future[s] = "queued",
               \A s \in Steps \ {j} : converted'[s] = converted[s] /\ remoteHf'[s] \in {remoteHf[s], "none"}
        PROVE  MarkHolds'
    BY <1>1, <2>1, <2>7, MarkJob
  <2>8. CASE StartUpload \/ UploadPiece \/ UploadEnds \/ UploadFails \/ ConvertFails \/ UploadHfFails
    <3>1. UNCHANGED <<converted, remoteHf>>
      BY <2>8 DEF StartUpload, UploadPiece, UploadEnds, UploadFails, ConvertFails, UploadHfFails, remoteVars
    <3>2. job.at = j /\ \A s \in Steps : remoteHf'[s] = remoteHf[s] /\ converted'[s] = converted[s]
      BY <2>1, <3>1
    <3>3. /\ \/ job'.at = None
             \/ job'.at = j /\ job'.stage = "prune"
             \/ job'.at = j /\ job'.stage \in {"upload", "convert"} /\ job.stage \in {"start", "upload"}
          /\ \A s \in Steps : future'[s] = "queued" => future[s] = "queued"
      <4>1. CASE StartUpload
        BY <2>4, <2>5, <4>1 DEF StartUpload, In
      <4>2. CASE UploadPiece
        BY <3>2, <4>2 DEF UploadPiece, In
      <4>3. CASE UploadEnds
        BY <2>4, <4>3 DEF UploadEnds, In
      <4>4. CASE UploadFails
        BY <2>5, <4>4 DEF UploadFails
      <4>5. CASE ConvertFails \/ UploadHfFails
        BY <2>4, <4>5 DEF ConvertFails, UploadHfFails
      <4> QED BY <2>8, <4>1, <4>2, <4>3, <4>4, <4>5
    <3>4. Kind(j)'
      BY <2>6, <3>1, <3>3
    <3> QED BY <2>7, <3>2, <3>3, <3>4
  <2>9. CASE PruneRemote
    <3>1. job'.at = None /\ \A s \in Steps : future'[s] = "queued" => future[s] = "queued"
      BY <2>5, <2>9 DEF PruneRemote
    <3>2. /\ UNCHANGED converted
          /\ \A s \in Steps : remoteHf'[s] \in {remoteHf[s], "none"}
      BY <2>9 DEF PruneRemote, remoteVars
    <3>3. ASSUME NEW stages PROVE ~At1(j, stages)'
      BY <2>1, <3>1, StepsAre DEF At1
    <3>4. Kind(j)'
      BY <2>1, <2>2, <2>3, <3>2, <3>3 DEF Kind
    <3> QED BY <2>7, <3>1, <3>2, <3>4
  <2>10. CASE Convert
    <3>1. job.at = j /\ job.stage = "convert" /\ Fresh(j) /\ UNCHANGED remoteHf
      BY <2>1, <2>2, <2>10 DEF Convert, In, remoteVars
    <3>2. CASE ToStage("prune") /\ UNCHANGED converted
      <4>1. job'.at = j /\ job'.stage = "prune" /\ future' = future
        BY <2>4, <3>2
      <4>2. Kind(j)'
        BY <2>6, <3>1, <3>2, <4>1
      <4> QED BY <2>7, <3>1, <3>2, <4>1, <4>2
    <3>3. CASE ToStage("converting") /\ converted' = [converted EXCEPT ![j] = "part"]
      <4>1. job'.at = j /\ job'.stage = "converting" /\ future' = future
        BY <2>4, <3>3
      <4>2. converted'[j] = "part" /\ \A s \in Steps \ {j} : converted'[s] = converted[s]
        BY <2>1, <3>3 DEF StoreTypes
      <4>3. Kind(j)'
        BY <1>1, <2>3, <3>1, <4>1, <4>2 DEF Kind, Fresh, At1, Taken
      <4> QED BY <2>7, <3>1, <4>1, <4>2, <4>3
    <3>4. converted[job.at] # "whole"
      BY <3>1 DEF Fresh
    <3> QED BY <2>10, <3>1, <3>2, <3>3, <3>4 DEF Convert
  <2>11. CASE ConvertWrites
    <3>1. job.at = j /\ job.stage = "converting" /\ UNCHANGED <<remoteHf, future, job>>
      BY <2>1, <2>11 DEF ConvertWrites, In, remoteVars
    <3>2. converted'[j] = "enough" /\ \A s \in Steps \ {j} : converted'[s] = converted[s]
      BY <2>1, <2>11, <3>1 DEF ConvertWrites, StoreTypes
    <3>3. Kind(j)'
      BY <2>2, <2>3, <3>1, <3>2 DEF Kind, At1
    <3> QED BY <2>7, <3>1, <3>2, <3>3
  <2>12. CASE ConvertEnds
    <3>1. job.at = j /\ job.stage = "converting" /\ UNCHANGED <<remoteHf, future>> /\ job'.at = j /\ job'.stage = "uploadHf"
      BY <2>1, <2>4, <2>12 DEF ConvertEnds, In, remoteVars
    <3>2. converted'[j] = "whole" /\ \A s \in Steps \ {j} : converted'[s] = converted[s]
      BY <2>1, <2>12, <3>1 DEF ConvertEnds, StoreTypes
    <3>3. Kind(j)'
      BY <2>2, <2>3, <3>1, <3>2 DEF Kind, At1
    <3> QED BY <2>7, <3>1, <3>2, <3>3
  <2>13. CASE UploadHfPiece
    <3>1. /\ job.at = j /\ job.stage = "uploadHf" /\ UNCHANGED <<converted, future, job>>
          /\ remoteHf' = [remoteHf EXCEPT ![j] = Grown(@)] /\ Grown(remoteHf[j]) # remoteHf[j]
      BY <2>1, <2>13 DEF UploadHfPiece, In, Piece
    <3>2. mark[j] # "uploaded"
      BY <2>2, <3>1 DEF Grown
    <3>3. \A s \in Steps \ {j} : remoteHf'[s] = remoteHf[s]
      BY <3>1 DEF StoreTypes
    <3>4. Kind(j)'
      BY <2>2, <2>3, <3>1, <3>2 DEF Kind, At1
    <3> QED BY <2>7, <3>1, <3>3, <3>4
  <2>14. CASE UploadHfEnds
    <3>1. /\ job.at = j /\ job.stage = "uploadHf" /\ future' = future /\ job'.at = j /\ job'.stage = "prune"
          /\ remoteHf' = [remoteHf EXCEPT ![j] = "whole"]
          /\ converted' = converted \/ converted' = [converted EXCEPT ![j] = "none"]
      BY <2>1, <2>4, <2>14 DEF UploadHfEnds, In
    <3>2. /\ remoteHf'[j] = "whole" /\ converted'[j] \in {converted[j], "none"}
          /\ \A s \in Steps \ {j} : converted'[s] = converted[s] /\ remoteHf'[s] = remoteHf[s]
      BY <2>1, <3>1 DEF StoreTypes
    <3>3. Kind(j)'
      BY <2>2, <2>3, <3>1, <3>2 DEF Kind, At1
    <3> QED BY <2>7, <3>1, <3>2, <3>3
  <2> QED BY <1>3, <2>8, <2>9, <2>10, <2>11, <2>12, <2>13, <2>14 DEF Olmo, UploaderStep
<1> QED BY <1>2, <1>3

(* The watcher takes a folder up that is not marked, and uploads one that    *)
(* was whole when it was looked at twice.                                    *)
LEMMA MarkWatcher ==
  ASSUME CoreInv, MarkHolds, Watching
  PROVE  MarkHolds'
<1> USE DEF CoreInv, TrainingTypes, StoreTypes, WatcherTypes
<1>1. UNCHANGED <<converted, latest, pending, future, job>> /\ WatcherStep
  BY WatchingLeaves DEF WatcherLeaves, callbackVars, threadVars, uploadVars
<1>2. \A s \in Steps : Waits(s)' = Waits(s) /\ \A stages : At1(s, stages)' = At1(s, stages)
  BY <1>1 DEF Waits, At1
<1>3. ASSUME \A s \in Steps : \/ UNCHANGED <<Taken(s), mark[s], remoteHf[s]>>
                              \/ ~Taken(s)' /\ mark'[s] # "uploaded" /\ remoteHf'[s] = remoteHf[s]
                              \/ ~Fresh(s) /\ ~At1(s, {"converting"}) /\ (mark'[s] = "uploaded" => remoteHf'[s] = "whole"),
             hpc' \in {"watch", "upload"} => folder'.at \in Steps /\ mark'[folder'.at] # "uploaded",
             hpc' = "upload" => converted[folder'.at] \in {"whole", "none"}
      PROVE  MarkHolds'
  <2>1. \A s \in Steps : Fresh(s) => Fresh(s)'
    BY <1>1, <1>3 DEF Fresh
  <2>2. /\ \A s \in Steps : s > latest' => Fresh(s)'
        /\ \A s \in Steps :
             Waits(s)' \/ future'[s] = "queued" \/ At1(s, {"start", "upload", "convert"})' => Fresh(s)'
    BY <1>1, <1>2, <2>1 DEF MarkHolds
  <2>3. \A s \in Steps : At1(s, {"converting"})' =>
          remoteHf'[s] = "none" /\ mark'[s] # "uploaded" /\ ~Taken(s)' /\ converted'[s] \in {"part", "enough"}
    BY <1>1, <1>2, <1>3 DEF MarkHolds
  <2>4. /\ \A s \in Steps : At1(s, {"uploadHf"})' =>
             converted'[s] = "whole" /\ (mark'[s] = "uploaded" => remoteHf'[s] = "whole")
        /\ \A s \in Steps : mark'[s] = "uploaded" => remoteHf'[s] \in {"none", "whole"}
    BY <1>1, <1>2, <1>3 DEF MarkHolds
  <2> QED BY <1>1, <1>3, <2>2, <2>3, <2>4 DEF MarkHolds
<1>4. CASE BeginScan \/ EndScan
  <2>1. UNCHANGED <<folder, mark, remoteHf>> /\ hpc \notin {"watch", "upload"} /\ hpc' \notin {"watch", "upload"}
    BY <1>4 DEF BeginScan, EndScan, storeVars, remoteVars
  <2>2. \A s \in Steps : Taken(s)' = Taken(s)
    BY <2>1 DEF Taken
  <2> QED BY <1>3, <2>1, <2>2
<1>5. ASSUME NEW t \in Steps, Inspect(t) PROVE MarkHolds'
  <2>1. /\ hpc = "scan" /\ hpc' \in {"scan", "watch"} /\ remoteHf' = remoteHf
        /\ mark' \in {mark, [mark EXCEPT ![t] = "trusted"]}
        /\ hpc' = "watch" => folder'.at = t /\ mark' = mark /\ mark[t] = "no"
    BY <1>5 DEF Inspect, storeVars, remoteVars
  <2>2. \A s \in Steps : Taken(s)' = Taken(s)
    BY <2>1 DEF Taken
  <2>3. \A s \in Steps : mark'[s] = mark[s] \/ mark'[s] = "trusted"
    BY <2>1
  <2>4. /\ hpc' \in {"watch", "upload"} => folder'.at \in Steps /\ mark'[folder'.at] # "uploaded"
        /\ hpc' # "upload"
    BY <2>1
  <2>5. \A s \in Steps : \/ UNCHANGED <<Taken(s), mark[s], remoteHf[s]>>
                         \/ ~Fresh(s) /\ ~At1(s, {"converting"}) /\ (mark'[s] = "uploaded" => remoteHf'[s] = "whole")
                         \/ ~Taken(s)' /\ mark'[s] # "uploaded" /\ remoteHf'[s] = remoteHf[s]
    BY <2>1, <2>2, <2>3 DEF Taken
  <2> QED BY <1>3, <2>4, <2>5
<1>6. CASE Watch
  <2>1. hpc = "watch" /\ UNCHANGED <<remoteHf, mark>>
    BY <1>6 DEF Watch, storeVars, remoteVars
  <2>2. CASE StableEnough
    <3>1. hpc' = "upload" /\ folder' = folder /\ converted[folder.at] = "whole"
      BY <1>6, <2>2 DEF Watch, StableEnough
    <3>2. folder.at \in Steps /\ mark[folder.at] # "uploaded"
      BY <2>1 DEF MarkHolds
    <3>3. ~Fresh(folder.at) /\ ~At1(folder.at, {"converting"})
      BY <3>1, <3>2 DEF Fresh, MarkHolds
    <3>4. \A s \in Steps : s # folder.at => Taken(s)' = Taken(s)
      BY <2>1, <3>1 DEF Taken
    <3> QED BY <1>3, <2>1, <3>1, <3>2, <3>3, <3>4
  <2>3. CASE ~StableEnough
    <3>1. hpc' = "scan"
      BY <1>6, <2>3 DEF Watch
    <3>2. \A s \in Steps : Taken(s)' = Taken(s)
      BY <2>1, <3>1 DEF Taken
    <3> QED BY <1>3, <2>1, <3>1, <3>2
  <2> QED BY <2>2, <2>3
<1>7. CASE WatcherPiece \/ WatcherUploads \/ WatcherFails
  <2>1. /\ hpc = "upload" /\ folder.at \in Steps /\ mark[folder.at] # "uploaded" /\ converted[folder.at] \in {"whole", "none"}
        /\ Taken(folder.at) /\ ~Fresh(folder.at) /\ ~At1(folder.at, {"converting"})
    BY <1>7 DEF WatcherPiece, WatcherUploads, WatcherFails, MarkHolds, Taken, Fresh
  <2>2. ASSUME hpc' = "scan"
        PROVE  \A s \in Steps : ~Taken(s)' /\ (s # folder.at => Taken(s)' = Taken(s))
    BY <2>2 DEF Taken
  <2>3. CASE WatcherPiece
    <3>1. UNCHANGED <<hpc, folder, mark>> /\ \A s \in Steps : s # folder.at => remoteHf'[s] = remoteHf[s]
      BY <2>3 DEF WatcherPiece, watcherVars
    <3>2. \A s \in Steps : Taken(s)' = Taken(s)
      BY <3>1 DEF Taken
    <3> QED BY <1>3, <2>1, <3>1, <3>2
  <2>4. CASE WatcherUploads
    <3>1. /\ hpc' = "scan" /\ remoteHf'[folder.at] = "whole"
          /\ \A s \in Steps : s # folder.at => remoteHf'[s] = remoteHf[s] /\ mark'[s] = mark[s]
      BY <2>1, <2>4 DEF WatcherUploads, LooksComplete
    <3> QED BY <1>3, <2>1, <2>2, <3>1
  <2>5. CASE WatcherFails
    <3>1. hpc' = "scan" /\ UNCHANGED <<mark, remoteHf>>
      BY <2>5 DEF WatcherFails, remoteVars
    <3> QED BY <1>3, <2>1, <2>2, <3>1
  <2> QED BY <1>7, <2>3, <2>4, <2>5
<1> QED BY <1>1, <1>4, <1>5, <1>6, <1>7 DEF WatcherStep

LEMMA MarkStep == CoreInv /\ CoreInv' /\ SubmitInv /\ OnceInv /\ MarkInv /\ [Next]_vars => MarkInv'
<1> SUFFICES ASSUME CoreInv, CoreInv', SubmitInv, OnceInv, MarkInv, [Next]_vars, ~behind' PROVE MarkHolds'
  BY DEF MarkInv
<1>1. StoreTypes /\ latest \in Nat /\ latest' \in Nat
  BY StepsAre DEF CoreInv, TrainingTypes, CallbackTypes
<1>2. CASE Olmo(TrainerStep)
  <2>1. ~behind /\ ~(latest' < latest)
    BY <1>2 DEF Olmo, TrainerStep
  <2>2. \A s \in Steps : s > latest' => s > latest
    BY <1>1, <2>1, StepsAre
  <2>3. UNCHANGED <<converted, remoteHf, job, hpc, folder, mark>>
    BY <1>2 DEF Olmo, TrainerStep, watcherVars, PruneOne, PruneEnds, PruneFails, PreTrain, TrainBatch, PostTrainBatch, SaveBegins,
       PostCheckpointSaved, PostStep, PostTrain, OnError, Drain, Drained, Close, Shutdown, At, remoteVars
  <2>4. MarkHolds
    BY <2>1 DEF MarkInv
  <2> QED BY <1>2, <2>2, <2>3, <2>4, MarkTrainer, FreshToSubmit
<1>3. CASE Olmo(CrashTrainer)
  <2>1. /\ UNCHANGED <<converted, remoteHf, latest, behind, hpc, folder, mark>> /\ DOMAIN pending' = {}
        /\ future' = NoFutures /\ job' = Idle
    BY <1>3 DEF Olmo, CrashTrainer, At, remoteVars, watcherVars
  <2>2. /\ \A s \in Steps : ~Waits(s)' /\ future'[s] = "none" /\ Fresh(s)' = Fresh(s)
        /\ \A s \in Steps : \A stages : ~At1(s, stages)'
    BY <2>1, StepsAre DEF Waits, NoFutures, Idle, Fresh, Taken, At1
  <2> QED BY <2>1, <2>2 DEF MarkInv, MarkHolds
<1>4. CASE Olmo(UploaderStep)
  <2>1. behind' = behind
    BY <1>4, UploaderLeaves DEF Olmo, pastVars
  <2> QED BY <1>4, <2>1, MarkUploader DEF MarkInv
<1>5. CASE Watching
  <2>1. behind' = behind
    BY <1>5, WatchingLeaves DEF WatcherLeaves, callbackVars, pastVars
  <2> QED BY <1>5, <2>1, MarkWatcher DEF MarkInv
<1>6. CASE Elsewhere /\ UNCHANGED watcherVars
  <2>1. UNCHANGED <<converted, remoteHf, latest, pending, future, job, behind, hpc, folder, mark>>
    BY <1>6 DEF Elsewhere, callbackVars, threadVars, uploadVars, pastVars, watcherVars
  <2>2. \A s \in Steps : Waits(s)' \/ future'[s] = "queued" => Fresh(s)
    BY <2>1 DEF Waits, MarkInv, MarkHolds
  <2> QED BY <2>1, <2>2, MarkTrainer DEF MarkInv
<1> QED BY <1>1, <1>2, <1>3, <1>4, <1>5, <1>6, StepsOfTraining

(* Until a step is converted the repository has nothing converted of it, and  *)
(* nobody writes a folder while the watcher uploads it.                       *)
THEOREM MarksAreKept == Spec => []MarkInv
  BY MarkInit, MarkStep, TrainerKeepsItsPlace, UploadsAreSubmitted, SubmittedOnce, PTL DEF Spec

(* For every training, every interleaving of the callback's thread and the   *)
(* watcher, and every crash: what is marked is not half there, as long as no *)
(* restart went back behind a checkpoint that had been saved.                *)
THEOREM MarkedStaysWhole == Spec => []MarkedIsWhole
<1>1. MarkInv => MarkedIsWhole
  BY DEF MarkInv, MarkHolds, MarkedIsWhole
<1> QED BY <1>1, MarksAreKept, PTL

-----------------------------------------------------------------------------
(* The end of the engine: the logs and the children.                        *)
LEMMA ProfileStays ==
  ASSUME StoreTypes, [Next]_vars
  PROVE  profile' = profile
  BY StepsOfVerl, VerlStaysElsewhere DEF Elsewhere

(* The lock keeps the uploads of the logs apart, and once the thread was     *)
(* joined it begins no other: it was told to stop before.                    *)
LogInv ==
  /\ upl = "uploads" <=> lock = "upl"
  /\ main = "uploading" <=> lock = "main"
  /\ main = "start" => upl = "off"
  /\ main \notin {"start", "run"} => stopLogs
  /\ main \in {"final", "uploading", "ended"} => upl # "due"
  /\ main \in {"uploading", "ended"} => upl # "uploads"
  /\ FinalLogsStay

LEMMA LogsInit == Init => LogInv
  BY LockAssumption DEF Init, LogInit, LogInv, FinalLogsStay

LEMMA StepsOfLogs == [Next]_vars => LogStep \/ BackendEnds \/ LogThreadStep \/ UNCHANGED logVars
  BY DEF Next, vars, OlmoStep, OlmoUpload, Watching, Verl, VerlUpload, Prime, PrimeFault, Engine, LogThread, Marker

LEMMA LogsStep == StoreTypes /\ LogInv /\ [Next]_vars => LogInv'
<1> SUFFICES ASSUME StoreTypes, LogInv, [Next]_vars PROVE LogInv'
  OBVIOUS
<1>a. profile' = profile
  BY ProfileStays
<1> USE LockAssumption DEF LogInv, FinalLogsStay
<1>1. CASE StartLogs
  BY <1>1, <1>a DEF StartLogs
<1>2. CASE IntervalPasses
  BY <1>2, <1>a DEF IntervalPasses
<1>3. CASE SeesStop
  BY <1>3, <1>a DEF SeesStop
<1>4. CASE BeginPeriodic
  BY <1>4, <1>a DEF BeginPeriodic
<1>5. CASE EndPeriodic
  BY <1>5, <1>a DEF EndPeriodic
<1>6. CASE BackendEnds
  BY <1>6, <1>a DEF BackendEnds
<1>7. CASE Joined
  BY <1>7, <1>a DEF Joined
<1>8. CASE BeginFinal
  BY <1>8, <1>a DEF BeginFinal
<1>9. CASE EndFinal
  BY <1>9, <1>a DEF EndFinal
<1>10. CASE UNCHANGED logVars
  BY <1>10, <1>a DEF logVars
<1> QED BY <1>1, <1>2, <1>3, <1>4, <1>5, <1>6, <1>7, <1>8, <1>9, <1>10, StepsOfLogs DEF LogStep, LogThreadStep

(* Once the engine has ended, no periodic upload follows the final one.      *)
THEOREM FinalLogsAreLast == Spec => []FinalLogsStay
<1>1. CoreInv => StoreTypes
  BY DEF CoreInv, TrainingTypes
<1>2. Spec => []LogInv
  BY <1>1, LogsInit, LogsStep, TrainerKeepsItsPlace, PTL DEF Spec
<1>3. LogInv => FinalLogsStay
  BY DEF LogInv
<1> QED BY <1>2, <1>3, PTL

(* Before the head starts its children there are none, what it waited for     *)
(* has exited when it goes on to stop the rest, and then none is left; only   *)
(* then does the engine go on.                                               *)
HeadPlaces == {"off", "waitPolicy", "waitTeacher", "run", "stopping", "ended"}
ChildStates == {"none", "starting", "up", "exit0", "exit1", "killed"}
RolesInv ==
  /\ role \in [Servers \union {"head", "worker"} -> HeadPlaces]
  /\ proc \in [Children -> ChildStates]
  /\ role["head"] \in {"off", "waitPolicy", "waitTeacher"} => \A c \in Own : proc[c] = "none"
  /\ role["head"] = "stopping" /\ ~profile.split => proc["rl"] \in Exited
  /\ role["head"] = "ended" => \A c \in Own : ~Alive(c)
  /\ profile.backend # "prime" => role["head"] = "off"
  /\ profile.backend = "prime" /\ main \notin {"start", "run"} => role["head"] = "ended"

LEMMA StepsOfPrime ==
  ASSUME [Next]_vars
  PROVE  \/ /\ UNCHANGED logVars /\ main = "run" /\ profile.backend = "prime"
            /\ PrimeStep \/ \E r \in Servers : ServerDies(r)
         \/ UNCHANGED <<primeVars, main>>
         \/ UNCHANGED primeVars /\ (BackendIsOver \/ main' = "run" \/ main \notin {"start", "run"})
<1>1. CASE Prime \/ PrimeFault
  BY <1>1 DEF Prime, PrimeFault, Runs
<1>2. CASE OlmoStep \/ OlmoUpload \/ Watching \/ Verl \/ VerlUpload \/ Marker \/ UNCHANGED vars
  BY <1>2 DEF vars, OlmoStep, OlmoUpload, Watching, Verl, VerlUpload, Marker, logVars
<1>3. CASE Engine
  BY <1>3 DEF Engine, LogStep, StartLogs, Joined, BeginFinal, EndFinal
<1>4. CASE LogThread
  BY <1>4 DEF LogThread, LogThreadStep, IntervalPasses, SeesStop, BeginPeriodic, EndPeriodic
<1> QED BY <1>1, <1>2, <1>3, <1>4 DEF Next

LEMMA RolesInit == Init => RolesInv
<1> SUFFICES ASSUME Init PROVE RolesInv
  OBVIOUS
<1> QED BY DEF Init, PrimeInit, LogInit, RolesInv, HeadPlaces, ChildStates, Own, Servers, Children

(* What a step of the roles leaves.                                         *)
RoledNext ==
  /\ role' \in [Servers \union {"head", "worker"} -> HeadPlaces]
  /\ proc' \in [Children -> ChildStates]
  /\ role'["head"] \in {"off", "waitPolicy", "waitTeacher"} => \A c \in Own : proc'[c] = "none"
  /\ role'["head"] = "stopping" /\ ~profile.split => proc'["rl"] \in Exited
  /\ role'["head"] = "ended" => \A c \in Own : ~(proc'[c] \in {"starting", "up"})

LEMMA PrimeKeepsRoles ==
  ASSUME RolesInv, profile' = profile, PrimeStep \/ \E r \in Servers : ServerDies(r)
  PROVE  RoledNext
<1> USE DEF RoledNext, RolesInv, Alive, Becomes, Sets, Exited, Servers, Children, ChildStates, HeadPlaces
<1>b. /\ profile.split => Own = {"trainer", "orchestrator"}
      /\ ~profile.split => Own = {"teacher", "rl"}
      /\ Own \subseteq Children
  BY DEF Own
<1>1. ASSUME NEW r \in Servers, StartServer(r) PROVE RoledNext
  BY <1>b, <1>1 DEF StartServer
<1>2. ASSUME NEW r \in Servers, ServerUp(r) PROVE RoledNext
  BY <1>b, <1>2 DEF ServerUp
<1>3. ASSUME NEW r \in Servers, ServerEnds(r) PROVE RoledNext
  BY <1>b, <1>3 DEF ServerEnds
<1>4. ASSUME NEW r \in Servers, ServerDies(r) PROVE RoledNext
  BY <1>b, <1>4 DEF ServerDies
<1>5. CASE HeadStarts \/ PolicyReady
  BY <1>b, <1>5 DEF HeadStarts, PolicyReady
<1>6. CASE TeacherReady
  BY <1>b, <1>6 DEF TeacherReady
<1>7. CASE ReadyTimeout
  BY <1>b, <1>7 DEF ReadyTimeout, Awaited
<1>8. CASE Polled
  BY <1>b, <1>8 DEF Polled
<1>9. CASE StopChildren
  BY <1>b, <1>9 DEF StopChildren, Leftover
<1>10. CASE WorkerStarts \/ WorkerEnds
  BY <1>b, <1>10 DEF WorkerStarts, WorkerEnds
<1>11. CASE FullStarts
  BY <1>b, <1>11 DEF FullStarts
<1>12. CASE FullEnds
  BY <1>b, <1>12 DEF FullEnds
<1>13. ASSUME NEW c \in Children, TrainingOver(c) PROVE RoledNext
  BY <1>b, <1>13 DEF TrainingOver
<1> QED BY <1>1, <1>2, <1>3, <1>4, <1>5, <1>6, <1>7, <1>8, <1>9, <1>10, <1>11, <1>12, <1>13 DEF PrimeStep

LEMMA RolesStep == StoreTypes /\ RolesInv /\ [Next]_vars => RolesInv'
<1> SUFFICES ASSUME StoreTypes, RolesInv, [Next]_vars PROVE RolesInv'
  OBVIOUS
<1>a. profile' = profile /\ Own' = Own
  BY ProfileStays DEF Own
<1>1. CASE /\ UNCHANGED logVars /\ main = "run" /\ profile.backend = "prime"
           /\ PrimeStep \/ \E r \in Servers : ServerDies(r)
  BY <1>1, <1>a, PrimeKeepsRoles DEF RoledNext, RolesInv, Alive, logVars
<1>2. CASE UNCHANGED <<primeVars, main>>
  BY <1>2, <1>a DEF RolesInv, primeVars, Alive
<1>3. CASE UNCHANGED primeVars /\ (BackendIsOver \/ main' = "run" \/ main \notin {"start", "run"})
  BY <1>3, <1>a DEF RolesInv, primeVars, Alive, BackendIsOver
<1> QED BY <1>1, <1>2, <1>3, StepsOfPrime

(* When the engine ends, the children it started have ended, whatever the      *)
(* order and the way in which roles, servers and trainers came to theirs.     *)
THEOREM EngineLeavesNoChild == Spec => []NoChildIsLeft
<1>1. CoreInv => StoreTypes
  BY DEF CoreInv, TrainingTypes
<1>2. Spec => []RolesInv
  BY <1>1, RolesInit, RolesStep, TrainerKeepsItsPlace, PTL DEF Spec
<1>3. RolesInv => NoChildIsLeft
  BY DEF RolesInv, NoChildIsLeft, Alive, Own
<1> QED BY <1>2, <1>3, PTL

(* The logs of an engine and its children, once it has ended.                *)
THEOREM EngineIsGone == Spec => []EngineEndsClean
BY FinalLogsAreLast, EngineLeavesNoChild, PTL DEF EngineEndsClean
=============================================================================
