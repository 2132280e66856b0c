---------------------------- MODULE Launch_proofs ----------------------------
(***************************************************************************)
(* Proofs about JobStart, for any number of nodes, launches and faults.    *)
(* Of Launch: that a launch is not misled by what earlier ones left, that  *)
(* training starts on whole products, and that without a failure no node   *)
(* fails.  Of DependencyOverlay: that what is announced as ready can be    *)
(* used.  Of WorkerPlan: that what is trained is what was asked for.  Of   *)
(* RayCluster: that without a failure nobody raises or is left behind.     *)
(***************************************************************************)
EXTENDS JobStart, TLAPS, SequenceTheorems, WellFoundedInduction

-----------------------------------------------------------------------------
(* Types, as far as the invariants need them.                              *)

Origins == Datasets \union {"model", None}

LaunchTypes ==
  /\ now \in Nat
  /\ launch.no \in 0 .. MaxLaunches
  /\ launch.no > 0 => launch.how \in ProfileType
  /\ launch.no = 0 => \A n \in Nodes : pc[n] = "done"
  /\ pc \in [Nodes -> Places]
  /\ began \in [Nodes -> Nat]
  /\ DOMAIN dirMarker = Nodes /\ DOMAIN dirOf = Nodes
  /\ DOMAIN fetchState = Ids /\ DOMAIN depsState = Ids
  /\ step \in [Nodes -> 1 .. 5]
  /\ product \in [Products -> [of : Origins, whole : BOOLEAN]]
  /\ cutShort \in BOOLEAN

(* From where to where a node goes.                                        *)
Leads1 ==
  {<<"off", "rundir">>, <<"rundir", "repos">>, <<"repos", "fetching">>, <<"repos", "reexec">>,
   <<"fetching", "reexec">>, <<"reexec", "deps">>, <<"deps", "installing">>, <<"deps", "engine">>,
   <<"installing", "engine">>}
Leads2 ==
  {<<"engine", "prepare">>, <<"engine", "train">>, <<"prepare", "working">>, <<"working", "prepare">>,
   <<"working", "writing">>, <<"writing", "prepare">>, <<"prepare", "train">>}
Leads3 ==
  {<<"engine", "train">>, <<"engine", "building">>, <<"engine", "awaiting">>,
   <<"building", "announcing">>, <<"announcing", "train">>, <<"awaiting", "train">>}
Succ(p, q) == q = p \/ q = "failed" \/ <<p, q>> \in Leads1 \union Leads2 \union Leads3

NodeMove(n) ==
  /\ UNCHANGED <<now, launch>>
  /\ pc[n] \notin Ended /\ Succ(pc[n], pc'[n])
  /\ pc' = [pc EXCEPT ![n] = pc'[n]]
  /\ began' = began \/ began' = [began EXCEPT ![n] = now]

LEMMA RunDirMoves ==
  ASSUME LaunchTypes, NEW n \in Nodes, RunDirStep(n)
  PROVE  NodeMove(n)
  BY DEF RunDirStep, WrapperRunDir, EngineRunDir, RunDirTimeout, Go, NodeMove, Succ, Ended,
         Leads1, Leads2, LaunchTypes

LEMMA ReposMoves ==
  ASSUME LaunchTypes, NEW n \in Nodes, ReposStep(n)
  PROVE  NodeMove(n)
<1>1. CASE BeginFetch(n) \/ StartClone(n) \/ FinishClone(n) \/ CloneIsLate(n) \/ RemoveStaleLock(n)
  BY <1>1 DEF BeginFetch, StartClone, FinishClone, CloneIsLate, RemoveStaleLock, Fetching, nodeVars,
              Go, NodeMove, Succ, Ended, Leads1, LaunchTypes
<1>2. CASE StartCheckout(n) \/ FinishCheckout(n) \/ FailFetch(n) \/ FinishFetch(n)
  BY <1>2 DEF StartCheckout, FinishCheckout, FailFetch, FinishFetch, Fetching, nodeVars,
              Go, NodeMove, Succ, Ended, Leads1, LaunchTypes
<1>3. CASE FollowRepos(n) \/ SeeFailedFetch(n) \/ FetchTimeout(n) \/ Reexec(n)
  BY <1>3 DEF FollowRepos, SeeFailedFetch, FetchTimeout, Reexec, Waits, nodeVars,
              Go, NodeMove, Succ, Ended, Leads1, LaunchTypes
<1> QED BY <1>1, <1>2, <1>3 DEF ReposStep

LEMMA DepsMoves ==
  ASSUME LaunchTypes, NEW n \in Nodes, DepsStep(n)
  PROVE  NodeMove(n)
  BY DEF DepsStep, BeginInstall, UnpackFirst, FinishInstall, FailInstall, FollowDeps, SeeFailedDeps,
         DepsTimeout, Follower, nodeVars, Go, NodeMove, Succ, Ended, Leads1, LaunchTypes

LEMMA PrepMoves ==
  ASSUME LaunchTypes, NEW n \in Nodes, PrepStep(n)
  PROVE  NodeMove(n)
<1>1. CASE RankUnknown(n) \/ ReuseMarker(n) \/ BeginWork(n) \/ KeepProduct(n) \/ StartProduct(n)
  BY <1>1 DEF RankUnknown, ReuseMarker, BeginWork, KeepProduct, StartProduct, Preparing, Leads, nodeVars,
              Go, NodeMove, Succ, Ended, Leads2, LaunchTypes
<1>2. CASE FinishProduct(n) \/ FailWork(n) \/ SeeDone(n) \/ SeeFailed(n) \/ PrepareTimeout(n) \/ StartTraining(n)
  BY <1>2 DEF FinishProduct, FailWork, SeeDone, SeeFailed, PrepareTimeout, StartTraining, Preparing, Polls,
              nodeVars, Go, NodeMove, Succ, Ended, Leads2, LaunchTypes
<1> QED BY <1>1, <1>2 DEF PrepStep

LEMMA SftMoves ==
  ASSUME LaunchTypes, NEW n \in Nodes, SftStep(n)
  PROVE  NodeMove(n)
  BY DEF SftStep, SftCached, SftBegin, SftBuilt, SftAnnounce, SftFail, SftSeeError, SftFollow, SftTimeout,
         Stands, To, NodeMove, Succ, Ended, Leads3, LaunchTypes

LEMMA NodeMoves ==
  ASSUME LaunchTypes, NEW n \in Nodes, NodeStep(n)
  PROVE  NodeMove(n)
<1>1. CASE Boot(n)
  BY <1>1 DEF Boot, Go, NodeMove, Succ, Ended, Leads1, LaunchTypes
<1> QED BY <1>1, RunDirMoves, ReposMoves, DepsMoves, PrepMoves, SftMoves DEF NodeStep

(* Fetching and installing happen before the engine.                       *)
LEMMA ReposPlaces ==
  ASSUME LaunchTypes, NEW n \in Nodes, ReposStep(n)
  PROVE  pc'[n] \in {"repos", "fetching", "reexec", "deps", "failed"}
<1>1. pc[n] \in {"repos", "fetching", "reexec"}
  BY DEF ReposStep, BeginFetch, StartClone, FinishClone, CloneIsLate, RemoveStaleLock, StartCheckout,
     FinishCheckout, FailFetch, FinishFetch, FollowRepos, SeeFailedFetch, FetchTimeout, Reexec, Fetching,
     Waits, Go
<1>2. Succ(pc[n], pc'[n])
  BY ReposMoves DEF NodeMove
<1> QED BY <1>1, <1>2 DEF Succ, Leads1, Leads2, Leads3

LEMMA DepsPlaces ==
  ASSUME LaunchTypes, NEW n \in Nodes, DepsStep(n)
  PROVE  pc'[n] \in {"deps", "installing", "engine", "failed"}
<1>1. pc[n] \in {"deps", "installing"}
  BY DEF DepsStep, BeginInstall, UnpackFirst, FinishInstall, FailInstall, FollowDeps, SeeFailedDeps,
     DepsTimeout, Follower, Go
<1>2. Succ(pc[n], pc'[n])
  BY DepsMoves DEF NodeMove
<1> QED BY <1>1, <1>2 DEF Succ, Leads1, Leads2, Leads3

(* What a node does to itself is of its launch, which is a launch.         *)
LEMMA UnderLaunch ==
  ASSUME LaunchTypes, NEW n \in Nodes, pc[n] # "done"
  PROVE  launch.no > 0 /\ launch.how \in ProfileType
  BY DEF LaunchTypes

-----------------------------------------------------------------------------
(* The invariants.                                                         *)

(* The run directory's marker: the coordinator's key is the only one used, *)
(* what an earlier launch wrote there is too old for all nodes of this one, *)
(* and nobody takes another name than this launch's.                       *)
MarkerInv ==
  dirMarker[0].name # None =>
    \E l \in 1 .. launch.no :
      /\ dirMarker[0].name = <<l, 0>>
      /\ dirMarker[0].at \in Nat /\ dirMarker[0].at <= now
      /\ l < launch.no => /\ dirMarker[0].at + Slack < now
                          /\ \A n \in Nodes : pc[n] \notin {"off"} \union Ended => dirMarker[0].at + Slack < began[n]

DirInv ==
  /\ \A k \in Nodes \ {0} : dirMarker[k].name = None
  /\ MarkerInv
  /\ launch.no > 0 /\ launch.how.ranked =>
       \A n \in Nodes : dirOf[n] = None \/ dirOf[n] = <<launch.no, 0>>

(* A launch with an id of its own in which followers wait for node 0.      *)
Followed ==
  launch.no > 0 /\ ~launch.how.shared /\ launch.how.ranked /\ launch.how.backend # "operator"

BeforeRepos == {"off", "rundir", "repos", "fetching"}
BeforeDeps == BeforeRepos \union {"reexec", "deps", "installing"}

(* The state files of such a launch are not there before it, and say       *)
(* "ready" when its own coordinator was.                                   *)
OwnInv ==
  /\ \A i \in Ids : i > launch.no => fetchState[i].status # "ready" /\ depsState[i] # "ready"
  /\ Followed =>
       /\ fetchState[launch.no].status = "ready" => pc[0] \notin BeforeRepos
       /\ depsState[launch.no] = "ready" => pc[0] \notin BeforeDeps
       /\ \A n \in Nodes \ {0} :
            /\ pc[n] \notin {"fetching", "installing"}
            /\ pc[n] \in {"reexec", "deps"} => pc[0] \notin BeforeRepos
            /\ pc[n] = "engine" => pc[0] \notin BeforeDeps

(* Which back-end a node prepares for, and what it has when it is done.    *)
PlaceInv ==
  \A n \in Nodes :
    /\ pc[n] \in {"prepare", "working", "writing"} => launch.how.backend = "sft"
    /\ pc[n] \in {"working", "writing"} => n = 0 /\ step[n] \in 1 .. 4
    /\ pc[n] \in {"building", "announcing", "awaiting"} => launch.how.backend = "prime_rl"
    /\ pc[n] = "announcing" => launch.how.data \in cached
    /\ pc[n] = "train" /\ launch.how.backend = "prime_rl" => launch.how.data \in cached
    /\ pc[n] = "train" /\ launch.how.backend = "sft" => step[n] = 5

(* Unless work was cut short: what a marker stands for is whole, a node is *)
(* past what is whole only, and what the cache holds is whole but what     *)
(* node 0 is writing.                                                      *)
ProductInv ==
  /\ \A k \in done : k[1] \in Products
  /\ ~cutShort =>
       /\ \A k \in done : product[k[1]].whole
       /\ \A n \in Nodes : \A i \in 1 .. 4 : i < step[n] => product[Steps[i]].whole
       /\ \A s \in Products :
            product[s] = Nothing \/ product[s].whole \/ (pc[0] = "writing" /\ s = At(0))

LaunchInv == LaunchTypes /\ DirInv /\ OwnInv /\ PlaceInv /\ ProductInv

-----------------------------------------------------------------------------
(* Steps of the job.                                                       *)

(* The steps that only end nodes: a crash, the end of a failed launch, and *)
(* training.                                                               *)
OnlyEnds ==
  /\ UNCHANGED <<now, launch, began, dirVars, fetchState, tree, indexLock, depsVars,
                 step, done, failed, product, sftVars>>
  /\ pc' \in [Nodes -> Places] /\ \A n \in Nodes : pc'[n] = pc[n] \/ pc'[n] \in Ended
  /\ launch.no > 0
  /\ cutShort' \in BOOLEAN
  /\ ~cutShort' => ~cutShort /\ (pc[0] = "writing" => pc'[0] = "writing")

LEMMA CrashOnlyEnds ==
  ASSUME LaunchTypes, NEW n \in Nodes, Crash(n)
  PROVE  OnlyEnds
<1>1. launch.no > 0
  BY UnderLaunch DEF Crash, Ended
<1>2. pc' \in [Nodes -> Places] /\ \A m \in Nodes : pc'[m] = pc[m] \/ pc'[m] \in Ended
  BY DEF Crash, LaunchTypes, Ended, Places
<1>3. cutShort' = (cutShort \/ pc[n] = "writing") /\ pc' = [pc EXCEPT ![n] = "failed"]
  BY DEF Crash
<1>4. cutShort' \in BOOLEAN
  BY <1>3
<1>5. ASSUME ~cutShort' PROVE ~cutShort /\ (pc[0] = "writing" => pc'[0] = "writing")
  BY <1>3, <1>5, NodesAssumption DEF LaunchTypes
<1> QED BY <1>1, <1>2, <1>4, <1>5 DEF Crash, OnlyEnds

LEMMA GiveUpOnlyEnds ==
  ASSUME LaunchTypes, GiveUp
  PROVE  OnlyEnds
<1>1. launch.no > 0
  BY UnderLaunch DEF GiveUp
<1> QED BY <1>1, NodesAssumption DEF GiveUp, OnlyEnds, LaunchTypes, Ended, Places

LEMMA TrainOnlyEnds ==
  ASSUME LaunchTypes, Train
  PROVE  OnlyEnds
<1>1. pc[0] = "train"
  BY NodesAssumption DEF Train
<1>2. launch.no > 0
  BY <1>1, UnderLaunch, NodesAssumption
<1> QED BY <1>1, <1>2 DEF Train, OnlyEnds, LaunchTypes, Ended, Places, diskVars, repoVars, prepVars

LEMMA ProductsAre ==
  /\ Products = {"weights", "raw", "tokens", "checkpoint"}
  /\ DOMAIN Steps = 1 .. 4
  /\ Steps[1] = "weights" /\ Steps[2] = "raw" /\ Steps[3] = "tokens" /\ Steps[4] = "checkpoint"
<1>1. DOMAIN Steps = 1 .. 4
  BY DEF Steps
<1>2. Steps[1] = "weights" /\ Steps[2] = "raw" /\ Steps[3] = "tokens" /\ Steps[4] = "checkpoint"
  BY DEF Steps
<1>3. 1 .. 4 = {1, 2, 3, 4}
  OBVIOUS
<1>4. Products = {Steps[1], Steps[2], Steps[3], Steps[4]}
  BY <1>1, <1>3 DEF Products
<1> QED BY <1>1, <1>2, <1>4

(* The types survive the preparation.                                      *)
LEMMA PrepTypes ==
  ASSUME LaunchTypes, PlaceInv, NEW n \in Nodes, PrepStep(n)
  PROVE  /\ step' \in [Nodes -> 1 .. 5]
         /\ product' \in [Products -> [of : Origins, whole : BOOLEAN]]
         /\ cutShort' \in BOOLEAN
<1>1. /\ launch.how \in ProfileType
      /\ pc[n] \in {"working", "writing"} => step[n] \in 1 .. 4
      /\ Preparing(n) => step[n] \in 1 .. 4
      /\ step \in [Nodes -> 1 .. 5] /\ product \in [Products -> [of : Origins, whole : BOOLEAN]]
      /\ cutShort \in BOOLEAN
  <2>1. pc[n] # "done"
    BY PrepMoves DEF NodeMove, Ended
  <2> QED BY <2>1, UnderLaunch, ProductsAre DEF PlaceInv, LaunchTypes, Preparing
<1>2. CASE RankUnknown(n) \/ BeginWork(n) \/ SeeFailed(n) \/ PrepareTimeout(n) \/ StartTraining(n) \/ FailWork(n)
  BY <1>1, <1>2 DEF RankUnknown, BeginWork, SeeFailed, PrepareTimeout, StartTraining, FailWork, prepVars
<1>3. CASE ReuseMarker(n) \/ KeepProduct(n) \/ SeeDone(n)
  <2>1. step[n] \in 1 .. 4 /\ step' = [step EXCEPT ![n] = @ + 1] /\ UNCHANGED <<product, cutShort>>
    BY <1>1, <1>3 DEF ReuseMarker, KeepProduct, SeeDone, Leads, Polls, WriteDone, Go
  <2> QED BY <1>1, <2>1
<1>4. \A q \in Products : Wanted(q) \in [of : Origins, whole : BOOLEAN]
  BY <1>1, ProductsAre DEF Wanted, Origins, ProfileType
<1>5. pc[n] \in {"working", "writing"} => At(n) \in Products
  BY <1>1, ProductsAre DEF At, Products
<1>6. CASE StartProduct(n)
  <2>1. /\ product' = [product EXCEPT ![At(n)] = [of |-> Wanted(At(n)).of, whole |-> FALSE]]
        /\ UNCHANGED <<step, cutShort>> /\ At(n) \in Products
    BY <1>5, <1>6 DEF StartProduct, Go
  <2>2. [of |-> Wanted(At(n)).of, whole |-> FALSE] \in [of : Origins, whole : BOOLEAN]
    BY <1>4, <2>1
  <2> QED BY <1>1, <2>1, <2>2
<1>7. CASE FinishProduct(n)
  <2>1. /\ product' = [product EXCEPT ![At(n)] = Wanted(At(n))] /\ cutShort' = cutShort
        /\ At(n) \in Products /\ step' = [step EXCEPT ![n] = @ + 1] /\ step[n] \in 1 .. 4
    BY <1>1, <1>5, <1>7 DEF FinishProduct, WriteDone, Go
  <2>2. Wanted(At(n)) \in [of : Origins, whole : BOOLEAN]
    BY <1>4, <2>1
  <2> QED BY <1>1, <2>1, <2>2
<1> QED BY <1>2, <1>3, <1>6, <1>7 DEF PrepStep

LEMMA NodeTypes ==
  ASSUME LaunchTypes, PlaceInv, NEW n \in Nodes, NodeStep(n)
  PROVE  LaunchTypes'
<1>1. NodeMove(n)
  BY NodeMoves
<1>2. /\ now' \in Nat /\ launch' = launch /\ pc' \in [Nodes -> Places]
      /\ launch.no > 0 /\ launch.how \in ProfileType
      /\ began' \in [Nodes -> Nat]
  <2>1. pc[n] # "done"
    BY <1>1 DEF NodeMove, Ended
  <2>2. pc'[n] \in Places
    BY <1>1 DEF NodeMove, LaunchTypes, Succ, Leads1, Leads2, Leads3, Places, Ended
  <2> QED BY <1>1, <2>1, <2>2, UnderLaunch DEF NodeMove, LaunchTypes
<1>3. DOMAIN dirMarker' = Nodes /\ DOMAIN dirOf' = Nodes /\ DOMAIN fetchState' = Ids /\ DOMAIN depsState' = Ids
  <2>1. CASE RunDirStep(n) /\ UNCHANGED <<diskVars, prepVars, sftVars>>
    BY <2>1 DEF RunDirStep, WrapperRunDir, EngineRunDir, RunDirTimeout, ChooseDir, NamesAlone, NamesForAll,
                TakesTheMarker, dirVars, diskVars, repoVars, depsVars, LaunchTypes
  <2>2. CASE ReposStep(n) /\ UNCHANGED <<dirVars, depsVars, prepVars, sftVars>>
    BY <2>2 DEF ReposStep, BeginFetch, StartClone, FinishClone, CloneIsLate, RemoveStaleLock, StartCheckout,
                FinishCheckout, FailFetch, FinishFetch, FollowRepos, SeeFailedFetch, FetchTimeout, Reexec,
                WriteFetchState, repoVars, dirVars, depsVars, LaunchTypes
  <2>3. CASE DepsStep(n) /\ UNCHANGED <<dirVars, repoVars, prepVars, sftVars>>
    BY <2>3 DEF DepsStep, BeginInstall, UnpackFirst, FinishInstall, FailInstall, FollowDeps, SeeFailedDeps,
                DepsTimeout, WriteDeps, repoVars, dirVars, depsVars, LaunchTypes
  <2>4. CASE Boot(n) \/ (PrepStep(n) /\ UNCHANGED <<dirVars, diskVars, sftVars>>)
             \/ (SftStep(n) /\ UNCHANGED <<diskVars, prepVars>>)
    BY <2>4 DEF Boot, SftStep, SftCached, SftBegin, SftBuilt, SftAnnounce, SftFail, SftSeeError, SftFollow,
                SftTimeout, Stands, repoVars, dirVars, diskVars, depsVars, LaunchTypes
  <2> QED BY <2>1, <2>2, <2>3, <2>4 DEF NodeStep
<1>4. /\ step' \in [Nodes -> 1 .. 5] /\ product' \in [Products -> [of : Origins, whole : BOOLEAN]]
      /\ cutShort' \in BOOLEAN
  <2>1. CASE PrepStep(n)
    BY <2>1, PrepTypes
  <2>2. CASE ~PrepStep(n)
    BY <2>2 DEF NodeStep, Boot, prepVars, LaunchTypes
  <2> QED BY <2>1, <2>2
<1> QED BY <1>2, <1>3, <1>4 DEF LaunchTypes

LEMMA LaunchTypesInit == LaunchInit => LaunchTypes
<1> SUFFICES ASSUME LaunchInit PROVE LaunchTypes
  OBVIOUS
<1>1. /\ now \in Nat /\ launch.no = 0 /\ launch.no \in 0 .. MaxLaunches
      /\ pc \in [Nodes -> Places] /\ began \in [Nodes -> Nat]
      /\ \A n \in Nodes : pc[n] = "done"
  BY BoundsAssumption DEF LaunchInit, Places, Ended
<1>2. DOMAIN dirMarker = Nodes /\ DOMAIN dirOf = Nodes /\ DOMAIN fetchState = Ids /\ DOMAIN depsState = Ids
  BY DEF LaunchInit, DirInit, RepoInit, DepsInit, Ids
<1>3. /\ step \in [Nodes -> 1 .. 5] /\ cutShort \in BOOLEAN
      /\ product \in [Products -> [of : Origins, whole : BOOLEAN]]
  <2>1. step = [n \in Nodes |-> 1] /\ cutShort = FALSE /\ product = [q \in Products |-> Nothing]
    BY DEF LaunchInit, PrepInit
  <2>2. Nothing \in [of : Origins, whole : BOOLEAN]
    BY DEF Nothing, Origins
  <2>3. product \in [Products -> [of : Origins, whole : BOOLEAN]]
    BY <2>1, <2>2, Zenon
  <2>4. step \in [Nodes -> 1 .. 5]
    BY <2>1
  <2> QED BY <2>1, <2>3, <2>4
<1> QED BY <1>1, <1>2, <1>3 DEF LaunchTypes

LEMMA LaunchTypesStep ==
  ASSUME LaunchTypes, PlaceInv, [LaunchStep]_launchVars
  PROVE  LaunchTypes'
<1>1. ASSUME NEW how \in Profiles, NewLaunch(how) PROVE LaunchTypes'
  <2>1. /\ launch'.no = launch.no + 1 /\ launch'.how = how /\ launch.no < MaxLaunches
        /\ now' \in Nat /\ pc' \in [Nodes -> Places] /\ began' = began
    BY <1>1, GapAssumption DEF NewLaunch, LaunchTypes, Places
  <2>2. /\ launch'.no \in 0 .. MaxLaunches /\ launch'.no # 0 /\ launch'.how \in ProfileType
    BY <2>1, ProfilesAssumption, BoundsAssumption DEF LaunchTypes
  <2> QED BY <1>1, <2>1, <2>2 DEF NewLaunch, LaunchTypes, diskVars, repoVars, depsVars
<1>2. CASE OnlyEnds
  BY <1>2 DEF OnlyEnds, LaunchTypes, dirVars, depsVars
<1>3. CASE Tick
  BY <1>3 DEF Tick, LaunchTypes, dirVars, diskVars, repoVars, depsVars, prepVars
<1>4. CASE UNCHANGED launchVars
  BY <1>4 DEF launchVars, nodeVars, LaunchTypes, dirVars, diskVars, repoVars, depsVars, prepVars
<1> QED BY <1>1, <1>2, <1>3, <1>4, NodeTypes, CrashOnlyEnds, GiveUpOnlyEnds, TrainOnlyEnds DEF LaunchStep

-----------------------------------------------------------------------------
(* The run directory.                                                      *)

LEMMA DirInvInit == LaunchInit => DirInv
<1> SUFFICES ASSUME LaunchInit PROVE DirInv
  OBVIOUS
<1>1. \A k \in Nodes : dirMarker[k].name = None
  BY DEF LaunchInit, DirInit
<1>2. launch.no = 0
  BY DEF LaunchInit
<1> QED BY <1>1, <1>2, NodesAssumption DEF DirInv, MarkerInv

(* The name a node may take is that of its launch.                         *)
LEMMA ChoosesOwnDir ==
  ASSUME LaunchTypes, DirInv, NEW n \in Nodes, ChooseDir(n), pc[n] \notin {"off"} \union Ended
  PROVE  /\ \A k \in Nodes \ {0} : dirMarker'[k] = dirMarker[k]
         /\ \/ dirMarker'[0] = dirMarker[0]
            \/ n = 0 /\ dirMarker'[0] = [name |-> <<launch.no, 0>>, at |-> now]
         /\ \A m \in Nodes \ {n} : dirOf'[m] = dirOf[m]
         /\ launch.how.ranked => dirOf'[n] = <<launch.no, 0>>
<1>0. launch.no > 0 /\ launch.how \in ProfileType
  BY UnderLaunch DEF Ended
<1>1. CASE NamesAlone(n)
  BY <1>1 DEF NamesAlone, LaunchTypes
<1>2. CASE NamesForAll(n)
  <2>1. n = 0 /\ MarkerKey(n) = 0
    BY <1>2 DEF NamesForAll, MarkerKey
  <2> QED BY <1>2, <2>1, NodesAssumption DEF NamesForAll, LaunchTypes
<1>3. CASE TakesTheMarker(n)
  <2>1. /\ n # 0 /\ Fresh(n, dirMarker[MarkerKey(n)]) /\ dirMarker' = dirMarker
        /\ dirOf' = [dirOf EXCEPT ![n] = dirMarker[MarkerKey(n)].name]
    BY <1>3 DEF TakesTheMarker
  <2>2. MarkerKey(n) = 0
    BY <2>1 DEF MarkerKey, Fresh, DirInv
  <2>3. dirMarker[0].name # None /\ dirMarker[0].at >= began[n] - Slack
    BY <2>1, <2>2 DEF Fresh
  <2>4. PICK l \in 1 .. launch.no :
          /\ dirMarker[0].name = <<l, 0>> /\ dirMarker[0].at \in Nat
          /\ l < launch.no => dirMarker[0].at + Slack < began[n]
    BY <2>3 DEF DirInv, MarkerInv
  <2>5. began[n] \in Nat /\ Slack \in Nat /\ launch.no \in Nat
    BY SlackAssumption DEF LaunchTypes
  <2>6. l = launch.no
    BY <2>3, <2>4, <2>5
  <2> QED BY <2>1, <2>2, <2>4, <2>6, NodesAssumption DEF LaunchTypes
<1> QED BY <1>1, <1>2, <1>3 DEF ChooseDir

LEMMA NodeDir ==
  ASSUME LaunchTypes, DirInv, NEW n \in Nodes, NodeStep(n)
  PROVE  DirInv'
<1>1. NodeMove(n)
  BY NodeMoves
<1>2. launch' = launch /\ now' = now /\ now \in Nat /\ launch.no > 0 /\ launch.no \in Nat
  <2>1. pc[n] # "done"
    BY <1>1 DEF NodeMove, Ended
  <2> QED BY <1>1, <2>1, UnderLaunch DEF NodeMove, LaunchTypes
<1>3. CASE ChooseDir(n) /\ pc[n] \notin {"off"} \union Ended /\ began' = began
  <2>1. /\ \A k \in Nodes \ {0} : dirMarker'[k] = dirMarker[k]
        /\ \/ dirMarker'[0] = dirMarker[0]
           \/ n = 0 /\ dirMarker'[0] = [name |-> <<launch.no, 0>>, at |-> now]
        /\ \A m \in Nodes \ {n} : dirOf'[m] = dirOf[m]
        /\ launch.how.ranked => dirOf'[n] = <<launch.no, 0>>
    BY <1>3, ChoosesOwnDir
  <2>2. \A k \in Nodes \ {0} : dirMarker'[k].name = None
    BY <2>1 DEF DirInv
  <2>3. launch.how.ranked => \A m \in Nodes : dirOf'[m] = None \/ dirOf'[m] = <<launch.no, 0>>
    BY <1>2, <2>1 DEF DirInv
  <2>4. MarkerInv'
    <3>1. CASE dirMarker'[0] = [name |-> <<launch.no, 0>>, at |-> now]
      BY <1>2, <3>1 DEF MarkerInv
    <3>2. CASE dirMarker'[0] = dirMarker[0]
      <4>1. ASSUME NEW m \in Nodes, pc'[m] \notin {"off"} \union Ended
            PROVE  pc[m] \notin {"off"} \union Ended
        BY <1>1, <1>3, <4>1 DEF NodeMove, LaunchTypes
      <4> QED BY <1>2, <1>3, <3>2, <4>1 DEF MarkerInv, DirInv
    <3> QED BY <2>1, <3>1, <3>2
  <2> QED BY <1>2, <2>2, <2>3, <2>4 DEF DirInv
<1>4. CASE UNCHANGED dirVars
  <2>1. MarkerInv'
    <3>1. SUFFICES ASSUME dirMarker[0].name # None PROVE MarkerInv'
      BY <1>4 DEF dirVars, MarkerInv
    <3>2. PICK l \in 1 .. launch.no :
            /\ dirMarker[0].name = <<l, 0>>
            /\ dirMarker[0].at \in Nat /\ dirMarker[0].at <= now
            /\ l < launch.no => /\ dirMarker[0].at + Slack < now
                                /\ \A m \in Nodes : pc[m] \notin {"off"} \union Ended => dirMarker[0].at + Slack < began[m]
      BY <3>1 DEF DirInv, MarkerInv
    <3>3. ASSUME l < launch.no, NEW m \in Nodes, pc'[m] \notin {"off"} \union Ended
          PROVE  dirMarker[0].at + Slack < began'[m]
      <4>1. CASE began'[m] = now
        BY <3>2, <3>3, <4>1
      <4>2. CASE began'[m] = began[m] /\ pc[m] \notin {"off"} \union Ended
        BY <3>2, <3>3, <4>2
      <4>3. pc[m] = "off" => began'[m] = now
        <5>1. SUFFICES ASSUME pc[m] = "off" PROVE began'[m] = now
          OBVIOUS
        <5>2. m = n
          BY <1>1, <3>3, <5>1 DEF NodeMove, LaunchTypes
        <5>3. Boot(n)
          BY <5>1, <5>2, <3>3 DEF NodeStep, RunDirStep, WrapperRunDir, EngineRunDir, RunDirTimeout,
               ReposStep, BeginFetch, StartClone, FinishClone, CloneIsLate, RemoveStaleLock, StartCheckout,
               FinishCheckout, FailFetch, FinishFetch, FollowRepos, SeeFailedFetch, FetchTimeout, Reexec,
               Fetching, Waits, DepsStep, BeginInstall, UnpackFirst, FinishInstall, FailInstall, FollowDeps,
               SeeFailedDeps, DepsTimeout, Follower, PrepStep, RankUnknown, ReuseMarker, BeginWork, KeepProduct,
               StartProduct, FinishProduct, FailWork, SeeDone, SeeFailed, PrepareTimeout, StartTraining,
               Preparing, Leads, Polls, Go, SftStep, SftCached, SftBegin, SftBuilt, SftAnnounce, SftFail,
               SftSeeError, SftFollow, SftTimeout, Stands
        <5> QED BY <5>2, <5>3 DEF Boot, LaunchTypes
      <4>4. began'[m] = began[m] \/ began'[m] = now
        BY <1>1 DEF NodeMove, LaunchTypes
      <4>5. pc[m] \in Ended => began'[m] = began[m] /\ pc'[m] \in Ended
        BY <1>1 DEF NodeMove, LaunchTypes
      <4> QED BY <3>3, <4>1, <4>2, <4>3, <4>4, <4>5
    <3>4. dirMarker' = dirMarker
      BY <1>4 DEF dirVars
    <3> QED BY <1>2, <3>2, <3>3, <3>4 DEF MarkerInv
  <2> QED BY <1>2, <1>4, <2>1 DEF DirInv, dirVars
<1>5. \/ UNCHANGED dirVars
      \/ ChooseDir(n) /\ pc[n] \notin {"off"} \union Ended /\ began' = began
  <2>1. CASE RunDirStep(n)
    BY <2>1 DEF RunDirStep, WrapperRunDir, EngineRunDir, RunDirTimeout, Go, Ended
  <2>2. CASE SftStep(n)
    BY <2>2 DEF SftStep, SftCached, SftBegin, SftBuilt, SftAnnounce, SftFail, SftSeeError, SftFollow,
                SftTimeout, Stands
  <2> QED BY <2>1, <2>2 DEF NodeStep, Boot
<1> QED BY <1>3, <1>4, <1>5

LEMMA DirInvStep ==
  ASSUME LaunchTypes, DirInv, [LaunchStep]_launchVars
  PROVE  DirInv'
<1>0. now \in Nat /\ launch.no \in Nat /\ Slack \in Nat /\ Gap \in Nat /\ Gap > Slack
  BY SlackAssumption, GapAssumption DEF LaunchTypes
<1>1. ASSUME NEW how \in Profiles, NewLaunch(how) PROVE DirInv'
  <2>1. /\ launch'.no = launch.no + 1 /\ dirMarker' = dirMarker
        /\ now' = (IF launch.no = 0 THEN now ELSE now + Gap)
        /\ dirOf' = [n \in Nodes |-> None] /\ pc' = [n \in Nodes |-> "off"]
    BY <1>1 DEF NewLaunch
  <2>2. MarkerInv'
    <3>1. SUFFICES ASSUME dirMarker[0].name # None PROVE MarkerInv'
      BY <2>1 DEF MarkerInv
    <3>2. PICK l \in 1 .. launch.no :
            dirMarker[0].name = <<l, 0>> /\ dirMarker[0].at \in Nat /\ dirMarker[0].at <= now
      BY <3>1 DEF DirInv, MarkerInv
    <3>3. now' = now + Gap /\ l \in 1 .. launch'.no
      BY <1>0, <2>1, <3>2
    <3>4. dirMarker[0].at <= now' /\ dirMarker[0].at + Slack < now'
      BY <1>0, <3>2, <3>3
    <3> QED BY <2>1, <3>2, <3>3, <3>4 DEF MarkerInv
  <2> QED BY <2>1, <2>2 DEF DirInv
<1>2. CASE OnlyEnds
  BY <1>2 DEF OnlyEnds, DirInv, MarkerInv, dirVars
<1>3. CASE Tick
  <2>1. UNCHANGED <<launch, pc, began, dirMarker, dirOf>> /\ now' = now + 1
    BY <1>3 DEF Tick, dirVars
  <2>2. MarkerInv'
    <3>1. SUFFICES ASSUME dirMarker[0].name # None PROVE MarkerInv'
      BY <2>1 DEF MarkerInv
    <3>2. PICK l \in 1 .. launch.no :
            /\ dirMarker[0].name = <<l, 0>>
            /\ dirMarker[0].at \in Nat /\ dirMarker[0].at <= now
            /\ l < launch.no => /\ dirMarker[0].at + Slack < now
                                /\ \A m \in Nodes : pc[m] \notin {"off"} \union Ended => dirMarker[0].at + Slack < began[m]
      BY <3>1 DEF DirInv, MarkerInv
    <3>3. dirMarker[0].at <= now' /\ (l < launch.no => dirMarker[0].at + Slack < now')
      BY <1>0, <2>1, <3>2
    <3> QED BY <2>1, <3>2, <3>3 DEF MarkerInv
  <2> QED BY <2>1, <2>2 DEF DirInv
<1>4. CASE UNCHANGED launchVars
  BY <1>4 DEF launchVars, nodeVars, dirVars, DirInv, MarkerInv
<1> QED BY <1>1, <1>2, <1>3, <1>4, NodeDir, CrashOnlyEnds, GiveUpOnlyEnds, TrainOnlyEnds DEF LaunchStep

-----------------------------------------------------------------------------
(* The state files of fetching and installing.                             *)

(* Only who has fetched, or installed, writes "ready", and only for its id. *)
ReadyWrites(n) ==
  \A i \in Ids :
    /\ fetchState'[i].status = "ready" /\ fetchState[i].status # "ready" =>
         i = CoordinationId /\ pc[n] = "fetching" /\ pc'[n] = "reexec"
    /\ depsState'[i] = "ready" /\ depsState[i] # "ready" =>
         i = CoordinationId /\ pc[n] = "installing" /\ pc'[n] = "engine"

LEMMA NodeWrites ==
  ASSUME LaunchTypes, NEW n \in Nodes, NodeStep(n)
  PROVE  ReadyWrites(n)
<1>1. CASE ReposStep(n) /\ UNCHANGED <<dirVars, depsVars, prepVars, sftVars>>
  <2>1. CASE BeginFetch(n) \/ CloneIsLate(n) \/ FailFetch(n)
    BY <1>1, <2>1 DEF BeginFetch, CloneIsLate, FailFetch, WriteFetchState, ReadyWrites, LaunchTypes, depsVars
  <2>2. CASE FinishFetch(n)
    BY <1>1, <2>2 DEF FinishFetch, WriteFetchState, ReadyWrites, LaunchTypes, depsVars
  <2>3. CASE UNCHANGED fetchState
    BY <1>1, <2>3 DEF ReadyWrites, depsVars
  <2> QED
    BY <1>1, <2>1, <2>2, <2>3 DEF ReposStep, StartClone, FinishClone, RemoveStaleLock, StartCheckout,
       FinishCheckout, FollowRepos, SeeFailedFetch, FetchTimeout, Reexec, repoVars
<1>2. CASE DepsStep(n) /\ UNCHANGED <<dirVars, repoVars, prepVars, sftVars>>
  <2>1. CASE BeginInstall(n) \/ FailInstall(n)
    BY <1>2, <2>1 DEF BeginInstall, FailInstall, WriteDeps, ReadyWrites, LaunchTypes, repoVars
  <2>2. CASE FinishInstall(n)
    BY <1>2, <2>2 DEF FinishInstall, WriteDeps, ReadyWrites, LaunchTypes, repoVars, Go
  <2>3. CASE UNCHANGED depsState
    BY <1>2, <2>3 DEF ReadyWrites, repoVars
  <2> QED
    BY <1>2, <2>1, <2>2, <2>3 DEF DepsStep, UnpackFirst, FollowDeps, SeeFailedDeps, DepsTimeout, depsVars
<1>3. CASE UNCHANGED diskVars
  BY <1>3 DEF ReadyWrites, diskVars, repoVars, depsVars
<1> QED BY <1>1, <1>2, <1>3 DEF NodeStep, Boot

(* A follower goes on when a state file says so.                           *)
LEMMA FollowerMoves ==
  ASSUME LaunchTypes, OwnInv, Followed, NEW n \in Nodes \ {0}, NodeStep(n), pc'[n] # pc[n]
  PROVE  /\ pc'[n] \notin {"fetching", "installing"}
         /\ pc'[n] = "reexec" => fetchState[launch.no].status = "ready"
         /\ pc'[n] = "deps" => pc[n] = "reexec"
         /\ pc'[n] = "engine" => depsState[launch.no] = "ready"
<1>1. ~Coordinator(n) /\ CoordinationId = launch.no /\ pc[n] \notin {"fetching", "installing"}
  BY DEF Coordinator, CoordinationId, Followed, OwnInv
<1>2. CASE ReposStep(n)
  BY <1>1, <1>2 DEF ReposStep, BeginFetch, StartClone, FinishClone, CloneIsLate, RemoveStaleLock,
     StartCheckout, FinishCheckout, FailFetch, FinishFetch, FollowRepos, SeeFailedFetch, FetchTimeout,
     Reexec, Fetching, Waits, Go, nodeVars, LaunchTypes
<1>3. CASE DepsStep(n)
  BY <1>1, <1>3 DEF DepsStep, BeginInstall, UnpackFirst, FinishInstall, FailInstall, FollowDeps,
     SeeFailedDeps, DepsTimeout, Follower, Go, nodeVars, LaunchTypes
<1>4. CASE Boot(n) \/ RunDirStep(n)
  BY <1>4 DEF Boot, RunDirStep, WrapperRunDir, EngineRunDir, RunDirTimeout, Go, LaunchTypes
<1>5. CASE PrepStep(n)
  <2>1. pc[n] \in {"prepare", "working", "writing"}
    BY <1>5 DEF PrepStep, RankUnknown, ReuseMarker, BeginWork, KeepProduct, StartProduct, FinishProduct,
       FailWork, SeeDone, SeeFailed, PrepareTimeout, StartTraining, Preparing, Leads, Polls, Go
  <2>2. Succ(pc[n], pc'[n])
    BY <1>5, PrepMoves DEF NodeMove
  <2> QED BY <2>1, <2>2 DEF Succ, Leads1, Leads2, Leads3
<1>6. CASE SftStep(n)
  BY <1>6 DEF SftStep, SftCached, SftBegin, SftBuilt, SftAnnounce, SftFail, SftSeeError, SftFollow,
     SftTimeout, Stands, To, LaunchTypes
<1> QED BY <1>2, <1>3, <1>4, <1>5, <1>6 DEF NodeStep

LEMMA NodeOwn ==
  ASSUME LaunchTypes, OwnInv, NEW n \in Nodes, NodeStep(n)
  PROVE  OwnInv'
<1>1. NodeMove(n) /\ ReadyWrites(n)
  BY NodeMoves, NodeWrites
<1>2. /\ launch' = launch /\ launch.no > 0 /\ launch.no \in Ids /\ launch.no \in Nat
      /\ 0 \in Nodes
  <2>1. pc[n] # "done"
    BY <1>1 DEF NodeMove, Ended
  <2> QED BY <1>1, <2>1, UnderLaunch, NodesAssumption DEF NodeMove, LaunchTypes, Ids
<1>3. \A i \in Ids : i > launch.no => fetchState'[i].status # "ready" /\ depsState'[i] # "ready"
  BY <1>1, <1>2 DEF ReadyWrites, OwnInv, CoordinationId
<1>4. SUFFICES ASSUME Followed
               PROVE  /\ fetchState'[launch.no].status = "ready" => pc'[0] \notin BeforeRepos
                      /\ depsState'[launch.no] = "ready" => pc'[0] \notin BeforeDeps
                      /\ \A m \in Nodes \ {0} :
                           /\ pc'[m] \notin {"fetching", "installing"}
                           /\ pc'[m] \in {"reexec", "deps"} => pc'[0] \notin BeforeRepos
                           /\ pc'[m] = "engine" => pc'[0] \notin BeforeDeps
  BY <1>2, <1>3 DEF OwnInv, Followed
<1>5. /\ pc[0] \notin BeforeRepos => pc'[0] \notin BeforeRepos
      /\ pc[0] \notin BeforeDeps => pc'[0] \notin BeforeDeps
  <2>1. pc'[0] = pc[0] \/ Succ(pc[0], pc'[0])
    BY <1>1, <1>2 DEF NodeMove, LaunchTypes
  <2> QED BY <2>1 DEF Succ, Leads1, Leads2, Leads3, BeforeRepos, BeforeDeps
<1>6. pc[n] \in {"fetching", "installing"} => n = 0
  BY <1>4 DEF OwnInv
<1>7. /\ fetchState'[launch.no].status = "ready" => pc'[0] \notin BeforeRepos
      /\ depsState'[launch.no] = "ready" => pc'[0] \notin BeforeDeps
  <2>1. ASSUME fetchState'[launch.no].status = "ready" PROVE pc'[0] \notin BeforeRepos
    <3>1. CASE fetchState[launch.no].status = "ready"
      BY <1>4, <1>5, <3>1 DEF OwnInv
    <3>2. CASE fetchState[launch.no].status # "ready"
      BY <1>1, <1>2, <1>6, <2>1, <3>2 DEF ReadyWrites, BeforeRepos
    <3> QED BY <3>1, <3>2
  <2>2. ASSUME depsState'[launch.no] = "ready" PROVE pc'[0] \notin BeforeDeps
    <3>1. CASE depsState[launch.no] = "ready"
      BY <1>4, <1>5, <3>1 DEF OwnInv
    <3>2. CASE depsState[launch.no] # "ready"
      BY <1>1, <1>2, <1>6, <2>2, <3>2 DEF ReadyWrites, BeforeRepos, BeforeDeps
    <3> QED BY <3>1, <3>2
  <2> QED BY <2>1, <2>2
<1>8. ASSUME NEW m \in Nodes \ {0}
      PROVE  /\ pc'[m] \notin {"fetching", "installing"}
             /\ pc'[m] \in {"reexec", "deps"} => pc'[0] \notin BeforeRepos
             /\ pc'[m] = "engine" => pc'[0] \notin BeforeDeps
  <2>1. CASE pc'[m] = pc[m]
    BY <1>4, <1>5, <2>1 DEF OwnInv
  <2>2. CASE pc'[m] # pc[m]
    <3>1. m = n
      BY <1>1, <2>2 DEF NodeMove, LaunchTypes
    <3>2. /\ pc'[m] \notin {"fetching", "installing"}
          /\ pc'[m] = "reexec" => fetchState[launch.no].status = "ready"
          /\ pc'[m] = "deps" => pc[m] = "reexec"
          /\ pc'[m] = "engine" => depsState[launch.no] = "ready"
      BY <1>4, <2>2, <3>1, FollowerMoves
    <3> QED BY <1>4, <1>5, <3>2 DEF OwnInv
  <2> QED BY <2>1, <2>2
<1> QED BY <1>7, <1>8

LEMMA OwnInvInit == LaunchInit => OwnInv
<1> SUFFICES ASSUME LaunchInit PROVE OwnInv
  OBVIOUS
<1>1. launch.no = 0
  BY DEF LaunchInit
<1>2. \A i \in Ids : fetchState[i].status = None /\ depsState[i] = None
  BY DEF LaunchInit, RepoInit, DepsInit, Ids
<1> QED BY <1>1, <1>2, NoneAssumption DEF OwnInv, Followed

LEMMA OwnInvStep ==
  ASSUME LaunchTypes, OwnInv, [LaunchStep]_launchVars
  PROVE  OwnInv'
<1>1. ASSUME NEW how \in Profiles, NewLaunch(how) PROVE OwnInv'
  <2>1. /\ launch'.no = launch.no + 1 /\ launch.no < MaxLaunches /\ launch.no \in Nat /\ MaxLaunches \in Nat
        /\ UNCHANGED <<fetchState, depsState>> /\ pc' = [n \in Nodes |-> "off"]
    BY <1>1, BoundsAssumption DEF NewLaunch, diskVars, repoVars, depsVars, LaunchTypes
  <2>2. launch'.no \in Ids /\ \A i \in Ids : i > launch'.no \/ i = launch'.no => i > launch.no
    BY <2>1 DEF Ids
  <2>3. \A i \in Ids : i > launch.no => fetchState'[i].status # "ready" /\ depsState'[i] # "ready"
    BY <2>1 DEF OwnInv
  <2>4. \A n \in Nodes : pc'[n] \notin {"fetching", "installing", "reexec", "deps", "engine"}
    BY <2>1
  <2> QED BY <2>2, <2>3, <2>4 DEF OwnInv
<1>2. CASE OnlyEnds
  <2>1. /\ UNCHANGED <<launch, fetchState, depsState>>
        /\ \A n \in Nodes : pc'[n] = pc[n] \/ pc'[n] \in Ended
    BY <1>2 DEF OnlyEnds, depsVars
  <2>2. /\ pc[0] \notin BeforeRepos => pc'[0] \notin BeforeRepos
        /\ pc[0] \notin BeforeDeps => pc'[0] \notin BeforeDeps
        /\ \A n \in Nodes : pc'[n] \in {"fetching", "installing", "reexec", "deps", "engine"} => pc'[n] = pc[n]
    BY <2>1, NodesAssumption DEF BeforeRepos, BeforeDeps, Ended
  <2> QED BY <2>1, <2>2 DEF OwnInv, Followed
<1>3. CASE Tick
  BY <1>3 DEF Tick, diskVars, repoVars, depsVars, OwnInv, Followed
<1>4. CASE UNCHANGED launchVars
  BY <1>4 DEF launchVars, nodeVars, diskVars, repoVars, depsVars, OwnInv, Followed
<1> QED BY <1>1, <1>2, <1>3, <1>4, NodeOwn, CrashOnlyEnds, GiveUpOnlyEnds, TrainOnlyEnds DEF LaunchStep

-----------------------------------------------------------------------------
(* Where a node is, and what it has when it trains.                        *)

PlaceOf(n) ==
  /\ pc[n] \in {"prepare", "working", "writing"} => launch.how.backend = "sft"
  /\ pc[n] \in {"working", "writing"} => n = 0 /\ step[n] \in 1 .. 4
  /\ pc[n] \in {"building", "announcing", "awaiting"} => launch.how.backend = "prime_rl"
  /\ pc[n] = "announcing" => launch.how.data \in cached
  /\ pc[n] = "train" /\ launch.how.backend = "prime_rl" => launch.how.data \in cached
  /\ pc[n] = "train" /\ launch.how.backend = "sft" => step[n] = 5

LEMMA NodePlace ==
  ASSUME LaunchTypes, PlaceInv, NEW n \in Nodes, NodeStep(n)
  PROVE  PlaceInv'
<1>1. NodeMove(n)
  BY NodeMoves
<1>2. launch' = launch /\ launch.how \in ProfileType
  <2>1. pc[n] # "done"
    BY <1>1 DEF NodeMove, Ended
  <2> QED BY <1>1, <2>1, UnderLaunch DEF NodeMove
<1>3. PlaceOf(n) /\ \A m \in Nodes : PlaceOf(m)
  BY DEF PlaceInv, PlaceOf
<1>4. cached \subseteq cached' /\ \A m \in Nodes \ {n} : step'[m] = step[m]
  <2>1. CASE SftStep(n) /\ UNCHANGED <<diskVars, prepVars>>
    BY <2>1 DEF SftStep, SftCached, SftBegin, SftBuilt, SftAnnounce, SftFail, SftSeeError, SftFollow,
       SftTimeout, sftVars, prepVars
  <2>2. CASE PrepStep(n) /\ UNCHANGED <<dirVars, diskVars, sftVars>>
    BY <2>2 DEF PrepStep, RankUnknown, ReuseMarker, BeginWork, KeepProduct, StartProduct, FinishProduct,
       FailWork, SeeDone, SeeFailed, PrepareTimeout, StartTraining, WriteDone, sftVars, prepVars, LaunchTypes
  <2>3. CASE UNCHANGED <<prepVars, sftVars>>
    BY <2>3 DEF sftVars, prepVars
  <2> QED BY <2>1, <2>2, <2>3 DEF NodeStep, Boot
<1>5. PlaceOf(n)'
  <2>1. CASE RunDirStep(n) /\ UNCHANGED <<diskVars, prepVars, sftVars>>
    <3>1. \/ pc'[n] \in {"repos", "failed"}
          \/ pc'[n] = "train" /\ launch.how.backend = "operator"
          \/ pc'[n] = "prepare" /\ launch.how.backend = "sft"
      BY <1>2, <2>1 DEF RunDirStep, WrapperRunDir, EngineRunDir, RunDirTimeout, Go, LaunchTypes, ProfileType
    <3> QED BY <1>2, <3>1 DEF PlaceOf
  <2>2. CASE ReposStep(n) \/ DepsStep(n) \/ Boot(n)
    <3>1. pc'[n] \in {"rundir", "repos", "fetching", "reexec", "deps", "installing", "engine", "failed"}
      BY <2>2, NodeMoves, ReposPlaces, DepsPlaces DEF Boot, Go, LaunchTypes
    <3> QED BY <3>1 DEF PlaceOf
  <2>3. CASE PrepStep(n) /\ UNCHANGED <<dirVars, diskVars, sftVars>>
    <3>1. cached' = cached /\ DOMAIN Steps = 1 .. 4 /\ step[n] \in 1 .. 5 /\ step \in [Nodes -> 1 .. 5]
      BY <2>3, ProductsAre DEF sftVars, LaunchTypes
    <3>2. /\ pc[n] \in {"prepare", "working", "writing"}
          /\ launch.how.backend = "sft"
      BY <1>3, <2>3 DEF PrepStep, RankUnknown, ReuseMarker, BeginWork, KeepProduct, StartProduct, FinishProduct,
         FailWork, SeeDone, SeeFailed, PrepareTimeout, StartTraining, Preparing, Leads, Polls, Go, PlaceOf
    <3>3. /\ pc'[n] \in {"prepare", "working", "writing", "train", "failed"}
          /\ pc'[n] \in {"working", "writing"} => n = 0 /\ step'[n] \in 1 .. 4
          /\ pc'[n] = "train" => step'[n] = 5
      <4>1. CASE ReuseMarker(n) \/ SeeDone(n) \/ KeepProduct(n) \/ FinishProduct(n)
        BY <3>2, <4>1 DEF ReuseMarker, SeeDone, KeepProduct, FinishProduct, Leads, Polls, Preparing, nodeVars,
           Go, LaunchTypes
      <4>2. CASE BeginWork(n) \/ StartProduct(n) \/ StartTraining(n)
        BY <1>3, <3>1, <4>2 DEF BeginWork, StartProduct, StartTraining, Leads, Preparing, prepVars,
           Go, LaunchTypes, PlaceOf
      <4>3. CASE RankUnknown(n) \/ FailWork(n) \/ SeeFailed(n) \/ PrepareTimeout(n)
        BY <4>3 DEF RankUnknown, FailWork, SeeFailed, PrepareTimeout, Go, LaunchTypes
      <4> QED BY <2>3, <4>1, <4>2, <4>3 DEF PrepStep
    <3> QED BY <1>2, <3>2, <3>3 DEF PlaceOf
  <2>4. CASE SftStep(n) /\ UNCHANGED <<diskVars, prepVars>>
    <3>1. CASE SftCached(n) \/ SftBegin(n) \/ SftBuilt(n)
      BY <1>2, <1>3, <3>1 DEF SftCached, SftBegin, SftBuilt, Stands, To, sftVars, LaunchTypes, PlaceOf
    <3>2. CASE SftAnnounce(n) \/ SftFollow(n)
      BY <1>2, <1>3, <3>2 DEF SftAnnounce, SftFollow, Stands, To, sftVars, LaunchTypes, PlaceOf
    <3>3. CASE SftFail(n) \/ SftSeeError(n) \/ SftTimeout(n)
      BY <3>3 DEF SftFail, SftSeeError, SftTimeout, Stands, To, LaunchTypes, PlaceOf
    <3> QED BY <2>4, <3>1, <3>2, <3>3 DEF SftStep
  <2> QED BY <2>1, <2>2, <2>3, <2>4 DEF NodeStep
<1>6. ASSUME NEW m \in Nodes \ {n} PROVE PlaceOf(m)'
  <2>1. pc'[m] = pc[m]
    BY <1>1 DEF NodeMove, LaunchTypes
  <2> QED BY <1>2, <1>3, <1>4, <2>1 DEF PlaceOf
<1> QED BY <1>5, <1>6 DEF PlaceInv, PlaceOf

LEMMA PlaceInvStep ==
  ASSUME LaunchTypes, PlaceInv, [LaunchStep]_launchVars
  PROVE  PlaceInv'
<1>1. ASSUME NEW how \in Profiles, NewLaunch(how) PROVE PlaceInv'
  <2>1. \A n \in Nodes : pc'[n] = "off"
    BY <1>1 DEF NewLaunch
  <2> QED BY <2>1 DEF PlaceInv
<1>2. CASE Train \/ (OnlyEnds /\ ~Train)
  <2>1. /\ UNCHANGED <<launch, step, cached>>
        /\ \A n \in Nodes : pc'[n] = pc[n] \/ pc'[n] \in Ended
    BY <1>2, TrainOnlyEnds DEF OnlyEnds, sftVars
  <2> QED BY <2>1 DEF PlaceInv, Ended
<1>3. CASE Tick
  BY <1>3 DEF Tick, prepVars, sftVars, PlaceInv
<1>4. CASE UNCHANGED launchVars
  BY <1>4 DEF launchVars, nodeVars, prepVars, sftVars, PlaceInv
<1> QED BY <1>1, <1>2, <1>3, <1>4, NodePlace, CrashOnlyEnds, GiveUpOnlyEnds DEF LaunchStep

LEMMA PlaceInvInit == LaunchInit => PlaceInv
<1> SUFFICES ASSUME LaunchInit PROVE PlaceInv
  OBVIOUS
<1>1. \A n \in Nodes : pc[n] = "done"
  BY DEF LaunchInit
<1> QED BY <1>1 DEF PlaceInv

-----------------------------------------------------------------------------
(* The products.                                                           *)

LEMMA ProductInvInit == LaunchInit => ProductInv
<1> SUFFICES ASSUME LaunchInit PROVE ProductInv
  OBVIOUS
<1>1. /\ done = {} /\ \A s \in Products : product[s] = Nothing
      /\ \A n \in Nodes : step[n] = 1
  BY DEF LaunchInit, PrepInit
<1> QED BY <1>1 DEF ProductInv

(* The part of ProductInv that holds while nothing was cut short.          *)
AllWhole ==
  /\ \A k \in done : product[k[1]].whole
  /\ \A n \in Nodes : \A i \in 1 .. 4 : i < step[n] => product[Steps[i]].whole
  /\ \A s \in Products :
       product[s] = Nothing \/ product[s].whole \/ (pc[0] = "writing" /\ s = At(0))

LEMMA KeyIsOf == \A s : Key(s)[1] = s
  BY DEF Key

(* Who writes a product is preparing.                                      *)
LEMMA OnlyPrepWrites ==
  ASSUME NEW n \in Nodes, pc[n] = "writing", NodeStep(n)
  PROVE  PrepStep(n)
  BY DEF NodeStep, Boot, RunDirStep, WrapperRunDir, EngineRunDir, RunDirTimeout,
     ReposStep, BeginFetch, StartClone, FinishClone, CloneIsLate, RemoveStaleLock, StartCheckout,
     FinishCheckout, FailFetch, FinishFetch, FollowRepos, SeeFailedFetch, FetchTimeout, Reexec,
     Fetching, Waits, DepsStep, BeginInstall, UnpackFirst, FinishInstall, FailInstall, FollowDeps,
     SeeFailedDeps, DepsTimeout, Follower, Go, SftStep, SftCached, SftBegin, SftBuilt, SftAnnounce, SftFail,
     SftSeeError, SftFollow, SftTimeout, Stands

(* A marker is passed: what it stands for is whole.                        *)
LEMMA MarkerStep ==
  ASSUME LaunchTypes, AllWhole, NEW n \in Nodes, Preparing(n), Key(At(n)) \in done,
         step' = [step EXCEPT ![n] = @ + 1], UNCHANGED <<pc, done, product>>
  PROVE  AllWhole'
<1>1. product[At(n)].whole
  BY KeyIsOf DEF AllWhole
<1>2. step[n] \in 1 .. 4 /\ step \in [Nodes -> 1 .. 5]
  BY ProductsAre DEF Preparing, LaunchTypes
<1>3. \A m \in Nodes : \A i \in 1 .. 4 : i < step'[m] => product[Steps[i]].whole
  <2> SUFFICES ASSUME NEW m \in Nodes, NEW i \in 1 .. 4, i < step'[m] PROVE product[Steps[i]].whole
    OBVIOUS
  <2>1. i < step[m] \/ (m = n /\ i = step[n])
    BY <1>2
  <2> QED BY <1>1, <2>1 DEF AllWhole, At
<1>4. pc[0] = "writing" => At(0)' = At(0)
  BY <1>2, NodesAssumption DEF At, Preparing
<1> QED BY <1>3, <1>4 DEF AllWhole

(* Work of node 0 is done: its product is whole, and so is its marker.     *)
LEMMA WorkStep ==
  ASSUME LaunchTypes, AllWhole, 0 \in Nodes, step[0] \in 1 .. 4, WriteDone(0), pc'[0] # "writing",
         \A k \in done : k[1] \in Products,
         \A s \in Products \ {At(0)} : product'[s] = product[s], product'[At(0)].whole
  PROVE  AllWhole'
<1>1. step' = [step EXCEPT ![0] = @ + 1] /\ done' = done \union {Key(At(0))} /\ step \in [Nodes -> 1 .. 5]
  BY DEF WriteDone, LaunchTypes
<1>2. \A s \in Products : product[s].whole => product'[s].whole
  OBVIOUS
<1>3. \A i \in 1 .. 4 : Steps[i] \in Products
  BY ProductsAre
<1>4. \A m \in Nodes : \A i \in 1 .. 4 : i < step'[m] => product'[Steps[i]].whole
  <2> SUFFICES ASSUME NEW m \in Nodes, NEW i \in 1 .. 4, i < step'[m] PROVE product'[Steps[i]].whole
    OBVIOUS
  <2>1. i < step[m] \/ (m = 0 /\ i = step[0])
    BY <1>1
  <2> QED BY <1>2, <1>3, <2>1 DEF AllWhole, At
<1>5. \A s \in Products : product'[s] = Nothing \/ product'[s].whole
  BY DEF AllWhole
<1>6. \A k \in done' : product'[k[1]].whole
  BY <1>1, <1>2, KeyIsOf DEF AllWhole
<1> QED BY <1>4, <1>5, <1>6 DEF AllWhole

LEMMA PrepWhole ==
  ASSUME LaunchTypes, PlaceInv, AllWhole, \A k \in done : k[1] \in Products,
         NEW n \in Nodes, PrepStep(n), ~cutShort'
  PROVE  AllWhole'
<1>1. /\ step \in [Nodes -> 1 .. 5] /\ pc \in [Nodes -> Places] /\ 0 \in Nodes
      /\ pc[n] \in {"working", "writing"} => n = 0 /\ step[0] \in 1 .. 4 /\ At(0) \in Products
      /\ product \in [Products -> [of : Origins, whole : BOOLEAN]]
      /\ \A i \in 1 .. 4 : Steps[i] \in Products
  BY ProductsAre, NodesAssumption DEF LaunchTypes, PlaceInv, At
<1>2. CASE ReuseMarker(n) \/ SeeDone(n)
  BY <1>2, MarkerStep DEF ReuseMarker, SeeDone, Leads, Polls, nodeVars
<1>3. CASE RankUnknown(n) \/ BeginWork(n) \/ SeeFailed(n) \/ PrepareTimeout(n) \/ StartTraining(n)
  <2>1. /\ UNCHANGED <<step, done, product>> /\ pc[n] = "prepare"
        /\ \E q : pc' = [pc EXCEPT ![n] = q]
    BY <1>3 DEF RankUnknown, BeginWork, SeeFailed, PrepareTimeout, StartTraining, Leads, Polls, Preparing, Go,
       prepVars
  <2>2. pc[0] = "writing" => pc'[0] = "writing" /\ At(0)' = At(0)
    BY <1>1, <2>1 DEF At
  <2> QED BY <2>1, <2>2 DEF AllWhole
<1>4. CASE KeepProduct(n)
  <2>1. /\ n = 0 /\ pc[0] = "working" /\ pc'[0] = "prepare" /\ step[0] \in 1 .. 4 /\ At(0) \in Products
        /\ MayKeep(At(0)) /\ WriteDone(0) /\ product' = product
    BY <1>1, <1>4 DEF KeepProduct, Go
  <2>2. product[At(0)] # Nothing
    BY <2>1 DEF MayKeep, MustKeep, Nothing
  <2>3. product[At(0)].whole
    BY <2>1, <2>2 DEF AllWhole
  <2> QED BY <1>1, <2>1, <2>3, WorkStep
<1>5. CASE StartProduct(n)
  <2>1. /\ n = 0 /\ pc[0] = "working" /\ pc'[0] = "writing" /\ step[0] \in 1 .. 4 /\ At(0) \in Products
        /\ ~MustKeep(At(0)) /\ UNCHANGED <<step, done>> /\ At(0)' = At(0)
        /\ \A s \in Products \ {At(0)} : product'[s] = product[s]
    BY <1>1, <1>5 DEF StartProduct, Go, At
  <2>2. ~product[At(0)].whole
    BY <2>1 DEF MustKeep, Nothing
  <2>3. \A k \in done : product'[k[1]].whole
    BY <2>1, <2>2 DEF AllWhole
  <2>4. \A m \in Nodes : \A i \in 1 .. 4 : i < step[m] => product'[Steps[i]].whole
    BY <1>1, <2>1, <2>2 DEF AllWhole
  <2>5. \A s \in Products : product'[s] = Nothing \/ product'[s].whole \/ s = At(0)
    BY <2>1 DEF AllWhole
  <2> QED BY <2>1, <2>3, <2>4, <2>5 DEF AllWhole
<1>6. CASE FinishProduct(n)
  <2>1. /\ n = 0 /\ pc'[0] = "prepare" /\ step[0] \in 1 .. 4 /\ At(0) \in Products /\ WriteDone(0)
        /\ product' = [product EXCEPT ![At(0)] = Wanted(At(0))]
    BY <1>1, <1>6 DEF FinishProduct, Go
  <2>2. At(0) = "tokens" => product["raw"].whole
    BY <1>1, <2>1, ProductsAre DEF At, AllWhole
  <2>3. Wanted(At(0)).whole
    BY <2>2 DEF Wanted
  <2>4. product'[At(0)].whole /\ \A s \in Products \ {At(0)} : product'[s] = product[s]
    BY <1>1, <2>1, <2>3
  <2> QED BY <1>1, <2>1, <2>4, WorkStep
<1>7. CASE FailWork(n)
  BY <1>7 DEF FailWork
<1> QED BY <1>2, <1>3, <1>4, <1>5, <1>6, <1>7 DEF PrepStep

LEMMA NodeProduct ==
  ASSUME LaunchTypes, PlaceInv, ProductInv, NEW n \in Nodes, NodeStep(n)
  PROVE  ProductInv'
<1>1. CASE PrepStep(n)
  <2>1. \A k \in done' : k[1] \in Products
    <3>1. done' = done \/ ((pc[n] \in {"working", "writing"}) /\ done' = done \union {Key(At(n))})
      BY <1>1 DEF PrepStep, RankUnknown, ReuseMarker, BeginWork, KeepProduct, StartProduct, FinishProduct,
         FailWork, SeeDone, SeeFailed, PrepareTimeout, StartTraining, WriteDone, prepVars, Go
    <3>2. pc[n] \in {"working", "writing"} => At(n) \in Products
      BY ProductsAre DEF PlaceInv, At
    <3> QED BY <3>1, <3>2, KeyIsOf DEF ProductInv
  <2>2. ~cutShort' => ~cutShort
    BY <1>1 DEF PrepStep, RankUnknown, ReuseMarker, BeginWork, KeepProduct, StartProduct, FinishProduct,
       FailWork, SeeDone, SeeFailed, PrepareTimeout, StartTraining, prepVars
  <2>3. ~cutShort' => AllWhole'
    BY <1>1, <2>2, PrepWhole DEF ProductInv, AllWhole
  <2> QED BY <2>1, <2>3 DEF ProductInv, AllWhole
<1>2. CASE ~PrepStep(n)
  <2>1. UNCHANGED prepVars
    BY <1>2 DEF NodeStep, Boot
  <2>2. pc[0] = "writing" => pc'[0] = "writing"
    <3>1. CASE n = 0
      BY <1>2, <3>1, OnlyPrepWrites
    <3>2. CASE n # 0
      BY <3>2, NodeMoves, NodesAssumption DEF NodeMove, LaunchTypes
    <3> QED BY <3>1, <3>2
  <2> QED BY <2>1, <2>2 DEF ProductInv, prepVars, At
<1> QED BY <1>1, <1>2

LEMMA ProductInvStep ==
  ASSUME LaunchTypes, PlaceInv, ProductInv, [LaunchStep]_launchVars
  PROVE  ProductInv'
<1>1. ASSUME NEW how \in Profiles, NewLaunch(how) PROVE ProductInv'
  <2>1. /\ UNCHANGED <<done, product, cutShort>> /\ pc[0] # "writing"
        /\ \A n \in Nodes : step'[n] = 1
    BY <1>1, NodesAssumption DEF NewLaunch, AllEnded, Ended
  <2> QED BY <2>1 DEF ProductInv
<1>2. CASE OnlyEnds
  <2>1. UNCHANGED <<step, done, product>> /\ (~cutShort' => ~cutShort /\ (pc[0] = "writing" => pc'[0] = "writing"))
    BY <1>2 DEF OnlyEnds
  <2> QED BY <2>1 DEF ProductInv, At
<1>3. CASE Tick
  BY <1>3 DEF Tick, prepVars, ProductInv, At
<1>4. CASE UNCHANGED launchVars
  BY <1>4 DEF launchVars, nodeVars, prepVars, ProductInv, At
<1> QED BY <1>1, <1>2, <1>3, <1>4, NodeProduct, CrashOnlyEnds, GiveUpOnlyEnds, TrainOnlyEnds DEF LaunchStep

-----------------------------------------------------------------------------
(* All of it.                                                              *)

LEMMA LaunchInvInit == Init => LaunchInv
  BY LaunchTypesInit, DirInvInit, OwnInvInit, PlaceInvInit, ProductInvInit DEF Init, LaunchInv

LEMMA LaunchInvStep == LaunchInv /\ [Next]_vars => LaunchInv'
<1> SUFFICES ASSUME LaunchInv, [Next]_vars PROVE LaunchInv'
  OBVIOUS
<1>1. [LaunchStep]_launchVars
  BY DEF Next, vars
<1> QED
  BY <1>1, LaunchTypesStep, DirInvStep, OwnInvStep, PlaceInvStep, ProductInvStep DEF LaunchInv

(* In every state of every job, the invariants above hold.                 *)
THEOREM LaunchInvHolds == Spec => []LaunchInv
<1>1. Init => LaunchInv
  BY LaunchInvInit
<1>2. LaunchInv /\ [Next]_vars => LaunchInv'
  BY LaunchInvStep
<1> QED BY <1>1, <1>2, PTL DEF Spec

(* A node never starts to train on a dataset or a checkpoint that is only  *)
(* half made, whatever earlier launches left in the cache, unless the work *)
(* of node 0 was once killed or failed while it wrote there.               *)
THEOREM StartsOnWholeProducts == Spec => []TrainsOnWholeProducts
<1>1. LaunchInv => TrainsOnWholeProducts
  <2> SUFFICES ASSUME LaunchInv, NEW n \in Nodes, pc[n] = "train"
               PROVE  /\ launch.how.backend = "sft" /\ ~cutShort =>
                           product["tokens"].whole /\ product["checkpoint"].whole
                      /\ launch.how.backend = "prime_rl" => launch.how.data \in cached
    BY DEF TrainsOnWholeProducts
  <2>1. launch.how.backend = "prime_rl" => launch.how.data \in cached
    BY DEF LaunchInv, PlaceInv
  <2>2. ASSUME launch.how.backend = "sft", ~cutShort
        PROVE  product["tokens"].whole /\ product["checkpoint"].whole
    <3>1. step[n] = 5 /\ \A i \in 1 .. 4 : i < step[n] => product[Steps[i]].whole
      BY <2>2 DEF LaunchInv, PlaceInv, ProductInv
    <3>2. product[Steps[3]].whole /\ product[Steps[4]].whole
      BY <3>1
    <3> QED BY <3>2, ProductsAre
  <2> QED BY <2>1, <2>2
<1> QED BY <1>1, LaunchInvHolds, PTL

(* Files of earlier launches do not mislead a launch: nodes that know their *)
(* ranks agree on one run directory, and where the launch has an id of its *)
(* own no follower goes on before its coordinator has fetched and installed. *)
THEOREM NothingMisleadsALaunch == Spec => []LaunchIsItsOwn
<1>1. LaunchInv => LaunchIsItsOwn
  <2> SUFFICES ASSUME LaunchInv PROVE LaunchIsItsOwn
    OBVIOUS
  <2>1. OneRunDirectory
    BY DEF LaunchInv, DirInv, OneRunDirectory
  <2>2. ASSUME NEW n \in Nodes, launch.no > 0, ~launch.how.shared, ~Coordinator(n)
        PROVE  /\ pc[n] = "deps" => pc[0] \notin {"off", "rundir", "repos", "fetching"}
               /\ pc[n] = "engine" => pc[0] \notin {"off", "rundir", "repos", "fetching", "reexec", "deps", "installing"}
    <3>1. n # 0 /\ Followed
      BY <2>2 DEF Coordinator, Followed
    <3> QED BY <3>1 DEF LaunchInv, OwnInv, BeforeRepos, BeforeDeps
  <2> QED BY <2>1, <2>2 DEF LaunchIsItsOwn
<1> QED BY <1>1, LaunchInvHolds, PTL

-----------------------------------------------------------------------------
(* A launch without failures.                                              *)

Trees == {"absent", "cloned", "partial", "complete"}
TurnTypes ==
  /\ faults \in Nat
  /\ launch.no > 0 => launch.how \in Profiles
  /\ tree \in [Repos -> Trees]
  /\ todo \in [Nodes -> Seq(Repos)]
  /\ git \in [Nodes -> {"idle", "cloning", "checkout"}]
  /\ DOMAIN overlay = Ids
  /\ \A n \in Nodes : began[n] <= now

(* Training ends on all nodes at once; git works where a node fetches; and  *)
(* the packages of an id that is announced as ready are there.               *)
RestInv ==
  /\ (\E n \in Nodes : pc[n] = "done") => \A n \in Nodes : pc[n] = "done"
  /\ \A n \in Nodes : git[n] # "idle" => pc[n] = "fetching" /\ todo[n] # <<>>
  /\ \A i \in Ids : depsState[i] = "ready" => overlay[i] = "complete"

(* Without a failure no file tells of one, but for launches whose nodes     *)
(* coordinate with nobody.                                                   *)
SharedCoordinate == \A how \in Profiles : how.shared => Coordinated(how)
InCoordination == launch.no > 0 /\ Coordinated(launch.how)
RefusalInv ==
  /\ \A i \in Ids : i > launch.no => fetchState[i].status # "failed"
  /\ faults = 0 =>
       /\ failed = {} /\ sftError = {}
       /\ \A i \in Ids : depsState[i] # "failed"
       /\ InCoordination /\ ~launch.how.shared => fetchState[launch.no].status # "failed"
       /\ SharedCoordinate => fetchState[0].status # "failed"

(* Only node 0 fetches, and what it need not fetch any more is there.       *)
There(r) == tree[r] \notin {"absent", "cloned"}
FetchInv ==
  InCoordination =>
    /\ \A n \in Nodes \ {0} : pc[n] \notin {"fetching", "installing"}
    /\ git[0] = "cloning" => tree[Current(0)] = "absent"
    /\ pc[0] = "fetching" =>
         \A i \in DOMAIN Needed : There(Needed[i]) \/ \E j \in DOMAIN todo[0] : todo[0][j] = Needed[i]
    /\ \A n \in Nodes : pc[n] = "reexec" => ValidPaths

(* Node 0 has named the directory when it is past the place where it does.  *)
OwnName == <<launch.no, 0>>
NamedInv ==
  launch.no > 0 /\ launch.how.ranked =>
    /\ dirMarker[0].name = OwnName => dirOf[0] = OwnName
    /\ launch.how.naming # "argv" /\ dirOf[0] = OwnName => dirMarker[0].name = OwnName
    /\ Coordinated(launch.how) /\ launch.how.naming = "wrapper" /\ pc[0] \notin {"off", "rundir"} \union Ended =>
         dirOf[0] = OwnName
    /\ launch.how.backend = "sft" /\ pc[0] \in {"prepare", "working", "writing", "train"} => dirOf[0] = OwnName

TurnInv == TurnTypes /\ RestInv /\ RefusalInv /\ FetchInv /\ NamedInv /\ NobodyIsTurnedAway

LEMMA TurnInvInit == LaunchInit => TurnInv
<1> SUFFICES ASSUME LaunchInit PROVE TurnInv
  OBVIOUS
<1>1. TurnTypes
  <2>1. /\ todo = [n \in Nodes |-> <<>>] /\ git = [n \in Nodes |-> "idle"] /\ tree = [r \in Repos |-> "absent"]
        /\ DOMAIN overlay = Ids /\ launch.no = 0 /\ faults = 0 /\ now = 0 /\ began = [n \in Nodes |-> 0]
    BY DEF LaunchInit, RepoInit, DepsInit, Ids
  <2>2. <<>> \in Seq(Repos)
    OBVIOUS
  <2> QED BY <2>1, <2>2 DEF TurnTypes, Trees
<1>2. launch.no = 0 /\ \A n \in Nodes : pc[n] = "done" /\ git[n] = "idle"
  BY DEF LaunchInit, RepoInit
<1>3. \A i \in Ids : depsState[i] = None /\ fetchState[i].status = None
  BY DEF LaunchInit, RepoInit, DepsInit, Ids
<1>4. failed = {} /\ sftError = {}
  BY DEF LaunchInit, PrepInit, SftInit
<1>5. RefusalInv
  BY <1>2, <1>3, <1>4, NoneAssumption, BoundsAssumption DEF RefusalInv, InCoordination, Ids
<1> QED BY <1>1, <1>2, <1>3, <1>5, NoneAssumption DEF TurnInv, RestInv, FetchInv, NamedInv, NobodyIsTurnedAway, InCoordination,
        WellNamed

(* What the steps of a node leave alone.                                    *)
LEMMA NeededAre ==
  /\ Needed \in Seq(Repos) /\ \A i \in DOMAIN Needed : Needed[i] \in Repos
  /\ ValidPaths <=> \A i \in DOMAIN Needed : There(Needed[i])
<1>1. <<"submissions">> \in Seq(Repos) /\ <<"submissions", "prime_rl">> \in Seq(Repos)
      /\ <<"submissions", "training", "prime_rl">> \in Seq(Repos)
  BY DEF Repos
<1>2. Needed \in Seq(Repos)
  BY <1>1 DEF Needed
<1> QED BY <1>2 DEF ValidPaths, There

(* An id is one of the ids, and of no other launch unless it is shared.     *)
LEMMA IdsAre ==
  ASSUME LaunchTypes
  PROVE  /\ CoordinationId \in Ids /\ 0 \in Ids /\ launch.no \in Ids /\ launch.no \in Nat
         /\ launch.how.shared => CoordinationId = 0
         /\ ~launch.how.shared => CoordinationId = launch.no
  BY BoundsAssumption DEF CoordinationId, Ids, LaunchTypes

(* The steps of a node that are no fetching.                                *)
LEMMA OtherSteps ==
  ASSUME LaunchTypes, NEW n \in Nodes, NodeStep(n)
  PROVE  (ReposStep(n) /\ UNCHANGED <<dirVars, depsVars, prepVars, sftVars>>) \/ UNCHANGED repoVars
  BY DEF NodeStep, Boot, diskVars

LEMMA ReposTypes ==
  ASSUME LaunchTypes, TurnTypes, RestInv, NEW n \in Nodes, ReposStep(n)
  PROVE  /\ tree' \in [Repos -> Trees] /\ todo' \in [Nodes -> Seq(Repos)]
         /\ git' \in [Nodes -> {"idle", "cloning", "checkout"}]
         /\ \A r \in Repos : There(r) => There(r)'
         /\ \A m \in Nodes \ {n} : git'[m] = git[m] /\ todo'[m] = todo[m]
         /\ git'[n] # "idle" => pc'[n] = "fetching" /\ todo'[n] # <<>>
<1> USE DEF TurnTypes, There, Trees, Current, Fetching
<1>a. todo[n] \in Seq(Repos) /\ Needed \in Seq(Repos) /\ <<>> \in Seq(Repos)
  BY NeededAre
<1>b. todo[n] # <<>> => Head(todo[n]) \in Repos /\ Tail(todo[n]) \in Seq(Repos)
  BY <1>a, HeadTailProperties
<1>c. git[n] # "idle" => pc[n] = "fetching" /\ todo[n] # <<>>
  BY DEF RestInv
<1>d. pc \in [Nodes -> Places]
  BY DEF LaunchTypes
<1>1. CASE BeginFetch(n)
  BY <1>1, <1>a, <1>c, <1>d DEF BeginFetch, Go
<1>2. CASE StartClone(n) \/ FinishClone(n)
  BY <1>2, <1>b, <1>d DEF StartClone, FinishClone, nodeVars
<1>3. CASE CloneIsLate(n) \/ RemoveStaleLock(n) \/ FailFetch(n)
  BY <1>3, <1>a, <1>d DEF CloneIsLate, RemoveStaleLock, FailFetch, nodeVars
<1>4. CASE StartCheckout(n)
  BY <1>4, <1>b, <1>d DEF StartCheckout, nodeVars
<1>5. CASE FinishCheckout(n)
  BY <1>5, <1>b, <1>d DEF FinishCheckout, nodeVars
<1>6. CASE FinishFetch(n)
  BY <1>6, <1>c DEF FinishFetch
<1>7. CASE FollowRepos(n) \/ SeeFailedFetch(n) \/ FetchTimeout(n) \/ Reexec(n)
  BY <1>7, <1>c DEF FollowRepos, SeeFailedFetch, FetchTimeout, Reexec, Waits, repoVars
<1> QED BY <1>1, <1>2, <1>3, <1>4, <1>5, <1>6, <1>7 DEF ReposStep

(* Every step of a node leaves the repositories like this.                  *)
LEMMA NodeRepos ==
  ASSUME LaunchTypes, TurnTypes, RestInv, NEW n \in Nodes, NodeStep(n)
  PROVE  /\ tree' \in [Repos -> Trees] /\ todo' \in [Nodes -> Seq(Repos)]
         /\ git' \in [Nodes -> {"idle", "cloning", "checkout"}]
         /\ \A r \in Repos : There(r) => There(r)'
         /\ \A m \in Nodes : git'[m] # "idle" => pc'[m] = "fetching" /\ todo'[m] # <<>>
<1>1. \A m \in Nodes \ {n} : pc'[m] = pc[m]
  BY NodeMoves DEF NodeMove, LaunchTypes
<1>2. CASE ReposStep(n)
  BY <1>1, <1>2, ReposTypes DEF RestInv
<1>3. CASE ~ReposStep(n)
  <2>1. UNCHANGED repoVars
    BY <1>3, OtherSteps
  <2>2. pc[n] # "fetching"
    BY <1>3 DEF NodeStep, Boot, RunDirStep, WrapperRunDir, EngineRunDir, RunDirTimeout, Go, DepsStep, BeginInstall,
       UnpackFirst, FinishInstall, FailInstall, FollowDeps, SeeFailedDeps, DepsTimeout, Follower, PrepStep,
       RankUnknown, ReuseMarker, BeginWork, KeepProduct, StartProduct, FinishProduct, FailWork, SeeDone, SeeFailed,
       PrepareTimeout, StartTraining, Preparing, Leads, Polls, SftStep, SftCached, SftBegin, SftBuilt,
       SftAnnounce, SftFail, SftSeeError, SftFollow, SftTimeout, Stands
  <2> QED BY <1>1, <2>1, <2>2 DEF RestInv, TurnTypes, repoVars, There
<1> QED BY <1>2, <1>3

(* A failure is counted.                                                    *)
LEMMA NodeFaults ==
  ASSUME TurnTypes, NEW n \in Nodes, NodeStep(n)
  PROVE  /\ faults' \in Nat
         /\ faults' = 0 => faults = 0 /\ ~FailFetch(n) /\ ~FailInstall(n) /\ ~FailWork(n) /\ ~SftFail(n)
<1>1. faults' = faults \/ Fault
  BY DEF NodeStep, Boot, RunDirStep, WrapperRunDir, EngineRunDir, RunDirTimeout, ReposStep, BeginFetch, StartClone,
     FinishClone, CloneIsLate, RemoveStaleLock, StartCheckout, FinishCheckout, FailFetch, FinishFetch, FollowRepos,
     SeeFailedFetch, FetchTimeout, Reexec, DepsStep, BeginInstall, UnpackFirst, FinishInstall, FailInstall,
     FollowDeps, SeeFailedDeps, DepsTimeout, PrepStep, RankUnknown, ReuseMarker, BeginWork, KeepProduct,
     StartProduct, FinishProduct, FailWork, SeeDone, SeeFailed, PrepareTimeout, StartTraining, SftStep, SftCached,
     SftBegin, SftBuilt, SftAnnounce, SftFail, SftSeeError, SftFollow, SftTimeout, nodeVars
<1>2. FailFetch(n) \/ FailInstall(n) \/ FailWork(n) \/ SftFail(n) => Fault
  BY DEF FailFetch, FailInstall, FailWork, SftFail
<1> QED BY <1>1, <1>2 DEF Fault, TurnTypes

LEMMA NodeTurnTypes ==
  ASSUME LaunchTypes, TurnTypes, RestInv, NEW n \in Nodes, NodeStep(n)
  PROVE  TurnTypes'
<1>1. NodeMove(n)
  BY NodeMoves
<1>2. DOMAIN overlay' = Ids
  <2>1. CASE DepsStep(n)
    BY <2>1 DEF DepsStep, BeginInstall, UnpackFirst, FinishInstall, FailInstall, FollowDeps, SeeFailedDeps,
       DepsTimeout, depsVars, TurnTypes
  <2>2. CASE ~DepsStep(n)
    BY <2>2 DEF NodeStep, Boot, diskVars, depsVars, TurnTypes
  <2> QED BY <2>1, <2>2
<1>3. \A m \in Nodes : began'[m] <= now'
  <2>1. \A m \in Nodes : began'[m] = began[m] \/ began'[m] = now
    BY <1>1 DEF NodeMove, LaunchTypes
  <2>2. now' = now /\ now \in Nat /\ \A m \in Nodes : began[m] <= now
    BY <1>1 DEF NodeMove, TurnTypes, LaunchTypes
  <2> QED BY <2>1, <2>2
<1>4. launch' = launch
  BY <1>1 DEF NodeMove
<1> QED BY <1>2, <1>3, <1>4, NodeRepos, NodeFaults DEF TurnTypes

(* The steps of the job that are no node's and no launch: nodes end, time    *)
(* passes.                                                                   *)
Quiet ==
  /\ UNCHANGED <<launch, began, dirVars, fetchState, tree, depsVars, failed, sftVars>>
  /\ now' \in {now, now + 1}
  /\ faults' \in Nat /\ (faults' = 0 => faults = 0)
  /\ todo' \in [Nodes -> Seq(Repos)] /\ git' \in [Nodes -> {"idle", "cloning", "checkout"}]
  /\ \A n \in Nodes :
       \/ pc'[n] = pc[n] /\ git'[n] = git[n] /\ todo'[n] = todo[n]
       \/ pc'[n] \in Ended /\ git'[n] = "idle"

LEMMA QuietSteps ==
  ASSUME LaunchTypes, TurnTypes, RestInv,
         (\E n \in Nodes : Crash(n)) \/ Train \/ GiveUp \/ Tick \/ UNCHANGED launchVars
  PROVE  Quiet
<1>0. <<>> \in Seq(Repos) /\ MaxFaults \in Nat
  BY BoundsAssumption
<1>1. ASSUME NEW n \in Nodes, Crash(n) PROVE Quiet
  <2>1. \A m \in Nodes :
           \/ pc'[m] = pc[m] /\ git'[m] = git[m] /\ todo'[m] = todo[m]
           \/ pc'[m] \in Ended /\ git'[m] = "idle"
    BY <1>1 DEF Crash, LaunchTypes, TurnTypes, Ended
  <2>2. todo' \in [Nodes -> Seq(Repos)] /\ git' \in [Nodes -> {"idle", "cloning", "checkout"}]
    BY <1>0, <1>1 DEF Crash, TurnTypes
  <2>3. faults' \in Nat /\ faults' # 0
    BY <1>1 DEF Crash, Fault, TurnTypes
  <2> QED BY <1>1, <2>1, <2>2, <2>3 DEF Crash, Quiet
<1>2. CASE Train
  <2>1. \A n \in Nodes : git[n] = "idle" /\ pc'[n] = "done"
    BY <1>2 DEF Train, RestInv
  <2> QED BY <1>2, <2>1 DEF Train, Quiet, TurnTypes, Ended, diskVars, repoVars, prepVars
<1>3. CASE GiveUp
  BY <1>0, <1>3 DEF GiveUp, Quiet, TurnTypes, Ended
<1>4. CASE Tick
  BY <1>4 DEF Tick, Quiet, TurnTypes, diskVars, repoVars, depsVars, dirVars, prepVars, sftVars
<1>5. CASE UNCHANGED launchVars
  BY <1>5 DEF launchVars, nodeVars, diskVars, repoVars, depsVars, dirVars, prepVars, sftVars, Quiet, TurnTypes
<1> QED BY <1>1, <1>2, <1>3, <1>4, <1>5

LEMMA TurnTypesStep ==
  ASSUME LaunchTypes, TurnTypes, RestInv, [LaunchStep]_launchVars
  PROVE  TurnTypes'
<1>1. ASSUME NEW how \in Profiles, NewLaunch(how) PROVE TurnTypes'
  <2>1. \A n \in Nodes : began'[n] <= now'
    BY <1>1, GapAssumption DEF NewLaunch, TurnTypes, LaunchTypes
  <2> QED BY <1>1, <2>1 DEF NewLaunch, TurnTypes, diskVars, repoVars, depsVars
<1>2. CASE Quiet
  BY <1>2 DEF Quiet, TurnTypes, LaunchTypes, depsVars
<1> QED BY <1>1, <1>2, QuietSteps, NodeTurnTypes DEF LaunchStep

(* Packages of an id that is announced as ready are there.                   *)
LEMMA RestInvStep ==
  ASSUME LaunchTypes, TurnTypes, RestInv, [LaunchStep]_launchVars
  PROVE  RestInv'
<1>1. ASSUME NEW how \in Profiles, NewLaunch(how) PROVE RestInv'
  <2>1. \A n \in Nodes : git[n] = "idle" /\ pc'[n] = "off"
    BY <1>1 DEF NewLaunch, AllEnded, Ended, RestInv, LaunchTypes, TurnTypes
  <2> QED BY <1>1, <2>1 DEF NewLaunch, RestInv, diskVars, repoVars, depsVars
<1>2. CASE (\E n \in Nodes : Crash(n)) \/ Train \/ GiveUp \/ Tick \/ UNCHANGED launchVars
  <2>1. Quiet
    BY <1>2, QuietSteps
  <2>2. (\E n \in Nodes : pc'[n] = "done") => \A n \in Nodes : pc'[n] = "done"
    <3>1. ASSUME NEW n \in Nodes, Crash(n) PROVE \A m \in Nodes : pc'[m] # "done"
      BY <3>1 DEF Crash, RestInv, LaunchTypes, Ended
    <3>2. CASE Train \/ GiveUp \/ Tick \/ UNCHANGED launchVars
      BY <3>2 DEF Train, GiveUp, Tick, launchVars, nodeVars, RestInv
    <3> QED BY <1>2, <3>1, <3>2
  <2> QED BY <2>1, <2>2 DEF Quiet, RestInv, depsVars
<1>3. ASSUME NEW n \in Nodes, NodeStep(n) PROVE RestInv'
  <2>1. (\E m \in Nodes : pc'[m] = "done") => \A m \in Nodes : pc'[m] = "done"
    <3>1. NodeMove(n)
      BY <1>3, NodeMoves
    <3>2. pc[n] \notin Ended /\ pc'[n] # "done"
      BY <3>1 DEF NodeMove, Succ, Leads1, Leads2, Leads3, Ended
    <3>3. \A m \in Nodes \ {n} : pc'[m] = pc[m]
      BY <3>1 DEF NodeMove, LaunchTypes
    <3> QED BY <3>2, <3>3 DEF RestInv, Ended
  <2>2. \A i \in Ids : depsState'[i] = "ready" => overlay'[i] = "complete"
    <3>1. CASE DepsStep(n)
      <4>0. CoordinationId \in Ids /\ DOMAIN depsState = Ids /\ DOMAIN overlay = Ids
        BY IdsAre DEF LaunchTypes, TurnTypes
      <4>1. CASE BeginInstall(n) \/ FailInstall(n)
        BY <4>0, <4>1 DEF BeginInstall, FailInstall, WriteDeps, RestInv
      <4>2. CASE FinishInstall(n)
        BY <4>0, <4>2 DEF FinishInstall, WriteDeps, RestInv
      <4>3. CASE UnpackFirst(n)
        BY <4>0, <4>3 DEF UnpackFirst, Overlay, RestInv
      <4>4. CASE FollowDeps(n) \/ SeeFailedDeps(n) \/ DepsTimeout(n)
        BY <4>4 DEF FollowDeps, SeeFailedDeps, DepsTimeout, depsVars, RestInv
      <4> QED BY <3>1, <4>1, <4>2, <4>3, <4>4 DEF DepsStep
    <3>2. CASE ~DepsStep(n)
      BY <1>3, <3>2 DEF NodeStep, Boot, diskVars, depsVars, RestInv
    <3> QED BY <3>1, <3>2
  <2> QED BY <1>3, <2>1, <2>2, NodeRepos DEF RestInv
<1> QED BY <1>1, <1>2, <1>3 DEF LaunchStep

(* In coordination nobody but node 0 fetches, so the checkouts are its own. *)
LEMMA OnlyZeroFetches ==
  ASSUME LaunchTypes, FetchInv, InCoordination, NEW n \in Nodes, ReposStep(n), n # 0
  PROVE  /\ UNCHANGED <<fetchState, tree, todo, git>>
         /\ pc'[n] \notin {"fetching", "installing"}
         /\ pc'[n] = "reexec" /\ pc[n] # "reexec" => ValidPaths
<1>1. ~Coordinator(n) /\ pc[n] # "fetching"
  BY DEF Coordinator, InCoordination, Coordinated, FetchInv
<1> QED
  BY <1>1 DEF ReposStep, BeginFetch, StartClone, FinishClone, CloneIsLate, RemoveStaleLock, StartCheckout,
     FinishCheckout, FailFetch, FinishFetch, FollowRepos, SeeFailedFetch, FetchTimeout, Reexec, Fetching, Waits,
     Go, repoVars, LaunchTypes

(* And what it fetches is there when it has done so.                        *)
LEMMA FetchesAll ==
  ASSUME LaunchTypes, TurnTypes, FetchInv, InCoordination, NEW n \in Nodes, ReposStep(n)
  PROVE  ~CloneIsLate(n) /\ (FinishFetch(n) => ValidPaths /\ n = 0)
<1>1. ASSUME CloneIsLate(n) PROVE FALSE
  <2>1. n = 0
    BY <1>1 DEF CloneIsLate, Fetching, FetchInv
  <2> QED BY <1>1, <2>1 DEF CloneIsLate, FetchInv
<1>2. ASSUME FinishFetch(n) PROVE ValidPaths /\ n = 0
  <2>1. n = 0 /\ pc[0] = "fetching" /\ todo[0] = <<>>
    BY <1>2 DEF FinishFetch, FetchInv
  <2>2. \A i \in DOMAIN Needed : There(Needed[i])
    BY <2>1 DEF FetchInv
  <2> QED BY <2>1, <2>2, NeededAre
<1> QED BY <1>1, <1>2

LEMMA ZeroFetches ==
  ASSUME LaunchTypes, TurnTypes, RestInv, FetchInv, InCoordination, ReposStep(0), 0 \in Nodes
  PROVE  /\ git'[0] = "cloning" => tree'[Head(todo'[0])] = "absent"
         /\ pc'[0] = "fetching" =>
              \A i \in DOMAIN Needed :
                There(Needed[i])' \/ \E j \in DOMAIN todo'[0] : todo'[0][j] = Needed[i]
         /\ pc'[0] = "reexec" /\ pc[0] # "reexec" => ValidPaths
<1>a. todo[0] \in Seq(Repos) /\ pc \in [Nodes -> Places] /\ todo \in [Nodes -> Seq(Repos)]
  BY DEF LaunchTypes, TurnTypes
<1>b. git[0] # "idle" => pc[0] = "fetching" /\ todo[0] # <<>>
  BY DEF RestInv
<1>c. git \in [Nodes -> {"idle", "cloning", "checkout"}] /\ tree \in [Repos -> Trees]
  BY DEF TurnTypes
<1>d. \A i \in DOMAIN Needed : There(Needed[i]) => There(Needed[i])'
  <2>1. Needed' = Needed
    BY ReposMoves DEF NodeMove, Needed
  <2>2. \A r \in Repos : There(r) => There(r)'
    BY ReposTypes
  <2> QED BY <2>1, <2>2, NeededAre DEF There
<1>e. pc[0] = "fetching" =>
        \A i \in DOMAIN Needed : There(Needed[i]) \/ \E j \in DOMAIN todo[0] : todo[0][j] = Needed[i]
  BY DEF FetchInv
<1>1. CASE BeginFetch(0)
  <2>1. todo'[0] = Needed /\ git'[0] = "idle" /\ pc'[0] = "fetching"
    BY <1>1, <1>a, <1>b, <1>c DEF BeginFetch, Go
  <2> QED BY <2>1
<1>2. CASE StartClone(0) \/ FinishClone(0) \/ RemoveStaleLock(0) \/ StartCheckout(0)
  <2>1. todo' = todo /\ pc' = pc /\ pc[0] = "fetching"
    BY <1>2 DEF StartClone, FinishClone, RemoveStaleLock, StartCheckout, Fetching, nodeVars
  <2>2. git'[0] = "cloning" => tree'[Head(todo'[0])] = "absent"
    BY <1>2, <1>a, <1>c, <2>1 DEF StartClone, FinishClone, RemoveStaleLock, StartCheckout, Current
  <2> QED BY <1>d, <1>e, <2>1, <2>2
<1>3. CASE FinishCheckout(0)
  <2>1. /\ todo[0] # <<>> /\ todo'[0] = Tail(todo[0]) /\ git'[0] = "idle" /\ pc' = pc /\ pc[0] = "fetching"
        /\ tree'[Head(todo[0])] = "complete"
    <3>1. Head(todo[0]) \in Repos
      BY <1>3, <1>a, HeadTailProperties DEF FinishCheckout, Fetching
    <3> QED BY <1>3, <1>a, <1>c, <3>1 DEF FinishCheckout, Fetching, Current, nodeVars
  <2>2. ASSUME NEW i \in DOMAIN Needed, NEW j \in DOMAIN todo[0], todo[0][j] = Needed[i]
        PROVE  There(Needed[i])' \/ \E k \in DOMAIN todo'[0] : todo'[0][k] = Needed[i]
    <3>1. CASE j = 1
      <4>1. Head(todo[0]) = Needed[i]
        BY <1>a, <2>1, <2>2, <3>1
      <4>2. tree'[Needed[i]] = "complete" /\ Needed' = Needed
        BY <1>3, <2>1, <4>1 DEF FinishCheckout, nodeVars, Needed
      <4> QED BY <4>2 DEF There
    <3>2. CASE j # 1
      <4>1. j - 1 \in DOMAIN todo'[0] /\ todo'[0][j - 1] = todo[0][j]
        BY <1>a, <2>1, <2>2, <3>2
      <4> QED BY <2>2, <4>1
    <3> QED BY <3>1, <3>2
  <2> QED BY <1>d, <1>e, <2>1, <2>2
<1>4. CASE FailFetch(0) \/ FinishFetch(0) \/ FollowRepos(0) \/ SeeFailedFetch(0) \/ FetchTimeout(0) \/ Reexec(0)
  <2>1. git'[0] = "idle"
    BY <1>4, <1>b, <1>c DEF FailFetch, FinishFetch, FollowRepos, SeeFailedFetch, FetchTimeout, Reexec, Waits, repoVars
  <2>2. pc'[0] # "fetching"
    BY <1>4, <1>a DEF FailFetch, FinishFetch, FollowRepos, SeeFailedFetch, FetchTimeout, Reexec, Waits, repoVars
  <2>3. pc'[0] = "reexec" /\ pc[0] # "reexec" => ValidPaths
    <3>1. FinishFetch(0) => ValidPaths
      BY FetchesAll
    <3> QED BY <1>4, <1>a, <3>1 DEF FailFetch, FollowRepos, SeeFailedFetch, FetchTimeout, Reexec, Waits
  <2> QED BY <2>1, <2>2, <2>3
<1> QED BY <1>1, <1>2, <1>3, <1>4, FetchesAll DEF ReposStep

LEMMA FetchInvStep ==
  ASSUME LaunchTypes, TurnTypes, RestInv, FetchInv, [LaunchStep]_launchVars
  PROVE  FetchInv'
<1>0. 0 \in Nodes
  BY NodesAssumption
<1>1. ASSUME NEW how \in Profiles, NewLaunch(how) PROVE FetchInv'
  <2>1. \A n \in Nodes : pc'[n] = "off" /\ git'[n] = "idle"
    BY <1>1 DEF NewLaunch, AllEnded, Ended, RestInv, TurnTypes, diskVars, repoVars
  <2> QED BY <1>0, <2>1 DEF FetchInv
<1>2. CASE Quiet
  <2>1. Needed' = Needed /\ InCoordination' = InCoordination /\ tree' = tree
    BY <1>2 DEF Quiet, Needed, InCoordination
  <2>2. \A n \in Nodes : \/ pc'[n] = pc[n] /\ git'[n] = git[n] /\ todo'[n] = todo[n]
                         \/ pc'[n] \in {"failed", "done"} /\ git'[n] = "idle"
    BY <1>2 DEF Quiet, Ended
  <2>3. ValidPaths' = ValidPaths
    BY <2>1 DEF ValidPaths
  <2> QED BY <1>0, <2>1, <2>2, <2>3 DEF FetchInv, There, Current
<1>3. ASSUME NEW n \in Nodes, NodeStep(n) PROVE FetchInv'
  <2>1. NodeMove(n)
    BY <1>3, NodeMoves
  <2>2. launch' = launch /\ \A m \in Nodes \ {n} : pc'[m] = pc[m]
    BY <2>1 DEF NodeMove, LaunchTypes
  <2>3. Needed' = Needed /\ InCoordination' = InCoordination
    BY <2>2 DEF Needed, InCoordination
  <2>4. ValidPaths => ValidPaths'
    BY <1>3, <2>3, NeededAre, NodeRepos DEF ValidPaths, There
  <2>5. SUFFICES ASSUME InCoordination PROVE FetchInv'
    BY <2>3 DEF FetchInv
  <2>6. CASE ReposStep(n)
    <3>1. CASE n = 0
      <4>1. \A m \in Nodes \ {0} : pc'[m] \notin {"fetching", "installing"}
        BY <2>2, <2>5, <3>1 DEF FetchInv
      <4>2. \A m \in Nodes : pc'[m] = "reexec" => ValidPaths'
        BY <2>2, <2>4, <2>5, <2>6, <3>1, ZeroFetches DEF FetchInv
      <4> QED BY <2>3, <2>5, <2>6, <3>1, <4>1, <4>2, ZeroFetches DEF FetchInv, Current
    <3>2. CASE n # 0
      <4>1. /\ UNCHANGED <<fetchState, tree, todo, git>> /\ pc'[n] \notin {"fetching", "installing"}
            /\ pc'[n] = "reexec" /\ pc[n] # "reexec" => ValidPaths
        BY <2>5, <2>6, <3>2, OnlyZeroFetches
      <4>2. \A m \in Nodes : pc'[m] = "reexec" => ValidPaths'
        BY <2>2, <2>4, <2>5, <4>1 DEF FetchInv
      <4> QED BY <1>0, <2>2, <2>3, <2>5, <3>2, <4>1, <4>2 DEF FetchInv, Current, There
    <3> QED BY <3>1, <3>2
  <2>7. CASE ~ReposStep(n)
    <3>1. UNCHANGED repoVars
      BY <1>3, <2>7, OtherSteps
    <3>2. pc'[n] \notin {"fetching", "reexec"} /\ (n # 0 => pc'[n] # "installing")
      <4>1. n # 0 => ~Coordinator(n) /\ pc[n] # "installing"
        BY <2>5 DEF Coordinator, InCoordination, Coordinated, FetchInv
      <4>2. CASE Boot(n) \/ RunDirStep(n) \/ SftStep(n)
        BY <4>2 DEF Boot, RunDirStep, WrapperRunDir, EngineRunDir, RunDirTimeout, Go, SftStep, SftCached, SftBegin,
           SftBuilt, SftAnnounce, SftFail, SftSeeError, SftFollow, SftTimeout, Stands, To, LaunchTypes
      <4>3. CASE DepsStep(n)
        BY <4>1, <4>3 DEF DepsStep, BeginInstall, UnpackFirst, FinishInstall, FailInstall, FollowDeps, SeeFailedDeps,
           DepsTimeout, Follower, Go, nodeVars, LaunchTypes
      <4>4. CASE PrepStep(n)
        <5>1. pc[n] \in {"prepare", "working", "writing"}
          BY <4>4 DEF PrepStep, RankUnknown, ReuseMarker, BeginWork, KeepProduct, StartProduct, FinishProduct,
             FailWork, SeeDone, SeeFailed, PrepareTimeout, StartTraining, Preparing, Leads, Polls, Go
        <5> QED BY <2>1, <5>1 DEF NodeMove, Succ, Leads1, Leads2, Leads3
      <4> QED BY <1>3, <2>7, <4>2, <4>3, <4>4 DEF NodeStep
    <3> QED BY <1>0, <2>2, <2>3, <2>4, <2>5, <3>1, <3>2 DEF FetchInv, Current, There, repoVars
  <2> QED BY <2>6, <2>7
<1> QED BY <1>1, <1>2, <1>3, QuietSteps DEF LaunchStep

(* Without a failure nobody writes of one.                                  *)
LEMMA RefusalInvStep ==
  ASSUME LaunchTypes, TurnTypes, RestInv, FetchInv, RefusalInv, [LaunchStep]_launchVars
  PROVE  RefusalInv'
<1>1. ASSUME NEW how \in Profiles, NewLaunch(how) PROVE RefusalInv'
  <2>1. /\ launch'.no = launch.no + 1 /\ launch'.no \in Ids /\ launch.no \in Nat
        /\ UNCHANGED <<fetchState, depsState, failed, sftError, faults>>
    BY <1>1, BoundsAssumption DEF NewLaunch, LaunchTypes, Ids, diskVars, repoVars, depsVars, sftVars
  <2>2. \A i \in Ids : i >= launch'.no => fetchState[i].status # "failed"
    BY <2>1 DEF RefusalInv, Ids
  <2> QED BY <2>1, <2>2 DEF RefusalInv, Ids, SharedCoordinate, Coordinated
<1>2. CASE Quiet
  BY <1>2 DEF Quiet, RefusalInv, depsVars, sftVars, InCoordination, SharedCoordinate, Coordinated
<1>3. ASSUME NEW n \in Nodes, NodeStep(n) PROVE RefusalInv'
  <2>1. launch' = launch /\ launch.no > 0
    <3>1. NodeMove(n)
      BY <1>3, NodeMoves
    <3> QED BY <3>1, UnderLaunch DEF NodeMove, Ended
  <2>2. /\ CoordinationId \in Ids /\ 0 \in Ids /\ launch.no \in Ids /\ launch.no \in Nat
        /\ launch.how.shared => CoordinationId = 0
        /\ ~launch.how.shared => CoordinationId = launch.no
    BY IdsAre
  <2>3. \A i \in Ids : fetchState'[i].status = "failed" =>
          fetchState[i].status = "failed" \/ (i = CoordinationId /\ (FailFetch(n) \/ ~InCoordination))
    <3>1. CASE ReposStep(n)
      <4>1. CASE CloneIsLate(n)
        <5>1. ~InCoordination
          BY <3>1, <4>1, FetchesAll
        <5> QED BY <2>2, <4>1, <5>1 DEF CloneIsLate, WriteFetchState, LaunchTypes
      <4>2. CASE FailFetch(n)
        BY <2>2, <4>2 DEF FailFetch, WriteFetchState, LaunchTypes
      <4>3. CASE FinishFetch(n)
        <5>1. InCoordination => ValidPaths
          BY <3>1, <4>3, FetchesAll
        <5> QED BY <2>2, <4>3, <5>1 DEF FinishFetch, WriteFetchState, LaunchTypes
      <4>4. CASE BeginFetch(n)
        BY <2>2, <4>4 DEF BeginFetch, WriteFetchState, LaunchTypes
      <4>5. CASE UNCHANGED fetchState
        BY <4>5
      <4> QED
        BY <3>1, <4>1, <4>2, <4>3, <4>4, <4>5 DEF ReposStep, StartClone, FinishClone, RemoveStaleLock, StartCheckout,
           FinishCheckout, FollowRepos, SeeFailedFetch, FetchTimeout, Reexec, repoVars
    <3>2. CASE ~ReposStep(n)
      BY <1>3, <3>2, OtherSteps DEF repoVars
    <3> QED BY <3>1, <3>2
  <2>4. \A i \in Ids : i > launch.no => fetchState'[i].status # "failed"
    BY <2>2, <2>3 DEF RefusalInv, Ids
  <2>5. ASSUME faults' = 0
        PROVE  /\ failed' = {} /\ sftError' = {}
               /\ \A i \in Ids : depsState'[i] # "failed"
               /\ InCoordination /\ ~launch.how.shared => fetchState'[launch.no].status # "failed"
               /\ SharedCoordinate => fetchState'[0].status # "failed"
    <3>1. faults = 0 /\ ~FailFetch(n) /\ ~FailInstall(n) /\ ~FailWork(n) /\ ~SftFail(n)
      BY <1>3, <2>5, NodeFaults
    <3>2. failed = {} /\ sftError = {} /\ \A i \in Ids : depsState[i] # "failed"
      BY <3>1 DEF RefusalInv
    <3>3. failed' = {}
      BY <1>3, <3>1, <3>2 DEF NodeStep, Boot, PrepStep, RankUnknown, ReuseMarker, BeginWork, KeepProduct,
         StartProduct, FinishProduct, SeeDone, SeeFailed, PrepareTimeout, StartTraining, WriteDone, prepVars
    <3>4. sftError' = {}
      BY <1>3, <3>1, <3>2 DEF NodeStep, Boot, SftStep, SftCached, SftBegin, SftBuilt, SftAnnounce, SftSeeError,
         SftFollow, SftTimeout, sftVars
    <3>5. \A i \in Ids : depsState'[i] # "failed"
      <4>1. CASE DepsStep(n)
        BY <3>1, <3>2, <4>1, <2>2 DEF DepsStep, BeginInstall, UnpackFirst, FinishInstall, FollowDeps, SeeFailedDeps,
           DepsTimeout, WriteDeps, depsVars, LaunchTypes
      <4>2. CASE ~DepsStep(n)
        BY <1>3, <3>2, <4>2 DEF NodeStep, Boot, diskVars, depsVars
      <4> QED BY <4>1, <4>2
    <3>6. InCoordination /\ ~launch.how.shared => fetchState'[launch.no].status # "failed"
      BY <2>2, <2>3, <3>1 DEF RefusalInv
    <3>7. SharedCoordinate => fetchState'[0].status # "failed"
      <4>1. launch.how \in Profiles
        BY <2>1 DEF TurnTypes
      <4> QED BY <2>1, <2>2, <2>3, <3>1, <4>1 DEF RefusalInv, SharedCoordinate, InCoordination
    <3> QED BY <3>3, <3>4, <3>5, <3>6, <3>7
  <2> QED BY <2>1, <2>4, <2>5 DEF RefusalInv, InCoordination, SharedCoordinate, Coordinated
<1> QED BY <1>1, <1>2, <1>3, QuietSteps DEF LaunchStep

(* Who chooses a directory, and where.                                      *)
LEMMA DirSteps ==
  ASSUME LaunchTypes, NEW n \in Nodes, NodeStep(n)
  PROVE  \/ UNCHANGED dirVars
         \/ ChooseDir(n) /\ pc[n] \notin {"off"} \union Ended /\ WantsDir(n) /\ began' = began
<1>1. CASE RunDirStep(n)
  BY <1>1 DEF RunDirStep, WrapperRunDir, EngineRunDir, RunDirTimeout, Go, Ended
<1>2. CASE SftStep(n)
  BY <1>2 DEF SftStep, SftCached, SftBegin, SftBuilt, SftAnnounce, SftFail, SftSeeError, SftFollow,
              SftTimeout, Stands
<1> QED BY <1>1, <1>2 DEF NodeStep, Boot

(* Node 0 passes the places where it names the directory with a name only.  *)
Prepared == {"prepare", "working", "writing", "train"}
LEMMA ZeroPasses ==
  ASSUME LaunchTypes, PlaceInv, NodeStep(0), 0 \in Nodes, launch.how.backend # "operator",
         \/ launch.how.naming = "wrapper" /\ pc[0] \in {"off", "rundir"} /\ pc'[0] \notin {"off", "rundir"} \union Ended
         \/ launch.how.backend = "sft" /\ pc[0] \notin Prepared /\ pc'[0] \in Prepared
  PROVE  ChooseDir(0) \/ dirOf[0] # None
<1>0. pc \in [Nodes -> Places]
  BY DEF LaunchTypes
<1>1. CASE ReposStep(0) \/ DepsStep(0)
  <2>1. pc'[0] \in {"repos", "fetching", "reexec", "deps", "installing", "engine", "failed"}
    BY <1>1, ReposPlaces, DepsPlaces
  <2>2. pc[0] \notin {"off", "rundir"}
    BY <1>1 DEF ReposStep, BeginFetch, StartClone, FinishClone, CloneIsLate, RemoveStaleLock, StartCheckout,
       FinishCheckout, FailFetch, FinishFetch, FollowRepos, SeeFailedFetch, FetchTimeout, Reexec, Fetching, Waits,
       Go, DepsStep, BeginInstall, UnpackFirst, FinishInstall, FailInstall, FollowDeps, SeeFailedDeps, DepsTimeout,
       Follower
  <2> QED BY <2>1, <2>2 DEF Prepared
<1>2. CASE Boot(0)
  BY <1>0, <1>2 DEF Boot, Go, Prepared
<1>3. CASE RunDirStep(0)
  <2>1. ~WantsDir(0) => dirOf[0] # None
    BY DEF WantsDir
  <2> QED BY <1>0, <1>3, <2>1 DEF RunDirStep, WrapperRunDir, EngineRunDir, RunDirTimeout, Go, Prepared
<1>4. CASE PrepStep(0)
  BY <1>4 DEF PrepStep, RankUnknown, ReuseMarker, BeginWork, KeepProduct, StartProduct, FinishProduct, FailWork,
     SeeDone, SeeFailed, PrepareTimeout, StartTraining, Preparing, Leads, Polls, Go, Prepared
<1>5. CASE SftStep(0)
  <2>1. pc[0] \in {"engine", "building", "announcing", "awaiting"}
    BY <1>5 DEF SftStep, SftCached, SftBegin, SftBuilt, SftAnnounce, SftFail, SftSeeError, SftFollow, SftTimeout, Stands
  <2>2. pc[0] = "engine" => launch.how.backend = "prime_rl"
    BY <1>5 DEF SftStep, SftCached, SftBegin, SftBuilt, SftAnnounce, SftFail, SftSeeError, SftFollow, SftTimeout, Stands
  <2>3. launch.how.backend = "prime_rl"
    BY <2>1, <2>2 DEF PlaceInv
  <2> QED BY <2>1, <2>3
<1> QED BY <1>1, <1>2, <1>3, <1>4, <1>5 DEF NodeStep

LEMMA NamedInvStep ==
  ASSUME LaunchTypes, DirInv, PlaceInv, NamedInv, [LaunchStep]_launchVars, TurnTypes, RestInv
  PROVE  NamedInv'
<1>0. 0 \in Nodes /\ None # OwnName /\ OwnName = <<launch.no, 0>> /\ launch.no \in Nat
  BY NodesAssumption, NoneAssumption DEF OwnName, LaunchTypes
<1>1. ASSUME NEW how \in Profiles, NewLaunch(how) PROVE NamedInv'
  <2>1. /\ dirMarker' = dirMarker /\ dirOf'[0] = None /\ pc'[0] = "off" /\ launch'.no = launch.no + 1
    BY <1>0, <1>1 DEF NewLaunch
  <2>2. dirMarker[0].name # <<launch'.no, 0>> /\ None # <<launch'.no, 0>>
    <3>1. None # <<launch'.no, 0>>
      BY <1>0, <2>1, NoneAssumption
    <3>2. CASE dirMarker[0].name # None
      <4>1. PICK l \in 1 .. launch.no : dirMarker[0].name = <<l, 0>>
        BY <3>2 DEF DirInv, MarkerInv
      <4> QED BY <1>0, <2>1, <3>1, <4>1
    <3> QED BY <3>1, <3>2
  <2> QED BY <2>1, <2>2 DEF NamedInv, OwnName, Ended
<1>2. CASE Quiet
  <2>1. launch' = launch /\ UNCHANGED <<dirMarker, dirOf>> /\ (pc'[0] = pc[0] \/ pc'[0] \in Ended)
    BY <1>0, <1>2 DEF Quiet, dirVars
  <2> QED BY <2>1 DEF NamedInv, OwnName, Ended
<1>3. ASSUME NEW n \in Nodes, NodeStep(n) PROVE NamedInv'
  <2>1. launch' = launch /\ launch.no > 0 /\ launch.how \in ProfileType /\ \A m \in Nodes \ {n} : pc'[m] = pc[m]
    <3>1. NodeMove(n)
      BY <1>3, NodeMoves
    <3> QED BY <3>1, UnderLaunch DEF NodeMove, Ended, LaunchTypes
  <2>2. SUFFICES ASSUME launch.how.ranked PROVE NamedInv'
    BY <2>1 DEF NamedInv
  <2>3. OwnName' = OwnName /\ dirOf[0] \in {None, OwnName}
    BY <1>0, <2>1, <2>2 DEF OwnName, DirInv
  <2>4. ChooseDir(0) => dirOf'[0] = OwnName /\ dirMarker'[0].name = OwnName
    BY <1>0, <2>2 DEF ChooseDir, NamesAlone, NamesForAll, TakesTheMarker, MarkerKey, OwnName, LaunchTypes
  <2>5. CASE ChooseDir(n) /\ n = 0
    BY <2>3, <2>4, <2>5, <2>1 DEF NamedInv
  <2>6. CASE ChooseDir(n) /\ n # 0
    <3>1. dirMarker' = dirMarker /\ dirOf'[0] = dirOf[0] /\ pc'[0] = pc[0]
      BY <1>0, <2>1, <2>2, <2>6 DEF ChooseDir, NamesAlone, NamesForAll, TakesTheMarker, LaunchTypes
    <3> QED BY <2>1, <2>2, <2>3, <3>1 DEF NamedInv, Coordinated
  <2>7. CASE UNCHANGED dirVars
    <3>1. dirMarker' = dirMarker /\ dirOf' = dirOf
      BY <2>7 DEF dirVars
    <3>2. CASE n # 0
      <4>1. pc'[0] = pc[0]
        BY <1>0, <2>1, <3>2
      <4> QED BY <2>1, <2>2, <2>3, <3>1, <4>1 DEF NamedInv, Coordinated
    <3>3. CASE n = 0
      <4>1. dirOf[0] = OwnName \/ (~ChooseDir(0) /\ dirOf[0] = None)
        BY <2>3, <2>4, <3>1
      <4>2. ASSUME Coordinated(launch.how), launch.how.naming = "wrapper", pc'[0] \notin {"off", "rundir"} \union Ended
            PROVE  dirOf[0] = OwnName
        <5>1. CASE pc[0] \in {"off", "rundir"}
          BY <1>0, <1>3, <3>3, <4>1, <4>2, <5>1, ZeroPasses DEF Coordinated
        <5>2. pc[0] \notin Ended
          BY <1>3, <3>3, NodeMoves DEF NodeMove
        <5> QED BY <2>1, <2>2, <4>2, <5>1, <5>2 DEF NamedInv
      <4>3. ASSUME launch.how.backend = "sft", pc'[0] \in Prepared
            PROVE  dirOf[0] = OwnName
        <5>1. CASE pc[0] \notin Prepared
          BY <1>0, <1>3, <3>3, <4>1, <4>3, <5>1, ZeroPasses
        <5> QED BY <2>1, <2>2, <4>3, <5>1 DEF NamedInv, Prepared
      <4> QED BY <2>1, <2>2, <2>3, <3>1, <4>2, <4>3 DEF NamedInv, Coordinated, Prepared
    <3> QED BY <3>2, <3>3
  <2> QED BY <1>3, <2>5, <2>6, <2>7, DirSteps
<1> QED BY <1>1, <1>2, <1>3, QuietSteps DEF LaunchStep

(* Who came up too late stays too late.                                     *)
LEMMA LateStays ==
  ASSUME LaunchTypes, DirInv, TurnTypes, RestInv, NamedInv, WellNamed, StartedTooLate,
         Quiet \/ \E n \in Nodes : NodeStep(n)
  PROVE  StartedTooLate'
<1>0. 0 \in Nodes /\ None # OwnName /\ launch.no > 0 /\ launch.how.ranked /\ launch.how.naming # "argv"
  BY NodesAssumption, NoneAssumption DEF OwnName, LaunchTypes, WellNamed, Coordinated
<1>1. PICK n \in Nodes : dirOf[n] = None /\ dirMarker[0].name = OwnName /\ ~Fresh(n, dirMarker[0])
  BY DEF StartedTooLate, OwnName
<1>2. dirOf[0] = OwnName /\ n # 0
  BY <1>0, <1>1 DEF NamedInv
<1>3. /\ dirMarker[0].at \in Nat /\ Slack \in Nat /\ began[n] \in Nat /\ now \in Nat /\ began[n] <= now
      /\ dirMarker[0].at < began[n] - Slack
  <2>1. dirMarker[0].at \in Nat
    BY <1>0, <1>1 DEF DirInv, MarkerInv
  <2>2. Slack \in Nat /\ began[n] \in Nat /\ now \in Nat /\ began[n] <= now
    BY SlackAssumption DEF LaunchTypes, TurnTypes
  <2> QED BY <1>0, <1>1, <2>1, <2>2 DEF Fresh
<1>4. launch' = launch /\ began'[n] \in {began[n], now}
  <2>1. CASE Quiet
    BY <2>1 DEF Quiet
  <2>2. ASSUME NEW m \in Nodes, NodeStep(m) PROVE launch' = launch /\ began'[n] \in {began[n], now}
    BY <2>2, NodeMoves DEF NodeMove, LaunchTypes
  <2> QED BY <2>1, <2>2
<1>5. dirMarker' = dirMarker /\ dirOf'[n] = dirOf[n]
  <2>1. CASE Quiet
    BY <2>1 DEF Quiet, dirVars
  <2>2. ASSUME NEW m \in Nodes, NodeStep(m) PROVE dirMarker' = dirMarker /\ dirOf'[n] = dirOf[n]
    <3>1. CASE UNCHANGED dirVars
      BY <3>1 DEF dirVars
    <3>2. CASE ChooseDir(m) /\ WantsDir(m)
      <4>1. m # 0
        BY <1>0, <1>2, <3>2 DEF WantsDir
      <4>2. TakesTheMarker(m) /\ MarkerKey(m) = 0 /\ Fresh(m, dirMarker[0])
        BY <1>0, <3>2, <4>1 DEF ChooseDir, NamesAlone, NamesForAll, TakesTheMarker, MarkerKey
      <4>3. m # n
        BY <1>1, <4>2
      <4> QED BY <4>2, <4>3 DEF TakesTheMarker, LaunchTypes
    <3> QED BY <2>2, <3>1, <3>2, DirSteps
  <2> QED BY <2>1, <2>2
<1>6. ~Fresh(n, dirMarker[0])'
  BY <1>3, <1>4, <1>5 DEF Fresh
<1> QED BY <1>1, <1>4, <1>5, <1>6 DEF StartedTooLate, OwnName

(* What a launch without failures knows at every step.                      *)
AllSaid ==
  /\ LaunchTypes /\ DirInv /\ PlaceInv
  /\ TurnTypes /\ RestInv /\ RefusalInv /\ FetchInv /\ NamedInv

(* No follower waits in vain for node 0: it has not failed, and it is done   *)
(* with all the others only.                                                 *)
LEMMA ZeroIsThere ==
  ASSUME LaunchTypes, RestInv, NEW n \in Nodes, pc[n] \notin Ended, pc[0] # "failed"
  PROVE  pc[0] \in Places \ Ended
  BY NodesAssumption DEF RestInv, Ended, LaunchTypes

LEMMA DirTurnsNobodyAway ==
  ASSUME AllSaid, WellNamed, ~StartedTooLate, NEW n \in Nodes, RunDirTimeout(n), pc[0] # "failed"
  PROVE  FALSE
<1>1. /\ launch.no > 0 /\ launch.how.ranked /\ launch.how.backend # "operator" /\ launch.how.naming # "argv"
      /\ Coordinated(launch.how)
  BY DEF WellNamed, Coordinated
<1>2. /\ pc[n] \in {"rundir", "engine"} /\ dirOf[n] = None /\ ~Fresh(n, dirMarker[0])
      /\ IF pc[n] = "rundir" THEN launch.how.naming = "wrapper" ELSE launch.how.backend = "sft"
      /\ pc[0] \notin {"off", "rundir", "repos", "fetching", "reexec", "deps", "installing", "engine"}
  BY <1>1 DEF RunDirTimeout, WantsDir, MarkerKey, CoordinatorIsPast
<1>3. pc[0] \in Places \ Ended
  BY <1>2, ZeroIsThere DEF AllSaid, Ended
<1>4. dirOf[0] = OwnName
  <2>1. CASE pc[n] = "rundir"
    BY <1>1, <1>2, <1>3, <2>1 DEF AllSaid, NamedInv
  <2>2. CASE pc[n] = "engine"
    <3>1. pc[0] \in {"prepare", "working", "writing", "train"}
      BY <1>2, <1>3, <2>2, NodesAssumption DEF AllSaid, PlaceInv, Places
    <3> QED BY <1>1, <1>2, <2>2, <3>1 DEF AllSaid, NamedInv
  <2> QED BY <1>2, <2>1, <2>2
<1>5. dirMarker[0].name = OwnName
  BY <1>1, <1>4 DEF AllSaid, NamedInv
<1> QED BY <1>2, <1>5 DEF StartedTooLate, OwnName

LEMMA ReposTurnNobodyAway ==
  ASSUME AllSaid, WellNamed, NEW n \in Nodes, ReposStep(n), ~FailFetch(n), faults = 0, pc[0] # "failed"
  PROVE  pc'[n] # "failed"
<1>1. InCoordination /\ launch.no > 0 /\ pc \in [Nodes -> Places]
  BY DEF WellNamed, InCoordination, AllSaid, LaunchTypes
<1>2. pc[n] \notin Ended /\ pc[0] \in Places \ Ended
  BY ReposMoves, ZeroIsThere DEF AllSaid, NodeMove
<1>3. fetchState[CoordinationId].status # "failed"
  BY <1>1, IdsAre DEF AllSaid, RefusalInv, WellNamed, SharedCoordinate
<1>4. ~CloneIsLate(n) /\ (FinishFetch(n) => ValidPaths) /\ (pc[n] = "reexec" => ValidPaths)
  BY <1>1, FetchesAll DEF AllSaid, FetchInv
<1>5. ~SeeFailedFetch(n) /\ ~FetchTimeout(n)
  BY <1>2, <1>3 DEF SeeFailedFetch, FetchTimeout, CoordinatorIsPast
<1>6. CASE BeginFetch(n) \/ StartClone(n) \/ FinishClone(n) \/ RemoveStaleLock(n) \/ StartCheckout(n) \/ FinishCheckout(n)
  BY <1>1, <1>2, <1>6 DEF BeginFetch, StartClone, FinishClone, RemoveStaleLock, StartCheckout, FinishCheckout,
     nodeVars, Go, Ended
<1>7. CASE FinishFetch(n) \/ FollowRepos(n) \/ Reexec(n)
  BY <1>1, <1>4, <1>7 DEF FinishFetch, FollowRepos, Reexec
<1> QED BY <1>4, <1>5, <1>6, <1>7 DEF ReposStep

LEMMA DepsTurnNobodyAway ==
  ASSUME AllSaid, NEW n \in Nodes, DepsStep(n), ~FailInstall(n), faults = 0, pc[0] # "failed"
  PROVE  pc'[n] # "failed"
<1>1. pc \in [Nodes -> Places]
  BY DEF AllSaid, LaunchTypes
<1>2. pc[n] \notin Ended /\ pc[0] \in Places \ Ended
  BY DepsMoves, ZeroIsThere DEF AllSaid, NodeMove
<1>3. depsState[CoordinationId] # "failed" /\ (depsState[CoordinationId] = "ready" => Overlay = "complete")
  BY IdsAre DEF AllSaid, RefusalInv, RestInv, Overlay
<1> QED
  BY <1>1, <1>2, <1>3 DEF DepsStep, BeginInstall, UnpackFirst, FinishInstall, FollowDeps, SeeFailedDeps, DepsTimeout,
     CoordinatorIsPast, nodeVars, Go, Ended

LEMMA PrepTurnsNobodyAway ==
  ASSUME AllSaid, WellNamed, NEW n \in Nodes, PrepStep(n), ~FailWork(n), faults = 0, pc[0] # "failed"
  PROVE  pc'[n] # "failed"
<1>1. pc \in [Nodes -> Places] /\ launch.how.ranked /\ failed = {}
  BY DEF AllSaid, LaunchTypes, WellNamed, Coordinated, RefusalInv
<1>2. pc[n] \notin Ended /\ pc[0] \in Places \ Ended
  BY PrepMoves, ZeroIsThere DEF AllSaid, NodeMove
<1> QED
  BY <1>1, <1>2 DEF PrepStep, RankUnknown, ReuseMarker, BeginWork, KeepProduct, StartProduct, FinishProduct,
     SeeDone, SeeFailed, PrepareTimeout, StartTraining, CoordinatorIsPast, nodeVars, Go, Ended

LEMMA SftTurnsNobodyAway ==
  ASSUME AllSaid, NEW n \in Nodes, SftStep(n), ~SftFail(n), faults = 0, pc[0] # "failed"
  PROVE  pc'[n] # "failed"
<1>1. pc \in [Nodes -> Places] /\ sftError = {}
  BY DEF AllSaid, LaunchTypes, RefusalInv
<1>2. pc[n] \notin Ended /\ pc[0] \in Places \ Ended
  BY SftMoves, ZeroIsThere DEF AllSaid, NodeMove
<1> QED
  BY <1>1, <1>2 DEF SftStep, SftCached, SftBegin, SftBuilt, SftAnnounce, SftSeeError, SftFollow, SftTimeout, Stands, To

LEMMA TurnStep ==
  ASSUME AllSaid, NobodyIsTurnedAway, [LaunchStep]_launchVars
  PROVE  NobodyIsTurnedAway'
<1> USE NodesAssumption DEF AllSaid
<1>1. ASSUME NEW how \in Profiles, NewLaunch(how) PROVE NobodyIsTurnedAway'
  BY <1>1 DEF NewLaunch, NobodyIsTurnedAway
<1>2. ASSUME NEW n \in Nodes, NodeStep(n) PROVE NobodyIsTurnedAway'
  <2>1. NodeMove(n)
    BY <1>2, NodeMoves
  <2>2. WellNamed' = WellNamed /\ \A m \in Nodes \ {n} : pc'[m] = pc[m]
    BY <2>1 DEF NodeMove, WellNamed, Coordinated, LaunchTypes
  <2>3. SUFFICES ASSUME faults' = 0, WellNamed, ~StartedTooLate' PROVE \A m \in Nodes : pc'[m] # "failed"
    BY <2>2 DEF NobodyIsTurnedAway
  <2>4. faults = 0 /\ ~FailFetch(n) /\ ~FailInstall(n) /\ ~FailWork(n) /\ ~SftFail(n)
    BY <1>2, <2>3, NodeFaults
  <2>5. ~StartedTooLate
    BY <1>2, <2>3, LateStays
  <2>6. \A m \in Nodes : pc[m] # "failed"
    BY <2>3, <2>4, <2>5 DEF NobodyIsTurnedAway
  <2>7. pc'[n] # "failed"
    <3>1. CASE Boot(n)
      BY <3>1 DEF Boot, Go, LaunchTypes
    <3>2. CASE RunDirStep(n)
      <4>1. ~RunDirTimeout(n)
        BY <2>3, <2>5, <2>6, DirTurnsNobodyAway
      <4> QED BY <3>2, <4>1 DEF RunDirStep, WrapperRunDir, EngineRunDir, Go, LaunchTypes
    <3> QED
      BY <1>2, <2>3, <2>4, <2>6, <3>1, <3>2, ReposTurnNobodyAway, DepsTurnNobodyAway, PrepTurnsNobodyAway,
         SftTurnsNobodyAway DEF NodeStep
  <2> QED BY <2>2, <2>6, <2>7
<1>3. CASE (\E n \in Nodes : Crash(n)) \/ Train \/ GiveUp \/ Tick \/ UNCHANGED launchVars
  <2>1. Quiet
    BY <1>3, QuietSteps
  <2>2. SUFFICES ASSUME faults' = 0, WellNamed, ~StartedTooLate' PROVE \A m \in Nodes : pc'[m] # "failed"
    BY <2>1 DEF NobodyIsTurnedAway, Quiet, WellNamed, Coordinated
  <2>3. faults = 0 /\ ~StartedTooLate
    BY <2>1, <2>2, LateStays DEF Quiet
  <2>4. \A m \in Nodes : pc[m] # "failed"
    BY <2>2, <2>3 DEF NobodyIsTurnedAway
  <2>5. ~GiveUp /\ \A n \in Nodes : ~Crash(n)
    BY <2>2, <2>3, <2>4 DEF GiveUp, Crash, Fault
  <2> QED BY <1>3, <2>4, <2>5 DEF Train, Tick, launchVars, nodeVars
<1> QED BY <1>1, <1>2, <1>3 DEF LaunchStep

(* While nothing has failed or been killed, no node of a launch that waits   *)
(* for node 0 fails: no state file, marker or directory of an earlier launch, *)
(* no half-written product and no deadline turns it away -- but a marker of   *)
(* the run directory that was written too long before the node came up.      *)
THEOREM FaultlessLaunchFailsNobody == Spec => []NobodyIsTurnedAway
<1>1. Init => LaunchInv /\ TurnInv
  BY LaunchInvInit, TurnInvInit DEF Init
<1>2. LaunchInv /\ TurnInv /\ [Next]_vars => (LaunchInv /\ TurnInv)'
  <2> SUFFICES ASSUME LaunchInv, TurnInv, [Next]_vars PROVE LaunchInv' /\ TurnInv'
    OBVIOUS
  <2>1. [LaunchStep]_launchVars
    BY DEF Next, vars
  <2>2. AllSaid
    BY DEF AllSaid, LaunchInv, TurnInv
  <2>3. NobodyIsTurnedAway'
    BY <2>1, <2>2, TurnStep DEF TurnInv
  <2>4. TurnTypes' /\ RestInv' /\ RefusalInv' /\ FetchInv' /\ NamedInv'
    BY <2>1, <2>2, TurnTypesStep, RestInvStep, RefusalInvStep, FetchInvStep, NamedInvStep DEF AllSaid
  <2> QED BY <2>3, <2>4, LaunchInvStep DEF TurnInv
<1>3. TurnInv => NobodyIsTurnedAway
  BY DEF TurnInv
<1> QED BY <1>1, <1>2, <1>3, PTL DEF Spec

-----------------------------------------------------------------------------
(* The overlay of packages.                                                *)

StepNames ==
  {"nvidia", "nccl", "peft", "apex", "te", "megatron", "liger", "checkBase", "grpo", "vllm", "checkGrpo",
   "automodel", "runtime", "submodules", "build", "configs", "environments", "sources", "checkPin",
   "checkTilelang", "checkTE"}

Copies == {"none", "whole", "cut", "unfit"}

OverlayTypes ==
  /\ need \in Need
  /\ over \in [Packages -> Copies]
  /\ queue \in Seq(StepNames)
  /\ result \in {"idle", "running", "failed", "ready"}
  /\ result # "running" => queue = <<>>
  /\ wasCut \in BOOLEAN /\ kept \in BOOLEAN

Elements(q) == {q[i] : i \in 1 .. Len(q)}

(* The steps that would disturb what a step establishes: none of them      *)
(* comes after it.                                                         *)
Closes(c) ==
  CASE c = "checkBase" -> {"apex", "megatron", "liger"}
    [] c = "checkGrpo" -> {"grpo", "vllm"}
    [] c = "checkTilelang" -> {"vllm", "runtime"}
    [] c = "checkTE" -> {"te", "runtime", "build", "environments"}
    [] c = "environments" -> {"runtime", "build"}
    [] OTHER -> {}

InOrder(q) == \A i, j \in 1 .. Len(q) : i < j => q[j] \notin Closes(q[i])

(* What only one back-end installs.                                        *)
OfItsBackend(S) ==
  /\ S \cap {"grpo", "checkGrpo"} # {} => Is("grpo")
  /\ "automodel" \in S => Is("verl")
  /\ S \cap {"runtime", "build", "environments"} # {} => Is("prime")

(* The steps on which the back-end relies, and what each establishes.      *)
Required ==
  (IF Is("grpo") THEN {"checkGrpo"} ELSE IF UsesBase THEN {"checkBase"} ELSE {})
  \cup (IF Is("verl") THEN {"automodel"} ELSE {})
  \cup (IF Is("prime") THEN {"runtime", "build", "configs", "environments", "sources"} ELSE {})
  \cup (IF Is("prime") /\ need.teacher THEN {"checkTilelang"} ELSE {})
  \cup (IF Is("prime") /\ UsesTE THEN {"checkTE"} ELSE {})
  \cup (IF ~Is("prime") /\ UsesTE /\ ~need.resolve THEN {"te"} ELSE {})

Works(c) ==
  CASE c = "checkGrpo" -> GrpoImports(over)
    [] c = "checkBase" -> \A m \in BaseModules : Imports(m)
    [] c = "checkTilelang" -> Imports("vllm") /\ Imports("runtime")
    [] c = "checkTE" -> Imports("te")
    [] c = "te" -> Imports("te")
    [] c = "automodel" -> Imports("automodel")
    [] c = "environments" -> ~kept => over["torch"] = "none"
    [] OTHER -> ~wasCut => over[c] = "whole"

(* While nothing was cut short, a package is there as a whole or not at    *)
(* all, and no torch hides the image's unless it could not be removed.     *)
Clean ==
  ~wasCut => /\ \A p \in Requirements : over[p] \in {"none", "whole"}
             /\ ~kept => over["torch"] = "none"

(* What is relied upon is to come, or it works and nothing that would      *)
(* disturb it is to come.                                                  *)
OverlayInv ==
  /\ OverlayTypes /\ Clean
  /\ InOrder(queue) /\ OfItsBackend(Elements(queue))
  /\ result \in {"running", "ready"} =>
       \A c \in Required :
         c \in Elements(queue) \/ (Closes(c) \cap Elements(queue) = {} /\ Works(c))

-----------------------------------------------------------------------------
(* The list of steps.                                                      *)

Part(q, S) == q \in Seq(StepNames) /\ InOrder(q) /\ Elements(q) = S

LEMMA SingleStep ==
  ASSUME NEW s \in StepNames
  PROVE  Part(<<s>>, {s})
  BY DEF Part, InOrder, Elements

LEMMA NoStep == Part(<<>>, {})
  BY DEF Part, InOrder, Elements

LEMMA WhenPart ==
  ASSUME NEW P \in BOOLEAN, NEW q, NEW S, Part(q, S)
  PROVE  Part(When(P, q), IF P THEN S ELSE {})
<1>1. CASE P
  BY <1>1 DEF When
<1>2. CASE ~P
  BY <1>2, NoStep DEF When
<1> QED BY <1>1, <1>2

LEMMA JoinedParts ==
  ASSUME NEW p, NEW q, NEW S, NEW T, Part(p, S), Part(q, T), \A a \in S : Closes(a) \cap T = {}
  PROVE  Part(p \o q, S \cup T)
<1>1. p \in Seq(StepNames) /\ q \in Seq(StepNames) /\ Len(p) \in Nat /\ Len(q) \in Nat
  BY DEF Part
<1>2. /\ p \o q \in Seq(StepNames) /\ Len(p \o q) = Len(p) + Len(q)
      /\ \A i \in 1 .. Len(p) + Len(q) :
           (p \o q)[i] = IF i <= Len(p) THEN p[i] ELSE q[i - Len(p)]
  BY <1>1
<1>3. PICK r \in Seq(StepNames) : r = p \o q
  BY <1>2
<1>4. PICK m \in Nat, n \in Nat : m = Len(p) /\ n = Len(q)
  BY <1>1
<1>5. Len(r) = m + n /\ \A i \in 1 .. m + n : r[i] = IF i <= m THEN p[i] ELSE q[i - m]
  BY <1>2, <1>3, <1>4
<1>6. /\ \A i \in 1 .. m : p[i] \in S /\ r[i] = p[i]
      /\ \A i \in 1 .. n : q[i] \in T
      /\ \A i \in 1 .. m + n : i > m => i - m \in 1 .. n /\ r[i] = q[i - m]
  <2>1. (\A i \in 1 .. m : p[i] \in S) /\ (\A i \in 1 .. n : q[i] \in T)
    BY <1>4 DEF Part, Elements
  <2>2. \A i \in 1 .. m : r[i] = p[i]
    BY <1>4, <1>5
  <2>3. \A i \in 1 .. m + n : i > m => i - m \in 1 .. n /\ r[i] = q[i - m]
    BY <1>4, <1>5
  <2> QED BY <2>1, <2>2, <2>3
<1>7. InOrder(r)
  <2> SUFFICES ASSUME NEW i \in 1 .. m + n, NEW j \in 1 .. m + n, i < j PROVE r[j] \notin Closes(r[i])
    BY <1>5 DEF InOrder
  <2>1. CASE j <= m
    <3>1. i \in 1 .. m /\ j \in 1 .. m
      BY <1>4, <2>1
    <3> QED BY <1>4, <1>6, <3>1 DEF Part, InOrder
  <2>2. CASE i > m
    <3>1. i - m \in 1 .. n /\ j - m \in 1 .. n /\ i - m < j - m /\ r[i] = q[i - m] /\ r[j] = q[j - m]
      BY <1>4, <1>6, <2>2
    <3> QED BY <1>4, <3>1 DEF Part, InOrder
  <2>3. CASE i <= m /\ j > m
    <3>1. i \in 1 .. m /\ j - m \in 1 .. n /\ r[j] = q[j - m]
      BY <1>4, <1>6, <2>3
    <3> QED BY <1>6, <3>1
  <2> QED BY <1>4, <2>1, <2>2, <2>3
<1>8. Elements(r) = S \cup T
  <2>1. ASSUME NEW s \in S PROVE s \in Elements(r)
    <3>1. PICK i \in 1 .. m : p[i] = s
      BY <1>4 DEF Part, Elements
    <3>2. i \in 1 .. m + n /\ r[i] = s
      BY <1>4, <1>6, <3>1
    <3> QED BY <1>5, <3>2 DEF Elements
  <2>2. ASSUME NEW t \in T PROVE t \in Elements(r)
    <3>1. PICK i \in 1 .. n : q[i] = t
      BY <1>4 DEF Part, Elements
    <3>2. i + m \in 1 .. m + n /\ i + m > m /\ (i + m) - m = i
      BY <1>4, <3>1
    <3>3. r[i + m] = t
      BY <1>6, <3>1, <3>2
    <3> QED BY <1>5, <3>2, <3>3 DEF Elements
  <2>3. ASSUME NEW i \in 1 .. m + n PROVE r[i] \in S \cup T
    <3>1. CASE i <= m
      BY <1>4, <1>6, <3>1
    <3>2. CASE i > m
      BY <1>6, <3>2
    <3> QED BY <1>4, <3>1, <3>2
  <2> QED BY <1>5, <2>1, <2>2, <2>3 DEF Elements
<1> QED BY <1>3, <1>7, <1>8 DEF Part

LEMMA AddedStep ==
  ASSUME NEW p, NEW S, Part(p, S), NEW P \in BOOLEAN, NEW s \in StepNames, \A a \in S : s \notin Closes(a)
  PROVE  Part(p \o When(P, <<s>>), S \cup (IF P THEN {s} ELSE {}))
<1>1. Part(When(P, <<s>>), IF P THEN {s} ELSE {})
  BY SingleStep, WhenPart
<1>2. \A a \in S : Closes(a) \cap (IF P THEN {s} ELSE {}) = {}
  OBVIOUS
<1> QED BY <1>1, <1>2, JoinedParts

(* What comes of Prime-RL after the base packages.                         *)
PrimeElements ==
  (IF need.override THEN {"vllm"} ELSE {})
  \cup {"runtime", "submodules", "build", "configs", "environments", "sources", "nvidia"}
  \cup (IF need.override THEN {"checkPin"} ELSE {}) \cup (IF need.teacher THEN {"checkTilelang"} ELSE {})
  \cup (IF UsesTE THEN {"checkTE"} ELSE {})

LEMMA PrimePart ==
  ASSUME need \in Need
  PROVE  Part(PrimeSteps, PrimeElements)
<1> DEFINE fixed == <<"runtime", "submodules", "build", "configs", "environments", "sources", "nvidia">>
           names == {"runtime", "submodules", "build", "configs", "environments", "sources", "nvidia"}
           S1 == IF need.override THEN {"vllm"} ELSE {}
           S2 == S1 \cup names
           S3 == S2 \cup (IF need.override THEN {"checkPin"} ELSE {})
           S4 == S3 \cup (IF need.teacher THEN {"checkTilelang"} ELSE {})
           q1 == When(need.override, <<"vllm">>)
           q2 == q1 \o fixed
           q3 == q2 \o When(need.override, <<"checkPin">>)
           q4 == q3 \o When(need.teacher, <<"checkTilelang">>)
<1>0. need.override \in BOOLEAN /\ need.teacher \in BOOLEAN /\ UsesTE \in BOOLEAN
  BY DEF Need, UsesTE, Is
<1>1. Part(q1, S1)
  <2>1. Part(<<"vllm">>, {"vllm"})
    BY SingleStep DEF StepNames
  <2> QED BY <1>0, <2>1, WhenPart
<1>2. Part(fixed, names)
  <2>1. fixed \in Seq(StepNames) /\ Len(fixed) = 7
    BY DEF StepNames
  <2>2. /\ fixed[1] = "runtime" /\ fixed[2] = "submodules" /\ fixed[3] = "build" /\ fixed[4] = "configs"
        /\ fixed[5] = "environments" /\ fixed[6] = "sources" /\ fixed[7] = "nvidia"
    OBVIOUS
  <2> HIDE DEF fixed
  <2>3. 1 .. 7 = {1, 2, 3, 4, 5, 6, 7}
    OBVIOUS
  <2>4. Elements(fixed) = names
    BY <2>1, <2>2, <2>3 DEF Elements
  <2>5. InOrder(fixed)
    <3> SUFFICES ASSUME NEW i \in 1 .. 7, NEW j \in 1 .. 7, i < j PROVE fixed[j] \notin Closes(fixed[i])
      BY <2>1 DEF InOrder
    <3>1. CASE i # 5
      <4>1. fixed[i] \in {"runtime", "submodules", "build", "configs", "sources", "nvidia"}
        BY <2>2, <2>3, <3>1
      <4>2. Closes(fixed[i]) = {}
        BY <4>1 DEF Closes
      <4> QED BY <4>2
    <3>2. CASE i = 5
      <4>1. fixed[j] \in {"sources", "nvidia"}
        BY <2>2, <2>3, <3>2
      <4>2. Closes(fixed[i]) = {"runtime", "build"}
        BY <2>2, <3>2 DEF Closes
      <4> QED BY <4>1, <4>2
    <3> QED BY <3>1, <3>2
  <2> QED BY <2>1, <2>4, <2>5 DEF Part
<1>3. Part(q2, S2)
  <2>1. \A a \in S1 : Closes(a) \cap names = {}
    BY DEF Closes
  <2> HIDE DEF q1, fixed, S1, names
  <2> QED BY <1>1, <1>2, <2>1, JoinedParts
<1>4. Part(q3, S3)
  <2>1. \A a \in S2 : "checkPin" \notin Closes(a)
    BY DEF Closes
  <2>2. "checkPin" \in StepNames
    BY DEF StepNames
  <2> HIDE DEF q2, S2
  <2> QED BY <1>0, <1>3, <2>1, <2>2, AddedStep
<1>5. Part(q4, S4)
  <2>1. \A a \in S3 : "checkTilelang" \notin Closes(a)
    BY DEF Closes
  <2>2. "checkTilelang" \in StepNames
    BY DEF StepNames
  <2> HIDE DEF q3, S3
  <2> QED BY <1>0, <1>4, <2>1, <2>2, AddedStep
<1>6. Part(q4 \o When(UsesTE, <<"checkTE">>), S4 \cup (IF UsesTE THEN {"checkTE"} ELSE {}))
  <2>1. \A a \in S4 : "checkTE" \notin Closes(a)
    BY DEF Closes
  <2>2. "checkTE" \in StepNames
    BY DEF StepNames
  <2> HIDE DEF q4, S4
  <2> QED BY <1>0, <1>5, <2>1, <2>2, AddedStep
<1> QED BY <1>6 DEF PrimeSteps, PrimeElements

(* What comes before the packages of one back-end.                         *)
BaseSteps ==
  When(Is("verl") \/ Is("prime") \/ UsesTE, <<"nvidia">>)
  \o When(Is("verl"), <<"nccl">>)
  \o When(Is("grpo"), <<"peft">>)
  \o When(UsesBase /\ ~Skips, <<"apex">>)
  \o When(UsesTE, <<"te">>)
  \o When(UsesBase, <<"megatron">>)
  \o When(UsesBase /\ ~Skips, <<"liger">>)
  \o When(UsesBase /\ ~Is("grpo"), <<"checkBase">>)

GrpoSteps == <<"grpo">> \o When(need.override, <<"vllm">>) \o <<"checkGrpo">>

LEMMA StepsAre ==
  InstallSteps =
    BaseSteps \o When(Is("grpo"), GrpoSteps) \o When(Is("verl"), <<"automodel">>) \o When(Is("prime"), PrimeSteps)
  BY DEF InstallSteps, BaseSteps, GrpoSteps

BaseElements ==
  (IF Is("verl") \/ Is("prime") \/ UsesTE THEN {"nvidia"} ELSE {})
  \cup (IF Is("verl") THEN {"nccl"} ELSE {})
  \cup (IF Is("grpo") THEN {"peft"} ELSE {})
  \cup (IF UsesBase /\ ~Skips THEN {"apex"} ELSE {})
  \cup (IF UsesTE THEN {"te"} ELSE {})
  \cup (IF UsesBase THEN {"megatron"} ELSE {})
  \cup (IF UsesBase /\ ~Skips THEN {"liger"} ELSE {})
  \cup (IF UsesBase /\ ~Is("grpo") THEN {"checkBase"} ELSE {})

LEMMA BasePart ==
  ASSUME need \in Need
  PROVE  Part(BaseSteps, BaseElements)
<1> DEFINE S1 == IF Is("verl") \/ Is("prime") \/ UsesTE THEN {"nvidia"} ELSE {}
           S2 == S1 \cup (IF Is("verl") THEN {"nccl"} ELSE {})
           S3 == S2 \cup (IF Is("grpo") THEN {"peft"} ELSE {})
           S4 == S3 \cup (IF UsesBase /\ ~Skips THEN {"apex"} ELSE {})
           S5 == S4 \cup (IF UsesTE THEN {"te"} ELSE {})
           S6 == S5 \cup (IF UsesBase THEN {"megatron"} ELSE {})
           S7 == S6 \cup (IF UsesBase /\ ~Skips THEN {"liger"} ELSE {})
           q1 == When(Is("verl") \/ Is("prime") \/ UsesTE, <<"nvidia">>)
           q2 == q1 \o When(Is("verl"), <<"nccl">>)
           q3 == q2 \o When(Is("grpo"), <<"peft">>)
           q4 == q3 \o When(UsesBase /\ ~Skips, <<"apex">>)
           q5 == q4 \o When(UsesTE, <<"te">>)
           q6 == q5 \o When(UsesBase, <<"megatron">>)
           q7 == q6 \o When(UsesBase /\ ~Skips, <<"liger">>)
           early == {"nvidia", "nccl", "peft", "apex", "te", "megatron", "liger"}
<1>0. /\ (Is("verl") \/ Is("prime") \/ UsesTE) \in BOOLEAN /\ Is("verl") \in BOOLEAN /\ Is("grpo") \in BOOLEAN
      /\ (UsesBase /\ ~Skips) \in BOOLEAN /\ UsesTE \in BOOLEAN /\ UsesBase \in BOOLEAN
      /\ (UsesBase /\ ~Is("grpo")) \in BOOLEAN
  BY DEF Need, UsesTE, UsesBase, Is
<1>a. \A a \in early : Closes(a) = {}
  BY DEF Closes
<1>b. early \cup {"checkBase"} \subseteq StepNames
  BY DEF StepNames
<1>1. Part(q1, S1) /\ S1 \subseteq early
  <2>1. Part(<<"nvidia">>, {"nvidia"})
    BY <1>b, SingleStep
  <2>2. Part(q1, S1)
    BY <1>0, <2>1, WhenPart
  <2> QED BY <2>2
<1>2. Part(q2, S2) /\ S2 \subseteq early
  <2> HIDE DEF q1, S1
  <2>1. Part(q2, S2)
    BY <1>0, <1>1, <1>a, <1>b, AddedStep
  <2> QED BY <1>1, <2>1
<1>3. Part(q3, S3) /\ S3 \subseteq early
  <2> HIDE DEF q2, S2
  <2>1. Part(q3, S3)
    BY <1>0, <1>2, <1>a, <1>b, AddedStep
  <2> QED BY <1>2, <2>1
<1>4. Part(q4, S4) /\ S4 \subseteq early
  <2> HIDE DEF q3, S3
  <2>1. Part(q4, S4)
    BY <1>0, <1>3, <1>a, <1>b, AddedStep
  <2> QED BY <1>3, <2>1
<1>5. Part(q5, S5) /\ S5 \subseteq early
  <2> HIDE DEF q4, S4
  <2>1. Part(q5, S5)
    BY <1>0, <1>4, <1>a, <1>b, AddedStep
  <2> QED BY <1>4, <2>1
<1>6. Part(q6, S6) /\ S6 \subseteq early
  <2> HIDE DEF q5, S5
  <2>1. Part(q6, S6)
    BY <1>0, <1>5, <1>a, <1>b, AddedStep
  <2> QED BY <1>5, <2>1
<1>7. Part(q7, S7) /\ S7 \subseteq early
  <2> HIDE DEF q6, S6
  <2>1. Part(q7, S7)
    BY <1>0, <1>6, <1>a, <1>b, AddedStep
  <2> QED BY <1>6, <2>1
<1>8. Part(q7 \o When(UsesBase /\ ~Is("grpo"), <<"checkBase">>),
           S7 \cup (IF UsesBase /\ ~Is("grpo") THEN {"checkBase"} ELSE {}))
  <2> HIDE DEF q7, S7
  <2> QED BY <1>0, <1>7, <1>a, <1>b, AddedStep
<1> QED BY <1>8 DEF BaseSteps, BaseElements

GrpoElements == {"grpo", "checkGrpo"} \cup (IF need.override THEN {"vllm"} ELSE {})

LEMMA GrpoPart ==
  ASSUME need \in Need
  PROVE  Part(GrpoSteps, GrpoElements)
<1> DEFINE q2 == <<"grpo">> \o When(need.override, <<"vllm">>)
           S2 == {"grpo"} \cup (IF need.override THEN {"vllm"} ELSE {})
<1>1. Part(<<"grpo">>, {"grpo"}) /\ Part(<<"checkGrpo">>, {"checkGrpo"}) /\ "vllm" \in StepNames
  BY SingleStep DEF StepNames
<1>2. need.override \in BOOLEAN
  BY DEF Need
<1>3. \A a \in {"grpo", "vllm"} : Closes(a) = {}
  BY DEF Closes
<1>4. Part(q2, S2) /\ S2 \subseteq {"grpo", "vllm"}
  <2>1. Part(q2, S2)
    BY <1>1, <1>2, <1>3, AddedStep
  <2> QED BY <2>1
<1>5. Part(q2 \o <<"checkGrpo">>, S2 \cup {"checkGrpo"})
  <2> HIDE DEF q2, S2
  <2> QED BY <1>1, <1>3, <1>4, JoinedParts
<1>6. S2 \cup {"checkGrpo"} = GrpoElements
  BY DEF GrpoElements
<1> QED BY <1>5, <1>6 DEF GrpoSteps

InstallElements ==
  BaseElements \cup (IF Is("grpo") THEN GrpoElements ELSE {})
  \cup (IF Is("verl") THEN {"automodel"} ELSE {}) \cup (IF Is("prime") THEN PrimeElements ELSE {})

LEMMA InstallPart ==
  ASSUME need \in Need
  PROVE  Part(InstallSteps, InstallElements)
<1> DEFINE S2 == BaseElements \cup (IF Is("grpo") THEN GrpoElements ELSE {})
           S3 == S2 \cup (IF Is("verl") THEN {"automodel"} ELSE {})
           q2 == BaseSteps \o When(Is("grpo"), GrpoSteps)
           q3 == q2 \o When(Is("verl"), <<"automodel">>)
<1>0. Is("verl") \in BOOLEAN /\ Is("grpo") \in BOOLEAN /\ Is("prime") \in BOOLEAN /\ "automodel" \in StepNames
  BY DEF Is, StepNames
<1>1. /\ Part(BaseSteps, BaseElements)
      /\ Part(When(Is("grpo"), GrpoSteps), IF Is("grpo") THEN GrpoElements ELSE {})
      /\ Part(When(Is("prime"), PrimeSteps), IF Is("prime") THEN PrimeElements ELSE {})
  BY <1>0, BasePart, GrpoPart, PrimePart, WhenPart
<1>2. \A a \in BaseElements : Closes(a) \subseteq {"apex", "megatron", "liger"}
  BY DEF BaseElements, Closes
<1>3. Part(q2, S2)
  <2>1. \A a \in BaseElements : Closes(a) \cap (IF Is("grpo") THEN GrpoElements ELSE {}) = {}
    BY <1>2 DEF GrpoElements
  <2> QED BY <1>1, <2>1, JoinedParts
<1>4. \A a \in S2 : Closes(a) \subseteq {"apex", "megatron", "liger", "grpo", "vllm"}
  <2>1. \A a \in GrpoElements : Closes(a) \subseteq {"grpo", "vllm"}
    BY DEF GrpoElements, Closes
  <2> QED BY <1>2, <2>1
<1>5. Part(q3, S3)
  <2>1. \A a \in S2 : "automodel" \notin Closes(a)
    BY <1>4
  <2> HIDE DEF q2, S2
  <2> QED BY <1>0, <1>3, <2>1, AddedStep
<1>6. \A a \in S3 : Closes(a) \cap (IF Is("prime") THEN PrimeElements ELSE {}) = {}
  <2>1. SUFFICES ASSUME Is("prime"), NEW a \in S3 PROVE Closes(a) \cap PrimeElements = {}
    OBVIOUS
  <2>2. ~Is("grpo") /\ ~Is("verl")
    BY <2>1 DEF Is
  <2>3. a \in BaseElements
    BY <2>1, <2>2
  <2> QED BY <1>2, <2>3 DEF PrimeElements
<1>7. Part(q3 \o When(Is("prime"), PrimeSteps), S3 \cup (IF Is("prime") THEN PrimeElements ELSE {}))
  <2> HIDE DEF q3, S3
  <2> QED BY <1>1, <1>5, <1>6, JoinedParts
<1>8. S3 \cup (IF Is("prime") THEN PrimeElements ELSE {}) = InstallElements
  BY DEF InstallElements
<1> QED BY <1>7, <1>8, StepsAre

(* All that is relied upon is in the list.                                 *)
LEMMA RequiredIsInstalled ==
  ASSUME need \in Need
  PROVE  Required \subseteq InstallElements /\ OfItsBackend(InstallElements)
<1>1. need.backend \in {"sft", "grpo", "verl", "prime"}
  BY DEF Need
<1>2. CASE need.backend \in {"sft", "grpo"}
  BY <1>2 DEF Required, InstallElements, OfItsBackend, BaseElements, GrpoElements, Is, UsesBase
<1>3. CASE need.backend \in {"verl", "prime"}
  BY <1>3 DEF Required, InstallElements, OfItsBackend, BaseElements, PrimeElements, Is, UsesBase, UsesTE
<1> QED BY <1>1, <1>2, <1>3

-----------------------------------------------------------------------------
(* What one step does to the overlay.                                      *)

LEMMA Shorter ==
  ASSUME NEW q \in Seq(StepNames), q # <<>>
  PROVE  /\ Head(q) \in StepNames /\ Tail(q) \in Seq(StepNames)
         /\ Elements(q) = {Head(q)} \cup Elements(Tail(q))
         /\ InOrder(q) => InOrder(Tail(q)) /\ Closes(Head(q)) \cap Elements(Tail(q)) = {}
<1>1. Len(q) \in Nat /\ Len(q) >= 1 /\ Head(q) = q[1] /\ \A i \in 1 .. Len(q) : q[i] \in StepNames
  <2>1. Len(q) \in Nat /\ \A i \in 1 .. Len(q) : q[i] \in StepNames
    OBVIOUS
  <2>2. Len(q) # 0
    OBVIOUS
  <2>3. Head(q) = q[1]
    OBVIOUS
  <2> QED BY <2>1, <2>2, <2>3
<1>2. PICK r \in Seq(StepNames) : r = Tail(q)
  BY HeadTailProperties
<1>3. Len(r) = Len(q) - 1 /\ \A i \in 1 .. Len(r) : r[i] = q[i + 1]
  BY <1>2, HeadTailProperties
<1>4. PICK n \in Nat : n = Len(r)
  BY <1>2
<1>5. Len(q) = n + 1 /\ 1 \in 1 .. n + 1
  BY <1>1, <1>3, <1>4
<1>6. /\ \A i \in 1 .. n : i + 1 \in 1 .. n + 1 /\ 1 < i + 1 /\ r[i] = q[i + 1]
      /\ \A i \in 1 .. n + 1 : i # 1 => i - 1 \in 1 .. n /\ r[i - 1] = q[i]
  <2>1. \A i \in 1 .. n : i + 1 \in 1 .. n + 1 /\ 1 < i + 1 /\ r[i] = q[i + 1]
    BY <1>3, <1>4
  <2>2. \A i \in 1 .. n + 1 : i # 1 => i - 1 \in 1 .. n /\ (i - 1) + 1 = i
    BY <1>4
  <2> QED BY <2>1, <2>2
<1>7. Elements(q) = {Head(q)} \cup Elements(r)
  <2>1. \A i \in 1 .. n + 1 : q[i] \in {Head(q)} \cup Elements(r)
    BY <1>1, <1>4, <1>6 DEF Elements
  <2>2. \A i \in 1 .. n : r[i] \in Elements(q)
    BY <1>5, <1>6 DEF Elements
  <2>3. Head(q) \in Elements(q)
    BY <1>1, <1>5 DEF Elements
  <2> QED BY <1>4, <1>5, <2>1, <2>2, <2>3 DEF Elements
<1>8. ASSUME InOrder(q) PROVE InOrder(r) /\ Closes(Head(q)) \cap Elements(r) = {}
  <2>1. \A i \in 1 .. n + 1, j \in 1 .. n + 1 : i < j => q[j] \notin Closes(q[i])
    BY <1>5, <1>8 DEF InOrder
  <2>2. ASSUME NEW i \in 1 .. n, NEW j \in 1 .. n, i < j PROVE r[j] \notin Closes(r[i])
    <3>1. i + 1 < j + 1
      BY <1>4, <2>2
    <3> QED BY <1>6, <2>1, <2>2, <3>1
  <2>3. \A i \in 1 .. n : r[i] \notin Closes(q[1])
    BY <1>5, <1>6, <2>1
  <2> QED BY <1>1, <1>4, <2>2, <2>3 DEF InOrder, Elements
<1> QED BY <1>1, <1>2, <1>7, <1>8

(* The packages step s may replace or remove.                              *)
Touched(s) ==
  (IF s \in Packages THEN {s} ELSE {}) \cup (IF Resolves(s) THEN Protected ELSE {})
  \cup (IF s = "checkGrpo" THEN {"vllm"} ELSE {})

LEMMA SettledIs ==
  ASSUME over \in [Packages -> Copies], NEW s \in Installing
  PROVE  /\ Settled(s) \in [Packages -> Copies]
         /\ \A p \in Packages \ Touched(s) : Settled(s)[p] = over[p]
         /\ Resolves(s) => \A p \in Protected : Settled(s)[p] = "none"
         /\ s \in Packages =>
              Settled(s)[s] = IF s \in Upgrading \/ over[s] = "none" THEN Copied(s) ELSE over[s]
<1>1. Copied(s) \in Copies
  BY DEF Copied, Copies
<1>2. PICK ov \in [Packages -> Copies] : ov = Place(s)
  <2>1. Place(s) \in [Packages -> Copies]
    BY <1>1 DEF Place
  <2> QED BY <2>1
<1>3. /\ \A p \in Packages : p # s => ov[p] = over[p]
      /\ s \in Packages => ov[s] = IF s \in Upgrading \/ over[s] = "none" THEN Copied(s) ELSE over[s]
  BY <1>2 DEF Place
<1>4. Protected \subseteq Packages /\ "none" \in Copies
  BY DEF Protected, Packages, Upgrading, Requirements, Copies
<1>5. CASE Resolves(s)
  <2>1. s \notin Protected
    BY <1>5 DEF Resolves, Protected
  <2>2. Settled(s) = [p \in Packages |-> IF p \in Protected THEN "none" ELSE ov[p]]
    BY <1>2, <1>5 DEF Settled, WithoutProtected
  <2> QED BY <1>3, <1>4, <1>5, <2>1, <2>2 DEF Touched
<1>6. CASE ~Resolves(s)
  <2>1. Settled(s) = ov
    BY <1>2, <1>6 DEF Settled
  <2> QED BY <1>3, <1>6, <2>1 DEF Touched
<1> QED BY <1>5, <1>6

(* A step that is neither the one that establishes something nor one of    *)
(* those that would disturb it leaves it as it is.                         *)
LEMMA KeepsWorking ==
  ASSUME need \in Need, NEW c \in Required, Works(c), NEW s \in StepNames, s # c, s \notin Closes(c),
         OfItsBackend({s}), UNCHANGED <<need, image>>,
         \A p \in Packages \ Touched(s) : over'[p] = over[p],
         wasCut => wasCut', kept => kept', wasCut \in BOOLEAN, kept \in BOOLEAN
  PROVE  Works(c)'
<1>0. /\ s \in {"grpo", "checkGrpo"} => Is("grpo")
      /\ s = "automodel" => Is("verl")
      /\ s \in {"runtime", "build", "environments"} => Is("prime")
  BY DEF OfItsBackend
<1>1. /\ {"grpo", "vllm", "apex", "megatron", "liger", "runtime", "te", "automodel", "torch"} \subseteq Packages
      /\ {"build", "configs", "sources"} \subseteq Packages
      /\ {"grpo", "vllm", "apex", "megatron", "liger", "runtime", "automodel", "build", "configs", "sources"}
           \cap Protected = {}
  BY DEF Packages, Upgrading, Requirements, Protected
<1>2. \A p \in Packages \ Touched(s) : Imports(p) => Imports(p)'
  BY DEF Imports, ImportsWith
<1>3. CASE c = "checkGrpo"
  <2>1. s \notin {"grpo", "vllm", "checkGrpo"} /\ GrpoImports(over)
    BY <1>3 DEF Closes, Works
  <2>2. "grpo" \notin Touched(s) /\ "vllm" \notin Touched(s)
    BY <1>1, <2>1 DEF Touched
  <2>3. Imports("grpo")' /\ Imports("vllm")'
    BY <1>1, <1>2, <2>1, <2>2 DEF GrpoImports, Imports
  <2> QED BY <1>3, <2>3 DEF Works, GrpoImports, Imports
<1>4. CASE c = "checkBase"
  <2>1. s \notin {"apex", "megatron", "liger"} /\ \A m \in BaseModules : Imports(m)
    BY <1>4 DEF Closes, Works
  <2>2. \A m \in {"apex", "megatron", "liger"} : m \in Packages \ Touched(s)
    BY <1>1, <2>1 DEF Touched
  <2>3. BaseModules \subseteq {"apex", "megatron", "liger"} /\ BaseModules' = BaseModules
    BY DEF BaseModules, Skips, Is
  <2>4. (\A m \in BaseModules : Imports(m))'
    BY <1>2, <2>1, <2>2, <2>3
  <2> QED BY <1>4, <2>4 DEF Works
<1>5. CASE c = "checkTilelang"
  <2>1. s \notin {"vllm", "runtime"} /\ Imports("vllm") /\ Imports("runtime")
    BY <1>5 DEF Closes, Works
  <2>2. s # "checkGrpo"
    BY <1>0, <1>5 DEF Required, Is
  <2>3. "vllm" \notin Touched(s) /\ "runtime" \notin Touched(s)
    BY <1>1, <2>1, <2>2 DEF Touched
  <2>4. Imports("vllm")' /\ Imports("runtime")'
    BY <1>1, <1>2, <2>1, <2>3
  <2> QED BY <1>5, <2>4 DEF Works
<1>6. CASE c = "checkTE"
  <2>1. s \notin {"te", "runtime", "build", "environments"} /\ Imports("te")
    BY <1>6 DEF Closes, Works
  <2>2. s \notin {"grpo", "automodel"}
    BY <1>0, <1>6 DEF Required, Is
  <2>3. ~Resolves(s) /\ "te" \notin Touched(s)
    BY <2>1, <2>2 DEF Resolves, Touched
  <2>4. Imports("te")'
    BY <1>1, <1>2, <2>1, <2>3
  <2> QED BY <1>6, <2>4 DEF Works
<1>7. CASE c = "te"
  <2>1. ~Is("prime") /\ ~need.resolve /\ Imports("te")
    BY <1>7 DEF Required, Works
  <2>2. ~Resolves(s)
    BY <1>0, <2>1 DEF Resolves
  <2>3. "te" \notin Touched(s)
    BY <1>7, <2>2 DEF Touched
  <2>4. Imports("te")'
    BY <1>1, <1>2, <2>1, <2>3
  <2> QED BY <1>7, <2>4 DEF Works
<1>8. CASE c = "automodel"
  <2>1. "automodel" \notin Touched(s) /\ Imports("automodel")
    BY <1>1, <1>8 DEF Touched, Works
  <2>2. Imports("automodel")'
    BY <1>1, <1>2, <2>1
  <2> QED BY <1>8, <2>2 DEF Works
<1>9. CASE c = "environments"
  <2>1. s \notin {"runtime", "build", "environments", "torch"}
    BY <1>9 DEF Closes, StepNames
  <2>2. s \notin {"grpo", "automodel"}
    BY <1>0, <1>9 DEF Required, Is
  <2>3. ~Resolves(s) /\ "torch" \notin Touched(s)
    BY <2>1, <2>2 DEF Resolves, Touched
  <2>4. over'["torch"] = over["torch"]
    BY <1>1, <2>3
  <2>5. (~kept => over["torch"] = "none")'
    BY <1>9, <2>4 DEF Works
  <2> QED BY <1>9, <2>5 DEF Works
<1>10. CASE c \in {"runtime", "build", "configs", "sources"}
  <2>1. c \notin Touched(s)
    BY <1>1, <1>10 DEF Touched
  <2>2. over'[c] = over[c]
    BY <1>1, <1>10, <2>1
  <2>3. ~wasCut' => over'[c] = "whole"
    BY <1>10, <2>2 DEF Works
  <2> QED BY <1>10, <2>3 DEF Works
<1> QED
  <2>1. c \in {"checkGrpo", "checkBase", "automodel", "runtime", "build", "configs", "environments", "sources",
               "checkTilelang", "checkTE", "te"}
    BY DEF Required
  <2> QED BY <1>3, <1>4, <1>5, <1>6, <1>7, <1>8, <1>9, <1>10, <2>1

(* A step that touches its own packages only, and after which what it has  *)
(* to establish works, or the installation goes on with it or has failed.  *)
Moves(s) ==
  /\ Running(s) /\ UNCHANGED <<need, image>>
  /\ over' \in [Packages -> Copies] /\ \A p \in Packages \ Touched(s) : over'[p] = over[p]
  /\ wasCut' \in BOOLEAN /\ kept' \in BOOLEAN /\ (wasCut => wasCut') /\ (kept => kept')
  /\ Clean'
  /\ \/ queue' = Tail(queue) /\ result' = "running" /\ (s \in Required => Works(s)')
     \/ queue' = queue /\ result' = "running"
     \/ queue' = <<>> /\ result' = "failed"

LEMMA MovesKeep ==
  ASSUME OverlayInv, NEW s, Moves(s)
  PROVE  OverlayInv'
<1>1. /\ result = "running" /\ queue \in Seq(StepNames) /\ queue # <<>> /\ s = Head(queue)
      /\ need \in Need /\ wasCut \in BOOLEAN /\ kept \in BOOLEAN
      /\ InOrder(queue) /\ OfItsBackend(Elements(queue))
  BY DEF Moves, Running, OverlayInv, OverlayTypes
<1>2. /\ s \in StepNames /\ Tail(queue) \in Seq(StepNames) /\ InOrder(Tail(queue))
      /\ Elements(queue) = {s} \cup Elements(Tail(queue)) /\ Closes(s) \cap Elements(Tail(queue)) = {}
  BY <1>1, Shorter
<1>3. <<>> \in Seq(StepNames) /\ InOrder(<<>>) /\ Elements(<<>>) = {}
  BY NoStep DEF Part
<1>4. OverlayTypes' /\ InOrder(queue') /\ Elements(queue') \subseteq Elements(queue)
  BY <1>1, <1>2, <1>3 DEF Moves, OverlayTypes
<1>5. OfItsBackend(Elements(queue))'
  BY <1>1, <1>4 DEF OfItsBackend, Is, Moves
<1>6. Required' = Required
  BY DEF Moves, Required, Is, UsesBase, UsesTE
<1>7. ASSUME NEW c \in Required, c # s, c \notin Elements(queue) PROVE Works(c)'
  <2>1. Closes(c) \cap Elements(queue) = {} /\ Works(c)
    BY <1>1, <1>7 DEF OverlayInv
  <2>2. s \notin Closes(c) /\ OfItsBackend({s})
    BY <1>1, <1>2, <2>1 DEF OfItsBackend
  <2> QED BY <1>1, <1>2, <1>7, <2>1, <2>2, KeepsWorking DEF Moves
<1>8. ASSUME NEW c \in Required, c \notin Elements(queue) PROVE Closes(c) \cap Elements(queue) = {}
  BY <1>1, <1>8 DEF OverlayInv
<1>9. (result \in {"running", "ready"} =>
         \A c \in Required : c \in Elements(queue) \/ (Closes(c) \cap Elements(queue) = {} /\ Works(c)))'
  <2>1. CASE queue' = Tail(queue) /\ result' = "running" /\ (s \in Required => Works(s)')
    <3> SUFFICES ASSUME NEW c \in Required, c \notin Elements(queue')
                 PROVE  Closes(c) \cap Elements(queue') = {} /\ Works(c)'
      BY <1>6
    <3>1. CASE c = s
      BY <1>2, <2>1, <3>1
    <3>2. CASE c # s
      <4>1. c \notin Elements(queue)
        BY <1>2, <2>1, <3>2
      <4> QED BY <1>4, <1>7, <1>8, <3>2, <4>1
    <3> QED BY <3>1, <3>2
  <2>2. CASE queue' = queue /\ result' = "running"
    <3> SUFFICES ASSUME NEW c \in Required, c \notin Elements(queue')
                 PROVE  Closes(c) \cap Elements(queue') = {} /\ Works(c)'
      BY <1>6
    <3>1. c # s
      BY <1>2, <2>2
    <3> QED BY <1>7, <1>8, <2>2, <3>1
  <2>3. CASE queue' = <<>> /\ result' = "failed"
    BY <2>3
  <2> QED BY <2>1, <2>2, <2>3 DEF Moves
<1> QED BY <1>4, <1>5, <1>9 DEF OverlayInv, Moves

LEMMA WhatIsKnown ==
  ASSUME OverlayInv
  PROVE  /\ need \in Need /\ over \in [Packages -> Copies] /\ wasCut \in BOOLEAN /\ kept \in BOOLEAN /\ Clean
         /\ \A c \in Required \cap Installing :
              c \in {"te", "automodel", "runtime", "build", "configs", "environments", "sources"}
  BY DEF OverlayInv, OverlayTypes, Required, Installing, Packages, Upgrading, Requirements

LEMMA PassOverMoves ==
  ASSUME OverlayInv, NEW s \in Installing, PassOver(s)
  PROVE  Moves(s)
<1>1. over' = over /\ wasCut' = wasCut /\ kept' = kept /\ need' = need /\ image' = image
  BY DEF PassOver, Same
<1>2. Clean'
  BY <1>1, WhatIsKnown DEF Clean
<1>3. ASSUME s \in Required PROVE Works(s)'
  <2>1. s \in {"te", "automodel", "runtime", "build", "configs", "environments", "sources"}
    BY <1>3, WhatIsKnown
  <2>2. s \in {"te", "automodel"} /\ Imports(s)
    BY <2>1 DEF PassOver, HasIt, SkippedIfImportable
  <2>3. Imports(s)'
    BY <1>1, <2>2 DEF Imports, ImportsWith
  <2> QED BY <2>2, <2>3 DEF Works
<1> QED BY <1>1, <1>2, <1>3, WhatIsKnown DEF PassOver, Proceed, Running, Moves

(* What an installation that is not cut short leaves in the overlay.       *)
LEMMA InstalledClean ==
  ASSUME OverlayInv, NEW s \in Installing, NEW ov \in [Packages -> Copies], ~wasCut,
         \A p \in Requirements : ov[p] = Settled(s)[p]
  PROVE  /\ \A p \in Requirements : ov[p] \in {"none", "whole"}
         /\ s \in Requirements \ Protected => ov[s] = "whole"
<1>1. \A p \in Requirements : over[p] \in {"none", "whole"}
  BY WhatIsKnown DEF Clean
<1>2. \A p \in Requirements : p # s => Settled(s)[p] \in {over[p], "none"}
  <2>1. \A p \in Requirements : p \in Packages /\ p # "vllm"
    BY DEF Packages, Requirements
  <2> SUFFICES ASSUME NEW p \in Requirements, p # s PROVE Settled(s)[p] \in {over[p], "none"}
    OBVIOUS
  <2>2. CASE p \in Touched(s)
    <3>1. Resolves(s) /\ p \in Protected
      BY <2>1, <2>2 DEF Touched
    <3> QED BY <3>1, SettledIs, WhatIsKnown
  <2>3. CASE p \notin Touched(s)
    BY <2>1, <2>3, SettledIs, WhatIsKnown
  <2> QED BY <2>2, <2>3
<1>3. ASSUME s \in Requirements PROVE Settled(s)[s] = "whole"
  <2>1. s \in Packages /\ s \notin Upgrading /\ s # "te"
    BY <1>3 DEF Packages, Requirements, Upgrading
  <2>2. Copied(s) = "whole"
    BY <2>1 DEF Copied
  <2>3. Settled(s)[s] = IF over[s] = "none" THEN "whole" ELSE over[s]
    BY <2>1, <2>2, SettledIs, WhatIsKnown
  <2> QED BY <1>1, <1>3, <2>3
<1>4. ASSUME NEW p \in Requirements PROVE ov[p] \in {"none", "whole"}
  BY <1>1, <1>2, <1>3, <1>4
<1> QED BY <1>3, <1>4

(* What is concluded after it.                                             *)
LEMMA Concluded ==
  ASSUME OverlayInv, NEW s \in Installing, Running(s), Conclude(s), UNCHANGED <<need, image>>,
         over' \in [Packages -> Copies], wasCut' = wasCut, kept' \in BOOLEAN,
         s \in Requirements /\ ~wasCut /\ s \notin Protected => over'[s] = "whole",
         s = "te" => over'[s] = Copied(s),
         s = "environments" => kept' \/ over'["torch"] = "none"
  PROVE  \/ queue' = Tail(queue) /\ result' = "running" /\ (s \in Required => Works(s)')
         \/ queue' = <<>> /\ result' = "failed"
<1>1. CASE Raise
  BY <1>1 DEF Raise
<1>2. CASE /\ s = "te" => Copied(s) = "whole"
           /\ s = "automodel" => ImportsWith(over', s)
           /\ Proceed /\ result' = result
  <2>1. queue' = Tail(queue) /\ result' = "running"
    BY <1>2 DEF Proceed, Running
  <2>2. ASSUME s \in Required PROVE Works(s)'
    <3>1. s \in {"te", "automodel", "runtime", "build", "configs", "environments", "sources"}
      BY <2>2, WhatIsKnown
    <3>2. CASE s = "te"
      BY <1>2, <3>2 DEF Works, Imports, ImportsWith
    <3>3. CASE s = "automodel"
      BY <1>2, <3>3 DEF Works, Imports, ImportsWith
    <3>4. CASE s = "environments"
      BY <3>4 DEF Works
    <3>5. CASE s \in {"runtime", "build", "configs", "sources"}
      <4>1. s \in Requirements /\ s \notin Protected
        BY <3>5 DEF Requirements, Protected
      <4>2. ~wasCut' => over'[s] = "whole"
        BY <4>1
      <4> QED BY <3>5, <4>2 DEF Works
    <3> QED BY <3>1, <3>2, <3>3, <3>4, <3>5
  <2> QED BY <2>1, <2>2
<1> QED BY <1>1, <1>2 DEF Conclude

LEMMA InstallMoves ==
  ASSUME OverlayInv, NEW s \in Installing, Install(s)
  PROVE  Moves(s)
<1>0. /\ need' = need /\ image' = image /\ wasCut' = wasCut /\ kept' = kept /\ Running(s) /\ Conclude(s)
      /\ over' = Settled(s) \/ (s = "vllm" /\ over' = [Settled(s) EXCEPT ![s] = "unfit"])
  BY DEF Install, Same
<1>1. PICK st \in [Packages -> Copies] : st = Settled(s)
  BY SettledIs, WhatIsKnown
<1>2. /\ \A p \in Packages \ Touched(s) : st[p] = over[p]
      /\ Resolves(s) => \A p \in Protected : st[p] = "none"
      /\ s \in Packages => st[s] = IF s \in Upgrading \/ over[s] = "none" THEN Copied(s) ELSE over[s]
  BY <1>1, SettledIs, WhatIsKnown
<1>3. "unfit" \in Copies /\ "vllm" \in Packages /\ "torch" \in Protected \cap Packages
      /\ Requirements \subseteq Packages /\ "vllm" \notin Requirements
  BY DEF Copies, Packages, Protected, Requirements, Upgrading
<1>4. over' \in [Packages -> Copies] /\ \A p \in Packages : p # "vllm" => over'[p] = st[p]
  BY <1>0, <1>1, <1>3
<1>5. \A p \in Packages \ Touched(s) : over'[p] = over[p]
  <2>1. s = "vllm" => "vllm" \in Touched(s)
    BY <1>3 DEF Touched
  <2>2. s # "vllm" => over' = st
    BY <1>0, <1>1
  <2> QED BY <1>2, <1>4, <2>1, <2>2
<1>6. over'["torch"] \in {"none", over["torch"]} /\ (Resolves(s) => over'["torch"] = "none")
  <2>1. over'["torch"] = st["torch"]
    BY <1>3, <1>4
  <2>2. ~Resolves(s) => "torch" \notin Touched(s)
    BY DEF Touched, Installing
  <2> QED BY <1>2, <1>3, <2>1, <2>2
<1>7. \A p \in Requirements : over'[p] = Settled(s)[p]
  BY <1>1, <1>3, <1>4
<1>8. ~wasCut => /\ \A p \in Requirements : over'[p] \in {"none", "whole"}
                 /\ s \in Requirements \ Protected => over'[s] = "whole"
  BY <1>4, <1>7, InstalledClean
<1>9. Clean'
  BY <1>0, <1>6, <1>8, WhatIsKnown DEF Clean
<1>10. s = "te" => over'[s] = Copied(s)
  <2>1. s = "te" => s \in Packages /\ s \in Upgrading
    BY DEF Packages, Upgrading
  <2> QED BY <1>2, <1>4, <2>1
<1>11. s = "environments" => over'["torch"] = "none"
  BY <1>6 DEF Resolves
<1>12. \/ queue' = Tail(queue) /\ result' = "running" /\ (s \in Required => Works(s)')
       \/ queue' = <<>> /\ result' = "failed"
  BY <1>0, <1>4, <1>8, <1>10, <1>11, WhatIsKnown, Concluded
<1> QED BY <1>0, <1>4, <1>5, <1>9, <1>12, WhatIsKnown DEF Moves

LEMMA InstallKeepsMoves ==
  ASSUME OverlayInv, NEW s \in Installing, InstallKeeps(s)
  PROVE  Moves(s)
<1>0. /\ need' = need /\ image' = image /\ wasCut' = wasCut /\ kept' = TRUE /\ Running(s) /\ Conclude(s)
      /\ over' = [Settled(s) EXCEPT !["torch"] = "whole"] /\ Resolves(s)
  BY DEF InstallKeeps, Same
<1>1. PICK st \in [Packages -> Copies] : st = Settled(s)
  BY SettledIs, WhatIsKnown
<1>2. \A p \in Packages \ Touched(s) : st[p] = over[p]
  BY <1>1, SettledIs, WhatIsKnown
<1>3. "whole" \in Copies /\ "torch" \in Protected /\ Requirements \subseteq Packages /\ "torch" \notin Requirements
  BY DEF Copies, Packages, Protected, Requirements
<1>4. over' \in [Packages -> Copies] /\ \A p \in Packages : p # "torch" => over'[p] = st[p]
  BY <1>0, <1>1, <1>3
<1>5. \A p \in Packages \ Touched(s) : over'[p] = over[p]
  <2>1. "torch" \in Touched(s)
    BY <1>0, <1>3 DEF Touched
  <2> QED BY <1>2, <1>4, <2>1
<1>6. \A p \in Requirements : over'[p] = Settled(s)[p]
  BY <1>1, <1>3, <1>4
<1>7. ~wasCut => /\ \A p \in Requirements : over'[p] \in {"none", "whole"}
                 /\ s \in Requirements \ Protected => over'[s] = "whole"
  BY <1>4, <1>6, InstalledClean
<1>8. Clean'
  BY <1>0, <1>7 DEF Clean
<1>9. s # "te"
  BY <1>0 DEF Resolves
<1>10. \/ queue' = Tail(queue) /\ result' = "running" /\ (s \in Required => Works(s)')
       \/ queue' = <<>> /\ result' = "failed"
  BY <1>0, <1>4, <1>7, <1>9, Concluded
<1> QED BY <1>0, <1>4, <1>5, <1>8, <1>10, WhatIsKnown DEF Moves

LEMMA CutShort ==
  ASSUME OverlayInv, NEW s \in Installing, CopyIsCut(s), kept' = kept
  PROVE  /\ over' \in [Packages -> Copies] /\ \A p \in Packages \ Touched(s) : over'[p] = over[p]
         /\ wasCut' \in BOOLEAN /\ (wasCut => wasCut') /\ Clean'
<1>1. CASE UNCHANGED <<over, wasCut>>
  BY <1>1, WhatIsKnown DEF Clean
<1>2. CASE ~UNCHANGED <<over, wasCut>>
  <2>1. PICK torch \in {over["torch"]} \cup (IF Resolves(s) THEN {"whole"} ELSE {}) :
          over' = [over EXCEPT ![s] = IF s \in Upgrading \/ over[s] = "none" THEN "cut" ELSE over[s],
                               !["torch"] = torch]
    BY <1>2 DEF CopyIsCut
  <2>2. s \in Packages /\ wasCut' = TRUE
    BY <1>2 DEF CopyIsCut
  <2>3. "torch" \in Packages /\ "torch" \in Protected /\ "cut" \in Copies /\ "whole" \in Copies
    BY DEF Packages, Protected, Copies
  <2>4. torch \in Copies /\ (~Resolves(s) => torch = over["torch"])
    BY <2>3, WhatIsKnown
  <2>5. over \in [Packages -> Copies]
    BY WhatIsKnown
  <2>6. over' \in [Packages -> Copies] /\ \A p \in Packages : p # s /\ p # "torch" => over'[p] = over[p]
    BY <2>1, <2>2, <2>3, <2>4, <2>5
  <2>7. ~Resolves(s) /\ s # "torch" => over'["torch"] = over["torch"]
    BY <2>1, <2>3, <2>4, <2>5
  <2>8. s # "torch"
    BY DEF Installing, Packages, Upgrading, Requirements
  <2>9. \A p \in Packages \ Touched(s) : over'[p] = over[p]
    BY <2>2, <2>3, <2>6, <2>7, <2>8 DEF Touched
  <2> QED BY <2>2, <2>6, <2>9 DEF Clean
<1> QED BY <1>1, <1>2

LEMMA InstallFailsMoves ==
  ASSUME OverlayInv, NEW s \in Installing, InstallFails(s)
  PROVE  Moves(s)
<1>1. need' = need /\ image' = image /\ kept' = kept /\ Running(s) /\ CopyIsCut(s)
  BY DEF InstallFails, Same
<1>2. s \in {"apex", "megatron", "liger"} => s \notin Required
  BY WhatIsKnown
<1>3. \/ queue' = Tail(queue) /\ result' = "running" /\ (s \in Required => Works(s)')
      \/ queue' = queue /\ result' = "running"
      \/ queue' = <<>> /\ result' = "failed"
  BY <1>1, <1>2 DEF InstallFails, Optional, Proceed, Raise, Running
<1> QED BY <1>1, <1>3, CutShort, WhatIsKnown DEF Moves

(* A step that leaves the packages alone.                                  *)
LEMMA LooksMove ==
  ASSUME OverlayInv, NEW s, Running(s), UNCHANGED <<over, wasCut, kept, need, image>>,
         \/ queue' = Tail(queue) /\ result' = "running" /\ (s \in Required => Works(s))
         \/ queue' = queue /\ result' = "running"
         \/ queue' = <<>> /\ result' = "failed"
  PROVE  Moves(s)
<1>1. Clean'
  BY WhatIsKnown DEF Clean
<1>2. Works(s) => Works(s)'
  BY DEF Works, GrpoImports, Imports, ImportsWith, BaseModules, Skips, Is
<1> QED BY <1>1, <1>2, WhatIsKnown DEF Moves

LEMMA SubmodulesMoves ==
  ASSUME OverlayInv, Submodules
  PROVE  Moves("submodules")
<1>1. "submodules" \notin Required
  BY DEF Required
<1>2. Running("submodules") /\ UNCHANGED <<over, wasCut, kept, need, image>>
  BY DEF Submodules, Same
<1>3. \/ queue' = Tail(queue) /\ result' = "running"
      \/ queue' = queue /\ result' = "running"
      \/ queue' = <<>> /\ result' = "failed"
  BY <1>2 DEF Submodules, Proceed, Raise, Running
<1> QED BY <1>1, <1>2, <1>3, LooksMove

LEMMA CheckMoves ==
  ASSUME OverlayInv, NEW s, NEW holds, Check(s, holds), s \in Required /\ holds => Works(s)
  PROVE  Moves(s)
<1>1. Running(s) /\ UNCHANGED <<over, wasCut, kept, need, image>>
  BY DEF Check, Same
<1>2. \/ queue' = Tail(queue) /\ result' = "running" /\ holds
      \/ queue' = <<>> /\ result' = "failed"
  BY <1>1 DEF Check, Proceed, Raise, Running
<1> QED BY <1>1, <1>2, LooksMove

LEMMA ChecksMove ==
  ASSUME OverlayInv, CheckPin \/ CheckBase \/ CheckTilelang \/ CheckTE
  PROVE  \E s \in {"checkPin", "checkBase", "checkTilelang", "checkTE"} : Moves(s)
<1>1. CASE CheckPin
  <2>1. "checkPin" \notin Required
    BY DEF Required
  <2>2. Check("checkPin", over["vllm"] \in {"whole", "unfit"})
    BY <1>1 DEF CheckPin
  <2>3. Moves("checkPin")
    BY <2>1, <2>2, CheckMoves
  <2> QED BY <2>3
<1>2. CASE CheckBase
  <2>1. (\A m \in BaseModules : Imports(m)) => Works("checkBase")
    BY DEF Works
  <2>2. Moves("checkBase")
    BY <1>2, <2>1, CheckMoves DEF CheckBase
  <2> QED BY <2>2
<1>3. CASE CheckTilelang
  <2>1. Imports("vllm") /\ Imports("runtime") => Works("checkTilelang")
    BY DEF Works
  <2>2. Check("checkTilelang", Imports("vllm") /\ Imports("runtime"))
    BY <1>3 DEF CheckTilelang
  <2>3. Moves("checkTilelang")
    BY <2>1, <2>2, CheckMoves
  <2> QED BY <2>3
<1>4. CASE CheckTE
  <2>1. Imports("te") => Works("checkTE")
    BY DEF Works
  <2>2. Check("checkTE", Imports("te"))
    BY <1>4 DEF CheckTE
  <2>3. Moves("checkTE")
    BY <2>1, <2>2, CheckMoves
  <2> QED BY <2>3
<1> QED BY <1>1, <1>2, <1>3, <1>4

LEMMA CheckGrpoMoves ==
  ASSUME OverlayInv, CheckGrpo
  PROVE  Moves("checkGrpo")
<1>1. Running("checkGrpo") /\ UNCHANGED <<wasCut, kept, need, image>>
  BY DEF CheckGrpo, Same
<1>2. CASE over' = over
  <2>1. \/ queue' = Tail(queue) /\ result' = "running" /\ GrpoImports(over)
        \/ queue' = <<>> /\ result' = "failed"
    BY <1>1, <1>2 DEF CheckGrpo, Proceed, Raise, Running
  <2>2. GrpoImports(over) => Works("checkGrpo")
    BY DEF Works
  <2> QED BY <1>1, <1>2, <2>1, <2>2, LooksMove
<1>3. CASE over' = WithoutOverride
  <2>1. "none" \in Copies /\ "vllm" \in Packages /\ "vllm" \notin Requirements /\ "torch" \in Packages
        /\ Requirements \subseteq Packages
    BY DEF Copies, Packages, Requirements, Upgrading
  <2>2. over \in [Packages -> Copies] /\ over' = [over EXCEPT !["vllm"] = "none"]
    BY <1>3, WhatIsKnown DEF WithoutOverride
  <2>3. over' \in [Packages -> Copies] /\ \A p \in Packages : p # "vllm" => over'[p] = over[p]
    BY <2>1, <2>2
  <2>4. \A p \in Packages \ Touched("checkGrpo") : over'[p] = over[p]
    BY <2>3 DEF Touched
  <2>5. Clean'
    BY <1>1, <2>1, <2>3, WhatIsKnown DEF Clean
  <2>6. \/ queue' = Tail(queue) /\ result' = "running" /\ (GrpoImports(over') \/ over' = over)
        \/ queue' = <<>> /\ result' = "failed"
    BY <1>1 DEF CheckGrpo, Proceed, Raise, Running
  <2>7. CASE over' # over
    <3>1. GrpoImports(over') => Works("checkGrpo")'
      BY <1>1 DEF Works, GrpoImports, ImportsWith
    <3> QED BY <1>1, <2>3, <2>4, <2>5, <2>6, <2>7, <3>1, WhatIsKnown DEF Moves
  <2> QED BY <1>2, <2>7
<1> QED BY <1>2, <1>3 DEF CheckGrpo

-----------------------------------------------------------------------------
(* The invariant of the overlay.                                           *)

LEMMA OverlayInvInit ==
  ASSUME Init
  PROVE  OverlayInv
<1>1. OverlayInit /\ need \in Need
  BY NeedsAssumption DEF Init, OverlayInit
<1>2. <<>> \in Seq(StepNames) /\ InOrder(<<>>) /\ Elements(<<>>) = {}
  BY NoStep DEF Part
<1>3. over = [p \in Packages |-> "none"] /\ "none" \in Copies /\ Requirements \cup {"torch"} \subseteq Packages
  BY <1>1 DEF OverlayInit, Copies, Packages
<1>4. OverlayTypes
  BY <1>1, <1>2, <1>3 DEF OverlayInit, OverlayTypes
<1>5. Clean
  BY <1>3 DEF Clean
<1>6. InOrder(queue) /\ OfItsBackend(Elements(queue)) /\ result = "idle"
  BY <1>1, <1>2 DEF OverlayInit, OfItsBackend
<1> QED BY <1>4, <1>5, <1>6 DEF OverlayInv

LEMMA BeginKeeps ==
  ASSUME OverlayInv, BeginOverlay
  PROVE  OverlayInv'
<1>1. need \in Need /\ need' = need /\ queue' = InstallSteps /\ result' = "running"
      /\ UNCHANGED <<image, over, wasCut, kept>>
  BY DEF BeginOverlay, OverlayInv, OverlayTypes
<1>2. queue' \in Seq(StepNames) /\ InOrder(queue') /\ Elements(queue') = InstallElements
  BY <1>1, InstallPart DEF Part
<1>3. Required' \subseteq Elements(queue') /\ OfItsBackend(Elements(queue))'
  <2>1. Required' = Required
    BY <1>1 DEF Required, Is, UsesBase, UsesTE
  <2>2. OfItsBackend(Elements(queue))'
    BY <1>1, <1>2, RequiredIsInstalled DEF OfItsBackend, Is
  <2> QED BY <1>1, <1>2, <2>1, <2>2, RequiredIsInstalled
<1>4. OverlayTypes' /\ Clean'
  BY <1>1, <1>2 DEF OverlayInv, OverlayTypes, Clean
<1> QED BY <1>2, <1>3, <1>4 DEF OverlayInv

LEMMA EndsKeep ==
  ASSUME OverlayInv, FinishOverlay \/ KillInstall \/ LaunchAgain
  PROVE  OverlayInv'
<1>0. <<>> \in Seq(StepNames) /\ InOrder(<<>>) /\ Elements(<<>>) = {}
  BY NoStep DEF Part
<1>1. CASE FinishOverlay
  <2>1. result = "running" /\ result' = "ready" /\ queue = <<>> /\ UNCHANGED <<need, image, over, queue, wasCut, kept>>
    BY <1>1 DEF FinishOverlay, Same
  <2>2. OverlayTypes' /\ Clean' /\ InOrder(queue') /\ OfItsBackend(Elements(queue))'
    BY <2>1 DEF OverlayInv, OverlayTypes, Clean, OfItsBackend, Is
  <2>3. Required' = Required
    BY <2>1 DEF Required, Is, UsesBase, UsesTE
  <2>4. \A c \in Required : Works(c) => Works(c)'
    BY <2>1 DEF Works, GrpoImports, Imports, ImportsWith, BaseModules, Skips, Is
  <2>5. \A c \in Required : c \in Elements(queue) \/ (Closes(c) \cap Elements(queue) = {} /\ Works(c))
    BY <2>1 DEF OverlayInv
  <2>6. (\A c \in Required : c \in Elements(queue) \/ (Closes(c) \cap Elements(queue) = {} /\ Works(c)))'
    BY <2>1, <2>3, <2>4, <2>5
  <2> QED BY <2>2, <2>6 DEF OverlayInv
<1>2. CASE KillInstall
  <2>1. queue' = <<>> /\ result' = "failed" /\ UNCHANGED <<need, image, kept>>
    BY <1>2 DEF KillInstall, Same
  <2>2. over' \in [Packages -> Copies] /\ wasCut' \in BOOLEAN /\ Clean'
    <3>1. CASE queue # <<>> /\ Head(queue) \in Installing /\ ~HasIt(Head(queue))
      <4>1. CopyIsCut(Head(queue))
        BY <1>2, <3>1 DEF KillInstall
      <4> QED BY <2>1, <3>1, <4>1, CutShort
    <3>2. CASE ~(queue # <<>> /\ Head(queue) \in Installing /\ ~HasIt(Head(queue)))
      <4>1. UNCHANGED <<over, wasCut>>
        BY <1>2, <3>2 DEF KillInstall
      <4> QED BY <2>1, <4>1, WhatIsKnown DEF Clean
    <3> QED BY <3>1, <3>2
  <2>3. OverlayTypes'
    BY <2>1, <2>2, <1>0, WhatIsKnown DEF OverlayTypes
  <2>4. InOrder(queue') /\ OfItsBackend(Elements(queue))'
    BY <1>0, <2>1 DEF OfItsBackend
  <2> QED BY <2>1, <2>2, <2>3, <2>4 DEF OverlayInv
<1>3. CASE LaunchAgain
  <2>1. result' = "idle" /\ result # "running" /\ UNCHANGED <<need, image, over, queue, wasCut, kept>>
    BY <1>3 DEF LaunchAgain, Same
  <2>2. OverlayTypes' /\ Clean' /\ InOrder(queue') /\ OfItsBackend(Elements(queue))'
    BY <2>1 DEF OverlayInv, OverlayTypes, Clean, OfItsBackend, Is
  <2> QED BY <2>1, <2>2 DEF OverlayInv
<1> QED BY <1>1, <1>2, <1>3

LEMMA OverlayInvStep ==
  ASSUME OverlayInv, [Next]_vars
  PROVE  OverlayInv'
<1>1. CASE OverlayStep
  <2>1. CASE BeginOverlay \/ FinishOverlay \/ KillInstall \/ LaunchAgain
    BY <2>1, BeginKeeps, EndsKeep
  <2>2. ASSUME NEW s \in Installing, PassOver(s) \/ Install(s) \/ InstallKeeps(s) \/ InstallFails(s)
        PROVE  OverlayInv'
    <3>1. Moves(s)
      BY <2>2, PassOverMoves, InstallMoves, InstallKeepsMoves, InstallFailsMoves
    <3> QED BY <3>1, MovesKeep
  <2>3. CASE Submodules \/ CheckBase \/ CheckGrpo \/ CheckPin \/ CheckTilelang \/ CheckTE
    BY <2>3, SubmodulesMoves, ChecksMove, CheckGrpoMoves, MovesKeep
  <2> QED BY <1>1, <2>1, <2>2, <2>3 DEF OverlayStep
<1>2. CASE UNCHANGED overlayVars
  <2>1. UNCHANGED <<need, image, over, queue, result, wasCut, kept>>
    BY <1>2 DEF overlayVars
  <2> QED BY <2>1 DEF OverlayInv, OverlayTypes, Clean, OfItsBackend, Required, Works, GrpoImports, Imports,
                     ImportsWith, BaseModules, Skips, Is, UsesBase, UsesTE
<1> QED BY <1>1, <1>2 DEF Next, vars

LEMMA ReadyIsUsable ==
  ASSUME OverlayInv
  PROVE  InstalledIsUsable
<1> SUFFICES ASSUME result = "ready"
             PROVE  /\ \A m \in Imported : Imports(m)
                    /\ (Is("prime") \/ ~wasCut) /\ ~kept => over["torch"] = "none"
  BY DEF InstalledIsUsable
<1>1. need \in Need /\ queue = <<>>
  BY DEF OverlayInv, OverlayTypes
<1>2. \A c \in Required : Works(c)
  BY <1>1, NoStep DEF OverlayInv, Part
<1>3. need.backend \in {"sft", "grpo", "verl", "prime"} /\ need.te \in BOOLEAN /\ need.teacher \in BOOLEAN
  BY <1>1 DEF Need
<1>4. ASSUME NEW m \in Imported PROVE Imports(m)
  <2>1. CASE Is("grpo") /\ m \in {"grpo", "vllm"}
    <3>1. Works("checkGrpo")
      BY <1>2, <2>1 DEF Required
    <3> QED BY <2>1, <3>1 DEF Works, GrpoImports, Imports
  <2>2. CASE ~Is("grpo") /\ UsesBase /\ m \in BaseModules
    <3>1. Works("checkBase")
      BY <1>2, <2>2 DEF Required
    <3> QED BY <2>2, <3>1 DEF Works
  <2>3. CASE Is("verl") /\ m = "automodel"
    <3>1. Works("automodel")
      BY <1>2, <2>3 DEF Required
    <3> QED BY <2>3, <3>1 DEF Works
  <2>4. CASE Is("prime") /\ need.teacher /\ m \in {"runtime", "vllm"}
    <3>1. Works("checkTilelang")
      BY <1>2, <2>4 DEF Required
    <3> QED BY <2>4, <3>1 DEF Works
  <2>5. CASE Is("prime") /\ ~wasCut /\ m \in {"runtime", "build", "configs", "sources"}
    <3>1. Works(m)
      BY <1>2, <2>5 DEF Required
    <3>2. over[m] = "whole"
      BY <2>5, <3>1 DEF Works
    <3> QED BY <3>2 DEF Imports, ImportsWith
  <2>6. CASE UsesTE /\ Is("prime") /\ m = "te"
    <3>1. Works("checkTE")
      BY <1>2, <2>6 DEF Required
    <3> QED BY <2>6, <3>1 DEF Works
  <2>7. CASE UsesTE /\ ~Is("prime") /\ ~need.resolve /\ m = "te"
    <3>1. Works("te")
      BY <1>2, <2>7 DEF Required
    <3> QED BY <2>7, <3>1 DEF Works
  <2> QED BY <1>4, <2>1, <2>2, <2>3, <2>4, <2>5, <2>6, <2>7 DEF Imported
<1>5. (Is("prime") \/ ~wasCut) /\ ~kept => over["torch"] = "none"
  <2>1. CASE Is("prime")
    <3>1. Works("environments")
      BY <1>2, <2>1 DEF Required
    <3> QED BY <3>1 DEF Works
  <2>2. CASE ~Is("prime")
    BY <2>2 DEF OverlayInv, Clean
  <2> QED BY <2>1, <2>2
<1> QED BY <1>4, <1>5

(* A runtime that is announced as ready can be used, whatever the options, *)
(* the image and the state in which earlier launches left the overlay: for *)
(* every set of options, the list of steps looks at each package after the *)
(* last step that could disturb it.                                        *)
THEOREM ReadyMeansUsable == Spec => []InstalledIsUsable
<1>1. Init => OverlayInv
  BY OverlayInvInit
<1>2. OverlayInv /\ [Next]_vars => OverlayInv'
  BY OverlayInvStep
<1>3. OverlayInv => InstalledIsUsable
  BY ReadyIsUsable
<1> QED BY <1>1, <1>2, <1>3, PTL DEF Spec

-----------------------------------------------------------------------------
(* Division, as far as batches and ranks need it.                          *)

(* Quotients and remainders as numbers of their own.                       *)
LEMMA DivMod ==
  ASSUME NEW a \in Nat, NEW b \in Nat \ {0}
  PROVE  \E q \in Nat, r \in Nat : q = a \div b /\ r = a % b /\ r < b /\ a = b * q + r
<1>1. a \div b \in Int /\ a % b \in Nat /\ a % b < b
  OBVIOUS
<1>2. PICK q \in Int, r \in Int : q = a \div b /\ r = a % b
  BY <1>1
<1>3. a = b * q + r
  BY <1>2
<1>4. q >= 0
  BY <1>2
<1>5. q \in Nat
  BY <1>4
<1>6. r \in Nat /\ r < b
  BY <1>1, <1>2
<1> QED BY <1>2, <1>3, <1>5, <1>6, Zenon

LEMMA MultipleIsMonotone ==
  ASSUME NEW x \in Nat, NEW y \in Nat, NEW b \in Nat, x <= y
  PROVE  b * x <= b * y /\ x * b <= y * b
<1>1. PICK d \in Nat : y = x + d
  <2>1. y - x \in Nat /\ y = x + (y - x)
    OBVIOUS
  <2> QED BY <2>1
<1>2. b * y = b * x + b * d /\ b * d \in Nat
  BY <1>1
<1> QED BY <1>2

LEMMA DivisionIsUnique ==
  ASSUME NEW b \in Nat \ {0}, NEW q \in Nat, NEW r \in Nat, r < b, NEW p \in Nat, NEW s \in Nat, s < b,
         b * q + r = b * p + s
  PROVE  q = p /\ r = s
<1>1. CASE q < p
  <2>1. b * (q + 1) <= b * p
    BY <1>1, MultipleIsMonotone
  <2>2. b * (q + 1) = b * q + b
    OBVIOUS
  <2>3. b * q \in Nat /\ b * p \in Nat
    OBVIOUS
  <2> QED BY <2>1, <2>2, <2>3
<1>2. CASE p < q
  <2>1. b * (p + 1) <= b * q
    BY <1>2, MultipleIsMonotone
  <2>2. b * (p + 1) = b * p + b
    OBVIOUS
  <2>3. b * q \in Nat /\ b * p \in Nat
    OBVIOUS
  <2> QED BY <2>1, <2>2, <2>3
<1>3. CASE p = q
  <2>1. b * q \in Nat
    OBVIOUS
  <2> QED BY <1>3, <2>1
<1> QED BY <1>1, <1>2, <1>3

LEMMA MultipleDivides ==
  ASSUME NEW n \in Nat, NEW b \in Nat \ {0}
  PROVE  /\ (n * b) % b = 0 /\ (n * b) \div b = n /\ n * b \in Nat
         /\ (b * n) % b = 0 /\ (b * n) \div b = n
<1>1. n * b \in Nat /\ n * b = b * n
  OBVIOUS
<1>2. PICK m \in Nat : m = n * b
  BY <1>1
<1>3. PICK q \in Nat, r \in Nat : q = m \div b /\ r = m % b /\ r < b /\ m = b * q + r
  BY <1>2, DivMod
<1>4. b * q + r = b * n + 0
  BY <1>1, <1>2, <1>3
<1>5. q = n /\ r = 0
  BY <1>3, <1>4, DivisionIsUnique
<1> QED BY <1>1, <1>2, <1>3, <1>5

NatLess == OpToRel(<, Nat)

(* A nonempty set of numbers has the minimum that Min takes of it.         *)
LEMMA Smallest ==
  ASSUME NEW S, S \subseteq Nat, S # {}
  PROVE  Min(S) \in S /\ \A k \in S : Min(S) <= k
<1>1. IsWellFoundedOn(NatLess, Nat)
  BY NatLessThanWellFounded DEF NatLess
<1>2. PICK m \in S : \A k \in S : ~(<<k, m>> \in NatLess)
  BY <1>1, WFMin
<1>3. \A k \in S : k < m => <<k, m>> \in NatLess
  <2> SUFFICES ASSUME NEW k \in S, k < m PROVE <<k, m>> \in NatLess
    OBVIOUS
  <2>1. <<k, m>> \in Nat \X Nat /\ <<k, m>>[1] < <<k, m>>[2]
    OBVIOUS
  <2> QED BY <2>1 DEF NatLess, OpToRel
<1>4. \A k \in S : m <= k
  <2> SUFFICES ASSUME NEW k \in S PROVE m <= k
    OBVIOUS
  <2>1. k \in Nat /\ m \in Nat /\ ~(k < m)
    BY <1>2, <1>3
  <2> QED BY <2>1
<1> QED BY <1>4 DEF Min

-----------------------------------------------------------------------------
(* WorkerPlan: what the scheduler's variables are taken for.              *)

LEMMA SomeCluster ==
  ASSUME host \in Described
  PROVE  \E N \in Nat \ {0}, G \in Nat \ {0} : N = host.nodes /\ G = host.gpus
  BY DEF Described

(* Variables that cannot be misread are read as they are meant.             *)
LEMMA ClearlyRead ==
  ASSUME host \in Described, Clear
  PROVE  /\ NumNodes = host.nodes /\ ~WorldSizeRefused
         /\ \A n \in Ranks : host.told # "none" => NodeRank(n) = n
<1>1. PICK N \in Nat \ {0}, G \in Nat \ {0} : N = host.nodes /\ G = host.gpus
  BY SomeCluster
<1>2. /\ host.told \in {"options", "none", "nodes", "processes"} /\ host.mode \in {"auto", "nodes", "processes"}
      /\ Meant
  BY DEF Described, Clear
<1>3. CASE host.told = "options"
  BY <1>1, <1>3 DEF NumNodes, WorldSizeRefused, NodeRank
<1>4. CASE host.told = "none"
  BY <1>1, <1>2, <1>4 DEF Meant, NumNodes, WorldSizeRefused, WorldSize
<1>5. CASE host.told = "nodes"
  <2>1. N <= G \/ host.mode = "nodes"
    BY <1>1, <1>2, <1>5 DEF Clear, Meant
  <2>2. WorldSize = N /\ host.mode \in {"nodes", "auto"}
    BY <1>1, <1>2, <1>5 DEF WorldSize, Meant
  <2>3. NumNodes = N
    BY <1>1, <1>5, <2>1, <2>2 DEF NumNodes
  <2>4. ~WorldSizeRefused
    BY <1>5 DEF WorldSizeRefused
  <2>5. ASSUME NEW n \in Ranks PROVE NodeRank(n) = n
    <3>1. n \in Nat /\ n < N
      BY <1>1 DEF Ranks
    <3>2. RankVariable(n) = n
      BY <1>5 DEF RankVariable
    <3> QED BY <1>1, <1>5, <2>3, <3>1, <3>2 DEF NodeRank
  <2> QED BY <1>1, <2>3, <2>4, <2>5
<1>6. CASE host.told = "processes"
  <2>1. N <= G /\ host.mode \in {"processes", "auto"} /\ (host.mode = "auto" => N > 1)
    BY <1>1, <1>2, <1>6 DEF Clear, Meant
  <2>2. PICK W \in Nat : W = N * G
    OBVIOUS
  <2>3. W % G = 0 /\ W \div G = N
    BY <2>2, MultipleDivides
  <2>4. WorldSize = W
    BY <1>1, <1>6, <2>2 DEF WorldSize
  <2>5. N > 1 => W > G
    <3>1. N > 1 => G * 2 <= G * N
      BY MultipleIsMonotone
    <3>2. W = G * N /\ G * 2 > G
      BY <2>2
    <3> QED BY <3>1, <3>2
  <2>6. W # 0
    <3>1. G * 1 <= G * N
      BY MultipleIsMonotone
    <3> QED BY <2>2, <3>1
  <2>7. NumNodes = N
    <3>1. CASE host.mode = "processes"
      BY <1>1, <1>6, <2>3, <2>4, <2>6, <3>1 DEF NumNodes, Larger
    <3>2. CASE host.mode = "auto"
      BY <1>1, <1>6, <2>1, <2>3, <2>4, <2>5, <2>6, <3>2 DEF NumNodes
    <3> QED BY <2>1, <3>1, <3>2
  <2>8. ~WorldSizeRefused
    BY <1>1, <2>3, <2>4 DEF WorldSizeRefused
  <2>9. ASSUME NEW n \in Ranks PROVE NodeRank(n) = n
    <3>1. n \in Nat /\ n < N
      BY <1>1 DEF Ranks
    <3>2. PICK raw \in Nat : raw = n * G
      BY <3>1
    <3>3. RankVariable(n) = raw
      BY <1>1, <1>6, <3>2 DEF RankVariable
    <3>4. raw % G = 0 /\ raw \div G = n
      BY <3>1, <3>2, MultipleDivides
    <3>5. n = 0 => raw = 0
      BY <3>2
    <3>6. n > 0 => raw >= N
      <4>1. n > 0 => G * 1 <= G * n
        BY <3>1, MultipleIsMonotone
      <4> QED BY <2>1, <3>1, <3>2, <4>1
    <3> QED BY <1>1, <1>6, <2>1, <2>7, <3>1, <3>3, <3>4, <3>5, <3>6 DEF NodeRank
  <2> QED BY <1>1, <2>7, <2>8, <2>9
<1> QED BY <1>2, <1>3, <1>4, <1>5, <1>6

(* Nodes that have met have read what was meant, even where it can be       *)
(* misread.                                                                 *)
LEMMA MetAsMeant ==
  ASSUME host \in Described, Meant, ~WorldSizeRefused,
         \A n \in Ranks : ~LaunchRefused(n, NumNodes, NodeRank(n)),
         NumNodes = 1 \/ \A r \in 0 .. (NumNodes - 1) : \E n \in Ranks : NodeRank(n) = r
  PROVE  /\ NumNodes = host.nodes
         /\ \A n \in Ranks : host.told # "none" => NodeRank(n) = n
<1>1. PICK N \in Nat \ {0}, G \in Nat \ {0} : N = host.nodes /\ G = host.gpus
  BY SomeCluster
<1>2. host.told \in {"options", "none", "nodes", "processes"} /\ host.mode \in {"auto", "nodes", "processes"}
  BY DEF Described
<1>3. CASE host.told \in {"options", "none"}
  <2>1. Clear
    BY <1>3 DEF Clear
  <2> QED BY <2>1, ClearlyRead
<1>4. CASE host.told = "nodes"
  <2>1. host.mode = "nodes" \/ host.mode = "auto"
    BY <1>2, <1>4 DEF Meant
  <2>2. CASE host.mode = "nodes" \/ N <= G
    <3>1. Clear
      BY <1>1, <1>4, <2>1, <2>2 DEF Clear
    <3> QED BY <3>1, ClearlyRead
  <2>3. CASE host.mode = "auto" /\ N > G
    <3>1. WorldSize = N
      BY <1>1, <1>4 DEF WorldSize
    <3>2. CASE N % G # 0
      <4>1. NumNodes = N
        BY <1>1, <1>4, <2>3, <3>1, <3>2 DEF NumNodes
      <4>2. ASSUME NEW n \in Ranks PROVE NodeRank(n) = n
        <5>1. n \in Nat /\ n < N
          BY <1>1 DEF Ranks
        <5>2. RankVariable(n) = n
          BY <1>4 DEF RankVariable
        <5> QED BY <1>1, <1>4, <4>1, <5>1, <5>2 DEF NodeRank
      <4> QED BY <1>1, <4>1, <4>2
    <3>3. CASE N % G = 0
      <4>1. PICK m \in Nat : m = N \div G /\ N = G * m
        <5>1. PICK q \in Nat, r \in Nat : q = N \div G /\ r = N % G /\ r < G /\ N = G * q + r
          BY DivMod
        <5>2. r = 0 /\ G * q \in Nat
          BY <3>3, <5>1
        <5>3. N = G * q
          BY <5>1, <5>2
        <5> QED BY <5>1, <5>3
      <4>2. NumNodes = m
        BY <1>1, <1>4, <2>3, <3>1, <3>3, <4>1 DEF NumNodes
      <4>3. m > 1
        <5>1. m <= 1 => G * m <= G * 1
          BY <4>1, MultipleIsMonotone
        <5> QED BY <2>3, <4>1, <5>1
      <4>4. CASE G = 1
        <5>1. m = N
          BY <4>1, <4>4
        <5>2. ASSUME NEW n \in Ranks PROVE NodeRank(n) = n
          <6>1. n \in Nat /\ n < N
            BY <1>1 DEF Ranks
          <6>2. RankVariable(n) = n
            BY <1>4 DEF RankVariable
          <6> QED BY <1>1, <1>4, <4>2, <5>1, <6>1, <6>2 DEF NodeRank
        <5> QED BY <1>1, <4>2, <5>1, <5>2
      <4>5. CASE G > 1
        <5>1. PICK last \in Nat : last = N - 1
          OBVIOUS
        <5>2. last \in Ranks /\ RankVariable(last) = last
          BY <1>1, <1>4, <5>1 DEF Ranks, RankVariable
        <5>3. last >= m
          <6>1. m * 2 <= m * G
            BY <4>1, <4>5, MultipleIsMonotone
          <6>2. m * G = N
            BY <4>1
          <6> QED BY <4>1, <4>3, <5>1, <6>1, <6>2
        <5>4. last % G # 0
          <6>1. PICK q \in Nat, r \in Nat : q = last \div G /\ r = last % G /\ r < G /\ last = G * q + r
            BY DivMod
          <6>2. CASE r = 0
            <7>1. G * m = G * q + 1
              BY <4>1, <5>1, <6>1, <6>2
            <7>2. G * m + 0 = G * q + 1
              BY <4>1, <7>1
            <7> QED BY <4>1, <4>5, <6>1, <7>2, DivisionIsUnique
          <6> QED BY <6>1, <6>2
        <5>5. NodeRank(last) = last
          BY <1>1, <1>4, <2>3, <4>2, <5>2, <5>4 DEF NodeRank
        <5>6. LaunchRefused(last, NumNodes, NodeRank(last))
          BY <4>1, <4>2, <4>3, <5>3, <5>5 DEF LaunchRefused
        <5> QED BY <5>2, <5>6
      <4> QED BY <4>4, <4>5
    <3> QED BY <3>2, <3>3
  <2> QED BY <2>1, <2>2, <2>3
<1>5. CASE host.told = "processes"
  <2>1. host.mode = "processes" \/ host.mode = "auto"
    BY <1>2, <1>5 DEF Meant
  <2>2. PICK W \in Nat : W = N * G
    OBVIOUS
  <2>3. W % G = 0 /\ W \div G = N /\ WorldSize = W /\ W # 0
    <3>1. WorldSize = W
      BY <1>1, <1>5, <2>2 DEF WorldSize
    <3>2. G * 1 <= G * N
      BY MultipleIsMonotone
    <3> QED BY <2>2, <3>1, <3>2, MultipleDivides
  <2>4. CASE host.mode = "auto" /\ N = 1
    <3>1. W = G
      BY <2>2, <2>4
    <3>2. NumNodes = G
      BY <1>1, <1>5, <2>3, <2>4, <3>1 DEF NumNodes
    <3>3. Ranks = {0}
      BY <1>1, <2>4 DEF Ranks
    <3>4. RankVariable(0) = 0
      BY <1>1, <1>5 DEF RankVariable
    <3>5. NodeRank(0) = 0
      BY <1>1, <1>5, <3>2, <3>4 DEF NodeRank
    <3>6. G = 1
      <4>1. G > 1 => 1 \in 0 .. (NumNodes - 1) /\ NumNodes # 1
        BY <3>2
      <4> QED BY <3>3, <3>5, <4>1
    <3> QED BY <1>1, <2>4, <3>2, <3>3, <3>5, <3>6
  <2>5. CASE host.mode = "processes" \/ N > 1
    <3>1. NumNodes = N
      <4>1. CASE host.mode = "processes"
        BY <1>1, <1>5, <2>3, <4>1 DEF NumNodes, Larger
      <4>2. CASE host.mode = "auto" /\ N > 1
        <5>1. G * 2 <= G * N
          BY <4>2, MultipleIsMonotone
        <5>2. W > G
          BY <2>2, <5>1
        <5> QED BY <1>1, <1>5, <2>3, <4>2, <5>2 DEF NumNodes
      <4> QED BY <2>1, <2>5, <4>1, <4>2
    <3>2. ASSUME NEW n \in Ranks
          PROVE  /\ n = 0 => NodeRank(n) = 0
                 /\ n * G >= N => NodeRank(n) = n
                 /\ n * G < N => NodeRank(n) = n * G
      <4>1. n \in Nat /\ n < N
        BY <1>1 DEF Ranks
      <4>2. PICK raw \in Nat : raw = n * G
        BY <4>1
      <4>3. RankVariable(n) = raw /\ raw % G = 0 /\ raw \div G = n
        BY <1>1, <1>5, <4>1, <4>2, MultipleDivides DEF RankVariable
      <4>4. NodeRank(n) = IF raw >= N THEN n ELSE raw
        BY <1>1, <1>5, <2>1, <3>1, <4>3 DEF NodeRank
      <4>5. n = 0 => raw = 0
        BY <4>2
      <4> QED BY <4>1, <4>2, <4>4, <4>5
    <3>3. G >= N \/ G = 1
      <4>1. SUFFICES ASSUME G < N, G # 1 PROVE FALSE
        OBVIOUS
      <4>2. PICK n \in Ranks : NodeRank(n) = 1
        <5>1. 1 \in 0 .. (NumNodes - 1) /\ NumNodes # 1
          BY <3>1, <4>1
        <5> QED BY <5>1
      <4>3. n \in Nat /\ n # 0
        BY <1>1, <3>2, <4>2 DEF Ranks
      <4>4. G * 1 <= G * n /\ G * n \in Nat /\ n * G = G * n
        BY <4>3, MultipleIsMonotone
      <4>5. n = 1 => n * G < N
        BY <4>1, <4>4
      <4> QED BY <3>2, <4>1, <4>2, <4>3, <4>4, <4>5
    <3>4. ASSUME NEW n \in Ranks PROVE NodeRank(n) = n
      <4>1. n \in Nat /\ n < N
        BY <1>1 DEF Ranks
      <4>2. CASE n = 0
        BY <3>2, <4>2
      <4>3. CASE n # 0 /\ G >= N
        <5>1. G * 1 <= G * n /\ G * n = n * G /\ n * G \in Nat
          BY <4>1, <4>3, MultipleIsMonotone
        <5> QED BY <3>2, <4>3, <5>1
      <4>4. CASE G = 1
        <5>1. n * G = n
          BY <4>1, <4>4
        <5> QED BY <3>2, <4>1, <5>1
      <4> QED BY <3>3, <4>2, <4>3, <4>4
    <3> QED BY <1>1, <3>1, <3>4
  <2> QED BY <2>1, <2>4, <2>5
<1> QED BY <1>2, <1>3, <1>4, <1>5

-----------------------------------------------------------------------------
(* The portions in which a launch trains.                                  *)

(* An accepted topology has a positive number of data-parallel replicas.   *)
LEMMA Degrees ==
  ASSUME host \in Described, opts \in Options, NEW nodes \in Nat \ {0}, ~TopologyRefused(nodes)
  PROVE  \E D \in Nat \ {0} : D = DP(nodes)
<1>1. PICK G \in Nat \ {0} : G = host.gpus
  BY DEF Described
<1>2. PICK t \in Nat \ {0}, c \in Nat \ {0}, p \in Nat \ {0} : t = TP /\ c = opts.cp /\ p = opts.pp
  <2>1. TP \in Nat \ {0} /\ opts.cp \in Nat \ {0} /\ opts.pp \in Nat \ {0}
    BY DEF TP, Options
  <2> QED BY <2>1
<1>3. PICK M \in Nat \ {0} : M = t * c * p
  <2>1. t * c \in Nat \ {0}
    OBVIOUS
  <2>2. PICK x \in Nat \ {0} : x = t * c
    BY <2>1
  <2>3. x * p \in Nat \ {0}
    OBVIOUS
  <2> QED BY <2>2, <2>3
<1>4. M = ModelParallel
  BY <1>2, <1>3 DEF ModelParallel
<1>5. PICK w \in Nat \ {0} : w = nodes * G
  <2>1. nodes * G \in Nat \ {0}
    OBVIOUS
  <2> QED BY <2>1
<1>6. w % M = 0
  BY <1>1, <1>4, <1>5 DEF TopologyRefused
<1>7. PICK q \in Nat, r \in Nat : q = w \div M /\ r = w % M /\ r < M /\ w = M * q + r
  BY DivMod
<1>8. q # 0
  <2>1. q = 0 => M * q = 0
    OBVIOUS
  <2> QED BY <1>6, <1>7, <2>1
<1>9. q = DP(nodes)
  BY <1>1, <1>4, <1>5, <1>7 DEF DP
<1> QED BY <1>8, <1>9

LEMMA LargerIsLarger ==
  ASSUME NEW a \in Nat, NEW b \in Nat
  PROVE  Larger(a, b) \in Nat /\ Larger(a, b) >= a /\ Larger(a, b) >= b
  BY DEF Larger

(* The global batch is a number, however it is asked for.                  *)
LEMMA GlobalIsNat ==
  ASSUME opts \in Options, NEW nodes, NEW D \in Nat, D = DP(nodes)
  PROVE  GlobalBatch(nodes) \in Nat
<1>1. PICK L \in Nat, a \in Nat, k \in Nat, s \in Nat :
        L = opts.length /\ k = AskedMicro /\ a = Larger(opts.accum, opts.pp) /\ s = opts.seqs
  <2>1. /\ opts.length \in Nat /\ AskedMicro \in Nat /\ opts.accum \in Nat /\ opts.pp \in Nat /\ opts.seqs \in Nat
    BY DEF Options, AskedMicro
  <2>2. Larger(opts.accum, opts.pp) \in Nat
    BY <2>1, LargerIsLarger
  <2> QED BY <2>1, <2>2
<1>2. s * L \in Nat /\ D * k * a * L \in Nat
  OBVIOUS
<1>3. opts.tokens \in Nat
  BY DEF Options
<1> QED BY <1>1, <1>2, <1>3 DEF GlobalBatch

(* The microbatches of all ranks add up to the global batch.                *)
LEMMA BatchAddsUp ==
  ASSUME opts \in Options, NEW nodes, NEW D \in Nat \ {0}, D = DP(nodes), NEW g \in Nat, ~BatchRefused(g, nodes)
  PROVE  \E a \in Nat, m \in Nat :
           /\ a = Accum(g, nodes) /\ m = Micro(g, nodes)
           /\ opts.length * m * a * D = g
           /\ a >= opts.pp
           /\ opts.micro > 0 => m = opts.micro
           /\ ~(opts.micro > 0) => m <= MicroLimit
<1>1. PICK L \in Nat \ {0}, p \in Nat \ {0}, k \in Nat : L = opts.length /\ p = opts.pp /\ k = opts.micro
  BY DEF Options
<1>2. PICK per \in Nat, r \in Nat : per = g \div D /\ r = g % D /\ r < D /\ g = D * per + r
  BY DivMod
<1>3. PICK S \in Nat, e \in Nat : S = per \div L /\ e = per % L /\ e < L /\ per = L * S + e
  BY DivMod
<1>4. PICK least \in Nat : least = MinAccum /\ least >= 1 /\ least >= p
  <2>1. MinAccum \in Nat /\ MinAccum >= 1 /\ MinAccum >= p
    BY <1>1, LargerIsLarger DEF MinAccum
  <2> QED BY <2>1
<1>5. S = RankSeqs(g, nodes)
  BY <1>1, <1>2, <1>3 DEF RankSeqs
<1>6. r = 0 /\ e = 0 /\ S >= least /\ (k > 0 => S % k = 0 /\ S \div k >= least)
  <2>1. r = 0 /\ e = 0
    BY <1>1, <1>2, <1>3 DEF BatchRefused
  <2>2. ~(S < least)
    BY <1>4, <1>5 DEF BatchRefused
  <2>3. k > 0 => S % k = 0 /\ ~(S \div k < least)
    BY <1>1, <1>4, <1>5 DEF BatchRefused
  <2>4. k > 0 => \E q \in Nat : q = S \div k
    <3>1. ASSUME k > 0 PROVE \E q \in Nat : q = S \div k
      <4>1. k \in Nat \ {0}
        BY <3>1
      <4> QED BY <4>1, DivMod
    <3> QED BY <3>1
  <2> QED BY <2>1, <2>2, <2>3, <2>4
<1>7. g = D * per /\ per = L * S
  <2>1. D * per \in Nat /\ L * S \in Nat
    OBVIOUS
  <2>2. g = D * per + 0 /\ per = L * S + 0
    BY <1>2, <1>3, <1>6, Zenon
  <2> QED BY <2>1, <2>2
<1>8. ASSUME NEW a \in Nat, NEW m \in Nat, S = m * a PROVE L * m * a * D = g
  <2>1. L * m * a = L * S
    BY <1>8
  <2>2. L * S * D = D * (L * S)
    OBVIOUS
  <2> QED BY <1>7, <2>1, <2>2
<1>9. CASE k > 0
  <2>1. PICK a \in Nat, z \in Nat : a = S \div k /\ z = S % k /\ S = k * a + z
    <3>1. k \in Nat \ {0}
      BY <1>9
    <3> QED BY <3>1, DivMod
  <2>2. z = 0 /\ a >= least /\ k * a \in Nat
    BY <1>6, <1>9, <2>1
  <2>3. S = k * a
    BY <2>1, <2>2
  <2>4. a = Accum(g, nodes) /\ k = Micro(g, nodes)
    BY <1>1, <1>5, <1>9, <2>1 DEF Accum, Micro
  <2>5. L * k * a * D = g
    BY <1>8, <2>3
  <2> QED BY <1>1, <1>4, <1>9, <2>2, <2>4, <2>5
<1>10. CASE ~(k > 0)
  <2> DEFINE A == {a \in least .. S : S % a = 0 /\ S \div a <= MicroLimit}
  <2>1. MicroLimit >= 1 /\ MicroLimit \in Nat
    <3>1. Larger(TokensPerRank * opts.cp, opts.length) \in Nat
      <4>1. opts.cp \in Nat /\ opts.length \in Nat
        BY DEF Options
      <4>2. TokensPerRank * opts.cp \in Nat
        BY <4>1, PlansAssumption
      <4> QED BY <4>1, <4>2, LargerIsLarger
    <3>2. PICK x \in Nat : x = Larger(TokensPerRank * opts.cp, opts.length)
      BY <3>1
    <3>3. PICK q \in Nat : q = x \div L
      BY DivMod
    <3>4. MicroLimit = Larger(1, q)
      BY <1>1, <3>2, <3>3 DEF MicroLimit
    <3> QED BY <3>4, LargerIsLarger
  <2>2. S \in A
    <3>1. S \in Nat \ {0} /\ S \in least .. S
      BY <1>4, <1>6
    <3>2. (1 * S) % S = 0 /\ (1 * S) \div S = 1
      BY <3>1, MultipleDivides
    <3>3. 1 * S = S
      OBVIOUS
    <3>4. S % S = 0 /\ S \div S = 1
      BY <3>2, <3>3
    <3> QED BY <2>1, <3>1, <3>4
  <2>3. A \subseteq Nat /\ A # {}
    BY <1>4, <2>2
  <2>4. Min(A) \in A
    <3> HIDE DEF A
    <3> QED BY <2>3, Smallest
  <2>5. Accum(g, nodes) = Min(A)
    BY <1>1, <1>4, <1>5, <1>10 DEF Accum
  <2>6. PICK a \in Nat \ {0} : a = Accum(g, nodes) /\ a >= least /\ S % a = 0 /\ S \div a <= MicroLimit
    <3>1. \A x \in A : x \in Nat \ {0} /\ x >= least /\ S % x = 0 /\ S \div x <= MicroLimit
      BY <1>4
    <3> HIDE DEF A
    <3> QED BY <2>4, <2>5, <3>1
  <2> HIDE DEF A
  <2>7. PICK m \in Nat, z \in Nat : m = S \div a /\ z = S % a /\ z < a /\ S = a * m + z
    BY DivMod, Zenon
  <2>8. S = m * a
    <3>1. z = 0
      BY <2>6, <2>7
    <3>2. a * m \in Nat /\ a * m = m * a
      OBVIOUS
    <3>3. S = a * m + 0
      BY <2>7, <3>1
    <3> QED BY <3>2, <3>3
  <2>9. m = Micro(g, nodes) /\ a = Accum(g, nodes)
    BY <1>1, <1>5, <1>10, <2>6, <2>7 DEF Micro
  <2>10. L * m * a * D = g /\ m <= MicroLimit /\ a >= p
    <3>1. L * m * a * D = g
      BY <1>8, <2>8
    <3>2. a >= least /\ m <= MicroLimit
      BY <2>6, <2>7
    <3> QED BY <1>4, <3>1, <3>2
  <2> QED BY <1>1, <1>10, <2>9, <2>10
<1> QED BY <1>9, <1>10

(* A microbatch fits into a rank unless it was asked for.                   *)
LEMMA Fits ==
  ASSUME opts \in Options, NEW m \in Nat, m <= MicroLimit
  PROVE  m * opts.length <= Larger(TokensPerRank * opts.cp, opts.length)
<1>1. PICK L \in Nat \ {0}, c \in Nat : L = opts.length /\ c = TokensPerRank * opts.cp
  <2>1. opts.cp \in Nat /\ opts.length \in Nat \ {0}
    BY DEF Options
  <2>2. TokensPerRank * opts.cp \in Nat
    BY <2>1, PlansAssumption
  <2> QED BY <2>1, <2>2
<1>2. PICK x \in Nat : x = Larger(c, L) /\ x >= L
  BY LargerIsLarger
<1>3. PICK q \in Nat, r \in Nat : q = x \div L /\ r = x % L /\ r < L /\ x = L * q + r
  BY DivMod
<1>4. q >= 1
  <2>1. q = 0 => L * q = 0
    OBVIOUS
  <2> QED BY <1>2, <1>3, <2>1
<1>5. MicroLimit = q
  BY <1>1, <1>2, <1>3, <1>4 DEF MicroLimit, Larger
<1>6. L * m <= L * q /\ L * m \in Nat /\ L * q \in Nat /\ m * L = L * m
  BY <1>5, MultipleIsMonotone
<1> QED BY <1>1, <1>2, <1>3, <1>6

(* What a dry launch has looked at.                                         *)
LEMMA DryLooks ==
  ASSUME opts \in Options, NEW nodes, NEW D \in Nat \ {0}, D = DP(nodes), NEW g \in Nat,
         g % opts.length = 0, AskedMicro # 0, (g \div opts.length) % (AskedMicro * D) = 0, BatchRefused(g, nodes)
  PROVE  RankSeqs(g, nodes) < opts.pp * Larger(1, opts.micro)
<1>1. PICK L \in Nat \ {0}, p \in Nat \ {0}, k \in Nat, K \in Nat \ {0} :
        L = opts.length /\ p = opts.pp /\ k = opts.micro /\ K = AskedMicro /\ (k > 0 => K = k)
  <2>1. opts.length \in Nat \ {0} /\ opts.pp \in Nat \ {0} /\ opts.micro \in Nat /\ AskedMicro \in Nat \ {0}
        /\ (opts.micro > 0 => AskedMicro = opts.micro)
    BY DEF Options, AskedMicro
  <2> QED BY <2>1
<1>2. PICK t \in Nat, z \in Nat : t = g \div L /\ z = g % L /\ g = L * t + z
  BY DivMod
<1>3. g = L * t
  <2>1. z = 0 /\ L * t \in Nat
    BY <1>1, <1>2
  <2> QED BY <1>2, <2>1
<1>4. PICK w \in Nat \ {0} : w = K * D
  <2>1. K * D \in Nat \ {0}
    OBVIOUS
  <2> QED BY <2>1
<1>5. PICK u \in Nat, y \in Nat : u = t \div w /\ y = t % w /\ t = w * u + y
  BY DivMod
<1>6. t = w * u
  <2>1. t % w = 0
    BY <1>1, <1>2, <1>4
  <2>2. t = w * u + 0
    BY <1>5, <2>1
  <2>3. w * u \in Nat
    OBVIOUS
  <2> QED BY <2>2, <2>3
<1>7. PICK s \in Nat : s = K * u
  OBVIOUS
<1>8. PICK per \in Nat : per = L * s
  OBVIOUS
<1>9. g = D * per
  <2>1. t = D * s
    BY <1>4, <1>6, <1>7
  <2>2. L * (D * s) = D * (L * s)
    OBVIOUS
  <2> QED BY <1>3, <1>8, <2>1, <2>2
<1>10. g % D = 0 /\ g \div D = per /\ per % L = 0 /\ per \div L = s
  BY <1>8, <1>9, MultipleDivides
<1>11. RankSeqs(g, nodes) = s
  BY <1>1, <1>10 DEF RankSeqs
<1>12. MinAccum = p
  BY <1>1 DEF MinAccum, Larger
<1>13. PICK b \in Nat : b = Larger(1, k) /\ b >= 1 /\ b >= k
  BY LargerIsLarger
<1>14. CASE s < p
  <2>1. p * 1 <= p * b /\ p * b \in Nat
    BY <1>13, MultipleIsMonotone
  <2> QED BY <1>1, <1>11, <1>13, <1>14, <2>1
<1>15. CASE ~(s < p)
  <2>1. k > 0 /\ (s % k # 0 \/ s \div k < p)
    BY <1>1, <1>10, <1>11, <1>12, <1>15 DEF BatchRefused
  <2>2. s % k = 0 /\ s \div k = u
    <3>1. k = K /\ s = k * u
      BY <1>1, <1>7, <2>1
    <3> QED BY <3>1, MultipleDivides
  <2>3. k * (u + 1) <= k * p
    BY <2>1, <2>2, MultipleIsMonotone
  <2>4. k * (u + 1) = k * u + k /\ k * u = s
    BY <1>1, <1>7, <2>1
  <2>5. p * k <= p * b /\ p * b \in Nat /\ p * k = k * p /\ k * p \in Nat
    BY <1>13, MultipleIsMonotone
  <2>6. s < k * p
    BY <2>1, <2>3, <2>4, <2>5
  <2> QED BY <1>1, <1>11, <1>13, <2>5, <2>6
<1> QED BY <1>14, <1>15

(* What is worked out from cluster and options stays as it is.              *)
LEMMA WorkedOutAgain ==
  ASSUME UNCHANGED <<host, opts>>
  PROVE  /\ Ranks' = Ranks /\ NumNodes' = NumNodes /\ \A n : NodeRank(n)' = NodeRank(n)
         /\ DryRefuses' <=> DryRefuses
         /\ \A n : ParentRefuses(n)' <=> ParentRefuses(n)
         /\ ConfigRefused' <=> ConfigRefused
         /\ \A k : GlobalBatch(k)' = GlobalBatch(k)
         /\ \A g, k : /\ BatchRefused(g, k)' <=> BatchRefused(g, k)
                      /\ Accum(g, k)' = Accum(g, k) /\ Micro(g, k)' = Micro(g, k)
         /\ Compiles' = Compiles
         /\ Checkpointing' = Checkpointing
<1>1. Ranks' = Ranks /\ WorldSize' = WorldSize /\ \A n : RankVariable(n)' = RankVariable(n)
  BY DEF Ranks, WorldSize, RankVariable
<1>2. NumNodes' = NumNodes /\ (WorldSizeRefused' <=> WorldSizeRefused)
  BY <1>1 DEF NumNodes, WorldSizeRefused
<1>3. \A n : NodeRank(n)' = NodeRank(n)
  BY <1>1, <1>2 DEF NodeRank
<1>4. TP' = TP /\ AskedMicro' = AskedMicro /\ MinAccum' = MinAccum /\ MicroLimit' = MicroLimit
  BY DEF TP, AskedMicro, MinAccum, MicroLimit
<1>5. ModelParallel' = ModelParallel
  BY <1>4 DEF ModelParallel
<1>6. \A k : DP(k)' = DP(k) /\ (TopologyRefused(k)' <=> TopologyRefused(k))
  BY <1>5 DEF DP, TopologyRefused
<1>7. FeaturesRefused' <=> FeaturesRefused
  BY <1>4 DEF FeaturesRefused
<1>8. \A k : GlobalBatch(k)' = GlobalBatch(k)
  BY <1>4, <1>6 DEF GlobalBatch
<1>9. \A g, k : RankSeqs(g, k)' = RankSeqs(g, k)
  BY <1>6 DEF RankSeqs
<1>10. \A g, k : BatchRefused(g, k)' <=> BatchRefused(g, k)
  BY <1>4, <1>6, <1>9 DEF BatchRefused
<1>11. \A g, k : Accum(g, k)' = Accum(g, k)
  BY <1>4, <1>9 DEF Accum
<1>12. \A g, k : Micro(g, k)' = Micro(g, k)
  BY <1>9, <1>11 DEF Micro
<1>13. Compiles' = Compiles
  BY <1>4 DEF Compiles
<1>14. (ConfigRefused' <=> ConfigRefused) /\ Checkpointing' = Checkpointing
  BY <1>13 DEF ConfigRefused, Checkpointing
<1>15. \A n, k, r : LaunchRefused(n, k, r)' <=> LaunchRefused(n, k, r)
  BY DEF LaunchRefused, NoRank
<1>16. DryRefuses' <=> DryRefuses
  BY <1>2, <1>3, <1>4, <1>6, <1>7, <1>8, <1>15 DEF DryRefuses
<1>17. \A n : ParentRefuses(n)' <=> ParentRefuses(n)
  BY <1>2, <1>3, <1>6, <1>7, <1>15 DEF ParentRefuses
<1> QED BY <1>1, <1>2, <1>3, <1>8, <1>10, <1>11, <1>12, <1>13, <1>14, <1>16, <1>17

-----------------------------------------------------------------------------
(* The invariant of WorkerPlan.                                            *)

(* The portion in which a worker trains.                                    *)
Portion(nodes) ==
  LET global == GlobalBatch(nodes)
      first == Intervals(opts.save, opts.ephemeral)
  IN [global |-> global, accum |-> Accum(global, nodes), micro |-> Micro(global, nodes),
      compile |-> Compiles, ac |-> Checkpointing, every |-> Intervals(first.save, first.ephemeral)]

(* Up to where a launch has got, and why it was refused.                    *)
PlanInv ==
  /\ host \in Described /\ opts \in Options
  /\ dry = "passed" => ~DryRefuses
  /\ planAt \in {"launched", "workers", "training"} =>
       /\ \A n \in Ranks : ~ParentRefuses(n)
       /\ layout = [n \in Ranks |-> [nodes |-> NumNodes, rank |-> NodeRank(n)]]
  /\ planAt \in {"workers", "training"} => Meets
  /\ planAt = "training" =>
       /\ ~ConfigRefused /\ ~BatchRefused(GlobalBatch(NumNodes), NumNodes)
       /\ batch = [n \in Ranks |-> Portion(NumNodes)]
  /\ planAt = "refused" =>
       (\E n \in Ranks : ParentRefuses(n)) \/ ConfigRefused \/ BatchRefused(GlobalBatch(NumNodes), NumNodes)

LEMMA PlanInvInit == PlanInit => PlanInv
  BY PlansAssumption DEF PlanInit, PlanInv

LEMMA PlanInvStep ==
  ASSUME PlanInv, PlanStep \/ UNCHANGED planVars
  PROVE  PlanInv'
<1>1. host' = host /\ opts' = opts
  BY DEF PlanStep, DryLaunch, Parents, Rendezvous, Workers, planVars
<1>2. Portion(NumNodes)' = Portion(NumNodes)
  BY <1>1, WorkedOutAgain DEF Portion
<1>3. layout' = layout => Meets' = Meets
  BY <1>1, WorkedOutAgain DEF Meets
<1>4. CASE DryLaunch
  BY <1>1, <1>2, <1>3, <1>4, WorkedOutAgain DEF DryLaunch, PlanInv
<1>5. CASE Parents
  BY <1>1, <1>2, <1>3, <1>5, WorkedOutAgain DEF Parents, PlanInv
<1>6. CASE Rendezvous
  BY <1>1, <1>2, <1>3, <1>6, WorkedOutAgain DEF Rendezvous, PlanInv
<1>7. CASE Workers
  <2>1. /\ planAt = "workers" /\ dry' = dry /\ layout' = layout
        /\ \A n \in Ranks : ~ParentRefuses(n)
        /\ layout = [n \in Ranks |-> [nodes |-> NumNodes, rank |-> NodeRank(n)]]
    BY <1>7 DEF Workers, PlanInv
  <2>2. \A n \in Ranks : layout[n].nodes = NumNodes /\ WorkerNodes(n) = NumNodes
    BY <2>1 DEF WorkerNodes
  <2>3. 0 \in Ranks
    BY DEF Ranks, PlanInv, Described
  <2>4. ~TopologyRefused(NumNodes) /\ ~FeaturesRefused
    BY <2>1, <2>3 DEF ParentRefuses
  <2>5. CASE ConfigRefused \/ BatchRefused(GlobalBatch(NumNodes), NumNodes)
    <3>1. planAt' = "refused"
      BY <1>7, <2>2, <2>3, <2>5 DEF Workers
    <3> QED BY <1>1, <2>1, <2>5, <3>1, WorkedOutAgain DEF PlanInv
  <2>6. CASE ~(ConfigRefused \/ BatchRefused(GlobalBatch(NumNodes), NumNodes))
    <3>1. planAt' = "training" /\
          batch' = [n \in Ranks |->
               LET global == GlobalBatch(layout[n].nodes)
                   first == Intervals(opts.save, opts.ephemeral)
               IN [global |-> global, accum |-> Accum(global, WorkerNodes(n)),
                   micro |-> Micro(global, WorkerNodes(n)),
                   compile |-> Compiles, ac |-> Checkpointing,
                   every |-> Intervals(first.save, first.ephemeral)]]
      BY <1>7, <2>2, <2>4, <2>6 DEF Workers
    <3>2. batch' = [n \in Ranks |-> Portion(NumNodes)]
      BY <2>2, <3>1 DEF Portion
    <3> QED BY <1>1, <1>2, <1>3, <2>1, <2>6, <3>1, <3>2, WorkedOutAgain DEF PlanInv
  <2> QED BY <2>5, <2>6
<1>8. CASE UNCHANGED planVars
  BY <1>1, <1>2, <1>3, <1>8, WorkedOutAgain DEF planVars, PlanInv
<1> QED BY <1>4, <1>5, <1>6, <1>7, <1>8 DEF PlanStep

LEMMA NodesAreCounted ==
  ASSUME host \in Described
  PROVE  NumNodes \in Nat \ {0}
<1>1. PICK N \in Nat \ {0}, G \in Nat \ {0} : N = host.nodes /\ G = host.gpus
  BY SomeCluster
<1>2. PICK W \in Nat : W = WorldSize
  <2>1. N * G \in Nat
    OBVIOUS
  <2> QED BY <1>1, <2>1 DEF WorldSize
<1>3. PICK q \in Nat, r \in Nat : q = W \div G /\ r = W % G /\ r < G /\ W = G * q + r
  BY DivMod
<1>4. W % G = 0 /\ W # 0 => q # 0
  <2>1. q = 0 => G * q = 0
    OBVIOUS
  <2> QED BY <1>3, <2>1
<1>5. Larger(1, q) \in Nat \ {0}
  BY DEF Larger
<1> QED BY <1>1, <1>2, <1>3, <1>4, <1>5 DEF NumNodes

(* What trains is what was asked for ...                                   *)
LEMMA TrainingIsKept ==
  ASSUME PlanInv, planAt = "training", NEW n \in Ranks
  PROVE  LET b == batch[n]
             dp == (host.nodes * host.gpus) \div ModelParallel
         IN /\ Meant =>
                 /\ layout[n].nodes = host.nodes
                 /\ host.told # "none" => layout[n].rank = n
                 /\ opts.length * b.micro * b.accum * dp = b.global
                 /\ opts.seqs > 0 => b.global = opts.seqs * opts.length
            /\ opts.micro > 0 => b.micro = opts.micro
            /\ b.accum >= opts.pp
            /\ b.micro * opts.length <= Larger(TokensPerRank * opts.cp, opts.length) \/ opts.micro > 0
            /\ b.global = batch[0].global
            /\ (opts.async \/ b.ac = "budget") => b.compile
            /\ b.every.ephemeral = 0 \/ b.every.ephemeral < b.every.save
<1>1. /\ host \in Described /\ opts \in Options /\ Meets /\ ~ConfigRefused
      /\ ~BatchRefused(GlobalBatch(NumNodes), NumNodes) /\ \A m \in Ranks : ~ParentRefuses(m)
      /\ layout = [m \in Ranks |-> [nodes |-> NumNodes, rank |-> NodeRank(m)]]
      /\ batch = [m \in Ranks |-> Portion(NumNodes)]
  BY DEF PlanInv
<1>2. 0 \in Ranks
  BY <1>1 DEF Ranks, Described
<1>3. \A m \in Ranks : layout[m].nodes = NumNodes /\ layout[m].rank = NodeRank(m) /\ batch[m] = Portion(NumNodes)
  BY <1>1
<1>4. /\ ~TopologyRefused(NumNodes) /\ ~FeaturesRefused /\ ~WorldSizeRefused
      /\ \A m \in Ranks : ~LaunchRefused(m, NumNodes, NodeRank(m))
  BY <1>1, <1>2 DEF ParentRefuses
<1>5. NumNodes \in Nat \ {0}
  BY <1>1, NodesAreCounted
<1>6. PICK D \in Nat \ {0} : D = DP(NumNodes)
  BY <1>1, <1>4, <1>5, Degrees
<1>7. PICK g \in Nat : g = GlobalBatch(NumNodes)
  BY <1>1, <1>6, GlobalIsNat
<1>8. PICK a \in Nat, m \in Nat :
        /\ a = Accum(g, NumNodes) /\ m = Micro(g, NumNodes)
        /\ opts.length * m * a * D = g
        /\ a >= opts.pp
        /\ opts.micro > 0 => m = opts.micro
        /\ ~(opts.micro > 0) => m <= MicroLimit
  BY <1>1, <1>6, <1>7, BatchAddsUp
<1>9. /\ batch[n].global = g /\ batch[0].global = g /\ batch[n].accum = a /\ batch[n].micro = m
      /\ batch[n].compile = Compiles /\ batch[n].ac = Checkpointing
      /\ batch[n].every = Intervals(Intervals(opts.save, opts.ephemeral).save,
                                    Intervals(opts.save, opts.ephemeral).ephemeral)
  BY <1>2, <1>3, <1>7, <1>8 DEF Portion
<1>10. ASSUME Meant
       PROVE  /\ layout[n].nodes = host.nodes
              /\ host.told # "none" => layout[n].rank = n
              /\ opts.length * batch[n].micro * batch[n].accum * ((host.nodes * host.gpus) \div ModelParallel)
                   = batch[n].global
              /\ opts.seqs > 0 => batch[n].global = opts.seqs * opts.length
  <2>1. NumNodes = 1 \/ \A r \in 0 .. (NumNodes - 1) : \E m1 \in Ranks : NodeRank(m1) = r
    <3>1. layout[0].nodes = 1 \/ {layout[m1].rank : m1 \in Ranks} = 0 .. (layout[0].nodes - 1)
      BY <1>1, <1>2 DEF Meets
    <3> QED BY <1>2, <1>3, <3>1
  <2>2. NumNodes = host.nodes /\ (host.told # "none" => NodeRank(n) = n)
    BY <1>1, <1>4, <1>10, <2>1, MetAsMeant
  <2>3. D = (host.nodes * host.gpus) \div ModelParallel
    BY <1>6, <2>2 DEF DP
  <2>4. opts.length * batch[n].micro * batch[n].accum * ((host.nodes * host.gpus) \div ModelParallel)
          = batch[n].global
    BY <1>8, <1>9, <2>3, Zenon
  <2>5. opts.seqs > 0 => g = opts.seqs * opts.length
    BY <1>4, <1>7 DEF GlobalBatch, FeaturesRefused
  <2> QED BY <1>3, <1>9, <2>2, <2>4, <2>5
<1>11. m * opts.length <= Larger(TokensPerRank * opts.cp, opts.length) \/ opts.micro > 0
  BY <1>1, <1>8, Fits
<1>12. (opts.async \/ batch[n].ac = "budget") => batch[n].compile
  <2>1. (opts.async \/ Checkpointing = "budget") => Compiles
    BY <1>1 DEF ConfigRefused, Checkpointing
  <2> QED BY <1>9, <2>1
<1>13. batch[n].every.ephemeral = 0 \/ batch[n].every.ephemeral < batch[n].every.save
  <2>1. ASSUME NEW s \in Int, NEW e \in Int
        PROVE  /\ Intervals(s, e).ephemeral = 0 \/ Intervals(s, e).ephemeral < Intervals(s, e).save
               /\ Intervals(s, e).save \in Int /\ Intervals(s, e).ephemeral \in Int
    BY DEF Intervals, Larger
  <2>2. opts.save \in Int /\ opts.ephemeral \in Int
    BY <1>1 DEF Options
  <2> QED BY <1>9, <2>1, <2>2
<1> QED BY <1>8, <1>9, <1>10, <1>11, <1>12, <1>13

(* ... what cannot be misread meets ...                                    *)
LEMMA WhatIsClearMeets ==
  ASSUME PlanInv, Clear, planAt = "launched"
  PROVE  Meets
<1>1. /\ host \in Described
      /\ layout = [n \in Ranks |-> [nodes |-> NumNodes, rank |-> NodeRank(n)]]
  BY DEF PlanInv
<1>2. \A n \in Ranks : layout[n].nodes = NumNodes /\ layout[n].rank = NodeRank(n)
  BY <1>1
<1>3. NumNodes = host.nodes /\ \A n \in Ranks : host.told # "none" => NodeRank(n) = n
  BY <1>1, ClearlyRead
<1>4. CASE host.told = "none"
  <2>1. host.nodes = 1
    BY <1>1, <1>4 DEF Clear, Meant, Described
  <2> QED BY <1>2, <1>3, <2>1 DEF Meets
<1>5. CASE host.told # "none"
  <2>1. {layout[m].rank : m \in Ranks} = Ranks
    BY <1>2, <1>3, <1>5
  <2> QED BY <1>2, <1>3, <2>1 DEF Meets, Ranks
<1> QED BY <1>4, <1>5

(* ... and is refused after a dry launch only for what that did not see.   *)
LEMMA DryHasLooked ==
  ASSUME PlanInv, Clear, dry = "passed", planAt = "refused"
  PROVE  \/ RankSeqs(GlobalBatch(host.nodes), host.nodes) < opts.pp * Larger(1, opts.micro)
         \/ opts.compile # Compiles
         \/ ~opts.compile /\ opts.ac = "budget"
<1>1. host \in Described /\ opts \in Options /\ ~DryRefuses
  BY DEF PlanInv
<1>2. /\ NumNodes = host.nodes /\ ~WorldSizeRefused
      /\ \A n \in Ranks : host.told # "none" => NodeRank(n) = n
  BY <1>1, ClearlyRead
<1>3. /\ ~TopologyRefused(NumNodes) /\ ~FeaturesRefused
      /\ GlobalBatch(NumNodes) % opts.length = 0
      /\ AskedMicro # 0
      /\ (GlobalBatch(NumNodes) \div opts.length) % (AskedMicro * DP(NumNodes)) = 0
  BY <1>1 DEF DryRefuses
<1>4. ASSUME NEW n \in Ranks PROVE ~ParentRefuses(n)
  <2>1. CASE host.told = "none"
    <3>1. NumNodes = 1
      BY <1>1, <1>2, <2>1 DEF Clear, Meant, Described
    <3>2. ~LaunchRefused(n, NumNodes, NodeRank(n))
      BY <3>1 DEF LaunchRefused
    <3> QED BY <1>2, <1>3, <3>2 DEF ParentRefuses
  <2>2. CASE host.told # "none"
    <3>1. NodeRank(n) = n /\ n \in Nat /\ n < NumNodes
      BY <1>1, <1>2, <2>2 DEF Ranks, Described
    <3>2. ~LaunchRefused(n, NumNodes, NodeRank(n))
      BY <1>1, <1>2, <3>1 DEF LaunchRefused, NoRank, Described
    <3> QED BY <1>2, <1>3, <3>2 DEF ParentRefuses
  <2> QED BY <2>1, <2>2
<1>5. ConfigRefused \/ BatchRefused(GlobalBatch(NumNodes), NumNodes)
  BY <1>4 DEF PlanInv
<1>6. CASE ConfigRefused
  <2>1. ~Compiles /\ (opts.async \/ opts.ac = "budget")
    BY <1>6 DEF ConfigRefused
  <2>2. opts.async => opts.compile
    BY <1>3 DEF FeaturesRefused
  <2> QED BY <2>1, <2>2
<1>7. CASE BatchRefused(GlobalBatch(NumNodes), NumNodes)
  <2>1. NumNodes \in Nat \ {0}
    BY <1>1, NodesAreCounted
  <2>2. PICK D \in Nat \ {0} : D = DP(NumNodes)
    BY <1>1, <1>3, <2>1, Degrees
  <2>3. PICK g \in Nat : g = GlobalBatch(NumNodes)
    BY <1>1, <2>2, GlobalIsNat
  <2>4. g % opts.length = 0 /\ (g \div opts.length) % (AskedMicro * D) = 0 /\ BatchRefused(g, NumNodes)
    BY <1>3, <1>7, <2>2, <2>3, Zenon
  <2>5. RankSeqs(g, NumNodes) < opts.pp * Larger(1, opts.micro)
    BY <1>1, <1>3, <2>2, <2>4, DryLooks
  <2> QED BY <1>2, <2>3, <2>5
<1> QED BY <1>5, <1>6, <1>7

LEMMA PlanInvGivesKept ==
  ASSUME PlanInv
  PROVE  PlanIsKept
<1>1. planAt = "training" =>
       \A n \in Ranks :
         LET b == batch[n]
             dp == (host.nodes * host.gpus) \div ModelParallel
         IN /\ Meant =>
                 /\ layout[n].nodes = host.nodes
                 /\ host.told # "none" => layout[n].rank = n
                 /\ opts.length * b.micro * b.accum * dp = b.global
                 /\ opts.seqs > 0 => b.global = opts.seqs * opts.length
            /\ opts.micro > 0 => b.micro = opts.micro
            /\ b.accum >= opts.pp
            /\ b.micro * opts.length <= Larger(TokensPerRank * opts.cp, opts.length) \/ opts.micro > 0
            /\ b.global = batch[0].global
            /\ (opts.async \/ b.ac = "budget") => b.compile
            /\ b.every.ephemeral = 0 \/ b.every.ephemeral < b.every.save
  BY TrainingIsKept, Zenon
<1> QED BY <1>1, WhatIsClearMeets, DryHasLooked, Zenon DEF PlanIsKept

(* Whatever the cluster, the scheduler's variables and the options: a       *)
(* launch that gets to training trains what was asked for, one that cannot  *)
(* be misread gets all its nodes together, and a dry launch that passes is  *)
(* contradicted later only in what it does not look at.                     *)
THEOREM TrainsAsPlanned == Spec => []PlanIsKept
<1>1. Init => PlanInv
  BY PlanInvInit DEF Init
<1>2. PlanInv /\ [Next]_vars => PlanInv'
  <2> SUFFICES ASSUME PlanInv, [Next]_vars PROVE PlanInv'
    OBVIOUS
  <2>1. PlanStep \/ UNCHANGED planVars
    BY DEF Next, vars
  <2> QED BY <2>1, PlanInvStep
<1>3. PlanInv => PlanIsKept
  BY PlanInvGivesKept
<1> QED BY <1>1, <1>2, <1>3, PTL DEF Spec

-----------------------------------------------------------------------------
(* The Ray cluster.                                                         *)
RayPlaces ==
  {"start", "head", "wait", "join", "joined", "driver", "monitor", "leave", "raised", "done", "failed"}
RayTypes ==
  /\ rayNo \in Nat /\ stopOnExit \in BOOLEAN /\ rayFaults \in Nat
  /\ rayPc \in [RayNodes -> RayPlaces] /\ raylet \in [RayNodes -> 0 .. rayNo] /\ joins \in [RayNodes -> Nat]

(* In a launch in which nothing fails and nobody took the old head for the  *)
(* new one: where the driver is, whose head answers; who joined belongs to   *)
(* it; who found no head met the moment between the two heads; and who left  *)
(* did so after the driver.                                                 *)
HeadInv ==
  /\ rayPc[0] \in {"start", "head", "driver", "leave", "done"}
  /\ rayPc[0] = "start" => raylet[0] < rayNo
  /\ rayPc[0] = "head" => raylet[0] = 0
  /\ rayPc[0] \in {"driver", "leave"} => raylet[0] = rayNo
  /\ rayPc[0] # "done" => rayNo > 0
  /\ rayPc[0] = "done" => raylet[0] = IF stopOnExit THEN 0 ELSE rayNo
WorkerInv(n) ==
  /\ rayPc[n] # "raised"
  /\ rayPc[n] = "start" => raylet[n] < rayNo
  /\ rayPc[n] \in {"wait", "join"} => raylet[n] = 0 /\ rayNo > 0
  /\ rayPc[n] \in {"joined", "monitor"} => raylet[n] = rayNo /\ rayPc[0] \in {"driver", "leave", "done"} /\ rayNo > 0
  /\ rayPc[n] \in {"start", "wait", "join"} => rayPc[0] \in {"start", "head", "driver"} /\ joins[n] < 2
  /\ rayPc[n] = "joined" => rayPc[0] = "driver"
  /\ rayPc[n] = "start" => joins[n] = 0
  /\ joins[n] > 0 => rayPc[0] # "start"
  /\ rayPc[n] = "join" /\ joins[n] > 0 => rayPc[0] = "driver"
  /\ rayPc[n] = "join" /\ raylet[0] = 0 => rayPc[0] = "head"
  /\ rayPc[n] \in {"leave", "done"} => rayPc[0] = "done"
  /\ rayPc[n] = "leave" => stopOnExit
  /\ rayPc[n] = "failed" => RayAllEnded /\ rayPc[0] = "done" /\ ~stopOnExit
  /\ rayPc[n] = "done" /\ stopOnExit => raylet[n] = 0
  /\ rayPc[n] \notin {"head", "driver"}
Undisturbed == rayFaults = 0 /\ ~misled /\ JoinAttempts > 1
RayInv == RayTypes /\ (Undisturbed => HeadInv /\ \A n \in RayWorkers : WorkerInv(n))

LEMMA RayInvInit == Init => RayInv
  BY RayAssumption DEF Init, RayInit, RayInv, RayTypes, RayPlaces, HeadInv, WorkerInv, RayWorkers, Undisturbed

LEMMA RayTypesStep ==
  ASSUME RayTypes, RayStep
  PROVE  RayTypes'
<1> USE RayAssumption DEF RayTypes, RayPlaces, RayGo, NoRay, HeadsCluster, RayFault
<1>1. CASE RayLaunch
  BY <1>1 DEF RayLaunch
<1>2. ASSUME NEW n \in RayNodes, StopOwnRay(n) \/ LeaveRay(n) PROVE RayTypes'
  BY <1>2 DEF StopOwnRay, LeaveRay
<1>3. CASE StartHead
  BY <1>3 DEF StartHead
<1>4. ASSUME NEW n \in RayNodes, Join(n) PROVE RayTypes'
  BY <1>4 DEF Join
<1>5. ASSUME NEW n \in RayNodes, JoinFails(n) \/ FindsNoHead(n) PROVE RayTypes'
  BY <1>5 DEF JoinFails, FindsNoHead, TryAgain
<1>6. ASSUME NEW n \in RayNodes, SeeHead(n) \/ RayTimesOut(n) \/ StatusFails(n) \/ RayKill(n) \/ MonitorEnds(n) PROVE RayTypes'
  BY <1>6 DEF SeeHead, RayTimesOut, StatusFails, RayKill, MonitorEnds
<1>7. CASE JudgePreflightFails \/ DriverFails \/ DriverEnds \/ DriverLosesNode
  BY <1>7 DEF JudgePreflightFails, DriverFails, DriverEnds, DriverLosesNode
<1>8. CASE RayGiveUp \/ JobIsEnded
  BY <1>8 DEF RayGiveUp, JobIsEnded
<1> QED BY <1>1, <1>2, <1>3, <1>4, <1>5, <1>6, <1>7, <1>8 DEF RayStep, RayNodeStep

LEMMA RayInvStep ==
  ASSUME RayInv, RayStep
  PROVE  RayInv'
<1> SUFFICES ASSUME Undisturbed' PROVE HeadInv' /\ \A m \in RayWorkers : WorkerInv(m)'
  BY RayTypesStep DEF RayInv
<1> DEFINE Goal == HeadInv' /\ \A m \in RayWorkers : WorkerInv(m)'
<1>a. RayTypes /\ RayTypes' /\ 0 \in RayNodes /\ RayWorkers = RayNodes \ {0}
  BY RayTypesStep, RayAssumption DEF RayInv, RayWorkers
<1>b. ASSUME ~misled PROVE HeadInv /\ \A m \in RayWorkers : WorkerInv(m)
  <2>1. rayFaults = 0
    BY <1>a DEF RayStep, RayNodeStep, Undisturbed, RayTypes, RayFault, RayLaunch, JudgePreflightFails, DriverFails, RayGiveUp,
       JobIsEnded, StopOwnRay, SeeHead, Join, FindsNoHead, MonitorEnds, LeaveRay, StartHead, DriverEnds, DriverLosesNode,
       JoinFails, RayTimesOut, StatusFails, RayKill
  <2> QED BY <1>b, <2>1 DEF RayInv, Undisturbed
<1>c. ~RayFault
  BY <1>a DEF RayFault, Undisturbed, RayTypes
<1> USE DEF RayTypes, RayGo, NoRay, HeadsCluster, Answers, HeadInv, WorkerInv
<1>1. CASE RayLaunch
  BY <1>1, <1>a DEF RayLaunch
<1>2. ASSUME NEW n \in RayNodes, StopOwnRay(n) PROVE Goal
  BY <1>2, <1>a, <1>b DEF Undisturbed, StopOwnRay
<1>3. CASE StartHead
  BY <1>3, <1>a, <1>b DEF Undisturbed, StartHead
<1>4. ASSUME NEW n \in RayNodes, SeeHead(n) PROVE Goal
  BY <1>4, <1>a, <1>b DEF Undisturbed, SeeHead
<1>5. ASSUME NEW n \in RayNodes, Join(n) PROVE Goal
  <2>1. ~misled /\ raylet[0] = rayNo /\ raylet[0] # 0
    BY <1>5 DEF Join, Undisturbed
  <2>2. HeadInv /\ \A m \in RayWorkers : WorkerInv(m)
    BY <1>b, <2>1
  <2>3. n # 0 /\ n \in RayWorkers /\ rayPc[n] = "join" /\ rayPc[0] = "driver"
    BY <1>5, <1>a, <2>1, <2>2 DEF Join
  <2>4. /\ rayPc' = [rayPc EXCEPT ![n] = "joined"] /\ raylet' = [raylet EXCEPT ![n] = rayNo]
        /\ UNCHANGED <<rayNo, joins, stopOnExit>>
    BY <1>5, <2>1 DEF Join
  <2>5. HeadInv'
    BY <1>a, <2>2, <2>3, <2>4
  <2>6. ASSUME NEW m \in RayWorkers PROVE WorkerInv(m)'
    <3>1. ~RayAllEnded
      BY <1>a, <2>3 DEF RayAllEnded, RayEnded
    <3> QED BY <1>a, <2>1, <2>2, <2>3, <2>4, <3>1
  <2> QED BY <2>5, <2>6
<1>6. ASSUME NEW n \in RayNodes, FindsNoHead(n) PROVE Goal
  BY <1>6, <1>a, <1>b DEF Undisturbed, FindsNoHead, TryAgain
<1>7. ASSUME NEW n \in RayNodes, MonitorEnds(n) PROVE Goal
  BY <1>7, <1>a, <1>b DEF Undisturbed, MonitorEnds
<1>8. ASSUME NEW n \in RayNodes, LeaveRay(n) PROVE Goal
  BY <1>8, <1>a, <1>b DEF Undisturbed, LeaveRay
<1>9. CASE DriverEnds
  BY <1>9, <1>a, <1>b DEF Undisturbed, DriverEnds, AllJoined
<1>10. CASE DriverLosesNode
  BY <1>10, <1>a, <1>b DEF Undisturbed, DriverLosesNode, RayEnded
<1>11. CASE RayGiveUp
  BY <1>11, <1>a, <1>b DEF Undisturbed, RayGiveUp, RayAllEnded, RayEnded
<1>12. CASE JobIsEnded
  BY <1>12, <1>a, <1>b DEF Undisturbed, JobIsEnded, RayAllEnded, RayEnded
<1>13. ~JudgePreflightFails /\ ~DriverFails
       /\ \A n \in RayNodes : ~JoinFails(n) /\ ~RayTimesOut(n) /\ ~StatusFails(n) /\ ~RayKill(n)
  BY <1>c DEF JudgePreflightFails, DriverFails, JoinFails, RayTimesOut, StatusFails, RayKill
<1> QED BY <1>1, <1>2, <1>3, <1>4, <1>5, <1>6, <1>7, <1>8, <1>9, <1>10, <1>11, <1>12, <1>13 DEF RayStep, RayNodeStep

(* For any number of nodes and launches: what is said to happen without a     *)
(* failure does not need luck, but for the worker that took the old head.    *)
THEOREM RayClusterIsUndisturbed == Spec => []RayIsUndisturbed
<1>1. RayInv /\ [Next]_vars => RayInv'
  <2> SUFFICES ASSUME RayInv, [Next]_vars PROVE RayInv'
    OBVIOUS
  <2>1. CASE RayStep
    BY <2>1, RayInvStep
  <2>2. CASE UNCHANGED rayVars
    BY <2>2 DEF rayVars, RayInv, RayTypes, Undisturbed, HeadInv, WorkerInv, RayAllEnded
  <2> QED BY <2>1, <2>2 DEF Next, vars
<1>2. RayInv => RayIsUndisturbed
  BY RayAssumption DEF RayInv, Undisturbed, RayIsUndisturbed, HeadInv, WorkerInv, RayWorkers
<1> QED BY <1>1, <1>2, RayInvInit, PTL DEF Spec

(* The nodes of a job and its Ray cluster, while nothing fails.              *)
THEOREM NobodyFailsByItself == Spec => []FaultlessJobFailsNobody
BY FaultlessLaunchFailsNobody, RayClusterIsUndisturbed, PTL DEF FaultlessJobFailsNobody
=============================================================================
