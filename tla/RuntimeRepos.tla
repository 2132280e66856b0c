---------------------------- MODULE RuntimeRepos ----------------------------
(***************************************************************************)
(* The checkouts the engine runs from, fetched by the coordinator at every   *)
(* launch, and the state file by which followers learn that they are there.  *)
(* Checkouts and state file live on the shared file system: a follower reads *)
(* them while the coordinator, or an earlier launch, has written them.       *)
(***************************************************************************)
EXTENDS LaunchNodes, Sequences

CONSTANT StaleFailed   \* RUNTIME_FETCH_STALE_FAILED_SECONDS, 30 s
ASSUME StaleFailedAssumption == StaleFailed \in Nat

VARIABLES
  fetchState,  \* fetchState[id]: [status, at] of the file of coordination id id
  tree,        \* tree[r]: the checkout of repository r
  indexLock,   \* indexLock[r]: .git/index.lock exists
  todo,        \* todo[n]: repositories node n still has to fetch
  git          \* git[n]: what node n is doing to Head(todo[n])

repoVars == <<fetchState, tree, indexLock, todo, git>>

(* "training" stands for open-instruct, OLMo-core and VERL, fetched in a row.*)
Repos == {"submissions", "training", "prime_rl"}
Ids == 0..MaxLaunches

RepoInit ==
  /\ fetchState = [i \in Ids |-> [status |-> None]]
  /\ tree = [r \in Repos |-> "absent"]
  /\ indexLock = [r \in Repos |-> FALSE]
  /\ todo = [n \in Nodes |-> <<>>]
  /\ git = [n \in Nodes |-> "idle"]

(* fetch_runtime_repos: which repositories a launch needs, in order.         *)
Needed ==
  CASE launch.how.backend = "operator" -> <<"submissions">>
    [] launch.how.backend = "prime_rl" -> <<"submissions", "prime_rl">>
    [] OTHER -> <<"submissions", "training", "prime_rl">>

(* validate_runtime_paths looks for a few paths of every checkout; a         *)
(* repository that is not needed is replaced by the submissions checkout.    *)
ValidPaths == \A i \in DOMAIN Needed : tree[Needed[i]] \notin {"absent", "cloned"}

(* write_runtime_fetch_state: a temporary file renamed over the old one.     *)
WriteFetchState(s) ==
  fetchState' = [fetchState EXCEPT ![CoordinationId] = [status |-> s, at |-> now, by |-> launch.no]]

BeginFetch(n) ==
  /\ Go(n, "repos", "fetching")
  /\ Coordinator(n)
  /\ WriteFetchState("fetching")
  /\ todo' = [todo EXCEPT ![n] = Needed]
  /\ UNCHANGED <<now, launch, began, faults, tree, indexLock, git>>

Fetching(n) == pc[n] = "fetching" /\ todo[n] # <<>>
Current(n) == Head(todo[n])

(* clone_runtime_repo works in a directory of its own ...                    *)
StartClone(n) ==
  /\ Fetching(n) /\ git[n] = "idle" /\ tree[Current(n)] = "absent"
  /\ git' = [git EXCEPT ![n] = "cloning"]
  /\ UNCHANGED <<nodeVars, fetchState, tree, indexLock, todo>>

(* ... and renames it, unless the target has appeared meanwhile.             *)
FinishClone(n) ==
  /\ Fetching(n) /\ git[n] = "cloning" /\ tree[Current(n)] = "absent"
  /\ tree' = [tree EXCEPT ![Current(n)] = "cloned"]
  /\ git' = [git EXCEPT ![n] = "idle"]
  /\ UNCHANGED <<nodeVars, fetchState, indexLock, todo>>

(* Every attempt ends like this once the directory is there: the clone fails *)
(* after its last attempt, and with it the fetch.                            *)
CloneIsLate(n) ==
  /\ Fetching(n) /\ git[n] = "cloning" /\ tree[Current(n)] # "absent"
  /\ WriteFetchState("failed")
  /\ pc' = [pc EXCEPT ![n] = "failed"]
  /\ git' = [git EXCEPT ![n] = "idle"]
  /\ UNCHANGED <<now, launch, began, faults, tree, indexLock, todo>>

(* wait_for_git_index_lock: a lock that nobody holds any more is removed     *)
(* when it is 300 s old.                                                     *)
RemoveStaleLock(n) ==
  /\ Fetching(n) /\ git[n] = "idle" /\ indexLock[Current(n)]
  /\ \A m \in Nodes : git[m] = "checkout" => Current(m) # Current(n)
  /\ indexLock' = [indexLock EXCEPT ![Current(n)] = FALSE]
  /\ UNCHANGED <<nodeVars, fetchState, tree, todo, git>>

(* ensure_runtime_repo after the clone: set-url, fetch, checkout --force.    *)
StartCheckout(n) ==
  /\ Fetching(n) /\ git[n] = "idle" /\ tree[Current(n)] # "absent" /\ ~indexLock[Current(n)]
  /\ git' = [git EXCEPT ![n] = "checkout"]
  /\ indexLock' = [indexLock EXCEPT ![Current(n)] = TRUE]
  /\ tree' = [tree EXCEPT ![Current(n)] = IF @ = "cloned" THEN "partial" ELSE @]
  /\ UNCHANGED <<nodeVars, fetchState, todo>>

FinishCheckout(n) ==
  /\ Fetching(n) /\ git[n] = "checkout"
  /\ git' = [git EXCEPT ![n] = "idle"]
  /\ indexLock' = [indexLock EXCEPT ![Current(n)] = FALSE]
  /\ tree' = [tree EXCEPT ![Current(n)] = "complete"]
  /\ todo' = [todo EXCEPT ![n] = Tail(@)]
  /\ UNCHANGED <<nodeVars, fetchState>>

(* A git command fails after its last retry.                                 *)
FailFetch(n) ==
  /\ pc[n] = "fetching" /\ todo[n] # <<>>
  /\ Fault
  /\ WriteFetchState("failed")
  /\ pc' = [pc EXCEPT ![n] = "failed"]
  /\ indexLock' = IF git[n] = "checkout" THEN [indexLock EXCEPT ![Current(n)] = FALSE] ELSE indexLock
  /\ git' = [git EXCEPT ![n] = "idle"]
  /\ todo' = [todo EXCEPT ![n] = <<>>]
  /\ UNCHANGED <<now, launch, began, tree>>

FinishFetch(n) ==
  /\ pc[n] = "fetching" /\ todo[n] = <<>>
  /\ IF ValidPaths \/ launch.how.backend = "operator"
       THEN WriteFetchState("ready") /\ pc' = [pc EXCEPT ![n] = "reexec"]
       ELSE WriteFetchState("failed") /\ pc' = [pc EXCEPT ![n] = "failed"]
  /\ UNCHANGED <<now, launch, began, faults, tree, indexLock, todo, git>>

(* Followers poll the state file of their coordination id.                   *)
Waits(n, place) == pc[n] = place /\ ~Coordinator(n)

FollowRepos(n) ==
  /\ Waits(n, "repos")
  /\ fetchState[CoordinationId].status = "ready" /\ ValidPaths
  /\ pc' = [pc EXCEPT ![n] = "reexec"]
  /\ UNCHANGED <<now, launch, began, faults, repoVars>>

SeeFailedFetch(n) ==
  /\ Waits(n, "repos")
  /\ LET s == fetchState[CoordinationId]
     IN s.status = "failed" /\ now - s.at <= StaleFailed
  /\ pc' = [pc EXCEPT ![n] = "failed"]
  /\ UNCHANGED <<now, launch, began, faults, repoVars>>

FetchTimeout(n) ==
  /\ Waits(n, "repos")
  /\ fetchState[CoordinationId].status # "ready" \/ ~ValidPaths
  /\ CoordinatorIsPast(Places \ Ended)
  /\ pc' = [pc EXCEPT ![n] = "failed"]
  /\ UNCHANGED <<now, launch, began, faults, repoVars>>

(* maybe_reexec_runtime_wrapper, prepared_runtime_repos_from_env: the fetched *)
(* wrapper runs main again, with the paths in its environment.               *)
Reexec(n) ==
  /\ pc[n] = "reexec"
  /\ pc' = [pc EXCEPT ![n] = IF ValidPaths THEN "deps" ELSE "failed"]
  /\ UNCHANGED <<now, launch, began, faults, repoVars>>

ReposStep(n) ==
  \/ BeginFetch(n) \/ StartClone(n) \/ FinishClone(n) \/ CloneIsLate(n)
  \/ RemoveStaleLock(n) \/ StartCheckout(n) \/ FinishCheckout(n) \/ FailFetch(n)
  \/ FinishFetch(n) \/ FollowRepos(n) \/ SeeFailedFetch(n) \/ FetchTimeout(n) \/ Reexec(n)
=============================================================================
