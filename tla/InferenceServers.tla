-------------------------- MODULE InferenceServers --------------------------
(***************************************************************************)
(* The vLLM servers of a run (VLLMServer, ServerManager and the life of       *)
(* ProofRuntime in src/src/run.py): started one after the other, awaited,     *)
(* and stopped by close, by atexit or by a signal handler, which may run     *)
(* between any two steps of the main thread.                                 *)
(***************************************************************************)
EXTENDS Integers

CONSTANTS
  NumServers,   \* GPU groups; ProofRuntime has one
  MaxSignals    \* bound: SIGINT and SIGTERM during a run

ASSUME ServerAssumption == NumServers \in Nat \ {0} /\ MaxSignals \in Nat

VARIABLES
  run,      \* the main thread: "start", "wait", "work", "stop", "unwind", "ended"
  at,       \* the server it starts, waits for or stops
  child,    \* child[s]: "none", "loading", "healthy", "dead"
  held,     \* servers whose child is stored in _proc
  foreign,  \* ports on which a server of somebody else listens
  stopping, \* ServerManager._stopped
  ready,    \* urls is set
  signals,  \* signals so far
  broken    \* a signal came in the middle of a launch or of a stop

serverVars == <<run, at, child, held, foreign, stopping, ready, signals, broken>>

Servers == 1 .. NumServers
Alive(s) == child[s] \in {"loading", "healthy"}

ServersTypeOK ==
  /\ run \in {"start", "wait", "work", "stop", "unwind", "ended"}
  /\ at \in 1 .. NumServers + 1
  /\ child \in [Servers -> {"none", "loading", "healthy", "dead"}]
  /\ held \subseteq Servers /\ foreign \subseteq Servers
  /\ stopping \in BOOLEAN /\ ready \in BOOLEAN /\ broken \in BOOLEAN
  /\ signals \in 0 .. MaxSignals

ServersInit ==
  /\ run = "start" /\ at = 1
  /\ child = [s \in Servers |-> "none"] /\ held = {} /\ foreign \in SUBSET Servers
  /\ stopping = FALSE /\ ready = FALSE /\ signals = 0 /\ broken = FALSE

To(state) == run' = state /\ at' = 1
Same == UNCHANGED <<foreign, signals, broken>>

(* VLLMServer.start: a port that is taken is used as it is.                  *)
Reuse ==
  /\ run = "start" /\ at \in foreign
  /\ at' = at + 1
  /\ UNCHANGED <<run, child, held, stopping, ready>> /\ Same

(* Popen has started the child, _proc is yet to be set.                      *)
Fork ==
  /\ run = "start" /\ at \in Servers \ foreign /\ child[at] = "none"
  /\ child' = [child EXCEPT ![at] = "loading"]
  /\ UNCHANGED <<run, at, held, stopping, ready>> /\ Same

Hold ==
  /\ run = "start" /\ at \in Servers \ foreign /\ child[at] # "none"
  /\ held' = held \cup {at}
  /\ at' = at + 1
  /\ UNCHANGED <<run, child, stopping, ready>> /\ Same

(* The input cannot be read, or a launch fails.                              *)
LaunchAborted ==
  /\ run = "start"
  /\ at \in Servers => child[at] = "none"
  /\ To("unwind")
  /\ UNCHANGED <<child, held, stopping, ready>> /\ Same

(* Popen raises.                                                             *)
LaunchFails == at \in Servers \ foreign /\ LaunchAborted

AllStarted ==
  /\ run = "start" /\ at > NumServers
  /\ To("wait")
  /\ UNCHANGED <<child, held, stopping, ready>> /\ Same

(* wait_ready: the health check of a server of somebody else may succeed.    *)
Responds(s) == IF s \in foreign THEN TRUE ELSE child[s] = "healthy"
SeesHealthy ==
  /\ run = "wait" /\ at \in Servers /\ Responds(at)
  /\ at' = at + 1
  /\ UNCHANGED <<run, child, held, stopping, ready>> /\ Same

SeesExit ==
  /\ run = "wait" /\ at \in held /\ child[at] = "dead"
  /\ To("unwind")
  /\ UNCHANGED <<child, held, stopping, ready>> /\ Same

(* The server that is too late is stopped at once, the others at the exit.   *)
TooLate ==
  /\ run = "wait" /\ at \in Servers
  /\ at \in held => Alive(at)
  /\ child' = IF at \in held THEN [child EXCEPT ![at] = "dead"] ELSE child
  /\ To("unwind")
  /\ UNCHANGED <<held, stopping, ready>> /\ Same

AllReady ==
  /\ run = "wait" /\ at > NumServers
  /\ To("work") /\ ready' = TRUE
  /\ UNCHANGED <<child, held, stopping>> /\ Same

(* The rows are done or raise: ProofRuntime.close in run's finally.          *)
WorkEnds ==
  /\ run = "work"
  /\ IF stopping THEN To("ended") ELSE To("stop")
  /\ stopping' = TRUE
  /\ UNCHANGED <<child, held, ready>> /\ Same

(* An exception has left start: close finds no manager, atexit stops it.     *)
Unwound ==
  /\ run = "unwind"
  /\ IF stopping THEN To("ended") ELSE To("stop")
  /\ stopping' = TRUE
  /\ UNCHANGED <<child, held, ready>> /\ Same

(* ServerManager.stop: one server after the other, SIGTERM and after 20      *)
(* seconds SIGKILL.                                                          *)
StopServer ==
  /\ run = "stop" /\ at \in Servers
  /\ child' = IF at \in held /\ Alive(at) THEN [child EXCEPT ![at] = "dead"] ELSE child
  /\ at' = at + 1
  /\ UNCHANGED <<run, held, stopping, ready>> /\ Same

AllStopped ==
  /\ run = "stop" /\ at > NumServers
  /\ To("ended")
  /\ UNCHANGED <<child, held, stopping, ready>> /\ Same

(* Mutant: the handler leaves the servers to atexit, which finds _stopped.   *)
Handle_NoStop == stopping' = TRUE /\ To("unwind")

(* handle_signal: stop the servers, then raise KeyboardInterrupt.  A stop    *)
(* that is under way is not taken up again.                                  *)
Handle ==
  /\ stopping' = TRUE
  /\ IF stopping THEN To("unwind") ELSE To("stop")

(* A launch is interrupted between the fork and the assignment of _proc.     *)
MidLaunch == run = "start" /\ at \in Servers \ foreign /\ child[at] # "none"
MidStop == run = "stop" /\ at <= NumServers
Signal ==
  /\ run # "ended" /\ signals < MaxSignals
  /\ signals' = signals + 1
  /\ broken' = (broken \/ MidLaunch \/ MidStop)
  /\ Handle
  /\ UNCHANGED <<child, held, foreign, ready>>

MainThread ==
  \/ Reuse \/ Fork \/ Hold \/ LaunchAborted \/ AllStarted
  \/ SeesHealthy \/ SeesExit \/ TooLate \/ AllReady
  \/ WorkEnds \/ Unwound \/ StopServer \/ AllStopped

(* A server loads, and may die at any time.                                  *)
ServerChanges ==
  /\ run # "ended"
  /\ \E s \in Servers, state \in {"healthy", "dead"} :
       /\ Alive(s) /\ child[s] # state
       /\ child' = [child EXCEPT ![s] = state]
  /\ UNCHANGED <<run, at, held, foreign, stopping, ready, signals, broken>>

ServersStep == MainThread \/ ServerChanges \/ Signal

ServersSpec == ServersInit /\ [][ServersStep]_serverVars

-----------------------------------------------------------------------------
(* A run leaves no server behind that it started, whichever way it ends: by  *)
(* its last row, an exception, a server that died or was too late, or a      *)
(* signal -- unless a signal came between the fork of a server and the       *)
(* assignment of its handle, or during a stop, which is never resumed.       *)
ServersEndWithTheRun ==
  run = "ended" /\ ~broken => \A s \in Servers : ~Alive(s)
=============================================================================
