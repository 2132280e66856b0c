---------------------------- MODULE ProgressBars ----------------------------
(***************************************************************************)
(* The progress bars of a problem (PipelineProgress and ChatScheduler.call   *)
(* of src/src/run.py).  A call is a task of the event loop and a thread that  *)
(* it awaits; a task that is cancelled leaves its thread running.  A stream  *)
(* has a bar, a bar has a position on the screen, and positions are shared   *)
(* by all problems.                                                          *)
(***************************************************************************)
EXTENDS Naturals, FiniteSets

CONSTANTS
  Calls,    \* calls of a problem, each with a bar of its own
  NoBar

ASSUME BarsAssumption == IsFiniteSet(Calls) /\ NoBar \notin Nat

VARIABLES
  task,     \* task[c]: "idle", "awaits", "over"
  thread,   \* thread[c]: "none", "queued", "streams", "over"
  streams,  \* _streams: calls that are registered
  position, \* position[c]: that of its bar, NoBar if it has none
  next,     \* _next_position
  free,     \* _free_positions
  isOpen,    \* the problem is under way; FALSE: close was called
  late      \* a thread registered its stream after its task was over

barVars == <<task, thread, streams, position, next, free, isOpen, late>>

BarsInit ==
  /\ task = [c \in Calls |-> "idle"] /\ thread = [c \in Calls |-> "none"]
  /\ streams = {} /\ position = [c \in Calls |-> NoBar]
  /\ next = 0 /\ free = {} /\ isOpen = TRUE /\ late = FALSE

(* call: the permit has been taken, to_thread queues the thread.             *)
BeginCall(c) ==
  /\ isOpen /\ task[c] = "idle"
  /\ task' = [task EXCEPT ![c] = "awaits"]
  /\ thread' = [thread EXCEPT ![c] = "queued"]
  /\ UNCHANGED <<streams, position, next, free, isOpen, late>>

(* A released position is taken before a new one.                            *)
LineFor(p) == IF free # {} THEN p \in free ELSE p = next
TakeLine(p) ==
  /\ free' = free \ {p}
  /\ next' = IF p = next THEN next + 1 ELSE next

StreamStart(c) ==
  /\ thread[c] = "queued"
  /\ thread' = [thread EXCEPT ![c] = "streams"]
  /\ streams' = streams \cup {c}
  /\ \E p \in 0 .. Cardinality(Calls) :
       /\ LineFor(p) /\ TakeLine(p)
       /\ position' = [position EXCEPT ![c] = p]
  /\ late' = (late \/ task[c] = "over")
  /\ UNCHANGED <<task, isOpen>>

(* A queued thread whose task was cancelled in time is never started; one    *)
(* that streams ends in its own time.                                        *)
ThreadEnds(c) ==
  /\ \/ thread[c] = "streams"
     \/ thread[c] = "queued" /\ task[c] = "over"
  /\ thread' = [thread EXCEPT ![c] = "over"]
  /\ UNCHANGED <<task, streams, position, next, free, isOpen, late>>

Release(c) == free' = free \cup {position[c]}

(* Mutant: the bar keeps its position.                                       *)
StreamFinish_Keeps(c) ==
  IF c \in streams
  THEN streams' = streams \ {c} /\ Release(c) /\ UNCHANGED position
  ELSE UNCHANGED <<streams, position, free>>

(* stream_finish: the bar of a registered stream is closed.                  *)
StreamFinish(c) ==
  IF c \in streams
  THEN /\ streams' = streams \ {c}
       /\ position' = [position EXCEPT ![c] = NoBar]
       /\ Release(c)
  ELSE UNCHANGED <<streams, position, free>>

(* The call returns, or is cancelled while its thread goes on.               *)
EndCall(c) ==
  /\ task[c] = "awaits"
  /\ task' = [task EXCEPT ![c] = "over"]
  /\ StreamFinish(c)
  /\ UNCHANGED <<thread, next, isOpen, late>>

(* close, in the finally of solve_problem, when no task is left.             *)
CloseBars ==
  /\ isOpen /\ isOpen' = FALSE
  /\ \A c \in Calls : task[c] # "awaits"
  /\ streams' = {}
  /\ free' = free \cup ({position[c] : c \in Calls} \ {NoBar})
  /\ position' = [c \in Calls |-> NoBar]
  /\ UNCHANGED <<task, thread, next, late>>

BarsStep ==
  \/ \E c \in Calls : BeginCall(c) \/ StreamStart(c) \/ ThreadEnds(c) \/ EndCall(c)
  \/ CloseBars

-----------------------------------------------------------------------------
(* No two bars share a line of the screen, and a line is not both in use and *)
(* free.  When a problem is over, all of its lines are free for the next one *)
(* -- unless the thread of a cancelled call began to stream afterwards: its  *)
(* bar is closed by nobody.                                                  *)
LinesComeBack ==
  /\ \A c, d \in Calls : position[c] = position[d] /\ position[c] # NoBar => c = d
  /\ \A c \in Calls : position[c] \notin free
  /\ ~isOpen /\ ~late => free = 0 .. next - 1
=============================================================================
