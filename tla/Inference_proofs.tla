--------------------------- MODULE Inference_proofs ---------------------------
(***************************************************************************)
(* The parts of the inference runtime keep their promises, and the runtime  *)
(* as a whole keeps what its parts promise: every behaviour of Inference is *)
(* one of the servers, of the rows, of a call, of the lemmas and of the      *)
(* bars, with stuttering where another part moves.                           *)
(***************************************************************************)
EXTENDS Inference, FiniteSetTheorems, TLAPS

-----------------------------------------------------------------------------
(* No server outlives a run, for any number of servers and of signals.      *)

(* A child that no handle leads to is the one being launched just now.       *)
OnlyTheNewestIsUnheld ==
  \A s \in Servers : Alive(s) /\ s \notin held => run = "start" /\ at = s

(* What is not stopped yet is either ahead of the stop or will be stopped.   *)
StopIsThorough ==
  /\ run \in {"start", "wait", "work"} => ~stopping
  /\ run \in {"stop", "ended"} => stopping
  /\ run = "stop" /\ ~broken => \A s \in Servers : s < at => ~Alive(s)
  /\ run # "stop" /\ stopping /\ ~broken => \A s \in Servers : ~Alive(s)

ServersInv ==
  /\ ServersTypeOK
  /\ \A s \in foreign : child[s] = "none"
  /\ ~broken => OnlyTheNewestIsUnheld
  /\ StopIsThorough

LEMMA ServersInvInit == ServersInit => ServersInv
<1> SUFFICES ASSUME ServersInit PROVE ServersInv
  OBVIOUS
<1>1. child = [s \in Servers |-> "none"] /\ foreign \subseteq Servers
  BY DEF ServersInit
<1>2. \A s \in Servers : ~Alive(s)
  BY <1>1 DEF Alive
<1>3. ServersTypeOK
  <2>1. child \in [Servers -> {"none", "loading", "healthy", "dead"}]
    BY <1>1
  <2>2. at \in 1 .. NumServers + 1 /\ signals \in 0 .. MaxSignals
    BY ServerAssumption DEF ServersInit
  <2>3. held = {} /\ run = "start" /\ stopping = FALSE /\ ready = FALSE /\ broken = FALSE
    BY DEF ServersInit
  <2> QED
    BY <1>1, <2>1, <2>2, <2>3 DEF ServersTypeOK
<1>4. \A s \in foreign : child[s] = "none"
  BY <1>1
<1>5. OnlyTheNewestIsUnheld
  BY <1>2 DEF OnlyTheNewestIsUnheld
<1>6. StopIsThorough
  BY <1>2 DEF ServersInit, StopIsThorough
<1> QED
  BY <1>3, <1>4, <1>5, <1>6 DEF ServersInv

LEMMA ServersInvStep == ServersInv /\ [ServersStep]_serverVars => ServersInv'
<1> SUFFICES ASSUME ServersInv, [ServersStep]_serverVars PROVE ServersInv'
  OBVIOUS
<1> USE ServerAssumption
    DEF ServersInv, ServersTypeOK, OnlyTheNewestIsUnheld, StopIsThorough, Servers, Alive, To, Same
<1>1. CASE Reuse BY <1>1 DEF Reuse
<1>2. CASE Fork BY <1>2 DEF Fork
<1>3. CASE Hold BY <1>3 DEF Hold
<1>4. CASE LaunchAborted BY <1>4 DEF LaunchAborted
<1>5. CASE AllStarted BY <1>5 DEF AllStarted
<1>6. CASE SeesHealthy BY <1>6 DEF SeesHealthy
<1>7. CASE SeesExit BY <1>7 DEF SeesExit
<1>8. CASE TooLate BY <1>8 DEF TooLate
<1>9. CASE AllReady BY <1>9 DEF AllReady
<1>10. CASE WorkEnds BY <1>10 DEF WorkEnds
<1>11. CASE Unwound BY <1>11 DEF Unwound
<1>12. CASE StopServer BY <1>12 DEF StopServer
<1>13. CASE AllStopped BY <1>13 DEF AllStopped
<1>14. CASE ServerChanges BY <1>14 DEF ServerChanges
<1>15. CASE Signal
  <2>1. ServersTypeOK' /\ \A s \in foreign' : child'[s] = "none"
    BY <1>15 DEF Signal, Handle
  <2>2. ~broken' => ~broken /\ ~MidLaunch /\ ~MidStop
    BY <1>15 DEF Signal
  <2>3. ~broken' => \A s \in Servers : Alive(s) => s \in held
    BY <2>2 DEF MidLaunch
  <2>4. (~broken => OnlyTheNewestIsUnheld)'
    BY <1>15, <2>3 DEF Signal
  <2>5. stopping /\ run # "stop" /\ ~broken' => \A s \in Servers : ~Alive(s)
    BY <2>2
  <2>6. stopping /\ run = "stop" /\ ~broken' => \A s \in Servers : ~Alive(s)
    BY <2>2 DEF MidStop
  <2>7. StopIsThorough'
    BY <1>15, <2>2, <2>5, <2>6 DEF Signal, Handle
  <2> QED
    BY <2>1, <2>4, <2>7
<1>16. CASE UNCHANGED serverVars BY <1>16 DEF serverVars
<1> QED
  BY <1>1, <1>2, <1>3, <1>4, <1>5, <1>6, <1>7, <1>8, <1>9, <1>10, <1>11, <1>12, <1>13, <1>14,
     <1>15, <1>16 DEF ServersStep, MainThread

(* The invariant that carries the argument: a server can be stopped by its    *)
(* handle in every state but the one between its fork and the assignment.    *)
THEOREM ServersInductive == ServersSpec => []ServersInv
  BY ServersInvInit, ServersInvStep, PTL DEF ServersSpec

(* ServerManager.stop reaches every server of run.py: a run that was not      *)
(* disturbed in the middle of a launch or a stop leaves none behind.          *)
THEOREM NoServerIsLeft == ServersSpec => []ServersEndWithTheRun
<1>1. ServersInv => ServersEndWithTheRun
  BY DEF ServersInv, StopIsThorough, ServersEndWithTheRun
<1> QED BY <1>1, ServersInductive, PTL

-----------------------------------------------------------------------------
(* No collected row is lost, for any number of rows and any times.          *)

RowsTypeOK ==
  /\ rpc \in {"input", "servers", "rows", "write", "over", "raised"}
  /\ timeout \in Nat /\ timeout >= 6 /\ reserve \in Nat /\ reserve >= 3
  /\ row \in [Rows -> {"waits", "search", "select", "log", "done"}]
  /\ pool \in [Rows -> Outcomes \cup {"unknown", "raised"}]
  /\ answer \in [Rows -> {"none", "best", "selected", "fallback"}]
  /\ finished \in Seq(Rows)
  /\ taken \in Nat /\ taken <= Len(finished)
  /\ torn \in BOOLEAN

(* A task ends once.                                                         *)
EndsOnce ==
  /\ \A i \in 1 .. Len(finished) : row[finished[i]] = "done"
  /\ \A i, j \in 1 .. Len(finished) : finished[i] = finished[j] => i = j

FileIsWhole ==
  /\ ~torn => output = {finished[i] : i \in 1 .. taken}
  /\ torn => output = {} /\ rpc \in {"write", "raised"}
  /\ rpc = "write" => torn
  /\ rpc = "over" => taken = NumRows

(* Where a row stands and what is known of it.                               *)
RowIsConsistent(r) ==
  /\ row[r] \in {"waits", "search"} => pool[r] = "unknown" /\ answer[r] = "none"
  /\ row[r] = "select" => pool[r] = "eligible" /\ answer[r] = "none"
  /\ row[r] \in {"log", "done"} =>
       /\ answer[r] = "fallback" <=> pool[r] \in {"nothing", "raised"}
       /\ pool[r] = "eligible" => answer[r] # "best"

RowsInv == RowsTypeOK /\ EndsOnce /\ FileIsWhole /\ \A r \in Rows : RowIsConsistent(r)

LEMMA RowsInvInit == RowsInit => RowsInv
<1> SUFFICES ASSUME RowsInit PROVE RowsInv
  OBVIOUS
<1> USE RowsAssumption DEF RowsInit
<1>1. timeout \in Nat /\ timeout >= 6 /\ reserve \in Nat /\ reserve >= 3
  BY DEF AtLeast
<1>2. /\ row = [r \in Rows |-> "waits"]
      /\ pool = [r \in Rows |-> "unknown"] /\ answer = [r \in Rows |-> "none"]
  OBVIOUS
<1>3. finished = <<>> /\ taken = 0 /\ output = {} /\ torn = FALSE /\ rpc = "input"
  OBVIOUS
<1>4. RowsTypeOK
  <2>1. row \in [Rows -> {"waits", "search", "select", "log", "done"}]
    BY <1>2
  <2>2. pool \in [Rows -> Outcomes \cup {"unknown", "raised"}]
    BY <1>2
  <2>3. answer \in [Rows -> {"none", "best", "selected", "fallback"}]
    BY <1>2
  <2>4. finished \in Seq(Rows) /\ taken \in Nat /\ taken <= Len(finished)
    BY <1>3
  <2>5. rpc = "input" /\ torn \in BOOLEAN
    BY <1>3
  <2> HIDE RowsAssumption DEF RowsInit
  <2> QED
    BY <1>1, <2>1, <2>2, <2>3, <2>4, <2>5, Zenon DEF RowsTypeOK
<1>5. EndsOnce /\ FileIsWhole
  BY <1>3 DEF EndsOnce, FileIsWhole
<1>6. \A r \in Rows : RowIsConsistent(r)
  BY <1>2 DEF RowIsConsistent
<1> QED BY <1>4, <1>5, <1>6 DEF RowsInv

(* The time that is kept for the selection is really left for it.            *)
LEMMA SelectionHasTime ==
  ASSUME RowsTypeOK, NEW time \in 0 .. AttemptBudget
  PROVE  timeout - time > 2
  BY DEF RowsTypeOK, AttemptBudget, AtLeast

(* A task that ends is entered once more at the end of finished.             *)
LEMMA TaskEndsOnce ==
  ASSUME RowsTypeOK, EndsOnce, FileIsWhole, NEW r \in Rows, row[r] # "done", TaskEnds(r),
         rpc = "rows", UNCHANGED <<rpc, taken, output, torn>>
  PROVE  /\ finished' \in Seq(Rows) /\ taken <= Len(finished')
         /\ row' = [row EXCEPT ![r] = "done"]
         /\ EndsOnce' /\ FileIsWhole'
<1> USE DEF TaskEnds, RowsTypeOK
<1>1. /\ finished' \in Seq(Rows) /\ Len(finished') = Len(finished) + 1
      /\ \A i \in 1 .. Len(finished) : finished'[i] = finished[i]
      /\ finished'[Len(finished) + 1] = r
  OBVIOUS
<1>2. \A i \in 1 .. Len(finished) : finished[i] \in Rows /\ finished[i] # r
  BY DEF EndsOnce
<1>3. EndsOnce'
  BY <1>1, <1>2 DEF EndsOnce
<1>4. {finished'[i] : i \in 1 .. taken} = {finished[i] : i \in 1 .. taken}
  BY <1>1
<1>5. FileIsWhole'
  BY <1>4 DEF FileIsWhole
<1> QED BY <1>1, <1>3, <1>5

LEMMA RowsInvStep ==
  RowsInv /\ [LoadInput \/ ServersReady \/ RowsStep \/ Interrupted]_rowVars => RowsInv'
<1> SUFFICES ASSUME RowsInv, [LoadInput \/ ServersReady \/ RowsStep \/ Interrupted]_rowVars
             PROVE RowsInv'
  OBVIOUS
<1> USE RowsAssumption DEF RowsInv
<1>1. CASE LoadInput
  BY <1>1 DEF LoadInput, RowsTypeOK, EndsOnce, FileIsWhole, RowIsConsistent
<1>2. CASE ServersReady
  BY <1>2 DEF ServersReady, RowsTypeOK, EndsOnce, FileIsWhole, RowIsConsistent
<1>3. CASE Interrupted
  BY <1>3 DEF Interrupted, RowsTypeOK, EndsOnce, FileIsWhole, RowIsConsistent
<1>4. ASSUME NEW r \in Rows, BeginRow(r) PROVE RowsInv'
  BY <1>4 DEF BeginRow, RowsTypeOK, EndsOnce, FileIsWhole, RowIsConsistent
<1>5. ASSUME NEW r \in Rows, SearchEnds(r) PROVE RowsInv'
  <2>1. PICK found \in Outcomes, time \in 0 .. AttemptBudget :
          /\ pool' = [pool EXCEPT ![r] = found]
          /\ IF found = "nothing" THEN Answers(r, "fallback")
             ELSE IF found = "eligible" /\ timeout - time > 2
             THEN row' = [row EXCEPT ![r] = "select"] /\ UNCHANGED answer
             ELSE Answers(r, "best")
    BY <1>5 DEF SearchEnds
  <2>2. timeout - time > 2
    BY SelectionHasTime
  <2> QED
    BY <1>5, <2>1, <2>2
    DEF SearchEnds, Answers, Outcomes, RowsTypeOK, EndsOnce, FileIsWhole, RowIsConsistent
<1>6. ASSUME NEW r \in Rows, SelectorEnds(r) PROVE RowsInv'
  BY <1>6 DEF SelectorEnds, Answers, RowsTypeOK, EndsOnce, FileIsWhole, RowIsConsistent
<1>7. ASSUME NEW r \in Rows, LogRow(r) PROVE RowsInv'
  <2>1. row[r] # "done" /\ TaskEnds(r) /\ rpc = "rows" /\ UNCHANGED <<rpc, taken, output, torn>>
    BY <1>7 DEF LogRow
  <2> QED
    BY <1>7, <2>1, TaskEndsOnce DEF LogRow, RowsTypeOK, RowIsConsistent
<1>8. ASSUME NEW r \in Rows, RowRaises(r) PROVE RowsInv'
  <2>1. row[r] # "done" /\ TaskEnds(r) /\ rpc = "rows" /\ UNCHANGED <<rpc, taken, output, torn>>
    BY <1>8 DEF RowRaises, Solving
  <2> QED
    BY <1>8, <2>1, TaskEndsOnce DEF RowRaises, RowsTypeOK, RowIsConsistent
<1>9. CASE TakeRow
  BY <1>9 DEF TakeRow, RowsTypeOK, EndsOnce, FileIsWhole, RowIsConsistent
<1>10. CASE RowsWritten
  <2>1. /\ rpc = "write" /\ rpc' = "rows" /\ torn' = FALSE
        /\ UNCHANGED <<timeout, reserve, row, pool, answer, finished, taken>>
        /\ output' = {finished[i] : i \in 1 .. taken}
    BY <1>10 DEF RowsWritten, Collected
  <2>2. RowsTypeOK'
    BY <2>1 DEF RowsTypeOK
  <2>3. EndsOnce' /\ \A r \in Rows : RowIsConsistent(r)'
    BY <2>1 DEF EndsOnce, RowIsConsistent
  <2>4. FileIsWhole'
    BY <2>1 DEF FileIsWhole
  <2> QED BY <2>2, <2>3, <2>4
<1>11. CASE WriteFails
  BY <1>11 DEF WriteFails, RowsTypeOK, EndsOnce, FileIsWhole, RowIsConsistent
<1>12. CASE RowsEnd
  BY <1>12 DEF RowsEnd, RowsTypeOK, EndsOnce, FileIsWhole, RowIsConsistent
<1>13. CASE UNCHANGED rowVars
  BY <1>13 DEF rowVars, RowsTypeOK, EndsOnce, FileIsWhole, RowIsConsistent
<1>14. CASE RowsStep
  BY <1>4, <1>5, <1>6, <1>7, <1>8, <1>9, <1>10, <1>11, <1>12, <1>14 DEF RowsStep
<1> QED
  BY <1>1, <1>2, <1>3, <1>13, <1>14

(* Rows that are all different and as many as there are, are all of them.    *)
LEMMA AllRowsAreTaken ==
  ASSUME RowsTypeOK, EndsOnce, taken = NumRows
  PROVE  {finished[i] : i \in 1 .. taken} = Rows
<1> DEFINE f == [i \in Rows |-> finished[i]]
<1>1. NumRows \in Nat /\ NumRows <= Len(finished) /\ finished \in Seq(Rows)
  BY RowsAssumption DEF RowsTypeOK
<1>2. f \in [Rows -> Rows] /\ \A i, j \in Rows : f[i] = f[j] => i = j
  BY <1>1 DEF Rows, EndsOnce
<1>3. f \in Injection(Rows, Rows)
  BY <1>2 DEF Injection, IsInjective
<1>4. IsFiniteSet(Rows)
  BY <1>1, FS_Interval DEF Rows
<1>5. f \in Surjection(Rows, Rows)
  BY <1>3, <1>4, FS_Injection
<1>6. \A r \in Rows : \E i \in Rows : finished[i] = r
  BY <1>5 DEF Surjection
<1>7. \A i \in Rows : finished[i] \in Rows
  BY <1>2
<1> QED
  BY <1>6, <1>7 DEF Rows

(* The invariant that carries the argument: the file holds the rows taken so  *)
(* far, a task ends once, and a row has the answer its pool allows.          *)
THEOREM RowsInductive == RowsSpec => []RowsInv
  BY RowsInvInit, RowsInvStep, PTL DEF RowsSpec

(* run_simple_csv keeps every row that was collected and answers each as its *)
(* search ended, for any number of rows and any configured times.            *)
THEOREM NoRowIsLost == RowsSpec => []EveryRowIsAnswered
<1>1. RowsInv => EveryRowIsAnswered
  <2> SUFFICES ASSUME RowsInv PROVE EveryRowIsAnswered
    OBVIOUS
  <2>1. rpc = "over" => output = Rows
    BY AllRowsAreTaken DEF RowsInv, FileIsWhole
  <2>2. ASSUME NEW r \in Rows, r \in output PROVE row[r] = "done"
    BY <2>2 DEF RowsInv, RowsTypeOK, FileIsWhole, EndsOnce
  <2>3. ASSUME NEW r \in Rows
        PROVE  /\ r \in output => (answer[r] = "fallback" <=> pool[r] \in {"nothing", "raised"})
               /\ pool[r] = "eligible" => answer[r] # "best"
    BY <2>2 DEF RowsInv, RowsTypeOK, RowIsConsistent
  <2> QED
    BY <2>1, <2>3 DEF RowsInv, FileIsWhole, EveryRowIsAnswered
<1> QED BY <1>1, RowsInductive, PTL

-----------------------------------------------------------------------------
(* A call of a model keeps to its limits, whatever the context, the budget, *)
(* the chunks of the stream and the text that closes its thinking.          *)

(* Before the first request nothing has been decided.                        *)
NotBegun ==
  cpc = "render" =>
    /\ streamed = 0 /\ ~forced /\ ~closed /\ cut = "no"
    /\ segment.number = 0

(* The client never counts more than the server may send.                    *)
CountedIsServed == got <= served /\ served <= segment.asked

FirstSegment ==
  segment.number = 1 =>
    /\ segment.prompt = want.prompt /\ segment.asked = limit
    /\ cpc \in {"request", "stream"} => cut = "no"
    /\ cpc # "done" => ~forced /\ streamed = 0

(* The second request asks for no more than the first has left.              *)
SecondSegment ==
  segment.number = 2 =>
    /\ segment.prompt + segment.asked <= want.prompt + limit
    /\ streamed + segment.asked <= limit \/ cpc = "done"
    /\ closed \/ forced
    /\ cut = "budget" => ~(closed /\ forced)

Result ==
  /\ cpc # "done" <=> result = "none"
  /\ cpc \notin {"render", "done"} => segment.number \in {1, 2}

CallInv ==
  /\ CallTypeOK /\ NotBegun /\ CountedIsServed /\ FirstSegment /\ SecondSegment /\ Result
  /\ CallKeepsToItsBudget

LEMMA CallInvInit == CallInit => CallInv
<1> SUFFICES ASSUME CallInit PROVE CallInv
  OBVIOUS
<1>1. segment = [number |-> 0, prompt |-> 0, asked |-> 0] /\ segment \in Segments
  BY DEF CallInit, NoSegment, Segments
<1>2. CallTypeOK
  BY <1>1 DEF CallInit, CallTypeOK
<1>3. NotBegun /\ CountedIsServed /\ FirstSegment /\ SecondSegment /\ Result /\ CallKeepsToItsBudget
  BY <1>1 DEF CallInit, NotBegun, CountedIsServed, FirstSegment, SecondSegment, Result, CallKeepsToItsBudget
<1> QED
  BY <1>2, <1>3 DEF CallInv

(* The tokens of a request are at least one, within a context or without.    *)
LEMMA AdjustedIsPositive ==
  ASSUME want \in Wants PROVE Adjusted(want.limit) \in Nat \ {0}
<1>1. want.limit \in Nat \ {0} /\ want.prompt \in Nat
  BY CallAssumption DEF Wants
<1>2. CASE Context = 0
  BY <1>1, <1>2 DEF Adjusted
<1>3. CASE Context # 0
  BY <1>1, <1>3, CallAssumption DEF Adjusted, Most, Least
<1> QED BY <1>2, <1>3

LEMMA CallInvStep == CallInv /\ [CallStep]_callVars => CallInv'
<1> SUFFICES ASSUME CallInv, [CallStep]_callVars PROVE CallInv'
  OBVIOUS
<1> USE CallAssumption
    DEF CallInv, CallTypeOK, NotBegun, CountedIsServed, FirstSegment, SecondSegment, Result,
        CallKeepsToItsBudget, Ends
<1>1. CASE Render
  <2>1. limit' \in Nat \ {0} /\ want.prompt \in Nat /\ want.budget \in Nat
    BY <1>1, AdjustedIsPositive DEF Render, Wants
  <2>2. budget' \in Nat
    BY <1>1, <2>1 DEF Render, FirstBudget, Least
  <2>3. segment' = [number |-> 1, prompt |-> want.prompt, asked |-> limit'] /\ segment' \in Segments
    BY <1>1, <2>1 DEF Render, Request, Segments
  <2> QED
    BY <1>1, <2>1, <2>2, <2>3 DEF Render, Request
<1>2. CASE Accepted BY <1>2 DEF Accepted
<1>3. CASE CallFails BY <1>3 DEF CallFails
<1>4. CASE AnswersAtOnce BY <1>4 DEF AnswersAtOnce, Segments
<1>5. CASE Chunk BY <1>5 DEF Chunk, Counted, Guards
<1>6. CASE Whole BY <1>6 DEF Whole
<1>7. CASE ContinueClosed BY <1>7 DEF ContinueClosed, Skipped, Request, Segments, Wants
<1>8. CASE ForceAnswer BY <1>8 DEF ForceAnswer, Skipped, Remaining, Request, Segments, Wants
<1>9. CASE EndContinuation BY <1>9 DEF EndContinuation, Segments
<1>10. CASE UNCHANGED callVars BY <1>10 DEF callVars
<1> QED
  BY <1>1, <1>2, <1>3, <1>4, <1>5, <1>6, <1>7, <1>8, <1>9, <1>10 DEF CallStep

(* The invariant that carries the argument: what a segment has used and what *)
(* it may still ask for add up to the limit of the call.                     *)
THEOREM CallInductive == CallSpec => []CallInv
  BY CallInvInit, CallInvStep, PTL DEF CallSpec

(* A call of run.py that is cut short is continued within what it was granted *)
(* in the first place, and ends with its thinking closed once.               *)
THEOREM CallStaysWithinLimits == CallSpec => []CallKeepsToItsBudget
<1>1. CallInv => CallKeepsToItsBudget
  BY DEF CallInv
<1> QED BY <1>1, CallInductive, PTL

-----------------------------------------------------------------------------
(* The progress bars, for any number of calls.                               *)

(* A bar belongs to a stream that is registered; before its thread runs a    *)
(* call has none, and nobody waits for a call when the problem is over.      *)
BarOf(c) ==
  /\ position[c] # NoBar => position[c] \in 0 .. next - 1 /\ c \in streams
  /\ c \in streams => position[c] # NoBar /\ thread[c] \in {"streams", "over"}
  /\ task[c] = "idle" => thread[c] = "none"
  /\ ~isOpen => task[c] # "awaits"
  /\ ~isOpen /\ ~late => position[c] = NoBar

BarsTypeOK ==
  /\ task \in [Calls -> {"idle", "awaits", "over"}]
  /\ thread \in [Calls -> {"none", "queued", "streams", "over"}]
  /\ streams \subseteq Calls
  /\ position \in [Calls -> Nat \union {NoBar}]
  /\ next \in Nat /\ free \subseteq 0 .. next - 1
  /\ isOpen \in BOOLEAN /\ late \in BOOLEAN

(* Every line that was ever used is free or has one bar.                     *)
BarsInv ==
  /\ BarsTypeOK
  /\ \A c \in Calls : BarOf(c)
  /\ \A c, d \in Calls : position[c] = position[d] /\ position[c] # NoBar => c = d
  /\ \A c \in Calls : position[c] \notin free
  /\ \A p \in 0 .. next - 1 : p \in free \/ \E c \in Calls : position[c] = p

LEMMA NoBarIsNoLine ==
  ASSUME NEW n \in Nat
  PROVE  NoBar \notin 0 .. n - 1
<1>1. 0 .. n - 1 \subseteq Nat
  OBVIOUS
<1> QED
  BY <1>1, BarsAssumption

LEMMA BarsInvInit == BarsInit => BarsInv
<1> SUFFICES ASSUME BarsInit PROVE BarsInv
  OBVIOUS
<1>1. \A c \in Calls : position[c] = NoBar /\ thread[c] = "none" /\ task[c] = "idle"
  BY DEF BarsInit
<1>2. next = 0 /\ free = {} /\ streams = {} /\ isOpen = TRUE /\ late = FALSE
  BY DEF BarsInit
<1>3. BarsTypeOK
  BY DEF BarsInit, BarsTypeOK
<1>4. \A c \in Calls : BarOf(c)
  BY <1>1, <1>2 DEF BarOf
<1> QED
  BY <1>1, <1>2, <1>3, <1>4 DEF BarsInv

(* Where a new bar goes: to a free line or to a new one.                     *)
LEMMA NewLine ==
  ASSUME BarsInv, NEW p \in Nat, LineFor(p), TakeLine(p)
  PROVE  /\ \A c \in Calls : position[c] # p
         /\ next' \in Nat /\ free' = free \ {p} /\ free' \subseteq 0 .. next' - 1
         /\ 0 .. next' - 1 = (0 .. next - 1) \union {p}
<1>1. CASE free # {}
  <2>1. p \in free /\ p \in 0 .. next - 1 /\ next' = next
    BY <1>1 DEF LineFor, TakeLine, BarsInv, BarsTypeOK
  <2>2. QED
    BY <2>1 DEF TakeLine, BarsInv, BarsTypeOK
<1>2. CASE free = {}
  <2>1. p = next /\ next' = next + 1 /\ next \in Nat
    BY <1>2 DEF LineFor, TakeLine, BarsInv, BarsTypeOK
  <2>2. \A c \in Calls : position[c] # p
    BY <2>1, BarsAssumption DEF BarsInv, BarsTypeOK, BarOf
  <2>3. QED
    BY <1>2, <2>1, <2>2 DEF TakeLine
<1> QED
  BY <1>1, <1>2

LEMMA BarsInvStep == BarsInv /\ [BarsStep]_barVars => BarsInv'
<1> SUFFICES ASSUME BarsInv, [BarsStep]_barVars PROVE BarsInv'
  OBVIOUS
<1>1. ASSUME NEW c \in Calls, BeginCall(c) PROVE BarsInv'
  <2>1. /\ isOpen /\ task' = [task EXCEPT ![c] = "awaits"]
        /\ thread' = [thread EXCEPT ![c] = "queued"]
        /\ UNCHANGED <<streams, position, next, free, isOpen, late>>
        /\ task[c] = "idle"
    BY <1>1 DEF BeginCall
  <2>2. BarsTypeOK'
    BY <2>1 DEF BarsInv, BarsTypeOK
  <2>3. c \notin streams
    BY <2>1 DEF BarsInv, BarOf
  <2>4. ASSUME NEW d \in Calls PROVE BarOf(d)'
    BY <2>1, <2>3 DEF BarsInv, BarsTypeOK, BarOf
  <2> QED
    BY <2>1, <2>2, <2>4 DEF BarsInv
<1>2. ASSUME NEW c \in Calls, StreamStart(c) PROVE BarsInv'
  <2>1. PICK p \in 0 .. Cardinality(Calls) :
          LineFor(p) /\ TakeLine(p) /\ position' = [position EXCEPT ![c] = p]
    BY <1>2 DEF StreamStart
  <2>2. Cardinality(Calls) \in Nat
    BY BarsAssumption, FS_CardinalityType
  <2>3. p \in Nat
    BY <2>1, <2>2
  <2>4. /\ \A d \in Calls : position[d] # p
        /\ next' \in Nat /\ free' = free \ {p} /\ free' \subseteq 0 .. next' - 1
        /\ 0 .. next' - 1 = (0 .. next - 1) \union {p}
    BY <2>1, <2>3, NewLine
  <2>5. /\ position' \in [Calls -> Nat \union {NoBar}] /\ position'[c] = p
        /\ \A d \in Calls \ {c} : position'[d] = position[d]
    BY <2>1, <2>3 DEF BarsInv, BarsTypeOK
  <2>6. /\ thread[c] = "queued" /\ streams' = streams \union {c}
        /\ thread' = [thread EXCEPT ![c] = "streams"]
        /\ late' = (late \/ task[c] = "over") /\ UNCHANGED <<task, isOpen>>
    BY <1>2 DEF StreamStart
  <2>7. BarsTypeOK'
    BY <2>4, <2>5, <2>6 DEF BarsInv, BarsTypeOK
  <2>8. p # NoBar
    BY <2>3, BarsAssumption
  <2>9. position[c] = NoBar /\ c \notin streams
    BY <2>6 DEF BarsInv, BarOf
  <2>10. ASSUME NEW d \in Calls PROVE BarOf(d)'
    <3>1. CASE d = c
      <4>1. position'[d] \in 0 .. next' - 1 /\ d \in streams' /\ thread'[d] = "streams"
        BY <2>4, <2>5, <2>6, <3>1 DEF BarsInv, BarsTypeOK
      <4>2. task[c] \in {"awaits", "over"} /\ (~isOpen => task[c] # "awaits")
        BY <2>6 DEF BarsInv, BarsTypeOK, BarOf
      <4>3. QED
        BY <2>5, <2>6, <2>8, <3>1, <4>1, <4>2 DEF BarOf
    <3>2. CASE d # c
      <4>1. position'[d] = position[d] /\ thread'[d] = thread[d] /\ (d \in streams' <=> d \in streams)
        BY <2>5, <2>6, <3>2 DEF BarsInv, BarsTypeOK
      <4>2. QED
        BY <2>4, <2>6, <4>1 DEF BarsInv, BarOf
    <3> QED BY <3>1, <3>2
  <2>11. \A d, e \in Calls : position'[d] = position'[e] /\ position'[d] # NoBar => d = e
    BY <2>4, <2>5 DEF BarsInv
  <2>12. \A d \in Calls : position'[d] \notin free'
    BY <2>4, <2>5 DEF BarsInv
  <2>13. \A q \in 0 .. next' - 1 : q \in free' \/ \E d \in Calls : position'[d] = q
    <3>1. SUFFICES ASSUME NEW q \in 0 .. next' - 1, q \notin free'
                   PROVE  \E d \in Calls : position'[d] = q
      OBVIOUS
    <3>2. CASE q = p
      BY <2>5, <3>2
    <3>3. CASE q # p
      <4>1. q \in 0 .. next - 1 /\ q \notin free
        BY <2>4, <3>1, <3>3
      <4>2. PICK d \in Calls : position[d] = q
        BY <4>1 DEF BarsInv
      <4>3. d # c
        BY <2>9, <4>1, <4>2, BarsAssumption DEF BarsInv, BarsTypeOK
      <4>4. QED
        BY <2>5, <4>2, <4>3
    <3> QED BY <3>2, <3>3
  <2> QED
    BY <2>7, <2>10, <2>11, <2>12, <2>13 DEF BarsInv
<1>3. ASSUME NEW c \in Calls, ThreadEnds(c) PROVE BarsInv'
  BY <1>3 DEF ThreadEnds, BarsInv, BarsTypeOK, BarOf
<1>4. ASSUME NEW c \in Calls, EndCall(c) PROVE BarsInv'
  <2>1. task' = [task EXCEPT ![c] = "over"] /\ UNCHANGED <<thread, next, isOpen, late>>
    BY <1>4 DEF EndCall
  <2>2. CASE c \notin streams
    <3>1. UNCHANGED <<streams, position, free>>
      BY <1>4, <2>2 DEF EndCall, StreamFinish
    <3>2. BarsTypeOK'
      BY <2>1, <3>1 DEF BarsInv, BarsTypeOK
    <3>3. ASSUME NEW d \in Calls PROVE BarOf(d)'
      BY <2>1, <3>1 DEF BarsInv, BarsTypeOK, BarOf
    <3> QED
      BY <2>1, <3>1, <3>2, <3>3 DEF BarsInv
  <2>3. CASE c \in streams
    <3>1. /\ streams' = streams \ {c} /\ position' = [position EXCEPT ![c] = NoBar]
          /\ free' = free \union {position[c]}
      BY <1>4, <2>3 DEF EndCall, StreamFinish, Release
    <3>2. position[c] # NoBar /\ position[c] \in 0 .. next - 1
      BY <2>3 DEF BarsInv, BarOf
    <3>3. BarsTypeOK'
      BY <2>1, <3>1, <3>2 DEF BarsInv, BarsTypeOK
    <3>4. position'[c] = NoBar /\ \A d \in Calls \ {c} : position'[d] = position[d]
      BY <3>1 DEF BarsInv, BarsTypeOK
    <3>5. ASSUME NEW d \in Calls PROVE BarOf(d)'
      BY <2>1, <3>1, <3>4 DEF BarsInv, BarsTypeOK, BarOf
    <3>6. \A d, e \in Calls : position'[d] = position'[e] /\ position'[d] # NoBar => d = e
      BY <3>4 DEF BarsInv
    <3>7. NoBar \notin free'
      BY <3>3, NoBarIsNoLine DEF BarsTypeOK
    <3>8. \A d \in Calls : position'[d] \notin free'
      BY <3>1, <3>2, <3>4, <3>7 DEF BarsInv
    <3>9. \A p \in 0 .. next' - 1 : p \in free' \/ \E d \in Calls : position'[d] = p
      BY <2>1, <3>1, <3>4 DEF BarsInv
    <3> QED
      BY <3>3, <3>5, <3>6, <3>8, <3>9 DEF BarsInv
  <2> QED BY <2>2, <2>3
<1>5. CASE CloseBars
  <2>1. /\ \A c \in Calls : task[c] # "awaits"
        /\ streams' = {} /\ position' = [c \in Calls |-> NoBar] /\ isOpen' = FALSE
        /\ free' = free \union ({position[c] : c \in Calls} \ {NoBar})
        /\ UNCHANGED <<task, thread, next, late>>
    BY <1>5 DEF CloseBars
  <2>2. ({position[c] : c \in Calls} \ {NoBar}) \subseteq 0 .. next - 1
    BY DEF BarsInv, BarOf
  <2>3. BarsTypeOK'
    BY <2>1, <2>2 DEF BarsInv, BarsTypeOK
  <2>4. \A c \in Calls : position'[c] = NoBar
    BY <2>1
  <2>5. \A c \in Calls : BarOf(c)'
    BY <2>1, <2>4 DEF BarsInv, BarOf
  <2>6. NoBar \notin free'
    BY <2>3, NoBarIsNoLine DEF BarsTypeOK
  <2>7. \A p \in 0 .. next' - 1 : p \in free'
    <3>1. SUFFICES ASSUME NEW p \in 0 .. next - 1 PROVE p \in free'
      BY <2>1
    <3>2. p # NoBar
      BY BarsAssumption DEF BarsInv, BarsTypeOK
    <3>3. p \in free \/ \E c \in Calls : position[c] = p
      BY DEF BarsInv
    <3>4. QED
      BY <2>1, <3>2, <3>3
  <2> QED
    BY <2>3, <2>4, <2>5, <2>6, <2>7 DEF BarsInv
<1>6. CASE UNCHANGED barVars
  BY <1>6 DEF barVars, BarsInv, BarsTypeOK, BarOf
<1> QED
  BY <1>1, <1>2, <1>3, <1>4, <1>5, <1>6 DEF BarsStep

(* The bars of a problem share no line, and after it their lines are free,   *)
(* for any number of calls, whichever are cancelled while their threads run. *)
THEOREM BarsGiveTheirLinesBack == Spec => []LinesComeBack
<1>1. Init => BarsInv
  BY BarsInvInit DEF Init
<1>2. BarsInv /\ [Next]_vars => BarsInv'
  BY BarsInvStep DEF Next, vars
<1>3. ASSUME BarsInv PROVE LinesComeBack
  <2>1. ASSUME ~isOpen, ~late PROVE free = 0 .. next - 1
    <3>1. \A c \in Calls : position[c] = NoBar
      BY <1>3, <2>1 DEF BarsInv, BarOf
    <3>2. \A p \in 0 .. next - 1 : p # NoBar
      BY <1>3, BarsAssumption DEF BarsInv, BarsTypeOK
    <3>3. \A p \in 0 .. next - 1 : p \in free
      BY <1>3, <3>1, <3>2 DEF BarsInv
    <3>4. QED
      BY <1>3, <3>3 DEF BarsInv, BarsTypeOK
  <2> QED
    BY <1>3, <2>1 DEF BarsInv, LinesComeBack
<1> QED
  BY <1>1, <1>2, <1>3, PTL DEF Spec

-----------------------------------------------------------------------------
(* Generation by lemmas, for any plan.                                       *)

(* A lemma that was tried and waits on no circle was given all it may use,   *)
(* and none of that is still to come.                                        *)
FollowsItsPremises(id) ==
  id \notin left /\ ~Waits(id) =>
    /\ lemmas[id] \cap DOMAIN lemmas \cap (left \union wave) = {}
    /\ shown[id] = lemmas[id] \cap DOMAIN results

WavesInv ==
  /\ left \subseteq DOMAIN lemmas /\ wave \subseteq DOMAIN lemmas \ left
  /\ DOMAIN results \subseteq DOMAIN lemmas \ (left \union wave)
  /\ dpc # "wave" => wave = {}
  /\ dpc \in {"plan", "repair"} => left = {} /\ DOMAIN results = {}
  /\ \A id \in DOMAIN lemmas : tried[id] = IF id \in left THEN 0 ELSE 1
  /\ \A id \in DOMAIN lemmas : FollowsItsPremises(id)
  /\ dpc \in {"assemble", "ok"} => left = {} /\ Proved # {}

LEMMA WavesInvInit == WavesInit => WavesInv
  BY DEF WavesInit, WavesInv, Nothing, FollowsItsPremises

(* If no lemma is ready, all that are left wait on a circle.                 *)
LEMMA NoneReady ==
  ASSUME left # {}, left \subseteq DOMAIN lemmas, \A id \in left : ~Ready(id), NEW id \in left
  PROVE  Waits(id)
  BY DEF Ready, Waits, Circular

LEMMA WavesInvStep == WavesInv /\ [WavesStep]_wavesVars => WavesInv'
<1> SUFFICES ASSUME WavesInv, [WavesStep]_wavesVars PROVE WavesInv'
  OBVIOUS
<1>1. ASSUME Leaves, UNCHANGED <<lemmas, left, wave, results, tried, shown>>, dpc # "wave"
      PROVE  WavesInv'
  <2>1. dpc' \in {"direct", "fails"}
    BY <1>1 DEF Leaves
  <2>2. \A id \in DOMAIN lemmas : FollowsItsPremises(id)' = FollowsItsPremises(id)
    BY <1>1 DEF FollowsItsPremises, Waits, Circular
  <2>3. QED
    BY <1>1, <2>1, <2>2 DEF WavesInv
<1>2. CASE Unparsed
  <2>1. CASE dpc = "plan"
    <3>1. dpc' = "repair" /\ UNCHANGED <<lemmas, left, wave, results, tried, shown>>
      BY <1>2, <2>1 DEF Unparsed
    <3>2. \A id \in DOMAIN lemmas : FollowsItsPremises(id)' = FollowsItsPremises(id)
      BY <3>1 DEF FollowsItsPremises, Waits, Circular
    <3>3. QED
      BY <2>1, <3>1, <3>2 DEF WavesInv
  <2>2. CASE dpc # "plan"
    BY <1>1, <1>2, <2>2 DEF Unparsed, GivesUp
  <2> QED BY <2>1, <2>2
<1>3. CASE Parsed
  <2>1. PICK plan \in Plans :
          IF Usable(plan) = {} THEN GivesUp
          ELSE /\ dpc' = "waves" /\ lemmas' = Tasks(plan) /\ left' = DOMAIN Tasks(plan)
               /\ tried' = [id \in DOMAIN Tasks(plan) |-> 0]
               /\ UNCHANGED <<wave, results>>
    BY <1>3 DEF Parsed
  <2>2. CASE Usable(plan) = {}
    BY <1>1, <1>3, <2>1, <2>2 DEF Parsed, GivesUp
  <2>3. CASE Usable(plan) # {}
    <3>1. /\ dpc' = "waves" /\ left' = DOMAIN lemmas' /\ tried' = [id \in DOMAIN lemmas' |-> 0]
          /\ UNCHANGED <<wave, results>> /\ wave = {} /\ DOMAIN results = {}
      BY <1>3, <2>1, <2>3 DEF Parsed, WavesInv
    <3>2. \A id \in DOMAIN lemmas' : FollowsItsPremises(id)'
      BY <3>1 DEF FollowsItsPremises
    <3>3. QED
      BY <3>1, <3>2 DEF WavesInv
  <2> QED BY <2>2, <2>3
<1>4. CASE StartWave
  <2> DEFINE unblocked == {id \in left : Ready(id)}
             chosen == IF unblocked = {} THEN left ELSE unblocked
  <2>1. /\ wave' = chosen /\ left' = left \ chosen /\ UNCHANGED <<lemmas, results>>
        /\ tried' = [id \in DOMAIN lemmas |-> tried[id] + (IF id \in chosen THEN 1 ELSE 0)]
        /\ shown' = [id \in DOMAIN lemmas |-> IF id \in chosen THEN Quoted(id) ELSE shown[id]]
        /\ dpc = "waves" /\ dpc' = "wave" /\ left # {}
    BY <1>4 DEF StartWave
  <2>2. chosen \subseteq left /\ left' \union wave' = left /\ wave = {}
    BY <2>1 DEF WavesInv
  <2>3. ASSUME NEW id \in DOMAIN lemmas, id \notin left'
        PROVE  FollowsItsPremises(id)'
    <3>1. Waits(id)' = Waits(id)
      BY <2>1 DEF Waits, Circular
    <3>2. CASE id \in chosen
      <4>1. CASE unblocked = {}
        BY <2>1, <2>2, <3>1, <3>2, <4>1, NoneReady DEF WavesInv, FollowsItsPremises
      <4>2. CASE unblocked # {}
        <5>1. lemmas[id] \cap left = {}
          BY <3>2, <4>2 DEF Ready
        <5>2. shown'[id] = lemmas[id] \cap DOMAIN results
          BY <2>1, <3>2 DEF Quoted
        <5>3. QED
          BY <2>1, <2>2, <5>1, <5>2 DEF FollowsItsPremises
      <4> QED BY <4>1, <4>2
    <3>3. CASE id \notin chosen
      <4>1. id \notin left /\ shown'[id] = shown[id]
        BY <2>1, <2>3, <3>3
      <4>2. QED
        BY <2>1, <2>2, <3>1, <4>1 DEF WavesInv, FollowsItsPremises
    <3> QED BY <3>2, <3>3
  <2>4. \A id \in DOMAIN lemmas' : FollowsItsPremises(id)'
    BY <2>1, <2>3 DEF FollowsItsPremises
  <2>5. \A id \in DOMAIN lemmas' : tried'[id] = IF id \in left' THEN 0 ELSE 1
    <3>1. SUFFICES ASSUME NEW id \in DOMAIN lemmas
                   PROVE  tried'[id] = IF id \in left' THEN 0 ELSE 1
      BY <2>1
    <3>2. tried'[id] = tried[id] + (IF id \in chosen THEN 1 ELSE 0)
      BY <2>1
    <3>3. tried[id] = IF id \in left THEN 0 ELSE 1
      BY DEF WavesInv
    <3>4. (id \in left' <=> id \in left /\ id \notin chosen) /\ (id \in chosen => id \in left)
      BY <2>1, <2>2
    <3> HIDE DEF chosen
    <3> QED BY <3>2, <3>3, <3>4
  <2>6. left' \subseteq DOMAIN lemmas' /\ wave' \subseteq DOMAIN lemmas' \ left'
    BY <2>1, <2>2 DEF WavesInv
  <2>7. DOMAIN results' \subseteq DOMAIN lemmas' \ (left' \union wave')
    BY <2>1, <2>2 DEF WavesInv
  <2> QED
    BY <2>1, <2>4, <2>5, <2>6, <2>7 DEF WavesInv
<1>5. CASE EndWave
  <2>1. PICK answers \in [wave -> Statuses \union {"raised"}] :
          LET new == {id \in wave : answers[id] # "raised"}
          IN results' = [id \in DOMAIN results \union new |->
                           IF id \in new THEN answers[id] ELSE results[id]]
    BY <1>5 DEF EndWave
  <2>2. /\ DOMAIN results \subseteq DOMAIN results'
        /\ DOMAIN results' \subseteq DOMAIN results \union wave
    BY <2>1
  <2>3. dpc' = "waves" /\ wave' = {} /\ UNCHANGED <<lemmas, left, tried, shown>>
    BY <1>5 DEF EndWave
  <2>4. ASSUME NEW id \in DOMAIN lemmas PROVE FollowsItsPremises(id)'
    <3>1. Waits(id)' = Waits(id)
      BY <2>3 DEF Waits, Circular
    <3>2. SUFFICES ASSUME id \notin left, ~Waits(id)
                   PROVE  /\ lemmas[id] \cap DOMAIN lemmas \cap left = {}
                          /\ shown[id] = lemmas[id] \cap DOMAIN results'
      BY <2>3, <3>1 DEF FollowsItsPremises
    <3>3. /\ lemmas[id] \cap DOMAIN lemmas \cap (left \union wave) = {}
          /\ shown[id] = lemmas[id] \cap DOMAIN results
      BY <3>2 DEF WavesInv, FollowsItsPremises
    <3>4. lemmas[id] \cap wave = {}
      BY <3>3 DEF WavesInv
    <3>5. QED
      BY <2>2, <3>3, <3>4
  <2>5. DOMAIN results' \subseteq DOMAIN lemmas \ left
    BY <2>2 DEF WavesInv
  <2> QED
    BY <2>3, <2>4, <2>5 DEF WavesInv
<1>6. CASE WavesEnd
  <2>1. CASE Proved = {}
    BY <1>1, <1>6, <2>1 DEF WavesEnd, GivesUp
  <2>2. CASE Proved # {}
    <3>1. /\ dpc = "waves" /\ dpc' = "assemble" /\ left = {}
          /\ UNCHANGED <<lemmas, left, wave, results, tried, shown>>
      BY <1>6, <2>2 DEF WavesEnd
    <3>2. Proved' = Proved
      BY <3>1 DEF Proved
    <3>3. \A id \in DOMAIN lemmas : FollowsItsPremises(id)' = FollowsItsPremises(id)
      BY <3>1 DEF FollowsItsPremises, Waits, Circular
    <3>4. QED
      BY <2>2, <3>1, <3>2, <3>3 DEF WavesInv
  <2> QED BY <2>1, <2>2
<1>7. CASE Assembled
  <2>1. CASE Leaves
    BY <1>1, <1>7, <2>1 DEF Assembled
  <2>2. CASE dpc' = "ok"
    <3>1. dpc = "assemble" /\ UNCHANGED <<lemmas, left, wave, results, tried, shown>>
      BY <1>7 DEF Assembled
    <3>2. Proved' = Proved
      BY <3>1 DEF Proved
    <3>3. \A id \in DOMAIN lemmas : FollowsItsPremises(id)' = FollowsItsPremises(id)
      BY <3>1 DEF FollowsItsPremises, Waits, Circular
    <3>4. QED
      BY <2>2, <3>1, <3>2, <3>3 DEF WavesInv
  <2> QED BY <1>7, <2>1, <2>2 DEF Assembled
<1>8. CASE UNCHANGED wavesVars
  <2>1. UNCHANGED <<dpc, lemmas, left, wave, results, tried, shown>>
    BY <1>8 DEF wavesVars
  <2>2. Proved' = Proved
    BY <2>1 DEF Proved
  <2>3. \A id \in DOMAIN lemmas : FollowsItsPremises(id)' = FollowsItsPremises(id)
    BY <2>1 DEF FollowsItsPremises, Waits, Circular
  <2>4. QED
    BY <2>1, <2>2, <2>3 DEF WavesInv
<1> QED
  BY <1>2, <1>3, <1>4, <1>5, <1>6, <1>7, <1>8 DEF WavesStep

(* However an architect orders, repeats or misspells its lemmas, and         *)
(* whichever calls raise, a lemma's prompt quotes all it may use, unless it  *)
(* waits on a circle; every lemma was tried once before the proof is         *)
(* assembled.                                                                *)
THEOREM LemmasAreProvedInOrder == Spec => []LemmasFollowTheirPremises
<1>1. Init => WavesInv
  BY WavesInvInit DEF Init
<1>2. WavesInv /\ [Next]_vars => WavesInv'
  BY WavesInvStep DEF Next, vars
<1>3. ASSUME WavesInv PROVE LemmasFollowTheirPremises
  <2>1. ASSUME NEW id \in DOMAIN lemmas, tried[id] = 1, ~Waits(id)
        PROVE  /\ lemmas[id] \cap DOMAIN lemmas \subseteq DOMAIN lemmas \ (left \union wave)
               /\ shown[id] = lemmas[id] \cap DOMAIN results
    <3>1. id \notin left
      BY <1>3, <2>1 DEF WavesInv
    <3>2. QED
      BY <1>3, <2>1, <3>1 DEF WavesInv, FollowsItsPremises
  <2>2. dpc \in {"assemble", "ok"} =>
          Proved # {} /\ \A id \in DOMAIN lemmas : tried[id] = 1
    BY <1>3 DEF WavesInv
  <2> QED
    BY <2>1, <2>2 DEF LemmasFollowTheirPremises
<1> QED
  BY <1>1, <1>2, <1>3, PTL DEF Spec

-----------------------------------------------------------------------------

LEMMA MainKeepsServers == MainStep => ServersStep \/ UNCHANGED serverVars
  BY DEF MainStep, ReadInput, StartServers, ServersFail, BeginRows, WorkOnRows, StopServers,
         LaunchFails, ServersStep, MainThread

LEMMA MainKeepsRows ==
  MainStep => LoadInput \/ ServersReady \/ RowsStep \/ Interrupted \/ UNCHANGED rowVars
  BY DEF MainStep, ReadInput, StartServers, ServersFail, BeginRows, WorkOnRows, StopServers

(* The main thread of run.py drives the servers as InferenceServers does.    *)
THEOREM RuntimeDrivesServers == Spec => ServersSpec
<1>1. Init => ServersInit
  BY DEF Init
<1>2. [Next]_vars => [ServersStep]_serverVars
  BY MainKeepsServers DEF Next, vars, mainVars
<1> QED BY <1>1, <1>2, PTL DEF Spec, ServersSpec

(* ... the rows as ProblemRows does ...                                      *)
THEOREM RuntimeSolvesRows == Spec => RowsSpec
<1>1. Init => RowsInit
  BY DEF Init
<1>2. [Next]_vars => [LoadInput \/ ServersReady \/ RowsStep \/ Interrupted]_rowVars
  BY MainKeepsRows DEF Next, vars, mainVars
<1> QED BY <1>1, <1>2, PTL DEF Spec, RowsSpec

(* ... and a thread of the scheduler makes its call as ModelCall does.       *)
THEOREM RuntimeMakesCalls == Spec => CallSpec
<1>1. Init => CallInit
  BY DEF Init
<1>2. [Next]_vars => [CallStep]_callVars
  BY DEF Next, vars
<1> QED BY <1>1, <1>2, PTL DEF Spec, CallSpec

(* What the run of Inference checks on small instances, for every value of   *)
(* the constants: no server outlives the run, no collected row is lost, a    *)
(* call keeps to its limits, lemmas follow their premises and the lines of   *)
(* the bars come back.                                                       *)
THEOREM RuntimeKeepsItsPromises ==
  Spec => /\ []ServersEndWithTheRun /\ []EveryRowIsAnswered /\ []CallKeepsToItsBudget
          /\ []LemmasFollowTheirPremises /\ []LinesComeBack
  BY RuntimeDrivesServers, RuntimeSolvesRows, RuntimeMakesCalls,
     NoServerIsLeft, NoRowIsLost, CallStaysWithinLimits,
     LemmasAreProvedInOrder, BarsGiveTheirLinesBack, PTL
=============================================================================
