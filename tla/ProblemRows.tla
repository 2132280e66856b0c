---------------------------- MODULE ProblemRows ----------------------------
(***************************************************************************)
(* The rows of an input file (run_simple_csv and ProofRuntime.solve_problem  *)
(* of src/src/run.py): each is solved by a task under a semaphore, within a  *)
(* time of its own, and after each the whole output file is written again.   *)
(* The search over the candidates of a row is CandidateStream.               *)
(***************************************************************************)
EXTENDS Integers, Sequences, FiniteSets

CONSTANTS
  NumRows,      \* rows of the input, up to max_rows
  MaxProblems,  \* max_concurrent_problems
  Timeouts,     \* values of problem_timeout_seconds, in units of ten seconds
  Reserves      \* values of selection_reserve_seconds, in units of ten seconds

ASSUME RowsAssumption ==
  /\ NumRows \in Nat /\ MaxProblems \in Int
  /\ Timeouts \subseteq Nat /\ Reserves \subseteq Nat

VARIABLES
  rpc,      \* "input", "servers", "rows", "write", "over", or "raised"
  timeout,  \* problem_timeout_seconds and
  reserve,  \*   selection_reserve_seconds as ProofRuntime keeps them
  row,      \* row[r]: "waits", "search", "select", "log", "done"
  pool,     \* pool[r]: what the search has found for it
  answer,   \* answer[r]: "none", "best", "selected", "fallback"
  finished, \* rows in the order in which their tasks ended
  taken,    \* number of these taken by as_completed
  output,   \* rows in the output file
  torn      \* the last rewriting of the file did not end

rowVars == <<rpc, timeout, reserve, row, pool, answer, finished, taken, output, torn>>

Rows == 1 .. NumRows
AtLeast(a, b) == IF a >= b THEN a ELSE b
Outcomes == {"nothing", "low", "eligible", "strict"}

RowsInit ==
  /\ rpc = "input"
  /\ timeout \in {AtLeast(6, t) : t \in Timeouts} /\ reserve \in {AtLeast(3, t) : t \in Reserves}
  /\ row = [r \in Rows |-> "waits"]
  /\ pool = [r \in Rows |-> "unknown"] /\ answer = [r \in Rows |-> "none"]
  /\ finished = <<>> /\ taken = 0 /\ output = {} /\ torn = FALSE

(* load_simple_input: without a column of problems no server is started.     *)
LoadInput ==
  /\ rpc = "input" /\ rpc' \in {"servers", "raised"}
  /\ UNCHANGED <<timeout, reserve, row, pool, answer, finished, taken, output, torn>>

(* ensure_ready has returned.                                                *)
ServersReady ==
  /\ rpc = "servers" /\ rpc' = "rows"
  /\ UNCHANGED <<timeout, reserve, row, pool, answer, finished, taken, output, torn>>

Solving == {r \in Rows : row[r] \in {"search", "select", "log"}}
BeginRow(r) ==
  /\ rpc = "rows" /\ row[r] = "waits" /\ Cardinality(Solving) < AtLeast(1, MaxProblems)
  /\ row' = [row EXCEPT ![r] = "search"]
  /\ UNCHANGED <<rpc, timeout, reserve, pool, answer, finished, taken, output, torn>>

Answers(r, what) ==
  /\ answer' = [answer EXCEPT ![r] = what]
  /\ row' = [row EXCEPT ![r] = "log"]

(* Mutant: the time for the selection is not taken off.                      *)
AttemptBudget_Whole == timeout
AttemptBudget == AtLeast(3, timeout - reserve)

(* run_streaming_candidates returns what it has when its budget is over.     *)
(* With a strict pass, or without a candidate above the threshold, the       *)
(* selector is not asked; nor when 20 seconds or less remain.                *)
SearchEnds(r) ==
  /\ rpc = "rows" /\ row[r] = "search"
  /\ \E found \in Outcomes, time \in 0 .. AttemptBudget :
       /\ pool' = [pool EXCEPT ![r] = found]
       /\ IF found = "nothing" THEN Answers(r, "fallback")
          ELSE IF found = "eligible" /\ timeout - time > 2
          THEN row' = [row EXCEPT ![r] = "select"] /\ UNCHANGED answer
          ELSE Answers(r, "best")
  /\ UNCHANGED <<rpc, timeout, reserve, finished, taken, output, torn>>

(* The selector answers, or not within the time that remains: the best score *)
(* of the pool is the fallback of both.                                      *)
SelectorEnds(r) ==
  /\ rpc = "rows" /\ row[r] = "select"
  /\ Answers(r, "selected")
  /\ UNCHANGED <<rpc, timeout, reserve, pool, finished, taken, output, torn>>

TaskEnds(r) ==
  /\ row' = [row EXCEPT ![r] = "done"]
  /\ finished' = Append(finished, r)

(* write_debug_row appends the result to results.jsonl.                      *)
LogRow(r) ==
  /\ rpc = "rows" /\ row[r] = "log"
  /\ TaskEnds(r)
  /\ UNCHANGED <<rpc, timeout, reserve, pool, answer, taken, output, torn>>

(* An exception anywhere in the row, when its result is logged included:     *)
(* the fallback takes the place of what was found.                           *)
RowRaises(r) ==
  /\ rpc = "rows" /\ r \in Solving
  /\ answer' = [answer EXCEPT ![r] = "fallback"]
  /\ pool' = [pool EXCEPT ![r] = "raised"]
  /\ TaskEnds(r)
  /\ UNCHANGED <<rpc, timeout, reserve, taken, output, torn>>

(* as_completed gives the next task; the output file is opened anew.         *)
TakeRow ==
  /\ rpc = "rows" /\ taken < Len(finished)
  /\ rpc' = "write" /\ taken' = taken + 1
  /\ output' = {} /\ torn' = TRUE
  /\ UNCHANGED <<timeout, reserve, row, pool, answer, finished>>

(* Mutant: the file is written with the new row only.                        *)
Collected_Last == {finished[i] : i \in {taken} \cap DOMAIN finished}
Collected == {finished[i] : i \in 1 .. taken}

(* No task runs while the rows are written.                                  *)
RowsWritten ==
  /\ rpc = "write"
  /\ rpc' = "rows" /\ output' = Collected /\ torn' = FALSE
  /\ UNCHANGED <<timeout, reserve, row, pool, answer, finished, taken>>

(* The disk is full: the tasks that are left are lost.                       *)
WriteFails ==
  /\ rpc = "write" /\ rpc' = "raised"
  /\ UNCHANGED <<timeout, reserve, row, pool, answer, finished, taken, output, torn>>

RowsEnd ==
  /\ rpc = "rows" /\ taken = NumRows
  /\ rpc' = "over"
  /\ UNCHANGED <<timeout, reserve, row, pool, answer, finished, taken, output, torn>>

(* A signal handler has raised KeyboardInterrupt, which nothing catches.     *)
Interrupted ==
  /\ rpc' = IF rpc = "over" THEN rpc ELSE "raised"
  /\ UNCHANGED <<timeout, reserve, row, pool, answer, finished, taken, output, torn>>

RowsStep ==
  \/ \E r \in Rows : BeginRow(r) \/ SearchEnds(r) \/ SelectorEnds(r) \/ LogRow(r) \/ RowRaises(r)
  \/ TakeRow \/ RowsWritten \/ WriteFails \/ RowsEnd

RowsSpec ==
  RowsInit /\ [][LoadInput \/ ServersReady \/ RowsStep \/ Interrupted]_rowVars

-----------------------------------------------------------------------------
(* The output holds every row that was collected, however the run ends, and  *)
(* of a run that was not disturbed every row of the input -- unless the run  *)
(* was interrupted while the file was written, which loses them all.  A row  *)
(* for which the search found a proof is answered with one, unless an        *)
(* exception was raised for it; and the search always leaves the selector    *)
(* the time to choose, whatever times are configured.                        *)
EveryRowIsAnswered ==
  /\ ~torn => output = {finished[i] : i \in 1 .. taken}
  /\ rpc = "over" => output = Rows
  /\ \A r \in Rows :
       /\ r \in output => (answer[r] = "fallback" <=> pool[r] \in {"nothing", "raised"})
       /\ pool[r] = "eligible" => answer[r] # "best"
=============================================================================
