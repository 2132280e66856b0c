----------------------------- MODULE ModelCall -----------------------------
(***************************************************************************)
(* One call of a model in its thread (ChatScheduler._call_sync of             *)
(* src/src/run.py): a streamed request that may be cut short when its         *)
(* thinking has used up a budget or repeats itself, and is then continued    *)
(* with a text that closes the thinking.  Token sequences are represented    *)
(* by their lengths.                                                         *)
(***************************************************************************)
EXTENDS Integers

CONSTANTS
  Context,       \* context_length, of the server and of the scheduler
  Margin,        \* context_margin_tokens
  PromptLengths, \* prompt_tokens
  TokenLimits,   \* configured_max_tokens of the stages
  Budgets,       \* thinking_budget_tokens; 0 stands for None
  ForceTokens,   \* number of tokens of the force text
  MaxChunk,      \* tokens in a chunk of the stream
  Interval       \* stream_interval_tokens

ASSUME CallAssumption ==
  /\ Context \in Nat /\ Margin \in Nat /\ ForceTokens \in Nat
  /\ MaxChunk \in Nat /\ Interval \in Nat \ {0}
  /\ PromptLengths \subseteq Nat /\ Budgets \subseteq Nat
  /\ TokenLimits \subseteq Nat \ {0}

VARIABLES
  want,     \* what the caller asks for
  cpc,      \* "render", "request", "stream", "segment", "done"
  limit,    \* max_tokens
  budget,   \* budget_tokens of the first segment, 0 for None
  segment,  \* the request under way: its number, its prompt and its max_tokens
  served,   \* tokens the server has sent for it
  got,      \* of these counted by the client (streamed_tokens of the segment)
  checked,  \* last_repetition_check_tokens
  streamed, \* streamed_tokens of the call
  closed,   \* the first segment closed its thinking block
  cut,      \* why the first segment was cut short: "budget", "repetition", "no"
  forced,   \* the force text is part of the answer
  result    \* "none", "ok", "reached" (no tokens left), "error"

callVars ==
  <<want, cpc, limit, budget, segment, served, got, checked, streamed, closed, cut, forced,
    result>>

Wants ==
  [prompt: PromptLengths, limit: TokenLimits, budget: Budgets, guarded: BOOLEAN, stream: BOOLEAN]
NoSegment == [number |-> 0, prompt |-> 0, asked |-> 0]
Segments == [number: 0 .. 2, prompt: Nat, asked: Nat]

CallTypeOK ==
  /\ want \in Wants
  /\ cpc \in {"render", "request", "stream", "segment", "done"}
  /\ limit \in Nat /\ budget \in Nat /\ segment \in Segments
  /\ served \in Nat /\ got \in Nat /\ checked \in Nat /\ streamed \in Nat
  /\ closed \in BOOLEAN /\ forced \in BOOLEAN
  /\ cut \in {"no", "budget", "repetition"}
  /\ result \in {"none", "ok", "reached", "error"}

CallInit ==
  /\ want \in Wants
  /\ cpc = "render" /\ limit = 0 /\ budget = 0 /\ segment = NoSegment
  /\ served = 0 /\ got = 0 /\ checked = 0 /\ streamed = 0
  /\ closed = FALSE /\ cut = "no" /\ forced = FALSE /\ result = "none"

Least(a, b) == IF a <= b THEN a ELSE b
Most(a, b) == IF a <= b THEN b ELSE a

(* _adjust_max_tokens_for_context                                            *)
Adjusted(tokens) ==
  IF Context = 0 THEN tokens ELSE Most(1, Least(tokens, Context - want.prompt - Margin))

(* A budget leaves at least one token for the answer.                        *)
FirstBudget(tokens) ==
  IF want.stream /\ want.budget > 0 /\ tokens > 1
  THEN Least(want.budget, tokens - 1) ELSE 0

Request(number, prompt, asked) ==
  /\ cpc' = "request"
  /\ segment' = [number |-> number, prompt |-> prompt, asked |-> asked]
  /\ served' = 0 /\ got' = 0 /\ checked' = 0

Render ==
  /\ cpc = "render"
  /\ limit' = Adjusted(want.limit)
  /\ budget' = FirstBudget(limit')
  /\ Request(1, want.prompt, limit')
  /\ UNCHANGED <<want, streamed, closed, cut, forced, result>>

Ends(how) == cpc' = "done" /\ result' = how

(* The server takes a request that fits its context.                         *)
Fits == segment.prompt + segment.asked <= Context
Accepted ==
  /\ cpc = "request" /\ Fits
  /\ cpc' = "stream"
  /\ UNCHANGED <<want, limit, budget, segment, served, got, checked, streamed, closed, cut,
                 forced, result>>

(* Any exception, the refusal of a request included: what was streamed is    *)
(* lost.                                                                     *)
CallFails ==
  /\ cpc \in {"request", "stream"}
  /\ Ends("error")
  /\ UNCHANGED <<want, limit, budget, segment, served, got, checked, streamed, closed, cut,
                 forced>>

(* Without streaming there is one answer and no budget.                      *)
AnswersAtOnce ==
  /\ cpc = "stream" /\ ~want.stream
  /\ Ends("ok")
  /\ UNCHANGED <<want, limit, budget, segment, served, got, checked, streamed, closed, cut,
                 forced>>

(* merge_streamed_token_ids: a chunk that begins with everything so far is   *)
(* taken for a repetition of it.                                             *)
Counted(k) == {k} \cup {n \in 0 .. k : n = k - got /\ got > 0}

(* The repetition guard looks at the text once in an interval.               *)
Guards(total) == want.guarded /\ total - checked >= Interval

(* A chunk of k tokens; last: it carries the finish reason.                  *)
Chunk ==
  /\ cpc = "stream" /\ want.stream
  /\ \E k \in 0 .. MaxChunk, last \in BOOLEAN, closes \in BOOLEAN, repeats \in BOOLEAN :
       /\ served + k <= segment.asked
       /\ served + k = segment.asked => last
       /\ k > 0 \/ last
       /\ served' = served + k
       /\ \E new \in Counted(k) :
            LET total == got + new
                looks == Guards(total) /\ new > 0 /\ ~last
                stops == looks /\ repeats
                spent == segment.number = 1 /\ budget > 0 /\ ~last /\ total >= budget
            IN /\ repeats => looks
               /\ got' = total
               /\ checked' = IF looks THEN total ELSE checked
               /\ cut' = IF segment.number = 2 THEN cut
                         ELSE IF stops THEN "repetition" ELSE IF spent THEN "budget" ELSE "no"
               /\ cpc' = IF stops \/ spent \/ last THEN "segment" ELSE "stream"
       /\ closed' = (closed \/ (closes /\ segment.number = 1 /\ k > 0))
  /\ UNCHANGED <<want, limit, budget, segment, streamed, forced, result>>

Whole ==
  /\ cpc = "segment" /\ segment.number = 1 /\ cut = "no"
  /\ streamed' = got
  /\ Ends("ok")
  /\ UNCHANGED <<want, limit, budget, segment, served, got, checked, closed, cut, forced>>

(* thinking_budget_skipped_closed: nothing has to be forced.                 *)
Skipped == cut = "budget" /\ closed
ContinueClosed ==
  /\ cpc = "segment" /\ segment.number = 1 /\ Skipped
  /\ streamed' = got
  /\ IF limit - got > 0
     THEN Request(2, want.prompt + got, limit - got) /\ UNCHANGED result
     ELSE Ends("reached") /\ UNCHANGED <<segment, served, got, checked>>
  /\ UNCHANGED <<want, limit, budget, closed, cut, forced>>

(* Mutant: the tokens of the force text are not taken off.                   *)
Remaining_Unforced == limit - got
Remaining == limit - got - ForceTokens

(* The force text closes the thinking and begins the answer.                 *)
ForceAnswer ==
  /\ cpc = "segment" /\ segment.number = 1 /\ cut # "no" /\ ~Skipped
  /\ forced' = TRUE
  /\ streamed' = got + ForceTokens
  /\ IF Remaining > 0
     THEN Request(2, want.prompt + got + ForceTokens, Remaining) /\ UNCHANGED result
     ELSE Ends("reached") /\ UNCHANGED <<segment, served, got, checked>>
  /\ UNCHANGED <<want, limit, budget, closed, cut>>

EndContinuation ==
  /\ cpc = "segment" /\ segment.number = 2
  /\ streamed' = streamed + got
  /\ Ends("ok")
  /\ UNCHANGED <<want, limit, budget, segment, served, got, checked, closed, cut, forced>>

CallStep ==
  \/ Render \/ Accepted \/ CallFails \/ AnswersAtOnce \/ Chunk
  \/ Whole \/ ContinueClosed \/ ForceAnswer \/ EndContinuation

CallSpec == CallInit /\ [][CallStep]_callVars

-----------------------------------------------------------------------------
(* A call that is cut short can always be continued: the second request asks *)
(* for no more of the context than the first was granted, so that no long    *)
(* generation is lost to a refusal.  Its answer is no longer than its limit  *)
(* but for the text it was forced to contain, and if it was cut short its    *)
(* thinking is closed -- by the model or by the force text, and after a      *)
(* budget not by both.                                                       *)
CallKeepsToItsBudget ==
  /\ segment.number = 2 => segment.prompt + segment.asked <= want.prompt + limit
  /\ result \in {"ok", "reached"} =>
       /\ streamed <= limit + (IF forced THEN ForceTokens ELSE 0)
       /\ result = "ok" /\ forced => streamed <= limit
       /\ cut # "no" => closed \/ forced
       /\ cut = "budget" => ~(closed /\ forced)
=============================================================================
