----------------------------- MODULE Inference -----------------------------
(***************************************************************************)
(* The runtime of src/src/run.py around the pipeline of CandidateStream and  *)
(* ProofAttempt.  The main thread starts the servers, works on the rows and  *)
(* stops the servers (InferenceServers, ProblemRows).  The parts of a        *)
(* problem that are modelled here share no state with it nor with each       *)
(* other: one call of a model (ModelCall), a candidate that is generated by  *)
(* lemmas (SublemmaWaves) and the progress bars (ProgressBars).  A behaviour *)
(* is that of one part, the others rest.                                     *)
(***************************************************************************)
EXTENDS InferenceServers, ProblemRows, ModelCall, SublemmaWaves, ProgressBars

VARIABLE part   \* the part whose behaviour this is

mainVars == <<serverVars, rowVars>>
vars == <<part, mainVars, callVars, wavesVars, barVars>>

(* A part that rests has some inputs of its own.                             *)
Some(S) == CHOOSE x \in S : TRUE

Init ==
  /\ part \in {"main", "call", "lemmas", "bars"}
  /\ ServersInit /\ RowsInit /\ CallInit /\ WavesInit /\ BarsInit
  /\ part # "main" =>
       /\ foreign = {} /\ timeout = AtLeast(6, Some(Timeouts))
       /\ reserve = AtLeast(3, Some(Reserves))
  /\ part # "call" => want = Some(Wants)

-----------------------------------------------------------------------------
(* run: the input is read, then ensure_ready starts the servers.             *)
ReadInput ==
  /\ LoadInput
  /\ IF rpc' = "raised" THEN LaunchAborted ELSE UNCHANGED serverVars

StartServers ==
  /\ rpc = "servers"
  /\ Reuse \/ Fork \/ Hold \/ AllStarted \/ SeesHealthy
  /\ UNCHANGED rowVars

ServersFail == rpc = "servers" /\ (LaunchFails \/ SeesExit \/ TooLate) /\ Interrupted

BeginRows == AllReady /\ ServersReady

WorkOnRows == run = "work" /\ RowsStep /\ UNCHANGED serverVars

(* The finally of run, and atexit.                                           *)
StopServers ==
  /\ rpc \in {"over", "raised"}
  /\ WorkEnds \/ Unwound \/ StopServer \/ AllStopped
  /\ UNCHANGED rowVars

MainStep ==
  \/ ReadInput \/ StartServers \/ ServersFail \/ BeginRows \/ WorkOnRows \/ StopServers
  \/ ServerChanges /\ UNCHANGED rowVars
  \/ Signal /\ Interrupted

Next ==
  \/ part = "main" /\ MainStep /\ UNCHANGED <<part, callVars, wavesVars, barVars>>
  \/ part = "call" /\ CallStep /\ UNCHANGED <<part, mainVars, wavesVars, barVars>>
  \/ part = "lemmas" /\ WavesStep /\ UNCHANGED <<part, mainVars, callVars, barVars>>
  \/ part = "bars" /\ BarsStep /\ UNCHANGED <<part, mainVars, callVars, wavesVars>>

Spec == Init /\ [][Next]_vars
=============================================================================
