# TLA+ models of aimo-proof-pilot

This directory models the concurrent and stateful parts of the repository: the
environments whose rollouts train a prover, the inference pipeline that
generates, verifies and refines proofs with the runtime around it, the launch of
a training job on several nodes, the training itself with what uploads its
checkpoints, and the operators that run commands on cluster nodes. TLC checks
the models on small instances; what matters most about the rollout groups, the pay of a
rollout, one candidate, the search over candidates, the inference runtime, the launch of a
job, the checkpoints of a training and the operators is proved by TLAPS for every size.

## 1. The system

| Component | State it keeps | Operations | What is hard | What makes it correct |
|---|---|---|---|---|
| Proof-OPD environment, `src/proof_opd_env.py` | per group one `asyncio.Condition`, gate records, chosen candidates, selector records, pool, leader; per rollout its stage, rounds and reward payload | one model call and one `_advance_after_completion` per turn; `_submit_candidate_gate_record`, `_submit_group_selector_record`; two cleanups | tasks sleep on one condition; any call may fail; a failed rollout must still release the others | nobody sleeps for ever; the best proofs pass; one live leader makes the one selector call; a later round never costs reward |
| Single rollouts: the packaged copy, the environments that score answers, `src/deepseek_math_v2_env.py` | stage, rounds, best round, payload | generate, review, judge, refine, select | turn budgets and best-round bookkeeping differ per environment | no reply is cut off; the round that is paid for is the right one |
| One candidate, `src/run.py` `run_single_attempt`, `run_verification_round` | verdicts and meta-votes of the round, the set of pending tasks, best round so far | verify, meta-verify, aggregate, refine, roll back | results arrive in any order and in batches, some never; a round may be cut short | no result is lost; a strict pass is unanimous; the best verified proof is returned with its own score |
| Search for a proof, `src/run.py` `run_streaming_candidates`, `VerificationThrottle`, `run_candidate_pipeline`, `ChatScheduler.call`, `generate_decomposed_attempt` | counters of the throttle, the filter's cache, a semaphore, finished tasks; lemmas and waves | generate (directly or by lemmas), wait for all, filter, verify, refine, collect, cancel, select | three kinds of waiting, cancellation anywhere, a time budget; plans written by a model | limits hold, nothing leaks or stalls, nothing runs on after the end, the best collected candidate is selected; lemmas follow their premises |
| Inference runtime, `src/run.py` `ServerManager`, `ProofRuntime`, `_call_sync`, `run_simple_csv`, `PipelineProgress` | server processes, rows, the output file, token budgets, lines of the screen | start and stop servers, stream, cut short and continue a call, solve rows, write the file, draw bars | signals at any step, threads that outlive cancelled tasks, exceptions in the middle of a row | no server outlives the run, no row is lost, calls keep to their limits, lines come back |
| Operator mode, `src/train_operator.py`, and its client | command file and key file in a repository; per process its key, last command hash, active runs | claim the key, retire others, poll, run, finalize, STOP, CANCEL, KILL_COMMAND, RESTART_OPERATOR | several processes and a remote file written by compare-and-swap; every upload may fail | the key moves forward, a command runs once, no run is lost, STOP is carried out, replacement never leaves a node empty |
| Training wrapper, `src/train.py` | marker files in a shared file system, git checkouts, an overlay of packages | node 0 fetches and installs, others wait for its marker; re-execution | stale markers, locks, timeouts, killed installations, relaunches | nodes agree on one run directory, followers wait for their own coordinator, what is announced as ready can be imported |
| Training engine, `src/train_engine.py` | preparation markers, products in a cache, layout and batches, Ray daemons, checkpoints, upload futures | prepare once, plan, build a Ray cluster, save, upload, convert, prune | caches and daemons outlive launches; an upload thread beside a pruning trainer; a disable file | training starts on whole products, as it was asked for; checkpoints are tried before they are removed and one always stays |
| HF checkpoint watcher, log uploader, VERL's checkpoint watcher | state files, a lock, an event | scan, inspect, wait for stability, upload | files change under them; the last scan and the last upload | what is marked is whole, nothing is forgotten, the final status stays |
| Prime-RL launcher, `src/train_engine_rl.py`, `src/prime_sft.py` | processes of a role, the normalized SFT cache | start, wait for readiness, poll, restart, stop | processes of several nodes that end in any order | everything ends, nothing of this engine's is left |
| Model code, adapters, scripts | - | - | - | not modelled |

How they interact: the operator of a node starts `train.py` or `run.py` as a
child process. `train.py` prepares repositories and packages and becomes the
engine by `exec`; the engine prepares data, lays the training out, starts
torchrun, Ray or Prime-RL, and uploads logs while they run; the checkpoint
callback and the watcher upload to the same place. In Prime-RL the environments
run the rollouts. At inference the runtime starts the servers and solves rows;
each row is a search, which starts one pipeline per candidate; a pipeline
generates through the scheduler, waits at the throttle, and verifies one
candidate. The environment does in training what the pipeline does at inference.

`PROJECT.json` lists every component with its status, and under `hazards` the
lines of code where something can go wrong that a test would hardly reach,
each with the properties that would notice.

## 2. The modules

| Module | Models | Role |
|---|---|---|
| `Barrier` | - | abstract specification of a condition-variable barrier: expected members arrive once, the last arrival opens it, nobody passes before |
| `ProofGroup` | `proof_opd_env.py`, `ProofOPDEnv` | the rollouts of a group |
| `ProofGroup_proofs` | | type correctness, turns and payloads; the inductive invariant of the barriers, which implement `Barrier` |
| `SoloRollout` | `proof_opd_env/proof_opd_env.py`, the evaluation environments of both files | a rollout without a group |
| `JudgedRollout` | `deepseek_math_v2_env.py` | a rollout scored by judges |
| `DatasetRows` | `proof_opd_env.py`, `load_environment` | the rows of a dataset, limited and mixed |
| `Environments`, `Environments_proofs` | | the four above, with a group of one, side by side |
| `ProofAttempt`, `ProofAttempt_proofs` | `run.py`, one candidate | rounds of verification, aggregation, refinement |
| `CandidateStream`, `CandidateStream_proofs`, `MCCandidateStream` | `run.py`, the search | pipelines, throttle, filter, collector, selection |
| `InferenceServers` | `run.py`, `ServerManager` | servers and signals |
| `ProblemRows` | `run.py`, `run_simple_csv`, `solve_problem` | rows, their answers and the output file |
| `ModelCall` | `run.py`, `_call_sync` | one streamed call with its budget |
| `SublemmaWaves` | `run.py`, `generate_decomposed_attempt` | plan, waves, assembly |
| `ProgressBars` | `run.py`, `PipelineProgress` | calls, their threads and their bars |
| `Inference`, `Inference_proofs`, `MCInference` | | the runtime of these five |
| `LaunchNodes` | `train.py` | what the launch modules share: nodes, clock, markers' identities |
| `RunDirectory`, `RuntimeRepos`, `RuntimeDependencies` | `train.py` (and `train_engine.py` for the directory) | markers between node 0 and its followers |
| `EnginePreparation`, `SftCache` | `train_engine.py`, `prime_sft.py` | work that one node does for all, and its products |
| `Launch` | | a job on several nodes, launched again after it ended |
| `DependencyOverlay` | `train.py`, installation | the steps of an installation and what they leave in the overlay |
| `WorkerPlan` | `train_engine.py`, topology and batches | dry launch, parent, worker |
| `RayCluster` | `train_engine.py`, GRPO and VERL | head, workers, daemons |
| `JobStart`, `Launch_proofs`, `MCLaunch` | | the four above side by side |
| `CheckpointStore` | | disk and repository |
| `CheckpointCallback` | `train_engine.py`, checkpoint callback | hooks of the trainer, upload thread, retention |
| `HfWatcher` | `hf_checkpoint_watcher.py` | scan, stability, upload |
| `VerlWatcher` | `train_engine.py`, VERL | external trainer and watcher thread |
| `PrimeRoles` | `train_engine_rl.py` | roles of Prime-RL and their processes |
| `LogUploader` | `train_logging.py`, the engine's `main` | periodic and final upload |
| `Training`, `Training_proofs`, `MCTraining` | | one training with each back-end |
| `KeyLease` | - | abstract specification of the key of a node: taken in one step, from nobody or from somebody older; who acts on it was in charge |
| `OperatorMode`, `OperatorMode_proofs` | `train_operator.py`, `operator_client.py` | the operators of a node |

Definitions named `D_Variant` are `D` with a mistake in it. No specification
uses them; substituted for `D` they make the property they belong to fail,
which shows that the property depends on the code being right there.

`Environments`, `Inference` and `JobStart` put parts side by side that share no
state in the code. A variable `part` says whose behaviour it is, the others
rest: nothing is lost, since no part can disturb another, and one run checks them
all. Where parts do share state (`Training`, `Launch`, the main thread in
`Inference`) they are composed by joint actions.

### ProofGroup

A rollout is a task with a program counter `pc` (`model` while a call is under
way, `reply` when the environment is to read its result, `gate` and `group`
while asleep, `gateWoken` and `groupWoken` after `notify_all`, the two cleanups,
`done`) and with `stage` and `work`, the parts of the rollout's state dictionary
that control reads. An action is what the code does between two awaits, which
under asyncio is atomic: everything under the condition's lock up to a
`wait()`, and after waking. A failing call (`Fail`) goes to the cleanups, in
the library's order of priorities. Scores are integers in small units, so that
products and comparisons are exact. Texts are abstract: a generation is usable
or not, with a format score.

### SoloRollout, JudgedRollout, DatasetRows

`SoloRollout` is one turn machine for three environments that differ in what
they inherit: `env` selects where the code overrides a method. `quoted` records
which round and which reviews a refinement prompt quotes, `earned` is the sum of what the
reviews of a round are worth, kept as they come. `JudgedRollout` has
the modes of `refine_reward_mode`, with or without a judge; its rewards are
integers in the unit of their product. `DatasetRows` is the loading of at most
two files: rows are kinds (what a normalisation can use) with or without an id of their own.
`TaskId` is the code's name for a row: the id it brought or its index, without the file, with the
stage if the row is a rendered one and with the number of a copy. A share is a fraction of a given
denominator (tenths in the run), Python's rounding of halves to even is `RoundedShare`, and the loop that keeps what it
can use is the enumeration of the usable rows in order (`NthOf`). The seeded shuffle is
left out; a float product is taken for the exact one. `Environments` takes the group from
`ProofGroup_proofs`, so that what is proved of it can be cited of the composition.

### ProofAttempt

`Wait` is `asyncio.wait(FIRST_COMPLETED)`: any non-empty set of pending tasks
is the next batch. `TakeReview` and `TakeVote` process one task of a batch in
any order, add meta-verification tasks, and set `early_stop`; the last one of a
batch cancels what is pending. `EndRound` aggregates, keeps the best round, and
decides on refinement; `Returned` is the dictionary that is returned, after a
rollback if there is one. Scores are exact: the constant `One` is the score 1, counted
in parts of which every mean over votes and over reviews is a whole number (`ScoresAreExact`), so
nothing rests on rounding. `votes`
counts a review's votes by kind, since aggregation does not look at their order.

### CandidateStream

A pipeline's `pc` follows `run_candidate_pipeline` and `run_single_attempt`;
each of its calls is `queued` at `request_slot`, `waiting` for the semaphore,
`running` or `returned`. `remaining`, `active` and `requests` are the throttle's
counters, `slot` and `permit` say who was counted, which the code keeps in the
local variable `acquired`. `queue` is `as_completed`'s queue of finished tasks,
to which nothing is added once the time is up; `Collect` takes its head and
`CancelAll` is `cancel_pending_tasks`: every pipeline that has not ended goes to
`unwind` (or `unmark`, if its generation has yet to be marked done) and leaves
through its `finally` clauses. The rounds of a candidate are abstracted to
calls, an ending (early only if another round may follow) and a result; the
condition `p => all /\ s = TopScore` is what `ProofAttempt` shows of a strict
pass without meta-verification.

### Inference and its parts

`InferenceServers`: the main thread steps through `start`, `wait_ready`, work and
`stop`; `Fork` and `Hold` are `Popen` and the assignment of its result, between
which a signal may come. `broken` remembers that one came there, or during a
stop. A port on which somebody else's server answers is reused and not stopped.
`ProblemRows`: the tasks of the rows under the semaphore, the order in which
`as_completed` hands them over, and the rewriting of the file, which is torn if it
is interrupted. A row's search is abstracted to what it found and how long it took;
times are in units of ten seconds, the small overrun of a cancellation is ignored.
`ModelCall`: token sequences by their lengths; a chunk counts as
`merge_streamed_token_ids` counts it, which drops a chunk that repeats everything
so far. `SublemmaWaves`: an id is a sequence of numbers, so that the renaming of
repeated ids (`L2` to `L2_3`) and its collisions are in the model; `order_sublemma_tasks`
orders the plan without changing the waves and is left out. `ProgressBars`: each
call has a task and a thread, the second of which may start after the first is over.
In `Inference` the main thread drives servers and rows together.

### Launch and its parts

All nodes run the same program over a shared file system. `launch` is what the
scheduler started, with what matters of the command line; files survive a launch,
processes do not. `now` ticks in units of 15 seconds, the slack of the run-directory
marker. `CoordinationId` is a launch's own if the cluster gives a job id. A deadline
of minutes or hours passes only when node 0 will not write the marker any more.
`RuntimeRepos` has git's index lock and clone-then-rename; `EnginePreparation` has
the products themselves beside their markers, since a marker says nothing about
what the work found in the cache. `cutShort` remembers that such work was once
killed; a conversion that was cut short leaves what looks like a dataset.

`DependencyOverlay` is what happens within `Launch`'s interval "installing": the
list `InstallSteps` is made from the options as the code's chain of conditions makes
it, and a step copies, is skipped, fails and is tried again, or is killed. `need` is
kept for all launches that share the overlay, a configured wheel is taken to fit,
and environment overrides that combine back-ends are left out. `WorkerPlan` derives
nodes, ranks, degrees and batches three times as the code does; the parents of all
nodes are one step, what fits on a GPU is a parameter (`TokensPerRank`), an activation memory budget
is taken to be below one. `RayCluster` has daemons that belong to a launch
(`raylet`) and one address behind which there may be an old head; its timeouts count
as faults, and training takes longer than the joiners' last look at the head.

### Training and its parts

`local`, `converted`, `remote` and `remoteHf` say how much of each step's folder is
there: nothing, a part, what looks complete from outside, or all. The trainer's
hooks follow OLMo-core's order (external: the trainer loads the newest whole
checkpoint, its own checkpointer saves). The upload thread takes one future at a
time. `CrashTrainer` restarts the job on the same directory; `cut` remembers that a crash
left half a folder, `behind` that a restart found no whole checkpoint as new as the last one
saved. `owed` remembers, beyond a crash, which checkpoints were saved whole without an upload
tried since, and `orphaned` those of them that a crash has left behind: the trainer's lists (`known`,
`pending`, `future`) live in memory, and a restart submits nothing again. `HfWatcher` is a
process of its own; a writer is taken to write more often than the two snapshots of
the stability check are apart. `VerlWatcher` and `PrimeRoles` replace the trainer
for their back-ends. In a scan of VERL's watcher, an upload that returns False drops one
checkpoint (`VerlFails`); an exception (`VerlStagingRaises`, `VerlRecordRaises`) breaks the scan
off, which the loop catches and makes up for, while in the final scan it ends the thread, and
`cutOff` remembers where. The wait for a server's port (`ReadyTimeout`) runs out on one that has ended,
and may on one that is slow. `LogUploader` is the engine's `main` around OLMo-core and VERL; Prime-RL's
`main` uploads no logs (`ProfilesAssumption`). A periodic upload that fails leaves its thread
running, an exception before it (the metadata) ends the thread; both give the lock back.

### OperatorMode

Operators are numbered by their launch and commands by their publication (a
command's number stands for its hash). `Claim`/`WriteClaim` are the read and
the conditional write of `claim_operator_key_github_api`, `RetireCheck` ..
`RetireKill` are `retire_stale_local_operator_processes`, `Finalize` .. `CheckKey`
the poll loop, `StartRun` .. `Stop` what a command does, `StopJoin` .. `StopDone`
the end. Every GitHub call may raise, with or without its effect; an exception
leads back to the poll loop, or ends an operator that is starting. `ResetKeyFile` by
hand (the key file emptied) is part of the environment. KILL_COMMAND's search of
the process table is abstracted to ending the processes of the named run.

## 3. What TLC checks

| Run | Module | Properties | What it shows |
|---|---|---|---|
| `opd_group` | `ProofGroup` | `WaitersHaveAReleaser`, `GateChoosesTheBest`, `LeaderCallsSelector`, `AllRolloutsFinish`, `BarriersHold` | with failures at any call: no lost wake-up, the best proofs pass the gate, the selector call is made by one live leader, every rollout ends, both barriers implement `Barrier` |
| `opd_single` | `Environments` | `TurnBudgetSuffices`, `VerifiedRoundKeepsBest`, `PaidForTheRightRound`, `MixIsBalanced` | all reward formulas and best-round bookkeeping, for every environment; size, shares and task ids of a mix of two datasets |
| `opd_doc_invalid` | `ProofGroup` | `InvalidProofEndsTrace` | expects a violation (finding 1) |
| `proof_attempt` | `ProofAttempt` | `KeepsTheBest`, `ReturnedProofWasVerified`, `StrictPassIsUnanimous`, `RoundIsComplete` | one candidate, every order and batching of verdicts and votes |
| `attempt_early_stop` | `ProofAttempt` | `EarlyStopHasCritiques` | expects a violation (finding 2) |
| `candidate_stream` | `MCCandidateStream` | `ThrottleHolds`, `FilterIsRight`, `NothingRunsAfterReturn`, `BestFinishedIsSelected`, `EveryStepLeadsOn`, `NeverStalls` | three pipelines and their collector under both wait modes, cancelled by a strict pass or by time |
| `operator_mode` | `OperatorMode` | `NoRunIsLost`, `NodeKeepsAnOperator`, `KeyIsLease` | two operators, three commands, every upload may fail; the key file implements `KeyLease` |
| `operator_stop` | `OperatorMode` | `StopReachesEveryone`, `SupersededStartsNothing` | under fairness, a STOP that stays the current command ends every operator |
| `operator_restart` | `OperatorMode` | `RestartStartsOne` | expects a violation (finding 3) |
| `launch` | `MCLaunch` | `TrainsOnWholeProducts`, `LaunchIsItsOwn`, `InstalledIsUsable`, `PlanIsKept`, `FaultlessJobFailsNobody`, `FaultlessJobTrains` | two launches over one file system with caches, markers and daemons of the first; installations that are cut; about 1400 ways to lay a training out |
| `training` | `MCTraining` | `EveryCheckpointIsTried`, `AWholeCheckpointRemains`, `MarkedIsWhole`, `EngineEndsClean`, `TrainingEnds` | trainer, upload thread, retention and watcher, a crash and a restart; VERL and Prime-RL; the last upload of the logs |
| `inference` | `MCInference` | `ServersEndWithTheRun`, `LinesComeBack`, `CallKeepsToItsBudget`, `LemmasFollowTheirPremises`, `EveryRowIsAnswered` | the runtime: signals, servers that die, rows that raise, calls cut short, circular and colliding plans, late threads |

Some properties have two halves that are stated apart and, but for liveness, proved apart:
`BarriersHold` (`GateIsBarrier`, `SelectorIsBarrier`), `NoRunIsLost` (`RunsAreAccountedFor`, `StopLeavesNothing`),
`FaultlessJobFailsNobody` (`NobodyIsTurnedAway` of the files, `RayIsUndisturbed` of the cluster),
`FaultlessJobTrains` (`FaultlessLaunchTrains`, `RayLaunchTrains`), `EngineEndsClean` (`FinalLogsStay`, `NoChildIsLeft`).
A property that holds only under a condition names it in its definition
and its comment; section 3.4 lists what happens without the condition.

### 3.1 Bounds

- `opd_group`: three rollouts, of which two pass, are the smallest group with a
  rollout that waits, one that is released without being chosen and one that fails,
  in every order; one refinement and one verifier suffice, because a
  group sees only a rollout's final rounds. A review is invalid or needs its meta-review
  (`Scores` = {1}), so that every stage occurs; the other scores are in `opd_single`.
- `opd_single`: two verifiers give majorities, ties and means; two refinements
  of a rollout without a group give a best round that is neither the first nor the
  last; judges have no refinement or two. Files of up to two rows, shares at 0, 0.2,
  0.5 and 1 of limits 1, 3, 5 give halves to be rounded both ways. A row may bring the id 1
  (`OwnIds`), which is also the index of the second row.
- `proof_attempt`: two verifiers and two meta-votes give unanimity, ties, and a
  vote that changes a majority; one refinement gives a better and a worse second
  round and the rollback.
- `candidate_stream`: three candidates at a limit of one leave two waiters behind
  each holder; one permit for requests makes both limits bite. A round has at most
  `MaxCalls` = 2 calls.
- `operator_mode`: two operators and three commands let a key pass on while a run
  is under way and a command be overtaken; at most two runs of an operator, one reset
  of the key file. `MaxOperators` = 3 in `operator_restart` is the replacement's replacement.
- `launch`: one follower beside node 0 (followers do not talk to each other), two
  launches (a leftover comes from the launch before), clock up to 2 (equal to and
  beyond the slack of 15 seconds), one fault. The overlay: two installations, two
  interruptions or failures, two attempts of each step, seven sets of options on a bare
  and on a full image. Ray: three nodes, so that one worker may belong and one not, two
  join attempts. Layouts: up to four nodes with 2 or 8 GPUs, two pipeline stages, two
  context ranks, batches that divide and that do not.
- `training`: three steps with two to keep make the pruning run twice; two faults and
  a restart put a crash at any step and another one after recovery; seven
  configurations, each a different mixture of back-end, conversion, retention and logs.
- `inference`: two servers and two signals (the second during the stop of the first),
  three rows of which two at a time, a context of 12 tokens with prompts that
  leave ample room and hardly any, plans of up to three lemmas of which two may share
  an id, three lines for three calls.

### 3.2 Deadlock

`opd_group` and `opd_doc_invalid` check for deadlock: a group that has finished
stutters by `Finished`, and anything else that stops is an error. All other systems really
stop when they are over, or when the bound on commands, launches or steps is used up, and
their runs do not check it. What matters of it there is a property of its own:
`NeverStalls`, `FaultlessJobTrains`, `TrainingEnds`, `StopReachesEveryone`.

### 3.3 Fairness

- `opd_group`: weak fairness of each rollout. An asyncio task that can run is
  run, and every model call ends, by the timeout of the client if not by itself.
- `operator_stop`: weak fairness of each operator's steps and of a signalled child's
  end (SIGTERM, then SIGKILL); strong fairness of the two steps that need GitHub to
  answer, since they are retried for ever.
- `launch`: weak fairness of each node's steps, of a follower's deadline and of the trainer. A
  process is scheduled, an installation ends, and a deadline is part of the code.
  Nothing makes a new launch come or the file system fail.
- `training`: weak fairness of the trainer, its upload thread, the watcher thread of
  VERL, the roles of Prime-RL, the engine's main thread and its log thread; none of crashes, of
  uploads succeeding, or of `HfWatcher`, which somebody starts by hand.

### 3.4 Findings and observations

Three runs expect a violation of what the repository itself says:

1. `opd_doc_invalid`: an invalid proof ends the trace with zero proof reward
   (`docs/prime_rl_opd.md:158`). After an invalid refinement the code goes on to
   the selector call if an earlier round can be ranked, and its choice replaces the
   zero reward.
2. `attempt_early_stop`: `early_stop` is not reconsidered within a batch; a later vote can
   un-validate the critique that caused it, and the round ends with fewer reviews
   and no critique to refine by.
3. `operator_restart`: a replacement has a new key and therefore no record of the
   RESTART_OPERATOR that started it, and takes the command again.

Seen while modelling, and excluded by a condition of the property or left to the
reader; "TLC" marks those that a run with the condition removed showed:

- Training. A crash leaves half a checkpoint folder, which counts as one when room is made
  (`_prune_local_checkpoints`, `train_engine.py:2255-2273`): nothing whole may remain (TLC). With
  `keep = 1` and a removal that fails, the half folder even takes the place of the checkpoint just
  saved, which is removed before its upload begins (TLC): `EveryCheckpointIsTried` excepts a
  cut save where folders are pruned. A crash forgets the uploads that were queued or under way: the
  lists live in memory (`train_engine.py:1904-1906`), `pre_train` only prunes (`2275-2278`), and a
  checkpoint that was saved whole may end up pruned without any upload (TLC):
  `EveryCheckpointIsTried` excepts the ones a crash leaves behind, until they are saved again.
  The final scan of VERL's watcher has no `try` (`1843-1861`): an exception from staging (`1663`) or from
  writing the state file (`1861`) leaves that checkpoint and all later ones untried or unrecorded (TLC), although "a
  checkpoint saved near process shutdown is not missed" (`1842`); the property speaks of those before it.
  An error in writing the metadata of a periodic log upload ends the log thread, and only
  the final upload is left. After a restart that went back, a step is saved, converted and
  uploaded once more while the watcher has it marked (TLC): `MarkedIsWhole` excepts that.
  The watcher adopts a half-uploaded remote folder as "trusted" if it has the required names and
  enough shards.
- Launch. A follower that comes up more than 15 seconds after node 0 wrote the
  run-directory marker waits in vain. Nodes that coordinate with nobody (operators, unknown
  ranks) clone into the same directory, and the clone that ends late fails, although the checkout is
  there (TLC); if they share an id with other launches, those can read "failed" of it. A preparation that was killed leaves products that a later
  launch takes for whole (TLC).
- Overlay. Prime-RL with Transformer Engine on an image without it is never ready (TLC). GRPO
  and VERL with `GRPO_RUNTIME_PIP_NO_DEPS=0` can lose Transformer Engine and NCCL without
  probing again. Packages that were cut short are not repaired without `--upgrade`, and
  Prime-RL announces them as ready.
- Layout. `min_grad_accum_steps` is not applied in a worker that the parent started. A `RANK`
  that counts processes, with more nodes than GPUs per node, gives two nodes one rank;
  "auto" on a single node whose `WORLD_SIZE` counts processes misreads it. Both wait at the
  rendezvous or are refused, and never train as something else. A dry launch that passes can
  still be refused by the worker.
- Ray. A worker that sees the head of an earlier launch joins a dead cluster, and the
  driver waits for ever (TLC); GRPO's preflight of its judge before the old head is stopped
  widens the window. One failed `ray status` ends a worker's watch; `grpo_stop_ray_on_exit=false`
  leaves heads and watches.
- Servers. A signal between a fork and the assignment of its handle, or during `stop`, leaves
  servers running (TLC); a failed `ensure_ready` relies on `atexit`.
- Calls. The repetition guard inserts the force text even if thinking was closed;
  `merge_streamed_token_ids` drops a chunk that begins with everything so far. The thread of a
  cancelled call that starts late leaves its bar on the screen (TLC).
- Lemmas. The renamed id `{id}_{idx+1}` can be that of an earlier lemma, which is then lost.
- Rows. `output.csv` is rewritten in place, and an interruption loses it (TLC). A failure to
  append to `results.jsonl` turns a proof that was found into the fallback.
- Environments. `ProofOPDVerifiableEvalEnv` is "Eval-only env that scores boxed final answers
  instead of train reward." (`proof_opd_env.py:2675`), and inherits the selector, which may pay it
  an earlier round's verifier reward (TLC). In the packaged environment an invalid refinement
  zeroes the reward of a good earlier round. A task id does not contain the file
  (`proof_opd_env.py:851`, `1089`): in a mixed dataset (`1156-1157`) rows of both files without ids are both
  called "0", "1", ... (TLC), and rows that bring ids may clash within a file. `MixIsBalanced`
  says which rows have task ids of their own.
- Operators. The default of `operator_exit_on_key_mismatch` can leave a node without an operator.
- Search. `README.md:117` describes the filter over all generations, which the defaults of
  `CFG` switch off.

## 4. What TLAPS proves

Every theorem holds for all values of the constants that satisfy the named assumptions;
the proofs are checked to the last leaf.

**Rollout groups** (`GroupAssumption`). `TypeCorrect` is type correctness. The invariant of
the barriers is `IInv == TypeOK /\ GateInv /\ SelectorInv`: what the records
say about who arrived agrees with the program counters, an open barrier has no
sleeper that was not notified, and a closed one has a member yet to arrive. `TypeOK` alone is not
inductive enough, because a wake-up is lost only if the *count* of the records and
the counters disagree; and the leader's being alive needs to know that whoever failed
before the election handed in a failed record. From it:
`NoLostWakeup` (`WaitersHaveAReleaser`) and `SelectorCalledByLeader` (`LeaderCallsSelector`);
`GateImplementsBarrier` and `SelectorImplementsBarrier` show both barriers to implement
`Barrier`, each step mapped to an arrival, a release, a passage or a stutter
(together `GroupIsTwoBarriers`).
`GateLetsTheBestThrough` (`GateChoosesTheBest`): the sort key orders the valid records totally
(`RankingIsTotal`, `RankingIsTransitive`), so the numbers of better records are the places
`0 .. n - 1`, each taken once (`PlacesAreTaken`, a bijection), and the choice fills the first
`ContinueCount` of them (`ChoiceIsFull`, `ChoiceIsTheTop`).
`EveryReplyIsRead`: each review takes at most the calls that are counted for it and each round at most
the reviews, so what a rollout has used and what it may still need fit into `MaxTurns` (`BudgetInv`);
the count of calls alone is not inductive.

**Single rollouts** (`SoloAssumption`, `JudgeAssumption`, `EnvironmentsAssumption`). `EnvInv` joins the
invariants of the group, of `SoloInv` and of `JudgeInv`, which each of their steps keeps while the other parts
rest (`RestingParts`). `SoloInv` has the same account of turns (`Used`), and says that the payload of a
rollout that goes on is what its best round is worth (`PaidIsBest`; by `LargestExists` there is a
first best one, since a shortest sequence without one cannot be). `VerdictInv`, of `JudgeInv`, says that the
index that is kept from reply to reply is that of a best round. Theorems:
`RolloutsAreNotCutOff` (`TurnBudgetSuffices`), `PaysTheRightRound` (`PaidForTheRightRound`) and
`BestRoundCounts` (`VerifiedRoundKeepsBest`).

**Datasets** (`DatasetAssumption`, the same module), for files of any length, any limit and any fraction with the given
denominator. `DatasetInv`: a loaded dataset is a block of rows of the first file and one of the second, and a
block goes round over the rows of its file, none of which comes twice (`NormalizedGivesFileRows`, by the bijection in
`NthOfIsThere`). In a block no copy of a row comes twice (`BlockIsDistinct`); from there `IdsAreShared`
concludes which rows may have a task id in common, by the mode and by whether they bring ids. The rows come evenly
(`BlockIsEven`: what is not in the first turn comes after a copy of any other row, an injection between the sets that are
counted). `ShareIsRounded` is the arithmetic of the share. Theorem: `MixesAreBalanced` (`MixIsBalanced`).

**One candidate** (`AttemptAssumption`, `ScoresAreExact`). Beside types, the invariant `IInv` has three parts.
`RoundInv`: a review is taken once, and none is lost unless the round ends early. `VoteInv`: the votes
on a review that are counted and those that are out make up the number asked for. `AttemptInv`: the best
round is one of those that are over, no other scored more, and the proof at hand is the one
verified last. None of the properties is inductive without them: a round only sees its own
counters when it ends, and what is returned was decided rounds ago. They give `StrictIsUnanimous`
(`StrictPassIsUnanimous`), `RoundTakesEverything` (`RoundIsComplete`), `ReturnsAVerifiedProof`
(`ReturnedProofWasVerified`) and `RefinementNeverCosts` (`KeepsTheBest`).

**Search over candidates** (`StreamAssumption`). `StreamInv` relates the counters of the throttle
to the sets they count (`CountersCount`), says that who verifies while others generate was
counted when it began (`WhoBeganWasCounted`: a limit asked for only while candidates are generated
holds because nobody starts to generate again), that cancelled pipelines only unwind
(`PhaseInv`), that the filter decided when no generation could change it (`FilterInv`), and that
the queue holds every pipeline at most once, with its final outcome (`QueueInv`, `CollectInv`).
Theorems: `ThrottleIsRight`, `FilterDecidesOnce`, `SearchLeavesNobodyBehind`, `BestIsSelected`.
`SearchNeverStalls` (`NeverStalls`) needs two more parts: a pipeline has the calls its place asks for and no others
(`CallsInv`), and a collector that still collects has not had all pipelines, while those that ended in time are in its
queue (`AwaitsInv`). The argument goes through the three waits in turn: if nobody can go on no call is running, so the
semaphore is free, so no call waits for it and nobody generates; then the throttle is open and the filter may be
asked, and whoever is not over is none of those that wait (`SomebodyCanGoOn`). `NeverStalls` speaks of the guards of the actions,
each a definition of its own that the action uses, for what the provers know of `ENABLED` would not suffice; on the
run's instance TLC found the guards and `ENABLED` to agree. `SearchLeadsOn` (`EveryStepLeadsOn`) is the other half of why a
search ends: in the order of rounds, places, calls and what is collected no step goes back and each goes on,
within bounds; it rests on `CallsInv` too, for a refinement is asked for only while rounds are left.

**Operators** (`OperatorAssumption`). `OperatorInv`: who is about to write the key file has read a record
older than its own, unless the file changed since (`KeyInv`, which makes the conditional write
pass the key forward only), the time an operator takes when it comes up is the number of those that came
before (`ClockInv`), a command in hand is in the file and newer than all that ran (`CommandInv`, `RunsInv`), and an
operator that can still fail ends nobody (`SomeoneSettled`). Theorems: `KeyGoesToTheYounger` (`KeyPassesToNewer`, a part of `KeyIsLease` stated by itself),
`NoRunIsForgotten` and `StopIsClean` (together `EveryRunIsSeenToItsEnd`), `OperatorsLeaveOne` (under `~ExitOnMismatch`, the switch of the
command line the property itself names), and `SupersededIsIdle`, whose invariant `Overtaken` starts
to hold at the moment an operator is superseded. `KeyFileIsALease` (`KeyIsLease`) maps each step to a step of
`KeyLease` or to none: a conditional write that succeeds is the taking of the lease, also when its answer
is lost (then nobody relies on it yet), one that conflicts is nothing, and the checks before a run and before the others
are ended (`HolderRelies`) are where an operator begins to rely on the lease.

**Launch of a job** (`NodesAssumption`, `NoneAssumption`, `ProfilesAssumption`, `BoundsAssumption`,
`SlackAssumption`, `GapAssumption`), for any number of nodes, launches, faults and ways to launch.
`LaunchInvHolds` is the inductive invariant, in five parts: `LaunchTypes`; `DirInv`: the one
run-directory marker is of this launch or too old for all nodes that are up, and who knows its rank has
this launch's name or none; `OwnInv`: the state files of an id that no other launch shares say "ready" only after its
own coordinator was, and followers went on after that; `PlaceInv`: a node that trains has passed every preparation;
`ProductInv`: unless work was cut short, what a marker stands for is whole, and the cache
holds nothing half made but what node 0 is writing. The names of the markers need not be unique for that: what is whole is
never made again. Theorems: `NothingMisleadsALaunch` (`LaunchIsItsOwn`), for which a scheduler has to take longer than the
slack of the marker to launch a job again (`GapAssumption`; the marker's age is the only thing that tells
launches apart), and `StartsOnWholeProducts` (`TrainsOnWholeProducts`).

`FaultlessLaunchFailsNobody` (`NobodyIsTurnedAway`) is the safety half of `FaultlessLaunchTrains`: each of the
guards by which a node gives up is refuted, for launches whose nodes know their ranks and wait for
node 0 (`WellNamed`). Its invariant `TurnInv` adds to the above: `RestInv`, nodes are done with training all at once,
so that a deadline that waits for the end of node 0 cannot pass while somebody waits; `RefusalInv`,
no file says "failed" without a failure, where the id is not that of launches that coordinate with nobody;
`FetchInv`, only node 0 fetches, and what it need not fetch any more is there; `NamedInv`, node 0
is past the place where it names the directory only with a name, which is in the marker. What is left is the marker
that is too old for a node (`StartedTooLate`), and that lasts (`LateStays`).

**The Ray cluster** (`RayAssumption`, the same module), for any number of nodes, launches and join attempts.
`RayClusterIsUndisturbed` (`RayIsUndisturbed`) rests on `RayInv`: `HeadInv` says which cluster the head's daemon
serves at each place of node 0, `WorkerInv` ties each place of a worker to the places of node 0 that are possible
meanwhile. A worker that is told of the old head and finds it gone has used one attempt, and finds the new head with the
next: two attempts are needed (`JoinAttempts > 1`; with one the property excludes the case). With
`FaultlessLaunchFailsNobody` it is `NobodyFailsByItself` (`FaultlessJobFailsNobody`).

**The overlay** (`NeedsAssumption`, the same module), for every set of options (of which the run has
seven), every image, any number of launches, failures, refused removals and kills. `Required` are the steps a back-end relies
on, `Works` what each establishes, and `Closes` the steps that would disturb it. `OverlayInv`: what is relied upon
is still to come, or it works and nothing that would disturb it is to come. It starts to hold because
of the list (`InstallPart`: in whatever way the options put the parts together, no step disturbs an earlier one;
`RequiredIsInstalled`: all that is relied upon is in it), and goes on because a step touches its own packages only, or those
its resolution of dependencies removes (`KeepsWorking`, `MovesKeep`). Theorem: `ReadyMeansUsable`
(`InstalledIsUsable`). The attempt to prove it is what showed that the last look at automodel
(`Conclude`) was missing in an earlier form of the model.

**The layout of a training** (`PlansAssumption`, the same module), for any numbers of nodes and GPUs, any degrees, lengths,
batches and intervals. `PlanInv` says no more than what each phase has concluded from cluster and options, and why a launch
was refused; the work is in what those conclusions are worth. `DivMod` and its companions turn
quotients and remainders into numbers. `ClearlyRead`: variables that cannot be misread are read as they
are meant. `MetAsMeant`: those that can be misread bring nodes together only if their ranks come out as
`0 .. n - 1` for the number of nodes each was told, which no misreading does. `BatchAddsUp`: the smallest
accumulation that fits exists and the microbatches of all ranks make the global batch. `DryLooks`: what passes a dry
launch divides evenly, so that only too few microbatches for the pipeline are left. Theorem: `TrainsAsPlanned`
(`PlanIsKept`).

**A training** (`StoreAssumption`, `ProfilesAssumption`), for any back-end, steps, failures,
crashes and configurations. `PlaceInv` says where the trainer is: what it will save is newer than
all it saved. `FolderInv`: without a cut save, all folders are whole but the one being
saved, and pruning to a positive number never removes the newest (by `OldestIsNotNewest`, about
cardinalities); this gives `AlwaysSomethingToResume` (`AWholeCheckpointRemains`). `SubmitInv`: every checkpoint is
pending, queued, running or over, and its folder stays until then; with `LastScanInv` and
`EngineInv` (the engine goes on from a back-end that is over only) it gives
`NoCheckpointIsForgotten` (`EveryCheckpointIsTried`). What links the processes of a training is
`OwedInv` (`OwedIsKnown`): a checkpoint still owed is one that the running process knows, its upload not yet
tried, or one that a crash left behind. `LastScanInv` accounts for every completed checkpoint of VERL as uploaded,
failed, still to do, or at or behind the one at which the final scan broke off (`cutOff`). `MarkInv`: until a step is converted there is
nothing of it in the repository, and nobody writes a folder while the watcher uploads it;
it gives `MarkedStaysWhole` (`MarkedIsWhole`). The attempt to prove the last two for all
configurations is what brought their exceptions to light (section 3.4).
`LogInv` ties the lock to who holds it and says that the thread, once joined, begins no other upload: it gives
`FinalLogsAreLast` (`FinalLogsStay`; `LockAssumption`: nobody is not somebody). `RolesInv` says what the head may have started at each
of its places, and that the engine goes on behind an ended head only: `EngineLeavesNoChild` (`NoChildIsLeft`).
Both are `EngineIsGone` (`EngineEndsClean`).

**Inference runtime.** `NoServerIsLeft` (`ServersEndWithTheRun`, `ServerAssumption`): by
`ServersInv`, only the newest server may be without a handle (`OnlyTheNewestIsUnheld`) and
a stop that was not disturbed has reached all it passed (`StopIsThorough`).
`NoRowIsLost` (`EveryRowIsAnswered`, `RowsAssumption`): by `RowsInv`, a task ends once, the file is
whole unless it was torn, and a row's answer agrees with what its search found; the lemma
`SelectionHasTime` is the arithmetic of timeout and reserve. `CallStaysWithinLimits`
(`CallKeepsToItsBudget`, `CallAssumption`): by `CallInv`, what a segment has used and what it
may still ask for add up to the limit. `RuntimeDrivesServers`, `RuntimeSolvesRows` and
`RuntimeMakesCalls` show that each part of the composed `Inference` keeps its own specification.
`BarsGiveTheirLinesBack` (`LinesComeBack`, `BarsAssumption`): by `BarsInv` every line that was ever
used is free or has one bar, and a bar that is left after the problem belongs to a thread that
started late. `LemmasAreProvedInOrder` (`LemmasFollowTheirPremises`): by `WavesInv` what a tried lemma may use
is not to come any more; the only interesting step is a wave in which nothing is ready, and
there all that is left waits on a circle (`NoneReady`). How the ids of a plan came about (a recursive
function) does not matter to it. With all of these
`RuntimeKeepsItsPromises` follows for the composition that the run checks.

Every inductive invariant was checked by TLC on the instance of its run (that of a training on
eleven configurations, and with quantifiers over all numbers bounded) before it was proved.

**Only model-checked.** Liveness (`AllRolloutsFinish`, `StopReachesEveryone`,
`FaultlessJobTrains`, `TrainingEnds`) is out of the prover's reach. All invariants and
action properties that the runs check are theorems.

## 5. Not modelled

- Pure text: prompts, parsing of grades and plans (its results are inputs of the models),
  token counting, gold evaluation, the reports. Floating-point error.
- Git transport of operators (`train_operator.py:331-870`), which fails as a whole
  or succeeds as a whole in the model, and most of `operator_client.py`, a command line.
- `run_sweep` (`train_engine.py:5652-5852`) and the argument lists of GRPO, VERL and
  Prime-RL (long, without state); the functions that patch foreign sources.
- The OLMo3Sink model, its kernels, the memory recorder: numerical code without control state.
- VERL and RLCSD adapters, which run inside foreign trainers; the remote shell; shell scripts,
  data analysis, container files.
- Code that nothing calls: `run_async`, `process_problem`, `load_input_records` and the
  `resolve_*` helpers of `run.py`.
- Within modelled parts: `--force` and `--dry-run` of the watcher; a strict pass of
  `CandidateStream` is bounded by what `ProofAttempt` shows of it with `meta_n = 0`.

External, and modelled from their use: asyncio's condition, semaphore and `wait`; the framework
that runs the rollouts; OLMo-core's trainer and checkpointer; `ThreadPoolExecutor`; the Hugging
Face and GitHub interfaces; git; Ray; vLLM's server process.

## 6. What is left

Models of `run_sweep` and of the operators' git transport.

## 7. How to run

    tlc -config OpdGroup.cfg ProofGroup.tla     # and so on, by the table of section 3
    tlapm ProofGroup_proofs.tla                 # and the other *_proofs modules
