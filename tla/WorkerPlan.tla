----------------------------- MODULE WorkerPlan -----------------------------
(***************************************************************************)
(* How one SFT launch is laid out on the cluster, and in which portions it  *)
(* trains.  The engine runs three times per node: perhaps as a dry launch,  *)
(* as the parent that makes sense of options and scheduler variables, and,  *)
(* under torchrun and with the parent's conclusions as its options, as the  *)
(* worker, which works everything out again.                                *)
(* The parents of all nodes are one step: they share nothing before torchrun*)
(***************************************************************************)
EXTENDS Integers, FiniteSets, FiniteSetsExt

CONSTANTS
  Plans,         \* the clusters and how they are described, the options of a launch
  TokensPerRank  \* max_tokens_per_rank: what fits on one GPU of the cluster's type

(* A number that is not given, or that is negative, is zero; cp and pp are  *)
(* what max(1, ...) makes of the options.                                   *)
Described == [nodes : Nat \ {0}, gpus : Nat \ {0}, told : {"options", "none", "nodes", "processes"},
              mode : {"auto", "nodes", "processes"}]
Options == [arch : {"7b", "32b"}, tp : Nat, cp : Nat \ {0}, pp : Nat \ {0}, length : Nat \ {0},
            perDevice : Nat, accum : Nat, micro : Nat, tokens : Nat, seqs : Nat,
            compile : BOOLEAN, force : BOOLEAN, float8 : BOOLEAN, async : BOOLEAN,
            ac : {"auto", "none", "budget", "full", "selected_blocks", "selected_modules", "selected_ops"},
            extra : {"none", "sink", "te_feedforward", "chunks"}, save : Nat, ephemeral : Nat]
ASSUME PlansAssumption ==
  Plans \subseteq [host : Described, opts : Options] /\ TokensPerRank \in Nat \ {0}

VARIABLES
  host,     \* [nodes, gpus, told, mode]: the cluster, what the scheduler tells, --world_size_mode
  opts,     \* the options of the launch
  dry,      \* what a dry launch on node 0 said: "none", "passed", "refused"
  planAt,   \* "start", "launched", "workers", "training", "refused"
  layout,   \* layout[n]: [nodes, rank] as the parent of node n sees them
  batch     \* batch[n]: [seqs, micro, accum, compile, ac, save, ephemeral] of its workers

planVars == <<host, opts, dry, planAt, layout, batch>>

Ranks == 0..(host.nodes - 1)
Larger(a, b) == IF a > b THEN a ELSE b
NoRank == -1

-----------------------------------------------------------------------------
(* WORLD_SIZE and RANK mean nodes or processes, depending on the scheduler. *)
WorldSize == CASE host.told = "nodes" -> host.nodes
               [] host.told = "processes" -> host.nodes * host.gpus
               [] OTHER -> 0
RankVariable(n) == CASE host.told = "nodes" -> n
                     [] host.told = "processes" -> n * host.gpus
                     [] OTHER -> NoRank

WorldSizeRefused ==
  host.told = "processes" /\ host.mode = "processes" /\ WorldSize % host.gpus # 0

NumNodes ==
  IF host.told = "options" THEN host.nodes
  ELSE IF WorldSize = 0 THEN 1
  ELSE IF host.mode = "nodes" THEN WorldSize
  ELSE IF host.mode = "processes" THEN Larger(1, WorldSize \div host.gpus)
  ELSE IF WorldSize > host.gpus /\ WorldSize % host.gpus = 0 THEN WorldSize \div host.gpus
  ELSE WorldSize

NodeRank(n) ==
  LET raw == RankVariable(n) IN
  IF host.told = "options" THEN n
  ELSE IF host.mode # "nodes" /\ raw >= NumNodes /\ raw % host.gpus = 0 THEN raw \div host.gpus
  ELSE raw

(* Every operator below is the parent's and the worker's: the worker gets   *)
(* nodes, rank and the degrees the parent found as explicit options.        *)
TP == IF opts.tp > 0 THEN opts.tp ELSE IF opts.arch = "32b" /\ host.gpus >= 8 THEN 8 ELSE 1
ModelParallel == TP * opts.cp * opts.pp
TopologyRefused(nodes) == (nodes * host.gpus) % ModelParallel # 0
DP(nodes) == (nodes * host.gpus) \div ModelParallel

FeaturesRefused ==
  \/ opts.tokens > 0 /\ opts.seqs > 0
  \/ opts.async /\ (TP <= 1 \/ ~opts.compile)
  \/ opts.extra = "sink" /\ opts.cp > 1
  \/ opts.extra = "te_feedforward" /\ (opts.float8 \/ TP > 1)
  \/ opts.extra = "chunks" /\ TP > 1

AskedMicro == IF opts.micro > 0 THEN opts.micro ELSE opts.perDevice

(* The tokens of one optimizer step.                                        *)
GlobalBatch(nodes) ==
  IF opts.tokens > 0 THEN opts.tokens
  ELSE IF opts.seqs > 0 THEN opts.seqs * opts.length
  ELSE DP(nodes) * AskedMicro * Larger(opts.accum, opts.pp) * opts.length

LaunchRefused(n, nodes, rank) == nodes > 1 /\ (rank = NoRank \/ rank < 0 \/ rank >= nodes)

(* Checkpoints to keep are further apart than the ephemeral ones.           *)
Intervals(save, ephemeral) ==
  IF ephemeral <= 0 THEN [save |-> save, ephemeral |-> 0]
  ELSE IF ephemeral < save THEN [save |-> save, ephemeral |-> ephemeral]
  ELSE [save |-> Larger(ephemeral + 1, 2), ephemeral |-> ephemeral]

-----------------------------------------------------------------------------
(* LocalBatchSizeConfig.  The workers are always given the global batch in  *)
(* tokens, so that --gradient_accumulation_steps plays no part here.        *)
MinAccum == Larger(1, opts.pp)
MicroLimit == Larger(1, Larger(TokensPerRank * opts.cp, opts.length) \div opts.length)

RankSeqs(global, nodes) == (global \div DP(nodes)) \div opts.length

BatchRefused(global, nodes) ==
  \/ global % DP(nodes) # 0
  \/ (global \div DP(nodes)) % opts.length # 0
  \/ RankSeqs(global, nodes) < MinAccum
  \/ opts.micro > 0 /\ \/ RankSeqs(global, nodes) % opts.micro # 0
                       \/ RankSeqs(global, nodes) \div opts.micro < MinAccum

(* As few microbatches as fit: each of at most MicroLimit sequences.        *)
Accum(global, nodes) ==
  LET seqs == RankSeqs(global, nodes) IN
  IF opts.micro > 0 THEN seqs \div opts.micro
  ELSE Min({a \in MinAccum..seqs : seqs % a = 0 /\ seqs \div a <= MicroLimit})

(* An explicit microbatch is set once more over what the planner chose.     *)
Micro(global, nodes) ==
  IF opts.micro > 0 THEN opts.micro ELSE RankSeqs(global, nodes) \div Accum(global, nodes)

(* configure_olmo_sft_config takes torch.compile back where it fails.       *)
Compiles ==
  /\ opts.compile
  /\ opts.force \/ ~(opts.float8 /\ TP > 1)
  /\ opts.force \/ ~(TP > 1 /\ opts.pp > 1)

ConfigRefused == ~Compiles /\ (opts.async \/ opts.ac = "budget")

Checkpointing ==
  IF opts.ac # "auto" THEN opts.ac ELSE IF Compiles THEN "budget" ELSE "selected_modules"

-----------------------------------------------------------------------------
PlanInit ==
  /\ \E p \in Plans : host = p.host /\ opts = p.opts
  /\ dry = "none" /\ planAt = "start"
  /\ layout = [n \in Ranks |-> [nodes |-> 0, rank |-> NoRank]]
  /\ batch = <<>>

(* --dry_run_launch: everything that can be said without data and model.    *)
DryRefuses ==
  \/ WorldSizeRefused \/ TopologyRefused(NumNodes) \/ FeaturesRefused
  \/ GlobalBatch(NumNodes) % opts.length # 0
  \/ AskedMicro = 0
  \/ (GlobalBatch(NumNodes) \div opts.length) % (AskedMicro * DP(NumNodes)) # 0
  \/ LaunchRefused(0, NumNodes, NodeRank(0))

DryLaunch ==
  /\ planAt = "start" /\ dry = "none"
  /\ dry' = IF DryRefuses THEN "refused" ELSE "passed"
  /\ UNCHANGED <<host, opts, planAt, layout, batch>>

ParentRefuses(n) ==
  \/ WorldSizeRefused \/ TopologyRefused(NumNodes) \/ FeaturesRefused
  \/ LaunchRefused(n, NumNodes, NodeRank(n))

Parents ==
  /\ planAt = "start"
  /\ IF \E n \in Ranks : ParentRefuses(n)
     THEN planAt' = "refused" /\ UNCHANGED layout
     ELSE /\ planAt' = "launched"
          /\ layout' = [n \in Ranks |-> [nodes |-> NumNodes, rank |-> NodeRank(n)]]
  /\ UNCHANGED <<host, opts, dry, batch>>

(* torchrun starts the workers of a node by itself if there is one node, and*)
(* otherwise when as many nodes as it was told of have met, one per rank.   *)
Meets ==
  \A n \in Ranks :
    layout[n].nodes = 1 \/ {layout[m].rank : m \in Ranks} = 0..(layout[n].nodes - 1)

Rendezvous ==
  /\ planAt = "launched" /\ Meets
  /\ planAt' = "workers"
  /\ UNCHANGED <<host, opts, dry, layout, batch>>

(* Mutant: the worker reads WORLD_SIZE, which torchrun has set.             *)
WorkerNodes_FromEnvironment(n) == layout[n].nodes * host.gpus

(* The number of nodes on the worker's command line.                        *)
WorkerNodes(n) == layout[n].nodes

(* SFTConfig.build and configure_olmo_sft_config in the workers.            *)
Workers ==
  /\ planAt = "workers"
  /\ IF \E n \in Ranks : \/ TopologyRefused(WorkerNodes(n)) \/ FeaturesRefused \/ ConfigRefused
                         \/ BatchRefused(GlobalBatch(layout[n].nodes), WorkerNodes(n))
     THEN planAt' = "refused" /\ UNCHANGED batch
     ELSE /\ planAt' = "training"
          /\ batch' = [n \in Ranks |->
               LET global == GlobalBatch(layout[n].nodes)
                   first == Intervals(opts.save, opts.ephemeral)
               IN [global |-> global, accum |-> Accum(global, WorkerNodes(n)),
                   micro |-> Micro(global, WorkerNodes(n)),
                   compile |-> Compiles, ac |-> Checkpointing,
                   every |-> Intervals(first.save, first.ephemeral)]]
  /\ UNCHANGED <<host, opts, dry, layout>>

PlanStep == DryLaunch \/ Parents \/ Rendezvous \/ Workers

-----------------------------------------------------------------------------
(* The options do not contradict what the scheduler's variables mean.       *)
Meant ==
  \/ host.told = "options"
  \/ host.told = "none" /\ host.nodes = 1
  \/ host.told = host.mode
  \/ host.told \in {"nodes", "processes"} /\ host.mode = "auto"

(* ... and cannot be misread: variables that count processes come from no   *)
(* more nodes than a node has GPUs, or a rank below the number of nodes is  *)
(* taken for a node's; under "auto" a single node does not count processes, *)
(* nor is the number of nodes a multiple of the GPUs of one.                *)
Clear ==
  /\ Meant
  /\ host.told = "processes" => host.nodes <= host.gpus /\ (host.mode = "auto" => host.nodes > 1)
  /\ host.told = "nodes" /\ host.mode = "auto" => host.nodes <= host.gpus

(* What is trained is what was asked for.  Each node takes its own place in *)
(* the whole cluster, the portions of all ranks add up to the global batch, *)
(* which the nodes agree on, every pipeline stage has something to do, and  *)
(* nothing that needs torch.compile runs without it.  The nodes find each   *)
(* other if the scheduler's variables cannot be misread; misread, they wait *)
(* or are refused, and never train as something else.  A dry launch that    *)
(* passes is refused later only for what it does not look at: a pipeline    *)
(* with fewer microbatches than stages, and torch.compile being taken back. *)
PlanIsKept ==
  /\ planAt = "training" =>
       \A n \in Ranks :
         LET b == batch[n]
             dp == (host.nodes * host.gpus) \div ModelParallel
         IN /\ Meant =>
                 /\ layout[n].nodes = host.nodes
                 /\ host.told # "none" => layout[n].rank = n
                 /\ opts.length * b.micro * b.accum * dp = b.global
                 /\ opts.seqs > 0 => b.global = opts.seqs * opts.length
            /\ opts.micro > 0 => b.micro = opts.micro
            /\ b.accum >= opts.pp
            /\ b.micro * opts.length <= Larger(TokensPerRank * opts.cp, opts.length) \/ opts.micro > 0
            /\ b.global = batch[0].global
            /\ (opts.async \/ b.ac = "budget") => b.compile
            /\ b.every.ephemeral = 0 \/ b.every.ephemeral < b.every.save
  /\ (Clear /\ planAt = "launched") => Meets
  /\ (Clear /\ dry = "passed" /\ planAt = "refused") =>
       \/ RankSeqs(GlobalBatch(host.nodes), host.nodes) < opts.pp * Larger(1, opts.micro)
       \/ opts.compile # Compiles
       \/ ~opts.compile /\ opts.ac = "budget"
=============================================================================
