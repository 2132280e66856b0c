------------------------------ MODULE MCLaunch ------------------------------
(* JobStart with a few of the ways a job is launched.                        *)
EXTENDS JobStart

How(d, naming, ranked, shared, backend) ==
  [data |-> d, naming |-> naming, ranked |-> ranked, shared |-> shared, backend |-> backend]

MCProfiles ==
  {How("d1", "engine", TRUE, FALSE, "sft"),
   How("d2", "wrapper", TRUE, TRUE, "prime_rl"),
   How("d1", "wrapper", FALSE, FALSE, "operator")}

-----------------------------------------------------------------------------
Ask(backend, extra) ==
  [backend |-> backend, te |-> "te" \in extra, resolve |-> "resolve" \in extra,
   override |-> "override" \in extra, bindings |-> "bindings" \in extra,
   wheel |-> "wheel" \in extra, teacher |-> "teacher" \in extra]

MCNeeds ==
  {Ask("sft", {"te", "wheel"}), Ask("grpo", {"override"}),
   Ask("grpo", {"te", "resolve", "override", "bindings"}), Ask("verl", {"te", "bindings"}),
   Ask("verl", {"resolve", "bindings"}),
   Ask("prime", {"te", "override", "bindings"}), Ask("prime", {"override", "teacher"})}

MCImages == {{"vllm"}, {"apex", "te", "megatron", "liger", "vllm"}}

-----------------------------------------------------------------------------
(* Lengths and batches are in units of 8192 tokens.                         *)
Misreadable ==
  [nodes : {1, 2, 3}, gpus : {2}, told : {"nodes", "processes"}, mode : {"nodes", "processes", "auto"}]
  \cup [nodes : {4}, gpus : {2}, told : {"nodes"}, mode : {"auto"}]
Plainly == [nodes : {2}, gpus : {2, 8}, told : {"options"}, mode : {"auto"}]
           \cup [nodes : {1}, gpus : {8}, told : {"none"}, mode : {"nodes"}]

PlainOptions ==
  [arch |-> "7b", tp |-> 0, cp |-> 1, pp |-> 1, length |-> 1, perDevice |-> 1, accum |-> 1,
   micro |-> 0, tokens |-> 0, seqs |-> 0, compile |-> TRUE, force |-> FALSE, float8 |-> FALSE,
   async |-> FALSE, ac |-> "auto", extra |-> "none", save |-> 3, ephemeral |-> 0]

MCBatches ==
  {[PlainOptions EXCEPT !.arch = a, !.cp = cp, !.pp = pp, !.length = l, !.accum = g,
                        !.perDevice = g, !.micro = m, !.tokens = t[1], !.seqs = t[2]] :
     a \in {"7b", "32b"}, cp \in {1, 2}, pp \in {1, 2}, l \in {1, 4}, g \in {1, 3},
     m \in {0, 2}, t \in {<<0, 0>>, <<24, 0>>, <<0, 12>>}}

MCFeatures ==
  {[PlainOptions EXCEPT !.tp = tp, !.pp = pp, !.compile = c, !.force = f, !.float8 = e,
                        !.async = s, !.ac = ac, !.extra = x, !.ephemeral = h, !.accum = 2] :
     tp \in {1, 2}, pp \in {1, 2}, c \in BOOLEAN, f \in BOOLEAN, e \in BOOLEAN, s \in BOOLEAN,
     ac \in {"none", "budget"}, x \in {"none", "te_feedforward"}, h \in {3}}

NoSequences == [PlainOptions EXCEPT !.perDevice = 0, !.tokens = 24]

MCPlans ==
  [host : Plainly, opts : MCBatches \cup MCFeatures \cup {NoSequences}]
  \cup [host : Misreadable, opts : {PlainOptions, [PlainOptions EXCEPT !.seqs = 12, !.micro = 2, !.pp = 2]}]
=============================================================================
