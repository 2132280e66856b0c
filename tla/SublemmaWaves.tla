--------------------------- MODULE SublemmaWaves ---------------------------
(***************************************************************************)
(* A candidate that is generated lemma by lemma (generate_decomposed_attempt *)
(* of src/src/run.py): an architect plans lemmas, they are proved in waves   *)
(* along their dependencies, and a last call assembles the proof.            *)
(* An id is a sequence of numbers: <<2>> stands for "L2", <<2, 3>> for       *)
(* "L2_3", which is also what the third lemma is called when it is a second  *)
(* "L2".                                                                     *)
(***************************************************************************)
EXTENDS Naturals, Sequences, FiniteSets

CONSTANTS
  PlanIds,      \* ids an architect gives
  MaxPlan,      \* bound: lemmas of a plan
  MaxSublemmas, \* decomposition_max_sublemmas, at least 1
  Fallbacks     \* values of decomposition_fallback_to_direct

ASSUME WavesAssumption ==
  /\ PlanIds \subseteq Seq(Nat) /\ MaxPlan \in Nat /\ MaxSublemmas \in Nat \ {0}
  /\ Fallbacks \subseteq BOOLEAN

VARIABLES
  dpc,      \* "plan", "repair", "waves", "wave", "assemble", "ok", "direct", "fails"
  lemmas,   \* lemmas[id]: the lemmas it may use, by id
  left,     \* remaining of sublemma_task_waves: not yet in a wave
  wave,     \* proofs of the wave under way
  results,  \* lemma_results: the statuses of the waves before
  tried,    \* tried[id]: calls made for it
  shown     \* shown[id]: the premises its prompt quotes

wavesVars == <<dpc, lemmas, left, wave, results, tried, shown>>

NoId == <<>>
(* parse_sublemma_status: PROVED and NEEDS_WEAKER_STATEMENT are used for the *)
(* assembly, DISPROVED and UNKNOWN are not.                                  *)
Statuses == {"used", "unused"}
Nothing == [id \in {} |-> {}]

(* A lemma of the plan: one that is not an object or has no statement is     *)
(* skipped; the id may be missing.                                           *)
Unusable == [usable |-> FALSE, id |-> NoId, uses |-> {}]
Planned == [usable: {TRUE}, id: PlanIds \cup {NoId}, uses: SUBSET PlanIds] \cup {Unusable}
Plans == UNION {[1 .. n -> Planned] : n \in 0 .. MaxPlan}

WavesInit ==
  /\ dpc = "plan" /\ lemmas = Nothing /\ left = {} /\ wave = {}
  /\ results = Nothing /\ tried = Nothing /\ shown = Nothing

(* normalize_lemma_id: a missing id is that of the place.                    *)
Named(plan, k) == IF plan[k].id = NoId THEN <<k>> ELSE plan[k].id
Usable(plan) == {k \in DOMAIN plan : k <= MaxSublemmas /\ plan[k].usable}

(* analyst_sublemma_tasks: an id that was seen before gets its place as a    *)
(* suffix.                                                                   *)
TaskIds(plan) ==
  LET ids[k \in 0 .. Len(plan)] ==
        IF k = 0 THEN <<>>
        ELSE IF k \notin Usable(plan) THEN Append(ids[k - 1], NoId)
        ELSE LET id == Named(plan, k)
                 seen == {ids[k - 1][j] : j \in 1 .. k - 1}
             IN Append(ids[k - 1], IF id \in seen THEN Append(id, k) ELSE id)
  IN ids[Len(plan)]

(* The tasks by id: of two with the same id the later one.                   *)
Tasks(plan) ==
  LET ids == TaskIds(plan)
      At(id) == {k \in Usable(plan) : ids[k] = id}
      Last(id) == CHOOSE k \in At(id) : \A j \in At(id) : j <= k
  IN [id \in {ids[k] : k \in Usable(plan)} |-> plan[Last(id)].uses]

Leaves == dpc' \in {IF f THEN "direct" ELSE "fails" : f \in Fallbacks}
GivesUp == Leaves /\ UNCHANGED <<lemmas, left, wave, results, tried, shown>>

(* A plan that cannot be parsed is asked for once more; one without a usable *)
(* lemma is not.                                                             *)
Unparsed ==
  /\ dpc \in {"plan", "repair"}
  /\ IF dpc = "plan"
     THEN dpc' = "repair" /\ UNCHANGED <<lemmas, left, wave, results, tried, shown>>
     ELSE GivesUp

Parsed ==
  /\ dpc \in {"plan", "repair"}
  /\ \E plan \in Plans :
       IF Usable(plan) = {} THEN GivesUp
       ELSE LET tasks == Tasks(plan)
            IN /\ dpc' = "waves"
               /\ lemmas' = tasks /\ left' = DOMAIN tasks
               /\ tried' = [id \in DOMAIN tasks |-> 0]
               /\ shown' = [id \in DOMAIN tasks |-> {}]
               /\ UNCHANGED <<wave, results>>

(* Mutant: one premise is enough.                                            *)
Ready_Any(id) == lemmas[id] = {} \/ lemmas[id] \ left # {}
(* A lemma is ready when none of those it may use is still to come.          *)
Ready(id) == lemmas[id] \cap left = {}

(* format_allowed_previous_lemmas: what the waves before have found.         *)
Quoted(id) == lemmas[id] \cap DOMAIN results

StartWave ==
  /\ dpc = "waves" /\ left # {}
  /\ LET ready == {id \in left : Ready(id)}
         chosen == IF ready = {} THEN left ELSE ready
     IN /\ wave' = chosen /\ left' = left \ chosen
        /\ tried' = [id \in DOMAIN lemmas |-> tried[id] + (IF id \in chosen THEN 1 ELSE 0)]
        /\ shown' = [id \in DOMAIN lemmas |->
                       IF id \in chosen THEN Quoted(id) ELSE shown[id]]
  /\ dpc' = "wave"
  /\ UNCHANGED <<lemmas, results>>

(* The calls of the wave have returned or raised; gather keeps the           *)
(* exceptions.                                                               *)
EndWave ==
  /\ dpc = "wave"
  /\ \E answers \in [wave -> Statuses \cup {"raised"}] :
       LET new == {id \in wave : answers[id] # "raised"}
       IN results' = [id \in DOMAIN results \cup new |->
                        IF id \in new THEN answers[id] ELSE results[id]]
  /\ dpc' = "waves" /\ wave' = {}
  /\ UNCHANGED <<lemmas, left, tried, shown>>

(* format_proved_sublemmas                                                   *)
Proved == {id \in DOMAIN results : results[id] = "used"}
WavesEnd ==
  /\ dpc = "waves" /\ left = {}
  /\ IF Proved = {} THEN GivesUp
     ELSE dpc' = "assemble" /\ UNCHANGED <<lemmas, left, wave, results, tried, shown>>

Assembled ==
  /\ dpc = "assemble"
  /\ Leaves \/ dpc' = "ok"
  /\ UNCHANGED <<lemmas, left, wave, results, tried, shown>>

WavesStep ==
  Unparsed \/ Parsed \/ StartWave \/ EndWave \/ WavesEnd \/ Assembled

-----------------------------------------------------------------------------
(* In a circle: among these lemmas each may use another one of them.         *)
Circular(ids) == ids # {} /\ \A id \in ids : lemmas[id] \cap ids # {}
Waits(id) == \E ids \in SUBSET DOMAIN lemmas : id \in ids /\ Circular(ids)

(* The prompt of a lemma quotes every lemma of the plan that it may use and  *)
(* whose proof did not raise: those are proved in earlier waves, however the *)
(* architect ordered, repeated or misspelt them.  Only lemmas that wait on a *)
(* circle are proved without.  Before the proof is assembled every lemma has *)
(* been tried, once, and something was proved.                               *)
LemmasFollowTheirPremises ==
  /\ \A id \in DOMAIN lemmas :
       tried[id] = 1 /\ ~Waits(id) =>
         /\ lemmas[id] \cap DOMAIN lemmas \subseteq DOMAIN lemmas \ (left \cup wave)
         /\ shown[id] = lemmas[id] \cap DOMAIN results
  /\ dpc \in {"assemble", "ok"} =>
       Proved # {} /\ \A id \in DOMAIN lemmas : tried[id] = 1
=============================================================================
