------------------------------- MODULE Barrier -------------------------------
(***************************************************************************)
(* What the condition-variable barriers of a rollout group promise,        *)
(* without records, scores or stages: every expected member arrives at     *)
(* most once, the barrier opens in the very step in which the last         *)
(* expected member arrives, it never closes again, and nobody goes through *)
(* before it is open.  ProofGroup implements it twice, once for the        *)
(* candidate gate and once for the group selector.                         *)
(***************************************************************************)
EXTENDS FiniteSets

CONSTANT Member

VARIABLES
  expected,  \* the members the barrier waits for, {} until it is armed
  armed,     \* has the set of expected members been fixed?
  arrived,   \* the members that arrived, in person or by their cleanup handler
  open,
  through    \* the members that went on to what the barrier guards

vars == <<expected, armed, arrived, open, through>>

Init ==
  /\ arrived = {}
  /\ ~open
  /\ through = {}
  /\ \/ armed /\ expected = Member
     \/ ~armed /\ expected = {}

Arm(S) ==
  /\ ~armed
  /\ armed' = TRUE
  /\ expected' = S
  /\ UNCHANGED <<arrived, open, through>>

(* Member m arrives.  The last one to arrive opens the barrier and may go  *)
(* through in the same critical section.                                   *)
Arrive(m) ==
  /\ armed
  /\ m \in expected \ arrived
  /\ arrived' = arrived \union {m}
  /\ open' = (expected \subseteq arrived')
  /\ through' \in {through} \union (IF open' THEN {through \union {m}} ELSE {})
  /\ UNCHANGED <<expected, armed>>

Pass(m) ==
  /\ open
  /\ m \in arrived \ through
  /\ through' = through \union {m}
  /\ UNCHANGED <<expected, armed, arrived, open>>

Next ==
  \/ \E S \in SUBSET Member : Arm(S)
  \/ \E m \in Member : Arrive(m) \/ Pass(m)

Spec == Init /\ [][Next]_vars
=============================================================================
