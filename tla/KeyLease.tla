------------------------------- MODULE KeyLease -------------------------------
(***************************************************************************)
(* What the key file of a node promises, without versions, uploads or      *)
(* retries: the key is taken in one step, from nobody or from somebody     *)
(* older, and whoever acts on it has found itself in charge.  OperatorMode *)
(* implements it by a file that is read, and written back on condition.    *)
(***************************************************************************)
EXTENDS Naturals

CONSTANTS Member, Nobody

VARIABLES
  holder,   \* who is in charge
  born,     \* when each member came up, 0 before
  relying   \* the members that are about to do what only the holder may do

vars == <<holder, born, relying>>

Init ==
  /\ holder = Nobody
  /\ born = [m \in Member |-> 0]
  /\ relying = {}

(* A member comes up after all that are up.                                *)
Appear(m) ==
  /\ born[m] = 0 /\ holder # m
  /\ \A n \in Member : born[n] < born'[m]
  /\ born' = [born EXCEPT ![m] = born'[m]]
  /\ UNCHANGED <<holder, relying>>

(* It takes the key, and may act on that at once.                          *)
Take(m) ==
  /\ holder # m /\ born[m] > 0
  /\ holder \in Member => born[holder] < born[m]
  /\ holder' = m
  /\ relying' \in {relying, relying \union {m}}
  /\ UNCHANGED born

(* The holder relies on being in charge; others have done what they were   *)
(* about to do, or are ended.                                              *)
Settle ==
  /\ relying' \subseteq relying \union ({holder} \intersect Member)
  /\ UNCHANGED <<holder, born>>

(* The people around the node empty the file.                              *)
Empty ==
  /\ holder' = Nobody
  /\ UNCHANGED <<born, relying>>

Next ==
  \/ \E m \in Member : Appear(m) \/ Take(m)
  \/ Settle \/ Empty

Spec == Init /\ [][Next]_vars
=============================================================================
