------------------------------- MODULE MCLimits -------------------------------
(* Limits for TLC: a burst of 4 that refills by 2, halved under attack. *)
EXTENDS Limits, TLC

RequestSymmetry == Permutations(Requests)

Untightened == [burst |-> 4, refill |-> 2, fill |-> 2]
UnderAttack == [burst |-> 2, refill |-> 1, fill |-> 2]
ModesInForce == {Untightened, UnderAttack}

===============================================================================
