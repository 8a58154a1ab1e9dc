----------------------------- MODULE MCChallenge -----------------------------
(* Challenge for TLC: the model values of a configuration are interchangeable,  *)
(* but for the clients that are VIPs.                                           *)
EXTENDS Challenge, TLC

Symmetry ==
    Permutations(VIPs) \union Permutations(Clients \ VIPs) \union Permutations(Challenges) \union Permutations(Requests)

==============================================================================
