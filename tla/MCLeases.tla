------------------------------ MODULE MCLeases ------------------------------
(* Leases for TLC: the model values of a configuration are interchangeable. *)
EXTENDS Leases, TLC

Symmetry == Permutations(LeaseId) \union Permutations(Reqs)
                \union Permutations(Users \ Admins)

=============================================================================
