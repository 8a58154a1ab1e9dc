----------------------------- MODULE MCKeyStore -----------------------------
(* KeyStore for TLC: the model values of a configuration are interchangeable. *)
EXTENDS KeyStore, TLC

Symmetry == Permutations(Pairs) \union Permutations(Reqs) \union Permutations(Names)

=============================================================================
