----------------------------- MODULE KeyCatalog -----------------------------
(***************************************************************************)
(* What the key table promises, without threads, locks or transactions: a  *)
(* name has a list of key pairs, its versions 1, 2, ...; a new version is  *)
(* appended in one step, with a pair that was never used before; a name is *)
(* deleted with all its versions in one step; and nothing else changes.    *)
(***************************************************************************)
EXTENDS Naturals, Sequences

CONSTANTS Names, Pairs

VARIABLES
    versions,  \* the pairs of each name, oldest first
    issued     \* the pairs that were ever in the catalog

catalogVars == <<versions, issued>>

CatalogInit ==
    /\ versions = [n \in Names |-> << >>]
    /\ issued = {}

NewVersion(n, p) ==
    /\ p \notin issued
    /\ versions' = [versions EXCEPT ![n] = Append(@, p)]
    /\ issued' = issued \union {p}

DropName(n) ==
    /\ versions' = [versions EXCEPT ![n] = << >>]
    /\ UNCHANGED issued

CatalogNext ==
    \E n \in Names :
        \/ \E p \in Pairs : NewVersion(n, p)
        \/ DropName(n)

CatalogSpec == CatalogInit /\ [][CatalogNext]_catalogVars

=============================================================================
