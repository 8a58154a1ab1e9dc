------------------------------ MODULE MCClient ------------------------------
(* Client for TLC, and the envelopes whose keys it asks for. *)
EXTENDS Client, Envelopes

\* Short enough to try all pairs, and with the lengths among the bytes.
ShortTexts == UNION {[1 .. n -> Bytes] : n \in 0 .. 1}

ASSUME EnvelopesCheck ==
    /\ EnvelopeBound
    /\ DataKeyBound
    /\ SecretsSealed
    /\ \A name1, name2, digits1, digits2, algorithm1, algorithm2, key1, key2 \in ShortTexts :
          SignatureBound(name1, name2, digits1, digits2, algorithm1, algorithm2, key1, key2)

=============================================================================
