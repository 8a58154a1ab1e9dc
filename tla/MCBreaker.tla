------------------------------ MODULE MCBreaker ------------------------------
(* Breaker for TLC, and the settings that processes start with.  No symmetry:  *)
(* the run checks liveness.                                                    *)
EXTENDS Breaker, Configuration

\* Default numbers, numbers out of order, and numbers at and beyond their bounds.
SomeGateNumbers ==
    LET default == Defaults(GateNumbers)
    IN  {default,
         [default EXCEPT !.max_ban_seconds = 29],
         [default EXCEPT !.challenge_difficulty_bits = 28, !.challenge_difficulty_bump = 8],
         [default EXCEPT !.challenge_difficulty_bits = 29],
         [default EXCEPT !.challenge_pass_ttl_seconds = 0]}

SomeKmsNumbers ==
    LET default == Defaults(KmsNumbers)
    IN  {default, [default EXCEPT !.port = 65535], [default EXCEPT !.port = 65536]}

Gates == {s \in GateSettings(SomeGateNumbers) :
              s.log_format # "console" /\ s.admin_token \in {"unset", "placeholder"}}

ASSUME ConfigurationCheck ==
    LET gate0 == CHOOSE s \in Gates : TRUE
        kms0 == CHOOSE s \in KmsSettings(SomeKmsNumbers) : TRUE
    IN  /\ \A gate \in Gates :
              /\ BareStart(gate, kms0) /\ SafeStart(gate, kms0)
              /\ LoadedStands(gate, kms0) /\ ModelsJustified(gate, kms0, 2, 10)
        /\ \A kms \in KmsSettings(SomeKmsNumbers) :
              /\ BareStart(gate0, kms) /\ SafeStart(gate0, kms)
              /\ LoadedStands(gate0, kms) /\ ModelsJustified(gate0, kms, 2, 10)

=============================================================================
