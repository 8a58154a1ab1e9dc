----------------------------- MODULE MCTelemetry -----------------------------
(* Telemetry for TLC.  No symmetry: events are numbers. *)
EXTENDS Telemetry

==============================================================================
