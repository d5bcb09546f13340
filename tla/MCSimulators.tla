---------------------------- MODULE MCSimulators ----------------------------
(* Simulators for TLC. *)
EXTENDS Simulators
=============================================================================
