---------------------------- MODULE MCPostBuffers ----------------------------
(* Two posting threads and one Dart port. *)
EXTENDS PostBuffers
=============================================================================
