------------------------------ MODULE MCBridge ------------------------------
(* Bridge for TLC: two clients, interchangeable, as are the addresses. *)
EXTENDS Bridge, TLC

Sym == Permutations(Clients) \cup Permutations(Handles)
=============================================================================
