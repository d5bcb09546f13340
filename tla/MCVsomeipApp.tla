---------------------------- MODULE MCVsomeipApp ----------------------------
(* VsomeipApp for TLC: apps under construction together, or threads that     *)
(* start one app.                                                            *)
EXTENDS VsomeipApp
=============================================================================
