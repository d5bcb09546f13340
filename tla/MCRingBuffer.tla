---------------------------- MODULE MCRingBuffer ----------------------------
(* RingBuffer with four slots: the indices wrap and the ring fills up. *)
EXTENDS RingBuffer

MCN == 4
MCMaxPushes == 6
=============================================================================
