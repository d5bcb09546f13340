---------------------------- MODULE BoundedFifo ----------------------------
(***************************************************************************)
(* What spsc_ring_buffer promises its two threads: a first-in first-out    *)
(* queue that holds at most Capacity entries.  A refused push or an empty  *)
(* pop is a stuttering step.                                               *)
(***************************************************************************)
EXTENDS Naturals, Sequences

CONSTANTS Entries, Capacity

VARIABLES
    queue,   \* the entries accepted and not yet taken, oldest first
    taken    \* every entry taken so far, in order

fvars == <<queue, taken>>

FInit == queue = <<>> /\ taken = <<>>

Put(e) ==
    /\ Len(queue) < Capacity
    /\ queue' = Append(queue, e)
    /\ UNCHANGED taken

Get ==
    /\ queue # <<>>
    /\ taken' = Append(taken, Head(queue))
    /\ queue' = Tail(queue)

FNext == Get \/ \E e \in Entries : Put(e)

FSpec == FInit /\ [][FNext]_fvars
=============================================================================
