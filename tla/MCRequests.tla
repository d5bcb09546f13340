----------------------------- MODULE MCRequests -----------------------------
(* Two callers and one method, four values of an id. *)
EXTENDS Requests

\* The first caller sends twice, so that one of its messages may pass the other.
FirstTwice == [c \in Clients |-> IF c = 1 THEN 2 ELSE 1]

Once == [c \in Clients |-> 1]
=============================================================================
