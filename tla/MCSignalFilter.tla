--------------------------- MODULE MCSignalFilter ---------------------------
(* Two dispatching threads, one event, two signals in its payload. *)
EXTENDS SignalFilter

\* UpperMedian is what sorting and indexing give, repeated samples included.
ASSUME UpperMedianOfSorted ==
    \A n \in 1..5 : \A s \in [1..n -> 1..3] : UpperMedian(s) = SortSeq(s, <)[n \div 2 + 1]

Symm == Permutations(Threads)
=============================================================================
