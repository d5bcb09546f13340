-------------------------- MODULE PostBuffersProofs --------------------------
(***************************************************************************)
(* Proofs about PostBuffers for any number of threads and of buffers: a    *)
(* buffer has one owner at a time, so it is deleted at most once and never *)
(* while Dart can reach it.  That every buffer is deleted in the end is    *)
(* liveness and stays with TLC.                                            *)
(***************************************************************************)
EXTENDS PostBuffers, TLAPS

\* The thread will delete its buffer itself, or has yet to offer it to the port.
Undecided(t) == pc[t] \in {"filled", "refused", "called"}

InDart == (ToSet(port) \ {None}) \cup reachable \cup garbage

\* The buffers queued in a port are different ones.
Distinct(s) == \A i, j \in 1..Len(s) : s[i] = s[j] /\ s[i] # None => i = j

\* An idle thread holds nothing, a thread in the callback something, and no two
\* threads the same buffer.
ThreadsInv ==
    /\ \A t \in Threads : pc[t] = "idle" => owned[t] = None
    /\ \A t \in Threads : pc[t] = "called" => owned[t] # None
    /\ \A t, u \in Threads : owned[t] = owned[u] /\ owned[t] # None => t = u

\* Dart does not know a buffer before its post has been accepted.
HandOverInv ==
    \A t \in Threads : Undecided(t) /\ owned[t] # None =>
        /\ frees[owned[t]] = 0
        /\ owned[t] \notin InDart

\* What Dart holds is in one of its places, and not freed.
DartInv ==
    /\ Distinct(port)
    /\ reachable \cap garbage = {}
    /\ (ToSet(port) \ {None}) \cap (reachable \cup garbage) = {}
    /\ \A b \in InDart : frees[b] = 0

FreesInv ==
    /\ frees \in [Buffers -> {0, 1}]
    /\ \A b \in Buffers \ allocated : frees[b] = 0

IInv == TypeOK /\ ThreadsInv /\ HandOverInv /\ DartInv /\ FreesInv

USE NoneAssumption

-----------------------------------------------------------------------------
(* Queues. *)

LEMMA ToSetLemma ==
    ASSUME NEW S, NEW s \in Seq(S) PROVE ToSet(s) = {s[i] : i \in 1..Len(s)}
  BY DEF ToSet

LEMMA AppendLemma ==
    ASSUME NEW S, NEW s \in Seq(S), NEW e \in S
    PROVE  /\ Append(s, e) \in Seq(S)
           /\ ToSet(Append(s, e)) = ToSet(s) \cup {e}
           /\ Distinct(s) /\ (e \notin ToSet(s) \/ e = None) => Distinct(Append(s, e))
  <1>1. /\ Len(Append(s, e)) = Len(s) + 1 /\ Len(s) \in Nat
        /\ Append(s, e)[Len(s) + 1] = e
        /\ \A i \in 1..Len(s) : Append(s, e)[i] = s[i]
    OBVIOUS
  <1>2. Append(s, e) \in Seq(S)
    OBVIOUS
  <1>3. ToSet(s) = {s[i] : i \in 1..Len(s)}
    BY ToSetLemma
  <1>4. ToSet(Append(s, e)) = {Append(s, e)[i] : i \in 1..(Len(s) + 1)}
    BY <1>1, <1>2, ToSetLemma
  <1>5. ToSet(Append(s, e)) = ToSet(s) \cup {e}
    BY <1>1, <1>3, <1>4
  <1>6. ASSUME Distinct(s), e \notin ToSet(s) \/ e = None PROVE Distinct(Append(s, e))
    BY <1>1, <1>3, <1>6 DEF Distinct
  <1> QED BY <1>2, <1>5, <1>6

LEMMA TailLemma ==
    ASSUME NEW S, NEW s \in Seq(S), s # <<>>
    PROVE  /\ Tail(s) \in Seq(S) /\ Head(s) \in S
           /\ ToSet(s) = ToSet(Tail(s)) \cup {Head(s)}
           /\ Distinct(s) => Distinct(Tail(s))
           /\ Distinct(s) /\ Head(s) # None => Head(s) \notin ToSet(Tail(s))
  <1>1. /\ Tail(s) \in Seq(S) /\ Head(s) \in S /\ Head(s) = s[1]
        /\ Len(s) \in Nat \ {0} /\ Len(Tail(s)) = Len(s) - 1
        /\ \A i \in 1..Len(Tail(s)) : Tail(s)[i] = s[i + 1]
    OBVIOUS
  <1>2. ToSet(s) = {s[i] : i \in 1..Len(s)}
    BY ToSetLemma
  <1>3. ToSet(Tail(s)) = {Tail(s)[i] : i \in 1..Len(Tail(s))}
    BY <1>1, ToSetLemma
  <1>4. ToSet(s) = ToSet(Tail(s)) \cup {Head(s)}
    <2>1. ASSUME NEW x \in ToSet(s) PROVE x \in ToSet(Tail(s)) \cup {Head(s)}
      <3>1. PICK i \in 1..Len(s) : x = s[i]
        BY <1>2, <2>1
      <3>2. CASE i = 1
        BY <1>1, <3>1, <3>2
      <3>3. CASE i # 1
        <4>1. i - 1 \in 1..Len(Tail(s)) /\ Tail(s)[i - 1] = x
          BY <1>1, <3>1, <3>3
        <4> QED BY <1>3, <4>1
      <3> QED BY <3>2, <3>3
    <2>2. ASSUME NEW x \in ToSet(Tail(s)) PROVE x \in ToSet(s)
      BY <1>1, <1>2, <1>3
    <2>3. Head(s) \in ToSet(s)
      BY <1>1, <1>2
    <2> QED BY <2>1, <2>2, <2>3
  <1>5. Distinct(s) => Distinct(Tail(s))
    BY <1>1 DEF Distinct
  <1>6. Distinct(s) /\ Head(s) # None => Head(s) \notin ToSet(Tail(s))
    BY <1>1, <1>3 DEF Distinct
  <1> QED BY <1>1, <1>4, <1>5, <1>6

LEMMA EmptyLemma == ToSet(<<>>) = {} /\ Distinct(<<>>)
  BY DEF ToSet, Distinct

LEMMA SeqGrows ==
    ASSUME NEW S, NEW T, S \subseteq T, NEW s \in Seq(S) PROVE s \in Seq(T)
  OBVIOUS

-----------------------------------------------------------------------------
(* Every step keeps the invariant. *)

LEMMA InitIInv == Init => IInv
  <1> SUFFICES ASSUME Init PROVE IInv
    OBVIOUS
  <1>0. port \in Seq(allocated \cup {None}) /\ listener \in Seq(allocated)
    BY DEF Init
  <1>1. TypeOK /\ ThreadsInv /\ FreesInv
    BY <1>0 DEF Init, TypeOK, ThreadsInv, FreesInv
  <1>2. HandOverInv /\ DartInv
    BY EmptyLemma DEF Init, HandOverInv, DartInv, Undecided, InDart
  <1> QED BY <1>1, <1>2 DEF IInv

LEMMA BridgeInitIInv == ASSUME IInv, BridgeInit PROVE IInv'
  BY DEF BridgeInit, dart, IInv, TypeOK, ThreadsInv, HandOverInv, DartInv, FreesInv,
         Undecided, InDart, Distinct

\* A new buffer is nobody's.
LEMMA FillIInv ==
    ASSUME IInv, NEW t \in Threads, NEW b \in Buffers, Fill(t, b) \/ CallListener(t, b)
    PROVE  IInv'
  <1> DEFINE p == pc'[t]
  <1>1. /\ b \notin allocated /\ allocated' = allocated \cup {b}
        /\ owned' = [owned EXCEPT ![t] = b]
        /\ pc[t] = "idle" /\ p \in {"filled", "called"} /\ pc' = [pc EXCEPT ![t] = p]
        /\ UNCHANGED <<ready, frees, portOpen, port, reachable, garbage, dangling>>
    BY DEF Fill, CallListener, New, dart, IInv, TypeOK
  <1>2. listener' \in Seq(allocated')
    <2>1. CASE listener' = listener
      BY <1>1, <2>1, SeqGrows DEF IInv, TypeOK
    <2>2. CASE listener' = Append(listener, b)
      <3>1. listener \in Seq(allocated')
        BY <1>1, SeqGrows DEF IInv, TypeOK
      <3> QED BY <1>1, <2>2, <3>1
    <2> QED BY <2>1, <2>2 DEF Fill, CallListener
  <1>3. port' \in Seq(allocated' \cup {None})
    BY <1>1, SeqGrows DEF IInv, TypeOK
  <1>4. TypeOK'
    BY <1>1, <1>2, <1>3 DEF IInv, TypeOK
  <1>5. InDart' = InDart /\ b \notin InDart
    <2>1. ToSet(port) \subseteq allocated \cup {None}
      BY DEF ToSet, IInv, TypeOK
    <2> QED BY <1>1, <2>1 DEF InDart, IInv, TypeOK
  <1>6. ThreadsInv'
    BY <1>1 DEF IInv, TypeOK, ThreadsInv
  <1>7. HandOverInv'
    BY <1>1, <1>5 DEF IInv, TypeOK, ThreadsInv, HandOverInv, FreesInv, Undecided
  <1>8. DartInv' /\ FreesInv'
    BY <1>1, <1>5 DEF IInv, DartInv, FreesInv, Distinct
  <1> QED BY <1>4, <1>6, <1>7, <1>8 DEF IInv

LEMMA FillEmptyIInv ==
    ASSUME IInv, NEW t \in Threads, FillEmpty(t) \/ PostRefused(t)
    PROVE  IInv'
  <1>1. /\ pc[t] \in {"idle", "filled"}
        /\ pc'[t] \in {"filled", "refused"} /\ pc' = [pc EXCEPT ![t] = pc'[t]]
        /\ pc[t] = "idle" => owned[t] = None
        /\ UNCHANGED <<ready, owned, allocated, frees, portOpen, port, reachable, garbage,
                       listener, dangling>>
    BY DEF FillEmpty, PostRefused, dart, IInv, TypeOK, ThreadsInv
  <1>2. TypeOK' /\ ThreadsInv'
    BY <1>1 DEF IInv, TypeOK, ThreadsInv
  <1>3. InDart' = InDart
    BY <1>1 DEF InDart
  <1>4. HandOverInv'
    BY <1>1, <1>3 DEF IInv, TypeOK, HandOverInv, Undecided
  <1>5. DartInv' /\ FreesInv'
    BY <1>1, <1>3 DEF IInv, DartInv, FreesInv, Distinct
  <1> QED BY <1>2, <1>4, <1>5 DEF IInv

\* The port takes the buffer: from here on the thread does not delete it.
LEMMA PostAcceptedIInv == ASSUME IInv, NEW t \in Threads, PostAccepted(t) PROVE IInv'
  <1>1. /\ pc[t] = "filled" /\ port' = Append(port, owned[t])
        /\ pc' = [pc EXCEPT ![t] = "posted"]
        /\ UNCHANGED <<ready, owned, allocated, frees, portOpen, reachable, garbage,
                       listener, dangling>>
    BY DEF PostAccepted
  <1>2. port \in Seq(allocated \cup {None}) /\ owned[t] \in allocated \cup {None}
    BY DEF IInv, TypeOK
  <1>3. owned[t] = None \/ owned[t] \notin InDart
    BY <1>1 DEF IInv, HandOverInv, Undecided
  <1>4. /\ port' \in Seq(allocated \cup {None})
        /\ ToSet(port') = ToSet(port) \cup {owned[t]}
        /\ Distinct(port')
    BY <1>1, <1>2, <1>3, AppendLemma DEF InDart, IInv, DartInv
  <1>5. TypeOK' /\ ThreadsInv' /\ FreesInv'
    BY <1>1, <1>4 DEF IInv, TypeOK, ThreadsInv, FreesInv
  <1>6. InDart' = InDart \cup ({owned[t]} \ {None})
    BY <1>1, <1>4 DEF InDart
  <1>7. HandOverInv'
    BY <1>1, <1>6 DEF IInv, TypeOK, ThreadsInv, HandOverInv, Undecided
  <1>8. DartInv'
    <2>1. \A b \in InDart' : frees'[b] = 0
      BY <1>1, <1>6 DEF IInv, DartInv, HandOverInv, Undecided
    <2>2. (Distinct(port))'
      BY <1>4 DEF Distinct
    <2> QED BY <1>1, <1>3, <1>4, <2>1, <2>2 DEF IInv, DartInv, InDart
  <1> QED BY <1>5, <1>7, <1>8 DEF IInv

LEMMA ReleaseIInv == ASSUME IInv, NEW t \in Threads, Release(t) PROVE IInv'
  <1>1. /\ pc[t] = "posted"
        /\ pc' = [pc EXCEPT ![t] = "idle"] /\ owned' = [owned EXCEPT ![t] = None]
        /\ UNCHANGED <<ready, allocated, frees, portOpen, port, reachable, garbage,
                       listener, dangling>>
    BY DEF Release, dart
  <1>2. TypeOK' /\ ThreadsInv'
    BY <1>1 DEF IInv, TypeOK, ThreadsInv
  <1>3. InDart' = InDart
    BY <1>1 DEF InDart
  <1>4. HandOverInv'
    BY <1>1, <1>3 DEF IInv, TypeOK, HandOverInv, Undecided
  <1>5. DartInv' /\ FreesInv'
    BY <1>1, <1>3 DEF IInv, DartInv, FreesInv, Distinct
  <1> QED BY <1>2, <1>4, <1>5 DEF IInv

\* The thread deletes its own buffer: nobody else has it.
LEMMA ThreadDeletesIInv ==
    ASSUME IInv, NEW t \in Threads, ScopeExit(t) \/ CallbackReturns(t)
    PROVE  IInv'
  <1>1. /\ pc[t] \in {"refused", "called"}
        /\ pc' = [pc EXCEPT ![t] = "idle"] /\ owned' = [owned EXCEPT ![t] = None]
        /\ IF owned[t] = None THEN UNCHANGED frees
           ELSE frees' = [frees EXCEPT ![owned[t]] = @ + 1]
        /\ UNCHANGED <<ready, allocated, portOpen, port, reachable, garbage, listener,
                       dangling>>
    BY DEF ScopeExit, CallbackReturns, Delete, dart, IInv, ThreadsInv
  <1>2. TypeOK' /\ ThreadsInv'
    BY <1>1 DEF IInv, TypeOK, ThreadsInv
  <1>3. InDart' = InDart
    BY <1>1 DEF InDart
  <1>4. owned[t] # None => owned[t] \in allocated /\ frees[owned[t]] = 0 /\ owned[t] \notin InDart
    BY <1>1 DEF IInv, TypeOK, HandOverInv, Undecided
  <1>5. FreesInv'
    BY SMTT(60), <1>1, <1>4 DEF IInv, TypeOK, FreesInv
  <1>6. \A b \in Buffers : b # owned[t] => frees'[b] = frees[b]
    BY <1>1 DEF IInv, FreesInv
  <1>7. HandOverInv'
    BY <1>1, <1>3, <1>6 DEF IInv, TypeOK, ThreadsInv, HandOverInv, Undecided
  <1>8. \A b \in InDart' : frees'[b] = 0
    <2>1. InDart \subseteq Buffers
      BY DEF InDart, IInv, TypeOK, ToSet
    <2> QED BY <1>1, <1>3, <1>4, <1>6, <2>1 DEF IInv, DartInv
  <1>9. DartInv'
    BY <1>1, <1>8 DEF IInv, DartInv, Distinct
  <1> QED BY <1>2, <1>5, <1>7, <1>9 DEF IInv

\* Dart moves a message from its port to its heap, or drops it.
LEMMA DartMovesIInv ==
    ASSUME IInv, Receive \/ (\E b \in Buffers : Forget(b)) \/ PortCloses
    PROVE  IInv'
  <1>0. port \in Seq(allocated \cup {None})
    BY DEF IInv, TypeOK
  <1>1. /\ UNCHANGED <<ready, pc, owned, allocated, frees, listener, dangling>>
        /\ portOpen' \in BOOLEAN
    BY DEF Receive, Forget, PortCloses, IInv, TypeOK
  <1>2. /\ port' \in Seq(allocated \cup {None})
        /\ reachable' \cup garbage' \subseteq allocated
        /\ InDart' = InDart
        /\ Distinct(port')
        /\ reachable' \cap garbage' = {}
        /\ (ToSet(port') \ {None}) \cap (reachable' \cup garbage') = {}
    <2>1. CASE Receive
      BY <1>0, <2>1, TailLemma DEF Receive, IInv, TypeOK, DartInv, InDart
    <2>2. CASE \E b \in Buffers : Forget(b)
      BY <1>0, <2>2 DEF Forget, IInv, TypeOK, DartInv, InDart
    <2>3. CASE PortCloses
      <3>1. ToSet(port) \subseteq allocated \cup {None}
        BY <1>0 DEF ToSet
      <3> QED BY <1>0, <2>3, <3>1, EmptyLemma DEF PortCloses, IInv, TypeOK, DartInv, InDart
    <2> QED BY <2>1, <2>2, <2>3
  <1>3. TypeOK' /\ ThreadsInv' /\ HandOverInv' /\ FreesInv'
    BY <1>1, <1>2 DEF IInv, TypeOK, ThreadsInv, HandOverInv, FreesInv, Undecided
  <1>4. (Distinct(port))'
    BY <1>2 DEF Distinct
  <1>5. DartInv'
    BY <1>1, <1>2, <1>4 DEF IInv, DartInv
  <1> QED BY <1>3, <1>5 DEF IInv

\* The finalizer deletes a buffer that is in the garbage and nowhere else.
LEMMA FinalizeIInv == ASSUME IInv, NEW b \in Buffers, Finalize(b) PROVE IInv'
  <1>1. /\ b \in garbage /\ garbage' = garbage \ {b}
        /\ frees' = [frees EXCEPT ![b] = @ + 1]
        /\ UNCHANGED <<ready, pc, owned, allocated, portOpen, port, reachable, listener,
                       dangling>>
    BY DEF Finalize, Delete
  <1>2. TypeOK' /\ ThreadsInv'
    BY <1>1 DEF IInv, TypeOK, ThreadsInv
  <1>3. InDart' = InDart \ {b}
    BY <1>1 DEF InDart, IInv, DartInv
  <1>4. frees[b] = 0 /\ b \in allocated
    BY <1>1 DEF IInv, TypeOK, DartInv, InDart
  <1>5. FreesInv'
    BY <1>1, <1>4 DEF IInv, FreesInv
  <1>6. \A c \in Buffers : c # b => frees'[c] = frees[c]
    BY <1>1 DEF IInv, FreesInv
  <1>7. HandOverInv'
    <2>1. b \in InDart
      BY <1>1 DEF InDart
    <2> QED BY <1>1, <1>3, <1>6, <2>1 DEF IInv, TypeOK, HandOverInv, Undecided
  <1>8. \A c \in InDart' : frees'[c] = 0
    <2>1. InDart \subseteq Buffers
      BY DEF InDart, IInv, TypeOK, ToSet
    <2> QED BY <1>3, <1>6, <2>1 DEF IInv, DartInv
  <1>9. DartInv'
    BY <1>1, <1>8 DEF IInv, DartInv, Distinct
  <1> QED BY <1>2, <1>5, <1>7, <1>9 DEF IInv

LEMMA ListenerReadsIInv == ASSUME IInv, ListenerReads PROVE IInv'
  <1>1. /\ listener' \in Seq(allocated) /\ dangling' \in BOOLEAN
        /\ UNCHANGED <<ready, pc, owned, allocated, frees, portOpen, port, reachable, garbage>>
    BY DEF ListenerReads, dart, IInv, TypeOK
  <1>2. TypeOK'
    BY <1>1 DEF IInv, TypeOK
  <1> QED
    BY <1>1, <1>2 DEF IInv, ThreadsInv, HandOverInv, DartInv, FreesInv, Undecided, InDart,
                      Distinct

LEMMA StutterIInv == ASSUME IInv, UNCHANGED vars PROVE IInv'
  BY DEF vars, dart, IInv, TypeOK, ThreadsInv, HandOverInv, DartInv, FreesInv, Undecided,
         InDart, Distinct

LEMMA NextIInv == IInv /\ [Next]_vars => IInv'
  <1> SUFFICES ASSUME IInv, [Next]_vars PROVE IInv'
    OBVIOUS
  <1>1. CASE BridgeInit
    BY <1>1, BridgeInitIInv
  <1>2. CASE \E t \in Threads : PostStep(t) \/ FillEmpty(t)
    BY <1>2, FillEmptyIInv, PostAcceptedIInv, ReleaseIInv, ThreadDeletesIInv DEF PostStep
  <1>3. CASE \E t \in Threads, b \in Buffers : Fill(t, b) \/ CallListener(t, b)
    BY <1>3, FillIInv
  <1>4. CASE Receive \/ (\E b \in Buffers : Forget(b)) \/ PortCloses
    BY <1>4, DartMovesIInv
  <1>5. CASE Collect
    BY <1>5, FinalizeIInv DEF Collect
  <1>6. CASE ListenerReads
    BY <1>6, ListenerReadsIInv
  <1>7. CASE UNCHANGED vars
    BY <1>7, StutterIInv
  <1> QED BY <1>1, <1>2, <1>3, <1>4, <1>5, <1>6, <1>7 DEF Next

LEMMA IInvAlways == Spec => []IInv
  BY InitIInv, NextIInv, PTL DEF Spec

-----------------------------------------------------------------------------
(* Theorems *)

\* Every variable of the hand-over keeps its type.
THEOREM PostTypeOK == Spec => []TypeOK
  <1>1. IInv => TypeOK
    BY DEF IInv
  <1> QED BY <1>1, IInvAlways, PTL

\* No buffer is deleted twice: not by post_to_dart's unique_ptr after the finalizer
\* or before it, however the port closes between them.
THEOREM PostFreedOnce == Spec => []FreedOnce
  <1>1. IInv => FreedOnce
    BY DEF IInv, FreesInv, FreedOnce
  <1> QED BY <1>1, IInvAlways, PTL

\* What Dart holds or will take from its port has not been deleted.
THEOREM PostDartSeesLive == Spec => []DartSeesLive
  <1>1. IInv => DartSeesLive
    BY DEF IInv, DartInv, InDart, DartSeesLive
  <1> QED BY <1>1, IInvAlways, PTL
=============================================================================
