-------------------------- MODULE RingBufferProofs --------------------------
(***************************************************************************)
(* Proofs about RingBuffer for every ring size, every set of entries and   *)
(* every number of pushes.  The inductive invariant IInv orders the four   *)
(* indices around the ring: from the oldest tail_ the producer may act on  *)
(* (pTail), over tail_ and the oldest head_ the consumer may act on        *)
(* (cHead), to head_, less than one turn in all.                           *)
(***************************************************************************)
EXTENDS RingBuffer, TLAPS

-----------------------------------------------------------------------------
(* Arithmetic on ring indices, without %. *)

\* The ring has at least two slots.
LEMMA NNat == N \in Nat /\ N >= 2
  BY NAssumption


\* One step around the ring, as push() and pop() advance their index.
LEMMA SuccSlot ==
    ASSUME NEW a \in Slots
    PROVE  /\ (a + 1) % N \in Slots
           /\ (a + 1) % N = IF a = N - 1 THEN 0 ELSE a + 1
  <1>1. a = N - 1 => (a + 1) % N = 0
    BY NNat DEF Slots
  <1>2. a # N - 1 => (a + 1) % N = a + 1
    BY NNat DEF Slots
  <1> QED BY <1>1, <1>2, NNat DEF Slots

\* The slot that is i after slot a.
LEMMA SlotAfter ==
    ASSUME NEW a \in Slots, NEW i \in Slots
    PROVE  /\ (a + i) % N \in Slots
           /\ (a + i) % N = IF a + i < N THEN a + i ELSE a + i - N
  <1>1. a + i < N => (a + i) % N = a + i
    BY NNat DEF Slots
  <1>2. a + i >= N => (a + i) % N = a + i - N
    BY NNat DEF Slots
  <1> QED BY <1>1, <1>2, NNat DEF Slots

\* size()'s subtraction: the number of slots from a to b.
LEMMA DistValue ==
    ASSUME NEW a \in Slots, NEW b \in Slots
    PROVE  /\ Dist(a, b) \in Slots
           /\ Dist(a, b) = IF b >= a THEN b - a ELSE b - a + N
  <1>1. b >= a => Dist(a, b) = b - a
    BY NNat DEF Slots, Dist
  <1>2. b < a => Dist(a, b) = b - a + N
    BY NNat DEF Slots, Dist
  <1> QED BY <1>1, <1>2, NNat DEF Slots

\* A loaded index lies between the last one loaded and the current one.
LEMMA VisibleBetween ==
    ASSUME NEW s \in Slots, NEW n \in Slots, NEW t \in Visible(s, n)
    PROVE  t \in Slots /\ Dist(s, t) + Dist(t, n) = Dist(s, n)
  <1>1. PICK i \in 0..Dist(s, n) : t = (s + i) % N
    BY DEF Visible
  <1>2. Dist(s, n) \in Slots
    BY DistValue
  <1>3. i \in Slots
    BY <1>1, <1>2, NNat DEF Slots
  <1>4. t \in Slots /\ t = IF s + i < N THEN s + i ELSE s + i - N
    BY <1>1, <1>3, SlotAfter
  <1>5. /\ Dist(s, t) = IF t >= s THEN t - s ELSE t - s + N
        /\ Dist(t, n) = IF n >= t THEN n - t ELSE n - t + N
        /\ Dist(s, n) = IF n >= s THEN n - s ELSE n - s + N
    BY <1>4, DistValue
  <1> QED BY <1>1, <1>3, <1>4, <1>5, NNat DEF Slots

\* The slots between two indices do not include the upper one.
LEMMA SlotBelow ==
    ASSUME NEW t \in Slots, NEW h \in Slots, NEW i \in Slots, i < Dist(t, h)
    PROVE  (t + i) % N # h
  <1>1. Dist(t, h) = IF h >= t THEN h - t ELSE h - t + N
    BY DistValue
  <1>2. CASE t + i < N
    <2>1. (t + i) % N = t + i
      BY <1>2, SlotAfter
    <2> QED BY <1>1, <1>2, <2>1, NNat DEF Slots
  <1>3. CASE t + i >= N
    <2>1. (t + i) % N = t + i - N
      BY <1>3, SlotAfter, NNat DEF Slots
    <2> QED BY <1>1, <1>3, <2>1, NNat DEF Slots
  <1> QED BY <1>2, <1>3, NNat DEF Slots

\* Advancing the upper index by one adds a slot, unless the ring is full.
LEMMA DistSuccUpper ==
    ASSUME NEW a \in Slots, NEW b \in Slots, NEW c \in Slots,
           c = (b + 1) % N, Dist(a, b) < N - 1
    PROVE  Dist(a, c) = Dist(a, b) + 1
  <1>1. c = IF b = N - 1 THEN 0 ELSE b + 1
    BY SuccSlot
  <1>2. /\ Dist(a, b) = IF b >= a THEN b - a ELSE b - a + N
        /\ Dist(a, c) = IF c >= a THEN c - a ELSE c - a + N
    BY DistValue
  <1>3. CASE b = N - 1
    BY <1>1, <1>2, <1>3, NNat DEF Slots
  <1>4. CASE b # N - 1
    BY <1>1, <1>2, <1>4, NNat DEF Slots
  <1> QED BY <1>3, <1>4

\* Advancing the lower index by one removes a slot, unless the ring is empty.
LEMMA DistSuccLower ==
    ASSUME NEW a \in Slots, NEW b \in Slots, NEW c \in Slots,
           c = (a + 1) % N, Dist(a, b) > 0
    PROVE  Dist(c, b) = Dist(a, b) - 1
  <1>1. c = IF a = N - 1 THEN 0 ELSE a + 1
    BY SuccSlot
  <1>2. /\ Dist(a, b) = IF b >= a THEN b - a ELSE b - a + N
        /\ Dist(c, b) = IF b >= c THEN b - c ELSE b - c + N
    BY DistValue
  <1>3. CASE a = N - 1
    BY <1>1, <1>2, <1>3, NNat DEF Slots
  <1>4. CASE a # N - 1
    BY <1>1, <1>2, <1>4, NNat DEF Slots
  <1> QED BY <1>3, <1>4

\* Counting from the next slot is counting one further from this one.
LEMMA SlotAfterSucc ==
    ASSUME NEW a \in Slots, NEW c \in Slots, c = (a + 1) % N,
           NEW i \in Slots, i + 1 \in Slots
    PROVE  (c + i) % N = (a + (i + 1)) % N
  <1>1. c = IF a = N - 1 THEN 0 ELSE a + 1
    BY SuccSlot
  <1>2. (c + i) % N = IF c + i < N THEN c + i ELSE c + i - N
    BY SlotAfter
  <1>3. (a + (i + 1)) % N = IF a + (i + 1) < N THEN a + (i + 1) ELSE a + (i + 1) - N
    BY SlotAfter
  <1>4. CASE a = N - 1
    BY <1>1, <1>2, <1>3, <1>4, NNat DEF Slots
  <1>5. CASE a # N - 1
    BY <1>1, <1>2, <1>3, <1>5, NNat DEF Slots
  <1> QED BY <1>4, <1>5

-----------------------------------------------------------------------------
(* The inductive invariant. *)

\* The four indices in order around the ring, in less than one turn.
IndexOrder ==
    /\ Dist(pTail, tail) + Dist(tail, head) <= N - 1
    /\ Dist(tail, cHead) + Dist(cHead, head) = Dist(tail, head)

\* The producer past its check has a free slot, and what it holds to publish.
ProducerInv ==
    /\ pPc # "idle" => /\ Dist(pTail, tail) + Dist(tail, head) < N - 1
                       /\ entry \in Entries
    /\ pPc = "publish" => buf[head] = entry
    /\ room <= Capacity - (Dist(pTail, tail) + Dist(tail, head))

\* The consumer past its check has an entry, and has read it to release it.
ConsumerInv ==
    /\ cPc # "idle" => Dist(tail, cHead) > 0
    /\ cPc = "release" => out = buf[tail]
    /\ promise <= Dist(tail, cHead)

\* The slots from tail_ to head_ hold what was accepted and not yet popped.
ContentInv ==
    /\ Len(accepted) = Len(popped) + Dist(tail, head)
    /\ \A i \in Slots : i < Dist(tail, head) =>
          buf[(tail + i) % N] = accepted[Len(popped) + 1 + i]
    /\ \A i \in 1..Len(popped) : popped[i] = accepted[i]

IInv == TypeOK /\ IndexOrder /\ ProducerInv /\ ConsumerInv /\ ContentInv

\* The ring starts empty.
LEMMA InitIInv == Init => IInv
  <1> SUFFICES ASSUME Init PROVE IInv
    OBVIOUS
  <1>1. 0 \in Slots /\ Dist(0, 0) = 0
    BY NNat, DistValue DEF Slots
  <1>2. TypeOK
    BY <1>1, NNat DEF Init, TypeOK, Capacity, Slots
  <1>3. IndexOrder /\ ProducerInv /\ ConsumerInv /\ ContentInv
    BY <1>1, NNat DEF Init, IndexOrder, ProducerInv, ConsumerInv, ContentInv,
       Capacity, Slots
  <1> QED BY <1>2, <1>3 DEF IInv

\* A push() that finds the ring full only refreshes the producer's view.
LEMMA PushFullIInv ==
    ASSUME IInv, NEW e \in Entries, PushFull(e) PROVE IInv'
  <1>1. PICK t \in Visible(pTail, tail) : IsFull(t) /\ pTail' = t
    BY DEF PushFull
  <1>2. t \in Slots /\ Dist(pTail, t) + Dist(t, tail) = Dist(pTail, tail)
    BY VisibleBetween DEF IInv, TypeOK
  <1>3. /\ Dist(pTail, t) \in Slots /\ Dist(t, tail) \in Slots
        /\ Dist(pTail, tail) \in Slots /\ Dist(tail, head) \in Slots
    BY <1>2, DistValue DEF IInv, TypeOK
  <1>4. TypeOK'
    BY <1>1, <1>2 DEF IInv, TypeOK, PushFull, cvars
  <1>5. IndexOrder' /\ ProducerInv'
    BY SMTT(60), <1>1, <1>2, <1>3, NNat
    DEF IInv, TypeOK, IndexOrder, ProducerInv, PushFull, cvars, Slots, Capacity, Dist
  <1>6. ConsumerInv' /\ ContentInv'
    BY DEF IInv, ConsumerInv, ContentInv, PushFull, cvars, Slots, Dist
  <1> QED BY <1>4, <1>5, <1>6 DEF IInv

\* A push() that finds room commits to the slot at head_.
LEMMA PushCheckIInv ==
    ASSUME IInv, NEW e \in Entries, PushCheck(e) PROVE IInv'
  <1>1. PICK t \in Visible(pTail, tail) : ~IsFull(t) /\ pTail' = t
    BY DEF PushCheck
  <1>2. t \in Slots /\ Dist(pTail, t) + Dist(t, tail) = Dist(pTail, tail)
    BY VisibleBetween DEF IInv, TypeOK
  <1>3. /\ Dist(pTail, t) \in Slots /\ Dist(t, tail) \in Slots
        /\ Dist(pTail, tail) \in Slots /\ Dist(tail, head) \in Slots
    BY <1>2, DistValue DEF IInv, TypeOK
  <1>4. TypeOK'
    BY <1>1, <1>2 DEF IInv, TypeOK, PushCheck, cvars
  <1>5. IndexOrder'
    BY <1>1, <1>2, <1>3, NNat
    DEF IInv, TypeOK, IndexOrder, PushCheck, cvars, Slots, Dist
  <1>6. Dist(t, tail) + Dist(tail, head) < N - 1
    <2>1. (head + 1) % N = (IF head = N - 1 THEN 0 ELSE head + 1) /\ (head + 1) % N # t
      BY <1>1, SuccSlot DEF IsFull, IInv, TypeOK
    <2>2. /\ Dist(t, tail) = IF tail >= t THEN tail - t ELSE tail - t + N
          /\ Dist(tail, head) = IF head >= tail THEN head - tail ELSE head - tail + N
      BY <1>2, DistValue DEF IInv, TypeOK
    <2>3. Dist(t, tail) + Dist(tail, head) <= N - 1
      BY <1>2, <1>3, NNat DEF IInv, IndexOrder, Slots
    <2> QED BY SMTT(60), <1>2, <2>1, <2>2, <2>3, NNat DEF IInv, TypeOK, Slots
  <1>7. ProducerInv'
    BY SMTT(60), <1>1, <1>2, <1>3, <1>6, NNat
    DEF IInv, TypeOK, ProducerInv, PushCheck, cvars, Slots, Capacity, Dist
  <1>8. ConsumerInv' /\ ContentInv'
    BY DEF IInv, ConsumerInv, ContentInv, PushCheck, cvars, Slots, Dist
  <1> QED BY <1>4, <1>5, <1>7, <1>8 DEF IInv

\* The slot push() writes holds no entry that is still to be popped.
LEMMA PushWriteIInv ==
    ASSUME IInv, PushWrite PROVE IInv'
  <1>1. TypeOK'
    BY DEF IInv, TypeOK, PushWrite, cvars
  <1>2. IndexOrder' /\ ProducerInv'
    BY NNat DEF IInv, TypeOK, IndexOrder, ProducerInv, PushWrite, cvars, Slots,
       Capacity, Dist
  <1>3. /\ Dist(tail, head) = IF head >= tail THEN head - tail ELSE head - tail + N
        /\ Dist(tail, head) \in Slots
        /\ Dist(tail, cHead) \in Slots /\ Dist(cHead, head) \in Slots
    BY DistValue DEF IInv, TypeOK
  <1>4. ASSUME NEW i \in Slots, i < Dist(tail, head)
        PROVE  (tail + i) % N # head
    BY <1>4, SlotBelow DEF IInv, TypeOK
  <1>5. ContentInv'
    <2>1. UNCHANGED <<accepted, popped, tail, head>> /\ Dist(tail, head)' = Dist(tail, head)
      BY DEF PushWrite, Dist
    <2>2. ASSUME NEW i \in Slots, i < Dist(tail, head)
          PROVE  buf'[(tail + i) % N] = buf[(tail + i) % N]
      <3>1. (tail + i) % N \in Slots
        BY SlotAfter DEF IInv, TypeOK
      <3> QED BY <1>4, <2>2, <3>1 DEF PushWrite, IInv, TypeOK
    <2>3. Slots' = Slots
      BY DEF Slots
    <2> QED BY <2>1, <2>2, <2>3 DEF IInv, ContentInv
  <1>6. ConsumerInv'
    <2>1. cPc # "idle" => head # tail
      BY <1>3, NNat DEF IInv, TypeOK, ConsumerInv, IndexOrder, Slots
    <2> QED BY <2>1 DEF IInv, TypeOK, ConsumerInv, PushWrite, cvars, Dist
  <1> QED BY <1>1, <1>2, <1>5, <1>6 DEF IInv

\* Publishing head_ hands exactly the entry just written to the consumer.
LEMMA PushPublishIInv ==
    ASSUME IInv, PushPublish PROVE IInv'
  <1>1. head' \in Slots /\ head' = IF head = N - 1 THEN 0 ELSE head + 1
    BY SuccSlot DEF IInv, TypeOK, PushPublish
  <1>2. /\ Dist(tail, head) \in Slots /\ Dist(pTail, tail) \in Slots
        /\ Dist(tail, cHead) \in Slots /\ Dist(cHead, head) \in Slots
    BY DistValue DEF IInv, TypeOK
  <1>3. UNCHANGED <<tail, buf, pTail, cHead, popped, entry, cPc, out, promise>>
    BY DEF PushPublish, cvars
  <1>4. Dist(tail, head') = Dist(tail, head) + 1
    <2>1. Dist(tail, head) < N - 1
      BY <1>2, NNat DEF IInv, ProducerInv, PushPublish, Slots
    <2> QED BY <1>1, <2>1, DistSuccUpper DEF IInv, TypeOK, PushPublish
  <1>5. Dist(cHead, head') = Dist(cHead, head) + 1
    <2>1. Dist(cHead, head) < N - 1
      BY <1>2, NNat DEF IInv, ProducerInv, IndexOrder, PushPublish, Slots
    <2> QED BY <1>1, <2>1, DistSuccUpper DEF IInv, TypeOK, PushPublish
  <1>6. Dist(tail, head)' = Dist(tail, head) + 1 /\ Dist(cHead, head)' = Dist(cHead, head) + 1
        /\ Dist(pTail, tail)' = Dist(pTail, tail) /\ Dist(tail, cHead)' = Dist(tail, cHead)
    BY <1>3, <1>4, <1>5 DEF Dist
  <1>7. TypeOK'
    <2>1. entry \in Entries
      BY DEF IInv, ProducerInv, PushPublish
    <2> QED BY <1>1, <1>3, <2>1, NNat DEF IInv, TypeOK, PushPublish, Capacity, Slots
  <1>8. IndexOrder' /\ ProducerInv' /\ ConsumerInv'
    <2>1. IndexOrder'
      BY SMTT(60), <1>2, <1>6, NNat DEF IInv, IndexOrder, ProducerInv, PushPublish, Slots
    <2>2. ProducerInv'
      <3>1. /\ pPc' = "idle" /\ room \in Nat /\ Capacity = N - 1
            /\ room' = IF room > 0 THEN room - 1 ELSE 0
        BY NNat DEF PushPublish, IInv, TypeOK, Capacity
      <3>2. room' <= Capacity - (Dist(pTail, tail)' + Dist(tail, head)')
        BY SMTT(60), <1>2, <1>6, <3>1, NNat DEF IInv, ProducerInv, PushPublish, Slots
      <3> QED BY <3>1, <3>2 DEF ProducerInv, Capacity
    <2>3. ConsumerInv'
      BY <1>3, <1>6 DEF IInv, ConsumerInv
    <2> QED BY <2>1, <2>2, <2>3
  <1>9. ContentInv'
    <2>1. Len(accepted) \in Nat /\ Len(popped) \in Nat
      BY DEF IInv, TypeOK
    <2>2. Len(accepted)' = Len(accepted) + 1 /\ accepted'[Len(accepted) + 1] = entry
      BY DEF PushPublish, IInv, TypeOK, ProducerInv
    <2>3. \A j \in 1..Len(accepted) : accepted'[j] = accepted[j]
      BY DEF PushPublish, IInv, TypeOK, ProducerInv
    <2>4. ASSUME NEW i \in Slots, i < Dist(tail, head) + 1
          PROVE  buf[(tail + i) % N] = accepted'[Len(popped) + 1 + i]
      <3>1. CASE i < Dist(tail, head)
        <4>1. Len(popped) + 1 + i \in 1..Len(accepted)
          BY <3>1, <1>2, <2>1 DEF IInv, ContentInv, Slots
        <4> QED BY <3>1, <4>1, <2>3 DEF IInv, ContentInv
      <3>2. CASE i = Dist(tail, head)
        <4>1. (tail + i) % N = head
          <5>1. (tail + i) % N = IF tail + i < N THEN tail + i ELSE tail + i - N
            BY SlotAfter DEF IInv, TypeOK
          <5>2. i = IF head >= tail THEN head - tail ELSE head - tail + N
            BY <3>2, DistValue DEF IInv, TypeOK
          <5>3. CASE head >= tail
            BY <5>1, <5>2, <5>3, NNat DEF IInv, TypeOK, Slots
          <5>4. CASE head < tail
            BY <5>1, <5>2, <5>4, NNat DEF IInv, TypeOK, Slots
          <5> QED BY <5>3, <5>4, NNat DEF IInv, TypeOK, Slots
        <4>2. Len(popped) + 1 + i = Len(accepted) + 1
          BY <3>2, <2>1, <1>2 DEF IInv, ContentInv, Slots
        <4> QED BY <4>1, <4>2, <2>2 DEF IInv, ProducerInv, PushPublish
      <3> QED BY <2>4, <3>1, <3>2, <1>2, NNat DEF Slots
    <2>5. Len(accepted)' = Len(popped)' + Dist(tail, head)'
      BY <1>2, <1>3, <1>6, <2>1, <2>2 DEF IInv, ContentInv, Slots
    <2>6. \A j \in 1..Len(popped) : popped[j] = accepted'[j]
      BY <1>2, <2>1, <2>3, NNat DEF IInv, ContentInv, Slots
    <2>7. Slots' = Slots
      BY DEF Slots
    <2> QED BY <1>3, <1>6, <2>4, <2>5, <2>6, <2>7 DEF ContentInv
  <1> QED BY <1>7, <1>8, <1>9 DEF IInv

\* A pop() that finds nothing learns nothing new: tail_ was its view already.
LEMMA PopEmptyIInv ==
    ASSUME IInv, PopEmpty PROVE IInv'
  <1>1. tail \in Slots /\ Dist(cHead, tail) + Dist(tail, head) = Dist(cHead, head)
    BY VisibleBetween DEF PopEmpty, IInv, TypeOK
  <1>2. /\ Dist(cHead, tail) \in Slots /\ Dist(tail, head) \in Slots
        /\ Dist(cHead, head) \in Slots /\ Dist(tail, cHead) \in Slots
    BY DistValue DEF IInv, TypeOK
  <1>3. Dist(cHead, tail) = 0 /\ Dist(tail, cHead) = 0
    BY <1>1, <1>2, NNat DEF IInv, IndexOrder, Slots
  <1>4. cHead = tail
    <2>1. Dist(cHead, tail) = IF tail >= cHead THEN tail - cHead ELSE tail - cHead + N
      BY DistValue DEF IInv, TypeOK
    <2> QED BY <1>3, <2>1, NNat DEF IInv, TypeOK, Slots
  <1>5. UNCHANGED vars
    BY <1>4 DEF PopEmpty, vars, pvars, cvars
  <1> QED BY <1>5 DEF IInv, TypeOK, IndexOrder, ProducerInv, ConsumerInv, ContentInv,
          vars, pvars, cvars, Slots, Dist, Capacity

\* A pop() that finds an entry, or a consumer's size(), moves the consumer's
\* view of head_ forward.
LEMMA ConsumerView ==
    ASSUME IInv, NEW h \in Visible(cHead, head)
    PROVE  /\ h \in Slots
           /\ Dist(tail, h) \in Slots
           /\ Dist(tail, h) + Dist(h, head) = Dist(tail, head)
           /\ Dist(tail, cHead) <= Dist(tail, h)
           /\ h # tail => Dist(tail, h) > 0
  <1>1. h \in Slots /\ Dist(cHead, h) + Dist(h, head) = Dist(cHead, head)
    BY VisibleBetween DEF IInv, TypeOK
  <1>2. /\ Dist(tail, h) \in Slots /\ Dist(tail, cHead) \in Slots
        /\ Dist(tail, head) \in Slots /\ Dist(cHead, h) \in Slots
        /\ Dist(h, head) \in Slots /\ Dist(cHead, head) \in Slots
    BY <1>1, DistValue DEF IInv, TypeOK
  <1>3. /\ Dist(tail, h) = IF h >= tail THEN h - tail ELSE h - tail + N
        /\ Dist(tail, cHead) = IF cHead >= tail THEN cHead - tail ELSE cHead - tail + N
        /\ Dist(cHead, h) = IF h >= cHead THEN h - cHead ELSE h - cHead + N
    BY <1>1, DistValue DEF IInv, TypeOK
  <1>4. Dist(tail, cHead) + Dist(cHead, h) <= N - 1
    BY <1>1, <1>2, NNat DEF IInv, IndexOrder, Slots
  <1>5. tail \in 0..(N - 1) /\ cHead \in 0..(N - 1) /\ h \in 0..(N - 1)
    BY <1>1 DEF IInv, TypeOK, Slots
  <1>6. Dist(tail, h) = Dist(tail, cHead) + Dist(cHead, h)
    <2>1. CASE h >= cHead
      BY <1>3, <1>4, <1>5, <2>1, NNat
    <2>2. CASE h < cHead
      BY <1>3, <1>4, <1>5, <2>2, NNat
    <2> QED BY <1>5, <2>1, <2>2, NNat
  <1>7. h # tail => Dist(tail, h) > 0
    BY <1>3, <1>5, NNat
  <1> QED BY <1>1, <1>2, <1>6, <1>7, NNat DEF IInv, IndexOrder, Slots

\* A pop() that finds an entry commits to the slot at tail_.
LEMMA PopCheckIInv ==
    ASSUME IInv, PopCheck PROVE IInv'
  <1>1. PICK h \in Visible(cHead, head) : h # tail /\ cHead' = h
    BY DEF PopCheck
  <1>2. /\ h \in Slots /\ Dist(tail, h) > 0 /\ Dist(tail, h) \in Slots
        /\ Dist(tail, h) + Dist(h, head) = Dist(tail, head)
        /\ Dist(tail, cHead) <= Dist(tail, h)
    BY <1>1, ConsumerView
  <1>3. TypeOK'
    BY <1>1, <1>2 DEF IInv, TypeOK, PopCheck, pvars
  <1>4. IndexOrder' /\ ProducerInv' /\ ContentInv'
    BY <1>1, <1>2
    DEF IInv, IndexOrder, ProducerInv, ContentInv, PopCheck, pvars, Dist, Slots, Capacity
  <1>5. ConsumerInv'
    <2>1. Dist(tail, cHead)' = Dist(tail, h) /\ Dist(tail, cHead) \in Slots
      BY <1>1, DistValue DEF PopCheck, Dist, IInv, TypeOK
    <2>2. promise' <= Dist(tail, cHead)'
      BY <1>2, <2>1, NNat DEF IInv, TypeOK, ConsumerInv, PopCheck, Slots, Capacity
    <2> QED BY <1>2, <2>1, <2>2 DEF ConsumerInv, PopCheck
  <1> QED BY <1>3, <1>4, <1>5 DEF IInv

\* pop() copies the slot out.
LEMMA PopReadIInv ==
    ASSUME IInv, PopRead PROVE IInv'
  <1>1. TypeOK'
    BY DEF IInv, TypeOK, PopRead, pvars
  <1>2. IndexOrder' /\ ProducerInv' /\ ContentInv'
    BY DEF IInv, IndexOrder, ProducerInv, ContentInv, PopRead, pvars, Dist, Slots, Capacity
  <1>3. ConsumerInv'
    BY DEF IInv, ConsumerInv, PopRead, Dist
  <1> QED BY <1>1, <1>2, <1>3 DEF IInv

\* Releasing the slot at tail_ removes exactly the entry just read.
LEMMA PopReleaseIInv ==
    ASSUME IInv, PopRelease PROVE IInv'
  <1>1. tail' \in Slots /\ tail' = (tail + 1) % N
    BY SuccSlot DEF IInv, TypeOK, PopRelease
  <1>2. /\ Dist(tail, head) \in Slots /\ Dist(pTail, tail) \in Slots
        /\ Dist(tail, cHead) \in Slots /\ Dist(cHead, head) \in Slots
    BY DistValue DEF IInv, TypeOK
  <1>3. UNCHANGED <<head, buf, pTail, cHead, accepted, pPc, entry, room>>
    BY DEF PopRelease, pvars
  <1>4. Dist(tail, cHead) > 0 /\ Dist(tail, head) > 0 /\ Dist(pTail, tail) < N - 1
    BY <1>2, NNat DEF IInv, ConsumerInv, IndexOrder, PopRelease, Slots
  <1>5. Dist(tail', head) = Dist(tail, head) - 1
    BY <1>1, <1>4, DistSuccLower DEF IInv, TypeOK
  <1>6. Dist(tail', cHead) = Dist(tail, cHead) - 1
    BY <1>1, <1>4, DistSuccLower DEF IInv, TypeOK
  <1>7. Dist(pTail, tail') = Dist(pTail, tail) + 1
    BY <1>1, <1>4, DistSuccUpper DEF IInv, TypeOK
  <1>8. /\ Dist(tail, head)' = Dist(tail, head) - 1
        /\ Dist(tail, cHead)' = Dist(tail, cHead) - 1
        /\ Dist(pTail, tail)' = Dist(pTail, tail) + 1
        /\ Dist(cHead, head)' = Dist(cHead, head)
    BY <1>3, <1>5, <1>6, <1>7 DEF Dist
  <1>9. TypeOK'
    <2>1. popped' \in Seq(Entries \cup {NoEntry})
      BY DEF IInv, TypeOK, PopRelease
    <2>2. promise' \in 0..Capacity
      BY NNat DEF IInv, TypeOK, PopRelease, Capacity
    <2> QED BY <1>1, <1>3, <2>1, <2>2 DEF IInv, TypeOK, PopRelease, Capacity, Slots
  <1>10. IndexOrder'
    BY <1>2, <1>8, NNat DEF IInv, IndexOrder, Slots
  <1>11. ProducerInv'
    <2>1. Dist(pTail, tail)' + Dist(tail, head)' = Dist(pTail, tail) + Dist(tail, head)
      BY <1>2, <1>8, NNat DEF Slots
    <2> QED BY <1>3, <2>1 DEF IInv, ProducerInv, Capacity
  <1>12. ConsumerInv'
    <2>1. cPc' = "idle" /\ promise \in Nat /\ promise' = IF promise > 0 THEN promise - 1 ELSE 0
      BY NNat DEF PopRelease, IInv, TypeOK, Capacity
    <2>2. promise' <= Dist(tail, cHead)'
      BY <1>2, <1>4, <1>8, <2>1, NNat DEF IInv, ConsumerInv, Slots
    <2> QED BY <2>1, <2>2 DEF ConsumerInv
  <1>13. ContentInv'
    <2>1. Len(accepted) \in Nat /\ Len(popped) \in Nat
      BY DEF IInv, TypeOK
    <2>2. /\ Len(popped)' = Len(popped) + 1 /\ popped'[Len(popped) + 1] = out
          /\ \A j \in 1..Len(popped) : popped'[j] = popped[j]
      BY DEF PopRelease, IInv, TypeOK
    <2>3. out = accepted[Len(popped) + 1]
      <3>1. 0 \in Slots /\ (tail + 0) % N = tail
        <4>1. 0 \in Slots /\ tail \in Slots
          BY NNat DEF Slots, IInv, TypeOK
        <4>2. (tail + 0) % N = IF tail + 0 < N THEN tail + 0 ELSE tail + 0 - N
          BY <4>1, SlotAfter
        <4> QED BY <4>1, <4>2, NNat DEF Slots
      <3>2. buf[tail] = accepted[Len(popped) + 1 + 0]
        BY <1>4, <3>1 DEF IInv, ContentInv
      <3>3. Len(popped) + 1 + 0 = Len(popped) + 1
        BY <2>1
      <3> QED BY <3>2, <3>3 DEF IInv, ConsumerInv, PopRelease
    <2>4. \A j \in 1..(Len(popped) + 1) : popped'[j] = accepted[j]
      BY <2>1, <2>2, <2>3 DEF IInv, ContentInv
    <2>5. ASSUME NEW i \in Slots, i < Dist(tail, head) - 1
          PROVE  buf[(tail' + i) % N] = accepted[Len(popped) + 1 + 1 + i]
      <3>1. i + 1 \in Slots /\ i + 1 < Dist(tail, head)
        BY <1>2, <2>5, NNat DEF Slots
      <3>2. (tail' + i) % N = (tail + (i + 1)) % N
        BY <1>1, <3>1, SlotAfterSucc DEF IInv, TypeOK
      <3>3. buf[(tail + (i + 1)) % N] = accepted[Len(popped) + 1 + (i + 1)]
        BY <3>1 DEF IInv, ContentInv
      <3>4. Len(popped) + 1 + (i + 1) = Len(popped) + 1 + 1 + i
        BY <2>1 DEF Slots
      <3> QED BY <3>2, <3>3, <3>4
    <2>6. Len(accepted)' = Len(popped)' + Dist(tail, head)'
      BY <1>2, <1>3, <1>8, <2>1, <2>2, NNat DEF IInv, ContentInv, Slots
    <2>7. Slots' = Slots
      BY DEF Slots
    <2> QED BY <1>3, <1>8, <2>2, <2>4, <2>5, <2>6, <2>7 DEF ContentInv
  <1> QED BY <1>9, <1>10, <1>11, <1>12, <1>13 DEF IInv

\* size() on the producer's side counts no slot free that is not.
LEMMA ProducerSizeIInv ==
    ASSUME IInv, ProducerSize PROVE IInv'
  <1>1. PICK t \in Visible(pTail, tail) : pTail' = t /\ room' = Capacity - Dist(t, head)
    BY DEF ProducerSize
  <1>2. t \in Slots /\ Dist(pTail, t) + Dist(t, tail) = Dist(pTail, tail)
    BY VisibleBetween DEF IInv, TypeOK
  <1>3. /\ Dist(pTail, t) \in Slots /\ Dist(t, tail) \in Slots /\ Dist(t, head) \in Slots
        /\ Dist(pTail, tail) \in Slots /\ Dist(tail, head) \in Slots
    BY <1>2, DistValue DEF IInv, TypeOK
  <1>4. Dist(t, head) = Dist(t, tail) + Dist(tail, head)
    <2>1. /\ Dist(t, head) = IF head >= t THEN head - t ELSE head - t + N
          /\ Dist(t, tail) = IF tail >= t THEN tail - t ELSE tail - t + N
          /\ Dist(tail, head) = IF head >= tail THEN head - tail ELSE head - tail + N
      BY <1>2, DistValue DEF IInv, TypeOK
    <2>2. Dist(t, tail) + Dist(tail, head) <= N - 1
      BY <1>2, <1>3, NNat DEF IInv, IndexOrder, Slots
    <2>3. t \in 0..(N - 1) /\ tail \in 0..(N - 1) /\ head \in 0..(N - 1)
      BY <1>2 DEF IInv, TypeOK, Slots
    <2>4. CASE tail >= t
      BY <2>1, <2>2, <2>3, <2>4, NNat
    <2>5. CASE tail < t
      BY <2>1, <2>2, <2>3, <2>5, NNat
    <2> QED BY <2>3, <2>4, <2>5, NNat
  <1>5. TypeOK'
    BY <1>1, <1>2, <1>3, NNat DEF IInv, TypeOK, ProducerSize, cvars, Capacity, Slots
  <1>6. Dist(pTail, tail)' = Dist(t, tail) /\ Dist(tail, head)' = Dist(tail, head)
    BY <1>1 DEF ProducerSize, Dist
  <1>7. IndexOrder'
    BY <1>2, <1>3, <1>6, NNat DEF IInv, IndexOrder, ProducerSize, cvars, Slots, Dist
  <1>8. ProducerInv'
    BY <1>1, <1>3, <1>4, <1>6, NNat DEF ProducerInv, ProducerSize, Capacity, Slots
  <1>9. ConsumerInv' /\ ContentInv'
    BY DEF IInv, ConsumerInv, ContentInv, ProducerSize, cvars, Slots, Dist
  <1> QED BY <1>5, <1>7, <1>8, <1>9 DEF IInv

\* size() on the consumer's side counts no entry that is not there.
LEMMA ConsumerSizeIInv ==
    ASSUME IInv, ConsumerSize PROVE IInv'
  <1>1. PICK h \in Visible(cHead, head) : cHead' = h /\ promise' = Dist(tail, h)
    BY DEF ConsumerSize
  <1>2. /\ h \in Slots /\ Dist(tail, h) \in Slots
        /\ Dist(tail, h) + Dist(h, head) = Dist(tail, head)
    BY <1>1, ConsumerView
  <1>3. TypeOK'
    BY <1>1, <1>2, NNat DEF IInv, TypeOK, ConsumerSize, pvars, Capacity, Slots
  <1>4. IndexOrder' /\ ProducerInv' /\ ContentInv'
    BY <1>1, <1>2
    DEF IInv, IndexOrder, ProducerInv, ContentInv, ConsumerSize, pvars, Dist, Slots, Capacity
  <1>5. ConsumerInv'
    BY <1>1, <1>2, NNat DEF ConsumerInv, ConsumerSize, Dist, Slots
  <1> QED BY <1>3, <1>4, <1>5 DEF IInv

-----------------------------------------------------------------------------
(* The theorems. *)

\* IInv is inductive.
LEMMA NextIInv == IInv /\ [Next]_vars => IInv'
  <1> SUFFICES ASSUME IInv, [Next]_vars PROVE IInv'
    OBVIOUS
  <1>1. CASE Producer
    BY <1>1, PushFullIInv, PushCheckIInv, PushWriteIInv, PushPublishIInv, ProducerSizeIInv
    DEF Producer
  <1>2. CASE Consumer
    BY <1>2, PopEmptyIInv, PopCheckIInv, PopReadIInv, PopReleaseIInv, ConsumerSizeIInv
    DEF Consumer
  <1>3. CASE UNCHANGED vars
    BY <1>3 DEF IInv, TypeOK, IndexOrder, ProducerInv, ConsumerInv, ContentInv,
       vars, pvars, cvars, Slots, Dist, Capacity
  <1> QED BY <1>1, <1>2, <1>3 DEF Next

\* IInv holds in every state of every behaviour.
LEMMA SpecIInv == Spec => []IInv
  BY InitIInv, NextIInv, PTL DEF Spec

\* Indices stay inside buf_ and every variable keeps its kind.
THEOREM RingTypeOK == Spec => []TypeOK
  <1>1. IInv => TypeOK
    BY DEF IInv
  <1> QED BY <1>1, SpecIInv, PTL

\* push() never writes the slot a pop() in progress reads.
THEOREM RingNoDataRace == Spec => []NoDataRace
  <1>1. IInv => NoDataRace
    <2> SUFFICES ASSUME IInv, pPc = "write", cPc # "idle", head = tail PROVE FALSE
      BY DEF NoDataRace
    <2>1. Dist(tail, head) = 0
      BY DistValue, NNat DEF IInv, TypeOK, Slots
    <2>2. Dist(tail, cHead) \in Slots /\ Dist(cHead, head) \in Slots
      BY DistValue DEF IInv, TypeOK
    <2> QED BY <2>1, <2>2, NNat DEF IInv, IndexOrder, ConsumerInv, Slots
  <1> QED BY <1>1, SpecIInv, PTL

\* pop() delivers what push() accepted, in order, without loss or repetition.
THEOREM RingFifoDelivery == Spec => []FifoDelivery
  <1>1. IInv => FifoDelivery
    <2> SUFFICES ASSUME IInv PROVE FifoDelivery
      OBVIOUS
    <2>1. Dist(tail, head) \in Slots /\ Len(popped) \in Nat /\ Len(accepted) \in Nat
      BY DistValue DEF IInv, TypeOK
    <2> QED BY <2>1, NNat DEF IInv, ContentInv, FifoDelivery, Slots
  <1> QED BY <1>1, SpecIInv, PTL

\* What size() told either thread stays good until that thread uses it up.
THEOREM RingSizeIsSafe == Spec => []SizeIsSafe
  <1>1. IInv => SizeIsSafe
    <2> SUFFICES ASSUME IInv PROVE SizeIsSafe
      OBVIOUS
    <2>1. /\ Dist(tail, head) \in Slots /\ Dist(tail, cHead) \in Slots
          /\ Dist(cHead, head) \in Slots /\ Dist(pTail, tail) \in Slots
      BY DistValue DEF IInv, TypeOK
    <2>2. promise \in Nat /\ room \in Nat /\ Capacity = N - 1
      BY NNat DEF IInv, TypeOK, Capacity
    <2>3. promise <= Dist(tail, head)
      BY <2>1, <2>2, NNat DEF IInv, IndexOrder, ConsumerInv, Slots
    <2>4. room <= Capacity - Dist(tail, head)
      BY <2>1, <2>2, NNat DEF IInv, ProducerInv, Slots
    <2> QED BY <2>3, <2>4 DEF SizeIsSafe
  <1> QED BY <1>1, SpecIInv, PTL

-----------------------------------------------------------------------------
(* The ring implements a bounded queue: publishing head_ puts an entry at its  *)
(* end, releasing tail_ takes its first, and every other step stutters.        *)

\* Contents, told by history: what is accepted and not yet popped.
ContentsInv ==
    /\ Dist(tail, head) \in Nat
    /\ Len(popped) \in Nat /\ Len(accepted) = Len(popped) + Dist(tail, head)
    /\ Contents \in Seq(Entries) /\ Len(Contents) = Dist(tail, head)
    /\ \A i \in 1..Dist(tail, head) : Contents[i] = accepted[Len(popped) + i]

LEMMA ContentsValue == IInv => ContentsInv
  <1> SUFFICES ASSUME IInv PROVE ContentsInv
    OBVIOUS
  <1> DEFINE D == Dist(tail, head)
  <1>1. D \in Slots /\ Len(popped) \in Nat /\ Len(accepted) = Len(popped) + D
    BY DistValue DEF IInv, TypeOK, ContentInv
  <1>2. ASSUME NEW i \in 1..D PROVE buf[(tail + i - 1) % N] = accepted[Len(popped) + i]
    <2>1. i - 1 \in Slots /\ i - 1 < D
      BY <1>1, <1>2, NNat DEF Slots
    <2>2. buf[(tail + (i - 1)) % N] = accepted[Len(popped) + 1 + (i - 1)]
      BY <2>1 DEF IInv, ContentInv
    <2>3. tail + (i - 1) = tail + i - 1 /\ Len(popped) + 1 + (i - 1) = Len(popped) + i
      BY <1>1, <1>2, NNat DEF IInv, TypeOK, Slots
    <2> QED BY <2>2, <2>3
  <1>3. ASSUME NEW i \in 1..D PROVE accepted[Len(popped) + i] \in Entries
    <2>1. Len(popped) + i \in 1..Len(accepted)
      BY <1>1, <1>3, NNat DEF Slots
    <2> QED BY <2>1 DEF IInv, TypeOK
  <1>4. Contents = [i \in 1..D |-> accepted[Len(popped) + i]]
    BY <1>2 DEF Contents
  <1>5. D \in Nat
    BY <1>1, NNat DEF Slots
  <1> HIDE DEF D
  <1>6. Contents \in Seq(Entries) /\ Len(Contents) = D
        /\ \A i \in 1..D : Contents[i] = accepted[Len(popped) + i]
    BY <1>3, <1>4, <1>5
  <1> QED BY <1>1, <1>5, <1>6 DEF D, ContentsInv

\* Sequences with the same elements are the same.
LEMMA SameSeq ==
    ASSUME NEW S, NEW s \in Seq(S), NEW t \in Seq(S), Len(s) = Len(t),
           \A i \in 1..Len(s) : s[i] = t[i]
    PROVE  s = t
  OBVIOUS

LEMMA PutStep == ASSUME IInv, IInv', PushPublish PROVE \E e \in Entries : Fifo!Put(e)
  <1>0. ContentsInv
    BY ContentsValue
  <1>1. entry \in Entries /\ accepted' = Append(accepted, entry) /\ popped' = popped
    BY DEF PushPublish, IInv, ProducerInv
  <1>2. accepted \in Seq(Entries)
    BY DEF IInv, TypeOK
  <1>3. /\ Len(accepted') = Len(accepted) + 1 /\ accepted'[Len(accepted) + 1] = entry
        /\ \A j \in 1..Len(accepted) : accepted'[j] = accepted[j]
    BY <1>1, <1>2
  <1>4. /\ Contents' \in Seq(Entries) /\ Len(Contents') = Dist(tail, head)'
        /\ Len(accepted') = Len(popped) + Dist(tail, head)'
        /\ Dist(tail, head)' \in Nat
        /\ \A i \in 1..Dist(tail, head)' : Contents'[i] = accepted'[Len(popped) + i]
    <2>1. ContentsInv'
      BY ContentsValue, PTL
    <2> QED BY <1>1, <2>1 DEF ContentsInv
  <1>5. Dist(tail, head)' = Dist(tail, head) + 1 /\ Dist(tail, head) \in Nat
    BY <1>0, <1>3, <1>4, NNat DEF ContentsInv, Slots
  <1>6. Append(Contents, entry) \in Seq(Entries)
        /\ Len(Append(Contents, entry)) = Dist(tail, head) + 1
        /\ Append(Contents, entry)[Dist(tail, head) + 1] = entry
        /\ \A i \in 1..Dist(tail, head) : Append(Contents, entry)[i] = Contents[i]
    BY <1>0, <1>1, <1>5 DEF ContentsInv
  <1>7. ASSUME NEW i \in 1..(Dist(tail, head) + 1)
        PROVE  Contents'[i] = Append(Contents, entry)[i]
    <2>1. CASE i = Dist(tail, head) + 1
      BY <1>0, <1>3, <1>4, <1>5, <1>6, <2>1 DEF ContentsInv
    <2>2. CASE i # Dist(tail, head) + 1
      <3>1. i \in 1..Dist(tail, head) /\ Len(popped) + i \in 1..Len(accepted)
        BY <1>0, <1>5, <1>7, <2>2 DEF ContentsInv
      <3> QED BY <1>0, <1>3, <1>4, <1>5, <1>6, <3>1 DEF ContentsInv
    <2> QED BY <2>1, <2>2
  <1>8. Contents' = Append(Contents, entry)
    BY <1>4, <1>5, <1>6, <1>7, SameSeq
  <1>9. Len(Contents) < Capacity
    <2>1. Dist(pTail, tail) \in Slots /\ Dist(tail, head) \in Slots
      BY DistValue DEF IInv, TypeOK
    <2> QED BY <1>0, <2>1, NNat DEF ContentsInv, IInv, ProducerInv, PushPublish, Capacity, Slots
  <1> QED BY <1>1, <1>8, <1>9 DEF Fifo!Put

LEMMA GetStep == ASSUME IInv, IInv', PopRelease PROVE Fifo!Get
  <1>0. ContentsInv
    BY ContentsValue
  <1>1. accepted' = accepted /\ popped' = Append(popped, out)
    BY DEF PopRelease
  <1>2. popped \in Seq(Entries \cup {NoEntry}) /\ out \in Entries \cup {NoEntry}
    BY DEF IInv, TypeOK
  <1>3. Len(popped') = Len(popped) + 1 /\ popped'[Len(popped) + 1] = out
    BY <1>1, <1>2
  <1>4. /\ Contents' \in Seq(Entries) /\ Len(Contents') = Dist(tail, head)'
        /\ Len(accepted) = Len(popped') + Dist(tail, head)'
        /\ Dist(tail, head)' \in Nat
        /\ \A i \in 1..Dist(tail, head)' : Contents'[i] = accepted[Len(popped') + i]
    <2>1. ContentsInv'
      BY ContentsValue, PTL
    <2> QED BY <1>1, <2>1 DEF ContentsInv
  <1>5. Dist(tail, head)' = Dist(tail, head) - 1 /\ Dist(tail, head) \in Nat \ {0}
    BY <1>0, <1>3, <1>4, NNat DEF ContentsInv, Slots
  <1>6. Contents # <<>>
    BY <1>0, <1>5 DEF ContentsInv
  <1>7. out = Head(Contents)
    <2>1. popped'[Len(popped) + 1] = accepted[Len(popped) + 1]
      <3>1. (\A i \in 1..Len(popped) : popped[i] = accepted[i])'
        BY DEF IInv, ContentInv
      <3> QED BY <1>0, <1>1, <1>3, <3>1 DEF ContentsInv
    <2>2. Contents[1] = accepted[Len(popped) + 1]
      BY <1>0, <1>5 DEF ContentsInv
    <2> QED BY <1>0, <1>3, <1>6, <2>1, <2>2 DEF ContentsInv
  <1>8. /\ Tail(Contents) \in Seq(Entries) /\ Len(Tail(Contents)) = Dist(tail, head) - 1
        /\ \A i \in 1..(Dist(tail, head) - 1) : Tail(Contents)[i] = Contents[i + 1]
    BY <1>0, <1>5, <1>6 DEF ContentsInv
  <1>9. ASSUME NEW i \in 1..(Dist(tail, head) - 1)
        PROVE  Contents'[i] = Tail(Contents)[i]
    <2>1. i \in 1..Dist(tail, head)' /\ i + 1 \in 1..Dist(tail, head)
      BY <1>5, <1>9
    <2>2. Len(popped) \in Nat
      BY <1>0 DEF ContentsInv
    <2>3. Len(popped') + i = Len(popped) + (i + 1)
      BY <1>3, <1>9, <2>2
    <2>4. Contents'[i] = accepted[Len(popped') + i]
      BY <1>4, <2>1
    <2>5. Contents[i + 1] = accepted[Len(popped) + (i + 1)]
      BY <1>0, <2>1 DEF ContentsInv
    <2> QED BY <1>8, <2>3, <2>4, <2>5
  <1>10. Contents' = Tail(Contents)
    BY <1>4, <1>5, <1>8, <1>9, SameSeq
  <1> QED BY <1>1, <1>6, <1>7, <1>10 DEF Fifo!Get

LEMMA StutterStep ==
    ASSUME IInv, IInv', UNCHANGED <<head, tail, accepted, popped>>
    PROVE  UNCHANGED Fifo!fvars
  <1>1. ContentsInv /\ ContentsInv'
    BY ContentsValue, PTL
  <1>2. Dist(tail, head)' = Dist(tail, head)
    BY DEF Dist
  <1>3. Contents' = Contents
    BY <1>1, <1>2, SameSeq DEF ContentsInv
  <1> QED BY <1>3 DEF Fifo!fvars

LEMMA RefinementStep == IInv /\ IInv' /\ [Next]_vars => [Fifo!FNext]_Fifo!fvars
  <1> SUFFICES ASSUME IInv, IInv', [Next]_vars PROVE [Fifo!FNext]_Fifo!fvars
    OBVIOUS
  <1>1. CASE PushPublish
    BY <1>1, PutStep DEF Fifo!FNext
  <1>2. CASE PopRelease
    BY <1>2, GetStep DEF Fifo!FNext
  <1>3. CASE ~PushPublish /\ ~PopRelease
    <2>1. UNCHANGED <<head, tail, accepted, popped>>
      BY <1>3 DEF Next, Producer, Consumer, ProducerSize, PushWrite, PushFull, PushCheck,
                  ConsumerSize, PopEmpty, PopCheck, PopRead, vars
    <2> QED BY <2>1, StutterStep
  <1> QED BY <1>1, <1>2, <1>3

\* The ring buffer, with its stale indices and its unsynchronised slots, is a
\* bounded first-in first-out queue of N - 1 entries.
THEOREM RingRefinesFifo == Spec => RefinesFifo
  <1>1. Init => Fifo!FInit
    <2> SUFFICES ASSUME Init PROVE Fifo!FInit
      OBVIOUS
    <2>1. Contents \in Seq(Entries) /\ Len(Contents) = 0
      BY InitIInv, ContentsValue, NNat, DistValue DEF Init, Slots, ContentsInv
    <2> QED BY <2>1 DEF Init, Fifo!FInit
  <1> QED BY <1>1, SpecIInv, RefinementStep, PTL DEF Spec, RefinesFifo, Fifo!FSpec
=============================================================================
