----------------------------- MODULE RingBuffer -----------------------------
(***************************************************************************)
(* spsc_ring_buffer (src/ring_buffer.h): one producer thread that calls    *)
(* push() and size(), one consumer thread that calls pop() and size().     *)
(*                                                                         *)
(* Every access to shared memory is a step of its own.  An acquire load of *)
(* the OTHER thread's index need not return its latest value: the C++      *)
(* memory model only lets it return one that is no older than the last one *)
(* this thread loaded.  pTail and cHead are those last loaded values and   *)
(* Visible is the set a load may return.  A load of the thread's own index *)
(* is exact.  `x & mask_' is x % N, N being a power of two.                *)
(***************************************************************************)
EXTENDS Integers, Sequences

CONSTANTS
    N,          \* number of slots
    Entries,    \* what may be pushed
    NoEntry,    \* the content of a slot or variable never written
    MaxPushes   \* bound: pushes the producer gets accepted

ASSUME NAssumption == N \in Nat /\ N >= 2 /\ \E k \in 1..31 : N = 2^k
ASSUME EntriesAssumption == NoEntry \notin Entries
ASSUME MaxPushesAssumption == MaxPushes \in Nat

VARIABLES
    head,       \* head_: next slot the producer fills
    tail,       \* tail_: next slot the consumer empties
    buf,        \* buf_
    pPc,        \* where the producer is in push(): idle, write, publish
    entry,      \* push()'s argument
    pTail,      \* the value of tail_ the producer loaded last
    room,       \* free slots the producer may still count on since its size()
    cPc,        \* where the consumer is in pop(): idle, read, release
    out,        \* pop()'s out parameter
    cHead,      \* the value of head_ the consumer loaded last
    promise,    \* entries the consumer may still count on since its size()
    accepted,   \* history: entries push() returned true for
    popped      \* history: entries pop() returned true for

pvars == <<pPc, entry, pTail, room>>
cvars == <<cPc, out, cHead, promise>>
vars  == <<head, tail, buf, pvars, cvars, accepted, popped>>

Slots == 0..(N - 1)

\* capacity(): one slot stays empty to tell full from empty.
Capacity == N - 1

\* The number of slots from index a up to index b: (b - a) & mask_.
Dist(a, b) == (b - a) % N

\* The values an acquire load may return of an index now at `now' that this
\* thread last saw at `seen'.
Visible(seen, now) == {(seen + i) % N : i \in 0..Dist(seen, now)}

Init ==
    /\ head = 0 /\ tail = 0
    /\ buf = [s \in Slots |-> NoEntry]
    /\ pPc = "idle" /\ entry = NoEntry /\ pTail = 0 /\ room = 0
    /\ cPc = "idle" /\ out = NoEntry /\ cHead = 0 /\ promise = 0
    /\ accepted = <<>> /\ popped = <<>>

-----------------------------------------------------------------------------
(* push(e): load tail_, give up when full, write the slot, publish head_. *)

\* Mutant: fills the spare slot too, so that full looks like empty.
IsFullNoSpareSlot(t) == head = t /\ accepted # popped

IsFull(t) == (head + 1) % N = t

PushFull(e) ==
    /\ pPc = "idle" /\ Len(accepted) < MaxPushes
    /\ \E t \in Visible(pTail, tail) : IsFull(t) /\ pTail' = t
    /\ entry' = e
    /\ UNCHANGED <<head, tail, buf, pPc, room, cvars, accepted, popped>>

\* Mutant: the full test is forgotten.
PushCheckOverwrite(e) ==
    /\ pPc = "idle" /\ Len(accepted) < MaxPushes
    /\ \E t \in Visible(pTail, tail) : pTail' = t
    /\ entry' = e
    /\ pPc' = "write"
    /\ UNCHANGED <<head, tail, buf, room, cvars, accepted, popped>>

PushCheck(e) ==
    /\ pPc = "idle" /\ Len(accepted) < MaxPushes
    /\ \E t \in Visible(pTail, tail) : ~IsFull(t) /\ pTail' = t
    /\ entry' = e
    /\ pPc' = "write"
    /\ UNCHANGED <<head, tail, buf, room, cvars, accepted, popped>>

\* Mutant: writes the slot after the one push() will publish.
PushWriteNextSlot ==
    /\ pPc = "write"
    /\ buf' = [buf EXCEPT ![(head + 1) % N] = entry]
    /\ pPc' = "publish"
    /\ UNCHANGED <<head, tail, entry, pTail, room, cvars, accepted, popped>>

PushWrite ==
    /\ pPc = "write"
    /\ buf' = [buf EXCEPT ![head] = entry]
    /\ pPc' = "publish"
    /\ UNCHANGED <<head, tail, entry, pTail, room, cvars, accepted, popped>>

\* Mutant: head_ advances without the mask.
PushPublishUnmasked ==
    /\ pPc = "publish"
    /\ head' = head + 1
    /\ pPc' = "idle"
    /\ room' = IF room > 0 THEN room - 1 ELSE 0
    /\ accepted' = Append(accepted, entry)
    /\ UNCHANGED <<tail, buf, entry, pTail, cvars, popped>>

PushPublish ==
    /\ pPc = "publish"
    /\ head' = (head + 1) % N
    /\ pPc' = "idle"
    /\ room' = IF room > 0 THEN room - 1 ELSE 0
    /\ accepted' = Append(accepted, entry)
    /\ UNCHANGED <<tail, buf, entry, pTail, cvars, popped>>

\* pop(): load head_, give up when empty, read the slot, release it.
PopEmpty ==
    /\ cPc = "idle"
    /\ tail \in Visible(cHead, head)
    /\ cHead' = tail
    /\ UNCHANGED <<head, tail, buf, pvars, cPc, out, promise, accepted, popped>>

PopCheck ==
    /\ cPc = "idle"
    /\ \E h \in Visible(cHead, head) : h # tail /\ cHead' = h
    /\ cPc' = "read"
    /\ UNCHANGED <<head, tail, buf, pvars, out, promise, accepted, popped>>

PopRead ==
    /\ cPc = "read"
    /\ out' = buf[tail]
    /\ cPc' = "release"
    /\ UNCHANGED <<head, tail, buf, pvars, cHead, promise, accepted, popped>>

PopRelease ==
    /\ cPc = "release"
    /\ tail' = (tail + 1) % N
    /\ cPc' = "idle"
    /\ promise' = IF promise > 0 THEN promise - 1 ELSE 0
    /\ popped' = Append(popped, out)
    /\ UNCHANGED <<head, buf, pvars, out, cHead, accepted>>

\* Mutant: counts the spare slot as room.
ProducerSizeAllSlots ==
    /\ pPc = "idle"
    /\ \E t \in Visible(pTail, tail) :
          pTail' = t /\ room' = N - Dist(t, head)
    /\ UNCHANGED <<head, tail, buf, pPc, entry, cvars, accepted, popped>>

\* size() called between two pushes: what is not in use is room to push into.
ProducerSize ==
    /\ pPc = "idle"
    /\ \E t \in Visible(pTail, tail) :
          pTail' = t /\ room' = Capacity - Dist(t, head)
    /\ UNCHANGED <<head, tail, buf, pPc, entry, cvars, accepted, popped>>

\* size() called between two pops: what it counts is there to be popped.
ConsumerSize ==
    /\ cPc = "idle"
    /\ \E h \in Visible(cHead, head) :
          cHead' = h /\ promise' = Dist(tail, h)
    /\ UNCHANGED <<head, tail, buf, pvars, cPc, out, accepted, popped>>

Producer == ProducerSize \/ PushWrite \/ PushPublish
            \/ \E e \in Entries : PushFull(e) \/ PushCheck(e)
Consumer == ConsumerSize \/ PopEmpty \/ PopCheck \/ PopRead \/ PopRelease

Next == Producer \/ Consumer

\* A push() or pop() once begun runs to its end; the consumer keeps polling;
\* a store becomes visible to a thread that keeps loading.
SeesLatest == PopCheck /\ cHead' = head
Fairness == /\ WF_vars(PushWrite) /\ WF_vars(PushPublish)
            /\ WF_vars(SeesLatest) /\ WF_vars(PopRead) /\ WF_vars(PopRelease)

Spec == Init /\ [][Next]_vars
FairSpec == Spec /\ Fairness

-----------------------------------------------------------------------------
(* Properties *)

\* Every variable holds a value of its kind; both indices stay inside buf_.
TypeOK ==
    /\ head \in Slots /\ tail \in Slots /\ pTail \in Slots /\ cHead \in Slots
    /\ buf \in [Slots -> Entries \cup {NoEntry}]
    /\ pPc \in {"idle", "write", "publish"}
    /\ cPc \in {"idle", "read", "release"}
    /\ entry \in Entries \cup {NoEntry} /\ out \in Entries \cup {NoEntry}
    /\ room \in 0..Capacity /\ promise \in 0..Capacity
    /\ accepted \in Seq(Entries) /\ popped \in Seq(Entries \cup {NoEntry})

\* push() never writes the slot a pop() in progress still reads: the two
\* unsynchronised accesses to buf_ in push() and pop() are never to one slot.
NoDataRace == pPc = "write" /\ cPc # "idle" => head # tail

\* pop() delivers exactly what push() accepted, in order, nothing lost,
\* repeated or torn, even though both threads may act on stale indices.
FifoDelivery ==
    /\ Len(popped) <= Len(accepted)
    /\ \A i \in 1..Len(popped) : popped[i] = accepted[i]

\* What size() told a thread stays good until the thread uses it up: the
\* consumer finds at least that many entries, the producer at least that room,
\* whatever the other thread does in between.
SizeIsSafe ==
    /\ promise <= Dist(tail, head)
    /\ room <= Capacity - Dist(tail, head)

\* The ring, read through its two published indices, is a bounded FIFO.
Contents == [i \in 1..Dist(tail, head) |-> buf[(tail + i - 1) % N]]
Fifo == INSTANCE BoundedFifo WITH queue <- Contents, taken <- popped
RefinesFifo == Fifo!FSpec

\* Every accepted entry is popped, as long as the consumer keeps polling.
AcceptedIsDelivered ==
    \A k \in 1..MaxPushes : Len(accepted) >= k ~> Len(popped) >= k
=============================================================================
