--------------------------- MODULE DispatchProofs ---------------------------
(***************************************************************************)
(* Proofs about what dispatch_message does with a message on its way to    *)
(* Dart.  The payload of an event goes through the filters the             *)
(* application has set (SignalFilter): for any threads, keys, offsets,     *)
(* samples and windows there is one filter per signal, a median filter     *)
(* returns the median of the last samples and a smoother stays between     *)
(* them.  A request is packed into a requestId (Requests): for any clients *)
(* and any width of an id, a response is addressed to a client, and        *)
(* carries the session, of a message that client sent.                     *)
(***************************************************************************)
EXTENDS SignalFilter, Requests, FiniteSetTheorems, SequenceTheorems, WellFoundedInduction, TLAPS

-----------------------------------------------------------------------------
(* Smallest elements. *)

\* A set of numbers has a least element; this stands in for induction over the data below.
LEMMA Least ==
    ASSUME NEW S \in SUBSET Nat, S # {}
    PROVE  \E m \in S : \A n \in S : m <= n
  <1> DEFINE R == OpToRel(<, Nat)
  <1>1. IsWellFoundedOn(R, Nat)
    BY NatLessThanWellFounded
  <1> HIDE DEF R
  <1>2. PICK m \in S : \A n \in S : ~(<<n, m>> \in R)
    BY <1>1, WFMin
  <1>3. \A n \in S : ~(n < m)
    BY <1>2 DEF OpToRel, R
  <1> QED BY <1>3

\* Min and Max of a set that has them.
LEMMA MinIs ==
    ASSUME NEW S \in SUBSET Int, NEW m \in S, \A n \in S : m <= n
    PROVE  Min(S) = m
  <1>1. \E x \in S : \A n \in S : x <= n
    OBVIOUS
  <1>2. Min(S) \in S /\ \A n \in S : Min(S) <= n
    BY <1>1, Zenon DEF Min
  <1> DEFINE c == Min(S)
  <1>3. c \in S /\ c <= m
    BY <1>2
  <1> HIDE DEF c
  <1>4. c \in Int /\ m \in Int /\ m <= c
    BY <1>3
  <1>5. c = m
    BY <1>3, <1>4
  <1> QED BY <1>5 DEF c

LEMMA MaxIs ==
    ASSUME NEW S \in SUBSET Int, NEW m \in S, \A n \in S : m >= n
    PROVE  Max(S) = m
  <1>1. \E x \in S : \A n \in S : x >= n
    OBVIOUS
  <1>2. Max(S) \in S /\ \A n \in S : Max(S) >= n
    BY <1>1, Zenon DEF Max
  <1> DEFINE c == Max(S)
  <1>3. c \in S /\ c >= m
    BY <1>2
  <1> HIDE DEF c
  <1>4. c \in Int /\ m \in Int /\ m >= c
    BY <1>3
  <1>5. c = m
    BY <1>3, <1>4
  <1> QED BY <1>5 DEF c

-----------------------------------------------------------------------------
(* Entries by offset. *)

\* Each offset once, in ascending order.
Sorted(s) == \A i, j \in DOMAIN s : i < j => s[i].offset < s[j].offset

\* What an entry of a list is made of.
LEMMA EntryAt ==
    ASSUME NEW O, NEW S, NEW s \in Seq([offset : O, filter : S])
    PROVE  /\ DOMAIN s = 1..Len(s) /\ Len(s) \in Nat
           /\ \A i \in DOMAIN s : /\ s[i] \in [offset : O, filter : S]
                                  /\ s[i].offset \in O /\ s[i].filter \in S
  <1> DEFINE E == [offset : O, filter : S]
  <1>1. s \in Seq(E)
    OBVIOUS
  <1> HIDE DEF E
  <1>2. DOMAIN s = 1..Len(s) /\ Len(s) \in Nat /\ \A i \in 1..Len(s) : s[i] \in E
    BY <1>1, LenProperties, ElementOfSeq
  <1> QED BY <1>2 DEF E

\* In any list lower_bound finds the place in front of the first offset not smaller.
LEMMA LowerBound ==
    ASSUME NEW s, Len(s) \in Nat, DOMAIN s = 1..Len(s),
           \A i \in DOMAIN s : s[i].offset \in Nat, NEW o \in Nat
    PROVE  /\ lower_bound(s, o) \in 1..(Len(s) + 1)
           /\ \A i \in DOMAIN s : i < lower_bound(s, o) => s[i].offset < o
           /\ lower_bound(s, o) # Len(s) + 1 => s[lower_bound(s, o)].offset >= o
  <1> DEFINE P == {i \in 1..(Len(s) + 1) : i = Len(s) + 1 \/ s[i].offset >= o}
  <1>1. Len(s) + 1 \in P /\ P \subseteq Nat /\ P \subseteq Int
    OBVIOUS
  <1>2. PICK m \in P : \A n \in P : m <= n
    BY <1>1, Least
  <1>3. lower_bound(s, o) = m
    BY <1>1, <1>2, MinIs DEF lower_bound
  <1>4. ASSUME NEW i \in DOMAIN s, i < m PROVE s[i].offset < o
    <2>1. i \notin P
      BY <1>2, <1>4
    <2>2. s[i].offset \in Nat /\ i \in 1..(Len(s) + 1)
      OBVIOUS
    <2> QED BY <2>1, <2>2
  <1>5. m \in 1..(Len(s) + 1) /\ (m # Len(s) + 1 => s[m].offset >= o)
    BY <1>2
  <1> QED BY <1>3, <1>4, <1>5

\* t is s with e in place p.
Spliced(t, s, p, e) ==
    /\ Len(t) = Len(s) + 1
    /\ \A i \in 1..(Len(s) + 1) : t[i] = IF i < p THEN s[i] ELSE IF i = p THEN e ELSE s[i - 1]

\* InsertAt puts the entry there and moves nothing else.
LEMMA Inserted ==
    ASSUME NEW S, NEW s \in Seq(S), NEW e \in S, NEW p \in 1..(Len(s) + 1)
    PROVE  InsertAt(s, p, e) \in Seq(S) /\ Spliced(InsertAt(s, p, e), s, p, e)
  <1> DEFINE a == SubSeq(s, 1, p - 1)
             b == SubSeq(s, p, Len(s))
  <1>1. a \in Seq(S) /\ Len(a) = p - 1 /\ \A i \in 1..(p - 1) : a[i] = s[i]
    OBVIOUS
  <1>2. /\ b \in Seq(S) /\ Len(b) = Len(s) - p + 1
        /\ \A i \in 1..(Len(s) - p + 1) : b[i] = s[p + i - 1]
    OBVIOUS
  <1>3. InsertAt(s, p, e) = a \o <<e>> \o b
    BY DEF InsertAt
  <1> HIDE DEF a, b
  <1>4. /\ (a \o <<e>>) \in Seq(S) /\ Len(a \o <<e>>) = p
        /\ \A i \in 1..p : (a \o <<e>>)[i] = IF i < p THEN s[i] ELSE e
    BY <1>1
  <1> DEFINE c == a \o <<e>>
  <1> HIDE DEF c
  <1>5. c \in Seq(S) /\ Len(c) = p /\ \A i \in 1..p : c[i] = IF i < p THEN s[i] ELSE e
    BY <1>4 DEF c
  <1>6. InsertAt(s, p, e) = c \o b
    BY <1>3 DEF c
  <1>7. Len(c \o b) = Len(s) + 1 /\ (c \o b) \in Seq(S)
    <2>1. Len(b) = Len(s) + 1 - p /\ Len(c) = p /\ b \in Seq(S) /\ c \in Seq(S)
      BY <1>5, <1>2
    <2>2. (c \o b) \in Seq(S) /\ Len(c \o b) = Len(c) + Len(b)
      BY <2>1, ConcatProperties
    <2> QED BY <2>1, <2>2
  <1>8. p \in Int /\ Len(s) \in Nat
    OBVIOUS
  <1>9. ASSUME NEW i \in 1..(Len(s) + 1)
        PROVE  (c \o b)[i] = IF i < p THEN s[i] ELSE IF i = p THEN e ELSE s[i - 1]
    <2>1. CASE i <= p
      <3>1. (c \o b)[i] = c[i] /\ i \in 1..p
        BY <2>1, <1>5, <1>2
      <3> QED BY <3>1, <1>5
    <2>2. CASE i > p
      <3>1. (c \o b)[i] = b[i - p]
        BY <2>2, <1>5, <1>2
      <3>2. i - p \in 1..(Len(s) - p + 1) /\ p + (i - p) - 1 = i - 1
        BY <2>2
      <3> QED BY <3>1, <3>2, <1>2, <2>2
    <2>3. i <= p \/ i > p
      BY <1>8
    <2> QED BY <2>1, <2>2, <2>3
  <1> QED BY <1>6, <1>7, <1>9 DEF Spliced

\* t has the new entry, and others of s at other offsets.
Replaced(t, s, o, f) ==
    \A i \in DOMAIN t : \/ t[i] = Entry(o, f)
                        \/ t[i].offset # o /\ \E j \in DOMAIN s : t[i] = s[j]

\* set_filter keeps one filter per offset, in their order.
LEMMA WithFilterSorted ==
    ASSUME NEW S, NEW s \in Seq([offset : Offsets, filter : S]), Sorted(s),
           NEW o \in Offsets, NEW f \in S
    PROVE  /\ WithFilter(s, o, f) \in Seq([offset : Offsets, filter : S])
           /\ Sorted(WithFilter(s, o, f)) /\ Replaced(WithFilter(s, o, f), s, o, f)
  <1> DEFINE E == [offset : Offsets, filter : S]
  <1>1. /\ Offsets \subseteq Nat /\ o \in Nat /\ Entry(o, f) \in E /\ s \in Seq(E)
        /\ Entry(o, f).offset = o
    BY SizesAssumption DEF Entry
  <1>2. /\ DOMAIN s = 1..Len(s) /\ Len(s) \in Nat
        /\ \A i \in DOMAIN s : s[i].offset \in Nat
    BY <1>1, EntryAt
  <1> HIDE DEF E
  <1>3. CASE \E i \in DOMAIN s : s[i].offset = o
    <2>1. WithFilter(s, o, f) = [i \in DOMAIN s |-> IF s[i].offset = o THEN Entry(o, f) ELSE s[i]]
      BY <1>3 DEF WithFilter
    <2>2. DOMAIN WithFilter(s, o, f) = 1..Len(s) /\ DOMAIN s = 1..Len(s)
      BY <2>1
    <2>3. WithFilter(s, o, f) \in Seq(E)
      BY <2>1, <1>1
    <2>4. \A i \in 1..Len(s) : WithFilter(s, o, f)[i].offset = s[i].offset
      BY <2>1 DEF Entry
    <2>5. Sorted(WithFilter(s, o, f))
      BY <2>2, <2>4 DEF Sorted
    <2> QED BY <2>1, <2>2, <2>3, <2>5 DEF E, Replaced
  <1>4. CASE ~\E i \in DOMAIN s : s[i].offset = o
    <2> DEFINE p == lower_bound(s, o)
               t == WithFilter(s, o, f)
    <2>1. t = InsertAt(s, p, Entry(o, f))
      BY <1>4 DEF WithFilter
    <2>2. p \in 1..(Len(s) + 1) /\ (\A i \in DOMAIN s : i < p => s[i].offset < o)
          /\ (p # Len(s) + 1 => s[p].offset >= o)
      BY <1>1, <1>2, LowerBound
    <2> HIDE DEF p
    <2>3. /\ t \in Seq(E) /\ Len(t) = Len(s) + 1
          /\ \A i \in 1..(Len(s) + 1) :
                t[i] = IF i < p THEN s[i] ELSE IF i = p THEN Entry(o, f) ELSE s[i - 1]
      <3> DEFINE e == Entry(o, f)
      <3>1. e \in E /\ s \in Seq(E) /\ t = InsertAt(s, p, e)
        BY <1>1, <2>1
      <3> HIDE DEF e, t
      <3>2. InsertAt(s, p, e) \in Seq(E) /\ Spliced(InsertAt(s, p, e), s, p, e)
        BY <3>1, <2>2, Inserted
      <3> QED BY <3>1, <3>2 DEF e, Spliced
    <2> HIDE DEF t
    <2>4. \A i \in 1..Len(s) : s[i].offset \in Nat /\ s[i].offset # o
      BY <1>2, <1>4
    <2>5. \A i \in 1..Len(s) : i >= p => s[i].offset > o
      <3> SUFFICES ASSUME NEW i \in 1..Len(s), i >= p PROVE s[i].offset > o
        OBVIOUS
      <3>1. p \in 1..Len(s) /\ s[p].offset > o
        BY <2>2, <2>4, <1>1
      <3>2. i = p \/ s[p].offset < s[i].offset
        BY <3>1, <2>2 DEF Sorted
      <3>3. s[i].offset \in Nat /\ s[p].offset \in Nat /\ o \in Nat
        BY <3>1, <2>4, <1>1
      <3> QED BY <3>1, <3>2, <3>3
    <2>6. Sorted(t)
      <3> SUFFICES ASSUME NEW i \in 1..(Len(s) + 1), NEW j \in 1..(Len(s) + 1), i < j
                   PROVE  t[i].offset < t[j].offset
        BY <2>3 DEF Sorted
      <3>1. CASE j < p
        BY <3>1, <2>3, <2>2 DEF Sorted
      <3>2. CASE j = p
        BY <3>2, <2>3, <2>2 DEF Entry
      <3>3. CASE j > p /\ i < p
        <4>1. t[i] = s[i] /\ t[j] = s[j - 1] /\ i \in 1..Len(s) /\ j - 1 \in 1..Len(s)
          BY <3>3, <2>3, <2>2
        <4>2. s[i].offset < o /\ s[j - 1].offset > o
          BY <4>1, <3>3, <2>2, <2>5
        <4> QED BY <4>1, <4>2, <2>4, <1>1
      <3>4. CASE j > p /\ i = p
        <4>1. t[i].offset = o /\ t[j] = s[j - 1] /\ j - 1 \in 1..Len(s)
          BY <3>4, <2>3, <2>2 DEF Entry
        <4> QED BY <4>1, <3>4, <2>2, <2>5, <1>1, <2>4
      <3>5. CASE i > p
        <4>1. t[i] = s[i - 1] /\ t[j] = s[j - 1] /\ i - 1 \in 1..Len(s) /\ j - 1 \in 1..Len(s)
          BY <3>5, <2>3, <2>2
        <4> QED BY <4>1 DEF Sorted
      <3> QED BY <3>1, <3>2, <3>3, <3>4, <3>5, <2>2
    <2>7. \A i \in DOMAIN t : t[i] = Entry(o, f) \/ \E j \in 1..Len(s) : t[i] = s[j]
      BY <2>3, <2>2
    <2>8. \A i \in DOMAIN t : \/ t[i] = Entry(o, f)
                              \/ t[i].offset # o /\ \E j \in DOMAIN s : t[i] = s[j]
      BY <2>7, <2>4
    <2> QED BY <2>3, <2>6, <2>8 DEF t, E, Replaced
  <1> QED BY <1>3, <1>4

\* clear_filter_at leaves the others as they are.
LEMMA WithoutOffsetSorted ==
    ASSUME NEW S, NEW s \in Seq([offset : Offsets, filter : S]), Sorted(s), NEW o
    PROVE  /\ WithoutOffset(s, o) \in Seq([offset : Offsets, filter : S])
           /\ Sorted(WithoutOffset(s, o))
           /\ \A i \in DOMAIN WithoutOffset(s, o) :
                 /\ WithoutOffset(s, o)[i].offset # o
                 /\ \E j \in DOMAIN s : WithoutOffset(s, o)[i] = s[j]
  <1> DEFINE E == [offset : Offsets, filter : S]
             others == {i \in DOMAIN s : s[i].offset # o}
             n == Cardinality(others)
             Up(f) == \A i, j \in DOMAIN f : i < j => f[i] < f[j]
             kept == CHOOSE f \in [1..n -> others] : Up(f)
             t == WithoutOffset(s, o)
  <1>1. s \in Seq(E) /\ t = [i \in DOMAIN kept |-> s[kept[i]]]
    BY DEF WithoutOffset
  <1>2. /\ DOMAIN s = 1..Len(s) /\ Len(s) \in Nat
        /\ \A i \in DOMAIN s : s[i] \in E /\ s[i].offset \in Nat
    BY EntryAt, SizesAssumption
  <1> HIDE DEF E
  <1>3. IsFiniteSet(1..Len(s)) /\ Cardinality(1..Len(s)) = Len(s)
    <2>1. 1 \in Int /\ Len(s) \in Int /\ Len(s) >= 0
      BY <1>2
    <2>2. IsFiniteSet(1..Len(s))
          /\ Cardinality(1..Len(s)) = IF 1 > Len(s) THEN 0 ELSE Len(s) - 1 + 1
      BY <2>1, FS_Interval
    <2>3. (IF 1 > Len(s) THEN 0 ELSE Len(s) - 1 + 1) = Len(s)
      BY <2>1
    <2> QED BY <2>2, <2>3
  <1>4. n \in Nat /\ \E f \in [1..n -> others] : Up(f)
    <2>1. CASE \E p \in 1..Len(s) : s[p].offset = o
      <3>1. PICK p \in 1..Len(s) : s[p].offset = o
        BY <2>1
      <3>2. \A i \in 1..Len(s) : s[i].offset = o => i = p
        <4> SUFFICES ASSUME NEW i \in 1..Len(s), s[i].offset = o PROVE i = p
          OBVIOUS
        <4>1. ~(s[i].offset < s[p].offset) /\ ~(s[p].offset < s[i].offset)
          BY <3>1, <1>2
        <4>2. ~(i < p) /\ ~(p < i)
          BY <4>1, <1>2 DEF Sorted
        <4> QED BY <4>2
      <3>3. others = (1..Len(s)) \ {p}
        BY <3>1, <3>2, <1>2
      <3>4. n = Len(s) - 1
        BY <3>3, <1>3, FS_RemoveElement
      <3> DEFINE g == [i \in 1..n |-> IF i < p THEN i ELSE i + 1]
      <3> HIDE DEF others, n
      <3>5. g \in [1..n -> others]
        BY <3>3, <3>4, <1>2
      <3>6. Up(g)
        BY <3>4, <1>2
      <3>7. n \in Nat
        BY <3>4, <1>2
      <3> HIDE DEF g, Up
      <3> QED BY <3>5, <3>6, <3>7
    <2>2. CASE ~\E p \in 1..Len(s) : s[p].offset = o
      <3>1. others = 1..Len(s)
        BY <2>2, <1>2
      <3>2. n = Len(s)
        BY <3>1, <1>3
      <3> DEFINE g == [i \in 1..n |-> i]
      <3> HIDE DEF others, n
      <3>3. g \in [1..n -> others] /\ Up(g)
        BY <3>1, <3>2, <1>2
      <3> QED BY <3>2, <3>3, <1>2
    <2> QED BY <2>1, <2>2
  <1>5. kept \in [1..n -> others] /\ Up(kept)
    <2> HIDE DEF others, n, Up
    <2> QED BY <1>4, Zenon
  <1> HIDE DEF kept, n
  <1>6. \A i \in 1..n : kept[i] \in DOMAIN s /\ s[kept[i]].offset # o
    BY <1>5
  <1>7. DOMAIN t = 1..n /\ \A i \in 1..n : t[i] = s[kept[i]]
    BY <1>1, <1>5
  <1>8. t \in Seq(E)
    BY <1>1, <1>2, <1>4, <1>5, <1>6
  <1>9. Sorted(t)
    <2> SUFFICES ASSUME NEW i \in 1..n, NEW j \in 1..n, i < j PROVE t[i].offset < t[j].offset
      BY <1>7 DEF Sorted
    <2>1. kept[i] < kept[j]
      BY <1>5
    <2> QED BY <2>1, <1>6, <1>7 DEF Sorted
  <1> QED BY <1>6, <1>7, <1>8, <1>9 DEF E

-----------------------------------------------------------------------------
(* The median. *)

\* Some sample is the largest.
LEMMA Largest ==
    ASSUME NEW n \in Nat, NEW s \in [1..n -> Nat], NEW A \in SUBSET (1..n), A # {}
    PROVE  \E i \in A : \A j \in A : s[j] <= s[i]
  <1> DEFINE Upto(i) == {j \in A : s[j] <= s[i]}
             T == {n - Cardinality(Upto(i)) : i \in A}
  <1>1. IsFiniteSet(1..n) /\ Cardinality(1..n) = n
    BY FS_Interval
  <1>2. ASSUME NEW B \in SUBSET (1..n)
        PROVE  IsFiniteSet(B) /\ Cardinality(B) \in Nat /\ Cardinality(B) <= n
    <2> DEFINE N == 1..n
    <2>1. B \in SUBSET N /\ IsFiniteSet(N) /\ Cardinality(N) = n
      BY <1>1
    <2> HIDE DEF N
    <2>2. IsFiniteSet(B) /\ Cardinality(B) <= n
      BY <2>1, FS_Subset
    <2> QED BY <2>2, FS_CardinalityType
  <1>3. T \in SUBSET Nat /\ T # {}
    <2>1. \A i \in A : Upto(i) \in SUBSET (1..n)
      OBVIOUS
    <2> HIDE DEF Upto
    <2>2. \A i \in A : n - Cardinality(Upto(i)) \in Nat
      BY <2>1, <1>2
    <2> QED BY <2>2
  <1>4. PICK i \in A : \A j \in A : n - Cardinality(Upto(i)) <= n - Cardinality(Upto(j))
    <2> HIDE DEF Upto
    <2>1. PICK m \in T : \A k \in T : m <= k
      BY <1>3, Least
    <2> QED BY <2>1
  <1>5. ASSUME NEW j \in A, s[i] < s[j] PROVE FALSE
    <2>1. Upto(i) \subseteq Upto(j) /\ j \in Upto(j) /\ j \notin Upto(i)
      <3>1. \A k \in A : s[k] \in Nat
        OBVIOUS
      <3>2. \A k \in A : s[k] <= s[i] => s[k] <= s[j]
        BY <3>1, <1>5
      <3>3. s[j] <= s[j] /\ ~(s[j] <= s[i])
        BY <3>1, <1>5
      <3> QED BY <3>2, <3>3
    <2>2. Upto(i) \in SUBSET (1..n) /\ Upto(j) \in SUBSET (1..n)
      OBVIOUS
    <2> DEFINE B == Upto(i)
               C == Upto(j)
    <2>3. B \in SUBSET C /\ B # C
      BY <2>1
    <2>4. IsFiniteSet(C) /\ Cardinality(C) \in Nat /\ Cardinality(B) \in Nat
      BY <2>2, <1>2
    <2>5. n - Cardinality(B) <= n - Cardinality(C)
      BY <1>4
    <2> HIDE DEF B, C
    <2>6. Cardinality(B) <= Cardinality(C) /\ Cardinality(B) # Cardinality(C)
      BY <2>3, <2>4, FS_Subset
    <2> QED BY <2>4, <2>5, <2>6
  <1> QED BY <1>5

\* So there is a median: at most half the samples are smaller, and more are no larger.
LEMMA MedianExists ==
    ASSUME NEW n \in Nat \ {0}, NEW s \in [1..n -> Nat]
    PROVE  /\ UpperMedian(s) \in ToSet(s) /\ UpperMedian(s) \in Nat
           /\ Cardinality({i \in 1..n : s[i] < UpperMedian(s)}) <= n \div 2
           /\ Cardinality({i \in 1..n : s[i] <= UpperMedian(s)}) > n \div 2
  <1> DEFINE h == n \div 2
             Below(m) == {i \in 1..n : s[i] < m}
             Upto(m) == {i \in 1..n : s[i] <= m}
             T == {m \in ToSet(s) : Cardinality(Upto(m)) > h}
  <1>1. /\ Len(s) = n /\ DOMAIN s = 1..n /\ h \in Nat /\ h < n
        /\ ToSet(s) = {s[i] : i \in 1..n} /\ ToSet(s) \subseteq Nat
    BY DEF ToSet
  <1>2. IsFiniteSet(1..n) /\ Cardinality(1..n) = n
    BY FS_Interval
  <1>3. T # {}
    <2>1. PICK i \in 1..n : \A j \in 1..n : s[j] <= s[i]
      <3> DEFINE A == 1..n
      <3>1. A \subseteq 1..n /\ 1 \in A
        OBVIOUS
      <3> HIDE DEF A
      <3>2. \E i \in A : \A j \in A : s[j] <= s[i]
        BY <3>1, Largest
      <3> QED BY <3>2 DEF A
    <2>2. Upto(s[i]) = 1..n
      BY <2>1
    <2> QED BY <2>2, <1>1, <1>2
  <1>4. PICK m \in T : \A k \in T : m <= k
    <2>1. T \in SUBSET Nat
      BY <1>1
    <2> HIDE DEF T
    <2> QED BY <2>1, <1>3, Least
  <1>5. Cardinality(Below(m)) <= h
    <2>1. ASSUME Below(m) # {} PROVE Cardinality(Below(m)) <= h
      <3>1. PICK i \in Below(m) : \A j \in Below(m) : s[j] <= s[i]
        <4>1. Below(m) \in SUBSET (1..n)
          OBVIOUS
        <4> HIDE DEF Below
        <4> QED BY <4>1, <2>1, Largest
      <3>2. m \in Nat
        BY <1>1
      <3>3. Upto(s[i]) = Below(m)
        BY <3>1, <3>2
      <3>4. s[i] \in ToSet(s) /\ s[i] < m /\ s[i] \in Nat
        BY <3>1, <1>1
      <3>5. s[i] \notin T
        BY <3>2, <3>4, <1>4
      <3>6. ~(Cardinality(Below(m)) > h)
        BY <3>3, <3>4, <3>5
      <3>7. Cardinality(Below(m)) \in Nat
        BY <1>2, FS_Subset, FS_CardinalityType
      <3> QED BY <3>6, <3>7, <1>1
    <2>2. ASSUME Below(m) = {} PROVE Cardinality(Below(m)) = 0
      BY <2>2, FS_EmptySet
    <2> HIDE DEF Below, h
    <2> QED BY <2>1, <2>2, <1>1
  <1> DEFINE Mid(x) == /\ Cardinality({i \in DOMAIN s : s[i] < x}) <= Len(s) \div 2
                       /\ Cardinality({i \in DOMAIN s : s[i] <= x}) > Len(s) \div 2
  <1>6. m \in ToSet(s) /\ Mid(m)
    BY <1>1, <1>4, <1>5
  <1>7. UpperMedian(s) = CHOOSE x \in ToSet(s) : Mid(x)
    BY DEF UpperMedian
  <1>8. UpperMedian(s) \in ToSet(s) /\ Mid(UpperMedian(s))
    <2> HIDE DEF Mid
    <2> QED BY <1>6, <1>7, Zenon
  <1> QED BY <1>1, <1>8

\* The samples of b are those of a in another order.
Reordered(n, a, b) ==
    \E p \in [1..n -> 1..n] : \E q \in [1..n -> 1..n] :
        \A i \in 1..n : p[q[i]] = i /\ q[p[i]] = i /\ b[i] = a[p[i]]

\* The median of samples does not depend on their order.
LEMMA MedianOfPermuted ==
    ASSUME NEW n \in Nat, NEW a \in [1..n -> Nat], NEW b \in [1..n -> Nat],
           Reordered(n, a, b)
    PROVE  UpperMedian(b) = UpperMedian(a)
  <1> PICK p \in [1..n -> 1..n] : \E q \in [1..n -> 1..n] :
            \A i \in 1..n : p[q[i]] = i /\ q[p[i]] = i /\ b[i] = a[p[i]]
    BY DEF Reordered
  <1> PICK q \in [1..n -> 1..n] :
            \A i \in 1..n : p[q[i]] = i /\ q[p[i]] = i /\ b[i] = a[p[i]]
    OBVIOUS
  <1>1. ToSet(a) = ToSet(b)
    <2>1. \A x \in ToSet(a) : x \in ToSet(b)
      <3> SUFFICES ASSUME NEW i \in 1..n PROVE a[i] \in ToSet(b)
        BY DEF ToSet
      <3>1. b[q[i]] = a[i] /\ q[i] \in 1..n
        OBVIOUS
      <3> QED BY <3>1 DEF ToSet
    <2>2. \A x \in ToSet(b) : x \in ToSet(a)
      BY DEF ToSet
    <2> QED BY <2>1, <2>2
  <1>2. Len(a) = n /\ Len(b) = n /\ DOMAIN a = 1..n /\ DOMAIN b = 1..n
    OBVIOUS
  <1>3. ASSUME NEW A \in SUBSET (1..n), NEW B \in SUBSET (1..n),
               \A i \in 1..n : i \in B <=> p[i] \in A
        PROVE  Cardinality(A) = Cardinality(B)
    <2> DEFINE f == [i \in B |-> p[i]]
    <2>1. f \in [B -> A]
      BY <1>3
    <2>2. \A i, j \in B : f[i] = f[j] => i = j
      <3> SUFFICES ASSUME NEW i \in B, NEW j \in B, p[i] = p[j] PROVE i = j
        OBVIOUS
      <3>1. q[p[i]] = i /\ q[p[j]] = j
        OBVIOUS
      <3> QED BY <3>1
    <2>3. \A x \in A : \E i \in B : f[i] = x
      <3> SUFFICES ASSUME NEW x \in A PROVE \E i \in B : f[i] = x
        OBVIOUS
      <3>1. q[x] \in 1..n /\ p[q[x]] = x
        OBVIOUS
      <3>2. q[x] \in B
        BY <3>1, <1>3
      <3> QED BY <3>1, <3>2
    <2> HIDE DEF f
    <2>4. f \in Bijection(B, A)
      BY <2>1, <2>2, <2>3 DEF Bijection, Injection, IsInjective, Surjection
    <2>5. IsFiniteSet(B)
      <3>1. IsFiniteSet(1..n)
        BY FS_Interval
      <3> QED BY <3>1, FS_Subset
    <2> QED BY <2>4, <2>5, FS_Bijection DEF ExistsBijection
  <1>4. ASSUME NEW m
        PROVE  /\ Cardinality({i \in DOMAIN a : a[i] < m}) = Cardinality({i \in DOMAIN b : b[i] < m})
               /\ Cardinality({i \in DOMAIN a : a[i] <= m}) = Cardinality({i \in DOMAIN b : b[i] <= m})
    <2> DEFINE A == {i \in DOMAIN a : a[i] < m}
               B == {i \in DOMAIN b : b[i] < m}
               AA == {i \in DOMAIN a : a[i] <= m}
               BB == {i \in DOMAIN b : b[i] <= m}
    <2>1. A \in SUBSET (1..n) /\ B \in SUBSET (1..n) /\ \A i \in 1..n : i \in B <=> p[i] \in A
      OBVIOUS
    <2>2. AA \in SUBSET (1..n) /\ BB \in SUBSET (1..n) /\ \A i \in 1..n : i \in BB <=> p[i] \in AA
      OBVIOUS
    <2> HIDE DEF A, B, AA, BB
    <2>3. Cardinality(A) = Cardinality(B) /\ Cardinality(AA) = Cardinality(BB)
      BY <2>1, <2>2, <1>3
    <2> QED BY <2>3 DEF A, B, AA, BB
  <1> DEFINE Mid(s, m) == /\ Cardinality({i \in DOMAIN s : s[i] < m}) <= Len(s) \div 2
                          /\ Cardinality({i \in DOMAIN s : s[i] <= m}) > Len(s) \div 2
  <1>5. \A m : Mid(a, m) <=> Mid(b, m)
    BY <1>2, <1>4
  <1>6. /\ UpperMedian(a) = (CHOOSE m \in ToSet(a) : Mid(a, m))
        /\ UpperMedian(b) = (CHOOSE m \in ToSet(b) : Mid(b, m))
    BY DEF UpperMedian
  <1> HIDE DEF Mid
  <1> QED BY <1>1, <1>5, <1>6

\* A median filter whatever it has taken.
MedianFilter ==
    UNION {[type : {"median"}, window : [1..w -> Nat], next : 0..(w - 1), full : BOOLEAN]
             : w \in 1..MaxWindow}

\* Where the d-th sample before the newest is, for the index of the next one.
Slot(next, w, d) == IF d < next THEN next - d ELSE next - d + w

\* The window holds the last samples, and only what is full counts the zeros out.
RingState(f, samples) ==
    LET w == Len(f.window)
        n == Len(samples)
    IN  /\ (f.full <=> n >= w)
        /\ n < w => f.next = n
        /\ \A d \in 0..(w - 1) : d < n => f.window[Slot(f.next, w, d)] = samples[n - d]

\* The last w samples, or all of them.
Recent(samples, w) ==
    SubSeq(samples, Max({1, Len(samples) - w + 1}), Len(samples))

\* A median filter is a ring of at least one and at most MaxWindow samples.
LEMMA MedianFilterType ==
    ASSUME NEW f \in MedianFilter
    PROVE  /\ f.type = "median" /\ f.full \in BOOLEAN
           /\ Len(f.window) \in Nat \ {0} /\ Len(f.window) <= MaxWindow
           /\ f.window \in [1..Len(f.window) -> Nat] /\ f.next \in 0..(Len(f.window) - 1)
           /\ f = [type |-> "median", window |-> f.window, next |-> f.next, full |-> f.full]
  <1>1. PICK w \in 1..MaxWindow :
           f \in [type : {"median"}, window : [1..w -> Nat], next : 0..(w - 1), full : BOOLEAN]
    BY DEF MedianFilter
  <1>2. Len(f.window) = w /\ w \in Nat \ {0} /\ w <= MaxWindow
    BY <1>1, ParamsAssumption
  <1> QED BY <1>1, <1>2

\* The write index wraps at the end of the ring.
LEMMA NextIndex ==
    ASSUME NEW w \in Nat \ {0}, NEW k \in 0..(w - 1)
    PROVE  (k + 1) % w = IF k + 1 = w THEN 0 ELSE k + 1
  <1>1. CASE k + 1 = w
    BY <1>1
  <1>2. CASE k + 1 < w
    BY <1>2
  <1> QED BY <1>1, <1>2

\* RingState by its parts.
LEMMA RingIs ==
    ASSUME NEW f, NEW samples, NEW w, NEW n, Len(f.window) = w, Len(samples) = n,
           (f.full <=> n >= w) /\ (n < w => f.next = n),
           \A d \in 0..(w - 1) : d < n => f.window[Slot(f.next, w, d)] = samples[n - d]
    PROVE  RingState(f, samples)
  BY Zenon DEF RingState

\* A sample pushed onto the ring is the newest one, and the others grow older.
LEMMA PushRing ==
    ASSUME NEW f \in MedianFilter, NEW s \in Seq(Nat), RingState(f, s), NEW x \in Nat
    PROVE  /\ Push(f, x) \in MedianFilter /\ RingState(Push(f, x), Append(s, x))
           /\ Len(Push(f, x).window) = Len(f.window)
  <1> DEFINE w == Len(f.window)
             n == Len(s)
             next == f.next
             window == [f.window EXCEPT ![next + 1] = x]
             g == Push(f, x)
             t == Append(s, x)
  <1>1. /\ w \in Nat \ {0} /\ w <= MaxWindow /\ f.window \in [1..w -> Nat]
        /\ next \in 0..(w - 1) /\ f.full \in BOOLEAN /\ n \in Nat
    BY MedianFilterType
  <1>2. (next + 1) % w = IF next + 1 = w THEN 0 ELSE next + 1
    BY <1>1, NextIndex
  <1>3. g = [type |-> "median", window |-> window, next |-> (next + 1) % w,
             full |-> f.full \/ (next + 1) % w = 0]
    <2> DEFINE win == f.window
               full == f.full
    <2>1. f = [type |-> "median", window |-> win, next |-> next, full |-> full]
      BY MedianFilterType
    <2>2. g = [f EXCEPT !.window = window, !.next = (next + 1) % w,
                        !.full = full \/ (next + 1) % w = 0]
      BY <2>1 DEF Push
    <2> HIDE DEF next, window, w, win, full, g
    <2> QED BY <2>1, <2>2
  <1>4. window \in [1..w -> Nat] /\ Len(window) = w
    BY <1>1
  <1>5. /\ g.window = window /\ g.next = (IF next + 1 = w THEN 0 ELSE next + 1)
        /\ (g.full <=> f.full \/ next + 1 = w)
    <2>1. g.window = window /\ g.next = (next + 1) % w
      BY <1>3
    <2>2. g.full = (f.full \/ (next + 1) % w = 0)
      <3>1. PICK b \in BOOLEAN : b = (f.full \/ (next + 1) % w = 0)
        OBVIOUS
      <3>2. g = [type |-> "median", window |-> window, next |-> (next + 1) % w, full |-> b]
        BY <1>3, <3>1
      <3>3. g.full = b
        BY <3>2
      <3> QED BY <3>1, <3>3
    <2>3. (next + 1) % w = 0 <=> next + 1 = w
      BY <1>1, <1>2
    <2> QED BY <2>1, <2>2, <2>3, <1>2
  <1>6. g \in MedianFilter
    <2>1. g \in [type : {"median"}, window : [1..w -> Nat], next : 0..(w - 1), full : BOOLEAN]
      BY <1>1, <1>2, <1>3, <1>4
    <2> DEFINE F(v) == [type : {"median"}, window : [1..v -> Nat],
                        next : 0..(v - 1), full : BOOLEAN]
    <2>2. g \in F(w) /\ w \in 1..MaxWindow
      BY <2>1, <1>1, ParamsAssumption
    <2>3. MedianFilter = UNION {F(v) : v \in 1..MaxWindow}
      BY DEF MedianFilter
    <2> HIDE DEF F, g, w
    <2> QED BY <2>2, <2>3
  <1>7. Len(t) = n + 1 /\ t[n + 1] = x /\ \A i \in 1..n : t[i] = s[i]
    BY <1>1
  <1>8. /\ (f.full <=> n >= w) /\ (n < w => next = n)
        /\ \A d \in 0..(w - 1) : d < n => f.window[Slot(next, w, d)] = s[n - d]
    BY DEF RingState
  <1> HIDE DEF w, n, next, g, t
  <1>9. (g.full <=> n + 1 >= w) /\ (n + 1 < w => g.next = n + 1)
    <2>1. CASE n >= w
      BY <2>1, <1>1, <1>5, <1>8
    <2>2. CASE n < w
      <3>1. ~f.full /\ next = n
        BY <2>2, <1>1, <1>8
      <3>2. (g.full <=> n + 1 = w) /\ (n + 1 # w => g.next = n + 1)
        BY <3>1, <1>5
      <3> QED BY <3>2, <2>2, <1>1
    <2> QED BY <2>1, <2>2, <1>1
  <1>10. ASSUME NEW d \in 0..(w - 1), d < n + 1
         PROVE  window[Slot(g.next, w, d)] = t[n + 1 - d]
    <2>1. CASE d = 0
      <3>1. Slot(g.next, w, d) = next + 1
        BY <2>1, <1>1, <1>5 DEF Slot
      <3> QED BY <3>1, <2>1, <1>1, <1>7
    <2>2. CASE d > 0
      <3>1. d - 1 \in 0..(w - 1) /\ d - 1 < n /\ n - (d - 1) = n + 1 - d
        BY <2>2, <1>10, <1>1
      <3>2. Slot(g.next, w, d) = Slot(next, w, d - 1)
        BY <2>2, <1>1, <1>5 DEF Slot
      <3>3. Slot(next, w, d - 1) \in 1..w /\ Slot(next, w, d - 1) # next + 1
        BY <2>2, <1>1 DEF Slot
      <3>4. window[Slot(next, w, d - 1)] = f.window[Slot(next, w, d - 1)]
        BY <3>3, <1>1
      <3>5. f.window[Slot(next, w, d - 1)] = s[n + 1 - d]
        BY <3>1, <1>8
      <3>6. n + 1 - d \in 1..n
        BY <2>2, <1>10, <1>1
      <3> QED BY <3>2, <3>4, <3>5, <3>6, <1>7
    <2> QED BY <2>1, <2>2
  <1>11. RingState(g, t)
    <2>1. Len(g.window) = w /\ Len(t) = n + 1
      BY <1>4, <1>5, <1>7
    <2>2. g.window = window
      BY <1>5
    <2> HIDE DEF window
    <2>3. \A d \in 0..(w - 1) : d < n + 1 => window[Slot(g.next, w, d)] = t[n + 1 - d]
      BY <1>10
    <2>4. \A d \in 0..(w - 1) : d < n + 1 => g.window[Slot(g.next, w, d)] = t[n + 1 - d]
      BY <2>2, <2>3, Zenon
    <2>5. PICK m \in Nat : m = n + 1
      BY <1>1
    <2>6. Len(t) = m /\ (g.full <=> m >= w) /\ (m < w => g.next = m)
      BY <2>1, <2>5, <1>9
    <2>7. ASSUME NEW d \in 0..(w - 1), d < m PROVE g.window[Slot(g.next, w, d)] = t[m - d]
      <3>1. d < n + 1 /\ m - d = n + 1 - d
        BY <1>1, <2>5, <2>7
      <3>2. g.window[Slot(g.next, w, d)] = t[n + 1 - d]
        BY <2>4, <3>1
      <3> QED BY <3>1, <3>2, Zenon
    <2> QED BY <2>1, <2>6, <2>7, RingIs
  <1> QED BY <1>4, <1>5, <1>6, <1>11 DEF g, t, w

\* A sequence as a function on its indexes.
LEMMA AsFunction ==
    ASSUME NEW s \in Seq(Nat), NEW n, Len(s) = n
    PROVE  s \in [1..n -> Nat]
  BY LenProperties

\* So the window is the recent samples in some order.
LEMMA WindowMedian ==
    ASSUME NEW f \in MedianFilter, NEW s \in Seq(Nat), RingState(f, s), s # <<>>
    PROVE  /\ UpperMedian(SubSeq(f.window, 1, Valid(f))) = UpperMedian(Recent(s, Len(f.window)))
           /\ UpperMedian(Recent(s, Len(f.window))) \in Nat
  <1> DEFINE w == Len(f.window)
             n == Len(s)
             next == f.next
             v == IF n >= w THEN w ELSE n
             a == SubSeq(f.window, 1, v)
             b == SubSeq(s, n - v + 1, n)
             p == [i \in 1..v |-> Slot(next, w, v - i)]
             q == [i \in 1..v |-> IF i <= next THEN v - (next - i) ELSE v - (next - i + w)]
  <1>1. /\ w \in Nat \ {0} /\ f.window \in [1..w -> Nat] /\ next \in 0..(w - 1)
        /\ n \in Nat \ {0} /\ s \in [1..n -> Nat]
    BY MedianFilterType
  <1>2. /\ f.full <=> n >= w
        /\ n < w => next = n
        /\ \A d \in 0..(w - 1) : d < n => f.window[Slot(next, w, d)] = s[n - d]
    BY DEF RingState
  <1>3. Valid(f) = v
    BY <1>1, <1>2 DEF Valid
  <1>4. Max({1, n - w + 1}) = n - v + 1
    <2> DEFINE S == {1, n - w + 1}
               m == n - v + 1
    <2> HIDE DEF w, n, next
    <2>1. m \in S /\ S \in SUBSET Int /\ \A k \in S : m >= k
      BY <1>1
    <2> HIDE DEF S, m
    <2>2. Max(S) = m
      BY <2>1, MaxIs
    <2> QED BY <2>2 DEF S, m
  <1>5. Recent(s, w) = b
    BY <1>4 DEF Recent
  <1>6. v \in Nat \ {0} /\ v <= w /\ v <= n /\ (v = w \/ (v = n /\ next = n /\ n < w))
    BY <1>1, <1>2
  <1> HIDE DEF w, n, next, v
  <1>7. a \in [1..v -> Nat] /\ \A i \in 1..v : a[i] = f.window[i]
    <2>1. f.window \in Seq(Nat) /\ Len(f.window) = w
      BY <1>1
    <2>2. a \in Seq(Nat) /\ Len(a) = v /\ \A i \in 1..v : a[i] = f.window[i]
      BY <2>1, <1>1, <1>6
    <2> QED BY <2>2, AsFunction
  <1>8. b \in [1..v -> Nat] /\ \A i \in 1..v : b[i] = s[n - v + i]
    <2>1. s \in Seq(Nat) /\ Len(s) = n /\ n - v + 1 \in 1..n /\ n - (n - v + 1) + 1 = v
      BY <1>1, <1>6
    <2>2. b \in Seq(Nat) /\ Len(b) = v
      BY <2>1, <1>1, <1>6
    <2>3. \A i \in 1..v : b[i] = s[n - v + i]
      BY <2>1, <1>1, <1>6
    <2> QED BY <2>2, <2>3, AsFunction
  <1> HIDE DEF a, b
  <1>9. p \in [1..v -> 1..v] /\ q \in [1..v -> 1..v]
    BY <1>1, <1>6 DEF Slot
  <1>10. ASSUME NEW i \in 1..v PROVE p[q[i]] = i /\ q[p[i]] = i
    <2>1. p[i] \in 1..v /\ p[i] = Slot(next, w, v - i)
      BY <1>9
    <2>2. q[i] \in 1..v /\ q[i] = IF i <= next THEN v - (next - i) ELSE v - (next - i + w)
      BY <1>9
    <2> DEFINE j == q[i]
               k == p[i]
    <2>3. p[j] = Slot(next, w, v - j)
      BY <2>2
    <2>4. q[k] = IF k <= next THEN v - (next - k) ELSE v - (next - k + w)
      BY <2>1
    <2> HIDE DEF p, q, j, k
    <2>5. p[j] = i
      <3>1. CASE i <= next
        BY <3>1, <2>2, <2>3, <1>1, <1>6 DEF Slot, j
      <3>2. CASE i > next
        BY <3>2, <2>2, <2>3, <1>1, <1>6 DEF Slot, j
      <3> QED BY <1>1, <3>1, <3>2
    <2>6. q[k] = i
      <3>1. CASE v - i < next
        BY <3>1, <2>1, <2>4, <1>1, <1>6 DEF Slot, k
      <3>2. CASE v - i >= next
        BY <3>2, <2>1, <2>4, <1>1, <1>6 DEF Slot, k
      <3> QED BY <1>1, <1>6, <3>1, <3>2
    <2> QED BY <2>5, <2>6 DEF j, k
  <1>11. ASSUME NEW i \in 1..v PROVE b[i] = a[p[i]]
    <2>1. v - i \in 0..(w - 1) /\ v - i < n /\ n - (v - i) = n - v + i
      BY <1>1, <1>6
    <2>2. f.window[Slot(next, w, v - i)] = s[n - v + i]
      BY <2>1, <1>2
    <2>3. p[i] = Slot(next, w, v - i) /\ p[i] \in 1..v
      BY <1>9
    <2> QED BY <2>2, <2>3, <1>7, <1>8
  <1> HIDE DEF p, q
  <1> HIDE DEF n, v, w, next
  <1>12. UpperMedian(b) = UpperMedian(a)
    <2>1. v \in Nat /\ a \in [1..v -> Nat] /\ b \in [1..v -> Nat]
      BY <1>6, <1>7, <1>8
    <2>2. Reordered(v, a, b)
      BY <1>9, <1>10, <1>11 DEF Reordered
    <2> QED BY <2>1, <2>2, MedianOfPermuted
  <1>13. UpperMedian(b) \in Nat
    BY <1>6, <1>8, MedianExists
  <1> QED BY <1>3, <1>5, <1>12, <1>13 DEF a, w

-----------------------------------------------------------------------------
(* What a filter knows of the samples since it was set. *)

\* A smoother whatever it has taken.
SmoothFilter == [type : {"smoother"}, initialized : BOOLEAN, y : Nat]

AnyFilter == {Passthrough} \cup SmoothFilter \cup MedianFilter

\* y lies between the smallest and the largest sample.
Within(s, y) ==
    \E i, j \in DOMAIN s : /\ s[i] <= y /\ y <= s[j]
                           /\ \A k \in DOMAIN s : s[i] <= s[k] /\ s[k] <= s[j]

\* The state of filter f, and its last output l, after the samples s.
Holds(f, s, l) ==
    /\ f.type = "smoother" => /\ f.initialized <=> s # <<>>
                              /\ s # <<>> => l = f.y /\ Within(s, l)
    /\ f.type = "median" => /\ RingState(f, s)
                            /\ s # <<>> => l = UpperMedian(Recent(s, Len(f.window)))

\* Samples are numbers.
LEMMA NatSamples ==
    ASSUME NEW s \in Seq(Values)
    PROVE  s \in Seq(Nat)
  <1>1. s \in [1..Len(s) -> Values] /\ Len(s) \in Nat
    BY LenProperties
  <1>2. s \in [1..Len(s) -> Nat]
    BY <1>1, ValuesAssumption
  <1> QED BY <1>1, <1>2

\* create_filter.
LEMMA FreshHolds ==
    ASSUME NEW f \in Filters, NEW l
    PROVE  f \in AnyFilter /\ Holds(f, <<>>, l)
  <1>1. CASE f = Passthrough
    BY <1>1 DEF Passthrough, AnyFilter, Holds
  <1>2. CASE f = Smoother
    BY <1>2 DEF Smoother, SmoothFilter, AnyFilter, Holds
  <1>3. ASSUME NEW p \in Params, f = Median(p) PROVE f \in AnyFilter /\ Holds(f, <<>>, l)
    <2> DEFINE w == Window(p)
    <2>1. w \in 1..MaxWindow
      BY ParamsAssumption DEF Window
    <2>2. f = [type |-> "median", window |-> [i \in 1..w |-> 0], next |-> 0, full |-> FALSE]
      BY <1>3 DEF Median
    <2> HIDE DEF w
    <2>3. f \in [type : {"median"}, window : [1..w -> Nat], next : 0..(w - 1), full : BOOLEAN]
      BY <2>1, <2>2, ParamsAssumption
    <2>4. f \in MedianFilter
      <3> DEFINE F(v) == [type : {"median"}, window : [1..v -> Nat],
                        next : 0..(v - 1), full : BOOLEAN]
      <3>1. f \in F(w) /\ MedianFilter = UNION {F(v) : v \in 1..MaxWindow}
        BY <2>3 DEF MedianFilter
      <3> HIDE DEF F
      <3> QED BY <3>1, <2>1
    <2>5. Len(f.window) = w /\ f.next = 0 /\ ~f.full /\ f.type = "median"
      BY <2>1, <2>2, ParamsAssumption
    <2>6. RingState(f, <<>>)
      <3>1. Len(<<>>) = 0 /\ w \in Nat \ {0}
        BY <2>1, ParamsAssumption
      <3> QED BY <2>5, <3>1 DEF RingState
    <2> QED BY <2>4, <2>5, <2>6 DEF AnyFilter, Holds
  <1> QED BY <1>1, <1>2, <1>3 DEF Filters

\* apply.
LEMMA ApplyHolds ==
    ASSUME NEW f \in AnyFilter, NEW s \in Seq(Values), NEW l, Holds(f, s, l),
           NEW x \in Values, NEW r \in Apply(f, x)
    PROVE  /\ r.filter \in AnyFilter /\ r.out \in Nat
           /\ Holds(r.filter, Append(s, x), r.out)
  <1> DEFINE t == Append(s, x)
             n == Len(s)
  <1>1. /\ x \in Nat /\ s \in Seq(Nat) /\ n \in Nat /\ t \in Seq(Nat)
        /\ DOMAIN s = 1..n /\ DOMAIN t = 1..(n + 1) /\ Len(t) = n + 1 /\ t # <<>>
        /\ t[n + 1] = x /\ \A i \in 1..n : t[i] = s[i] /\ s[i] \in Nat
    <2>1. Values \subseteq Nat /\ x \in Nat
      BY ValuesAssumption
    <2>2. s \in Seq(Nat)
      BY NatSamples
    <2>3. /\ t \in Seq(Nat) /\ Len(t) = n + 1 /\ n \in Nat /\ t[n + 1] = x
          /\ \A i \in 1..n : t[i] = s[i]
      BY <2>1, <2>2
    <2>4. \A i \in 1..n : s[i] \in Nat
      BY <2>2, ElementOfSeq
    <2> QED BY <2>1, <2>2, <2>3, <2>4
  <1>2. s = <<>> <=> n = 0
    BY <1>1
  <1> HIDE DEF t, n
  <1>3. CASE f = Passthrough
    <2>1. r.filter = Passthrough /\ r.out = x
      BY <1>3 DEF Apply, Passthrough
    <2> QED BY <2>1, <1>1 DEF Holds, Passthrough, AnyFilter
  <1>4. CASE f \in SmoothFilter
    <2>1. f.type = "smoother" /\ f.initialized \in BOOLEAN /\ f.y \in Nat
      BY <1>4 DEF SmoothFilter
    <2>2. PICK y \in Smoothed(f, x) : /\ r.filter = [f EXCEPT !.initialized = TRUE, !.y = y]
                                      /\ r.out = y
      <3>1. Apply(f, x) = {[filter |-> [f EXCEPT !.initialized = TRUE, !.y = y], out |-> y] :
                             y \in Smoothed(f, x)}
        BY <2>1 DEF Apply
      <3>2. PICK y \in Smoothed(f, x) :
                 r = [filter |-> [f EXCEPT !.initialized = TRUE, !.y = y], out |-> y]
        BY <3>1
      <3> QED BY <3>2
    <2>3. (f.initialized <=> s # <<>>) /\ (s # <<>> => Within(s, f.y))
      BY <2>1 DEF Holds
    <2>4. y \in Nat /\ Within(t, y)
      <3>1. CASE ~f.initialized
        <4>1. y = x /\ n = 0
          BY <3>1, <2>2, <2>3, <1>2 DEF Smoothed
        <4> QED BY <4>1, <1>1 DEF Within
      <3>2. CASE f.initialized
        <4> DEFINE lo == IF f.y <= x THEN f.y ELSE x
                   hi == IF f.y <= x THEN x ELSE f.y
                   P == {f.y, x}
        <4>1. /\ P \in SUBSET Int /\ lo \in P /\ hi \in P
              /\ \A v \in P : lo <= v /\ hi >= v
          BY <2>1, <1>1
        <4>2. Min(P) = lo /\ Max(P) = hi
          <5> HIDE DEF P, lo, hi
          <5> QED BY <4>1, MinIs, MaxIs
        <4>3. y \in lo..hi
          BY <3>2, <2>2, <4>2 DEF Smoothed
        <4>4. PICK i \in 1..n, j \in 1..n :
                 /\ s[i] <= f.y /\ f.y <= s[j]
                 /\ \A k \in 1..n : s[i] <= s[k] /\ s[k] <= s[j]
          BY <3>2, <2>3, <1>1 DEF Within
        <4>5. y \in Nat /\ lo <= y /\ y <= hi
          BY <4>3, <2>1, <1>1
        <4>6. /\ x \in Nat /\ f.y \in Nat /\ s[i] \in Nat /\ s[j] \in Nat
              /\ (f.y <= y /\ y <= x) \/ (x <= y /\ y <= f.y)
          BY <4>4, <4>5, <2>1, <1>1
        <4>7. s[i] <= f.y /\ f.y <= s[j]
          BY <4>4
        <4>8. PICK a \in 1..(n + 1) : t[a] <= y /\ \A k \in 1..(n + 1) : t[a] <= t[k]
          <5>1. CASE s[i] <= x
            <6>1. t[i] = s[i] /\ i \in 1..(n + 1)
              BY <1>1
            <6>2. t[i] <= y
              BY <6>1, <5>1, <4>5, <4>6, <4>7
            <6>3. ASSUME NEW k \in 1..(n + 1) PROVE s[i] <= t[k]
              <7>1. CASE k = n + 1
                BY <7>1, <5>1, <1>1
              <7>2. CASE k # n + 1
                <8>1. k \in 1..n /\ t[k] = s[k] /\ s[k] \in Nat /\ s[i] \in Nat /\ s[i] <= s[k]
                  BY <7>2, <4>4, <1>1
                <8> QED BY <8>1, <5>1, <1>1
              <7> QED BY <7>1, <7>2
            <6> QED BY <6>2, <6>3, <6>1
          <5>2. CASE ~(s[i] <= x)
            <6>1. x <= y
              BY <5>2, <4>5, <4>6, <4>7
            <6>2. ASSUME NEW k \in 1..(n + 1) PROVE x <= t[k]
              <7>1. CASE k = n + 1
                BY <7>1, <5>2, <1>1
              <7>2. CASE k # n + 1
                <8>1. k \in 1..n /\ t[k] = s[k] /\ s[k] \in Nat /\ s[i] \in Nat /\ s[i] <= s[k]
                  BY <7>2, <4>4, <1>1
                <8> QED BY <8>1, <5>2, <1>1
              <7> QED BY <7>1, <7>2
            <6> QED BY <6>1, <6>2, <1>1
          <5> QED BY <5>1, <5>2
        <4>9. PICK b \in 1..(n + 1) : y <= t[b] /\ \A k \in 1..(n + 1) : t[k] <= t[b]
          <5>1. CASE x <= s[j]
            <6>1. t[j] = s[j] /\ j \in 1..(n + 1)
              BY <1>1
            <6>2. y <= t[j]
              BY <6>1, <5>1, <4>5, <4>6, <4>7
            <6>3. ASSUME NEW k \in 1..(n + 1) PROVE t[k] <= s[j]
              <7>1. CASE k = n + 1
                BY <7>1, <5>1, <1>1
              <7>2. CASE k # n + 1
                <8>1. k \in 1..n /\ t[k] = s[k] /\ s[k] <= s[j]
                  BY <7>2, <4>4, <1>1
                <8> QED BY <8>1
              <7> QED BY <7>1, <7>2
            <6> QED BY <6>1, <6>3, <6>2
          <5>2. CASE ~(x <= s[j])
            <6>1. y <= x
              BY <5>2, <4>5, <4>6, <4>7
            <6>2. ASSUME NEW k \in 1..(n + 1) PROVE t[k] <= x
              <7>1. CASE k = n + 1
                BY <7>1, <1>1
              <7>2. CASE k # n + 1
                <8>1. k \in 1..n /\ t[k] = s[k] /\ s[k] \in Nat /\ s[j] \in Nat /\ s[k] <= s[j]
                  BY <7>2, <4>4, <1>1
                <8> QED BY <8>1, <5>2, <1>1
              <7> QED BY <7>1, <7>2
            <6> QED BY <6>1, <6>2, <1>1
          <5> QED BY <5>1, <5>2
        <4> QED BY <4>5, <4>8, <4>9, <1>1 DEF Within
      <3> QED BY <3>1, <3>2
    <2>5. /\ r.filter \in SmoothFilter /\ r.filter.type = "smoother"
          /\ r.filter.initialized /\ r.filter.y = y
      BY <2>2, <2>4, <1>4 DEF SmoothFilter
    <2> QED BY <2>2, <2>4, <2>5, <1>1 DEF Holds, AnyFilter, t
  <1>5. CASE f \in MedianFilter
    <2> DEFINE g == Push(f, x)
    <2>1. f.type = "median"
      BY <1>5, MedianFilterType
    <2>2. r.filter = g /\ r.out = UpperMedian(SubSeq(g.window, 1, Valid(g)))
      BY <2>1 DEF Apply
    <2>3. g \in MedianFilter /\ RingState(g, t) /\ g.type = "median"
      BY <2>1, <1>1, <1>5, PushRing, MedianFilterType DEF Holds, t
    <2> HIDE DEF g
    <2>4. r.out = UpperMedian(Recent(t, Len(g.window)))
      BY <2>2, <2>3, <1>1, WindowMedian
    <2>5. UpperMedian(Recent(t, Len(g.window))) \in Nat
      BY <2>3, <1>1, WindowMedian
    <2> QED BY <2>2, <2>3, <2>4, <2>5 DEF Holds, AnyFilter, t
  <1> QED BY <1>3, <1>4, <1>5 DEF AnyFilter

-----------------------------------------------------------------------------
(* The registry. *)

\* Words of a payload, filtered or not.
WordTuples == UNION {[1..n -> Nat] : n \in Words}

Entries == Seq([offset : Offsets, filter : AnyFilter])

\* TypeOK, with more of the filters and of the histories.
TypeInv ==
    /\ pc \in [Threads -> {"idle", "copied", "ready"}]
    /\ key \in [Threads -> Keys \cup {None}]
    /\ payload \in [Threads -> WordTuples \cup {None}]
    /\ entries \in [Keys -> Entries]
    /\ fed \in [Keys -> [Offsets -> Seq(Values)]]
    /\ DOMAIN last = Keys /\ \A k \in Keys : DOMAIN last[k] = Offsets

\* A copied payload is that of an event, as it arrived.
CopiedInv == \A t \in Threads : pc[t] = "copied" => key[t] \in Keys /\ payload[t] \in Payloads

\* Every filter in the registry is in the state its samples have brought it to.
HistoryInv ==
    \A k \in Keys : \A i \in DOMAIN entries[k] :
        LET e == entries[k][i] IN Holds(e.filter, fed[k][e.offset], last[k][e.offset])

\* Inductive: what a filter returns follows from its state, and its state from HistoryInv.
IInv == TypeInv /\ CopiedInv /\ OneFilterPerOffset /\ HistoryInv

\* OneFilterPerOffset, event by event.
LEMMA SortedEntries == OneFilterPerOffset <=> \A k \in Keys : Sorted(entries[k])
  BY DEF OneFilterPerOffset, Sorted

\* No event has a filter to begin with.
LEMMA InitIInv == Init => IInv
  <1> SUFFICES ASSUME Init PROVE IInv
    OBVIOUS
  <1>1. \A k \in Keys : entries[k] = <<>> /\ <<>> \in Entries
    BY DEF Init, Entries
  <1>2. TypeInv
    BY <1>1 DEF Init, TypeInv
  <1>3. CopiedInv
    BY DEF Init, CopiedInv
  <1>4. OneFilterPerOffset /\ HistoryInv
    BY <1>1 DEF OneFilterPerOffset, HistoryInv
  <1> QED BY <1>2, <1>3, <1>4 DEF IInv

\* What a call of the application may do to the entries of an event: those of which
\* samples are kept stay as they are, the others are fresh.
LEMMA CallIInv ==
    ASSUME IInv, NEW k \in Keys, NEW s \in Entries, Sorted(s),
           entries' = [entries EXCEPT ![k] = s],
           fed' \in [Keys -> [Offsets -> Seq(Values)]],
           DOMAIN last' = Keys, \A x \in Keys : DOMAIN last'[x] = Offsets,
           \A x \in Keys \ {k} : fed'[x] = fed[x] /\ last'[x] = last[x],
           \A i \in DOMAIN s : Holds(s[i].filter, fed'[k][s[i].offset], last'[k][s[i].offset]),
           UNCHANGED events
    PROVE  IInv'
  <1>1. TypeInv'
    BY DEF IInv, TypeInv, events
  <1>2. CopiedInv'
    BY DEF IInv, CopiedInv, events
  <1>3. /\ \A x \in Keys \ {k} : entries'[x] = entries[x]
        /\ entries'[k] = s
    BY DEF IInv, TypeInv
  <1>4. OneFilterPerOffset'
    BY <1>3 DEF IInv, OneFilterPerOffset, Sorted
  <1>5. HistoryInv'
    <2>1. ASSUME NEW x \in Keys, NEW i \in DOMAIN entries'[x]
          PROVE  Holds(entries'[x][i].filter, fed'[x][entries'[x][i].offset],
                       last'[x][entries'[x][i].offset])
      <3>1. CASE x = k
        BY <3>1, <1>3
      <3>2. CASE x # k
        <4>1. entries'[x] = entries[x] /\ fed'[x] = fed[x] /\ last'[x] = last[x]
          BY <3>2, <1>3
        <4>2. Holds(entries[x][i].filter, fed[x][entries[x][i].offset],
                    last[x][entries[x][i].offset])
          BY <4>1 DEF IInv, HistoryInv
        <4> QED BY <4>1, <4>2, Zenon
      <3> QED BY <3>1, <3>2
    <2> QED BY <2>1 DEF HistoryInv
  <1> QED BY <1>1, <1>2, <1>4, <1>5 DEF IInv

\* set_filter: the filter of the offset is fresh, the others keep their state.
LEMMA SetFilterIInv ==
    ASSUME IInv, NEW k \in Keys, NEW o \in Offsets, NEW f \in Filters, SetFilter(k, o, f)
    PROVE  IInv'
  <1> DEFINE s == WithFilter(entries[k], o, f)
  <1>1. /\ entries' = [entries EXCEPT ![k] = s]
        /\ fed' = [fed EXCEPT ![k][o] = <<>>] /\ last' = [last EXCEPT ![k][o] = None]
        /\ UNCHANGED events
    BY DEF SetFilter
  <1>2. f \in AnyFilter /\ \A l : Holds(f, <<>>, l)
    BY FreshHolds
  <1>3. entries[k] \in Entries /\ Sorted(entries[k])
    BY SortedEntries DEF IInv, TypeInv
  <1>4. s \in Entries /\ Sorted(s) /\ Replaced(s, entries[k], o, f)
    <2>1. entries[k] \in Seq([offset : Offsets, filter : AnyFilter])
      BY <1>3 DEF Entries
    <2>2. /\ s \in Seq([offset : Offsets, filter : AnyFilter])
          /\ Sorted(s) /\ Replaced(s, entries[k], o, f)
      BY <2>1, <1>2, <1>3, WithFilterSorted
    <2> QED BY <2>2 DEF Entries
  <1> HIDE DEF s
  <1>5. /\ fed' \in [Keys -> [Offsets -> Seq(Values)]]
        /\ fed'[k][o] = <<>> /\ \A x \in Offsets \ {o} : fed'[k][x] = fed[k][x]
        /\ \A x \in Keys \ {k} : fed'[x] = fed[x]
    BY <1>1 DEF IInv, TypeInv
  <1>6. /\ DOMAIN last' = Keys /\ \A x \in Keys : DOMAIN last'[x] = Offsets
        /\ \A x \in Offsets \ {o} : last'[k][x] = last[k][x]
        /\ \A x \in Keys \ {k} : last'[x] = last[x]
    BY <1>1 DEF IInv, TypeInv
  <1>7. ASSUME NEW i \in DOMAIN s
        PROVE  Holds(s[i].filter, fed'[k][s[i].offset], last'[k][s[i].offset])
    <2>1. CASE s[i] = Entry(o, f)
      BY <2>1, <1>2, <1>5 DEF Entry
    <2>2. ASSUME s[i].offset # o, NEW j \in DOMAIN entries[k], s[i] = entries[k][j]
          PROVE  Holds(s[i].filter, fed'[k][s[i].offset], last'[k][s[i].offset])
      <3>1. s[i].offset \in Offsets \ {o}
        BY <2>2, <1>3, EntryAt DEF Entries
      <3>2. Holds(s[i].filter, fed[k][s[i].offset], last[k][s[i].offset])
        BY <2>2 DEF IInv, HistoryInv
      <3> QED BY <3>1, <3>2, <1>5, <1>6
    <2> QED BY <2>1, <2>2, <1>4 DEF Replaced
  <1> QED BY <1>1, <1>4, <1>5, <1>6, <1>7, CallIInv

\* clear_filter_at: the others keep their state.
LEMMA ClearFilterAtIInv ==
    ASSUME IInv, NEW k \in Keys, NEW o \in Offsets, ClearFilterAt(k, o)
    PROVE  IInv'
  <1> DEFINE s == WithoutOffset(entries[k], o)
  <1>1. /\ entries' = [entries EXCEPT ![k] = s]
        /\ fed' = [fed EXCEPT ![k][o] = <<>>] /\ last' = [last EXCEPT ![k][o] = None]
        /\ UNCHANGED events
    BY DEF ClearFilterAt
  <1>2. entries[k] \in Entries /\ Sorted(entries[k])
    BY SortedEntries DEF IInv, TypeInv
  <1>3. /\ s \in Entries /\ Sorted(s)
        /\ \A i \in DOMAIN s : s[i].offset # o /\ \E j \in DOMAIN entries[k] : s[i] = entries[k][j]
    BY <1>2, WithoutOffsetSorted DEF Entries
  <1> HIDE DEF s
  <1>4. /\ fed' \in [Keys -> [Offsets -> Seq(Values)]]
        /\ \A x \in Offsets \ {o} : fed'[k][x] = fed[k][x]
        /\ \A x \in Keys \ {k} : fed'[x] = fed[x]
    BY <1>1 DEF IInv, TypeInv
  <1>5. /\ DOMAIN last' = Keys /\ \A x \in Keys : DOMAIN last'[x] = Offsets
        /\ \A x \in Offsets \ {o} : last'[k][x] = last[k][x]
        /\ \A x \in Keys \ {k} : last'[x] = last[x]
    BY <1>1 DEF IInv, TypeInv
  <1>6. ASSUME NEW i \in DOMAIN s
        PROVE  Holds(s[i].filter, fed'[k][s[i].offset], last'[k][s[i].offset])
    <2>1. PICK j \in DOMAIN entries[k] : s[i] = entries[k][j]
      BY <1>3
    <2>2. s[i].offset \in Offsets \ {o}
      BY <2>1, <1>2, <1>3, EntryAt DEF Entries
    <2>3. Holds(s[i].filter, fed[k][s[i].offset], last[k][s[i].offset])
      BY <2>1 DEF IInv, HistoryInv
    <2> QED BY <2>2, <2>3, <1>4, <1>5
  <1> QED BY <1>1, <1>3, <1>4, <1>5, <1>6, CallIInv

\* clear_filter: none is left.
LEMMA ClearFilterIInv ==
    ASSUME IInv, NEW k \in Keys, ClearFilter(k)
    PROVE  IInv'
  <1>1. /\ entries' = [entries EXCEPT ![k] = <<>>]
        /\ fed' = [fed EXCEPT ![k] = [o \in Offsets |-> <<>>]]
        /\ last' = [last EXCEPT ![k] = [o \in Offsets |-> None]]
        /\ UNCHANGED events
    BY DEF ClearFilter
  <1>2. <<>> \in Entries /\ Sorted(<<>>) /\ DOMAIN <<>> = {}
    BY DEF Entries, Sorted
  <1>3. /\ fed' \in [Keys -> [Offsets -> Seq(Values)]]
        /\ \A x \in Keys \ {k} : fed'[x] = fed[x]
    BY <1>1 DEF IInv, TypeInv
  <1>4. /\ DOMAIN last' = Keys /\ \A x \in Keys : DOMAIN last'[x] = Offsets
        /\ \A x \in Keys \ {k} : last'[x] = last[x]
    BY <1>1 DEF IInv, TypeInv
  <1> QED BY <1>1, <1>2, <1>3, <1>4, CallIInv

\* What arrives is a tuple of numbers.
LEMMA PayloadsType == Payloads \subseteq WordTuples
  <1> SUFFICES ASSUME NEW n \in Words, NEW words \in [1..n -> Values] PROVE words \in WordTuples
    BY DEF Payloads
  <1>1. words \in [1..n -> Nat]
    BY ValuesAssumption
  <1> QED BY <1>1 DEF WordTuples

\* A payload is copied as it arrived.
LEMMA ArriveIInv ==
    ASSUME IInv, NEW t \in Threads, NEW k \in Keys, NEW words \in Payloads, Arrive(t, k, words)
    PROVE  IInv'
  <1>1. /\ pc' = [pc EXCEPT ![t] = IF words # <<>> /\ entries[k] # <<>> THEN "copied" ELSE "ready"]
        /\ key' = [key EXCEPT ![t] = k] /\ payload' = [payload EXCEPT ![t] = words]
        /\ UNCHANGED <<entries, fed, last>>
    BY DEF Arrive
  <1>2. TypeInv'
    BY <1>1, PayloadsType DEF IInv, TypeInv
  <1>3. CopiedInv'
    BY <1>1 DEF IInv, TypeInv, CopiedInv
  <1>4. OneFilterPerOffset' /\ HistoryInv'
    BY <1>1 DEF IInv, OneFilterPerOffset, HistoryInv
  <1> QED BY <1>2, <1>3, <1>4 DEF IInv

\* Posting a payload leaves the registry alone.
LEMMA PostMessageIInv ==
    ASSUME IInv, NEW t \in Threads, PostMessage(t)
    PROVE  IInv'
  <1>1. /\ pc' = [pc EXCEPT ![t] = "idle"]
        /\ key' = [key EXCEPT ![t] = None] /\ payload' = [payload EXCEPT ![t] = None]
        /\ UNCHANGED <<entries, fed, last>>
    BY DEF PostMessage
  <1>2. TypeInv'
    BY <1>1 DEF IInv, TypeInv
  <1>3. CopiedInv'
    BY <1>1 DEF IInv, TypeInv, CopiedInv
  <1>4. OneFilterPerOffset' /\ HistoryInv'
    BY <1>1 DEF IInv, OneFilterPerOffset, HistoryInv
  <1> QED BY <1>2, <1>3, <1>4 DEF IInv

\* Each filter the payload is long enough for is fed its own word, once.
LEMMA ApplyFiltersIInv ==
    ASSUME IInv, NEW t \in Threads, ApplyFilters(t)
    PROVE  IInv'
  <1> DEFINE k == key[t]
             s == entries[k]
             words == payload[t]
             used == InRange(s, words)
  <1>1. k \in Keys /\ words \in Payloads
    BY DEF IInv, CopiedInv, ApplyFilters
  <1>2. PICK r \in [used -> UNION {Apply(s[i].filter, words[s[i].offset]) : i \in used}] :
          /\ \A i \in used : r[i] \in Apply(s[i].filter, words[s[i].offset])
          /\ entries' = [entries EXCEPT ![k] =
                [i \in DOMAIN s |-> IF i \in used THEN Entry(s[i].offset, r[i].filter) ELSE s[i]]]
          /\ payload' = [payload EXCEPT ![t] = [w \in DOMAIN words |->
                IF \E i \in used : s[i].offset = w
                THEN r[CHOOSE i \in used : s[i].offset = w].out ELSE words[w]]]
          /\ fed' = [fed EXCEPT ![k] = [o \in Offsets |->
                IF \E i \in used : s[i].offset = o THEN Append(fed[k][o], words[o]) ELSE fed[k][o]]]
          /\ last' = [last EXCEPT ![k] = [o \in Offsets |->
                IF \E i \in used : s[i].offset = o
                THEN r[CHOOSE i \in used : s[i].offset = o].out ELSE last[k][o]]]
    BY DEF ApplyFilters
  <1>3. pc' = [pc EXCEPT ![t] = "ready"] /\ UNCHANGED key
    BY DEF ApplyFilters
  <1>4. /\ s \in Seq([offset : Offsets, filter : AnyFilter]) /\ Sorted(s)
        /\ DOMAIN s = 1..Len(s) /\ Len(s) \in Nat
        /\ \A i \in DOMAIN s : s[i].offset \in Offsets /\ s[i].filter \in AnyFilter
    <2>1. s \in Seq([offset : Offsets, filter : AnyFilter]) /\ Sorted(s)
      BY <1>1, SortedEntries DEF IInv, TypeInv, Entries
    <2> QED BY <2>1, EntryAt
  <1>5. \A i \in DOMAIN s : Holds(s[i].filter, fed[k][s[i].offset], last[k][s[i].offset])
    BY <1>1 DEF IInv, HistoryInv
  <1>6. /\ used \subseteq DOMAIN s
        /\ \A i \in used : s[i].offset \in DOMAIN words /\ words[s[i].offset] \in Values
    <2>1. PICK n \in Words : words \in [1..n -> Values]
      BY <1>1 DEF Payloads
    <2>2. n \in Nat /\ Len(words) = n /\ Offsets \subseteq Nat \ {0}
      BY <2>1, SizesAssumption
    <2>3. used \subseteq DOMAIN s /\ \A i \in used : s[i].offset <= n
      BY <2>2 DEF InRange
    <2>4. ASSUME NEW i \in used PROVE s[i].offset \in 1..n
      <3> DEFINE o == s[i].offset
      <3>1. o \in Offsets /\ o <= n
        BY <2>3, <1>4
      <3>2. o \in Nat \ {0}
        BY <3>1, <2>2
      <3> HIDE DEF o
      <3>3. o \in 1..n
        BY <3>1, <3>2, <2>2
      <3> QED BY <3>3 DEF o
    <2> QED BY <2>1, <2>3, <2>4
  <1> HIDE DEF k, s, words, used
  <1>7. ASSUME NEW i \in DOMAIN s, NEW j \in DOMAIN s, s[i].offset = s[j].offset PROVE i = j
    <2>1. Offsets \subseteq Nat
      BY SizesAssumption
    <2> DEFINE o == s[i].offset
    <2>2. o \in Nat
      BY <2>1, <1>4
    <2>3. ~(o < o)
      BY <2>2
    <2>4. ~(s[i].offset < s[j].offset) /\ ~(s[j].offset < s[i].offset)
      BY <2>3, <1>7
    <2>5. ~(i < j) /\ ~(j < i)
      BY <2>4, <1>4 DEF Sorted
    <2> QED BY <2>5, <1>4
  <1>8. \A i \in used : (CHOOSE j \in used : s[j].offset = s[i].offset) = i
    BY <1>6, <1>7
  <1>9. ASSUME NEW i \in used
        PROVE  /\ r[i].filter \in AnyFilter /\ r[i].out \in Nat
               /\ fed'[k][s[i].offset] = Append(fed[k][s[i].offset], words[s[i].offset])
               /\ last'[k][s[i].offset] = r[i].out
               /\ Holds(r[i].filter, fed'[k][s[i].offset], last'[k][s[i].offset])
    <2> DEFINE o == s[i].offset
    <2>1. o \in Offsets /\ s[i].filter \in AnyFilter /\ fed[k][o] \in Seq(Values)
          /\ words[o] \in Values /\ Holds(s[i].filter, fed[k][o], last[k][o])
          /\ r[i] \in Apply(s[i].filter, words[o])
      BY <1>1, <1>2, <1>4, <1>5, <1>6 DEF IInv, TypeInv
    <2>2. /\ r[i].filter \in AnyFilter /\ r[i].out \in Nat
          /\ Holds(r[i].filter, Append(fed[k][o], words[o]), r[i].out)
      BY <2>1, ApplyHolds
    <2>3. fed'[k][o] = Append(fed[k][o], words[o])
      BY <1>1, <1>2, <2>1 DEF IInv, TypeInv
    <2>4. last'[k][o] = r[CHOOSE j \in used : s[j].offset = o].out
      BY <1>1, <1>2, <2>1 DEF IInv, TypeInv
    <2>5. last'[k][o] = r[i].out
      BY <2>4, <1>8
    <2> QED BY <2>2, <2>3, <2>5
  <1>10. ASSUME NEW i \in DOMAIN s, i \notin used
         PROVE  /\ fed'[k][s[i].offset] = fed[k][s[i].offset]
                /\ last'[k][s[i].offset] = last[k][s[i].offset]
    <2>1. ~\E j \in used : s[j].offset = s[i].offset
      BY <1>6, <1>7, <1>10
    <2> QED BY <2>1, <1>1, <1>2, <1>4 DEF IInv, TypeInv
  <1> DEFINE new == [i \in DOMAIN s |->
                       IF i \in used THEN Entry(s[i].offset, r[i].filter) ELSE s[i]]
  <1>11. /\ entries' = [entries EXCEPT ![k] = new] /\ new \in Entries
         /\ DOMAIN new = DOMAIN s
         /\ \A i \in DOMAIN s : /\ new[i].offset = s[i].offset
                                /\ new[i].filter = IF i \in used THEN r[i].filter ELSE s[i].filter
    <2>1. \A i \in DOMAIN s : new[i] \in [offset : Offsets, filter : AnyFilter]
      BY <1>4, <1>9, EntryAt DEF Entry
    <2>2. new \in Entries
      BY <2>1, <1>4 DEF Entries
    <2> QED BY <2>2, <1>2 DEF Entry
  <1> HIDE DEF new
  <1>12. /\ entries'[k] = new /\ \A x \in Keys \ {k} : entries'[x] = entries[x]
         /\ \A x \in Keys \ {k} : fed'[x] = fed[x] /\ last'[x] = last[x]
    BY <1>1, <1>2, <1>11 DEF IInv, TypeInv
  <1>13. TypeInv'
    <2>1. entries' \in [Keys -> Entries]
      BY <1>11 DEF IInv, TypeInv
    <2>2. fed' \in [Keys -> [Offsets -> Seq(Values)]]
      <3>1. \A o \in Offsets : (\E i \in used : s[i].offset = o) => words[o] \in Values
        BY <1>6
      <3> QED BY <3>1, <1>1, <1>2 DEF IInv, TypeInv
    <2>3. DOMAIN last' = Keys /\ \A x \in Keys : DOMAIN last'[x] = Offsets
      BY <1>1, <1>2 DEF IInv, TypeInv
    <2>4. payload' \in [Threads -> WordTuples \cup {None}]
      <3>1. PICK n \in Words : words \in [1..n -> Values]
        BY <1>1 DEF Payloads
      <3>2. \A w \in 1..n : (\E i \in used : s[i].offset = w) =>
                               r[CHOOSE i \in used : s[i].offset = w].out \in Nat
        BY <1>8, <1>9
      <3> DEFINE v == [w \in DOMAIN words |-> IF \E i \in used : s[i].offset = w
                         THEN r[CHOOSE i \in used : s[i].offset = w].out ELSE words[w]]
      <3>3. v \in [1..n -> Nat]
        BY <3>1, <3>2, ValuesAssumption
      <3>4. payload' = [payload EXCEPT ![t] = v]
        BY <1>2
      <3> HIDE DEF v
      <3>5. v \in WordTuples
        BY <3>3 DEF WordTuples
      <3> QED BY <3>4, <3>5 DEF IInv, TypeInv
    <2> QED BY <2>1, <2>2, <2>3, <2>4, <1>3 DEF IInv, TypeInv
  <1>14. CopiedInv'
    BY <1>2, <1>3 DEF IInv, TypeInv, CopiedInv
  <1>15. OneFilterPerOffset'
    <2>1. Sorted(new)
      BY <1>4, <1>11 DEF Sorted
    <2> QED BY <2>1, <1>12 DEF IInv, OneFilterPerOffset, Sorted
  <1>16. HistoryInv'
    <2> SUFFICES ASSUME NEW x \in Keys, NEW i \in DOMAIN entries'[x]
                 PROVE  Holds(entries'[x][i].filter, fed'[x][entries'[x][i].offset],
                              last'[x][entries'[x][i].offset])
      BY DEF HistoryInv
    <2>1. CASE x # k
      BY <2>1, <1>12 DEF IInv, HistoryInv
    <2>2. CASE x = k /\ i \in used
      BY <2>2, <1>9, <1>11, <1>12
    <2>3. CASE x = k /\ i \notin used
      BY <2>3, <1>5, <1>10, <1>11, <1>12
    <2> QED BY <2>1, <2>2, <2>3
  <1> QED BY <1>13, <1>14, <1>15, <1>16 DEF IInv

\* Every step of the application and of the threads keeps the invariant.
LEMMA NextIInv == IInv /\ [Next]_vars => IInv'
  <1> SUFFICES ASSUME IInv, [Next]_vars PROVE IInv'
    OBVIOUS
  <1>1. CASE UNCHANGED vars
    BY <1>1 DEF vars, events, IInv, TypeInv, CopiedInv, OneFilterPerOffset, HistoryInv
  <1>2. CASE Next
    BY <1>2, SetFilterIInv, ClearFilterAtIInv, ClearFilterIInv, ArriveIInv, ApplyFiltersIInv,
       PostMessageIInv DEF Next
  <1> QED BY <1>1, <1>2

\* So it always holds.
LEMMA SpecIInv == Spec => []IInv
  BY InitIInv, NextIInv, PTL DEF Spec

\* Every variable keeps its type, and no index leaves its window, for any threads,
\* events, offsets and windows.
THEOREM FilterTypeOK == Spec => []TypeOK
  <1>1. IInv => TypeOK
    <2> SUFFICES ASSUME IInv PROVE TypeOK
      OBVIOUS
    <2>1. ASSUME NEW t \in Threads, payload[t] # None
          PROVE  \E n \in Words : payload[t] \in [1..n -> Nat]
      BY <2>1 DEF IInv, TypeInv, WordTuples
    <2>2. ASSUME NEW k \in Keys, NEW i \in DOMAIN entries[k]
          PROVE  LET e == entries[k][i] IN
                 /\ e.offset \in Offsets
                 /\ e.filter.type = "median" => e.filter.next \in 0..(Len(e.filter.window) - 1)
      <3>1. entries[k] \in Seq([offset : Offsets, filter : AnyFilter])
        BY DEF IInv, TypeInv, Entries
      <3>2. entries[k][i].offset \in Offsets /\ entries[k][i].filter \in AnyFilter
        BY <3>1, EntryAt
      <3>3. ASSUME NEW f \in AnyFilter, f.type = "median" PROVE f.next \in 0..(Len(f.window) - 1)
        BY <3>3, MedianFilterType DEF AnyFilter, Passthrough, SmoothFilter
      <3> QED BY <3>2, <3>3
    <2> QED BY <2>1, <2>2 DEF IInv, TypeInv, TypeOK
  <1> QED BY <1>1, SpecIInv, PTL

\* One filter per offset, in the order of the offsets, in whatever order they are
\* set, replaced and cleared.
THEOREM FilterOnePerOffset == Spec => []OneFilterPerOffset
  <1>1. IInv => OneFilterPerOffset
    BY DEF IInv
  <1> QED BY <1>1, SpecIInv, PTL

\* A median filter of any window returns the median of the last samples, however
\* the threads that feed it and the application's calls interleave.
THEOREM FilterMedianOfLast == Spec => []MedianOfLastSamples
  <1>1. IInv => MedianOfLastSamples
    BY DEF IInv, HistoryInv, Holds, Recent, MedianOfLastSamples
  <1> QED BY <1>1, SpecIInv, PTL

\* A smoothed value lies between the smallest and the largest sample since the
\* filter was set.
THEOREM FilterSmoothedWithin == Spec => []SmoothedWithinSamples
  <1>1. ASSUME NEW s \in Seq(Nat), NEW y \in Nat, Within(s, y)
        PROVE  y \in Min(ToSet(s))..Max(ToSet(s))
    <2>1. DOMAIN s = 1..Len(s) /\ \A i \in DOMAIN s : s[i] \in Nat
      BY LenProperties, ElementOfSeq
    <2>2. PICK i \in DOMAIN s, j \in DOMAIN s :
             /\ s[i] <= y /\ y <= s[j]
             /\ \A k \in DOMAIN s : s[i] <= s[k] /\ s[k] <= s[j]
      BY <1>1 DEF Within
    <2> DEFINE S == ToSet(s)
               lo == s[i]
               hi == s[j]
    <2>3. S \in SUBSET Int /\ lo \in S /\ hi \in S /\ \A v \in S : lo <= v /\ hi >= v
      BY <2>1, <2>2 DEF ToSet
    <2>4. lo <= y /\ y <= hi /\ lo \in Int /\ hi \in Int
      BY <2>1, <2>2
    <2> HIDE DEF S, lo, hi
    <2>5. Min(S) = lo /\ Max(S) = hi
      BY <2>3, MinIs, MaxIs
    <2>6. y \in Min(S)..Max(S)
      BY <2>4, <2>5
    <2> QED BY <2>6 DEF S
  <1>2. IInv => SmoothedWithinSamples
    <2> SUFFICES ASSUME IInv, NEW k \in Keys, NEW i \in DOMAIN entries[k],
                        entries[k][i].filter.type = "smoother",
                        ToSet(fed[k][entries[k][i].offset]) # {}
                 PROVE  last[k][entries[k][i].offset] \in
                          Min(ToSet(fed[k][entries[k][i].offset]))..Max(ToSet(fed[k][entries[k][i].offset]))
      BY DEF SmoothedWithinSamples
    <2> DEFINE f == entries[k][i].filter
               o == entries[k][i].offset
               s == fed[k][o]
               l == last[k][o]
    <2>1. Holds(f, s, l) /\ f.type = "smoother"
      BY DEF IInv, HistoryInv
    <2>2. entries[k] \in Seq([offset : Offsets, filter : AnyFilter])
      BY DEF IInv, TypeInv, Entries
    <2>3. o \in Offsets /\ f \in AnyFilter
      BY <2>2, EntryAt
    <2>4. s \in Seq(Nat)
      <3>1. s \in Seq(Values)
        BY <2>3 DEF IInv, TypeInv
      <3> QED BY <3>1, NatSamples
    <2>5. s # <<>>
      BY DEF ToSet
    <2> HIDE DEF f, s, l
    <2>6. l = f.y /\ Within(s, l)
      BY <2>1, <2>5 DEF Holds
    <2>7. f.y \in Nat
      BY <2>1, <2>3, MedianFilterType DEF AnyFilter, Passthrough, SmoothFilter
    <2>8. l \in Min(ToSet(s))..Max(ToSet(s))
      BY <2>4, <2>6, <2>7, <1>1
    <2> QED BY <2>8 DEF l, s, o
  <1> QED BY <1>2, SpecIInv, PTL

-----------------------------------------------------------------------------
(* The request id. *)

USE BaseAssumption

\* What on_message packs into a requestId, vsomeip_send_response takes out of it.
LEMMA Unpacked ==
    ASSUME NEW c \in Ids, NEW s \in Ids
    PROVE  Field(RequestId(c, s), 1) = s /\ Field(RequestId(c, s), Base) = c
  <1> DEFINE id == c * Base + s
  <1>1. c \in Nat /\ s \in Nat /\ c < Base /\ s < Base /\ id \in Nat
    BY DEF Ids
  <1>2. id \div Base = c
    BY <1>1
  <1>3. id % Base = s
    BY <1>1
  <1>4. id \div 1 = id /\ c % Base = c
    BY <1>1
  <1> QED BY <1>2, <1>3, <1>4 DEF Field, RequestId

\* A client's messages, requests and one-way ones.
Sent(c) == requested[c] \cup oneWay[c]

\* The sets hold session ids of their clients.
CallTypeInv ==
    /\ session \in [Clients -> Ids]
    /\ requested \in [Clients -> SUBSET Ids] /\ oneWay \in [Clients -> SUBSET Ids]

\* Every message under way, a response or not, names a message its client sent.
NetworkInv ==
    \A m \in network : m.client \in Clients /\ m.session \in Sent(m.client)

\* So does every requestId the provider holds.
InboxInv ==
    \A id \in inbox : \E c \in Clients : \E s \in Sent(c) : id = RequestId(c, s)

\* Inductive: a requestId leads back to a message, and so does the response built from it.
CallsInv == CallTypeInv /\ NetworkInv /\ InboxInv

\* A client's id is one.
LEMMA ClientIds == Clients \subseteq Ids
  BY IdsAssumption

\* Nothing is under way to begin with.
LEMMA InitCallsInv == RequestsInit => CallsInv
  BY DEF RequestsInit, CallsInv, CallTypeInv, NetworkInv, InboxInv, Ids

\* What was sent stays sent, so messages and requestIds stay right.
LEMMA KeepCallsInv ==
    ASSUME CallsInv, CallTypeInv',
           \A c \in Clients : Sent(c) \subseteq Sent(c)',
           \A m \in network' \ network : m.client \in Clients /\ m.session \in Sent(m.client)',
           \A id \in inbox' \ inbox :
              \E c \in Clients : \E s \in Sent(c)' : id = RequestId(c, s)
    PROVE  CallsInv'
  <1>1. NetworkInv'
    BY DEF CallsInv, NetworkInv
  <1>2. InboxInv'
    BY DEF CallsInv, InboxInv
  <1> QED BY <1>1, <1>2 DEF CallsInv

\* What a client sends carries its id and its new session.
LEMMA SendsCallsInv == ASSUME CallsInv, Calls PROVE CallsInv'
  <1>1. ASSUME NEW c \in Clients, Request(c) \/ FireAndForget(c) PROVE CallsInv'
    <2> DEFINE n == NextSession(c)
    <2>1. n \in Ids
      BY DEF NextSession, Ids, CallsInv, CallTypeInv
    <2>2. PICK type : Send(c, type)
      BY <1>1 DEF Request, FireAndForget
    <2>3. /\ session' = [session EXCEPT ![c] = n] /\ inbox' = inbox
          /\ network' = network \cup {Message(type, Service, Instance, Method, c, n)}
          /\ \/ /\ requested' = [requested EXCEPT ![c] = @ \cup {n}] /\ oneWay' = oneWay
             \/ /\ oneWay' = [oneWay EXCEPT ![c] = @ \cup {n}] /\ requested' = requested
      BY <1>1, <2>2 DEF Send, Request, FireAndForget
    <2> HIDE DEF n
    <2>4. CallTypeInv'
      BY <2>1, <2>3 DEF CallsInv, CallTypeInv
    <2>5. (\A x \in Clients : Sent(x) \subseteq Sent(x)') /\ n \in Sent(c)'
      BY <2>3 DEF Sent, CallsInv, CallTypeInv
    <2>6. \A m \in network' \ network : m.client = c /\ m.session = n
      BY <2>3 DEF Message
    <2> QED BY <2>3, <2>4, <2>5, <2>6, KeepCallsInv
  <1>2. CASE \/ \E c \in Clients : \/ RegisterHandler(c) \/ SetThrottle(c)
                                 \/ RequestOversize(c)
             \/ \E kind \in {"dart", "other"} : Offer(kind)
             \/ StopOffer
    <2>1. UNCHANGED <<session, requested, oneWay, network, inbox>>
      BY <1>2 DEF RegisterHandler, SetThrottle, RequestOversize, Offer, StopOffer,
                   caller
    <2> QED BY <2>1, KeepCallsInv DEF CallsInv, CallTypeInv, Sent
  <1> QED BY <1>1, <1>2 DEF Calls

\* vsomeip and the provider hand on what a client sent.
LEMMA DeliverCallsInv == ASSUME CallsInv, Deliver PROVE CallsInv'
  <1>1. PICK m \in network : \/ NotOffered(m) \/ DartReceives(m) \/ OtherResponds(m)
                             \/ ResponseStreamed(m) \/ ResponseThrottled(m)
                             \/ ResponseDropped(m)
    BY DEF Deliver
  <1>2. UNCHANGED <<session, requested, oneWay>>
    BY <1>1 DEF NotOffered, DartReceives, OtherResponds,
                ResponseStreamed, ResponseThrottled, ResponseDropped, caller
  <1>3. CallTypeInv' /\ \A c \in Clients : Sent(c)' = Sent(c)
    BY <1>2 DEF CallsInv, CallTypeInv, Sent
  <1>4. m.client \in Clients /\ m.session \in Sent(m.client)
    BY DEF CallsInv, NetworkInv
  <1>5. \A x \in network' \ network : x.client = m.client /\ x.session = m.session
    <2>1. CASE OtherResponds(m)
      <3>1. \A x \in network' \ network : x = [m EXCEPT !.type = "response"]
        BY <2>1 DEF OtherResponds
      <3>2. ASSUME NEW x, x = [m EXCEPT !.type = "response"]
            PROVE  x.client = m.client /\ x.session = m.session
        BY <3>2
      <3> QED BY <3>1, <3>2
    <2>2. CASE ~OtherResponds(m)
      <3>1. network' \subseteq network
        BY <1>1, <2>2 DEF NotOffered, DartReceives, ResponseStreamed, ResponseThrottled, ResponseDropped
      <3> QED BY <3>1
    <2> QED BY <2>1, <2>2
  <1>6. \A id \in inbox' \ inbox : id = RequestId(m.client, m.session)
    BY <1>1 DEF NotOffered, DartReceives, OtherResponds,
                ResponseStreamed, ResponseThrottled, ResponseDropped
  <1> QED BY <1>3, <1>4, <1>5, <1>6, KeepCallsInv

\* respond() answers the requestId it is given.
LEMMA AnswerCallsInv == ASSUME CallsInv, Answer PROVE CallsInv'
  <1>1. PICK id \in inbox : Respond(id)
    BY DEF Answer
  <1>2. /\ UNCHANGED <<session, requested, oneWay, inbox>>
        /\ network' = network \cup {ResponseTo(id)}
    BY <1>1 DEF Respond, caller
  <1>3. PICK c \in Clients : \E s \in Sent(c) : id = RequestId(c, s)
    BY DEF CallsInv, InboxInv
  <1>4. PICK s \in Sent(c) : id = RequestId(c, s)
    BY <1>3
  <1>5. c \in Ids /\ s \in Ids
    BY ClientIds DEF CallsInv, CallTypeInv, Sent
  <1>6. ResponseTo(id).client = c /\ ResponseTo(id).session = s
    BY <1>4, <1>5, Unpacked DEF ResponseTo, Message
  <1>7. CallTypeInv' /\ \A x \in Clients : Sent(x)' = Sent(x)
    BY <1>2 DEF CallsInv, CallTypeInv, Sent
  <1> QED BY <1>2, <1>6, <1>7, KeepCallsInv

\* Every step keeps the three.
LEMMA NextCallsInv == CallsInv /\ [RequestsNext]_requestsVars => CallsInv'
  <1> SUFFICES ASSUME CallsInv, [RequestsNext]_requestsVars PROVE CallsInv'
    OBVIOUS
  <1>1. CASE UNCHANGED requestsVars
    BY <1>1 DEF requestsVars, caller, CallsInv, CallTypeInv, NetworkInv, InboxInv, Sent
  <1> QED BY <1>1, SendsCallsInv, DeliverCallsInv, AnswerCallsInv DEF RequestsNext

\* A response goes back to the client, and carries the session, of a message that
\* client did send, although Dart only keeps a packed requestId of it.
THEOREM RequestsAnswerTheirCaller ==
    RequestsSpec => []AnswersItsCaller
  <1>1. CallsInv => AnswersItsCaller
    BY DEF CallsInv, NetworkInv, Sent, AnswersItsCaller
  <1> QED BY <1>1, InitCallsInv, NextCallsInv, PTL DEF RequestsSpec
=============================================================================
