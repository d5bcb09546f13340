---------------------------- MODULE SignalFilter ----------------------------
(***************************************************************************)
(* The per-signal filters on the way from a vsomeip thread to Dart         *)
(* (src/signal_filter.cpp and dispatch_message in src/vsomeip_bridge.cpp). *)
(*                                                                         *)
(* The registry is global: several subscribers' threads run their events   *)
(* through it while the application sets and clears filters.  has_filter   *)
(* and apply take its lock separately.                                     *)
(*                                                                         *)
(* A payload is the tuple of its 4-byte words, and an offset the index of  *)
(* its word.  EMA and low-pass compute y = a*x + (1-a)*y_prev for an a in  *)
(* (0, 1]: any value between the two stands for what they return.          *)
(***************************************************************************)
EXTENDS Integers, Sequences, SequencesExt, FiniteSetsExt

CONSTANTS
    Threads,     \* vsomeip threads that dispatch events
    Keys,        \* (service, instance, event)
    Words,       \* payload lengths in words
    Offsets,     \* offsets the application configures
    Values,      \* what a float32 holds
    Params,      \* param of a median filter
    MaxWindow,   \* the largest window create_filter takes: 1024
    None,        \* no payload at hand
    MaxSamples   \* bound: samples the filters of an event hold the history of

ASSUME SizesAssumption == Words \subseteq Nat /\ Offsets \subseteq Nat \ {0}
ASSUME ValuesAssumption == Values \subseteq Nat \ {0} /\ None \notin Values
ASSUME ParamsAssumption == Params \subseteq Int /\ MaxWindow \in Nat \ {0}
ASSUME MaxSamplesAssumption == MaxSamples \in Nat

VARIABLES
    entries,  \* [Keys -> sequence of filter entries, ascending offsets]; none is <<>>
    pc,       \* [Threads -> "idle", "copied", "ready"]
    key,      \* [Threads -> key of the event at hand]
    payload,  \* [Threads -> its words]
    fed,      \* history: [Keys -> [Offsets -> samples since the filter was set]]
    last      \* history: [Keys -> [Offsets -> what the filter returned last]]

events == <<pc, key, payload>>
vars == <<entries, events, fed, last>>

Init ==
    /\ entries = [k \in Keys |-> <<>>]
    /\ pc = [t \in Threads |-> "idle"] /\ key = [t \in Threads |-> None]
    /\ payload = [t \in Threads |-> None]
    /\ fed = [k \in Keys |-> [o \in Offsets |-> <<>>]]
    /\ last = [k \in Keys |-> [o \in Offsets |-> None]]

-----------------------------------------------------------------------------
(* The filters. *)

\* create_filter clamps the window: anything out of range is a window of one.
Window(param) == IF param >= 1 /\ param <= MaxWindow THEN param ELSE 1

Passthrough == [type |-> "passthrough"]
Smoother == [type |-> "smoother", initialized |-> FALSE, y |-> 0]
Median(param) ==
    [type |-> "median", window |-> [i \in 1..Window(param) |-> 0], next |-> 0, full |-> FALSE]

Filters == {Passthrough, Smoother} \cup {Median(p) : p \in Params}

\* scratch_[valid / 2] of the sorted samples, the upper of the two middle ones: at most
\* so many are smaller, and more are no larger.
UpperMedian(s) ==
    CHOOSE m \in ToSet(s) : /\ Cardinality({i \in DOMAIN s : s[i] < m}) <= Len(s) \div 2
                            /\ Cardinality({i \in DOMAIN s : s[i] <= m}) > Len(s) \div 2

\* Mutant: the whole window counts from the start.
ValidAll(f) == Len(f.window)

\* Samples in the window, once the newest is written.
Valid(f) == IF f.full THEN Len(f.window) ELSE f.next

\* The newest sample replaces the oldest.
Push(f, x) == [f EXCEPT !.window[f.next + 1] = x,
                        !.next = (@ + 1) % Len(f.window),
                        !.full = @ \/ (f.next + 1) % Len(f.window) = 0]

\* What a smoother may return.
Smoothed(f, x) == IF f.initialized THEN Min({f.y, x})..Max({f.y, x}) ELSE {x}

\* filter->apply(x): the filters and outputs it may end with.
Apply(f, x) ==
    CASE f.type = "passthrough" -> {[filter |-> f, out |-> x]}
      [] f.type = "smoother" ->
            {[filter |-> [f EXCEPT !.initialized = TRUE, !.y = y], out |-> y] : y \in Smoothed(f, x)}
      [] f.type = "median" ->
            LET g == Push(f, x)
            IN  {[filter |-> g, out |-> UpperMedian(SubSeq(g.window, 1, Valid(g)))]}

-----------------------------------------------------------------------------
(* FilterRegistry: the calls of the application. *)

Entry(o, f) == [offset |-> o, filter |-> f]

\* The first entry whose offset is not smaller, or the end.
lower_bound(s, o) == Min({i \in 1..(Len(s) + 1) : i = Len(s) + 1 \/ s[i].offset >= o})

\* Mutant: set_filter appends.
WithFilterAppended(s, o, f) ==
    IF \E i \in DOMAIN s : s[i].offset = o
    THEN [i \in DOMAIN s |-> IF s[i].offset = o THEN Entry(o, f) ELSE s[i]]
    ELSE Append(s, Entry(o, f))

\* Replace the entry of the offset, or insert one in front of the next larger one.
WithFilter(s, o, f) ==
    IF \E i \in DOMAIN s : s[i].offset = o
    THEN [i \in DOMAIN s |-> IF s[i].offset = o THEN Entry(o, f) ELSE s[i]]
    ELSE InsertAt(s, lower_bound(s, o), Entry(o, f))

\* remove_if: the entries at other offsets, in their order.
WithoutOffset(s, o) ==
    LET others == {i \in DOMAIN s : s[i].offset # o}
        kept == CHOOSE f \in [1..Cardinality(others) -> others] :
                    \A i, j \in DOMAIN f : i < j => f[i] < f[j]
    IN  [i \in DOMAIN kept |-> s[kept[i]]]

\* Mutant: a filter of the same type is kept.
SetFilterKeepsState(k, o, f) ==
    /\ entries' = IF \E i \in DOMAIN entries[k] :
                        /\ entries[k][i].offset = o /\ entries[k][i].filter.type = f.type
                  THEN entries ELSE [entries EXCEPT ![k] = WithFilter(@, o, f)]
    /\ fed' = [fed EXCEPT ![k][o] = <<>>] /\ last' = [last EXCEPT ![k][o] = None]
    /\ UNCHANGED events

\* set_filter: a fresh filter, whatever was there.
SetFilter(k, o, f) ==
    /\ entries' = [entries EXCEPT ![k] = WithFilter(@, o, f)]
    /\ fed' = [fed EXCEPT ![k][o] = <<>>] /\ last' = [last EXCEPT ![k][o] = None]
    /\ UNCHANGED events

\* clear_filter: all filters of the event.
ClearFilter(k) ==
    /\ entries[k] # <<>>
    /\ entries' = [entries EXCEPT ![k] = <<>>]
    /\ fed' = [fed EXCEPT ![k] = [o \in Offsets |-> <<>>]]
    /\ last' = [last EXCEPT ![k] = [o \in Offsets |-> None]]
    /\ UNCHANGED events

\* clear_filter_at: the one at an offset.
ClearFilterAt(k, o) ==
    /\ \E i \in DOMAIN entries[k] : entries[k][i].offset = o
    /\ entries' = [entries EXCEPT ![k] = WithoutOffset(@, o)]
    /\ fed' = [fed EXCEPT ![k][o] = <<>>] /\ last' = [last EXCEPT ![k][o] = None]
    /\ UNCHANGED events

-----------------------------------------------------------------------------
(* dispatch_message. *)

\* An event arrives; has_filter says whether its payload, if any, is copied.
Arrive(t, k, words) ==
    /\ pc[t] = "idle"
    /\ pc' = [pc EXCEPT ![t] = IF words # <<>> /\ entries[k] # <<>> THEN "copied" ELSE "ready"]
    /\ key' = [key EXCEPT ![t] = k]
    /\ payload' = [payload EXCEPT ![t] = words]
    /\ UNCHANGED <<entries, fed, last>>

\* Entries the payload is long enough for; the others are skipped.
InRange(s, words) == {i \in DOMAIN s : s[i].offset <= Len(words)}

\* apply, under the lock: every filter of the event, if there still is any.
ApplyFilters(t) ==
    /\ pc[t] = "copied"
    /\ pc' = [pc EXCEPT ![t] = "ready"]
    /\ LET k == key[t]
           s == entries[k]
           used == InRange(s, payload[t])
       IN  /\ MapThenSumSet(LAMBDA o : Len(fed[k][o]), Offsets) + Cardinality(used) <= MaxSamples
           /\ \E r \in [used -> UNION {Apply(s[i].filter, payload[t][s[i].offset]) : i \in used}] :
                /\ \A i \in used : r[i] \in Apply(s[i].filter, payload[t][s[i].offset])
                /\ entries' = [entries EXCEPT ![k] =
                      [i \in DOMAIN s |-> IF i \in used THEN Entry(s[i].offset, r[i].filter) ELSE s[i]]]
                /\ payload' = [payload EXCEPT ![t] = [w \in DOMAIN @ |->
                      IF \E i \in used : s[i].offset = w
                      THEN r[CHOOSE i \in used : s[i].offset = w].out ELSE @[w]]]
                /\ fed' = [fed EXCEPT ![k] = [o \in Offsets |->
                      IF \E i \in used : s[i].offset = o THEN Append(@[o], payload[t][o]) ELSE @[o]]]
                /\ last' = [last EXCEPT ![k] = [o \in Offsets |->
                      IF \E i \in used : s[i].offset = o
                      THEN r[CHOOSE i \in used : s[i].offset = o].out ELSE @[o]]]
    /\ UNCHANGED key

\* on_message posts the payload.
PostMessage(t) ==
    /\ pc[t] = "ready"
    /\ pc' = [pc EXCEPT ![t] = "idle"]
    /\ key' = [key EXCEPT ![t] = None] /\ payload' = [payload EXCEPT ![t] = None]
    /\ UNCHANGED <<entries, fed, last>>

Payloads == UNION {[1..n -> Values] : n \in Words}

Next ==
    \/ \E k \in Keys, o \in Offsets : ClearFilterAt(k, o) \/ \E f \in Filters : SetFilter(k, o, f)
    \/ \E k \in Keys : ClearFilter(k)
    \/ \E t \in Threads : \/ ApplyFilters(t) \/ PostMessage(t)
                          \/ \E k \in Keys, words \in Payloads : Arrive(t, k, words)

Spec == Init /\ [][Next]_vars

-----------------------------------------------------------------------------
(* Properties *)

\* Every variable holds a value of its kind; a median's index is inside its window.
TypeOK ==
    /\ pc \in [Threads -> {"idle", "copied", "ready"}]
    /\ key \in [Threads -> Keys \cup {None}]
    /\ \A t \in Threads : payload[t] # None =>
          \E n \in Words : payload[t] \in [1..n -> Nat]
    /\ \A k \in Keys : \A i \in DOMAIN entries[k] :
          LET e == entries[k][i] IN
          /\ e.offset \in Offsets
          /\ e.filter.type = "median" => e.filter.next \in 0..(Len(e.filter.window) - 1)

\* "one per offset, sorted by offset": no signal is filtered twice, in whatever
\* order filters are set, replaced and cleared.
OneFilterPerOffset ==
    \A k \in Keys : \A i, j \in DOMAIN entries[k] :
        i < j => entries[k][i].offset < entries[k][j].offset

\* A median filter returns the median of the last samples since it was set, as
\* many as its window holds, whichever threads fed them and however short other
\* payloads of the event were.
MedianOfLastSamples ==
    \A k \in Keys : \A i \in DOMAIN entries[k] :
        LET e == entries[k][i]
            samples == fed[k][e.offset]
        IN  e.filter.type = "median" /\ samples # <<>> =>
              last[k][e.offset] = UpperMedian(
                  SubSeq(samples, Max({1, Len(samples) - Len(e.filter.window) + 1}), Len(samples)))

\* A smoothed value lies between the smallest and the largest sample since the
\* filter was set: nothing of an earlier filter, or of the initial zero, shows.
SmoothedWithinSamples ==
    \A k \in Keys : \A i \in DOMAIN entries[k] :
        LET o == entries[k][i].offset
            samples == ToSet(fed[k][o])
        IN  entries[k][i].filter.type = "smoother" /\ samples # {} =>
              last[k][o] \in Min(samples)..Max(samples)
=============================================================================
