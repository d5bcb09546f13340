--------------------------- MODULE DeliveryProofs ---------------------------
(***************************************************************************)
(* Proofs about Delivery for any signals and throttle intervals: no event  *)
(* finds its stream missing, nothing is added to a closed stream, a signal *)
(* subscribed with a rate limit keeps it from its first event on, and no   *)
(* event is withheld once its interval has passed.                         *)
(***************************************************************************)
EXTENDS Delivery, TLAPS

Event == [kind : {"message"}, key : Keys, n : Nat]
Other == [kind : {"state", "error"}, twoBytes : BOOLEAN]
Throttle == [kind : {"throttle"}, key : Keys, interval : Intervals]
ToWorker == Event \cup Other \cup Throttle \cup [kind : {"shutdown"}]
ToApp == Event \cup Other
Moment == [time : Int, wall : Int]

TypeInv ==
    /\ TypeOK
    /\ workerPort \in Seq(ToWorker) /\ mainPort \in Seq(ToApp)
    /\ throttles \in [Keys -> [interval : Intervals \cup {0}, last : Int \cup {Never}]]
    /\ forwarded \in [Keys -> Seq(Moment)]
    /\ asked \in [Keys -> Intervals \cup {Never}]
    /\ commands \in Nat
    /\ pc \in {"subscribe", "stream"} => arg \in Keys

Elems(s) == {s[i] : i \in 1..Len(s)}

\* The stream is there, or about to be made by the call in progress.
Known(k) == streams[k] # "none" \/ (pc = "stream" /\ arg = k)

\* Events come only of signals the main isolate has, or will have before it handles
\* its next message.
KnownInv ==
    /\ \A k \in subscribed : Known(k)
    /\ \A m \in Elems(workerPort) \cup Elems(mainPort) : m.kind = "message" => Known(m.key)

\* The main port is closed before the first controller is.
CloseInv ==
    /\ mainOpen = (pc \notin {"closing", "closed"})
    /\ mainOpen => stateCtrl = "open" /\ \A k \in Keys : streams[k] # "closed"

SafeInv == KnownInv /\ CloseInv /\ NoOrphans /\ NeverAddsToClosed

\* Nothing was heard of a signal nobody has asked for; no throttle is under way
\* before the first command.
AskedInv ==
    /\ \A k \in Keys : asked[k] = Never =>
          /\ k \notin subscribed /\ forwarded[k] = <<>>
          /\ pc \in {"subscribe", "stream"} => arg # k
          /\ \A m \in Elems(workerPort) : m.kind = "message" => m.key # k
    /\ commands = 0 => /\ \A k \in Keys : asked[k] \in {0, Never}
                       /\ \A m \in Elems(workerPort) : m.kind # "throttle"

\* The command is in the port, ahead of every event of its signal ...
Pending(k) ==
    /\ forwarded[k] = <<>>
    /\ \E j \in 1..Len(workerPort) :
          /\ workerPort[j] = [kind |-> "throttle", key |-> k, interval |-> asked[k]]
          /\ \A i \in 1..Len(workerPort) : workerPort[i].kind = "throttle" => i = j
          /\ \A i \in 1..(j - 1) : workerPort[i].kind = "message" => workerPort[i].key # k

\* ... or the throttle is installed and remembers what the wall clock said when the
\* last event passed.
Installed(k) ==
    /\ throttles[k].interval = asked[k]
    /\ \A m \in Elems(workerPort) : m.kind # "throttle"
    /\ IF forwarded[k] = <<>> THEN throttles[k].last = Never
       ELSE throttles[k].last = forwarded[k][Len(forwarded[k])].wall

Limited(k) == asked[k] \notin {0, Never} /\ commands = 1

\* The second moment is i ticks after the first, less what the clock gained.
Apart(a, b, i) == b.time - a.time >= i - Gained(a, b)

RateInv ==
    /\ AskedInv
    /\ \A k \in Keys : Limited(k) /\ worker = "alive" => Pending(k) \/ Installed(k)
    /\ RateLimited

IInv == TypeInv /\ SafeInv /\ RateInv

LEMMA Bounds == MaxEvents \in Nat /\ MaxStates \in Nat /\ MaxThrottles \in Nat /\ MaxTime \in Nat
  BY BoundsAssumption

USE IntervalsAssumption, FlagsAssumption, Bounds

-----------------------------------------------------------------------------
(* Ports. *)

LEMMA AppendLemma ==
    ASSUME NEW S, NEW s \in Seq(S), NEW e \in S
    PROVE  Append(s, e) \in Seq(S) /\ Elems(Append(s, e)) = Elems(s) \cup {e}
  <1>1. /\ Append(s, e) \in Seq(S) /\ Len(s) \in Nat
        /\ Len(Append(s, e)) = Len(s) + 1
        /\ Append(s, e)[Len(s) + 1] = e
        /\ \A i \in 1..Len(s) : Append(s, e)[i] = s[i]
    OBVIOUS
  <1> QED BY <1>1 DEF Elems

LEMMA TailLemma ==
    ASSUME NEW S, NEW s \in Seq(S), s # <<>>
    PROVE  /\ Tail(s) \in Seq(S) /\ Head(s) \in S
           /\ Elems(Tail(s)) \subseteq Elems(s) /\ Head(s) \in Elems(s)
  <1>1. /\ Tail(s) \in Seq(S) /\ Head(s) \in S /\ Head(s) = s[1]
        /\ Len(s) \in Nat \ {0} /\ Len(Tail(s)) = Len(s) - 1
        /\ \A i \in 1..Len(Tail(s)) : Tail(s)[i] = s[i + 1]
    OBVIOUS
  <1> QED BY <1>1 DEF Elems

LEMMA EmptyLemma == ASSUME NEW S PROVE <<>> \in Seq(S) /\ Elems(<<>>) = {}
  BY DEF Elems

LEMMA MessageKinds ==
    /\ \A m \in ToWorker : m.kind \in {"message", "state", "error"} => m \in ToApp
    /\ \A m \in ToWorker : m.kind = "message" => m \in Event
    /\ \A m \in ToWorker : m.kind = "throttle" => m \in Throttle
    /\ \A m \in ToApp : m.kind = "message" => m \in Event
  BY DEF ToWorker, ToApp, Event, Other, Throttle

LEMMA EventLemma ==
    ASSUME TypeInv, NEW k \in Keys
    PROVE  [kind |-> "message", key |-> k, n |-> sent[k] + 1] \in ToWorker
  BY DEF ToWorker, Event, TypeInv, TypeOK

LEMMA SendToWorkerLemma ==
    ASSUME TypeInv, NEW m \in ToWorker, SendToWorker(m)
    PROVE  /\ workerPort' \in Seq(ToWorker)
           /\ Elems(workerPort') \subseteq Elems(workerPort) \cup {m}
  BY AppendLemma DEF SendToWorker, TypeInv

LEMMA SendToMainLemma ==
    ASSUME TypeInv, NEW m \in ToApp, SendToMain(m)
    PROVE  /\ mainPort' \in Seq(ToApp)
           /\ Elems(mainPort') \subseteq Elems(mainPort) \cup {m}
  BY AppendLemma DEF SendToMain, TypeInv

LEMMA WorkerLemma ==
    ASSUME TypeInv, NEW m, Worker(m)
    PROVE  /\ m \in ToWorker /\ m \in Elems(workerPort)
           /\ workerPort' \in Seq(ToWorker)
           /\ Elems(workerPort') \subseteq Elems(workerPort)
  BY TailLemma DEF Worker, TypeInv

LEMMA MainLemma ==
    ASSUME TypeInv, mainPort # <<>>, mainPort' = Tail(mainPort)
    PROVE  /\ Head(mainPort) \in ToApp /\ Head(mainPort) \in Elems(mainPort)
           /\ mainPort' \in Seq(ToApp)
           /\ Elems(mainPort') \subseteq Elems(mainPort)
  BY TailLemma DEF TypeInv

-----------------------------------------------------------------------------
(* Types. *)

LEMMA InitTypeInv == Init => TypeInv
  <1> SUFFICES ASSUME Init PROVE TypeInv
    OBVIOUS
  <1>1. workerPort \in Seq(ToWorker) /\ mainPort \in Seq(ToApp)
    BY EmptyLemma DEF Init
  <1>2. forwarded \in [Keys -> Seq(Moment)]
    BY DEF Init
  <1>3. emptyName \in BOOLEAN
    BY DEF Init
  <1>4. TypeOK
    <2>1. /\ subscribed \subseteq Keys /\ sent \in [Keys -> 0..MaxEvents]
          /\ streams \in [Keys -> {"none", "open", "closed"}]
      BY DEF Init
    <2>2. \A k \in Keys : throttles[k].interval = 0 /\ throttles[k].last = Never
      BY DEF Init
    <2>3. /\ states \in 0..MaxStates /\ errors \in 0..1 /\ time \in 0..MaxTime /\ wall \in Int
          /\ worker = "alive" /\ pc = "idle" /\ arg = Never /\ stateCtrl = "open"
      BY DEF Init
    <2>4. mainOpen \in BOOLEAN /\ threw \in BOOLEAN
      BY DEF Init
    <2> QED BY <1>3, <2>1, <2>2, <2>3, <2>4 DEF TypeOK
  <1> QED BY <1>1, <1>2, <1>4 DEF Init, TypeInv

LEMMA NativeTypeInv == ASSUME TypeInv, Native \/ Tick \/ ClockSet PROVE TypeInv'
  <1>1. CASE \E k \in Keys : Notify(k)
    <2>1. PICK k \in Keys : Notify(k)
      BY <1>1
    <2>2. [kind |-> "message", key |-> k, n |-> sent[k] + 1] \in ToWorker
      BY EventLemma
    <2> QED BY <2>1, <2>2, SendToWorkerLemma
            DEF Notify, clock, workers, calls, mains, TypeInv, TypeOK
  <1>2. CASE StateChanges \/ LoopError
    <2>1. ASSUME NEW d \in {"state", "error"}, NEW b \in BOOLEAN
          PROVE  [kind |-> d, twoBytes |-> b] \in ToWorker
      BY <2>1, Zenon DEF ToWorker, Other
    <2>2. emptyName \in BOOLEAN
      BY DEF TypeInv, TypeOK
    <2>3. workerPort' \in Seq(ToWorker)
      BY <1>2, <2>1, <2>2, SendToWorkerLemma DEF StateChanges, LoopError
    <2>4. states' \in 0..MaxStates /\ errors' \in 0..1
      BY <1>2 DEF StateChanges, LoopError, TypeInv, TypeOK
    <2>5. UNCHANGED <<emptyName, subscribed, sent, clock, workers, calls, mainPort, mains>>
      BY <1>2 DEF StateChanges, LoopError
    <2> QED BY <2>3, <2>4, <2>5 DEF clock, workers, calls, mains, TypeInv, TypeOK
  <1>3. CASE Tick
    BY <1>3 DEF Tick, native, workers, calls, mains, TypeInv, TypeOK
  <1>4. CASE ClockSet
    <2>1. wall' \in Int
      BY <1>4, BoundsAssumption DEF ClockSet, TypeInv, TypeOK
    <2> QED BY <1>4, <2>1 DEF ClockSet, native, workers, calls, mains, TypeInv, TypeOK
  <1> QED BY <1>1, <1>2, <1>3, <1>4 DEF Native

LEMMA WorkerTypeInv == ASSUME TypeInv, WorkerStep \/ Killed PROVE TypeInv'
  <1> DEFINE m == Head(workerPort)
  <1>1. CASE Forward(m)
    <2>1. m \in Event /\ m \in ToApp /\ workerPort' \in Seq(ToWorker)
      BY <1>1, WorkerLemma, MessageKinds DEF Forward
    <2>2. mainPort' \in Seq(ToApp)
      BY <1>1, <2>1, SendToMainLemma DEF Forward
    <2>3. m.key \in Keys /\ wall \in Int /\ time \in Int
      BY <2>1 DEF Event, TypeInv, TypeOK
    <2>4. throttles' \in [Keys -> [interval : Intervals \cup {0}, last : Int \cup {Never}]]
      BY <1>1, <2>3 DEF Forward, TypeInv
    <2>5. forwarded' \in [Keys -> Seq(Moment)]
      <3>1. Now \in Moment
        BY <2>3 DEF Now, Moment
      <3>2. Append(forwarded[m.key], Now) \in Seq(Moment)
        BY <2>3, <3>1, AppendLemma DEF TypeInv
      <3> QED BY <1>1, <3>2 DEF Forward, TypeInv
    <2> QED BY ZenonT(60), <1>1, <2>1, <2>2, <2>4, <2>5
            DEF Forward, native, clock, calls, mains, TypeInv, TypeOK
  <1>2. CASE Drop(m) \/ WorkerDies(m) \/ Shutdown(m)
    <2>1. workerPort' \in Seq(ToWorker)
      BY <1>2, WorkerLemma DEF Drop, WorkerDies, Shutdown
    <2>2. /\ UNCHANGED <<native, clock, throttles, forwarded, calls, mainPort, mains>>
          /\ worker' \in {"alive", "closed", "dead", "killed"}
      BY <1>2 DEF Drop, WorkerDies, Shutdown, workers, TypeInv, TypeOK
    <2> QED BY <2>1, <2>2 DEF native, clock, calls, mains, TypeInv, TypeOK
  <1>3. CASE ForwardOther(m)
    BY <1>3, WorkerLemma, MessageKinds, SendToMainLemma
       DEF ForwardOther, native, clock, workers, calls, mains, TypeInv, TypeOK
  <1>4. CASE InstallThrottle(m)
    <2>1. m \in Throttle /\ workerPort' \in Seq(ToWorker)
      BY <1>4, WorkerLemma, MessageKinds DEF InstallThrottle
    <2> QED BY <1>4, <2>1 DEF InstallThrottle, native, clock, calls, mains, TypeInv, TypeOK,
                              Throttle
  <1>5. CASE Killed
    BY <1>5, EmptyLemma DEF Killed, native, clock, calls, mains, TypeInv, TypeOK
  <1> QED BY <1>1, <1>2, <1>3, <1>4, <1>5 DEF WorkerStep

LEMMA CommandTypeInv ==
    ASSUME TypeInv, NEW k \in Keys, NEW i \in Intervals, Command(k, i)
    PROVE  /\ workerPort' \in Seq(ToWorker)
           /\ commands' \in Nat
  <1>1. [kind |-> "throttle", key |-> k, interval |-> i] \in ToWorker
    BY DEF ToWorker, Throttle
  <1> QED BY <1>1, SendToWorkerLemma DEF Command, TypeInv, TypeOK

LEMMA AppTypeInv == ASSUME TypeInv, AppCalls PROVE TypeInv'
  <1>1. CASE Close
    <2>1. [kind |-> "shutdown"] \in ToWorker
      BY DEF ToWorker
    <2> QED BY <1>1, <2>1, SendToWorkerLemma
            DEF Close, native, clock, workers, mains, TypeInv, TypeOK
  <1>2. CASE \E k \in Keys : Unsubscribe(k)
    BY <1>2 DEF Unsubscribe, clock, workers, calls, mains, TypeInv, TypeOK
  <1>3. ASSUME NEW k \in Keys, NEW i \in Intervals, Subscribe(k, i) PROVE TypeInv'
    <2>1. /\ workerPort' \in Seq(ToWorker)
          /\ commands' \in Nat
      BY <1>3, CommandTypeInv DEF Subscribe, TypeInv, TypeOK
    <2> QED BY <1>3, <2>1 DEF Subscribe, native, clock, workers, mains, TypeInv, TypeOK
  <1>4. ASSUME NEW k \in Keys, NEW i \in Intervals, SetThrottle(k, i) PROVE TypeInv'
    BY <1>4, CommandTypeInv DEF SetThrottle, native, clock, workers, mains, TypeInv, TypeOK
  <1> QED BY <1>1, <1>2, <1>3, <1>4 DEF AppCalls

LEMMA MainTypeInv == ASSUME TypeInv, MainCall \/ MainMessage PROVE TypeInv'
  <1>1. CASE SubscribeNative
    BY <1>1 DEF SubscribeNative, clock, workers, mains, TypeInv, TypeOK
  <1>2. CASE SubscribeStream
    <2>1. streams' \in [Keys -> {"none", "open", "closed"}] /\ pc' = "idle" /\ arg' = Never
      BY <1>2 DEF SubscribeStream, TypeInv, TypeOK
    <2>2. UNCHANGED <<native, clock, workerPort, workers, commands, asked, mainPort, mainOpen,
                      stateCtrl, threw>>
      BY <1>2 DEF SubscribeStream
    <2> QED BY <2>1, <2>2 DEF native, clock, workers, TypeInv, TypeOK
  <1>3. CASE CloseDestroy
    BY <1>3, EmptyLemma DEF CloseDestroy, clock, workers, TypeInv, TypeOK
  <1>4. CASE CloseRest \/ \E k \in Keys : CloseStream(k)
    BY ZenonT(60), <1>4 DEF CloseRest, CloseStream, native, clock, workers, calls, TypeInv, TypeOK
  <1>5. CASE MainMessage
    <2>1. mainPort' \in Seq(ToApp)
      BY <1>5, MainLemma DEF MainMessage, OnMessage, OnState, OnRaw, AtEventLoop
    <2>2. UNCHANGED <<native, clock, workerPort, workers, calls, mainOpen, streams, stateCtrl>>
      BY <1>5 DEF MainMessage, OnMessage, OnState, OnRaw
    <2>3. threw' \in BOOLEAN
      BY <1>5 DEF MainMessage, OnMessage, OnState, OnRaw, TypeInv, TypeOK
    <2> QED BY <2>1, <2>2, <2>3 DEF native, clock, workers, calls, TypeInv, TypeOK
  <1> QED BY <1>1, <1>3, <1>4, <1>5, <1>2 DEF MainCall

LEMMA StutterTypeInv == ASSUME TypeInv, UNCHANGED vars PROVE TypeInv'
  BY DEF vars, native, clock, workers, calls, mains, TypeInv, TypeOK

LEMMA NextTypeInv == ASSUME TypeInv, [Next]_vars PROVE TypeInv'
  BY NativeTypeInv, WorkerTypeInv, AppTypeInv, MainTypeInv, StutterTypeInv DEF Next

-----------------------------------------------------------------------------
(* Streams. *)

LEMMA InitSafeInv == Init => SafeInv
  BY EmptyLemma DEF Init, SafeInv, KnownInv, CloseInv, NoOrphans, NeverAddsToClosed

\* No key is known less: what was in a port may stay there.
LEMMA KnownLemma ==
    ASSUME TypeInv, KnownInv,
           \A k \in Keys : Known(k) => Known(k)',
           subscribed' \subseteq subscribed,
           Elems(workerPort') \cup Elems(mainPort')
               \subseteq Elems(workerPort) \cup Elems(mainPort)
    PROVE  KnownInv'
  <1>1. ASSUME NEW m \in Elems(workerPort) \cup Elems(mainPort), m.kind = "message"
        PROVE  m.key \in Keys
    BY <1>1, MessageKinds DEF Elems, Event, TypeInv
  <1>2. subscribed \subseteq Keys
    BY DEF TypeInv, TypeOK
  <1> QED BY <1>1, <1>2 DEF KnownInv, Elems

LEMMA NativeSafeInv ==
    ASSUME TypeInv, SafeInv, Native \/ Tick \/ ClockSet
    PROVE  SafeInv'
  <1>1. UNCHANGED <<calls, mains, subscribed, mainPort>>
    BY DEF Native, Notify, StateChanges, LoopError, Tick, ClockSet, native
  <1>2. \A k \in Keys : Known(k)' = Known(k)
    BY <1>1 DEF Known, calls, mains
  <1>3. CloseInv' /\ NoOrphans' /\ NeverAddsToClosed'
    BY <1>1 DEF calls, mains, SafeInv, CloseInv, NoOrphans, NeverAddsToClosed
  <1>4. KnownInv'
    <2>1. CASE \E k \in Keys : Notify(k)
      <3>1. PICK k \in Keys : Notify(k)
        BY <2>1
      <3> DEFINE m == [kind |-> "message", key |-> k, n |-> sent[k] + 1]
      <3>2. m \in ToWorker
        BY EventLemma
      <3>3. Elems(workerPort') \subseteq Elems(workerPort) \cup {m}
        BY <3>1, <3>2, SendToWorkerLemma DEF Notify
      <3>4. Known(k)
        BY <3>1 DEF Notify, SafeInv, KnownInv
      <3>5. m.key = k
        OBVIOUS
      <3> HIDE DEF m
      <3>6. ASSUME NEW x \in Elems(workerPort') \cup Elems(mainPort'), x.kind = "message"
            PROVE  Known(x.key)
        BY <1>1, <3>3, <3>4, <3>5, <3>6 DEF SafeInv, KnownInv
      <3> QED BY <1>1, <3>6 DEF SafeInv, KnownInv, Known, calls, mains
    <2>2. CASE StateChanges \/ LoopError
      <3>1. ASSUME NEW d \in {"state", "error"}, NEW b \in BOOLEAN
            PROVE  [kind |-> d, twoBytes |-> b] \in ToWorker
        BY <3>1, Zenon DEF ToWorker, Other
      <3>2. emptyName \in BOOLEAN
        BY DEF TypeInv, TypeOK
      <3>3. \E m : m.kind # "message" /\ Elems(workerPort') \subseteq Elems(workerPort) \cup {m}
        <4>1. CASE StateChanges
          <5> DEFINE m == [kind |-> "state", twoBytes |-> emptyName]
          <5>1. Elems(workerPort') \subseteq Elems(workerPort) \cup {m}
            BY <4>1, <3>1, <3>2, SendToWorkerLemma DEF StateChanges
          <5>2. m.kind # "message"
            OBVIOUS
          <5> QED BY <5>1, <5>2
        <4>2. CASE LoopError
          <5> DEFINE m == [kind |-> "error", twoBytes |-> FALSE]
          <5>1. m \in ToWorker
            BY <3>1
          <5>2. Elems(workerPort') \subseteq Elems(workerPort) \cup {m}
            BY <4>2, <5>1, SendToWorkerLemma DEF LoopError
          <5>3. m.kind # "message"
            OBVIOUS
          <5> QED BY <5>2, <5>3
        <4> QED BY <2>2, <4>1, <4>2
      <3>4. PICK m : m.kind # "message" /\ Elems(workerPort') \subseteq Elems(workerPort) \cup {m}
        BY <3>3
      <3>5. ASSUME NEW x \in Elems(workerPort') \cup Elems(mainPort'), x.kind = "message"
            PROVE  Known(x.key)
        BY <1>1, <3>4, <3>5 DEF SafeInv, KnownInv
      <3> QED BY <1>1, <3>5 DEF SafeInv, KnownInv, Known, calls, mains
    <2>3. CASE Tick \/ ClockSet
      BY <2>3, <1>1 DEF Tick, ClockSet, native, calls, mains, SafeInv, KnownInv, Known
    <2> QED BY <2>1, <2>2, <2>3 DEF Native
  <1> QED BY <1>3, <1>4 DEF SafeInv

\* The worker only passes on what was in its port.
LEMMA WorkerSafeInv == ASSUME TypeInv, SafeInv, WorkerStep \/ Killed PROVE SafeInv'
  <1> DEFINE m == Head(workerPort)
  <1>1. UNCHANGED <<calls, mains, subscribed>>
    BY DEF WorkerStep, Killed, Forward, Drop, WorkerDies, ForwardOther, InstallThrottle,
           Shutdown, native
  <1>2. \A k \in Keys : Known(k)' = Known(k)
    BY <1>1 DEF Known, calls, mains
  <1>3. CloseInv' /\ NoOrphans' /\ NeverAddsToClosed'
    BY <1>1 DEF calls, mains, SafeInv, CloseInv, NoOrphans, NeverAddsToClosed
  <1>4. Elems(workerPort') \cup Elems(mainPort') \subseteq Elems(workerPort) \cup Elems(mainPort)
    <2>1. CASE Forward(m) \/ ForwardOther(m)
      <3>1. m \in ToApp /\ m \in Elems(workerPort) /\ Elems(workerPort') \subseteq Elems(workerPort)
        BY <2>1, WorkerLemma, MessageKinds DEF Forward, ForwardOther
      <3>2. Elems(mainPort') \subseteq Elems(mainPort) \cup {m}
        BY <2>1, <3>1, SendToMainLemma DEF Forward, ForwardOther
      <3> QED BY <3>1, <3>2
    <2>2. CASE Drop(m) \/ WorkerDies(m) \/ Shutdown(m) \/ InstallThrottle(m)
      <3>1. Elems(workerPort') \subseteq Elems(workerPort) /\ mainPort' = mainPort
        BY <2>2, WorkerLemma DEF Drop, WorkerDies, Shutdown, InstallThrottle
      <3> QED BY <3>1
    <2>3. CASE Killed
      BY <2>3, EmptyLemma DEF Killed
    <2> QED BY <2>1, <2>2, <2>3 DEF WorkerStep
  <1> QED BY <1>1, <1>2, <1>3, <1>4, KnownLemma DEF SafeInv

\* The application's calls send commands, and nothing else.
LEMMA AppSends ==
    ASSUME TypeInv, AppCalls
    PROVE  \E m : /\ m.kind # "message"
                  /\ Elems(workerPort') \subseteq Elems(workerPort) \cup {m}
  <1>1. CASE Close
    <2> DEFINE m == [kind |-> "shutdown"]
    <2>1. m \in ToWorker
      BY DEF ToWorker
    <2>2. Elems(workerPort') \subseteq Elems(workerPort) \cup {m}
      BY <1>1, <2>1, SendToWorkerLemma DEF Close
    <2>3. m.kind # "message"
      OBVIOUS
    <2> QED BY <2>2, <2>3
  <1>2. ASSUME NEW k \in Keys, NEW i \in Intervals, Command(k, i)
        PROVE  \E m : /\ m.kind # "message"
                      /\ Elems(workerPort') \subseteq Elems(workerPort) \cup {m}
    <2> DEFINE m == [kind |-> "throttle", key |-> k, interval |-> i]
    <2>1. m \in ToWorker
      BY DEF ToWorker, Throttle
    <2>2. Elems(workerPort') \subseteq Elems(workerPort) \cup {m}
      BY <1>2, <2>1, SendToWorkerLemma DEF Command
    <2>3. m.kind # "message"
      OBVIOUS
    <2> QED BY <2>2, <2>3
  <1>3. CASE UNCHANGED workerPort
    <2>1. [kind |-> "shutdown"].kind # "message"
      OBVIOUS
    <2> QED BY <1>3, <2>1
  <1> QED BY <1>1, <1>2, <1>3 DEF AppCalls, Unsubscribe, Subscribe, SetThrottle

LEMMA AppSafeInv == ASSUME TypeInv, SafeInv, AppCalls PROVE SafeInv'
  <1>1. UNCHANGED <<mainPort, mains>> /\ subscribed' \subseteq subscribed /\ pc = "idle"
    BY DEF AppCalls, Close, Unsubscribe, Subscribe, SetThrottle, native
  <1>2. pc' \in {"idle", "subscribe", "destroy"}
    BY <1>1 DEF AppCalls, Close, Unsubscribe, Subscribe, SetThrottle, calls
  <1>3. \A k : Known(k)' = Known(k)
    BY <1>1, <1>2 DEF Known, mains
  <1>4. CloseInv' /\ NoOrphans' /\ NeverAddsToClosed'
    BY <1>1, <1>2 DEF mains, SafeInv, CloseInv, NoOrphans, NeverAddsToClosed
  <1>5. PICK m : m.kind # "message" /\ Elems(workerPort') \subseteq Elems(workerPort) \cup {m}
    BY AppSends
  <1>6. KnownInv'
    <2>1. ASSUME NEW x \in Elems(workerPort') \cup Elems(mainPort'), x.kind = "message"
          PROVE  Known(x.key)
      BY <1>1, <1>5, <2>1 DEF SafeInv, KnownInv
    <2> QED BY <1>1, <1>3, <2>1 DEF SafeInv, KnownInv, Known, mains
  <1> QED BY <1>4, <1>6 DEF SafeInv

\* A message is handled when no call is in progress: its stream is there, and open
\* as long as the port is.
LEMMA MainSafeInv == ASSUME TypeInv, SafeInv, MainCall \/ MainMessage PROVE SafeInv'
  <1>1. CASE SubscribeNative
    <2>1. /\ pc = "subscribe" /\ pc' = "stream" /\ arg \in Keys
          /\ subscribed' = subscribed \cup {arg}
          /\ UNCHANGED <<workerPort, mainPort, arg, mains>>
      BY <1>1 DEF SubscribeNative, TypeInv
    <2>2. \A k : Known(k) => Known(k)'
      BY <2>1 DEF Known, mains
    <2>3. Known(arg)'
      BY <2>1 DEF Known
    <2>4. KnownInv'
      BY <2>1, <2>2, <2>3 DEF SafeInv, KnownInv, mains
    <2> QED BY <2>1, <2>4 DEF SafeInv, CloseInv, NoOrphans, NeverAddsToClosed, mains
  <1>2. CASE SubscribeStream
    <2>1. /\ pc = "stream" /\ pc' = "idle" /\ arg \in Keys
          /\ streams' = [streams EXCEPT ![arg] = IF @ = "none" THEN "open" ELSE @]
          /\ UNCHANGED <<subscribed, workerPort, mainPort, mainOpen, stateCtrl, orphans, threw>>
      BY <1>2 DEF SubscribeStream, TypeInv, native
    <2>2. \A k \in Keys : Known(k) => Known(k)'
      BY <2>1 DEF Known, TypeInv, TypeOK
    <2>3. KnownInv'
      BY <2>1, <2>2, KnownLemma DEF SafeInv
    <2>4. CloseInv'
      BY <2>1 DEF SafeInv, CloseInv, TypeInv, TypeOK
    <2> QED BY <2>1, <2>3, <2>4 DEF SafeInv, NoOrphans, NeverAddsToClosed
  <1>3. CASE CloseDestroy
    <2>1. /\ pc = "destroy" /\ pc' = "closing" /\ subscribed' = {}
          /\ mainOpen' = FALSE /\ mainPort' = <<>>
          /\ UNCHANGED <<workerPort, streams, stateCtrl, orphans, threw>>
      BY <1>3 DEF CloseDestroy
    <2>2. \A k \in Keys : Known(k) => Known(k)'
      BY <2>1 DEF Known
    <2>3. KnownInv'
      BY <2>1, <2>2, KnownLemma, EmptyLemma DEF SafeInv
    <2> QED BY <2>1, <2>3 DEF SafeInv, CloseInv, NoOrphans, NeverAddsToClosed
  <1>4. CASE CloseRest \/ \E k \in Keys : CloseStream(k)
    <2>1. /\ pc = "closing" /\ pc' \in {"closing", "closed"}
          /\ \A k \in Keys : streams[k] # "none" => streams'[k] # "none"
          /\ UNCHANGED <<subscribed, workerPort, mainPort, mainOpen, orphans, threw>>
      BY <1>4 DEF CloseRest, CloseStream, native, calls, TypeInv, TypeOK
    <2>2. \A k \in Keys : Known(k) => Known(k)'
      BY <2>1 DEF Known
    <2>3. KnownInv'
      BY <2>1, <2>2, KnownLemma DEF SafeInv
    <2>4. CloseInv'
      BY <2>1 DEF SafeInv, CloseInv
    <2> QED BY <2>1, <2>3, <2>4 DEF SafeInv, NoOrphans, NeverAddsToClosed
  <1>5. CASE MainMessage
    <2>1. /\ AtEventLoop /\ mainPort' = Tail(mainPort)
          /\ UNCHANGED <<subscribed, workerPort, calls, mainOpen, streams, stateCtrl>>
      BY <1>5 DEF MainMessage, OnMessage, OnState, OnRaw, native
    <2>2. mainPort # <<>> /\ mainOpen /\ pc \in {"idle", "closing", "closed"}
      BY <2>1 DEF AtEventLoop
    <2>3. Head(mainPort) \in ToApp /\ Head(mainPort) \in Elems(mainPort)
          /\ Elems(mainPort') \subseteq Elems(mainPort)
      BY <2>1, <2>2, MainLemma
    <2>4. KnownInv'
      <3>1. \A k \in Keys : Known(k) => Known(k)'
        BY <2>1 DEF Known, calls
      <3> QED BY <2>1, <2>3, <3>1, KnownLemma DEF SafeInv
    <2>5. CloseInv'
      BY <2>1 DEF SafeInv, CloseInv, calls
    <2>6. NoOrphans' /\ NeverAddsToClosed'
      <3>1. CASE OnMessage
        <4>1. Head(mainPort).key \in Keys /\ streams[Head(mainPort).key] # "none"
          BY <2>2, <2>3, <3>1, MessageKinds
             DEF OnMessage, Event, SafeInv, KnownInv, Known
        <4>2. streams[Head(mainPort).key] # "closed"
          BY <2>2, <4>1 DEF SafeInv, CloseInv
        <4>3. orphans' = orphans
          BY <3>1, <4>1 DEF OnMessage
        <4>4. threw' = (threw \/ streams[Head(mainPort).key] = "closed")
          BY <3>1 DEF OnMessage
        <4>5. ~threw'
          BY <4>2, <4>4 DEF SafeInv, NeverAddsToClosed
        <4> QED BY <4>3, <4>5 DEF SafeInv, NoOrphans, NeverAddsToClosed
      <3>2. CASE OnState \/ OnRaw
        <4>1. orphans' = orphans /\ threw' \in {threw, threw \/ stateCtrl = "closed"}
          BY <3>2 DEF OnState, OnRaw
        <4>2. stateCtrl = "open"
          BY <2>2 DEF SafeInv, CloseInv
        <4> QED BY <4>1, <4>2 DEF SafeInv, NoOrphans, NeverAddsToClosed
      <3> QED BY <1>5, <3>1, <3>2 DEF MainMessage
    <2> QED BY <2>4, <2>5, <2>6 DEF SafeInv
  <1> QED BY <1>1, <1>2, <1>3, <1>4, <1>5 DEF MainCall

LEMMA StutterSafeInv == ASSUME SafeInv, UNCHANGED vars PROVE SafeInv'
  BY DEF vars, native, calls, mains, SafeInv, KnownInv, Known, CloseInv, NoOrphans,
         NeverAddsToClosed

LEMMA NextSafeInv == ASSUME TypeInv, SafeInv, [Next]_vars PROVE SafeInv'
  BY NativeSafeInv, WorkerSafeInv, AppSafeInv, MainSafeInv, StutterSafeInv DEF Next

-----------------------------------------------------------------------------
(* The rate. *)

LEMMA InitRateInv == Init => RateInv
  <1> SUFFICES ASSUME Init PROVE RateInv
    OBVIOUS
  <1>1. AskedInv
    BY EmptyLemma DEF Init, AskedInv
  <1> QED BY <1>1 DEF Init, RateInv, Limited, RateLimited

\* A step that touches neither the port nor the worker.
LEMMA QuietRateInv ==
    ASSUME TypeInv, TypeInv', RateInv, AskedInv',
           UNCHANGED <<workerPort, worker, throttles, forwarded, commands>>,
           \A k \in Keys : asked'[k] \in {0, asked[k]}
    PROVE  RateInv'
  <1>1. ASSUME NEW k \in Keys, Limited(k)'
        PROVE  Limited(k) /\ asked'[k] = asked[k]
    BY <1>1 DEF Limited
  <1>2. ASSUME NEW k \in Keys, Limited(k)', worker' = "alive"
        PROVE  Pending(k)' \/ Installed(k)'
    <2>1. CASE Pending(k)
      BY <1>1, <1>2, <2>1 DEF Pending
    <2>2. CASE Installed(k)
      <3>1. IF forwarded[k] = <<>> THEN throttles[k].last = Never
            ELSE throttles[k].last = forwarded[k][Len(forwarded[k])].wall
        BY <2>2 DEF Installed
      <3>2. throttles[k].interval = asked[k] /\ \A m \in Elems(workerPort) : m.kind # "throttle"
        BY <2>2 DEF Installed
      <3>3. asked'[k] = asked[k]
        BY <1>1, <1>2
      <3> QED BY <3>1, <3>2, <3>3 DEF Installed
    <2> QED BY <1>1, <1>2, <2>1, <2>2 DEF RateInv
  <1>3. RateLimited'
    BY <1>1 DEF RateInv, RateLimited, Limited
  <1> QED BY <1>2, <1>3 DEF RateInv

\* A message at the end of the port overtakes nothing.
LEMMA SendRateInv ==
    ASSUME TypeInv, RateInv, NEW e \in ToWorker, SendToWorker(e), e.kind # "throttle",
           e.kind = "message" => asked[e.key] # Never,
           UNCHANGED <<time, wall, worker, throttles, forwarded, asked, commands>>,
           subscribed' \subseteq subscribed,
           UNCHANGED <<pc, arg>> \/ pc' = "destroy"
    PROVE  RateInv'
  <1>1. Elems(workerPort') \subseteq Elems(workerPort) \cup {e}
    BY SendToWorkerLemma
  <1>2. AskedInv'
    BY <1>1 DEF RateInv, AskedInv
  <1>3. ASSUME NEW k \in Keys, Pending(k) PROVE Pending(k)'
    <2>1. CASE workerPort' = workerPort
      BY <1>3, <2>1 DEF Pending
    <2>2. CASE workerPort' = Append(workerPort, e)
      <3>1. /\ Len(workerPort) \in Nat /\ Len(workerPort') = Len(workerPort) + 1
            /\ workerPort'[Len(workerPort) + 1] = e
            /\ \A i \in 1..Len(workerPort) : workerPort'[i] = workerPort[i]
        BY <2>2 DEF TypeInv
      <3>2. PICK j \in 1..Len(workerPort) :
              /\ workerPort[j] = [kind |-> "throttle", key |-> k, interval |-> asked[k]]
              /\ \A i \in 1..Len(workerPort) : workerPort[i].kind = "throttle" => i = j
              /\ \A i \in 1..(j - 1) : workerPort[i].kind = "message" => workerPort[i].key # k
        BY <1>3 DEF Pending
      <3>3. /\ j \in 1..Len(workerPort')
            /\ workerPort'[j] = [kind |-> "throttle", key |-> k, interval |-> asked'[k]]
        BY <3>1, <3>2
      <3>4. \A i \in 1..Len(workerPort') : workerPort'[i].kind = "throttle" => i = j
        BY <3>1, <3>2
      <3>5. \A i \in 1..(j - 1) : workerPort'[i].kind = "message" => workerPort'[i].key # k
        BY <3>1, <3>2
      <3> QED BY <1>3, <3>3, <3>4, <3>5 DEF Pending
    <2> QED BY <2>1, <2>2 DEF SendToWorker
  <1>4. ASSUME NEW k \in Keys, Installed(k) PROVE Installed(k)'
    BY <1>1, <1>4 DEF Installed
  <1>5. RateLimited' /\ \A k \in Keys : Limited(k)' = Limited(k)
    BY DEF RateInv, RateLimited, Limited
  <1> QED BY <1>2, <1>3, <1>4, <1>5 DEF RateInv

LEMMA NativeRateInv ==
    ASSUME TypeInv, TypeInv', RateInv, Native \/ Tick \/ ClockSet
    PROVE  RateInv'
  <1>1. ASSUME NEW k \in Keys, Notify(k) PROVE RateInv'
    <2> DEFINE e == [kind |-> "message", key |-> k, n |-> sent[k] + 1]
    <2>1. e \in ToWorker
      BY EventLemma
    <2>2. e.kind = "message" /\ e.key = k
      OBVIOUS
    <2>3. asked[k] # Never
      BY <1>1 DEF Notify, RateInv, AskedInv
    <2>4. SendToWorker(e)
      BY <1>1 DEF Notify
    <2>5. UNCHANGED <<time, wall, worker, throttles, forwarded, asked, commands, subscribed, pc, arg>>
      BY <1>1 DEF Notify, clock, workers, calls
    <2> HIDE DEF e
    <2> QED BY <2>1, <2>2, <2>3, <2>4, <2>5, SendRateInv
  <1>2. CASE StateChanges \/ LoopError
    <2>1. ASSUME NEW d \in {"state", "error"}, NEW b \in BOOLEAN
          PROVE  [kind |-> d, twoBytes |-> b] \in ToWorker
      BY <2>1, Zenon DEF ToWorker, Other
    <2>2. emptyName \in BOOLEAN
      BY DEF TypeInv, TypeOK
    <2>3. UNCHANGED <<time, wall, worker, throttles, forwarded, asked, commands, subscribed, pc, arg>>
      BY <1>2 DEF StateChanges, LoopError, clock, workers, calls
    <2>4. PICK e \in ToWorker : e.kind \in {"state", "error"} /\ SendToWorker(e)
      <3>1. CASE StateChanges
        <4> DEFINE e == [kind |-> "state", twoBytes |-> emptyName]
        <4>1. e \in ToWorker /\ SendToWorker(e)
          BY <3>1, <2>1, <2>2 DEF StateChanges
        <4>2. e.kind = "state"
          OBVIOUS
        <4> QED BY <4>1, <4>2
      <3>2. CASE LoopError
        <4> DEFINE e == [kind |-> "error", twoBytes |-> FALSE]
        <4>1. e \in ToWorker
          BY <2>1
        <4>2. SendToWorker(e)
          BY <3>2 DEF LoopError
        <4>3. e.kind = "error"
          OBVIOUS
        <4> QED BY <4>1, <4>2, <4>3
      <3> QED BY <1>2, <3>1, <3>2
    <2> QED BY <2>3, <2>4, SendRateInv
  <1>3. CASE Tick \/ ClockSet
    <2>1. /\ UNCHANGED <<workerPort, worker, throttles, forwarded, asked, commands, subscribed, pc, arg>>
      BY <1>3 DEF Tick, ClockSet, native, workers, calls
    <2>2. AskedInv'
      BY <2>1 DEF RateInv, AskedInv
    <2> QED BY <2>1, <2>2, QuietRateInv
  <1> QED BY <1>1, <1>2, <1>3 DEF Native

\* The worker takes a message other than a throttle command: it is no event of a
\* signal whose command is still in the port.
LEMMA TakeLemma ==
    ASSUME TypeInv, NEW m, Worker(m), m.kind # "throttle", NEW k \in Keys, Pending(k)
    PROVE  /\ m.kind = "message" => m.key # k
           /\ asked'[k] = asked[k] /\ forwarded'[k] = forwarded[k] => Pending(k)'
  <1>1. /\ m = workerPort[1] /\ Len(workerPort) \in Nat \ {0}
        /\ workerPort' = Tail(workerPort) /\ Len(workerPort') = Len(workerPort) - 1
        /\ \A i \in 1..Len(workerPort') : workerPort'[i] = workerPort[i + 1]
    BY DEF Worker, TypeInv
  <1>2. PICK j \in 1..Len(workerPort) :
          /\ workerPort[j] = [kind |-> "throttle", key |-> k, interval |-> asked[k]]
          /\ \A i \in 1..Len(workerPort) : workerPort[i].kind = "throttle" => i = j
          /\ \A i \in 1..(j - 1) : workerPort[i].kind = "message" => workerPort[i].key # k
    BY DEF Pending
  <1>3. j # 1
    BY <1>1, <1>2
  <1>4. m.kind = "message" => m.key # k
    BY <1>1, <1>2, <1>3
  <1>5. ASSUME asked'[k] = asked[k], forwarded'[k] = forwarded[k] PROVE Pending(k)'
    <2>1. /\ j - 1 \in 1..Len(workerPort')
          /\ workerPort'[j - 1] = [kind |-> "throttle", key |-> k, interval |-> asked'[k]]
      BY <1>1, <1>2, <1>3, <1>5
    <2>2. \A i \in 1..Len(workerPort') : workerPort'[i].kind = "throttle" => i = j - 1
      BY <1>1, <1>2, <1>3
    <2>3. \A i \in 1..((j - 1) - 1) : workerPort'[i].kind = "message" => workerPort'[i].key # k
      BY <1>1, <1>2, <1>3
    <2> QED BY <1>5, <2>1, <2>2, <2>3 DEF Pending
  <1> QED BY <1>4, <1>5

\* An interval by the wall clock is one in real time, less what the clock gained.
LEMMA GapLemma ==
    ASSUME NEW a \in Moment, NEW b \in Moment, NEW n \in Int
    PROVE  /\ b.wall - a.wall >= n => b.time - a.time >= n - Gained(a, b)
           /\ b.wall - a.wall < n => b.time - a.time < n - Gained(a, b)
  BY DEF Moment, Gained

\* An event that passes is a full interval after the one before, and is remembered.
LEMMA ForwardRateInv == ASSUME TypeInv, RateInv, NEW m, Forward(m) PROVE RateInv'
  <1>1. /\ Worker(m) /\ m.kind = "message" /\ m \in Event /\ m.key \in Keys
        /\ m \in Elems(workerPort) /\ Elems(workerPort') \subseteq Elems(workerPort)
        /\ worker = "alive"
    BY WorkerLemma, MessageKinds DEF Forward, Event, Worker
  <1>2. UNCHANGED <<time, wall, worker, asked, commands, subscribed, pc, arg>>
    BY DEF Forward, native, clock, calls
  <1>3. /\ forwarded' = [forwarded EXCEPT ![m.key] = Append(@, Now)]
        /\ \A k \in Keys : k # m.key => /\ forwarded'[k] = forwarded[k]
                                        /\ throttles'[k] = throttles[k]
    BY <1>1 DEF Forward, TypeInv
  <1>4. asked[m.key] # Never
    BY <1>1 DEF RateInv, AskedInv
  <1>5. AskedInv'
    BY <1>1, <1>2, <1>3, <1>4 DEF RateInv, AskedInv
  <1>6. ASSUME NEW k \in Keys, Limited(k), k # m.key PROVE Pending(k)' \/ Installed(k)'
    <2>1. CASE Pending(k)
      BY <1>1, <1>2, <1>3, <1>6, <2>1, TakeLemma
    <2>2. CASE Installed(k)
      BY <1>1, <1>2, <1>3, <1>6, <2>2 DEF Installed
    <2> QED BY <1>1, <1>6, <2>1, <2>2 DEF RateInv
  <1>7. ASSUME Limited(m.key)
        PROVE  /\ Installed(m.key)'
               /\ \A i \in 1..(Len(forwarded'[m.key]) - 1) :
                     Apart(forwarded'[m.key][i], forwarded'[m.key][i + 1], asked'[m.key])
    <2> DEFINE k == m.key
               f == forwarded[k]
               A == asked[k]
    <2>1. Installed(k)
      BY <1>1, <1>7, TakeLemma DEF RateInv
    <2>2. A \in Nat \ {0} /\ throttles[k].interval = A
      BY <1>1, <1>7, <2>1 DEF Limited, Installed, TypeInv
    <2>3. f \in Seq(Moment) /\ Now \in Moment /\ Now.wall = wall
      BY <1>1 DEF TypeInv, TypeOK, Now, Moment
    <2>4. /\ forwarded'[k] = Append(f, Now)
          /\ throttles'[k] = [interval |-> A, last |-> wall]
      <3>1. forwarded'[k] = Append(f, Now)
        BY <1>1, <1>3 DEF TypeInv
      <3>2. throttles'[k] = [throttles[k] EXCEPT !.last = wall]
        BY <1>1, <2>2 DEF Forward, TypeInv
      <3>3. throttles[k] \in [interval : Intervals \cup {0}, last : Int \cup {Never}]
        BY <1>1 DEF TypeInv
      <3> QED BY <2>2, <3>1, <3>2, <3>3
    <2>5. /\ Len(f) \in Nat /\ Len(forwarded'[k]) = Len(f) + 1
          /\ forwarded'[k][Len(f) + 1] = Now
          /\ \A i \in 1..Len(f) : forwarded'[k][i] = f[i] /\ f[i] \in Moment
      BY <2>3, <2>4
    <2>6. Installed(k)'
      <3>1. \A e \in Elems(workerPort') : e.kind # "throttle"
        BY <1>1, <2>1 DEF Installed
      <3>2. forwarded'[k] # <<>> /\ forwarded'[k][Len(forwarded'[k])] = Now
        BY <2>5
      <3>3. throttles'[k].interval = A /\ throttles'[k].last = Now.wall
        BY <2>3, <2>4
      <3> QED BY <1>2, <3>1, <3>2, <3>3 DEF Installed
    <2>7. Len(f) > 0 => Apart(f[Len(f)], Now, A)
      <3> SUFFICES ASSUME Len(f) > 0 PROVE Apart(f[Len(f)], Now, A)
        OBVIOUS
      <3>1. f # <<>> /\ f[Len(f)] \in Moment
        BY <2>3, <2>5
      <3>2. throttles[k].last = f[Len(f)].wall /\ throttles[k].last \in Int
        BY <2>1, <3>1 DEF Installed, Moment
      <3>3. throttles[k].last # Never
        BY <3>2
      <3>4. ~(wall - throttles[k].last < A)
        BY <2>2, <3>3 DEF Forward, RateExceeded
      <3>5. wall \in Int /\ A \in Int
        BY <2>2 DEF TypeInv, TypeOK
      <3>6. Now.wall - f[Len(f)].wall >= A
        BY <2>3, <3>2, <3>4, <3>5
      <3> QED BY <2>3, <3>1, <3>5, <3>6, GapLemma DEF Apart
    <2>8. \A i \in 1..(Len(f) - 1) : Apart(f[i], f[i + 1], A)
      BY <1>1, <1>7 DEF RateInv, RateLimited, Limited, Apart
    <2>9. ASSUME NEW i \in 1..(Len(forwarded'[k]) - 1)
          PROVE  Apart(forwarded'[k][i], forwarded'[k][i + 1], A)
      <3>1. CASE i = Len(f)
        BY <2>5, <2>7, <2>9, <3>1
      <3>2. CASE i # Len(f)
        <4>1. i \in 1..(Len(f) - 1) /\ i \in 1..Len(f) /\ i + 1 \in 1..Len(f)
          BY <2>5, <2>9, <3>2
        <4> QED BY <2>5, <2>8, <4>1
      <3> QED BY <3>1, <3>2
    <2> QED BY <1>2, <2>6, <2>9
  <1>8. \A k \in Keys : Limited(k)' = Limited(k)
    BY <1>2 DEF Limited
  <1>9. RateLimited'
    <2> SUFFICES ASSUME NEW k \in Keys, Limited(k)'
                 PROVE  \A i \in 1..(Len(forwarded'[k]) - 1) :
                           Apart(forwarded'[k][i], forwarded'[k][i + 1], asked'[k])
      BY DEF RateLimited, Limited, Apart
    <2>1. CASE k = m.key
      BY <1>7, <1>8, <2>1
    <2>2. CASE k # m.key
      BY <1>2, <1>3, <1>8, <2>2 DEF RateInv, RateLimited, Limited, Apart
    <2> QED BY <2>1, <2>2
  <1> QED BY <1>5, <1>6, <1>7, <1>8, <1>9 DEF RateInv

LEMMA WorkerRateInv == ASSUME TypeInv, RateInv, WorkerStep \/ Killed PROVE RateInv'
  <1> DEFINE m == Head(workerPort)
  <1>1. CASE Forward(m)
    BY <1>1, ForwardRateInv
  <1>2. CASE Drop(m) \/ ForwardOther(m)
    <2>1. /\ Worker(m) /\ m.kind # "throttle" /\ worker = "alive"
          /\ UNCHANGED <<time, wall, worker, throttles, forwarded, asked, commands, subscribed,
                         pc, arg>>
      BY <1>2 DEF Drop, ForwardOther, Worker, native, clock, workers, calls
    <2>2. Elems(workerPort') \subseteq Elems(workerPort)
      BY <2>1, WorkerLemma
    <2>3. AskedInv' /\ RateLimited'
      BY <2>1, <2>2 DEF RateInv, AskedInv, RateLimited
    <2>4. ASSUME NEW k \in Keys, Limited(k)' PROVE Pending(k)' \/ Installed(k)'
      <3>1. Limited(k)
        BY <2>1, <2>4 DEF Limited
      <3>2. CASE Pending(k)
        BY <2>1, <3>2, TakeLemma
      <3>3. CASE Installed(k)
        BY <2>1, <2>2, <3>3 DEF Installed
      <3> QED BY <2>1, <3>1, <3>2, <3>3 DEF RateInv
    <2> QED BY <2>3, <2>4 DEF RateInv
  <1>3. CASE WorkerDies(m) \/ Shutdown(m) \/ Killed
    <2>1. /\ worker' # "alive"
          /\ UNCHANGED <<forwarded, asked, commands, subscribed, pc, arg>>
      BY <1>3 DEF WorkerDies, Shutdown, Killed, native, calls
    <2>2. Elems(workerPort') \subseteq Elems(workerPort)
      BY <1>3, WorkerLemma, EmptyLemma DEF WorkerDies, Shutdown, Killed
    <2> QED BY <2>1, <2>2 DEF RateInv, AskedInv, RateLimited
  <1>4. CASE InstallThrottle(m)
    <2>1. /\ Worker(m) /\ m.kind = "throttle" /\ worker = "alive" /\ m \in Throttle
          /\ throttles' = [throttles EXCEPT ![m.key] = [interval |-> m.interval, last |-> Never]]
          /\ UNCHANGED <<time, wall, worker, forwarded, asked, commands, subscribed, pc, arg>>
      BY <1>4, WorkerLemma, MessageKinds
         DEF InstallThrottle, Worker, native, clock, calls
    <2>2. m \in Elems(workerPort) /\ Elems(workerPort') \subseteq Elems(workerPort)
      BY <2>1, WorkerLemma
    <2>3. AskedInv' /\ RateLimited'
      BY <2>1, <2>2 DEF RateInv, AskedInv, RateLimited
    <2>4. ASSUME NEW k \in Keys, Limited(k)' PROVE Installed(k)'
      <3>1. Pending(k)
        BY <2>1, <2>2, <2>4 DEF RateInv, Installed, Limited
      <3>2. /\ m = workerPort[1] /\ Len(workerPort) \in Nat \ {0}
            /\ Len(workerPort') = Len(workerPort) - 1
            /\ \A i \in 1..Len(workerPort') : workerPort'[i] = workerPort[i + 1]
        BY <2>1 DEF Worker, TypeInv
      <3>3. PICK j \in 1..Len(workerPort) :
              /\ workerPort[j] = [kind |-> "throttle", key |-> k, interval |-> asked[k]]
              /\ \A i \in 1..Len(workerPort) : workerPort[i].kind = "throttle" => i = j
        BY <3>1 DEF Pending
      <3>4. j = 1
        BY <2>1, <3>2, <3>3
      <3>5. m.key = k /\ m.interval = asked[k]
        BY <3>2, <3>3, <3>4
      <3>6. \A e \in Elems(workerPort') : e.kind # "throttle"
        BY <3>2, <3>3, <3>4 DEF Elems
      <3>7. throttles'[k] = [interval |-> asked[k], last |-> Never]
        BY <2>1, <3>5 DEF TypeInv
      <3>8. throttles'[k].interval = asked[k] /\ throttles'[k].last = Never
        BY <3>7
      <3>9. forwarded'[k] = <<>>
        BY <2>1, <3>1 DEF Pending
      <3> QED BY <2>1, <3>6, <3>8, <3>9 DEF Installed
    <2> QED BY <2>3, <2>4 DEF RateInv
  <1> QED BY <1>1, <1>2, <1>3, <1>4 DEF WorkerStep

\* The first command of all, sent by the first subscription of its signal, finds no
\* event of the signal in the port.
LEMMA CommandRateInv ==
    ASSUME TypeInv, RateInv, NEW k \in Keys, NEW i \in Intervals, Command(k, i),
           UNCHANGED <<worker, throttles, forwarded, subscribed>>,
           \/ asked' = asked
           \/ asked' = [asked EXCEPT ![k] = IF @ = Never THEN i ELSE @],
           UNCHANGED <<pc, arg>> \/ (pc' = "subscribe" /\ arg' = k /\ asked'[k] # Never)
    PROVE  RateInv'
  <1> DEFINE c == [kind |-> "throttle", key |-> k, interval |-> i]
  <1>1. c \in ToWorker /\ c.kind = "throttle"
    BY DEF ToWorker, Throttle
  <1>2. SendToWorker(c) /\ commands' = commands + 1 /\ commands \in Nat
    BY DEF Command, TypeInv
  <1> HIDE DEF c
  <1>3. Elems(workerPort') \subseteq Elems(workerPort) \cup {c}
    BY <1>1, <1>2, SendToWorkerLemma
  <1>4. \A x \in Keys : asked'[x] = asked[x] \/ (x = k /\ asked[x] = Never /\ asked'[x] = i)
    BY DEF TypeInv
  <1>5. AskedInv'
    BY <1>1, <1>2, <1>3, <1>4 DEF RateInv, AskedInv
  <1>6. ASSUME NEW x \in Keys, Limited(x)'
        PROVE  x = k /\ asked[k] = Never /\ asked'[k] = i /\ forwarded[k] = <<>>
    <2>1. commands = 0
      BY <1>2, <1>6 DEF Limited
    <2> QED BY <1>4, <1>6, <2>1 DEF RateInv, AskedInv, Limited
  <1>7. RateLimited'
    BY <1>6 DEF RateLimited, Limited
  <1>8. ASSUME NEW x \in Keys, Limited(x)', worker' = "alive" PROVE Pending(x)'
    <2>1. x = k /\ asked[k] = Never /\ asked'[k] = i /\ forwarded'[k] = <<>> /\ commands = 0
      BY <1>2, <1>6, <1>8 DEF Limited
    <2>2. workerPort' = Append(workerPort, c)
      BY <1>2, <1>8 DEF SendToWorker
    <2>3. /\ Len(workerPort) \in Nat /\ Len(workerPort') = Len(workerPort) + 1
          /\ workerPort'[Len(workerPort) + 1] = c
          /\ \A n \in 1..Len(workerPort) : workerPort'[n] = workerPort[n]
      BY <1>1, <2>2 DEF TypeInv
    <2>4. \A n \in 1..Len(workerPort) :
             /\ workerPort[n].kind # "throttle"
             /\ workerPort[n].kind = "message" => workerPort[n].key # k
      BY <2>1 DEF RateInv, AskedInv, Elems
    <2>5. Len(workerPort) + 1 \in 1..Len(workerPort')
      BY <2>3
    <2>6. workerPort'[Len(workerPort) + 1]
             = [kind |-> "throttle", key |-> x, interval |-> asked'[x]]
      BY <2>1, <2>3 DEF c
    <2>7. \A n \in 1..Len(workerPort') :
             workerPort'[n].kind = "throttle" => n = Len(workerPort) + 1
      BY <2>3, <2>4
    <2>8. \A n \in 1..((Len(workerPort) + 1) - 1) :
             workerPort'[n].kind = "message" => workerPort'[n].key # x
      BY <2>1, <2>3, <2>4
    <2> QED BY <2>1, <2>5, <2>6, <2>7, <2>8 DEF Pending
  <1> QED BY <1>5, <1>7, <1>8 DEF RateInv

LEMMA AppRateInv == ASSUME TypeInv, TypeInv', RateInv, AppCalls PROVE RateInv'
  <1>1. CASE Close
    <2> DEFINE e == [kind |-> "shutdown"]
    <2>1. e \in ToWorker /\ e.kind = "shutdown"
      BY DEF ToWorker
    <2>2. /\ SendToWorker(e) /\ pc' = "destroy"
          /\ UNCHANGED <<time, wall, worker, throttles, forwarded, asked, commands, subscribed>>
      BY <1>1 DEF Close, native, clock, workers
    <2> HIDE DEF e
    <2> QED BY <2>1, <2>2, SendRateInv
  <1>2. CASE \E k \in Keys : Unsubscribe(k)
    <2>1. /\ UNCHANGED <<time, wall, workerPort, worker, throttles, forwarded, asked, commands,
                         pc, arg>>
          /\ subscribed' \subseteq subscribed
      BY <1>2 DEF Unsubscribe, clock, workers, calls
    <2>2. AskedInv'
      BY <2>1 DEF RateInv, AskedInv
    <2> QED BY <2>1, <2>2, QuietRateInv
  <1>3. ASSUME NEW k \in Keys, NEW i \in Intervals, Subscribe(k, i) PROVE RateInv'
    <2>1. /\ UNCHANGED <<time, wall, worker, throttles, forwarded, subscribed>>
          /\ asked' = [asked EXCEPT ![k] = IF @ = Never THEN i ELSE @]
          /\ pc' = "subscribe" /\ arg' = k
      BY <1>3 DEF Subscribe, native, clock, workers
    <2>2. asked'[k] # Never /\ i \in Nat
      BY <2>1 DEF TypeInv
    <2>3. CASE i > 0
      BY <1>3, <2>1, <2>2, <2>3, CommandRateInv DEF Subscribe
    <2>4. CASE ~(i > 0)
      <3>1. UNCHANGED <<workerPort, commands>> /\ i = 0
        BY <1>3, <2>2, <2>4 DEF Subscribe
      <3>2. \A x \in Keys : asked'[x] = asked[x] \/ (x = k /\ asked'[x] = 0)
        BY <2>1, <3>1 DEF TypeInv
      <3>3. AskedInv'
        BY <2>1, <2>2, <3>1, <3>2 DEF RateInv, AskedInv
      <3> QED BY <2>1, <3>1, <3>2, <3>3, QuietRateInv
    <2> QED BY <2>3, <2>4
  <1>4. ASSUME NEW k \in Keys, NEW i \in Intervals, SetThrottle(k, i) PROVE RateInv'
    BY <1>4, CommandRateInv DEF SetThrottle, native, workers
  <1> QED BY <1>1, <1>2, <1>3, <1>4 DEF AppCalls

LEMMA MainRateInv ==
    ASSUME TypeInv, TypeInv', RateInv, MainCall \/ MainMessage
    PROVE  RateInv'
  <1>1. UNCHANGED <<time, wall, workerPort, worker, throttles, forwarded, asked, commands>>
    BY DEF MainCall, MainMessage, SubscribeNative, SubscribeStream, CloseDestroy, CloseRest,
           CloseStream, OnMessage, OnState, OnRaw, clock, workers, calls
  <1>2. \/ UNCHANGED <<subscribed, pc, arg>>
        \/ pc' \notin {"subscribe", "stream"} /\ subscribed' \subseteq subscribed
        \/ pc = "subscribe" /\ UNCHANGED arg /\ subscribed' = subscribed \cup {arg}
    BY DEF MainCall, MainMessage, SubscribeNative, SubscribeStream, CloseDestroy, CloseRest,
           CloseStream, OnMessage, OnState, OnRaw, native, calls
  <1>3. AskedInv'
    BY <1>1, <1>2 DEF RateInv, AskedInv
  <1> QED BY <1>1, <1>3, QuietRateInv

LEMMA StutterRateInv ==
    ASSUME TypeInv, TypeInv', RateInv, UNCHANGED vars
    PROVE  RateInv'
  <1>1. UNCHANGED <<time, wall, workerPort, worker, throttles, forwarded, asked, commands,
                    subscribed, pc, arg>>
    BY DEF vars, native, clock, workers, calls
  <1>2. AskedInv'
    BY <1>1 DEF RateInv, AskedInv
  <1> QED BY <1>1, <1>2, QuietRateInv

LEMMA NextRateInv == ASSUME TypeInv, TypeInv', RateInv, [Next]_vars PROVE RateInv'
  BY NativeRateInv, WorkerRateInv, AppRateInv, MainRateInv, StutterRateInv DEF Next

-----------------------------------------------------------------------------
(* Throttled messages. *)

\* A throttle only remembers a message that has passed, the last one.
TokenInv ==
    \A k \in Keys : throttles[k].last # Never =>
        /\ throttles[k].interval # 0
        /\ forwarded[k] # <<>>
        /\ throttles[k].last = forwarded[k][Len(forwarded[k])].wall

LEMMA ForwardTokenInv == ASSUME TypeInv, TokenInv, NEW m, Forward(m) PROVE TokenInv'
  <1>1. m.key \in Keys
    BY WorkerLemma, MessageKinds DEF Forward, Event
  <1>2. Now \in Moment /\ Now.wall = wall
    BY DEF TypeInv, TypeOK, Now, Moment
  <1>3. ASSUME NEW k \in Keys, k # m.key
        PROVE  throttles'[k] = throttles[k] /\ forwarded'[k] = forwarded[k]
    BY <1>1, <1>3 DEF Forward, TypeInv
  <1>4. forwarded[m.key] \in Seq(Moment) /\ forwarded'[m.key] = Append(forwarded[m.key], Now)
    BY <1>1 DEF Forward, TypeInv
  <1>5. forwarded'[m.key] # <<>> /\ forwarded'[m.key][Len(forwarded'[m.key])] = Now
    BY <1>2, <1>4
  <1>6. ASSUME throttles[m.key].interval # 0
        PROVE  throttles'[m.key].interval # 0 /\ throttles'[m.key].last = wall
    BY <1>1, <1>6 DEF Forward, TypeInv
  <1>7. ASSUME throttles[m.key].interval = 0 PROVE throttles'[m.key].last = Never
    BY <1>1, <1>7 DEF Forward, TokenInv
  <1> QED BY <1>1, <1>2, <1>3, <1>5, <1>6, <1>7 DEF TokenInv

LEMMA NextTokenInv == ASSUME TypeInv, TokenInv, [Next]_vars PROVE TokenInv'
  <1> DEFINE m == Head(workerPort)
  <1>1. CASE Forward(m)
    BY <1>1, ForwardTokenInv
  <1>2. CASE InstallThrottle(m)
    <2>1. m \in Throttle /\ m.key \in Keys
      BY <1>2, WorkerLemma, MessageKinds DEF InstallThrottle, Throttle
    <2>2. UNCHANGED forwarded
      BY <1>2 DEF InstallThrottle
    <2>3. \A k \in Keys : throttles'[k] = throttles[k] \/ throttles'[k].last = Never
      BY <1>2, <2>1 DEF InstallThrottle, TypeInv
    <2> QED BY <2>2, <2>3 DEF TokenInv
  <1>3. CASE Tick \/ ClockSet
    BY <1>3 DEF Tick, ClockSet, workers, TokenInv
  <1>4. CASE UNCHANGED <<throttles, forwarded>>
    BY <1>4 DEF TokenInv
  <1>5. CASE Native
    BY <1>4, <1>5 DEF Native, Notify, StateChanges, LoopError, workers
  <1>6. CASE Drop(m) \/ WorkerDies(m) \/ ForwardOther(m) \/ Shutdown(m) \/ Killed
    BY <1>4, <1>6 DEF Drop, WorkerDies, ForwardOther, Shutdown, Killed, workers
  <1>7. CASE AppCalls
    BY <1>4, <1>7 DEF AppCalls, Subscribe, SetThrottle, Unsubscribe, Close, workers
  <1>8. CASE MainCall \/ MainMessage
    BY <1>4, <1>8 DEF MainCall, MainMessage, SubscribeNative, SubscribeStream, CloseDestroy,
                      CloseRest, CloseStream, OnMessage, OnState, OnRaw, workers
  <1>9. CASE UNCHANGED vars
    BY <1>4, <1>9 DEF vars, workers
  <1> QED BY <1>1, <1>2, <1>3, <1>5, <1>6, <1>7, <1>8, <1>9 DEF Next, WorkerStep

\* A step that takes a message of a signal and does not forward it has dropped it.
LEMMA OnlyDropWithholds ==
    ASSUME TypeInv, NEW k \in Keys, WorkerStep, forwarded'[k] = forwarded[k],
           Head(workerPort).kind = "message", Head(workerPort).key = k
    PROVE  RateExceeded(throttles[k])
  <1> DEFINE m == Head(workerPort)
  <1>1. CASE Forward(m)
    <2>1. forwarded[k] \in Seq(Moment) /\ Now \in Moment
      BY DEF TypeInv, TypeOK, Now, Moment
    <2>2. forwarded'[k] = Append(forwarded[k], Now)
      BY <1>1 DEF Forward, TypeInv
    <2>3. Len(Append(forwarded[k], Now)) # Len(forwarded[k])
      BY <2>1
    <2> QED BY <2>2, <2>3
  <1>2. CASE Drop(m)
    BY <1>2 DEF Drop
  <1> QED BY <1>1, <1>2
          DEF WorkerStep, WorkerDies, ForwardOther, InstallThrottle, Shutdown

-----------------------------------------------------------------------------
(* Theorems *)

LEMMA IInvAlways == Spec => []IInv
  <1>1. Init => IInv
    BY InitTypeInv, InitSafeInv, InitRateInv DEF IInv
  <1>2. IInv /\ [Next]_vars => IInv'
    BY NextTypeInv, NextSafeInv, NextRateInv DEF IInv
  <1> QED BY <1>1, <1>2, PTL DEF Spec

\* Every variable of the two isolates keeps its type.
THEOREM DeliveryTypeOK == Spec => []TypeOK
  <1>1. IInv => TypeOK
    BY DEF IInv, TypeInv
  <1> QED BY <1>1, IInvAlways, PTL

\* Every event finds the stream of its signal, although native threads post before
\* subscribeEvent has made it.
THEOREM DeliveryNoOrphans == Spec => []NoOrphans
  <1>1. IInv => NoOrphans
    BY DEF IInv, SafeInv
  <1> QED BY <1>1, IInvAlways, PTL

\* Nothing is added to a closed controller while or after close() runs.
THEOREM DeliveryNeverAddsToClosed == Spec => []NeverAddsToClosed
  <1>1. IInv => NeverAddsToClosed
    BY DEF IInv, SafeInv
  <1> QED BY <1>1, IInvAlways, PTL

\* A rate asked for with the subscription holds from the first event on, however many
\* signals there are: two events are the interval apart in real time, less what the
\* wall clock was set forward between them, however often it was corrected.
THEOREM DeliveryRateLimited == Spec => []RateLimited
  <1>1. IInv => RateLimited
    BY DEF IInv, RateInv
  <1> QED BY <1>1, IInvAlways, PTL

\* A message is withheld only when less than the interval has passed since the last
\* one, prolonged by what the wall clock was set back by in between and shortened by
\* what it was set forward by.
THEOREM DeliveryTokenRefills == Spec => TokenRefills
  <1>1. Init => TokenInv
    BY DEF Init, TokenInv
  <1>2. IInv /\ TokenInv /\ [Next]_vars => TokenInv'
    BY NextTokenInv DEF IInv
  <1>3. ASSUME IInv, TokenInv, NEW k \in Keys, WorkerStep, forwarded'[k] = forwarded[k],
               Head(workerPort).kind = "message", Head(workerPort).key = k
        PROVE  /\ forwarded[k] # <<>>
               /\ LET last == forwarded[k][Len(forwarded[k])]
                  IN  time - last.time < throttles[k].interval - Gained(last, Now)
    <2>1. RateExceeded(throttles[k])
      BY <1>3, OnlyDropWithholds DEF IInv
    <2>2. throttles[k] \in [interval : Intervals \cup {0}, last : Int \cup {Never}]
      BY <1>3 DEF IInv, TypeInv
    <2>3. /\ throttles[k].last # Never /\ throttles[k].last \in Int
          /\ throttles[k].interval \in Int
          /\ wall - throttles[k].last < throttles[k].interval
      <3>1. throttles[k].interval \in Intervals \cup {0} /\ throttles[k].last \in Int \cup {Never}
        BY <2>2
      <3>2. throttles[k].last # Never /\ wall - throttles[k].last < throttles[k].interval
        BY <2>1 DEF RateExceeded
      <3>3. throttles[k].last \in Int
        BY <3>1, <3>2
      <3>4. throttles[k].interval \in Int
        <4>1. \A i \in Intervals \cup {0} : i \in Int
          OBVIOUS
        <4> QED BY <3>1, <4>1
      <3> QED BY <3>2, <3>3, <3>4
    <2>4. /\ forwarded[k] # <<>> /\ forwarded[k] \in Seq(Moment)
          /\ throttles[k].last = forwarded[k][Len(forwarded[k])].wall
      BY <1>3, <2>3 DEF TokenInv, IInv, TypeInv
    <2>5. forwarded[k][Len(forwarded[k])] \in Moment
      BY <2>4
    <2>6. Now \in Moment /\ Now.wall = wall /\ Now.time = time
      BY <1>3 DEF IInv, TypeInv, TypeOK, Now, Moment
    <2>7. Now.wall - forwarded[k][Len(forwarded[k])].wall < throttles[k].interval
      BY <2>3, <2>4, <2>6
    <2> QED BY <2>3, <2>4, <2>5, <2>6, <2>7, GapLemma
  <1>4. IInv /\ TokenInv /\ [Next]_vars =>
          \A k \in Keys :
             (WorkerStep /\ Head(workerPort).kind = "message" /\ Head(workerPort).key = k
                         /\ forwarded'[k] = forwarded[k])
               => /\ forwarded[k] # <<>>
                  /\ LET last == forwarded[k][Len(forwarded[k])]
                     IN  time - last.time < throttles[k].interval - Gained(last, Now)
    BY <1>3
  <1> QED BY <1>1, <1>2, <1>4, IInvAlways, PTL DEF Spec, TokenRefills
=============================================================================
