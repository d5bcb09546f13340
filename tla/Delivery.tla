------------------------------ MODULE Delivery ------------------------------
(***************************************************************************)
(* The Dart half: native callbacks post to the worker isolate's port, the  *)
(* worker throttles and forwards to the main isolate, the main isolate     *)
(* hands messages to streams (lib/src/vsomeip_client.dart,                 *)
(* lib/src/vsomeip_worker.dart, lib/src/throttle.dart).                    *)
(*                                                                         *)
(* An isolate handles one port message to its end before the next.  Native *)
(* threads run between any two statements of the main isolate, so a call   *)
(* that makes several visible effects takes several steps here.            *)
(***************************************************************************)
EXTENDS Integers, Sequences

CONSTANTS
    Keys,          \* SomeIpKey: (service, instance, event or method)
    Intervals,     \* throttle intervals in ticks; 0 is maxHz = 0.0, no throttle
    Never,         \* null: no message forwarded yet, no key
    EmptyNames,    \* may the app be created with an empty app_name?
    Skews,         \* bound: by how many ticks the wall clock may be ahead of real time
    MaxEvents,     \* bound: messages per key
    MaxStates,     \* bound: state changes and errors
    MaxThrottles,  \* bound: throttle commands the app sends
    MaxTime        \* bound: ticks of real time

ASSUME IntervalsAssumption == Intervals \subseteq Nat /\ Never \notin Int
ASSUME FlagsAssumption == EmptyNames \in BOOLEAN
ASSUME BoundsAssumption ==
    Skews \subseteq Int /\ {MaxEvents, MaxStates, MaxThrottles, MaxTime} \subseteq Nat

VARIABLES
    \* native side
    emptyName,   \* was the app created with an empty app_name?
    subscribed,  \* keys whose events vsomeip delivers to the bridge
    sent,        \* [Keys -> Nat]: messages posted so far
    states,      \* state changes posted so far
    errors,      \* errors posted so far
    time,        \* real time
    wall,        \* what DateTime.now() says
    \* worker isolate
    workerPort,  \* its messages, oldest first
    worker,      \* "alive", "closed" (its port), "dead" (uncaught error), "killed"
    throttles,   \* [Keys -> [interval, last]]; no entry is interval 0
    \* main isolate
    pc,          \* the call in progress: idle, subscribe, stream, destroy, closing, closed
    arg,         \* its key
    commands,    \* throttle commands sent
    mainPort,    \* its messages, oldest first
    mainOpen,    \* is the port open?
    streams,     \* [Keys -> "none", "open", "closed"]
    stateCtrl,   \* the state controller: "open", "closed"
    \* history
    forwarded,   \* [Keys -> Seq of [time, wall]]: when the worker let a message through
    asked,       \* [Keys -> Intervals or Never]: what the first subscription asked for
    delivered,   \* [Keys -> Seq of message numbers]: what reached a stream
    statesSeen,  \* state changes that reached the state stream
    orphans,     \* messages that found no stream for their key
    threw        \* was a message added to a closed stream controller?

native  == <<emptyName, subscribed, sent, states, errors>>
clock   == <<time, wall>>
workers == <<worker, throttles, forwarded>>
calls   == <<pc, arg, commands, asked>>
mains   == <<mainOpen, streams, stateCtrl, delivered, statesSeen, orphans, threw>>
vars == <<native, clock, workerPort, workers, calls, mainPort, mains>>

Init ==
    /\ emptyName \in {FALSE, EmptyNames}
    /\ subscribed = {} /\ sent = [k \in Keys |-> 0] /\ states = 0 /\ errors = 0
    /\ time = 0 /\ wall = 0
    /\ workerPort = <<>> /\ worker = "alive"
    /\ throttles = [k \in Keys |-> [interval |-> 0, last |-> Never]]
    /\ pc = "idle" /\ arg = Never /\ commands = 0
    /\ asked = [k \in Keys |-> Never]
    /\ mainPort = <<>> /\ mainOpen = TRUE
    /\ streams = [k \in Keys |-> "none"] /\ stateCtrl = "open"
    /\ forwarded = [k \in Keys |-> <<>>]
    /\ delivered = [k \in Keys |-> <<>>] /\ statesSeen = 0
    /\ orphans = 0 /\ threw = FALSE

\* Sending to a worker whose port is gone is not an error: the message is lost.
SendToWorker(m) ==
    workerPort' = IF worker = "alive" THEN Append(workerPort, m) ELSE workerPort

SendToMain(m) ==
    mainPort' = IF mainOpen THEN Append(mainPort, m) ELSE mainPort

-----------------------------------------------------------------------------
(* Native callbacks: post_message_to_dart and post_to_dart. *)

Notify(k) ==
    /\ k \in subscribed /\ sent[k] < MaxEvents
    /\ sent' = [sent EXCEPT ![k] = @ + 1]
    /\ SendToWorker([kind |-> "message", key |-> k, n |-> sent[k] + 1])
    /\ UNCHANGED <<emptyName, subscribed, states, errors, clock, workers, calls, mainPort, mains>>

\* on_state: disc, registered byte, app_name; two bytes when the name is empty.
StateChanges ==
    /\ pc \notin {"closing", "closed"} /\ states + errors < MaxStates
    /\ states' = states + 1
    /\ SendToWorker([kind |-> "state", twoBytes |-> emptyName])
    /\ UNCHANGED <<emptyName, subscribed, sent, errors, clock, workers, calls, mainPort, mains>>

\* The event loop threw: start()'s thread posts the error, once.
LoopError ==
    /\ pc \notin {"closing", "closed"} /\ errors = 0 /\ states < MaxStates
    /\ errors' = errors + 1
    /\ SendToWorker([kind |-> "error", twoBytes |-> FALSE])
    /\ UNCHANGED <<emptyName, subscribed, sent, states, clock, workers, calls, mainPort, mains>>

Tick ==
    /\ time < MaxTime
    /\ time' = time + 1 /\ wall' = wall + 1
    /\ UNCHANGED <<native, workerPort, workers, calls, mainPort, mains>>

\* DateTime.now() is the wall clock: it can be set forward and back, as often as
\* whoever keeps the time corrects it.
ClockSet ==
    /\ wall' \in {time + s : s \in Skews} \ {wall}
    /\ UNCHANGED <<native, time, workerPort, workers, calls, mainPort, mains>>

-----------------------------------------------------------------------------
(* The worker isolate: workerIsolateMain and _handleDisc. *)

Now == [time |-> time, wall |-> wall]

Worker(m) ==
    /\ worker = "alive" /\ workerPort # <<>>
    /\ m = Head(workerPort)
    /\ workerPort' = Tail(workerPort)

\* Mutant: one tick early.
RateExceededEarly(t) == t.interval > 0 /\ t.last # Never /\ wall - t.last < t.interval - 1

\* Mutant: one tick late.
RateExceededLate(t) == t.interval > 0 /\ t.last # Never /\ wall - t.last <= t.interval

\* shouldForward() says no: less than an interval after the last forwarded one.
RateExceeded(t) == t.interval > 0 /\ t.last # Never /\ wall - t.last < t.interval

\* _handleMessage lets a message through.
Forward(m) ==
    /\ Worker(m) /\ m.kind = "message"
    /\ ~RateExceeded(throttles[m.key])
    /\ throttles' = IF throttles[m.key].interval = 0 THEN throttles
                    ELSE [throttles EXCEPT ![m.key].last = wall]
    /\ forwarded' = [forwarded EXCEPT ![m.key] = Append(@, Now)]
    /\ SendToMain(m)
    /\ UNCHANGED <<native, clock, worker, calls, mains>>

\* _handleMessage drops a message: rate limit exceeded.
Drop(m) ==
    /\ Worker(m) /\ m.kind = "message"
    /\ RateExceeded(throttles[m.key])
    /\ UNCHANGED <<native, clock, workers, calls, mainPort, mains>>

\* A Uint8List of two bytes IS a List of length two: its first byte is cast to
\* a Uint8List, the cast throws and the uncaught error ends the isolate.
WorkerDies(m) ==
    /\ Worker(m) /\ m.kind \in {"state", "error"} /\ m.twoBytes
    /\ worker' = "dead"
    /\ UNCHANGED <<native, clock, throttles, forwarded, calls, mainPort, mains>>

\* Mutant: state events are taken for messages nobody needs.
ForwardOtherForgetsState(m) ==
    /\ Worker(m) /\ m.kind \in {"state", "error"} /\ ~m.twoBytes
    /\ IF m.kind = "state" THEN UNCHANGED mainPort ELSE SendToMain(m)
    /\ UNCHANGED <<native, clock, workers, calls, mains>>

\* State events are decoded, errors and subscribe acks passed on raw.
ForwardOther(m) ==
    /\ Worker(m) /\ m.kind \in {"state", "error"} /\ ~m.twoBytes
    /\ SendToMain(m)
    /\ UNCHANGED <<native, clock, workers, calls, mains>>

\* SetThrottleCmd: a fresh SignalThrottle replaces whatever was there.
InstallThrottle(m) ==
    /\ Worker(m) /\ m.kind = "throttle"
    /\ throttles' = [throttles EXCEPT ![m.key] =
                        [interval |-> m.interval, last |-> Never]]
    /\ UNCHANGED <<native, clock, worker, forwarded, calls, mainPort, mains>>

\* 'shutdown', when it comes before the kill takes effect.
Shutdown(m) ==
    /\ Worker(m) /\ m.kind = "shutdown"
    /\ worker' = "closed"
    /\ UNCHANGED <<native, clock, throttles, forwarded, calls, mainPort, mains>>

WorkerStep ==
    workerPort # <<>> /\ LET m == Head(workerPort) IN
        \/ Forward(m) \/ Drop(m) \/ WorkerDies(m) \/ ForwardOther(m)
        \/ InstallThrottle(m) \/ Shutdown(m)

\* Isolate.kill(immediate) takes effect.
Killed ==
    /\ pc \in {"destroy", "closing", "closed"} /\ worker \in {"alive", "closed"}
    /\ worker' = "killed"
    /\ workerPort' = <<>>
    /\ UNCHANGED <<native, clock, throttles, forwarded, calls, mainPort, mains>>

-----------------------------------------------------------------------------
(* The main isolate: subscribeEvent, setThrottle, unsubscribeEvent, close. *)

Command(k, i) == /\ SendToWorker([kind |-> "throttle", key |-> k, interval |-> i])
                 /\ commands' = commands + 1

\* subscribeEvent: send the throttle if maxHz > 0 ...
Subscribe(k, i) ==
    /\ pc = "idle" /\ (i > 0 => commands < MaxThrottles)
    /\ pc' = "subscribe" /\ arg' = k
    /\ IF i > 0 THEN Command(k, i) ELSE UNCHANGED <<workerPort, commands>>
    /\ asked' = [asked EXCEPT ![k] = IF @ = Never THEN i ELSE @]
    /\ UNCHANGED <<native, clock, workers, mainPort, mains>>

\* ... then subscribe, from which on native threads post events ...
SubscribeNative ==
    /\ pc = "subscribe"
    /\ pc' = "stream"
    /\ subscribed' = subscribed \cup {arg}
    /\ UNCHANGED <<emptyName, sent, states, errors, clock, workerPort, workers, arg, commands, asked,
                   mainPort, mains>>

\* ... then create the stream, unless it is there already.
SubscribeStream ==
    /\ pc = "stream"
    /\ pc' = "idle" /\ arg' = Never
    /\ streams' = [streams EXCEPT ![arg] = IF @ = "none" THEN "open" ELSE @]
    /\ UNCHANGED <<native, clock, workerPort, workers, commands, asked, mainPort, mainOpen,
                   stateCtrl, delivered, statesSeen, orphans, threw>>

SetThrottle(k, i) ==
    /\ pc = "idle" /\ commands < MaxThrottles
    /\ Command(k, i)
    /\ UNCHANGED <<native, clock, workers, pc, arg, asked, mainPort, mains>>

\* unsubscribeEvent: the stream stays open and the throttle in place.
Unsubscribe(k) ==
    /\ pc = "idle" /\ k \in subscribed
    /\ subscribed' = subscribed \ {k}
    /\ UNCHANGED <<emptyName, sent, states, errors, clock, workerPort, workers, calls, mainPort, mains>>

\* close(): 'shutdown' and the kill are on their way ...
Close ==
    /\ pc = "idle"
    /\ pc' = "destroy"
    /\ SendToWorker([kind |-> "shutdown"])
    /\ UNCHANGED <<native, clock, workers, arg, commands, asked, mainPort, mains>>

\* Mutant: the main port stays open while the streams are closed.
CloseDestroyMainPortLast ==
    /\ pc = "destroy"
    /\ pc' = "closing"
    /\ subscribed' = {}
    /\ UNCHANGED <<emptyName, sent, states, errors, clock, workerPort, workers, arg, commands, asked,
                   mainPort, mains>>

\* ... appDestroy returns when no native callback is left; the port closes ...
CloseDestroy ==
    /\ pc = "destroy"
    /\ pc' = "closing"
    /\ subscribed' = {}
    /\ mainOpen' = FALSE /\ mainPort' = <<>>
    /\ UNCHANGED <<emptyName, sent, states, errors, clock, workerPort, workers, arg, commands, asked,
                   streams, stateCtrl, delivered, statesSeen, orphans, threw>>

\* ... and the streams are closed one by one, each awaited ...
CloseStream(k) ==
    /\ pc = "closing" /\ streams[k] = "open"
    /\ streams' = [streams EXCEPT ![k] = "closed"]
    /\ UNCHANGED <<native, clock, workerPort, workers, calls, mainPort, mainOpen, stateCtrl,
                   delivered, statesSeen, orphans, threw>>

\* ... the availability and state controllers last.
CloseRest ==
    /\ pc = "closing" /\ \A k \in Keys : streams[k] # "open"
    /\ stateCtrl' = "closed"
    /\ pc' = "closed"
    /\ UNCHANGED <<native, clock, workerPort, workers, arg, commands, asked, mainPort,
                   mainOpen, streams, delivered, statesSeen, orphans, threw>>

-----------------------------------------------------------------------------
(* _onMainPortMessage, one message to its end, never inside another call. *)

\* Mutant: messages are handled in the middle of a call.
AtEventLoopReentrant == mainOpen /\ mainPort # <<>>

AtEventLoop == pc \in {"idle", "closing", "closed"} /\ mainOpen /\ mainPort # <<>>

OnMessage ==
    /\ AtEventLoop /\ Head(mainPort).kind = "message"
    /\ mainPort' = Tail(mainPort)
    /\ LET m == Head(mainPort) IN
         /\ delivered' = IF streams[m.key] = "open"
                         THEN [delivered EXCEPT ![m.key] = Append(@, m.n)] ELSE delivered
         /\ orphans' = IF streams[m.key] = "none" THEN orphans + 1 ELSE orphans
         /\ threw' = (threw \/ streams[m.key] = "closed")
    /\ UNCHANGED <<native, clock, workerPort, workers, calls, mainOpen, streams, stateCtrl,
                   statesSeen>>

OnState ==
    /\ AtEventLoop /\ Head(mainPort).kind = "state"
    /\ mainPort' = Tail(mainPort)
    /\ statesSeen' = statesSeen + 1
    /\ threw' = (threw \/ stateCtrl = "closed")
    /\ UNCHANGED <<native, clock, workerPort, workers, calls, mainOpen, streams, stateCtrl,
                   delivered, orphans>>

\* A raw Uint8List is none of the three classes handled: it is dropped.
OnRaw ==
    /\ AtEventLoop /\ Head(mainPort).kind = "error"
    /\ mainPort' = Tail(mainPort)
    /\ UNCHANGED <<native, clock, workerPort, workers, calls, mainOpen, streams, stateCtrl,
                   delivered, statesSeen, orphans, threw>>

MainMessage == OnMessage \/ OnState \/ OnRaw
MainCall == \/ SubscribeNative \/ SubscribeStream
            \/ CloseDestroy \/ CloseRest \/ \E k \in Keys : CloseStream(k)
AppCalls == \/ Close
            \/ \E k \in Keys : Unsubscribe(k)
            \/ \E k \in Keys, i \in Intervals : Subscribe(k, i) \/ SetThrottle(k, i)
Native == StateChanges \/ LoopError \/ \E k \in Keys : Notify(k)

Next == \/ WorkerStep \/ Killed \/ MainMessage \/ MainCall
        \/ AppCalls \/ Native \/ Tick \/ ClockSet

Spec == Init /\ [][Next]_vars

\* Both isolates run their event loops.  A call runs to its end; between calls the
\* loop takes its events in the order they came, so a message in the port is
\* handled however often the application calls in between.
FairSpec == Spec /\ WF_vars(WorkerStep) /\ WF_vars(MainCall) /\ SF_vars(MainMessage)

-----------------------------------------------------------------------------
(* Properties *)

Closing == pc \in {"destroy", "closing", "closed"}

\* Every variable holds a value of its kind.
TypeOK ==
    /\ subscribed \subseteq Keys
    /\ sent \in [Keys -> 0..MaxEvents] /\ states \in 0..MaxStates
    /\ errors \in 0..1
    /\ time \in 0..MaxTime /\ wall \in Int
    /\ worker \in {"alive", "closed", "dead", "killed"}
    /\ \A k \in Keys :
          /\ throttles[k].interval \in Intervals \cup {0}
          /\ throttles[k].last = Never \/ throttles[k].last \in Int
    /\ pc \in {"idle", "subscribe", "stream", "destroy", "closing", "closed"}
    /\ arg \in Keys \cup {Never}
    /\ streams \in [Keys -> {"none", "open", "closed"}] /\ stateCtrl \in {"open", "closed"}
    /\ mainOpen \in BOOLEAN /\ threw \in BOOLEAN /\ emptyName \in BOOLEAN

\* How far the wall clock was set forward between two moments.
Gained(a, b) == (b.wall - b.time) - (a.wall - a.time)

\* A signal subscribed with maxHz is rate limited from its very first event: two
\* events forwarded under one throttle are a full interval apart in real time, less
\* only what the wall clock was set forward in between, which lets events through
\* early.  Events never overtake the throttle command sent before the subscription.
RateLimited ==
    \A k \in Keys : asked[k] \notin {0, Never} /\ commands = 1 =>
        \A i \in 1..(Len(forwarded[k]) - 1) :
            LET a == forwarded[k][i]
                b == forwarded[k][i + 1]
            IN  b.time - a.time >= asked[k] - Gained(a, b)

\* "a 1-token fill per (1/maxHz) interval": a message is only dropped within an
\* interval of the last one that was forwarded; a wall clock that was set back since
\* withholds messages for as long as it was set back by, and no longer, and one that
\* was set forward for as much less.
TokenRefills ==
    [][\A k \in Keys :
         (WorkerStep /\ Head(workerPort).kind = "message" /\ Head(workerPort).key = k
                     /\ forwarded'[k] = forwarded[k])
           => /\ forwarded[k] # <<>>
              /\ LET last == forwarded[k][Len(forwarded[k])]
                 IN  time - last.time < throttles[k].interval - Gained(last, Now)]_vars

\* No event finds its stream missing, although native threads post and the
\* worker forwards while subscribeEvent is still between its two last calls.
NoOrphans == orphans = 0

\* Nothing is added to a closed controller, whatever was still queued in either
\* port when close() began.
NeverAddsToClosed == ~threw

\* What was posted arrives: every state change, and every message of a signal
\* that was never throttled, unless the client is closed first.  An app without
\* a name loses its worker to its first state change; nothing is said of it then.
ReachesApp ==
    /\ \A n \in 1..MaxStates :
          states >= n ~> statesSeen >= n \/ Closing \/ worker = "dead"
    /\ \A n \in 1..MaxEvents, k \in Keys :
          sent[k] >= n ~> Len(delivered[k]) >= n \/ commands > 0 \/ Closing \/ worker = "dead"
=============================================================================
