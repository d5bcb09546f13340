# Specifications of vsomeip_dart

TLA+ models of vsomeip_dart, the bridge between COVESA vsomeip (SOME/IP) and
Dart: what its parts promise, checked with TLC on small instances, and proved
with TLAPS for every value of the parameters where the prover reaches. Paths are
those of the repository; `bridge.cpp` stands for `src/vsomeip_bridge.cpp`.

## The system

A Dart application makes a `VsomeipClient`. Its calls go through FFI to a C
library, which owns one `VsomeipApp` (a vsomeip application and the thread of
its event loop) per client. vsomeip calls back on its own threads; the library
filters and packs what it gets and posts it to the port of a *worker isolate*,
which throttles and decodes it and sends it on to the *main isolate*, which adds
it to the application's streams.

    main isolate --FFI--> bridge.cpp --> VsomeipApp --> vsomeip
         ^                   |  g_apps, g_handlers,        |
         |                   |  g_filters                  | callbacks, on its threads
    worker isolate <--post-- dispatch_message <------------+

| component | state | operations | interacts by |
|---|---|---|---|
| ring buffer (`src/ring_buffer.h`) | slots, atomic `head_`, `tail_` | push, pop, size | two threads, acquire/release |
| app table (`bridge.cpp` 172-273, 369-456) | `g_apps`, `g_handlers` under a mutex | create, destroy, subscribe, register, unregister | raw handles to Dart, callbacks from vsomeip |
| posting (`bridge.cpp` 57-168, 740-813) | one heap buffer per message | post, callback | Dart port, garbage collector |
| request/response (`bridge.cpp` 458-616) | completers, request ids | request, respond, offer | vsomeip's routing |
| events (`bridge.cpp`, both roles; `vsomeip_app.cpp`) | offers, kinds of events, subscriptions | offer, notify, request, subscribe and their ends | three connections of vsomeip |
| filters (`src/signal_filter.cpp`) | `g_filters`: filters by event and offset | set, clear, apply | dispatching threads, one lock |
| VsomeipApp (`src/vsomeip_app.cpp`) | `running_`, `thread_`, the environment | construct, start, stop | threads, process environment |
| client (`lib/src/vsomeip_client.dart`) | streams, ports | subscribe, throttle, close | messages |
| worker, throttle (`lib/src/vsomeip_worker.dart`, `throttle.dart`) | throttles | handle a message | messages |
| codec (`vsomeip_types.h`, `lib/src/ffi/codec.dart`) | none | encode, decode | bytes agreed on in two languages |
| service registry (`src/vsomeip_service.cpp`) | offered services | add, find, remove | a lock; tests only |
| Cap'n Proto path (`src/capnp_*.cpp`, `lib/generated`) | schema ids | build, align, read | offsets agreed on by hand |
| drone cockpit (`example/flutter_drone_cockpit`) | connection, timers | connect, reconnect, disconnect | async gaps |
| simulators (`src/tools/*_sim.cpp`) | the vehicle, what was published last | offer, tick, publish, shut down | main and vsomeip thread |
| vehicle app, build hooks, generated code | - | - | - |

What is hard here: two or more threads at almost every boundary (vsomeip's, the
loop thread, isolates); raw pointers handed to Dart as handles; ownership that
changes with the outcome of a post; teardown while callbacks run; asynchronous
ports whose contents outlive the state they were sent in; a clock; errors that
end a thread or an isolate and nobody waits for.

What makes each part correct:

- ring: no slot is read and written at once, nothing accepted is lost, repeated
  or reordered, `size()` may be relied on by its caller in the safe direction;
- app table: a destroyed app is quiet, a call uses a freed or another client's one
  only by a stale handle, the two maps agree, handlers go before the loop stops, the
  first notification finds its handler, close returns;
- posting: each buffer freed exactly once, never while Dart can reach it;
- request/response: answers go to their callers, requests complete;
- filters: one per offset, outputs depend on samples since the filter was set;
- VsomeipApp: never std::terminate, stop returns with the thread joined, each
  constructor's init() reads its own configuration;
- client and worker: what is posted arrives, at the rate asked for and no
  slower as far as the clock allows, nothing is added to a closed stream;
- codec and payloads: what one language wrote the other reads back, field by field;
- events: a subscribed client knows the current value of every field and the
  availability of the service once nothing is under way;
- simulators: everything is offered after each registration, a silent pilot loses
  control, what is sent only on change is current at whoever hears it, no handler
  outlives main.

PROJECT.json lists the hazards line by line with the properties that watch them.

## Modules

| module | models | needs |
|---|---|---|
| `BoundedFifo` | what the ring promises: a FIFO of N-1 places | - |
| `RingBuffer` | `spsc_ring_buffer` | `BoundedFifo` (refines it) |
| `RingBufferProofs` | safety theorems of the ring | `RingBuffer` |
| `Bridge` | lifecycle half of `bridge.cpp`, with callbacks and ports | - |
| `BridgeProofs` | safety theorems of the bridge | `Bridge` |
| `VsomeipApp` | `class VsomeipApp` | - |
| `Delivery` | client, worker, throttle, streams; native posts | - |
| `DeliveryProofs` | safety theorems of it | `Delivery` |
| `VsomeipAppProofs` | safety theorems of the app | `VsomeipApp` |
| `SignalFilter` | `FilterRegistry`, the filters, `dispatch_message` | - |
| `PostBuffers` | ownership in `post_to_dart` and its siblings | - |
| `PostBuffersProofs` | safety theorems of it | `PostBuffers` |
| `Requests` | `request()`, `respond()` and the way between them | - |
| `DispatchProofs` | filters return what their samples say; answers go to their callers | `SignalFilter`, `Requests` |
| `Wire` | headers and availability as bytes, both sides | - |
| `Payloads` | event payloads: writers and readers | `Wire` |
| `Events` | a service from offer to stream, two applications | `Wire`, `Payloads` |
| `EventsProofs` | byte round trips, safety theorems of events | `Events` |
| `SimProcess` | what the two simulators' `main()` share | - |
| `DroneSim`, `VehicleSim` | each simulator's handlers and loop body | `SimProcess` |
| `Simulators` | either of them with its surroundings | `DroneSim`, `VehicleSim` |
| `SimulatorsProofs` | safety theorems of them | `Simulators` |

`MC*` modules and configurations instantiate them for TLC. Definitions carry the
names of the code; "Mutant:" marks a plausible wrong version of the definition
that follows, used to see that a property can fail; no specification refers to
one.

**RingBuffer.** `push` is `PushFull` or `PushCheck`, `PushWrite`, `PushPublish`;
`pop` is `PopEmpty` or `PopCheck`, `PopRead`, `PopRelease`: one step per atomic or
shared access. The other thread's index is loaded with acquire and may be any value
between the last one seen and the current one (`Visible`), which is what the
memory model allows. `ProducerSize` and `ConsumerSize` are `size()` on either
side; `room` and `promise` record what it told its caller.

**Bridge.** One client is one Dart isolate with one app. A call takes a step at
each place where it drops `g_apps_mutex` or calls vsomeip. `get_app` gives out
the raw pointer (`app[c]`) and drops the lock. Handles are addresses; with
`ReuseAddresses` the allocator gives a freed one out again, with `StaleCalls` a
client goes on calling after `close()`. With both, a call may be left with the
pointer of a freed app, for which C++ promises nothing: `NoUseAfterFree` says when that
can happen, and the model then goes on with the freed object as it was, one
outcome of many. `Dispatch` and `StateCallback` are
callbacks in flight, `LoopFails` an event loop that throws. Calls that only look
up the handle and forward (request_service, offer_event, notify, ...) are `Call`
with `GetApp`.

**VsomeipApp.** The constructor's lock, `setenv` and `init()` are separate steps
of concurrent constructors; `start()` is its compare-and-swap and its spawn;
the thread's body, its exception path and `stop()`'s two halves are steps of their
own. `stop()` is called by the application, which may call `start()` again after it, or by
the destructor. `Unreliable` apps may lose their loop to an exception; `StartedOnce`
ones are started once between stops (`Repeatable`), by one caller at a time. Whether
vsomeip remembers a served stop request and ends the next loop too is left open.

**Delivery.** Both isolates handle one message to its end. A call of the main
isolate that has several visible effects is several steps, because native threads
post in between: `subscribeEvent` is `Subscribe` (the throttle command),
`SubscribeNative`, `SubscribeStream`; `close()` is `Close`, `CloseDestroy`,
`CloseStream` per stream, `CloseRest`. `time` is real time and `wall` what
`DateTime.now()` returns. `ClockSet` sets it to any reading that is ahead of real
time by one of the `Skews`, forward or back, as often as it likes; a clock that runs fast or
slow is a row of such steps. Only differences of readings are used, so the zero of the
clock is arbitrary. The code measures with that clock, so it keeps its interval only as
well: `RateLimited` and `TokenRefills` say that an event comes early by no more than the
clock was set forward since the last, and late by no more than it was set back
(`Gained`). `emptyName` is chosen by Init: an
app without a name loses its worker to its first state event (`WorkerDies`),
which `ReachesApp` excepts and nothing else does. Availability events take the
path of state events.

**SignalFilter.** `has_filter` (in `Arrive`) and `apply` (`ApplyFilters`) are two
steps, as the lock is taken twice. A payload is a tuple of words. A median keeps
the code's ring, index and full flag and is compared with the median of the
recorded samples. `UpperMedian` says which value sorting puts in the middle; the run's
module compares it with sorting for all tuples of up to five values. EMA and low-pass return any value between the previous output
and the sample: rounding is not modelled, nor are NaNs or offsets that overlap or
are unaligned.

**PostBuffers.** Steps are the post, the `release()` that follows a success, the
scope exit that follows a failure, and on Dart's side receiving, forgetting,
closing the port, finalizing. Headers are copied by the post and own nothing.
The callback path queues a pointer and frees the buffer on return.

**Requests.** Ids are below `Base` (2^16 in the code); the request id is packed and
unpacked by arithmetic, so `ResponseTo` shows which header fields a response really gets. The
provider is Dart code using `respond()` or another vsomeip application. A handler
is `onMessage`, which with `maxHz`, or a later `setThrottle`, has the worker drop
responses that come within the interval (`limited`, `ResponseThrottled`; when is in `Delivery`,
here any response but the first may be dropped). `HandlerGetsResponse` is about
handlers that were never throttled, and of the others asks that one
response arrives. vsomeip's
routing (by client id, then handler lookup) is external.

**Wire, Payloads.** A buffer is the sequence of its bytes. `encode_header` and
`on_availability` write what the C++ structs look like in memory, padding
included; `decodeHeader` and `decodeAvailability` read at the offsets
`codec.dart` uses. Nothing in Dart reads the schema id that `encode_capnp_header`
appends. `Payloads` has, per event, the simulator or builder that
writes it and the reader that takes it apart. An IEEE number is kept whole: which
bytes it takes is modelled, not its bits.

**Events.** Every function of the bridge that acts on a service or an event is one
action; `vsomeip_subscribe`, which makes three calls of vsomeip, is three. Each
message goes through `Wire` and `Payloads` on its way. vsomeip is external, and this
is what is assumed of it: each of the three connections (routing, subscriptions,
notifications) keeps its order and none is ordered against another; a wanted
group is subscribed again with every offer learnt of; accepting a subscription
sends the current value of all fields of the group; withdrawing a service drops its
cached values and subscriptions; a field that did not change is not sent again
unless forced; a requested service's state is answered at once.

**Simulators.** One module for the skeleton of both `main()`s, one for each
loop body. The main thread and the handlers on vsomeip's thread interleave at
each of their shared accesses. `pilot_input_age += dt` in `tick()` and the handler's
reset are a data race: a read and a write of their own (`TickReadsAge`,
`TickWritesAge`), so the reset can be lost, and `Fly` may use either value. Of the
kinematics only who is flying, the satellite count and the driving phase are kept;
the periodic events are represented by their payloads (`Payloads`) and by
the on-change event, the one that can be missed for good. Losing the routing manager
(`Deregisters`) loses every offer, the subscription and what was in flight; only the
state handler brings the offers back. A consumer comes and leaves as it likes.

## Runs

| run | question | bounds |
|---|---|---|
| `ring` | races, order, size, refinement, delivery | N = 4 slots, two kinds of entry, 6 pushes |
| `bridge` | two clients create, use, destroy while callbacks run, addresses reused | 2 clients, 2 addresses, 1 event, 1 method; clients and addresses symmetric |
| `bridge_stale` | calls with a handle after close, at an address that may have a new app; close returns | 2 clients, 2 addresses, 1 event |
| `app` | construct, start, lose the loop, stop, start again | 2 apps, 2 starters, 2 paths |
| `delivery` | subscribe, throttle, close against native posts; worker death; clock set; what is posted arrives | 1 key, intervals of 0 and 1 ticks, 2 events, 1 state or error, 1 command, 1 tick, clock right or 1 tick ahead |
| `filter` | filters set, replaced, cleared under two threads | 1 event of up to 2 words, windows of 1 and 3, 5 samples |
| `buffers` | ownership of posted buffers | 2 threads, 3 buffers |
| `requests` | answers and callers, a handler with and without a rate limit | 2 callers with 2 and 1 calls, 1 answer of a Dart provider, Base = 4 |
| `events` | field values and availability over three unordered connections, byte layouts | 2 events, 3 offers or requests, 2 subscriptions, 1 notification waiting when the next is made |
| `simulators` | registration, shutdown, on-change events, the pilot's race | 1 lost registration, 2 satellite counts, window of 3 ticks, 2 control messages, phases of up to 2 ticks, 1 waiting notification |
| `requests_result` | finding | smallest |
| `callback_listener` | finding | smallest |

The larger runs: `events` 3.5 million states, `bridge` 346,000, `delivery` 341,000 with
liveness, `simulators` 112,000 with liveness, `bridge_stale` 124,000 with liveness, `requests` 50,000 with
liveness; each takes less than three minutes with two workers.

Why these bounds are enough: the ring's indices wrap and both full and
empty occur with every stale view; two clients are the smallest number that shows
address reuse, one client's callback during the other's destroy, and the shared
maps; a second key of `Delivery` would share nothing with the first but the ports'
order; a tick of real time is one full interval, and a clock set forward by a tick lets a
message through a whole interval early, set back by a tick withholds one for as long; a median window of three wraps with five
samples, and is read while partly filled; three buffers let both threads hold one
while Dart holds another. `events` can offer, withdraw and offer again with the
subscription of the first life still under way, and subscribe to the second event
of a group that is subscribed. In `simulators` a window of three ticks lets an input
age, be renewed and lose its reset; after one lost registration everything has to be
offered again. Nothing is said of longer runs except where proved.

`CHECK_DEADLOCK FALSE` stands where a program may simply be finished: all clients
closed, all bounded inputs used. The ring's run keeps deadlock checking on.

Fairness, in the temporal properties only: a thread in the middle of a call goes
on (`Proceed`, `Join`, `PostStep`, producer and consumer of the ring); an event loop told to
stop ends and callbacks return, as vsomeip's `stop()` documents; both isolates
handle what is in their ports. `MainMessage` has strong fairness: an event loop
takes its events in order, so calls by the application in between cannot
postpone a queued message for ever. `FreedInTheEnd` assumes that messages become
unreachable and finalizers run. In `Simulators` the main thread, the vsomeip thread,
a handler that has begun and the network go on; that the routing manager
accepts the application's registration is assumed, a consumer that subscribes
is not. Nothing obliges an application to call, or a
message to arrive.

### Disagreements between code and documentation

- `requests_result`: `vsomeip_send_request` ignores `result_port` and
  `timeout_ms`; the future of `request()` never completes.
- `callback_listener`: a buffer given to the callback is deleted before a
  `NativeCallable.listener`, which the header recommends, reads it.

Met while modelling, and not runs of their own. Those that can hurt are listed as
hazards:

- a `Uint8List` of two bytes is a `List` of length two, so the worker takes the state
  event of an app with an empty name for a header/payload pair; the cast throws
  and the isolate ends (`delivery` has such apps);
- a repeated `start()` after the loop has thrown terminates the process;
- `VSOMEIP_CONFIGURATION` outlives the app that set it;
- the main isolate drops errors: no branch of `_onMainPortMessage` takes raw bytes;
- the throttle measures with the wall clock: setting it back starves a throttled signal, setting
  it forward lets events through early, each by no more than the clock was set;
- a handle used after `close()` may by then be the address of another client's app, and
  closing it again destroys that one;
- a Dart provider's responses name no method, and service and instance come from
  bits of the id nobody set;
- `vsomeip_capnp_notify` ignores schema and fields and publishes an empty payload;
- `vsomeip_unsubscribe` ends the whole group, and leaves handler and event request;
- nothing in `VsomeipClient` calls `vsomeip_request_service`;
- `decodeState` takes a name byte by byte (`fromCharCodes`), its comment says UTF-8;
- `vehicle_sim` withdraws only its speed event, the other three stay offered;
- `tool/capnp_dart_gen.py` aligns fields, which would move `VehicleSpeed.timestamp`
  to 8; builder and reader in the tree agree on 4.

## Proofs

`RingBufferProofs` proves, for every N that is a power of two of at least 2 and any set of
entries, that the specification implies `TypeOK`, `NoDataRace`, `FifoDelivery` and
`SizeIsSafe`. None is inductive. `IInv` adds `IndexOrder` (going round from the
producer's view of `tail` one meets `tail`, then the consumer's view of `head`,
then `head`), `ProducerInv` and `ConsumerInv` (what each thread may rely on between
its steps) and `ContentInv` (the slots between the indices hold what has been accepted
and not yet returned). The argument is arithmetic modulo N on `Dist`, stated in lemmas
(`SlotBelow`, `DistSuccUpper`, `SlotAfterSucc`, ...) and used by one lemma per action.

`BridgeProofs` has two halves, for any sets of clients, addresses and keys. The first
assumes nothing of how the clients use their handles: `TypeOK`, `DestroyedIsQuiet`,
`NoUseAfterFree` and `OwnAppOnly`, by `AnyUseInv`: live apps have different addresses
(`ApartInv`), what a client has in hand at a label (`HandInv`), what the pointer of a call may
point at and who else may free that (`PointerInv`), an app taken by destroy is its alone
(`TakenInv`), `g_apps` maps an address to the live app there (`PublishedInv`), and threads
and callbacks are inside live apps (`InsideInv`). `NoUseAfterFree` is not that nothing freed is
ever used, which the code does not give: it is that a pointer dangles only where another client
keeps the handle of a destroyed app of that same address. The second half proves
`HandlersGoneBeforeStop`, `RegistryConsistent` and `NoEventWithoutHandler` under
`UsageAssumption`: not both stale calls and address reuse. It is needed: a
stale `subscribe` puts its key into the table of the app that now lives at the address, whose
client may be destroying it. `IInv` ties a client's program
counter to its app: `AddressInv` (two apps never answer to one address), `CallInv` (what a
call may assume of its local pointer), `AppsInv` (who owns a table entry), `TableInv` and
`SubsInv` (handlers in vsomeip are tracked or about to be), `NewInv`.

`RingBufferProofs` also proves that the ring implements `BoundedFifo`: `ContentsInv`
gives the abstract queue from the indices and slots, `PutStep` and `GetStep` show
that publishing and releasing are its two actions, `StutterStep` that all other steps
leave it alone, and `RefinementStep` puts them together.

`EventsProofs` begins with the bytes: headers, request ids and availability events are
read back as they were written, for every value of every field; the schema id behind a
Cap'n Proto header, which nothing in Dart reads, leaves the header readable. `Halves`, `TwoBytes`, `Bytes16` and `Bytes32` split an
unsigned number into its bytes and put it together again; a theorem then compares
offset by offset. For the payloads it is enough that the fields of a layout lie apart
(`Apart`) and that each reader asks for a field where its writer put it. With this
`HeardWhole` holds for any events and any values. `FieldViewIsCurrent` and
`AvailabilityIsCurrent` speak of quiescence, and their inductive forms of what is under
way: the last word on the routing connection is the service's state (`RoutingInv`); for a
client that listens, either a subscription is still on its way to the provider, or it
has been accepted and, for each field, the newest value is the last one on the
notification connection or already heard (`FieldInv`, by `Current`). `CacheInv` and
`CallInv` keep what a subscription in three calls has done so far.

`VsomeipAppProofs`: `TypeOK`, `OwnConfig`, `NeverTerminates` and `StopJoins` for any apps,
starters and configurations. `IInv` says, besides, that the environment holds the
path of the constructor in the lock (`EnvInv`), who may still be in `start()`
(`NewInv`, `SpawnInv`), what a thread's existence tells of its app (`ThreadInv`)
and what is over when the object is (`EndInv`). `UsageAssumption`, that an app whose loop
may throw is started once between stops, cannot be dropped: without it the repeated `start()` above
assigns to a joinable thread.

`PostBuffersProofs`: `FreedOnce` and `DartSeesLive` for any threads and buffers. The
argument is ownership: a buffer belongs to one thread (`ThreadsInv`), to
both sides between a successful post and `release()` (`HandOverInv`), then to Dart
(`DartInv`), and is freed by its last owner (`FreesInv`).

`DeliveryProofs`: `NoOrphans`, `NeverAddsToClosed` and `RateLimited` for any number of
signals and any intervals, over both unbounded ports. `KnownInv`: a signal with
an event anywhere has its stream or is in the middle of `subscribeEvent` with the
main isolate busy. `CloseInv`: from the first closed stream on the port is closed.
`AskedInv`, per signal and until its throttle is changed: either its throttle command is ahead
of every event of it in the worker's port (`Pending`), or the worker has it and remembers what the wall
clock said when the last event passed (`Installed`). Both times of that moment are in
`forwarded`, so a difference of readings is a difference of real times and of what the clock
gained (`Apart`). `TokenRefills` is an action property: no step withholds an event once an
interval, and what the clock was set back, has passed. `TokenInv`: what a throttle remembers
is the reading at an event that did pass.

`SimulatorsProofs`: `OverrideEnds` (by `AgeInv`: the age `tick()` knows is never less than the
silence, which needs the argument that a lost reset only makes it older),
`HandlersBeforeExit` (by `ThreadInv`) and `ShownIsCurrent` (by `ShownInv`: the newest
notification carries what is shown, except between a tick and its publishing).

`DispatchProofs` is about what `dispatch_message` does to a message. For any threads,
events, offsets, samples and windows: `OneFilterPerOffset`, `MedianOfLastSamples` and
`SmoothedWithinSamples`. `HistoryInv` says of every filter in the registry that it is in the state
its samples bring it to (`Holds`): a median's ring holds the newest samples, the d-th last
of them d places before the write index (`RingState`, `Slot`), and a smoother's last
output lies between two of them (`Within`). `PushRing` and `ApplyHolds` keep this for one
sample; the lemmas on `WithFilter` and `WithoutOffset` show that the filters at other
offsets keep their state when one is set or cleared. The ring is a rotation of the
samples, so the two have the same median (`MedianOfPermuted`, `WindowMedian`), which
exists for any tuple (`MedianExists`). Where an induction over the data would be used,
`Least` takes the least element of a set of numbers, from the library's well-foundedness
of `<`. For requests: `AnswersItsCaller` for any clients and any `Base` of at least 2. Each
request id the provider holds (`InboxInv`) packs a client and session that were sent
(`NetworkInv`), and `Unpacked` takes them out again.

Constants are assumed to be as their modules' named ASSUMEs say: no reserved value is among
the ordinary ones, the ring's size is a power of two.

Every safety property of the runs is proved. Left to TLC: liveness and everything
under fairness, which the prover does not reach, and that `UpperMedian` is what sorting gives
(what a recursive definition computes needs induction over data). The proofs about bytes and ids say nothing about the code's
casts beyond what `Wire` models.

## Not modelled

- vsomeip itself (service discovery, routing) beyond what its callers in `src/`
  rely on and what is stated above;
- `CapnpSubscriber`'s handler table, aligned copy and selective decoder and the
  service registry: nothing but tests calls them. `ServiceRegistry::find` returns a
  pointer that outlives its lock; the aligned copy may come back null with its length;
- the cockpit's connection (`_connect`, `_reconnect`, `_disconnect` and the
  watchdog), the user interfaces and the Dart examples, which are sequential calls of the
  client's API;
- `generated/capnp/*.h`, which no code of the library includes; FFI bindings (argument
  marshalling), build hooks, scripts;
- float arithmetic, allocation failure (a message is dropped before anything is
  owned), the text of states and errors, the subscribe acknowledgement (nothing
  posts one).

## Plan

1. Done: ring, bridge, VsomeipApp, Delivery, filters, posting, requests, events, wire
   formats, payloads, simulators; proofs of every safety property the runs check,
   and of the ring's refinement.
2. Next, models: the cockpit's connection overlapping with itself across awaits; the
   service registry (lookups that outlive the lock); an app with a null configuration
   after one with a path; an abstract stream of events that `Delivery` implements.
3. Next, compositions: `Bridge` with the detailed `VsomeipApp` in place of its
   one-step start and stop; `PostBuffers` below `Delivery`.
4. Next, proofs: the step simulations of those refinements once they are stated.
