------------------------------- MODULE Bridge -------------------------------
(***************************************************************************)
(* The lifecycle half of the C ABI (src/vsomeip_bridge.cpp): g_apps and    *)
(* g_handlers, the calls that read and write them, the vsomeip callbacks   *)
(* that run meanwhile on other threads, and the Dart ports they post to.   *)
(*                                                                         *)
(* A client is one VsomeipClient of one Dart isolate: it creates one app,  *)
(* makes its calls one after another, and closes it.  Clients run in       *)
(* parallel.  The app a client creates is named after the client; the      *)
(* handle is the ADDRESS of its VsomeipApp, which the allocator may give   *)
(* to a later app once the object is freed.                                *)
(***************************************************************************)
EXTENDS FiniteSets

CONSTANTS
    Clients,         \* the VsomeipClient objects of the process
    Handles,         \* addresses a VsomeipApp can have
    Events,          \* (service, instance, event) tuples to subscribe to
    Methods,         \* (service, instance, method) tuples to handle
    None,            \* nullptr, an empty map entry, no port
    StateChange,     \* what on_state / on_availability callbacks are about
    ReuseAddresses,  \* may the allocator hand out a freed address again?
    StaleCalls       \* may a client still call after its close() returned?

ASSUME NoneAssumption == None \notin Clients \cup Handles
ASSUME KeysAssumption == StateChange \notin Events \cup Methods /\ Events \cap Methods = {}
ASSUME FlagsAssumption == ReuseAddresses \in BOOLEAN /\ StaleCalls \in BOOLEAN

Keys == Events \cup Methods

VARIABLES
    \* the bridge's globals, each access under g_apps_mutex
    g_apps,      \* [Handles -> Clients or None]: handle to the app it owns
    g_handlers,  \* [Handles -> SUBSET Keys]: handler keys to tear down
    \* each client: its call in progress, that call's locals, its handle, its port
    pc, key, app, handlers, handle, port,
    \* each VsomeipApp: the object, its event loop thread, vsomeip's own tables
    object,      \* "none", "live", "freed"
    loop,        \* the thread in app_->start(): "none", "running", "stopping", "ended"
    table,       \* [Keys -> Clients or None]: message handlers, by the port they post to
    subs,        \* events subscribed to
    running      \* callbacks executing now: <<what, port>>

globals  == <<g_apps, g_handlers>>
locals   == <<pc, key, app, handlers>>
appstate == <<object, loop, table, subs, running>>
vars     == <<globals, locals, handle, port, appstate>>

Init ==
    /\ g_apps = [h \in Handles |-> None]
    /\ g_handlers = [h \in Handles |-> {}]
    /\ pc = [c \in Clients |-> "new"]
    /\ key = [c \in Clients |-> None]
    /\ app = [c \in Clients |-> None]
    /\ handlers = [c \in Clients |-> {}]
    /\ handle = [c \in Clients |-> None]
    /\ port = [c \in Clients |-> "open"]
    /\ object = [c \in Clients |-> "none"]
    /\ loop = [c \in Clients |-> "none"]
    /\ table = [c \in Clients |-> [k \in Keys |-> None]]
    /\ subs = [c \in Clients |-> {}]
    /\ running = [c \in Clients |-> {}]

Goto(c, l) == pc' = [pc EXCEPT ![c] = l]

\* Where a call returns to: open before close(), closed after it.
Return(c) == Goto(c, IF port[c] = "open" THEN "open" ELSE "closed")

\* A client makes one call at a time; after close() only if it kept the handle
\* and goes on using it (VsomeipClient never clears _handle).
Idle(c) == pc[c] = "open" \/ (StaleCalls /\ pc[c] = "closed" /\ handle[c] # None)

-----------------------------------------------------------------------------
(* vsomeip_app_create: construct, start, publish. *)

FreeAddresses ==
    Handles \ {handle[c] : c \in {d \in Clients : object[d] = "live" \/ ~ReuseAddresses}}

\* The constructor: create_application, init, register_handlers.
CreateConstruct(c) ==
    /\ pc[c] = "new"
    /\ \E h \in FreeAddresses : handle' = [handle EXCEPT ![c] = h]
    /\ object' = [object EXCEPT ![c] = "live"]
    /\ Goto(c, "start")
    /\ UNCHANGED <<globals, key, app, handlers, port, loop, table, subs, running>>

\* create_application or init() fails: an error is posted and null returned.
CreateFails(c) ==
    /\ pc[c] = "new"
    /\ Goto(c, "closed")
    /\ port' = [port EXCEPT ![c] = "closed"]
    /\ UNCHANGED <<globals, key, app, handlers, handle, appstate>>

\* start(): the loop runs, and calls back, before the app is published.
CreateStart(c) ==
    /\ pc[c] = "start"
    /\ loop' = [loop EXCEPT ![c] = "running"]
    /\ Goto(c, "publish")
    /\ UNCHANGED <<globals, key, app, handlers, handle, port, object, table, subs, running>>

\* The thread cannot be created: the app is destroyed again, null returned.
CreateStartFails(c) ==
    /\ pc[c] = "start"
    /\ object' = [object EXCEPT ![c] = "freed"]
    /\ handle' = [handle EXCEPT ![c] = None]
    /\ port' = [port EXCEPT ![c] = "closed"]
    /\ Goto(c, "closed")
    /\ UNCHANGED <<globals, key, app, handlers, loop, table, subs, running>>

CreatePublish(c) ==
    /\ pc[c] = "publish"
    /\ g_apps' = [g_apps EXCEPT ![handle[c]] = c]
    /\ Goto(c, "open")
    /\ UNCHANGED <<g_handlers, key, app, handlers, handle, port, appstate>>

-----------------------------------------------------------------------------
(* Calls that take a handle.  get_app looks the handle up and returns a raw  *)
(* pointer; the call goes on with it after the lock is gone.  Where the app  *)
(* was freed meanwhile C++ promises nothing: NoUseAfterFree says when that   *)
(* happens, and the call here goes on with the freed object as it was.       *)

\* Mutant: the handle is narrowed on its way, so that two addresses may meet.
GetAppNarrow(c, l, k) ==
    /\ Idle(c)
    /\ \E h \in Handles :
         /\ g_apps[h] # None
         /\ app' = [app EXCEPT ![c] = g_apps[h]]
    /\ key' = [key EXCEPT ![c] = k]
    /\ Goto(c, l)
    /\ UNCHANGED <<globals, handlers, handle, port, appstate>>

GetApp(c, l, k) ==
    /\ Idle(c)
    /\ LET a == g_apps[handle[c]] IN
         /\ a # None
         /\ app' = [app EXCEPT ![c] = a]
    /\ key' = [key EXCEPT ![c] = k]
    /\ Goto(c, l)
    /\ UNCHANGED <<globals, handlers, handle, port, appstate>>

\* get_app finds nothing: the call returns at once.
GetAppNull(c) ==
    /\ Idle(c)
    /\ g_apps[handle[c]] = None
    /\ UNCHANGED vars

\* Mutant: a method tuple is subscribed to like an event.
CallAnyKey(c) ==
    \/ \E k \in Keys : GetApp(c, "subscribe_register", k)
    \/ \E k \in Events : GetApp(c, "unsubscribe", k)
    \/ \E k \in Methods : GetApp(c, "register", k)
    \/ \E k \in Methods : GetApp(c, "unregister", k)

\* Any of the calls below, up to the return of its get_app.
Call(c) ==
    \/ \E k \in Events : GetApp(c, "subscribe_register", k)
    \/ \E k \in Events : GetApp(c, "unsubscribe", k)
    \/ \E k \in Methods : GetApp(c, "register", k)
    \/ \E k \in Methods : GetApp(c, "unregister", k)

Done(c) == app' = [app EXCEPT ![c] = None] /\ key' = [key EXCEPT ![c] = None] /\ Return(c)

\* application::register_message_handler: replaces the handler of that key.
RegisterMessageHandler(a, k, p) == table' = [table EXCEPT ![a][k] = p]

\* Mutant: subscribes before the handler is there.
SubscribeRegisterLate(c) ==
    /\ pc[c] = "subscribe_register"
    /\ subs' = [subs EXCEPT ![app[c]] = @ \cup {key[c]}]
    /\ Goto(c, "register")
    /\ UNCHANGED <<globals, key, app, handlers, handle, port, object, loop, table, running>>

\* vsomeip_subscribe, first the handler ...
SubscribeRegister(c) ==
    /\ pc[c] = "subscribe_register"
    /\ RegisterMessageHandler(app[c], key[c], c)
    /\ Goto(c, "subscribe_request")
    /\ UNCHANGED <<globals, key, app, handlers, handle, port, object, loop, subs, running>>

\* ... then request_event and subscribe, from which on events arrive ...
SubscribeRequest(c) ==
    /\ pc[c] = "subscribe_request"
    /\ subs' = [subs EXCEPT ![app[c]] = @ \cup {key[c]}]
    /\ Goto(c, "track")
    /\ UNCHANGED <<globals, key, app, handlers, handle, port, object, loop, table, running>>

\* vsomeip_register_message_handler
Register(c) ==
    /\ pc[c] = "register"
    /\ RegisterMessageHandler(app[c], key[c], c)
    /\ Goto(c, "track")
    /\ UNCHANGED <<globals, key, app, handlers, handle, port, object, loop, subs, running>>

\* Mutant: the handler is not remembered for the teardown.
TrackForgotten(c) ==
    /\ pc[c] = "track"
    /\ Done(c)
    /\ UNCHANGED <<globals, handlers, handle, port, appstate>>

\* ... last track_handler, in a critical section of its own.
Track(c) ==
    /\ pc[c] = "track"
    /\ g_handlers' = [g_handlers EXCEPT ![handle[c]] = @ \cup {key[c]}]
    /\ Done(c)
    /\ UNCHANGED <<g_apps, handlers, handle, port, appstate>>

\* vsomeip_unregister_message_handler: the key stays in g_handlers.
Unregister(c) ==
    /\ pc[c] = "unregister"
    /\ RegisterMessageHandler(app[c], key[c], None)
    /\ Done(c)
    /\ UNCHANGED <<globals, handlers, handle, port, object, loop, subs, running>>

\* vsomeip_unsubscribe: the message handler stays.
Unsubscribe(c) ==
    /\ pc[c] = "unsubscribe"
    /\ subs' = [subs EXCEPT ![app[c]] = @ \ {key[c]}]
    /\ Done(c)
    /\ UNCHANGED <<globals, handlers, handle, port, object, loop, table, running>>

-----------------------------------------------------------------------------
(* VsomeipClient.close(): kill the worker isolate, then vsomeip_app_destroy. *)

\* The kill is only requested here: the port closes some time from now on.
Close(c) ==
    /\ Idle(c)
    /\ port' = [port EXCEPT ![c] = IF @ = "open" THEN "closing" ELSE @]
    /\ Goto(c, "destroy")
    /\ UNCHANGED <<globals, key, app, handlers, handle, appstate>>

PortCloses(c) ==
    /\ port[c] = "closing"
    /\ port' = [port EXCEPT ![c] = "closed"]
    /\ UNCHANGED <<globals, locals, handle, appstate>>

\* An unknown handle, already destroyed: nothing to do.
DestroyUnknown(c) ==
    /\ pc[c] = "destroy"
    /\ g_apps[handle[c]] = None
    /\ Return(c)
    /\ UNCHANGED <<globals, key, app, handlers, handle, port, appstate>>

\* Mutant: the app is destroyed and its map entry stays behind.
DestroyTakeKeepEntry(c) ==
    /\ pc[c] = "destroy"
    /\ g_apps[handle[c]] # None
    /\ app' = [app EXCEPT ![c] = g_apps[handle[c]]]
    /\ handlers' = [handlers EXCEPT ![c] = g_handlers[handle[c]]]
    /\ g_handlers' = [g_handlers EXCEPT ![handle[c]] = {}]
    /\ Goto(c, "destroy_unregister")
    /\ UNCHANGED <<g_apps, key, handle, port, appstate>>

\* Mutant: the handler keys stay behind for the next app at this address.
DestroyTakeKeepKeys(c) ==
    /\ pc[c] = "destroy"
    /\ g_apps[handle[c]] # None
    /\ app' = [app EXCEPT ![c] = g_apps[handle[c]]]
    /\ handlers' = [handlers EXCEPT ![c] = g_handlers[handle[c]]]
    /\ g_apps' = [g_apps EXCEPT ![handle[c]] = None]
    /\ Goto(c, "destroy_unregister")
    /\ UNCHANGED <<g_handlers, key, handle, port, appstate>>

\* Under the lock: take the app and its handler keys out of the maps.
DestroyTake(c) ==
    /\ pc[c] = "destroy"
    /\ g_apps[handle[c]] # None
    /\ app' = [app EXCEPT ![c] = g_apps[handle[c]]]
    /\ handlers' = [handlers EXCEPT ![c] = g_handlers[handle[c]]]
    /\ g_apps' = [g_apps EXCEPT ![handle[c]] = None]
    /\ g_handlers' = [g_handlers EXCEPT ![handle[c]] = {}]
    /\ Goto(c, "destroy_unregister")
    /\ UNCHANGED <<key, handle, port, appstate>>

DestroyUnregister(c) ==
    /\ pc[c] = "destroy_unregister"
    /\ \E k \in handlers[c] :
         /\ handlers' = [handlers EXCEPT ![c] = @ \ {k}]
         /\ RegisterMessageHandler(app[c], k, None)
    /\ UNCHANGED <<globals, pc, key, app, handle, port, object, loop, subs, running>>

\* Mutant: the thread is joined without telling the loop to end.
DestroyNoStop(c) ==
    /\ pc[c] = "destroy_unregister"
    /\ handlers[c] = {}
    /\ Goto(c, "destroy_join")
    /\ UNCHANGED <<globals, key, app, handlers, handle, port, appstate>>

\* ~VsomeipApp: app_->stop() asks the loop to end ...
DestroyStop(c) ==
    /\ pc[c] = "destroy_unregister"
    /\ handlers[c] = {}
    /\ loop' = [loop EXCEPT ![app[c]] = IF @ = "running" THEN "stopping" ELSE @]
    /\ Goto(c, "destroy_join")
    /\ UNCHANGED <<globals, key, app, handlers, handle, port, object, table, subs, running>>

\* Mutant: the object goes without waiting for its thread.
DestroyNoJoin(c) ==
    /\ pc[c] = "destroy_join"
    /\ object' = [object EXCEPT ![app[c]] = "freed"]
    /\ Done(c)
    /\ UNCHANGED <<globals, handlers, handle, port, loop, table, subs, running>>

\* ... and join() waits until it has; then the object is freed.
DestroyJoin(c) ==
    /\ pc[c] = "destroy_join"
    /\ loop[app[c]] = "ended"
    /\ object' = [object EXCEPT ![app[c]] = "freed"]
    /\ Done(c)
    /\ UNCHANGED <<globals, handlers, handle, port, loop, table, subs, running>>

-----------------------------------------------------------------------------
(* vsomeip's threads, which live inside app_->start(). *)

\* A state or availability change calls back into the VsomeipApp.
StateCallback(a) ==
    /\ loop[a] = "running"
    /\ running' = [running EXCEPT ![a] = @ \cup {<<StateChange, a>>}]
    /\ UNCHANGED <<globals, locals, handle, port, object, loop, table, subs>>

\* A message arrives: a dispatcher copies its handler and calls it.
Dispatch(a, k) ==
    /\ loop[a] = "running"
    /\ k \in Methods \cup subs[a]
    /\ table[a][k] # None
    /\ running' = [running EXCEPT ![a] = @ \cup {<<k, table[a][k]>>}]
    /\ UNCHANGED <<globals, locals, handle, port, object, loop, table, subs>>

\* The callback posts to its port, which may be closed by now, and returns.
CallbackReturns(a) ==
    /\ \E cb \in running[a] : running' = [running EXCEPT ![a] = @ \ {cb}]
    /\ UNCHANGED <<globals, locals, handle, port, object, loop, table, subs>>

\* app_->start() returns once stop() was called and the callbacks are done.
LoopEnds(a) ==
    /\ loop[a] = "stopping"
    /\ running[a] = {}
    /\ loop' = [loop EXCEPT ![a] = "ended"]
    /\ UNCHANGED <<globals, locals, handle, port, object, table, subs, running>>

\* app_->start() throws: the thread posts an error and ends; nobody joins it yet.
LoopFails(a) ==
    /\ loop[a] = "running"
    /\ running[a] = {}
    /\ loop' = [loop EXCEPT ![a] = "ended"]
    /\ UNCHANGED <<globals, locals, handle, port, object, table, subs, running>>

Create(c) == \/ CreateConstruct(c) \/ CreateFails(c) \/ CreateStart(c)
             \/ CreateStartFails(c) \/ CreatePublish(c)
Use(c) == \/ Call(c) \/ GetAppNull(c) \/ SubscribeRegister(c) \/ SubscribeRequest(c)
          \/ Register(c) \/ Track(c) \/ Unregister(c) \/ Unsubscribe(c)
Destroy(c) == \/ Close(c) \/ DestroyUnknown(c) \/ DestroyTake(c)
              \/ DestroyUnregister(c) \/ DestroyStop(c) \/ DestroyJoin(c)
Vsomeip(a) == \/ StateCallback(a) \/ CallbackReturns(a) \/ LoopEnds(a) \/ LoopFails(a)
              \/ \E k \in Keys : Dispatch(a, k)

Next == \E c \in Clients : Create(c) \/ Use(c) \/ Destroy(c) \/ PortCloses(c) \/ Vsomeip(c)

Spec == Init /\ [][Next]_vars

\* A call in progress goes on; a callback in progress returns; a loop told to
\* stop does.  Nothing obliges a client to call, or a message to arrive.
Proceed(c) == \/ CreateStart(c) \/ CreatePublish(c)
              \/ SubscribeRegister(c) \/ SubscribeRequest(c) \/ Register(c)
              \/ Track(c) \/ Unregister(c) \/ Unsubscribe(c)
              \/ DestroyUnknown(c) \/ DestroyTake(c) \/ DestroyUnregister(c)
              \/ DestroyStop(c) \/ DestroyJoin(c)
Fairness == \A c \in Clients : /\ WF_vars(Proceed(c))
                               /\ WF_vars(CallbackReturns(c))
                               /\ WF_vars(LoopEnds(c))
FairSpec == Spec /\ Fairness

-----------------------------------------------------------------------------
(* Properties *)

Labels == {"new", "start", "publish", "open", "closed", "subscribe_register",
           "subscribe_request", "register", "unregister", "unsubscribe", "track",
           "destroy", "destroy_unregister", "destroy_join"}

\* Every variable holds a value of its kind.
TypeOK ==
    /\ g_apps \in [Handles -> Clients \cup {None}]
    /\ g_handlers \in [Handles -> SUBSET Keys]
    /\ pc \in [Clients -> Labels]
    /\ key \in [Clients -> Keys \cup {None}]
    /\ app \in [Clients -> Clients \cup {None}]
    /\ handlers \in [Clients -> SUBSET Keys]
    /\ handle \in [Clients -> Handles \cup {None}]
    /\ port \in [Clients -> {"open", "closing", "closed"}]
    /\ object \in [Clients -> {"none", "live", "freed"}]
    /\ loop \in [Clients -> {"none", "running", "stopping", "ended"}]
    /\ table \in [Clients -> [Keys -> Clients \cup {None}]]
    /\ subs \in [Clients -> SUBSET Events]
    /\ running \in [Clients -> SUBSET ((Keys \cup {StateChange}) \X Clients)]

\* Once vsomeip_app_destroy has freed an app, nothing of it is left that could
\* post: no thread, no callback in flight, no way to find it by its handle.
DestroyedIsQuiet ==
    \A a \in Clients : object[a] = "freed" =>
        /\ loop[a] \in {"none", "ended"}
        /\ running[a] = {}
        /\ \A h \in Handles : g_apps[h] # a

\* get_app gives a raw VsomeipApp* out and drops the lock.  A call is left with
\* one whose object is gone only if another client keeps the handle of a
\* destroyed app the allocator put at that same address: with no stale handle,
\* or no address reused, never.  A callback never runs in an object that is gone.
NoUseAfterFree ==
    \A c \in Clients :
        /\ app[c] # None /\ object[app[c]] # "live" =>
              \E d \in Clients \ {app[c]} :
                  handle[d] = handle[app[c]] /\ object[d] = "freed"
        /\ running[c] # {} => object[c] = "live"

\* By the time destroy stops the loop every message handler is unregistered,
\* however it was registered: the tracked keys cover vsomeip's own table.
HandlersGoneBeforeStop ==
    \A c \in Clients : pc[c] = "destroy_join" => \A k \in Keys : table[app[c]][k] = None

\* The two maps agree: a handle finds the app that lives at that address, and
\* an app created at a reused address inherits no handler keys.
RegistryConsistent ==
    \A h \in Handles :
        /\ g_apps[h] # None => object[g_apps[h]] = "live" /\ handle[g_apps[h]] = h
        /\ g_apps[h] = None => g_handlers[h] = {}

\* Handles are bare addresses, and yet: a client whose own app still lives acts
\* on no other, and one that acts on another's does so with the handle of its
\* destroyed app, at whose address that one lives or lived.  An app posts to no
\* other client's port but one of such a client.
OwnAppOnly ==
    \A c \in Clients :
        /\ app[c] \notin {c, None} => object[c] = "freed" /\ handle[c] = handle[app[c]]
        /\ \A cb \in running[c] : cb[2] # c => object[cb[2]] = "freed"

\* An app subscribed to an event has its handler in place, so that the initial
\* value sent on subscription finds it.
NoEventWithoutHandler ==
    \A c \in Clients : (\E h \in Handles : g_apps[h] = c) =>
        \A k \in subs[c] : table[c][k] # None

\* close() returns: the join never waits for a loop or a callback for ever.
CloseReturns == \A c \in Clients : pc[c] = "destroy" ~> pc[c] = "closed"
=============================================================================
