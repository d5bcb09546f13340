------------------------------- MODULE Events -------------------------------
(***************************************************************************)
(* One service from end to end: a provider app offers it and publishes     *)
(* events through the C ABI (src/vsomeip_bridge.cpp, provider role), a     *)
(* consumer app requests it and subscribes (consumer role), and vsomeip    *)
(* carries offers, subscriptions and notifications between the two.        *)
(*                                                                         *)
(* vsomeip is external: what is assumed of it is stated where it acts.     *)
(* The ports between the vsomeip thread and the Dart stream are modelled   *)
(* in Delivery; here a message is decoded in the step that dispatches it.  *)
(***************************************************************************)
EXTENDS Wire, Payloads, SequencesExt

CONSTANTS
    ServiceId, InstanceId,  \* the service
    EventIds,               \* its events, all of one event group
    Client,                 \* the client id vsomeip puts into a message
    Values,                 \* payloads the provider publishes
    Empty,                  \* a payload of length 0
    None,                   \* nothing: no value cached, nothing heard
    MaxOffers,              \* bound: how often the service is offered or requested
    MaxSubscribes,          \* bound: calls of vsomeip_subscribe
    MaxQueue                \* bound: notifications in flight when one more is published

ASSUME IdsAssumption == {ServiceId, InstanceId, Client} \cup EventIds \subseteq U16
ASSUME ValuesAssumption == None \notin Values /\ Empty \notin Values /\ None # Empty
ASSUME BoundsAssumption == {MaxOffers, MaxSubscribes, MaxQueue} \subseteq Nat

VARIABLES
    \* provider
    offered,     \* is the service offered?
    offers,      \* how often it was
    kinds,       \* [EventIds -> "none", "event", "field"]: offered events
    cache,       \* [EventIds -> payload or None]: the value vsomeip keeps of a field
    accepted,    \* does the provider send the group's events to the consumer?
    \* in flight, oldest first; each connection is ordered, the three are not
    routing,     \* offers (TRUE) and stopped offers (FALSE), to the consumer
    toProvider,  \* "subscribe", "unsubscribe"
    toConsumer,  \* notifications <<event, payload>>
    \* consumer: its vsomeip application
    requested,   \* request_service was called
    requests,    \* how often
    known,       \* is the service available, as far as this application knows?
    handlers,    \* events with a message handler
    events,      \* events requested with request_event
    wanted,      \* is the event group subscribed to?
    pc,          \* vsomeip_subscribe in progress: "idle", "registered", "requested"
    arg,         \* its event
    subscribes,  \* calls of it so far
    \* Dart
    heard,       \* [EventIds -> payload or None]: the stream's last message
    avail,       \* the availability stream's last event, FALSE before the first
    garbled      \* history: a decoded message was not the one dispatched

provider == <<offered, offers, kinds, cache, accepted>>
flights  == <<routing, toProvider, toConsumer>>
consumer == <<requested, requests, known, handlers, events, wanted, pc, arg, subscribes>>
dart     == <<heard, avail, garbled>>
vars     == <<provider, flights, consumer, dart>>

Init ==
    /\ offered = FALSE /\ offers = 0 /\ accepted = FALSE
    /\ kinds = [e \in EventIds |-> "none"] /\ cache = [e \in EventIds |-> None]
    /\ routing = <<>> /\ toProvider = <<>> /\ toConsumer = <<>>
    /\ requested = FALSE /\ requests = 0 /\ known = FALSE
    /\ handlers = {} /\ events = {} /\ wanted = FALSE
    /\ pc = "idle" /\ arg = None /\ subscribes = 0
    /\ heard = [e \in EventIds |-> None] /\ avail = FALSE /\ garbled = FALSE

\* The consumer is told of the offers of services it has requested.
Announce(isOffered) == routing' = IF requested THEN Append(routing, isOffered) ELSE routing

-----------------------------------------------------------------------------
(* Provider role.  Each function of the bridge is one call of vsomeip.     *)

vsomeip_offer_service ==
    /\ ~offered /\ offers + requests < MaxOffers
    /\ offered' = TRUE /\ offers' = offers + 1
    /\ Announce(TRUE)
    /\ UNCHANGED <<kinds, cache, accepted, toProvider, toConsumer, consumer, dart>>

\* VsomeipService.stop().  The events stay offered; vsomeip drops their cached
\* values and every subscription with the offer.
vsomeip_stop_offer_service ==
    /\ offered
    /\ offered' = FALSE /\ accepted' = FALSE
    /\ cache' = [e \in EventIds |-> None]
    /\ Announce(FALSE)
    /\ UNCHANGED <<offers, kinds, toProvider, toConsumer, consumer, dart>>

vsomeip_offer_event(e, is_field) ==
    /\ kinds[e] = "none"
    /\ kinds' = [kinds EXCEPT ![e] = IF is_field THEN "field" ELSE "event"]
    /\ UNCHANGED <<offered, offers, cache, accepted, flights, consumer, dart>>

vsomeip_stop_offer_event(e) ==
    /\ kinds[e] # "none"
    /\ kinds' = [kinds EXCEPT ![e] = "none"]
    /\ cache' = [cache EXCEPT ![e] = None]
    /\ UNCHANGED <<offered, offers, accepted, flights, consumer, dart>>

\* notify: a field keeps its value and is sent only when that changed or the
\* caller forces it; an event that is not offered is dropped.
Publish(e, v, force) ==
    /\ offered /\ kinds[e] # "none" /\ Len(toConsumer) < MaxQueue
    /\ cache' = IF kinds[e] = "field" THEN [cache EXCEPT ![e] = v] ELSE cache
    /\ toConsumer' = IF accepted /\ (kinds[e] = "field" => cache[e] # v \/ force)
                     THEN Append(toConsumer, <<e, v>>) ELSE toConsumer
    /\ UNCHANGED <<offered, offers, kinds, accepted, routing, toProvider, consumer, dart>>

vsomeip_notify(e, v, force) == v \in Values /\ Publish(e, v, force)

\* Ignores the schema and the fields it is given and publishes an empty payload.
vsomeip_capnp_notify(e, force) == Publish(e, Empty, force)

-----------------------------------------------------------------------------
(* Consumer role. *)

\* vsomeip answers with the state of the service.
vsomeip_request_service ==
    /\ ~requested /\ offers + requests < MaxOffers
    /\ requested' = TRUE /\ requests' = requests + 1
    /\ routing' = Append(routing, offered)
    /\ UNCHANGED <<provider, toProvider, toConsumer, known, handlers, events, wanted, pc, arg,
                   subscribes, dart>>

\* vsomeip forgets what it knew of the service; subscriptions stay.
vsomeip_release_service ==
    /\ requested
    /\ requested' = FALSE /\ known' = FALSE
    /\ UNCHANGED <<provider, flights, requests, handlers, events, wanted, pc, arg, subscribes, dart>>

\* vsomeip_subscribe, and vsomeip_subscribe_with_callback, _capnp_subscribe and
\* _capnp_subscribe_decoded, which do the same and ignore a schema: first the
\* message handler ...
subscribe_register(e) ==
    /\ pc = "idle" /\ subscribes < MaxSubscribes
    /\ pc' = "registered" /\ arg' = e /\ subscribes' = subscribes + 1
    /\ handlers' = handlers \cup {e}
    /\ UNCHANGED <<provider, flights, requested, requests, known, events, wanted, dart>>

\* ... then the event ...
subscribe_request ==
    /\ pc = "registered"
    /\ pc' = "requested"
    /\ events' = events \cup {arg}
    /\ UNCHANGED <<provider, flights, requested, requests, known, handlers, wanted, arg, subscribes,
                   dart>>

\* Mutant: a group that is subscribed already is not subscribed again.
subscribe_group_once ==
    /\ pc = "requested"
    /\ pc' = "idle" /\ arg' = None
    /\ wanted' = TRUE
    /\ toProvider' = IF known /\ ~wanted THEN Append(toProvider, "subscribe") ELSE toProvider
    /\ UNCHANGED <<provider, routing, toConsumer, requested, requests, known, handlers, events,
                   subscribes, dart>>

\* ... then the group.  vsomeip sends the subscription now if the service is
\* available, and with every offer it learns of from now on.
subscribe_group ==
    /\ pc = "requested"
    /\ pc' = "idle" /\ arg' = None
    /\ wanted' = TRUE
    /\ toProvider' = IF known THEN Append(toProvider, "subscribe") ELSE toProvider
    /\ UNCHANGED <<provider, routing, toConsumer, requested, requests, known, handlers, events,
                   subscribes, dart>>

\* Ends the whole group; message handlers and requested events stay.
vsomeip_unsubscribe ==
    /\ pc = "idle" /\ wanted
    /\ wanted' = FALSE
    /\ toProvider' = IF known THEN Append(toProvider, "unsubscribe") ELSE toProvider
    /\ UNCHANGED <<provider, routing, toConsumer, requested, requests, known, handlers, events,
                   pc, arg, subscribes, dart>>

-----------------------------------------------------------------------------
(* vsomeip threads. *)

\* Accepting a subscription sends the current value of every field of the group.
\* A subscription to a service that is not offered any more is dropped.
ProviderSubscribes ==
    /\ toProvider # <<>>
    /\ toProvider' = Tail(toProvider)
    /\ accepted' = (offered /\ Head(toProvider) = "subscribe")
    /\ LET fields == {e \in EventIds : kinds[e] = "field" /\ cache[e] # None}
       IN  toConsumer' = IF accepted'
                         THEN toConsumer \o SetToSeq({<<e, cache[e]>> : e \in fields})
                         ELSE toConsumer
    /\ UNCHANGED <<offered, offers, kinds, cache, routing, consumer, dart>>

\* The routing information arrives: vsomeip subscribes again if it has to, and
\* VsomeipApp::on_availability posts the struct, padding and all.
AvailabilityChanges(padding) ==
    /\ routing # <<>>
    /\ routing' = Tail(routing)
    /\ known' = Head(routing)
    /\ toProvider' = IF Head(routing) /\ wanted THEN Append(toProvider, "subscribe") ELSE toProvider
    /\ LET sent == [service_id |-> ServiceId, instance_id |-> InstanceId,
                    available |-> Head(routing)]
           got  == decodeAvailability(on_availability(sent, padding))
       IN  /\ avail' = got.available
           /\ garbled' = (garbled \/ got # sent)
    /\ UNCHANGED <<provider, toConsumer, requested, requests, handlers, events, wanted, pc, arg,
                   subscribes, heard>>

\* A notification of an event that was requested and has a handler is dispatched,
\* with or without a payload; the worker decodes the header and the main isolate
\* finds the stream by the key in it.
Dispatch ==
    /\ toConsumer # <<>>
    /\ toConsumer' = Tail(toConsumer)
    /\ LET event == Head(toConsumer)[1]
           value == Head(toConsumer)[2]
           sent  == PackHeader(ServiceId, InstanceId, event, 2, 0, Client, 0,
                               IF value = Empty THEN 0 ELSE 16)
           got   == decodeHeader(encode_header(sent))
       IN  IF event \in handlers \cap events
           THEN /\ heard' = [e \in EventIds |-> IF e = got.method_id THEN value ELSE heard[e]]
                /\ garbled' = (garbled \/ got # sent \/ fromByte(got.message_type) # 2
                                       \/ (value # Empty /\ ~PayloadsAgree))
           ELSE UNCHANGED <<heard, garbled>>
    /\ UNCHANGED <<provider, routing, toProvider, consumer, avail>>

Provider == \/ vsomeip_offer_service \/ vsomeip_stop_offer_service
            \/ \E e \in EventIds : \/ vsomeip_stop_offer_event(e)
                                   \/ \E flag \in BOOLEAN :
                                         \/ vsomeip_offer_event(e, flag)
                                         \/ vsomeip_capnp_notify(e, flag)
                                         \/ \E v \in Values : vsomeip_notify(e, v, flag)
Consumer == \/ vsomeip_request_service \/ vsomeip_release_service
            \/ \E e \in EventIds : subscribe_register(e)
            \/ subscribe_request \/ subscribe_group
            \/ vsomeip_unsubscribe
Vsomeip == ProviderSubscribes \/ Dispatch \/ \E padding \in {0, 255} : AvailabilityChanges(padding)

Next == Provider \/ Consumer \/ Vsomeip

Spec == Init /\ [][Next]_vars

-----------------------------------------------------------------------------
(* Properties *)

Quiet == flights = <<<<>>, <<>>, <<>>>> /\ pc = "idle"

\* A client that is subscribed knows the current value of every field: no value
\* falls between its handler, its event request and its subscription, however
\* offers, notifications and subscriptions overtake each other.
FieldViewIsCurrent ==
    Quiet /\ offered /\ requested /\ wanted =>
        \A e \in handlers : cache[e] # None => heard[e] = cache[e]

\* What Dart is told of the availability of the service ends up true, over any
\* number of offers and withdrawals that were under way together.
AvailabilityIsCurrent == Quiet /\ requested => avail = offered

\* What is heard is what was sent: no header field, payload field or flag is lost
\* or takes another's place between the two languages.
HeardWhole == ~garbled
=============================================================================
