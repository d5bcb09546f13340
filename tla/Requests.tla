------------------------------ MODULE Requests ------------------------------
(***************************************************************************)
(* request() and respond(): the request/response path from one Dart client *)
(* through vsomeip to the provider of the service and back                 *)
(* (src/vsomeip_bridge.cpp, src/vsomeip_subscriber.cpp,                    *)
(* lib/src/vsomeip_client.dart, lib/src/vsomeip_service.dart).             *)
(*                                                                         *)
(* One method of one service.  The provider is either a Dart application,  *)
(* which sees a request as a SomeIpMessage and answers with its requestId, *)
(* or another vsomeip application, which answers the message it got.       *)
(*                                                                         *)
(* The specification's own names begin with Requests, so that the proofs   *)
(* about messages on their way to Dart can extend it beside SignalFilter.  *)
(***************************************************************************)
EXTENDS Integers, Sequences, FiniteSets

CONSTANTS
    Clients,      \* vsomeip client ids
    Limiting,     \* those among them that ask for a rate limit of the method
    Base,         \* values of a client, session, service or instance id: 2^16
    Service,      \* the service id
    Instance,     \* its instance id
    Method,       \* the method id
    MaxCalls,     \* bound: [Clients -> Nat], calls of request() and fireAndForget()
    MaxReplies    \* bound: responses the provider's application sends

Ids == 0..(Base - 1)

ASSUME BaseAssumption == Base \in Nat /\ Base >= 2
ASSUME IdsAssumption == Clients \cup {Service, Instance, Method} \subseteq Ids \ {0}
ASSUME LimitingAssumption == Limiting \subseteq Clients
ASSUME BoundsAssumption == MaxCalls \in [Clients -> Nat] /\ MaxReplies \in Nat

VARIABLES
    session,    \* [Clients -> the last session id vsomeip gave a request]
    requested,  \* [Clients -> SUBSET Ids]: sessions of the requests sent
    oneWay,     \* [Clients -> SUBSET Ids]: sessions of the fire-and-forget messages
    pending,    \* [Clients -> Nat]: futures request() returned, not yet completed
    handlers,   \* clients that registered a handler for the method
    limited,    \* [Clients -> "never", "on", "lifted"]: the throttle their worker holds
    offered,    \* "none", "dart", "other": who provides the service
    network,    \* the messages vsomeip has under way
    inbox,      \* requestIds the provider's application holds
    replies,    \* responses it has sent
    streamed,   \* [Clients -> SUBSET Ids]: sessions whose response reached a stream
    awaited     \* history: sessions requested of an offered service, handler in place

caller == <<session, requested, oneWay, pending, handlers, limited, awaited>>
requestsVars == <<caller, offered, network, inbox, replies, streamed>>

RequestsInit ==
    /\ session = [c \in Clients |-> 0] /\ requested = [c \in Clients |-> {}]
    /\ oneWay = [c \in Clients |-> {}]
    /\ pending = [c \in Clients |-> 0]
    /\ handlers = {} /\ offered = "none" /\ limited = [c \in Clients |-> "never"]
    /\ network = {} /\ inbox = {} /\ replies = 0
    /\ streamed = [c \in Clients |-> {}] /\ awaited = [c \in Clients |-> {}]

Message(type, service, instance, method, client, s) ==
    [type |-> type, service |-> service, instance |-> instance, method |-> method,
     client |-> client, session |-> s]

\* vsomeip numbers requests from 1 and skips 0 when it wraps.
NextSession(c) == IF session[c] = Base - 1 THEN 1 ELSE session[c] + 1

-----------------------------------------------------------------------------
(* The 64-bit request id. *)

\* Mutant: the client id is shifted one bit less.
RequestIdNarrow(client, s) == client * (Base \div 2) + s

\* on_message: (uint64(client_id) << 16) | session_id.
RequestId(client, s) == client * Base + s

\* The 16 bits of a field, which vsomeip_send_response takes by shift and mask.
Field(id, unit) == (id \div unit) % Base

\* The header of the response; set_method is never called on it.
ResponseTo(id) == Message("response", Field(id, Base^3), Field(id, Base^2), 0,
                          Field(id, Base), Field(id, 1))

-----------------------------------------------------------------------------
(* The caller. *)

\* VsomeipClient.onMessage, with which an app may listen to responses: maxHz > 0
\* sends the worker a throttle for the method, 0 leaves the one it holds.
RegisterHandler(c) ==
    /\ handlers' = handlers \cup {c}
    /\ \/ UNCHANGED limited
       \/ c \in Limiting /\ limited' = [limited EXCEPT ![c] = "on"]
    /\ UNCHANGED <<session, requested, oneWay, pending, awaited>>
    /\ UNCHANGED <<offered, network, inbox, replies, streamed>>

\* setThrottle: here maxHz = 0 replaces the throttle by one that lets all through.
SetThrottle(c) ==
    /\ c \in Limiting
    /\ \E l \in {"on", "lifted"} : limited' = [limited EXCEPT ![c] = l]
    /\ UNCHANGED <<session, requested, oneWay, pending, handlers, awaited>>
    /\ UNCHANGED <<offered, network, inbox, replies, streamed>>

MayCall(c) == pending[c] + Cardinality(oneWay[c]) < MaxCalls[c]

\* Mutant: build_request marks every message as one-way.
SendOneWay(c, type) ==
    /\ MayCall(c)
    /\ session' = [session EXCEPT ![c] = NextSession(c)]
    /\ network' = network \cup
                    {Message("no_return", Service, Instance, Method, c, NextSession(c))}

Send(c, type) ==
    /\ MayCall(c)
    /\ session' = [session EXCEPT ![c] = NextSession(c)]
    /\ network' = network \cup {Message(type, Service, Instance, Method, c, NextSession(c))}

\* request(): a completer, a result port nobody is told of (0 is passed), then
\* vsomeip_send_request, which uses neither result_port nor timeout_ms.
Request(c) ==
    /\ Send(c, "request")
    /\ requested' = [requested EXCEPT ![c] = @ \cup {NextSession(c)}]
    /\ pending' = [pending EXCEPT ![c] = @ + 1]
    /\ awaited' = IF c \in handlers /\ offered = "other"
                  THEN [awaited EXCEPT ![c] = @ \cup {NextSession(c)}] ELSE awaited
    /\ UNCHANGED <<oneWay, handlers, limited, offered, inbox, replies, streamed>>

\* request() with a payload over 1 MiB: nothing is sent, the future is returned.
RequestOversize(c) ==
    /\ MayCall(c)
    /\ pending' = [pending EXCEPT ![c] = @ + 1]
    /\ UNCHANGED <<session, requested, oneWay, handlers, limited, awaited>>
    /\ UNCHANGED <<offered, network, inbox, replies, streamed>>

FireAndForget(c) ==
    /\ Send(c, "no_return")
    /\ oneWay' = [oneWay EXCEPT ![c] = @ \cup {NextSession(c)}]
    /\ UNCHANGED <<requested, pending, handlers, limited, awaited, offered, inbox, replies,
                   streamed>>

-----------------------------------------------------------------------------
(* The provider. *)

\* offerService: requests_port is not used; the requests come by the handler the
\* application registers itself.
Offer(kind) ==
    /\ offered = "none"
    /\ offered' = kind
    /\ UNCHANGED <<caller, network, inbox, replies, streamed>>

IsRequest(m) == m.type \in {"request", "no_return"}

\* stop(): what the application already holds it may still answer.
StopOffer ==
    /\ offered = "dart"
    /\ offered' = "none"
    /\ UNCHANGED <<caller, network, inbox, replies, streamed>>

\* vsomeip finds no provider for a message.
NotOffered(m) ==
    /\ offered = "none" /\ m \in network /\ IsRequest(m)
    /\ network' = network \ {m}
    /\ UNCHANGED <<caller, offered, inbox, replies, streamed>>

\* A request is dispatched, packed, posted to Dart and decoded there.
DartReceives(m) ==
    /\ offered = "dart" /\ m \in network /\ IsRequest(m)
    /\ network' = network \ {m}
    /\ inbox' = inbox \cup {RequestId(m.client, m.session)}
    /\ UNCHANGED <<caller, offered, replies, streamed>>

\* respond(): as often as the application likes, to one-way messages as well.
Respond(id) ==
    /\ id \in inbox /\ replies < MaxReplies
    /\ replies' = replies + 1
    /\ network' = network \cup {ResponseTo(id)}
    /\ UNCHANGED <<caller, offered, inbox, streamed>>

\* Another vsomeip application answers with create_response(request).
OtherResponds(m) ==
    /\ offered = "other" /\ m \in network /\ IsRequest(m)
    /\ network' = (network \ {m}) \cup
         (IF m.type = "request" THEN {[m EXCEPT !.type = "response"]} ELSE {})
    /\ UNCHANGED <<caller, offered, inbox, replies, streamed>>

-----------------------------------------------------------------------------
(* The response comes back: vsomeip routes it by its client id and looks for a *)
(* handler of its service, instance and method.                              *)

Handled(m) == /\ m.client \in handlers
              /\ <<m.service, m.instance, m.method>> = <<Service, Instance, Method>>

\* It reaches the stream of the method like any event; no completer hears of it.
ResponseStreamed(m) ==
    /\ m \in network /\ m.type = "response" /\ Handled(m)
    /\ network' = network \ {m}
    /\ streamed' = [streamed EXCEPT ![m.client] = @ \cup {m.session}]
    /\ UNCHANGED <<caller, offered, inbox, replies>>

\* The worker drops it: its throttle let another one through within the interval.
ResponseThrottled(m) ==
    /\ m \in network /\ m.type = "response" /\ Handled(m)
    /\ limited[m.client] = "on" /\ streamed[m.client] # {}
    /\ network' = network \ {m}
    /\ UNCHANGED <<caller, offered, inbox, replies, streamed>>

\* There is no handler: vsomeip drops it.
ResponseDropped(m) ==
    /\ m \in network /\ m.type = "response" /\ ~Handled(m)
    /\ network' = network \ {m}
    /\ UNCHANGED <<caller, offered, inbox, replies, streamed>>

Deliver == \E m \in network : \/ NotOffered(m) \/ DartReceives(m) \/ OtherResponds(m)
                              \/ ResponseStreamed(m) \/ ResponseThrottled(m)
                              \/ ResponseDropped(m)
Answer == \E id \in inbox : Respond(id)
Calls == \/ \E c \in Clients : \/ RegisterHandler(c) \/ SetThrottle(c) \/ Request(c)
                               \/ RequestOversize(c) \/ FireAndForget(c)
         \/ \E kind \in {"dart", "other"} : Offer(kind)
         \/ StopOffer

RequestsNext == Deliver \/ Answer \/ Calls

RequestsSpec == RequestsInit /\ [][RequestsNext]_requestsVars

\* vsomeip delivers what it has under way, and a Dart provider answers.
FairRequestsSpec == RequestsSpec /\ WF_requestsVars(Deliver) /\ WF_requestsVars(Answer)

-----------------------------------------------------------------------------
(* Properties *)

\* Every variable holds a value of its kind.
RequestsTypeOK ==
    /\ session \in [Clients -> Ids]
    /\ requested \in [Clients -> SUBSET Ids] /\ oneWay \in [Clients -> SUBSET Ids]
    /\ pending \in [Clients -> Nat]
    /\ limited \in [Clients -> {"never", "on", "lifted"}]
    /\ handlers \subseteq Clients /\ offered \in {"none", "dart", "other"}
    /\ \A m \in network :
          /\ {m.service, m.instance, m.method, m.client, m.session} \subseteq Ids
          /\ m.type \in {"request", "no_return", "response"}
    /\ inbox \subseteq 0..(Base^2 - 1)
    /\ replies \in 0..MaxReplies
    /\ streamed \in [Clients -> SUBSET Ids] /\ awaited \in [Clients -> SUBSET Ids]

\* A response goes back to the client, and carries the session, of a message that
\* client did send: packing, Dart and unpacking mix up no two requests.
AnswersItsCaller ==
    \A m \in network : m.type = "response" =>
        m.client \in Clients /\ m.session \in requested[m.client] \cup oneWay[m.client]

\* "Callers that need a per-call port should register a handler [...] beforehand":
\* then the response of a vsomeip provider does reach the caller's stream, however
\* many other requests, one-way messages and clients are about.  Only an app that
\* asked for a rate limit of the method itself may lose a response, and never the
\* only one.
HandlerGetsResponse ==
    \A c \in Clients, s \in Ids \ {0} :
        s \in awaited[c] ~> \/ s \in streamed[c]
                            \/ limited[c] # "never" /\ streamed[c] # {}

=============================================================================
