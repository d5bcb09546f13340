----------------------------- MODULE SimProcess -----------------------------
(***************************************************************************)
(* What the two simulators' main() have in common (src/tools/drone_sim.cpp *)
(* and src/tools/vehicle_sim.cpp): a main thread that publishes until a    *)
(* signal arrives, a thread in app->start(), handlers that run on it with  *)
(* references to main's locals, and one event that is published only when  *)
(* it changes.                                                             *)
(***************************************************************************)
EXTENDS Naturals, Sequences

CONSTANTS
    None,      \* nothing published, nothing shown
    MaxLosses, \* bound: how often the routing manager is lost
    MaxLink    \* bound: notifications in flight when the next tick begins

ASSUME BoundsAssumption == {MaxLosses, MaxLink} \subseteq Nat

VARIABLES
    program,       \* "drone" or "vehicle"
    pc,            \* the main thread
    g_running,     \* no signal yet
    loop,          \* the vsomeip thread: "none", "running", "stopping", "ended"
    stateHandler,  \* is a state handler registered?
    todo,          \* what the state handler has still to offer
    offered,       \* what is offered
    registered,    \* is the application registered with the routing manager?
    losses,        \* how often the registration was lost
    subscribed,    \* does a consumer receive the service's events?
    link,          \* on-change notifications on their way to it, oldest first
    shown,         \* the last one it has received
    reached        \* history: the consumer subscribed now got the last one published

mainVars == <<pc, g_running, loop, stateHandler>>
offerVars == <<todo, offered, registered, losses, subscribed>>
linkVars == <<link, shown, reached>>
simVars == <<program, mainVars, offerVars, linkVars>>

\* What the state handlers offer, in order: the service, then its events.
Offers == [drone |-> << "service", "attitude", "motion", "battery", "status", "signal", "gimbal" >>,
           vehicle |-> << "service", "speed", "rpm", "temp", "phase" >>]

OnChangeEvent == [drone |-> "status", vehicle |-> "phase"]

SimInit ==
    /\ program \in {"drone", "vehicle"}
    /\ pc = "init" /\ g_running = TRUE /\ loop = "none" /\ stateHandler = FALSE
    /\ todo = <<>> /\ offered = {} /\ registered = FALSE /\ losses = 0 /\ subscribed = FALSE
    /\ link = <<>> /\ shown = None /\ reached = FALSE

-----------------------------------------------------------------------------
(* The main thread outside its loop body. *)

Goto(from, to) == pc = from /\ pc' = to

\* app->init() fails: main returns 1.
InitFails ==
    /\ Goto("init", "returned")
    /\ UNCHANGED <<program, g_running, loop, stateHandler, offerVars, linkVars>>

\* The state handler, and the drone's control handler, are registered before any
\* thread runs that could call them.
RegisterHandlers ==
    /\ Goto("init", "start")
    /\ stateHandler' = TRUE
    /\ UNCHANGED <<program, g_running, loop, offerVars, linkVars>>

StartThread ==
    /\ Goto("start", "sleep")
    /\ loop' = "running"
    /\ UNCHANGED <<program, g_running, stateHandler, offerVars, linkVars>>

\* 500 ms for the registration, which may or may not be enough.
SleepEnds ==
    /\ Goto("sleep", "top")
    /\ UNCHANGED <<program, g_running, loop, stateHandler, offerVars, linkVars>>

\* while (g_running)
LoopTest ==
    /\ Goto("top", IF g_running THEN "tick" ELSE "withdraw")
    /\ Len(link) <= MaxLink
    /\ UNCHANGED <<program, g_running, loop, stateHandler, offerVars, linkVars>>

\* stop_offer_event for the drone's six events and the vehicle's speed, then
\* stop_offer_service, which ends every subscription ...
Withdraw ==
    /\ Goto("withdraw", "stop")
    /\ offered' = IF program = "drone" THEN {} ELSE offered \ {"service", "speed"}
    /\ subscribed' = FALSE
    /\ UNCHANGED <<program, g_running, loop, stateHandler, todo, registered, losses, linkVars>>

\* ... app->stop() ...
StopLoop ==
    /\ Goto("stop", "join")
    /\ loop' = "stopping"
    /\ UNCHANGED <<program, g_running, stateHandler, offerVars, linkVars>>

\* Mutant: the thread is left to itself.
JoinForgotten ==
    /\ Goto("join", "returned")
    /\ UNCHANGED <<program, g_running, loop, stateHandler, offerVars, linkVars>>

\* ... and join().
Join ==
    /\ loop = "ended"
    /\ Goto("join", "returned")
    /\ UNCHANGED <<program, g_running, loop, stateHandler, offerVars, linkVars>>

MainStep == \/ InitFails \/ RegisterHandlers \/ StartThread \/ SleepEnds \/ LoopTest
            \/ Withdraw \/ StopLoop \/ Join

\* SIGINT or SIGTERM, at any time.
signal_handler ==
    /\ g_running /\ pc # "returned"
    /\ g_running' = FALSE
    /\ UNCHANGED <<program, pc, loop, stateHandler, offerVars, linkVars>>

-----------------------------------------------------------------------------
(* The vsomeip thread and the consumer. *)

\* Mutant: the handler offers at the first registration only.
RegistersOnce ==
    /\ loop = "running" /\ ~registered /\ todo = <<>>
    /\ registered' = TRUE
    /\ todo' = IF stateHandler /\ losses = 0 THEN Offers[program] ELSE <<>>
    /\ UNCHANGED <<program, mainVars, offered, losses, subscribed, linkVars>>

\* ST_REGISTERED: the handler, if there is one by then, begins to offer.
Registers ==
    /\ loop = "running" /\ ~registered /\ todo = <<>>
    /\ registered' = TRUE
    /\ todo' = IF stateHandler THEN Offers[program] ELSE <<>>
    /\ UNCHANGED <<program, mainVars, offered, losses, subscribed, linkVars>>

\* offer_service, and one offer_event after another.
OfferNext ==
    /\ todo # <<>>
    /\ offered' = offered \cup {Head(todo)}
    /\ todo' = Tail(todo)
    /\ UNCHANGED <<program, mainVars, registered, losses, subscribed, linkVars>>

\* The routing manager goes away, and with it all it was told: the offers, the
\* subscription and what was in flight.
Deregisters ==
    /\ loop = "running" /\ registered /\ todo = <<>> /\ losses < MaxLosses
    /\ losses' = losses + 1
    /\ registered' = FALSE /\ subscribed' = FALSE /\ offered' = {}
    /\ link' = <<>> /\ reached' = FALSE
    /\ UNCHANGED <<program, mainVars, todo, shown>>

\* start() returns once no handler is left running.
LoopEnds(quiet) ==
    /\ loop = "stopping" /\ todo = <<>> /\ quiet
    /\ loop' = "ended"
    /\ UNCHANGED <<program, pc, g_running, stateHandler, offerVars, linkVars>>

\* A consumer comes once the service is there ...
Subscribes ==
    /\ registered /\ "service" \in offered /\ ~subscribed
    /\ subscribed' = TRUE
    /\ UNCHANGED <<program, mainVars, todo, offered, registered, losses, linkVars>>

\* ... and goes when it likes, with what is still under way to it.
Unsubscribes ==
    /\ subscribed
    /\ subscribed' = FALSE
    /\ link' = <<>> /\ reached' = FALSE
    /\ UNCHANGED <<program, mainVars, todo, offered, registered, losses, shown>>

\* notify of the on-change event: nobody hears it before it is offered, without
\* the routing manager, or without a subscription; vsomeip keeps no value of it.
Notify(value) ==
    LET heard == /\ registered /\ subscribed
                 /\ {"service", OnChangeEvent[program]} \subseteq offered
    IN  /\ link' = IF heard THEN Append(link, value) ELSE link
        /\ reached' = heard
        /\ UNCHANGED shown

Delivered ==
    /\ link # <<>>
    /\ shown' = Head(link) /\ link' = Tail(link)
    /\ UNCHANGED <<program, mainVars, offerVars, reached>>

Around(quiet) == \/ signal_handler \/ Registers \/ OfferNext \/ Deregisters \/ LoopEnds(quiet)
                 \/ Subscribes \/ Unsubscribes \/ Delivered
=============================================================================
