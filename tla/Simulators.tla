----------------------------- MODULE Simulators -----------------------------
(***************************************************************************)
(* Either simulator, with the routing manager, a consumer that comes and   *)
(* goes, a pilot, and a signal that ends it.                               *)
(***************************************************************************)
EXTENDS DroneSim, VehicleSim

vars == <<simVars, droneVars, vehicleVars>>

Init == SimInit /\ DroneInit /\ VehicleInit

Main == \/ MainStep /\ UNCHANGED <<droneVars, vehicleVars>>
        \/ DroneStep /\ UNCHANGED vehicleVars
        \/ VehicleStep /\ UNCHANGED droneVars

Outside == Around(control = "idle") /\ UNCHANGED <<droneVars, vehicleVars>>

\* One handler of the vsomeip thread at a time.
Handler == Control /\ UNCHANGED vehicleVars

Next == Main \/ Outside \/ Handler

Spec == Init /\ [][Next]_vars

\* The main thread, the vsomeip thread once it runs, and the network make
\* progress; that the routing manager lets the application register is assumed.
FairSpec ==
    /\ Spec
    /\ WF_vars(Main)
    /\ WF_vars((Registers \/ OfferNext \/ LoopEnds(control = "idle"))
                  /\ UNCHANGED <<droneVars, vehicleVars>>)
    /\ WF_vars(ControlAge /\ UNCHANGED vehicleVars)
    /\ WF_vars(Delivered /\ UNCHANGED <<droneVars, vehicleVars>>)

-----------------------------------------------------------------------------
(* Properties *)

Serving == registered /\ subscribed /\ {"service", OnChangeEvent[program]} \subseteq offered

\* The pilot never flies the drone on an input older than the window, although
\* tick() and the control handler race for its age: a silent pilot loses control.
OverrideEnds == program = "drone" /\ pc = "publish" /\ flown = "pilot" => silence < Window

\* What is published only on change is current at the consumer whenever nothing
\* is under way, if the last change could be heard at all.
ShownIsCurrent ==
    pc = "top" /\ link = <<>> /\ reached =>
        shown = (IF program = "drone" THEN sat_count ELSE phase)

\* The handlers refer to main's locals: none is running, or can still be called,
\* when main returns.
HandlersBeforeExit ==
    pc = "returned" => loop \in {"none", "ended"} /\ todo = <<>> /\ control = "idle"

\* No registration is missed, the first one or one after a loss of the routing
\* manager, which forgets every offer: the service is offered with all its events
\* each time, unless the simulator is being stopped.
OffersOnceRegistered ==
    registered ~> (\A i \in DOMAIN Offers[program] : Offers[program][i] \in offered)
                     \/ ~g_running

\* A dashboard that subscribes in the middle of a phase hears a phase before long,
\* although nobody repeats it.
LateSubscriberCatchesUp ==
    program = "vehicle" /\ Serving ~> (reached /\ shown # None) \/ ~Serving \/ ~g_running
=============================================================================
