------------------------------ MODULE DroneSim ------------------------------
(***************************************************************************)
(* The drone simulator (src/tools/drone_sim.cpp).  Its control handler     *)
(* runs on the vsomeip thread and writes the pilot's inputs under          *)
(* pilot_mutex; tick() runs on the main thread and uses them without it.   *)
(*                                                                         *)
(* The kinematics are noise around the pilot's or the autopilot's wishes:  *)
(* what is kept of them is who is flying.                                  *)
(***************************************************************************)
EXTENDS SimProcess

CONSTANTS
    SatCounts,   \* values of sat_count, the part of the status that changes
    Window,      \* ticks in 1.5 s: how long a pilot's input counts
    MaxControls  \* bound: control messages

ASSUME WindowAssumption == Window \in Nat \ {0} /\ MaxControls \in Nat

VARIABLES
    sat_count,        \* s.sat_count
    last_sats,        \* what was published last; None is the 0xFF at the start
    pilot_input_age,  \* ticks since the last pilot input, as far as tick() knows
    reading,          \* tick(): the age read, before it is written back
    control,          \* the control handler: "idle", "written" (inputs, not yet the age)
    controls,         \* control messages handled
    flown,            \* who flew the last tick: "autopilot", "pilot"
    silence           \* history: ticks since the last control message, up to Window

pilotVars == <<pilot_input_age, control, controls, silence>>
droneVars == <<sat_count, last_sats, reading, flown, pilotVars>>

\* Mutant: the drone starts as if the pilot had just let go.
DroneInitFresh ==
    /\ sat_count \in SatCounts /\ last_sats = None
    /\ pilot_input_age = 0 /\ reading = 0 /\ control = "idle" /\ controls = 0
    /\ flown = "autopilot" /\ silence = Window

\* pilot_input_age = 99: no pilot input yet.
DroneInit ==
    /\ sat_count \in SatCounts /\ last_sats = None
    /\ pilot_input_age = Window /\ reading = 0 /\ control = "idle" /\ controls = 0
    /\ flown = "autopilot" /\ silence = Window

-----------------------------------------------------------------------------
(* The control handler.  A payload of less than 16 bytes changes nothing.  *)

\* Under pilot_mutex, which tick() does not take: the four inputs ...
ControlInputs ==
    /\ program = "drone" /\ loop = "running" /\ todo = <<>> /\ registered
    /\ control = "idle" /\ controls < MaxControls
    /\ control' = "written" /\ controls' = controls + 1
    /\ UNCHANGED <<simVars, sat_count, last_sats, reading, flown, pilot_input_age, silence>>

\* ... and the age.
ControlAge ==
    /\ control = "written"
    /\ control' = "idle"
    /\ pilot_input_age' = 0 /\ silence' = 0
    /\ UNCHANGED <<simVars, sat_count, last_sats, reading, flown, controls>>

-----------------------------------------------------------------------------
(* The loop body. *)

DroneAt(from, to) ==
    /\ program = "drone" /\ Goto(from, to)
    /\ UNCHANGED <<program, g_running, loop, stateHandler, offerVars>>

\* pilot_input_age += dt is a read ...
TickReadsAge ==
    /\ DroneAt("tick", "age")
    /\ reading' = pilot_input_age
    /\ UNCHANGED <<linkVars, sat_count, last_sats, flown, pilotVars>>

\* ... and a write, which may overwrite the handler's reset.
TickWritesAge ==
    /\ DroneAt("age", "fly")
    /\ pilot_input_age' = IF reading < Window THEN reading + 1 ELSE Window
    /\ silence' = IF silence < Window THEN silence + 1 ELSE Window
    /\ UNCHANGED <<linkVars, sat_count, last_sats, reading, flown, control, controls>>

\* The rest of tick(): the pilot flies while the input is fresh, by the age read
\* back or by the one just computed; now and then the satellites are counted anew.
Fly ==
    /\ DroneAt("fly", "publish")
    /\ \E age \in {pilot_input_age, reading + 1} :
          flown' = IF age < Window THEN "pilot" ELSE "autopilot"
    /\ sat_count' \in SatCounts
    /\ UNCHANGED <<linkVars, last_sats, reading, pilotVars>>

\* Mutant: the satellites are left out of the comparison.
DronePublishesModeOnly ==
    /\ DroneAt("publish", "top")
    /\ IF last_sats = None
       THEN Notify(sat_count) /\ last_sats' = sat_count
       ELSE UNCHANGED <<linkVars, last_sats>>
    /\ UNCHANGED <<sat_count, reading, flown, pilotVars>>

\* Attitude, and every 5th, 10th, 25th and 50th tick the other periodic events:
\* each replaces the one before and touches nothing else.  The status goes out
\* when it differs from the last one sent, heard or not.
DronePublishes ==
    /\ DroneAt("publish", "top")
    /\ IF sat_count # last_sats
       THEN Notify(sat_count) /\ last_sats' = sat_count
       ELSE UNCHANGED <<linkVars, last_sats>>
    /\ UNCHANGED <<sat_count, reading, flown, pilotVars>>

DroneStep == TickReadsAge \/ TickWritesAge \/ Fly \/ DronePublishes
Control == ControlInputs \/ ControlAge
=============================================================================
