----------------------------- MODULE VehicleSim -----------------------------
(***************************************************************************)
(* The vehicle simulator (src/tools/vehicle_sim.cpp): a driving profile of *)
(* four phases.  Speed, engine speed and temperature are noise within a    *)
(* phase and are left out; the phase is what a dashboard must not miss.    *)
(***************************************************************************)
EXTENDS SimProcess

CONSTANT MaxTimer  \* ticks the longest phase takes

ASSUME TimerAssumption == MaxTimer \in Nat \ {0}

VARIABLES
    phase,               \* sim.phase
    phase_timer,         \* ticks left of it
    last_phase,          \* the phase published last
    first_phase_publish  \* nothing published yet

vehicleVars == <<phase, phase_timer, last_phase, first_phase_publish>>

VehicleInit ==
    /\ phase = "idle" /\ phase_timer = 0
    /\ last_phase = "idle" /\ first_phase_publish = TRUE

\* next_phase()
Successor == [idle |-> "accelerate", accelerate |-> "cruise", cruise |-> "brake",
              brake |-> "idle"]

VehicleAt(from, to) ==
    /\ program = "vehicle" /\ Goto(from, to)
    /\ UNCHANGED <<program, g_running, loop, stateHandler, offerVars>>

\* Mutant: a phase that has ended is never left.
VehicleTickStuck ==
    /\ VehicleAt("tick", "publish")
    /\ phase_timer' = IF phase_timer = 0 THEN 0 ELSE phase_timer - 1
    /\ phase' = IF first_phase_publish THEN Successor[phase] ELSE phase
    /\ UNCHANGED <<linkVars, last_phase, first_phase_publish>>

\* tick(): the timer runs down, and out at the very first tick.
VehicleTick ==
    /\ VehicleAt("tick", "publish")
    /\ IF phase_timer <= 1
       THEN phase' = Successor[phase] /\ phase_timer' \in 1..MaxTimer
       ELSE phase' = phase /\ phase_timer' = phase_timer - 1
    /\ UNCHANGED <<linkVars, last_phase, first_phase_publish>>

\* The phase when it changed, or was never sent; speed, rpm and temperature, in
\* every, every second and every hundredth tick, replace the value before.
VehiclePublishes ==
    /\ VehicleAt("publish", "top")
    /\ IF first_phase_publish \/ phase # last_phase
       THEN Notify(phase) /\ last_phase' = phase /\ first_phase_publish' = FALSE
       ELSE UNCHANGED <<linkVars, last_phase, first_phase_publish>>
    /\ UNCHANGED <<phase, phase_timer>>

VehicleStep == VehicleTick \/ VehiclePublishes
=============================================================================
