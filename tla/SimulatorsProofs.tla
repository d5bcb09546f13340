-------------------------- MODULE SimulatorsProofs --------------------------
(***************************************************************************)
(* Proofs about Simulators for any window, any bounds and any values of    *)
(* the status: the handlers are gone when main returns, a silent pilot     *)
(* loses the drone although the reset of its age may be lost, and what is  *)
(* shown of the status is current.                                         *)
(***************************************************************************)
EXTENDS Simulators, TLAPS

\* What is needed of the types.
TypeInv ==
    /\ program \in {"drone", "vehicle"}
    /\ pc \in {"init", "start", "sleep", "top", "tick", "age", "fly", "publish", "withdraw",
               "stop", "join", "returned"}
    /\ loop \in {"none", "running", "stopping", "ended"}
    /\ control \in {"idle", "written"}
    /\ pilot_input_age \in 0..Window /\ reading \in 0..Window /\ silence \in 0..Window
    /\ flown \in {"autopilot", "pilot"}

\* The thread runs from StartThread to the join, its handlers only in between.
ThreadInv ==
    /\ pc \in {"init", "start"} => loop = "none"
    /\ pc = "returned" => loop \in {"none", "ended"}
    /\ loop \in {"none", "ended"} => todo = <<>> /\ control = "idle"

\* tick() never thinks the pilot's input younger than the silence is long.
AgeInv ==
    /\ silence <= pilot_input_age
    /\ pc = "age" => silence <= reading
    /\ pc = "fly" => silence <= reading + 1
    /\ pc = "publish" /\ program = "drone" /\ flown = "pilot" => silence < Window

IInv == TypeInv /\ ThreadInv /\ AgeInv

USE WindowAssumption

LEMMA InitIInv == Init => IInv
  BY DEF Init, SimInit, DroneInit, IInv, TypeInv, ThreadInv, AgeInv

-----------------------------------------------------------------------------
(* The main thread. *)

LEMMA MainIInv ==
    ASSUME IInv, MainStep, UNCHANGED <<droneVars, vehicleVars>>
    PROVE  IInv'
  <1>1. UNCHANGED <<program, reading, flown, pilot_input_age, control, silence, todo>>
    BY DEF MainStep, InitFails, RegisterHandlers, StartThread, SleepEnds, LoopTest, Withdraw,
           StopLoop, Join, offerVars, droneVars, pilotVars
  <1>2. pc' \notin {"age", "fly", "publish"} /\ TypeInv'
    BY <1>1 DEF MainStep, InitFails, RegisterHandlers, StartThread, SleepEnds, LoopTest,
                Withdraw, StopLoop, Join, Goto, IInv, TypeInv
  <1>3. AgeInv'
    BY <1>1, <1>2 DEF IInv, AgeInv
  <1>4. ThreadInv'
    <2>1. CASE InitFails \/ RegisterHandlers \/ StartThread \/ SleepEnds \/ LoopTest \/ Withdraw
      BY <1>1, <2>1 DEF InitFails, RegisterHandlers, StartThread, SleepEnds, LoopTest,
                        Withdraw, Goto, IInv, ThreadInv
    <2>2. CASE StopLoop \/ Join
      BY <1>1, <2>2 DEF StopLoop, Join, Goto, IInv, ThreadInv
    <2> QED BY <2>1, <2>2 DEF MainStep
  <1> QED BY <1>2, <1>3, <1>4 DEF IInv

\* The loop bodies leave the thread alone.
LEMMA BodyThreadInv ==
    ASSUME ThreadInv, UNCHANGED <<loop, todo, control>>, pc' \notin {"init", "start", "returned"}
    PROVE  ThreadInv'
  BY DEF ThreadInv

LEMMA DroneIInv == ASSUME IInv, DroneStep PROVE IInv'
  <1>1. UNCHANGED <<program, loop, todo, control>> /\ pc' \in {"age", "fly", "publish", "top"}
    BY DEF DroneStep, TickReadsAge, TickWritesAge, Fly, DronePublishes, DroneAt, Goto,
           offerVars, pilotVars
  <1>2. ThreadInv'
    BY <1>1, BodyThreadInv DEF IInv
  <1>3. TypeInv' /\ AgeInv'
    <2>1. CASE TickReadsAge
      BY <2>1, <1>1 DEF TickReadsAge, DroneAt, Goto, pilotVars, IInv, TypeInv, AgeInv
    <2>2. CASE TickWritesAge
      BY <2>2, <1>1 DEF TickWritesAge, DroneAt, Goto, IInv, TypeInv, AgeInv
    <2>3. CASE Fly
      BY <2>3, <1>1 DEF Fly, DroneAt, Goto, pilotVars, IInv, TypeInv, AgeInv
    <2>4. CASE DronePublishes
      BY <2>4, <1>1 DEF DronePublishes, DroneAt, Goto, pilotVars, IInv, TypeInv, AgeInv
    <2> QED BY <2>1, <2>2, <2>3, <2>4 DEF DroneStep
  <1> QED BY <1>2, <1>3 DEF IInv

LEMMA VehicleIInv == ASSUME IInv, VehicleStep, UNCHANGED droneVars PROVE IInv'
  <1>1. /\ UNCHANGED <<program, loop, todo, control, reading, flown, pilot_input_age, silence>>
        /\ program = "vehicle" /\ pc' \in {"publish", "top"}
    BY DEF VehicleStep, VehicleTick, VehiclePublishes, VehicleAt, Goto, offerVars, droneVars,
           pilotVars
  <1>2. ThreadInv'
    BY <1>1, BodyThreadInv DEF IInv
  <1>3. TypeInv' /\ AgeInv'
    BY <1>1 DEF IInv, TypeInv, AgeInv
  <1> QED BY <1>2, <1>3 DEF IInv

-----------------------------------------------------------------------------
(* The vsomeip thread, the signal and the consumer. *)

LEMMA OutsideIInv == ASSUME IInv, Outside PROVE IInv'
  <1>1. UNCHANGED <<program, pc, reading, flown, pilot_input_age, control, silence>>
    BY DEF Outside, Around, signal_handler, Registers, OfferNext, Deregisters, LoopEnds,
           Subscribes, Unsubscribes, Delivered, mainVars, droneVars, pilotVars
  <1>2. ThreadInv' /\ loop' \in {loop, "ended"}
    <2>1. CASE signal_handler \/ Deregisters \/ Subscribes \/ Unsubscribes \/ Delivered
      <3>1. UNCHANGED <<loop, todo>>
        BY <2>1 DEF signal_handler, Deregisters, Subscribes, Unsubscribes, Delivered,
                    mainVars, offerVars
      <3> QED BY <1>1, <3>1 DEF IInv, ThreadInv
    <2>2. CASE Registers
      BY <1>1, <2>2 DEF Registers, mainVars, IInv, ThreadInv
    <2>3. CASE OfferNext
      BY <1>1, <2>3 DEF OfferNext, mainVars, IInv, ThreadInv
    <2>4. CASE LoopEnds(control = "idle")
      BY <1>1, <2>4 DEF LoopEnds, offerVars, IInv, ThreadInv
    <2> QED BY <2>1, <2>2, <2>3, <2>4 DEF Outside, Around
  <1>3. TypeInv' /\ AgeInv'
    BY <1>1, <1>2 DEF IInv, TypeInv, AgeInv
  <1> QED BY <1>2, <1>3 DEF IInv

LEMMA HandlerIInv == ASSUME IInv, Handler PROVE IInv'
  <1>1. /\ UNCHANGED <<program, pc, loop, todo, reading, flown>>
        /\ control' \in {"idle", "written"} /\ (control' = "written" => loop = "running")
        /\ \/ UNCHANGED <<pilot_input_age, silence>>
           \/ pilot_input_age' = 0 /\ silence' = 0
    BY DEF Handler, Control, ControlInputs, ControlAge, simVars, mainVars, offerVars
  <1> QED BY <1>1 DEF IInv, TypeInv, ThreadInv, AgeInv

LEMMA NextIInv == IInv /\ [Next]_vars => IInv'
  <1> SUFFICES ASSUME IInv, [Next]_vars PROVE IInv'
    OBVIOUS
  <1>1. CASE Main
    BY <1>1, MainIInv, DroneIInv, VehicleIInv DEF Main
  <1>2. CASE Outside
    BY <1>2, OutsideIInv
  <1>3. CASE Handler
    BY <1>3, HandlerIInv
  <1>4. CASE UNCHANGED vars
    BY <1>4 DEF vars, simVars, mainVars, offerVars, droneVars, pilotVars, IInv, TypeInv,
                ThreadInv, AgeInv
  <1> QED BY <1>1, <1>2, <1>3, <1>4 DEF Next

LEMMA IInvAlways == Spec => []IInv
  BY InitIInv, NextIInv, PTL DEF Spec

-----------------------------------------------------------------------------
(* What is published only on change. *)

Statuses == SatCounts \cup {None} \cup DOMAIN Successor

\* What was published last, and what is to be shown.
LastSent == IF program = "drone" THEN last_sats ELSE last_phase
Status == IF program = "drone" THEN sat_count ELSE phase

\* The newest notification that has reached, or will reach, the consumer.
Newest == IF link = <<>> THEN shown ELSE link[Len(link)]

\* While the last notification is not lost it is the newest one, and between the
\* publishing and the next tick nothing newer is to be shown.
ShownInv ==
    /\ program \in {"drone", "vehicle"}
    /\ link \in Seq(Statuses) /\ sat_count \in SatCounts /\ phase \in DOMAIN Successor
    /\ reached => Newest = LastSent
    /\ reached /\ pc \notin {"publish"} => Status = LastSent

LEMMA AppendNewest ==
    ASSUME NEW v \in Statuses, link \in Seq(Statuses), link' = Append(link, v)
    PROVE  link' \in Seq(Statuses) /\ Newest' = v
  <1>1. Len(link') = Len(link) + 1 /\ link'[Len(link) + 1] = v /\ link' # <<>>
    OBVIOUS
  <1> QED BY <1>1 DEF Newest

LEMMA DeliverNewest ==
    ASSUME link \in Seq(Statuses), link # <<>>, shown' = Head(link), link' = Tail(link)
    PROVE  link' \in Seq(Statuses) /\ Newest' = Newest
  <1>1. /\ Len(link) \in Nat \ {0} /\ Len(link') = Len(link) - 1
        /\ \A i \in 1..Len(link') : link'[i] = link[i + 1]
        /\ link' \in Seq(Statuses)
    OBVIOUS
  <1>2. CASE Len(link) = 1
    <2>1. link' = <<>>
      BY <1>1, <1>2
    <2> QED BY <1>1, <1>2, <2>1 DEF Newest
  <1>3. CASE Len(link) # 1
    <2>1. Len(link') \in 1..Len(link')
      BY <1>1, <1>3
    <2>2. link'[Len(link')] = link[Len(link') + 1] /\ Len(link') + 1 = Len(link)
      BY <1>1, <2>1
    <2>3. link' # <<>>
      BY <2>1
    <2> QED BY <2>2, <2>3 DEF Newest
  <1> QED BY <1>2, <1>3

\* notify of a changed status.
LEMMA NotifyShownInv ==
    ASSUME ShownInv, Notify(Status), UNCHANGED <<program, sat_count, phase>>,
           LastSent' = Status
    PROVE  ShownInv'
  <1>1. Status \in Statuses /\ Status' = Status
    BY DEF ShownInv, Status, Statuses
  <1>2. CASE reached'
    <2>1. link' = Append(link, Status)
      BY <1>2 DEF Notify
    <2>2. link' \in Seq(Statuses) /\ Newest' = Status
      BY <1>1, <2>1, AppendNewest DEF ShownInv
    <2> QED BY <1>1, <2>2 DEF ShownInv
  <1>3. CASE ~reached'
    <2>1. link' = link
      BY <1>3 DEF Notify
    <2> QED BY <1>1, <1>3, <2>1 DEF ShownInv
  <1> QED BY <1>2, <1>3

LEMMA InitShownInv == Init => ShownInv
  BY DEF Init, SimInit, DroneInit, VehicleInit, ShownInv, Successor

LEMMA NextShownInv == ASSUME ShownInv, [Next]_vars PROVE ShownInv'
  <1> USE DEF ShownInv
  <1>1. CASE DronePublishes /\ UNCHANGED vehicleVars
    <2>1. UNCHANGED <<program, sat_count, phase>> /\ program = "drone" /\ Status = sat_count
      BY <1>1 DEF DronePublishes, DroneAt, vehicleVars, Status
    <2>2. CASE sat_count # last_sats
      <3>1. Notify(Status) /\ LastSent' = Status
        BY <1>1, <2>1, <2>2 DEF DronePublishes, LastSent
      <3> QED BY <2>1, <3>1, NotifyShownInv
    <2>3. CASE sat_count = last_sats
      <3>1. UNCHANGED <<link, shown, reached, last_sats>>
        BY <1>1, <2>3 DEF DronePublishes, linkVars
      <3> QED BY <2>1, <2>3, <3>1 DEF Newest, LastSent, Status
    <2> QED BY <2>2, <2>3
  <1>2. CASE VehiclePublishes /\ UNCHANGED droneVars
    <2>1. /\ UNCHANGED <<program, sat_count, phase>> /\ program = "vehicle" /\ Status = phase
          /\ program # "drone"
      BY <1>2 DEF VehiclePublishes, VehicleAt, droneVars, Status
    <2>2. CASE first_phase_publish \/ phase # last_phase
      <3>1. Notify(Status) /\ LastSent' = Status
        BY <1>2, <2>1, <2>2 DEF VehiclePublishes, LastSent
      <3> QED BY <2>1, <3>1, NotifyShownInv
    <2>3. CASE ~(first_phase_publish \/ phase # last_phase)
      <3>1. UNCHANGED <<link, shown, reached, last_phase>>
        BY <1>2, <2>3 DEF VehiclePublishes, linkVars
      <3> QED BY <2>1, <2>3, <3>1 DEF Newest, LastSent, Status
    <2> QED BY <2>2, <2>3
  <1>3. CASE Fly /\ UNCHANGED vehicleVars
    <2>1. /\ UNCHANGED <<program, link, shown, reached, last_sats, phase, last_phase>>
          /\ pc' = "publish" /\ sat_count' \in SatCounts
      BY <1>3 DEF Fly, DroneAt, Goto, linkVars, vehicleVars
    <2> QED BY <2>1 DEF Newest, LastSent
  <1>4. CASE VehicleTick /\ UNCHANGED droneVars
    <2>1. /\ UNCHANGED <<program, link, shown, reached, last_sats, sat_count, last_phase>>
          /\ pc' = "publish" /\ phase' \in DOMAIN Successor
      BY <1>4 DEF VehicleTick, VehicleAt, Goto, linkVars, droneVars, Successor
    <2> QED BY <2>1 DEF Newest, LastSent
  <1>5. CASE Delivered /\ UNCHANGED <<droneVars, vehicleVars>>
    <2>1. /\ UNCHANGED <<program, pc, reached, sat_count, last_sats, phase, last_phase>>
          /\ link # <<>> /\ shown' = Head(link) /\ link' = Tail(link)
      BY <1>5 DEF Delivered, mainVars, droneVars, vehicleVars
    <2>2. link' \in Seq(Statuses) /\ Newest' = Newest
      BY <2>1, DeliverNewest
    <2> QED BY <2>1, <2>2 DEF LastSent, Status
  <1>6. CASE (Deregisters \/ Unsubscribes) /\ UNCHANGED <<droneVars, vehicleVars>>
    <2>1. UNCHANGED <<program, sat_count, phase>> /\ link' = <<>> /\ reached' = FALSE
      BY <1>6 DEF Deregisters, Unsubscribes, droneVars, vehicleVars
    <2> QED BY <2>1
  \* Every other step leaves the status, the link and what was sent alone.
  <1>7. ASSUME UNCHANGED <<program, link, shown, reached, sat_count, last_sats, phase, last_phase>>,
               pc' # "publish" => pc # "publish" \/ ~reached
        PROVE  ShownInv'
    BY <1>7 DEF Newest, LastSent, Status
  <1>8. CASE MainStep /\ UNCHANGED <<droneVars, vehicleVars>>
    <2>1. UNCHANGED <<program, link, shown, reached, sat_count, last_sats, phase, last_phase>>
      BY <1>8 DEF MainStep, InitFails, RegisterHandlers, StartThread, SleepEnds, LoopTest,
                  Withdraw, StopLoop, Join, linkVars, droneVars, vehicleVars
    <2>2. pc # "publish"
      BY <1>8 DEF MainStep, InitFails, RegisterHandlers, StartThread, SleepEnds, LoopTest,
                  Withdraw, StopLoop, Join, Goto
    <2> QED BY <1>7, <2>1, <2>2
  <1>9. CASE (TickReadsAge \/ TickWritesAge) /\ UNCHANGED vehicleVars
    <2>1. /\ UNCHANGED <<program, link, shown, reached, sat_count, last_sats, phase, last_phase>>
          /\ pc # "publish"
      BY <1>9 DEF TickReadsAge, TickWritesAge, DroneAt, Goto, linkVars, vehicleVars
    <2> QED BY <1>7, <2>1
  <1>10. CASE (signal_handler \/ Registers \/ OfferNext \/ LoopEnds(control = "idle") \/ Subscribes)
                 /\ UNCHANGED <<droneVars, vehicleVars>>
    <2>1. UNCHANGED <<pc, program, link, shown, reached, sat_count, last_sats, phase, last_phase>>
      BY <1>10 DEF signal_handler, Registers, OfferNext, LoopEnds, Subscribes, mainVars, linkVars,
                   droneVars, vehicleVars
    <2> QED BY <1>7, <2>1
  <1>11. CASE Handler
    <2>1. UNCHANGED <<pc, program, link, shown, reached, sat_count, last_sats, phase, last_phase>>
      BY <1>11 DEF Handler, Control, ControlInputs, ControlAge, simVars, mainVars, linkVars,
                   vehicleVars
    <2> QED BY <1>7, <2>1
  <1>12. CASE UNCHANGED vars
    <2>1. UNCHANGED <<pc, program, link, shown, reached, sat_count, last_sats, phase, last_phase>>
      BY <1>12 DEF vars, simVars, mainVars, linkVars, droneVars, vehicleVars
    <2> QED BY <1>7, <2>1
  <1> QED BY <1>1, <1>2, <1>3, <1>4, <1>5, <1>6, <1>8, <1>9, <1>10, <1>11, <1>12
          DEF Next, Main, DroneStep, VehicleStep, Outside, Around

-----------------------------------------------------------------------------
(* Theorems *)

\* A pilot who has been silent for the whole window does not fly the drone, whatever
\* the race for pilot_input_age does to its reset.
THEOREM SimOverrideEnds == Spec => []OverrideEnds
  <1>1. IInv => OverrideEnds
    BY DEF IInv, AgeInv, OverrideEnds
  <1> QED BY <1>1, IInvAlways, PTL

\* No handler runs, or can still be called, when main's locals go out of scope.
THEOREM SimHandlersBeforeExit == Spec => []HandlersBeforeExit
  <1>1. IInv => HandlersBeforeExit
    BY DEF IInv, ThreadInv, HandlersBeforeExit
  <1> QED BY <1>1, IInvAlways, PTL

\* The last status published is the one shown, when nothing is under way and it could
\* be heard at all, over any number of losses of the routing manager.
THEOREM SimShownIsCurrent == Spec => []ShownIsCurrent
  <1>1. ShownInv => ShownIsCurrent
    BY DEF ShownInv, ShownIsCurrent, Newest, Status
  <1> QED BY <1>1, InitShownInv, NextShownInv, PTL DEF Spec
=============================================================================
