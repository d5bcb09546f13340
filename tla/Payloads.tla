------------------------------ MODULE Payloads ------------------------------
(***************************************************************************)
(* Event payloads: the offsets at which the C++ builders write the fields  *)
(* (src/capnp_service.cpp, src/tools/drone_sim.cpp,                        *)
(* src/tools/vehicle_sim.cpp) and the ones at which the Dart side reads    *)
(* them (lib/generated, the two example apps).  The two tables are written *)
(* by hand, in two languages; nothing but their agreement keeps a value    *)
(* whole.                                                                  *)
(*                                                                         *)
(* A payload is the sequence of its bytes; byte i of field f is <<f, i>>   *)
(* and a byte that was never written is <<>>.                              *)
(***************************************************************************)
EXTENDS Integers, Sequences, FiniteSetsExt

Field(name, offset, size) == [name |-> name, offset |-> offset, size |-> size]

-----------------------------------------------------------------------------
(* C++: CapnpPayloadBuilder, and the memcpys into a zeroed array that the  *)
(* simulators write by hand.                                               *)

\* Is the o-th byte one of the field's?  A field that does not fit is silently left out.
Covers(capacity, f, o) ==
    f.offset + f.size <= capacity /\ o \in f.offset + 1 .. f.offset + f.size

\* The setters are called in the order of the fields: a byte keeps what the last one
\* has written to it.
Build(capacity, fields) ==
    [o \in 1..capacity |->
        LET over == {i \in DOMAIN fields : Covers(capacity, fields[i], o)}
        IN  IF over = {} THEN <<>>
            ELSE LET f == fields[Max(over)] IN <<f.name, o - f.offset>>]

\* Mutant: the 64-bit timestamp moved to its natural alignment.
capnp_build_vehicle_speed_aligned ==
    Build(16, << Field("speedKmh", 0, 4), Field("timestamp", 8, 8),
                 Field("sensorId", 12, 2), Field("qualityFlag", 14, 1) >>)

capnp_build_vehicle_speed ==
    Build(16, << Field("speedKmh", 0, 4), Field("timestamp", 4, 8),
                 Field("sensorId", 12, 2), Field("qualityFlag", 14, 1) >>)

capnp_build_radar_object ==
    Build(40, << Field("objectId", 0, 2), Field("distanceM", 4, 4), Field("azimuthDeg", 8, 4),
                 Field("velocityMs", 12, 4), Field("rcsDbsm", 16, 4),
                 Field("timestamp", 24, 8), Field("classification", 32, 1) >>)

capnp_build_imu_data ==
    Build(40, << Field("accelX", 0, 4), Field("accelY", 4, 4), Field("accelZ", 8, 4),
                 Field("gyroX", 12, 4), Field("gyroY", 16, 4), Field("gyroZ", 20, 4),
                 Field("timestamp", 24, 8), Field("sensorId", 32, 2) >>)

build_speed_payload ==
    Build(16, << Field("speedKmh", 0, 4), Field("timestamp", 4, 8),
                 Field("sensorId", 12, 2), Field("qualityFlag", 14, 1) >>)

build_float_payload == Build(4, << Field("value", 0, 4) >>)

build_attitude ==
    Build(16, << Field("pitch", 0, 4), Field("roll", 4, 4), Field("yaw", 8, 4),
                 Field("throttle", 12, 4) >>)

build_motion ==
    Build(16, << Field("altitude_m", 0, 4), Field("vsi_ms", 4, 4),
                 Field("ground_speed_ms", 8, 4), Field("distance_m", 12, 4) >>)

build_battery == Build(8, << Field("voltage_v", 0, 4), Field("percent", 4, 4) >>)

build_status ==
    Build(4, << Field("armed", 0, 1), Field("flight_mode", 1, 1), Field("gps_fix", 2, 1),
                Field("sat_count", 3, 1) >>)

build_signal == Build(4, << Field("rssi_pct", 0, 1), Field("link_quality", 1, 1) >>)

build_gimbal ==
    Build(8, << Field("gimbal_pitch_deg", 0, 4), Field("gimbal_roll_deg", 4, 4) >>)

-----------------------------------------------------------------------------
(* Dart: the generated readers and the two apps' _onPortMessage.           *)

\* Every getter checks the length it needs and answers zero for a short payload.
ReadField(bytes, offset, size) ==
    IF Len(bytes) < offset + size THEN <<>> ELSE SubSeq(bytes, offset + 1, offset + size)

VehicleSpeedReader(bytes) ==
    [speedKmh |-> ReadField(bytes, 0, 4), timestamp |-> ReadField(bytes, 4, 8),
     sensorId |-> ReadField(bytes, 12, 2), qualityFlag |-> ReadField(bytes, 14, 1)]

RadarObjectReader(bytes) ==
    [objectId |-> ReadField(bytes, 0, 2), distanceM |-> ReadField(bytes, 4, 4),
     azimuthDeg |-> ReadField(bytes, 8, 4), velocityMs |-> ReadField(bytes, 12, 4),
     rcsDbsm |-> ReadField(bytes, 16, 4), timestamp |-> ReadField(bytes, 24, 8),
     classification |-> ReadField(bytes, 32, 1)]

ImuDataReader(bytes) ==
    [accelX |-> ReadField(bytes, 0, 4), accelY |-> ReadField(bytes, 4, 4),
     accelZ |-> ReadField(bytes, 8, 4), gyroX |-> ReadField(bytes, 12, 4),
     gyroY |-> ReadField(bytes, 16, 4), gyroZ |-> ReadField(bytes, 20, 4),
     timestamp |-> ReadField(bytes, 24, 8), sensorId |-> ReadField(bytes, 32, 2)]

\* The vehicle app reads the first four bytes of each of its three float events.
ReadSpeed(bytes) == [speedKmh |-> ReadField(bytes, 0, 4)]
ReadFloat(bytes) == [value |-> ReadField(bytes, 0, 4)]

ReadAttitude(bytes) ==
    [pitch |-> ReadField(bytes, 0, 4), roll |-> ReadField(bytes, 4, 4),
     yaw |-> ReadField(bytes, 8, 4), throttle |-> ReadField(bytes, 12, 4)]

ReadMotion(bytes) ==
    [altitude_m |-> ReadField(bytes, 0, 4), vsi_ms |-> ReadField(bytes, 4, 4),
     ground_speed_ms |-> ReadField(bytes, 8, 4), distance_m |-> ReadField(bytes, 12, 4)]

ReadBattery(bytes) ==
    [voltage_v |-> ReadField(bytes, 0, 4), percent |-> ReadField(bytes, 4, 4)]

ReadStatus(bytes) ==
    [armed |-> ReadField(bytes, 0, 1), flight_mode |-> ReadField(bytes, 1, 1),
     gps_fix |-> ReadField(bytes, 2, 1), sat_count |-> ReadField(bytes, 3, 1)]

ReadSignal(bytes) ==
    [rssi_pct |-> ReadField(bytes, 0, 1), link_quality |-> ReadField(bytes, 1, 1)]

ReadGimbal(bytes) ==
    [gimbal_pitch_deg |-> ReadField(bytes, 0, 4), gimbal_roll_deg |-> ReadField(bytes, 4, 4)]

-----------------------------------------------------------------------------

\* What was read of a field holds each byte the builder wrote for it, in order, and
\* no other byte.
FieldWhole(payload, name, read) ==
    /\ read # <<>> /\ \A i \in DOMAIN read : read[i] = <<name, i>>
    /\ \A o \in DOMAIN payload :
          payload[o] # <<>> /\ payload[o][1] = name => payload[o][2] \in DOMAIN read

Whole(payload, reading) ==
    \A name \in DOMAIN reading : FieldWhole(payload, name, reading[name])

\* Every payload of the source survives the reader that is meant for it.
PayloadsAgree ==
    /\ Whole(capnp_build_vehicle_speed, VehicleSpeedReader(capnp_build_vehicle_speed))
    /\ Whole(capnp_build_radar_object, RadarObjectReader(capnp_build_radar_object))
    /\ Whole(capnp_build_imu_data, ImuDataReader(capnp_build_imu_data))
    /\ Whole(build_speed_payload, VehicleSpeedReader(build_speed_payload))
    /\ Whole(build_speed_payload, ReadSpeed(build_speed_payload))
    /\ Whole(build_float_payload, ReadFloat(build_float_payload))
    /\ Whole(build_attitude, ReadAttitude(build_attitude))
    /\ Whole(build_motion, ReadMotion(build_motion))
    /\ Whole(build_battery, ReadBattery(build_battery))
    /\ Whole(build_status, ReadStatus(build_status))
    /\ Whole(build_signal, ReadSignal(build_signal))
    /\ Whole(build_gimbal, ReadGimbal(build_gimbal))
=============================================================================
