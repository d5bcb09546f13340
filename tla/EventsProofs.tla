---------------------------- MODULE EventsProofs ----------------------------
(***************************************************************************)
(* Proofs about Events for any events, values and bounds: a subscribed     *)
(* client knows the current value of every field, what Dart is told of the *)
(* availability ends up true, and what is heard is what was sent.  The     *)
(* last rests on the round trips of Wire, for every value a field of that  *)
(* width can hold, and on the layouts of Payloads.                         *)
(***************************************************************************)
EXTENDS Events, FiniteSetTheorems, TLAPS

-----------------------------------------------------------------------------
(* Headers and availability events: what the C++ encoders write, the Dart  *)
(* decoders read back.                                                     *)

\* A quotient by a power of two, and the remainder that goes with it.
LEMMA Halves ==
    ASSUME NEW v \in Nat
    PROVE  /\ v \div 65536 \in Nat /\ v % 65536 \in Nat /\ v % 65536 < 65536
           /\ v = (65536 * (v \div 65536)) + (v % 65536)
           /\ v % 256 = (v % 65536) % 256
           /\ (v \div 256) % 256 = (v % 65536) \div 256
           /\ v \div 16777216 = (v \div 65536) \div 256
  <1>1. v \div 65536 \in Nat /\ v % 65536 \in Nat /\ v % 65536 < 65536
    OBVIOUS
  <1>2. v = (65536 * (v \div 65536)) + (v % 65536)
    OBVIOUS
  <1>3. v % 256 = (v % 65536) % 256
    OBVIOUS
  <1>4. (v \div 256) % 256 = (v % 65536) \div 256
    OBVIOUS
  <1>5. v \div 16777216 = (v \div 65536) \div 256
    OBVIOUS
  <1> QED
    BY <1>1, <1>2, <1>3, <1>4, <1>5

\* A 16-bit value is its low byte and 256 times its high byte.
LEMMA TwoBytes ==
    ASSUME NEW v \in Nat, v < 65536
    PROVE  /\ (v % 256) + (256 * (v \div 256)) = v
           /\ (v \div 256) % 256 = v \div 256
  <1>1. (v % 256) + (256 * (v \div 256)) = v
    OBVIOUS
  <1>2. v \div 256 \in Nat /\ v \div 256 < 256
    OBVIOUS
  <1>3. \A q \in Nat : q < 256 => q % 256 = q
    OBVIOUS
  <1> QED
    BY <1>1, <1>2, <1>3

\* Two bytes give a 16-bit value back.
LEMMA Bytes16 ==
    ASSUME NEW v \in U16
    PROVE  Byte0(v) + 256 * Byte1(v) = v
  <1>1. v \in Nat /\ v < 65536
    BY DEF U16
  <1> QED
    BY <1>1, TwoBytes DEF Byte0, Byte1

\* Four bytes give a 32-bit value back.
LEMMA Bytes32 ==
    ASSUME NEW v \in U32
    PROVE  (Byte0(v) + 256 * Byte1(v)) + 65536 * (Byte2(v) + 256 * Byte3(v)) = v
  <1>1. v \in Nat /\ v \div 65536 \in Nat /\ v \div 65536 < 65536
    <2>1. v \in Nat /\ v \div 65536 \in U16
      BY DEF U32
    <2> QED
      BY <2>1 DEF U16
  <1>2. Byte0(v) + 256 * Byte1(v) = v % 65536
    BY <1>1, Halves, TwoBytes DEF Byte0, Byte1
  <1>3. Byte2(v) + 256 * Byte3(v) = v \div 65536
    <2>1. Byte2(v) = (v \div 65536) % 256
      BY DEF Byte2
    <2>2. Byte3(v) = ((v \div 65536) \div 256) % 256
      BY <1>1, Halves DEF Byte3
    <2> QED
      BY <2>1, <2>2, <1>1, TwoBytes
  <1> QED
    BY <1>1, <1>2, <1>3, Halves

\* Unsigned values are integers.
LEMMA Unsigned ==
    /\ \A v \in U16 : v \in Nat /\ v < 65536
    /\ \A v \in U32 : v \in Nat
    /\ \A v \in Byte : v \in Nat
  BY DEF U16, U32, Byte

\* A suffix leaves the elements of a sequence where they are.
LEMMA Prefix ==
    ASSUME NEW b \in Seq(Int), NEW s \in Seq(Int)
    PROVE  \A i \in 1..Len(b) : (b \o s)[i] = b[i]
    OBVIOUS

\* Whatever message vsomeip hands over, the worker isolate decodes exactly the
\* header that on_message packed: no field is lost, cut or moved.
THEOREM HeaderRoundTrip ==
    ASSUME NEW hdr \in MessageHeader
    PROVE  decodeHeader(encode_header(hdr)) = hdr
  <1> DEFINE b == encode_header(hdr)
  <1>1. /\ hdr.service_id \in U16 /\ hdr.instance_id \in U16 /\ hdr.method_id \in U16
        /\ hdr.request_id \in U32 /\ hdr.payload_len \in U32
    BY DEF MessageHeader
  <1>2. /\ GetU16(b, 1) = hdr.service_id
        /\ GetU16(b, 3) = hdr.instance_id
        /\ GetU16(b, 5) = hdr.method_id
    BY <1>1, Bytes16 DEF encode_header, GetU16
  <1>3. GetU8(b, 7) = hdr.message_type /\ GetU8(b, 8) = hdr.return_code
    BY DEF encode_header, GetU8
  <1>4. GetU32(b, 17) = hdr.payload_len
    <2>1. /\ b[18] = Byte0(hdr.payload_len) /\ b[19] = Byte1(hdr.payload_len)
          /\ b[20] = Byte2(hdr.payload_len) /\ b[21] = Byte3(hdr.payload_len)
      BY DEF encode_header
    <2> QED
      BY <2>1, <1>1, Bytes32 DEF GetU32, GetU16
  <1>5. GetU64(b, 9) = hdr.request_id
    <2>1. /\ b[10] = Byte0(hdr.request_id) /\ b[11] = Byte1(hdr.request_id)
          /\ b[12] = Byte2(hdr.request_id) /\ b[13] = Byte3(hdr.request_id)
          /\ b[14] = 0 /\ b[15] = 0 /\ b[16] = 0 /\ b[17] = 0
      BY DEF encode_header
    <2>2. GetU32(b, 9) = hdr.request_id
      BY <2>1, <1>1, Bytes32 DEF GetU32, GetU16
    <2>3. GetU32(b, 13) = 0
      BY <2>1 DEF GetU32, GetU16
    <2>4. hdr.request_id \in Int
      BY <1>1 DEF U32
    <2> QED
      BY <2>2, <2>3, <2>4 DEF GetU64
  <1> QED
    BY <1>2, <1>3, <1>4, <1>5 DEF decodeHeader, MessageHeader

\* The schema id a CapnpSubscriber appends does not disturb the header in front
\* of it: the same decoder reads both.
THEOREM CapnpHeaderRoundTrip ==
    ASSUME NEW hdr \in MessageHeader, NEW schema_id \in U32
    PROVE  decodeHeader(encode_capnp_header(hdr, schema_id)) = hdr
  <1> DEFINE b == encode_header(hdr)
             s == << Byte0(schema_id), Byte1(schema_id), Byte2(schema_id), Byte3(schema_id) >>
  <1>1. b \in Seq(Int)
    <2>1. /\ hdr.service_id \in U16 /\ hdr.instance_id \in U16 /\ hdr.method_id \in U16
          /\ hdr.message_type \in Byte /\ hdr.return_code \in Byte
          /\ hdr.request_id \in U32 /\ hdr.payload_len \in U32
      BY DEF MessageHeader
    <2>2. \A v \in Nat : /\ Byte0(v) \in Int /\ Byte1(v) \in Int
                         /\ Byte2(v) \in Int /\ Byte3(v) \in Int
      BY DEF Byte0, Byte1, Byte2, Byte3
    <2> QED
      BY <2>1, <2>2, Unsigned DEF encode_header, kMessage
  <1>2. s \in Seq(Int)
    BY Unsigned DEF Byte0, Byte1, Byte2, Byte3
  <1>3. Len(b) = 21
    BY DEF encode_header
  <1> HIDE DEF b, s
  <1> DEFINE c == b \o s
  <1>4. \A i \in 1..21 : c[i] = b[i]
    <2>1. \A i \in 1..Len(b) : c[i] = b[i]
      BY <1>1, <1>2, Prefix
    <2> QED
      BY <2>1, <1>3
  <1> HIDE DEF c
  <1>5. /\ c[2] = b[2] /\ c[3] = b[3] /\ c[4] = b[4] /\ c[5] = b[5] /\ c[6] = b[6]
        /\ c[7] = b[7] /\ c[8] = b[8] /\ c[9] = b[9] /\ c[10] = b[10] /\ c[11] = b[11]
        /\ c[12] = b[12] /\ c[13] = b[13] /\ c[14] = b[14] /\ c[15] = b[15] /\ c[16] = b[16]
        /\ c[17] = b[17] /\ c[18] = b[18] /\ c[19] = b[19] /\ c[20] = b[20] /\ c[21] = b[21]
    BY <1>4
  <1>6. decodeHeader(c) = decodeHeader(b)
    BY <1>5 DEF decodeHeader, GetU8, GetU16, GetU32, GetU64
  <1> USE DEF c
  <1> USE DEF b, s
  <1> QED
    BY <1>6, HeaderRoundTrip DEF encode_capnp_header

\* Client and session id can be told apart in a request id, so two requests that
\* differ in either never share an entry of _pendingRequests.
THEOREM RequestIdSplits ==
    ASSUME NEW client \in U16, NEW session \in U16
    PROVE  /\ RequestId(client, session) \in U32
           /\ RequestId(client, session) \div 65536 = client
           /\ RequestId(client, session) % 65536 = session
  <1>1. client \in Nat /\ client < 65536 /\ session \in Nat /\ session < 65536
    BY Unsigned
  <1>2. \A q, r \in Nat : r < 65536 => /\ (q * 65536 + r) \div 65536 = q
                                      /\ (q * 65536 + r) % 65536 = r
    OBVIOUS
  <1>3. client * 65536 + session \in Nat
    BY <1>1
  <1>4. /\ RequestId(client, session) \div 65536 = client
        /\ RequestId(client, session) % 65536 = session
    BY <1>1, <1>2 DEF RequestId
  <1> QED
    BY <1>3, <1>4 DEF RequestId, U32

\* The padding byte of the posted struct never changes what is decoded.
THEOREM AvailabilityRoundTrip ==
    ASSUME NEW a \in Availability, NEW padding \in Byte
    PROVE  decodeAvailability(on_availability(a, padding)) = a
  <1> DEFINE b == on_availability(a, padding)
  <1>1. GetU16(b, 1) = a.service_id /\ GetU16(b, 3) = a.instance_id
    BY Bytes16 DEF Availability, on_availability, GetU16
  <1>2. (GetU8(b, 5) # 0) = a.available
    BY DEF Availability, on_availability, GetU8
  <1> QED
    BY <1>1, <1>2 DEF decodeAvailability, Availability

-----------------------------------------------------------------------------
(* Payloads: a field that shares no byte with another is read back whole.  *)

\* Every field fits, and no two share a byte or a name.
Apart(capacity, fields) ==
    /\ Len(fields) \in Nat /\ DOMAIN fields = 1..Len(fields)
    /\ \A i \in 1..Len(fields) : /\ fields[i].offset \in Nat /\ fields[i].size \in Nat \ {0}
                                 /\ fields[i].offset + fields[i].size <= capacity
    /\ \A i, j \in 1..Len(fields) : i < j =>
          /\ fields[i].offset + fields[i].size <= fields[j].offset
          /\ fields[i].name # fields[j].name

\* The fields of a layout, one by one.
LEMMA ApartFields ==
    ASSUME NEW capacity \in Nat, NEW fields, Apart(capacity, fields)
    PROVE  /\ Len(fields) \in Nat /\ DOMAIN fields = 1..Len(fields)
           /\ \A i \in 1..Len(fields) : /\ fields[i].offset \in Nat /\ fields[i].size \in Nat \ {0}
                                        /\ fields[i].offset + fields[i].size <= capacity
           /\ \A i, j \in 1..Len(fields) : fields[i].name = fields[j].name => i = j
  <1>1. \A i, j \in 1..Len(fields) : i < j \/ j < i \/ i = j
    BY DEF Apart
  <1> QED BY <1>1 DEF Apart

\* A byte belongs to one field at most.
LEMMA CoversOnce ==
    ASSUME NEW capacity \in Nat, NEW fields, Apart(capacity, fields), NEW o \in 1..capacity,
           NEW j \in 1..Len(fields), NEW k \in 1..Len(fields),
           Covers(capacity, fields[j], o), Covers(capacity, fields[k], o)
    PROVE  j = k
  <1>1. /\ fields[j].offset \in Nat /\ fields[j].size \in Nat
        /\ fields[k].offset \in Nat /\ fields[k].size \in Nat
    BY ApartFields
  <1>2. /\ o > fields[j].offset /\ o <= fields[j].offset + fields[j].size
        /\ o > fields[k].offset /\ o <= fields[k].offset + fields[k].size
    BY <1>1 DEF Covers
  <1>3. ~(fields[j].offset + fields[j].size <= fields[k].offset)
    BY <1>1, <1>2
  <1>4. ~(fields[k].offset + fields[k].size <= fields[j].offset)
    BY <1>1, <1>2
  <1>5. ~(j < k) /\ ~(k < j)
    BY <1>3, <1>4 DEF Apart
  <1> QED BY <1>5

\* So it holds what the setter of that field has written.
LEMMA BuildByte ==
    ASSUME NEW capacity \in Nat, NEW fields, Apart(capacity, fields), NEW o \in 1..capacity,
           NEW j \in 1..Len(fields), Covers(capacity, fields[j], o)
    PROVE  Build(capacity, fields)[o] = <<fields[j].name, o - fields[j].offset>>
  <1> DEFINE over == {k \in DOMAIN fields : Covers(capacity, fields[k], o)}
  <1>1. over = {j} /\ j \in Int
    <2>1. DOMAIN fields = 1..Len(fields) /\ Len(fields) \in Nat
      BY ApartFields
    <2>2. \A k \in 1..Len(fields) : Covers(capacity, fields[k], o) => k = j
      BY CoversOnce
    <2> QED BY <2>1, <2>2
  <1>2. Max(over) = j
    BY <1>1 DEF Max
  <1>3. Build(capacity, fields)[o] = IF over = {} THEN <<>>
              ELSE <<fields[Max(over)].name, o - fields[Max(over)].offset>>
    BY DEF Build
  <1> HIDE DEF over
  <1>4. over # {}
    BY <1>1
  <1> QED BY <1>2, <1>3, <1>4

LEMMA BuildNothing ==
    ASSUME NEW capacity \in Nat, NEW fields, Apart(capacity, fields), NEW o \in 1..capacity,
           Build(capacity, fields)[o] # <<>>
    PROVE  \E j \in 1..Len(fields) : Covers(capacity, fields[j], o)
  <1> DEFINE over == {k \in DOMAIN fields : Covers(capacity, fields[k], o)}
  <1>1. over # {}
    BY DEF Build
  <1> QED BY <1>1, ApartFields

LEMMA BuildSeq ==
    ASSUME NEW capacity \in Nat, NEW fields
    PROVE  \E S : /\ Build(capacity, fields) \in Seq(S)
                  /\ Len(Build(capacity, fields)) = capacity
                  /\ DOMAIN Build(capacity, fields) = 1..capacity
  <1> DEFINE p == Build(capacity, fields)
             S == {p[o] : o \in 1..capacity}
  <1>1. DOMAIN p = 1..capacity /\ p = [o \in 1..capacity |-> p[o]]
    BY DEF Build
  <1> HIDE DEF p
  <1>2. p \in [1..capacity -> S]
    BY <1>1
  <1> HIDE DEF S
  <1>3. p \in Seq(S) /\ Len(p) = capacity
    BY <1>2
  <1> QED BY <1>1, <1>3 DEF p

\* Fields laid out that way are read back whole.
LEMMA FieldsWhole ==
    ASSUME NEW capacity \in Nat, NEW fields, Apart(capacity, fields), NEW i \in 1..Len(fields)
    PROVE  FieldWhole(Build(capacity, fields), fields[i].name,
                      ReadField(Build(capacity, fields), fields[i].offset, fields[i].size))
  <1> DEFINE p == Build(capacity, fields)
             offset == fields[i].offset
             size == fields[i].size
             r == ReadField(p, offset, size)
  <1>1. offset \in Nat /\ size \in Nat \ {0} /\ offset + size <= capacity
    BY ApartFields
  <1>2. PICK S : p \in Seq(S) /\ Len(p) = capacity /\ DOMAIN p = 1..capacity
    BY BuildSeq
  <1>3. ASSUME NEW n \in 1..size
        PROVE  offset + n \in 1..capacity /\ p[offset + n] = <<fields[i].name, n>>
    <2>1. offset + n \in 1..capacity /\ offset + n \in offset + 1 .. offset + size
      BY <1>1
    <2>2. Covers(capacity, fields[i], offset + n)
      BY <1>1, <2>1 DEF Covers
    <2>3. p[offset + n] = <<fields[i].name, (offset + n) - offset>>
      BY <2>1, <2>2, BuildByte
    <2>4. (offset + n) - offset = n
      BY <1>1
    <2> QED BY <2>1, <2>3, <2>4
  <1>4. ASSUME NEW o \in 1..capacity, p[o] # <<>>, p[o][1] = fields[i].name
        PROVE  p[o][2] \in 1..size
    <2>1. PICK j \in 1..Len(fields) : Covers(capacity, fields[j], o)
      BY <1>4, BuildNothing
    <2>2. p[o] = <<fields[j].name, o - fields[j].offset>>
      BY <2>1, BuildByte
    <2>3. j = i
      BY <1>4, <2>2, ApartFields
    <2>4. o \in offset + 1 .. offset + size /\ p[o][2] = o - offset
      BY <2>1, <2>2, <2>3 DEF Covers
    <2> QED BY <1>1, <2>4
  <1> HIDE DEF p, offset, size
  <1>5. r = SubSeq(p, offset + 1, offset + size)
    BY <1>1, <1>2 DEF ReadField
  <1>6. Len(r) = size /\ DOMAIN r = 1..size /\ \A n \in 1..size : r[n] = p[offset + n]
    BY <1>1, <1>2, <1>5
  <1>7. r # <<>>
    BY <1>1, <1>6
  <1> HIDE DEF r
  <1>8. FieldWhole(p, fields[i].name, r)
    BY <1>2, <1>3, <1>4, <1>6, <1>7 DEF FieldWhole
  <1> QED BY <1>8 DEF p, offset, size, r

\* The fields of a layout that is read at its own offsets are read back whole.
LEMMA LayoutWhole ==
    ASSUME NEW capacity \in Nat, NEW fields, Apart(capacity, fields),
           NEW payload, payload = Build(capacity, fields)
    PROVE  \A i \in 1..Len(fields) :
              FieldWhole(payload, fields[i].name,
                         ReadField(payload, fields[i].offset, fields[i].size))
  BY FieldsWhole

LEMMA CapnpVehicleSpeedWhole ==
    Whole(capnp_build_vehicle_speed, VehicleSpeedReader(capnp_build_vehicle_speed))
  <1> DEFINE fields == << Field("speedKmh", 0, 4), Field("timestamp", 4, 8),
                          Field("sensorId", 12, 2), Field("qualityFlag", 14, 1) >>
  <1>1. Apart(16, fields) /\ Len(fields) = 4
    BY DEF Apart, Field
  <1>2. \A i \in 1..4 :
           FieldWhole(capnp_build_vehicle_speed, fields[i].name,
                      ReadField(capnp_build_vehicle_speed, fields[i].offset, fields[i].size))
    BY <1>1, LayoutWhole DEF capnp_build_vehicle_speed
  <1> QED BY <1>2 DEF Whole, VehicleSpeedReader, Field

LEMMA CapnpRadarObjectWhole ==
    Whole(capnp_build_radar_object, RadarObjectReader(capnp_build_radar_object))
  <1> DEFINE fields == << Field("objectId", 0, 2), Field("distanceM", 4, 4),
                          Field("azimuthDeg", 8, 4), Field("velocityMs", 12, 4),
                          Field("rcsDbsm", 16, 4), Field("timestamp", 24, 8),
                          Field("classification", 32, 1) >>
  <1>1. Apart(40, fields) /\ Len(fields) = 7
    BY DEF Apart, Field
  <1>2. \A i \in 1..7 :
           FieldWhole(capnp_build_radar_object, fields[i].name,
                      ReadField(capnp_build_radar_object, fields[i].offset, fields[i].size))
    BY <1>1, LayoutWhole DEF capnp_build_radar_object
  <1> QED BY <1>2 DEF Whole, RadarObjectReader, Field

LEMMA CapnpImuDataWhole ==
    Whole(capnp_build_imu_data, ImuDataReader(capnp_build_imu_data))
  <1> DEFINE fields == << Field("accelX", 0, 4), Field("accelY", 4, 4),
                          Field("accelZ", 8, 4), Field("gyroX", 12, 4),
                          Field("gyroY", 16, 4), Field("gyroZ", 20, 4),
                          Field("timestamp", 24, 8), Field("sensorId", 32, 2) >>
  <1>1. Apart(40, fields) /\ Len(fields) = 8
    BY DEF Apart, Field
  <1>2. \A i \in 1..8 :
           FieldWhole(capnp_build_imu_data, fields[i].name,
                      ReadField(capnp_build_imu_data, fields[i].offset, fields[i].size))
    BY <1>1, LayoutWhole DEF capnp_build_imu_data
  <1> QED BY <1>2 DEF Whole, ImuDataReader, Field

LEMMA SpeedPayloadWhole ==
    /\ Whole(build_speed_payload, VehicleSpeedReader(build_speed_payload))
    /\ Whole(build_speed_payload, ReadSpeed(build_speed_payload))
  <1> DEFINE fields == << Field("speedKmh", 0, 4), Field("timestamp", 4, 8),
                          Field("sensorId", 12, 2), Field("qualityFlag", 14, 1) >>
  <1>1. Apart(16, fields) /\ Len(fields) = 4
    BY DEF Apart, Field
  <1>2. \A i \in 1..4 :
           FieldWhole(build_speed_payload, fields[i].name,
                      ReadField(build_speed_payload, fields[i].offset, fields[i].size))
    BY <1>1, LayoutWhole DEF build_speed_payload
  <1> QED BY <1>2 DEF Whole, VehicleSpeedReader, ReadSpeed, Field

LEMMA FloatPayloadWhole ==
    Whole(build_float_payload, ReadFloat(build_float_payload))
  <1> DEFINE fields == << Field("value", 0, 4) >>
  <1>1. Apart(4, fields) /\ Len(fields) = 1
    BY DEF Apart, Field
  <1>2. \A i \in 1..1 :
           FieldWhole(build_float_payload, fields[i].name,
                      ReadField(build_float_payload, fields[i].offset, fields[i].size))
    BY <1>1, LayoutWhole DEF build_float_payload
  <1> QED BY <1>2 DEF Whole, ReadFloat, Field

LEMMA AttitudeWhole ==
    Whole(build_attitude, ReadAttitude(build_attitude))
  <1> DEFINE fields == << Field("pitch", 0, 4), Field("roll", 4, 4), Field("yaw", 8, 4),
                          Field("throttle", 12, 4) >>
  <1>1. Apart(16, fields) /\ Len(fields) = 4
    BY DEF Apart, Field
  <1>2. \A i \in 1..4 :
           FieldWhole(build_attitude, fields[i].name,
                      ReadField(build_attitude, fields[i].offset, fields[i].size))
    BY <1>1, LayoutWhole DEF build_attitude
  <1> QED BY <1>2 DEF Whole, ReadAttitude, Field

LEMMA MotionWhole ==
    Whole(build_motion, ReadMotion(build_motion))
  <1> DEFINE fields == << Field("altitude_m", 0, 4), Field("vsi_ms", 4, 4),
                          Field("ground_speed_ms", 8, 4), Field("distance_m", 12, 4) >>
  <1>1. Apart(16, fields) /\ Len(fields) = 4
    BY DEF Apart, Field
  <1>2. \A i \in 1..4 :
           FieldWhole(build_motion, fields[i].name,
                      ReadField(build_motion, fields[i].offset, fields[i].size))
    BY <1>1, LayoutWhole DEF build_motion
  <1> QED BY <1>2 DEF Whole, ReadMotion, Field

LEMMA BatteryWhole ==
    Whole(build_battery, ReadBattery(build_battery))
  <1> DEFINE fields == << Field("voltage_v", 0, 4), Field("percent", 4, 4) >>
  <1>1. Apart(8, fields) /\ Len(fields) = 2
    BY DEF Apart, Field
  <1>2. \A i \in 1..2 :
           FieldWhole(build_battery, fields[i].name,
                      ReadField(build_battery, fields[i].offset, fields[i].size))
    BY <1>1, LayoutWhole DEF build_battery
  <1> QED BY <1>2 DEF Whole, ReadBattery, Field

LEMMA StatusWhole ==
    Whole(build_status, ReadStatus(build_status))
  <1> DEFINE fields == << Field("armed", 0, 1), Field("flight_mode", 1, 1),
                          Field("gps_fix", 2, 1), Field("sat_count", 3, 1) >>
  <1>1. Apart(4, fields) /\ Len(fields) = 4
    BY DEF Apart, Field
  <1>2. \A i \in 1..4 :
           FieldWhole(build_status, fields[i].name,
                      ReadField(build_status, fields[i].offset, fields[i].size))
    BY <1>1, LayoutWhole DEF build_status
  <1> QED BY <1>2 DEF Whole, ReadStatus, Field

LEMMA SignalWhole ==
    Whole(build_signal, ReadSignal(build_signal))
  <1> DEFINE fields == << Field("rssi_pct", 0, 1), Field("link_quality", 1, 1) >>
  <1>1. Apart(4, fields) /\ Len(fields) = 2
    BY DEF Apart, Field
  <1>2. \A i \in 1..2 :
           FieldWhole(build_signal, fields[i].name,
                      ReadField(build_signal, fields[i].offset, fields[i].size))
    BY <1>1, LayoutWhole DEF build_signal
  <1> QED BY <1>2 DEF Whole, ReadSignal, Field

LEMMA GimbalWhole ==
    Whole(build_gimbal, ReadGimbal(build_gimbal))
  <1> DEFINE fields == << Field("gimbal_pitch_deg", 0, 4),
                          Field("gimbal_roll_deg", 4, 4) >>
  <1>1. Apart(8, fields) /\ Len(fields) = 2
    BY DEF Apart, Field
  <1>2. \A i \in 1..2 :
           FieldWhole(build_gimbal, fields[i].name,
                      ReadField(build_gimbal, fields[i].offset, fields[i].size))
    BY <1>1, LayoutWhole DEF build_gimbal
  <1> QED BY <1>2 DEF Whole, ReadGimbal, Field

\* Every field of every payload reaches its reader whole.
LEMMA EveryPayloadWhole == PayloadsAgree
  BY CapnpVehicleSpeedWhole, CapnpRadarObjectWhole,
     CapnpImuDataWhole, SpeedPayloadWhole,
     FloatPayloadWhole, AttitudeWhole,
     MotionWhole, BatteryWhole,
     StatusWhole, SignalWhole,
     GimbalWhole
     DEF PayloadsAgree

-----------------------------------------------------------------------------
(* The service: its invariants. *)

Payload == Values \cup {Empty}

TypeInv ==
    /\ offered \in BOOLEAN /\ accepted \in BOOLEAN
    /\ requested \in BOOLEAN /\ known \in BOOLEAN /\ wanted \in BOOLEAN /\ avail \in BOOLEAN
    /\ kinds \in [EventIds -> {"none", "event", "field"}]
    /\ cache \in [EventIds -> Payload \cup {None}] /\ heard \in [EventIds -> Payload \cup {None}]
    /\ routing \in Seq(BOOLEAN) /\ toProvider \in Seq({"subscribe", "unsubscribe"})
    /\ toConsumer \in Seq(EventIds \X Payload)
    /\ handlers \subseteq EventIds /\ events \subseteq EventIds
    /\ pc \in {"idle", "registered", "requested"} /\ (pc # "idle" => arg \in EventIds)

\* The last word of the routing manager is the state of the service.
RoutingInv ==
    requested => IF routing = <<>> THEN known = offered /\ avail = offered
                 ELSE Last(routing) = offered

\* Only fields keep a value.
CacheInv == \A e \in EventIds : cache[e] # None => kinds[e] = "field"

\* Of the events with a handler, only the one being subscribed to is not requested.
CallInv ==
    /\ handlers \ events \subseteq (IF pc = "registered" THEN {arg} ELSE {})
    /\ events \subseteq handlers
    /\ pc # "idle" => arg \in handlers

\* The newest notification of an event, under way or else heard, has its value.
Current(e) ==
    \/ \E i \in 1..Len(toConsumer) : /\ toConsumer[i] = <<e, cache[e]>>
                                     /\ \A j \in (i + 1)..Len(toConsumer) : toConsumer[j][1] # e
    \/ heard[e] = cache[e] /\ \A j \in 1..Len(toConsumer) : toConsumer[j][1] # e

\* The events whose subscription has been made, not just begun.
Listening == {e \in handlers \cap events : ~(pc = "requested" /\ e = arg)}

\* Once the consumer has heard of the offer, its subscription is the last thing on its
\* way to the provider; or it has arrived, and since then no field has changed without
\* a notification.
FieldInv ==
    routing = <<>> /\ offered /\ requested /\ wanted =>
        IF toProvider # <<>> THEN Last(toProvider) = "subscribe"
        ELSE accepted /\ \A e \in Listening : cache[e] # None => Current(e)

IInv == TypeInv /\ RoutingInv /\ CacheInv /\ CallInv /\ FieldInv /\ HeardWhole

LEMMA Ids ==
    /\ ServiceId \in U16 /\ InstanceId \in U16 /\ Client \in U16
    /\ \A e \in EventIds : e \in U16
  BY IdsAssumption

LEMMA EventsFinite == IsFiniteSet(EventIds)
  <1>1. ASSUME NEW n \in Nat PROVE IsFiniteSet({v \in Nat : v < n})
    <2>1. {v \in Nat : v < n} \in SUBSET (0..n)
      OBVIOUS
    <2>2. IsFiniteSet(0..n)
      BY FS_Interval
    <2> QED BY <2>1, <2>2, FS_Subset
  <1>2. IsFiniteSet(U16)
    BY <1>1 DEF U16
  <1> QED BY <1>2, Ids, FS_Subset

LEMMA InitIInv == ASSUME Init PROVE IInv
  <1>1. TypeInv
    <2>1. /\ kinds \in [EventIds -> {"none", "event", "field"}]
          /\ cache \in [EventIds -> Payload \cup {None}]
          /\ heard \in [EventIds -> Payload \cup {None}]
      BY DEF Init
    <2>2. /\ routing \in Seq(BOOLEAN) /\ toProvider \in Seq({"subscribe", "unsubscribe"})
          /\ toConsumer \in Seq(EventIds \X Payload)
      BY DEF Init
    <2> QED BY <2>1, <2>2 DEF Init, TypeInv
  <1>2. RoutingInv /\ CacheInv /\ CallInv /\ FieldInv /\ HeardWhole
    BY DEF Init, RoutingInv, CacheInv, CallInv, FieldInv, HeardWhole
  <1> QED BY <1>1, <1>2 DEF IInv

-----------------------------------------------------------------------------
(* Ports. *)

LEMMA AppendFacts ==
    ASSUME NEW S, NEW s \in Seq(S), NEW e \in S
    PROVE  /\ Append(s, e) \in Seq(S) /\ Append(s, e) # <<>> /\ Last(Append(s, e)) = e
           /\ Len(Append(s, e)) = Len(s) + 1 /\ Len(s) \in Nat
           /\ Append(s, e)[Len(s) + 1] = e
           /\ \A i \in 1..Len(s) : Append(s, e)[i] = s[i]
  <1>1. /\ Append(s, e) \in Seq(S) /\ Len(Append(s, e)) = Len(s) + 1 /\ Len(s) \in Nat
        /\ Append(s, e)[Len(s) + 1] = e
        /\ \A i \in 1..Len(s) : Append(s, e)[i] = s[i]
    OBVIOUS
  <1>2. Append(s, e) # <<>>
    BY <1>1
  <1> QED BY <1>1, <1>2 DEF Last

LEMMA TailFacts ==
    ASSUME NEW S, NEW s \in Seq(S), s # <<>>
    PROVE  /\ Tail(s) \in Seq(S) /\ Head(s) \in S /\ Head(s) = s[1]
           /\ Len(s) \in Nat \ {0} /\ Len(Tail(s)) = Len(s) - 1
           /\ \A i \in 1..Len(Tail(s)) : Tail(s)[i] = s[i + 1]
           /\ Tail(s) # <<>> => Last(Tail(s)) = Last(s)
           /\ Tail(s) = <<>> => Head(s) = Last(s)
  <1>1. /\ Tail(s) \in Seq(S) /\ Head(s) \in S /\ Head(s) = s[1]
        /\ Len(s) \in Nat \ {0} /\ Len(Tail(s)) = Len(s) - 1
        /\ \A i \in 1..Len(Tail(s)) : Tail(s)[i] = s[i + 1]
    OBVIOUS
  <1>2. ASSUME Tail(s) # <<>> PROVE Last(Tail(s)) = Last(s)
    <2>1. Len(Tail(s)) \in 1..Len(Tail(s))
      BY <1>1, <1>2
    <2>2. Tail(s)[Len(Tail(s))] = s[Len(Tail(s)) + 1] /\ Len(Tail(s)) + 1 = Len(s)
      BY <1>1, <2>1
    <2> QED BY <2>2 DEF Last
  <1>3. ASSUME Tail(s) = <<>> PROVE Head(s) = Last(s)
    <2> DEFINE t == Tail(s)
    <2>1. t = <<>> /\ Len(t) = Len(s) - 1
      BY <1>1, <1>3
    <2> HIDE DEF t
    <2>2. Len(t) = 0 /\ Len(s) \in Nat
      <3>1. Len(t) = 0
        BY <2>1
      <3> QED BY <1>1, <3>1
    <2>3. Len(s) = 1
      BY <2>1, <2>2
    <2>4. Last(s) = s[1]
      BY <2>3 DEF Last
    <2> QED BY <1>1, <2>4
  <1> QED BY <1>1, <1>2, <1>3

\* The same for the routing manager's words.
LEMMA AppendBoolean ==
    ASSUME NEW s \in Seq(BOOLEAN), NEW b \in BOOLEAN
    PROVE  Append(s, b) \in Seq(BOOLEAN) /\ Append(s, b) # <<>> /\ Last(Append(s, b)) = b
  BY AppendFacts

LEMMA TailBoolean ==
    ASSUME NEW s \in Seq(BOOLEAN), s # <<>>
    PROVE  /\ Tail(s) \in Seq(BOOLEAN) /\ Head(s) \in BOOLEAN
           /\ Tail(s) # <<>> => Last(Tail(s)) = Last(s)
           /\ Tail(s) = <<>> => Head(s) = Last(s)
  BY TailFacts

\* A set in some order, as SetToSeq gives it.
LEMMA SetToSeqFacts ==
    ASSUME NEW S, IsFiniteSet(S)
    PROVE  /\ SetToSeq(S) \in Seq(S)
           /\ \A x \in S : \E i \in 1..Len(SetToSeq(S)) : SetToSeq(S)[i] = x
           /\ \A i, j \in 1..Len(SetToSeq(S)) : SetToSeq(S)[i] = SetToSeq(S)[j] => i = j
  <1> DEFINE n == Cardinality(S)
             f == SetToSeq(S)
  <1>1. n \in Nat /\ ExistsBijection(1..n, S)
    BY FS_CardinalityType
  <1>2. \E g \in [1..n -> S] : IsInjective(g)
    BY <1>1 DEF ExistsBijection, Bijection, Injection
  <1>3. f \in [1..n -> S] /\ IsInjective(f)
    BY <1>2 DEF SetToSeq
  <1> HIDE DEF f
  <1>4. IsFiniteSet(1..n) /\ Cardinality(1..n) = n
    BY <1>1, FS_Interval
  <1>5. f \in Surjection(1..n, S)
    BY <1>3, <1>4, FS_Injection DEF Injection
  <1> HIDE DEF n
  <1>6. f \in Seq(S) /\ Len(f) = n /\ DOMAIN f = 1..n
    BY <1>1, <1>3
  <1>7. \A x \in S : \E i \in 1..n : f[i] = x
    BY <1>5 DEF Surjection
  <1>8. \A i, j \in 1..n : f[i] = f[j] => i = j
    BY <1>3, <1>6 DEF IsInjective
  <1> QED BY <1>6, <1>7, <1>8 DEF f

-----------------------------------------------------------------------------
(* What is decoded is what was encoded. *)

\* The header that Dispatch packs comes back as it was.
LEMMA NotificationHeader ==
    ASSUME NEW e \in EventIds, NEW len \in {0, 16}
    PROVE  LET sent == PackHeader(ServiceId, InstanceId, e, 2, 0, Client, 0, len)
           IN  /\ decodeHeader(encode_header(sent)) = sent
               /\ sent.method_id = e /\ fromByte(sent.message_type) = 2
  <1> DEFINE sent == PackHeader(ServiceId, InstanceId, e, 2, 0, Client, 0, len)
  <1>1. 0 \in U16 /\ 2 \in Byte /\ 0 \in Byte
    BY DEF U16, Byte
  <1>2. len \in U32
    <2>1. 0 \div 65536 = 0 /\ 16 \div 65536 = 0
      OBVIOUS
    <2> QED BY <1>1, <2>1 DEF U32
  <1>3. RequestId(Client, 0) \in U32
    BY <1>1, Ids, RequestIdSplits
  <1>4. sent \in MessageHeader
    BY <1>1, <1>2, <1>3, Ids DEF PackHeader, MessageHeader
  <1>5. sent.method_id = e /\ sent.message_type = 2
    BY DEF PackHeader
  <1>6. fromByte(2) = 2
    BY DEF fromByte, MessageTypes
  <1> HIDE DEF sent
  <1>7. decodeHeader(encode_header(sent)) = sent
    BY <1>4, HeaderRoundTrip
  <1> QED BY <1>5, <1>6, <1>7 DEF sent

LEMMA AvailabilityEvent ==
    ASSUME NEW available \in BOOLEAN, NEW padding \in {0, 255}
    PROVE  LET sent == [service_id |-> ServiceId, instance_id |-> InstanceId,
                        available |-> available]
           IN  decodeAvailability(on_availability(sent, padding)) = sent
  <1> DEFINE sent == [service_id |-> ServiceId, instance_id |-> InstanceId,
                      available |-> available]
  <1>1. sent \in Availability /\ padding \in Byte
    BY Ids DEF Availability, Byte
  <1> HIDE DEF sent
  <1>2. decodeAvailability(on_availability(sent, padding)) = sent
    BY <1>1, AvailabilityRoundTrip
  <1> QED BY <1>2 DEF sent

\* What the two deliveries do to Dart's side.
LEMMA AvailabilityHeard ==
    ASSUME TypeInv, HeardWhole, NEW padding \in {0, 255}, AvailabilityChanges(padding)
    PROVE  avail' = Head(routing) /\ HeardWhole'
  <1> DEFINE sent == [service_id |-> ServiceId, instance_id |-> InstanceId,
                      available |-> Head(routing)]
             got == decodeAvailability(on_availability(sent, padding))
  <1>1. Head(routing) \in BOOLEAN
    BY TailFacts DEF AvailabilityChanges, TypeInv
  <1>2. got = sent
    BY <1>1, AvailabilityEvent
  <1>3. sent.available = Head(routing)
    OBVIOUS
  <1>4. avail' = got.available /\ garbled' = (garbled \/ got # sent)
    BY DEF AvailabilityChanges
  <1> HIDE DEF got, sent
  <1> QED BY <1>2, <1>3, <1>4 DEF HeardWhole

LEMMA NotificationHeard ==
    ASSUME TypeInv, HeardWhole, Dispatch
    PROVE  /\ HeardWhole'
           /\ heard' = IF Head(toConsumer)[1] \in handlers \cap events
                       THEN [heard EXCEPT ![Head(toConsumer)[1]] = Head(toConsumer)[2]]
                       ELSE heard
  <1> DEFINE event == Head(toConsumer)[1]
             value == Head(toConsumer)[2]
             len == IF value = Empty THEN 0 ELSE 16
             sent == PackHeader(ServiceId, InstanceId, event, 2, 0, Client, 0, len)
             got == decodeHeader(encode_header(sent))
  <1>1. event \in EventIds /\ value \in Payload
    <2>1. Head(toConsumer) \in EventIds \X Payload
      BY TailFacts DEF Dispatch, TypeInv
    <2> QED BY <2>1
  <1>2. CASE event \notin handlers \cap events
    BY <1>2 DEF Dispatch, HeardWhole
  <1>3. CASE event \in handlers \cap events
    <2>1. /\ heard' = [e \in EventIds |-> IF e = got.method_id THEN value ELSE heard[e]]
          /\ garbled' = (garbled \/ got # sent \/ fromByte(got.message_type) # 2
                                 \/ (value # Empty /\ ~PayloadsAgree))
      BY <1>3 DEF Dispatch
    <2>2. got = sent /\ sent.method_id = event /\ fromByte(sent.message_type) = 2
      BY <1>1, NotificationHeader
    <2> HIDE DEF got, sent
    <2>3. HeardWhole'
      BY <2>1, <2>2, EveryPayloadWhole DEF HeardWhole
    <2>4. heard' = [heard EXCEPT ![event] = value]
      BY <2>1, <2>2 DEF TypeInv
    <2> QED BY <1>3, <2>3, <2>4
  <1> QED BY <1>2, <1>3

-----------------------------------------------------------------------------
(* The provider. *)

\* While no subscription can be expected, the view of the fields is of no matter.
LEMMA NoView ==
    ASSUME routing' # <<>> \/ ~offered' \/ ~requested' \/ ~wanted'
    PROVE  FieldInv'
  BY DEF FieldInv

\* Nor is it when nothing happens to the subscription, the notifications and the values.
LEMMA SameView ==
    ASSUME FieldInv, UNCHANGED <<toProvider, toConsumer, heard, accepted>>,
           routing' = <<>> /\ offered' /\ requested' /\ wanted'
              => routing = <<>> /\ offered /\ requested /\ wanted,
           Listening' \subseteq Listening,
           \A e \in Listening' : cache'[e] = cache[e] \/ cache'[e] = None
    PROVE  FieldInv'
  <1>1. ASSUME NEW e \in Listening', cache'[e] # None, Current(e) PROVE Current(e)'
    <2>1. cache'[e] = cache[e]
      BY <1>1
    <2> QED BY <1>1, <2>1 DEF Current
  <1>2. SUFFICES ASSUME routing' = <<>> /\ offered' /\ requested' /\ wanted',
                        toProvider = <<>>
                 PROVE  accepted /\ \A e \in Listening' : cache'[e] # None => Current(e)'
    BY DEF FieldInv
  <1>3. accepted /\ \A e \in Listening : cache[e] # None => Current(e)
    BY <1>2 DEF FieldInv
  <1>4. ASSUME NEW e \in Listening', cache'[e] # None PROVE Current(e)'
    <2>1. e \in Listening /\ cache[e] # None
      BY <1>4
    <2> QED BY <1>1, <1>3, <1>4, <2>1
  <1> QED BY <1>3, <1>4

LEMMA OfferIInv ==
    ASSUME IInv, vsomeip_offer_service \/ vsomeip_stop_offer_service PROVE IInv'
  <1>1. UNCHANGED <<kinds, toProvider, toConsumer, consumer, dart>>
    BY DEF vsomeip_offer_service, vsomeip_stop_offer_service
  <1>2. /\ offered' \in BOOLEAN /\ accepted' \in BOOLEAN
        /\ routing' = IF requested THEN Append(routing, offered') ELSE routing
        /\ offered' => accepted' = accepted /\ cache' = cache
        /\ ~offered' => cache' = [e \in EventIds |-> None]
    BY DEF vsomeip_offer_service, vsomeip_stop_offer_service, Announce, IInv, TypeInv
  <1>3. /\ routing' \in Seq(BOOLEAN)
        /\ requested => routing' # <<>> /\ Last(routing') = offered'
    <2>1. routing \in Seq(BOOLEAN)
      BY DEF IInv, TypeInv
    <2>2. Append(routing, offered') \in Seq(BOOLEAN) /\ Append(routing, offered') # <<>>
          /\ Last(Append(routing, offered')) = offered'
      BY <1>2, <2>1, AppendBoolean
    <2>3. CASE requested
      BY <1>2, <2>2, <2>3
    <2>4. CASE ~requested
      BY <1>2, <2>1, <2>4
    <2> QED BY <2>3, <2>4
  <1>4. TypeInv'
    BY <1>1, <1>2, <1>3 DEF IInv, TypeInv, consumer, dart
  <1>5. RoutingInv' /\ CacheInv' /\ CallInv' /\ HeardWhole'
    BY <1>1, <1>2, <1>3 DEF IInv, RoutingInv, CacheInv, CallInv, HeardWhole, consumer, dart
  <1>6. FieldInv'
    BY <1>1, <1>3, NoView DEF consumer
  <1> QED BY <1>4, <1>5, <1>6 DEF IInv

LEMMA EventIInv ==
    ASSUME IInv, NEW e \in EventIds, NEW is_field \in BOOLEAN,
           vsomeip_offer_event(e, is_field) \/ vsomeip_stop_offer_event(e)
    PROVE  IInv'
  <1>1. UNCHANGED <<offered, accepted, flights, consumer, dart>>
    BY DEF vsomeip_offer_event, vsomeip_stop_offer_event
  <1>2. /\ kinds' \in [EventIds -> {"none", "event", "field"}]
        /\ cache' \in [EventIds -> Payload \cup {None}]
        /\ \A x \in EventIds : cache'[x] = cache[x] \/ cache'[x] = None
    BY DEF vsomeip_offer_event, vsomeip_stop_offer_event, IInv, TypeInv
  <1>3. CacheInv'
    BY DEF vsomeip_offer_event, vsomeip_stop_offer_event, IInv, TypeInv, CacheInv
  <1>4. TypeInv'
    BY <1>1, <1>2 DEF IInv, TypeInv, flights, consumer, dart
  <1>5. RoutingInv' /\ CallInv' /\ HeardWhole'
    BY <1>1 DEF IInv, RoutingInv, CallInv, HeardWhole, flights, consumer, dart
  <1>6. FieldInv'
    <2>1. Listening' = Listening /\ Listening \subseteq EventIds
      BY <1>1 DEF Listening, consumer, IInv, TypeInv
    <2> QED BY <1>1, <1>2, <2>1, SameView DEF IInv, flights, consumer, dart
  <1> QED BY <1>3, <1>4, <1>5, <1>6 DEF IInv

\* A published value of a field is sent, or it is the one that was sent before.
LEMMA PublishCurrent ==
    ASSUME IInv, NEW e \in EventIds, NEW v \in Payload, NEW force \in BOOLEAN,
           Publish(e, v, force), accepted,
           NEW x \in EventIds, cache'[x] # None, cache[x] # None => Current(x)
    PROVE  Current(x)'
  <1>1. /\ heard' = heard /\ toConsumer \in Seq(EventIds \X Payload)
        /\ <<e, v>> \in EventIds \X Payload
        /\ cache \in [EventIds -> Payload \cup {None}]
    BY DEF Publish, dart, IInv, TypeInv
  <1>2. CASE toConsumer' = Append(toConsumer, <<e, v>>)
    <2>1. /\ Len(toConsumer) \in Nat /\ Len(toConsumer') = Len(toConsumer) + 1
          /\ toConsumer'[Len(toConsumer) + 1] = <<e, v>>
          /\ \A i \in 1..Len(toConsumer) : toConsumer'[i] = toConsumer[i]
      BY <1>1, <1>2, AppendFacts
    <2>2. CASE x = e
      <3>1. kinds[e] = "field" /\ cache'[x] = v
        BY <1>1, <2>2 DEF Publish, IInv, CacheInv
      <3>2. /\ toConsumer'[Len(toConsumer')] = <<x, cache'[x]>>
            /\ Len(toConsumer') \in 1..Len(toConsumer')
        BY <2>1, <2>2, <3>1
      <3>3. \A j \in (Len(toConsumer') + 1)..Len(toConsumer') : FALSE
        BY <2>1
      <3> QED BY <3>2, <3>3 DEF Current
    <2>3. CASE x # e
      <3>1. cache'[x] = cache[x] /\ Current(x)
        BY <1>1, <2>3 DEF Publish
      <3>2. toConsumer'[Len(toConsumer')][1] # x
        BY <2>1, <2>3
      <3>3. CASE heard[x] = cache[x] /\ \A j \in 1..Len(toConsumer) : toConsumer[j][1] # x
        <4>1. \A j \in 1..Len(toConsumer') : toConsumer'[j][1] # x
          BY <2>1, <3>2, <3>3
        <4> QED BY <1>1, <3>1, <3>3, <4>1 DEF Current
      <3>4. ASSUME NEW i \in 1..Len(toConsumer), toConsumer[i] = <<x, cache[x]>>,
                   \A j \in (i + 1)..Len(toConsumer) : toConsumer[j][1] # x
            PROVE  Current(x)'
        <4>1. \A j \in (i + 1)..Len(toConsumer') : toConsumer'[j][1] # x
          BY <2>1, <3>2, <3>4
        <4>2. i \in 1..Len(toConsumer') /\ toConsumer'[i] = <<x, cache'[x]>>
          BY <2>1, <3>1, <3>4
        <4> QED BY <4>1, <4>2 DEF Current
      <3> QED BY <3>1, <3>3, <3>4 DEF Current
    <2> QED BY <2>2, <2>3
  <1>3. CASE toConsumer' = toConsumer /\ toConsumer' # Append(toConsumer, <<e, v>>)
    <2>1. kinds[e] = "field" /\ cache[e] = v
      BY <1>3 DEF Publish
    <2>2. cache' = cache
      BY <1>1, <2>1 DEF Publish
    <2> QED BY <1>1, <1>3, <2>2 DEF Current
  <1> QED BY <1>2, <1>3 DEF Publish

LEMMA PublishIInv ==
    ASSUME IInv, NEW e \in EventIds, NEW v \in Payload, NEW force \in BOOLEAN, Publish(e, v, force)
    PROVE  IInv'
  <1>1. UNCHANGED <<offered, kinds, accepted, routing, toProvider, consumer, dart>>
    BY DEF Publish
  <1>2. /\ cache' \in [EventIds -> Payload \cup {None}]
        /\ \A x \in EventIds : cache'[x] # None => kinds[x] = "field"
    BY DEF Publish, IInv, TypeInv, CacheInv
  <1>3. toConsumer' \in Seq(EventIds \X Payload)
    <2>1. <<e, v>> \in EventIds \X Payload
      OBVIOUS
    <2> QED BY <2>1, AppendFacts DEF Publish, IInv, TypeInv
  <1>4. TypeInv'
    BY <1>1, <1>2, <1>3 DEF IInv, TypeInv, consumer, dart
  <1>5. RoutingInv' /\ CacheInv' /\ CallInv' /\ HeardWhole'
    BY <1>1, <1>2 DEF IInv, RoutingInv, CacheInv, CallInv, HeardWhole, consumer, dart
  <1>6. FieldInv'
    <2>1. Listening' = Listening /\ Listening \subseteq EventIds
      BY <1>1 DEF Listening, consumer, IInv, TypeInv
    <2>2. SUFFICES ASSUME routing = <<>> /\ offered /\ requested /\ wanted, toProvider = <<>>,
                          NEW x \in Listening, cache'[x] # None
                   PROVE  accepted /\ Current(x)'
      BY <1>1, <2>1 DEF FieldInv, IInv, consumer
    <2>3. accepted /\ (cache[x] # None => Current(x))
      BY <2>2 DEF FieldInv, IInv
    <2> QED BY <2>1, <2>2, <2>3, PublishCurrent
  <1> QED BY <1>4, <1>5, <1>6 DEF IInv

LEMMA ProviderIInv == ASSUME IInv, Provider PROVE IInv'
  <1>1. ASSUME NEW e \in EventIds, NEW v \in Values, NEW force \in BOOLEAN,
               vsomeip_notify(e, v, force)
        PROVE  IInv'
    BY <1>1, PublishIInv DEF vsomeip_notify, Payload
  <1>2. ASSUME NEW e \in EventIds, NEW force \in BOOLEAN, vsomeip_capnp_notify(e, force)
        PROVE  IInv'
    BY <1>2, PublishIInv DEF vsomeip_capnp_notify, Payload
  <1> QED BY <1>1, <1>2, OfferIInv, EventIInv DEF Provider

-----------------------------------------------------------------------------
(* The consumer. *)

LEMMA RequestIInv ==
    ASSUME IInv, vsomeip_request_service \/ vsomeip_release_service PROVE IInv'
  <1>1. UNCHANGED <<provider, toProvider, toConsumer, handlers, events, wanted, pc, arg, dart>>
    BY DEF vsomeip_request_service, vsomeip_release_service, flights
  <1>2. /\ requested' \in BOOLEAN /\ known' \in BOOLEAN
        /\ requested' => routing' = Append(routing, offered)
        /\ ~requested' => routing' = routing
    BY DEF vsomeip_request_service, vsomeip_release_service, flights, IInv, TypeInv
  <1>3. /\ routing' \in Seq(BOOLEAN)
        /\ requested' => routing' # <<>> /\ Last(routing') = offered
    <2>1. routing \in Seq(BOOLEAN) /\ offered \in BOOLEAN
      BY DEF IInv, TypeInv
    <2>2. Append(routing, offered) \in Seq(BOOLEAN) /\ Append(routing, offered) # <<>>
          /\ Last(Append(routing, offered)) = offered
      BY <2>1, AppendBoolean
    <2>3. CASE requested'
      BY <1>2, <2>2, <2>3
    <2>4. CASE ~requested'
      BY <1>2, <2>1, <2>4
    <2> QED BY <2>3, <2>4
  <1>4. TypeInv'
    BY <1>1, <1>2, <1>3 DEF IInv, TypeInv, provider, dart
  <1>5. RoutingInv' /\ CacheInv' /\ CallInv' /\ HeardWhole'
    BY <1>1, <1>3 DEF IInv, RoutingInv, CacheInv, CallInv, HeardWhole, provider, dart
  <1>6. FieldInv'
    BY <1>3, NoView
  <1> QED BY <1>4, <1>5, <1>6 DEF IInv

LEMMA BeginSubscribeIInv ==
    ASSUME IInv, NEW e \in EventIds, subscribe_register(e) \/ subscribe_request PROVE IInv'
  <1>1. UNCHANGED <<provider, flights, requested, known, wanted, dart>>
    BY DEF subscribe_register, subscribe_request
  <1>2. /\ handlers' \subseteq EventIds /\ events' \subseteq EventIds
        /\ pc' \in {"registered", "requested"} /\ arg' \in EventIds
    BY DEF subscribe_register, subscribe_request, IInv, TypeInv
  <1>3. CallInv' /\ Listening' \subseteq Listening
    <2>1. CASE subscribe_register(e)
      BY <2>1 DEF subscribe_register, IInv, CallInv, Listening
    <2>2. CASE subscribe_request
      BY <2>2 DEF subscribe_request, IInv, CallInv, Listening
    <2> QED BY <2>1, <2>2
  <1>4. TypeInv'
    BY <1>1, <1>2 DEF IInv, TypeInv, provider, flights, dart
  <1>5. RoutingInv' /\ CacheInv' /\ HeardWhole'
    BY <1>1 DEF IInv, RoutingInv, CacheInv, HeardWhole, provider, flights, dart
  <1>6. FieldInv'
    BY <1>1, <1>3, SameView DEF IInv, provider, flights, dart
  <1> QED BY <1>3, <1>4, <1>5, <1>6 DEF IInv

LEMMA GroupIInv == ASSUME IInv, subscribe_group \/ vsomeip_unsubscribe PROVE IInv'
  <1>1. UNCHANGED <<provider, routing, toConsumer, requested, known, handlers, events, dart>>
    BY DEF subscribe_group, vsomeip_unsubscribe
  <1>2. /\ wanted' \in BOOLEAN /\ pc' = "idle"
        /\ pc # "registered"
        /\ toProvider' = IF known
                         THEN Append(toProvider, IF wanted' THEN "subscribe" ELSE "unsubscribe")
                         ELSE toProvider
    BY DEF subscribe_group, vsomeip_unsubscribe
  <1>3. /\ toProvider' \in Seq({"subscribe", "unsubscribe"})
        /\ known /\ wanted' => toProvider' # <<>> /\ Last(toProvider') = "subscribe"
    <2>1. toProvider \in Seq({"subscribe", "unsubscribe"})
      BY DEF IInv, TypeInv
    <2> QED BY <1>2, <2>1, AppendFacts
  <1>4. TypeInv'
    BY <1>1, <1>2, <1>3 DEF IInv, TypeInv, provider, dart
  <1>5. RoutingInv' /\ CacheInv' /\ CallInv' /\ HeardWhole'
    BY <1>1, <1>2 DEF IInv, RoutingInv, CacheInv, CallInv, HeardWhole, provider, dart
  <1>6. FieldInv'
    <2>1. routing = <<>> /\ offered /\ requested => known
      BY DEF IInv, RoutingInv
    <2> QED BY <1>1, <1>3, <2>1 DEF FieldInv, provider
  <1> QED BY <1>4, <1>5, <1>6 DEF IInv

LEMMA ConsumerIInv == ASSUME IInv, Consumer PROVE IInv'
  <1>1. ASSUME subscribe_request PROVE \E e \in EventIds : TRUE
    BY <1>1 DEF subscribe_request, IInv, TypeInv
  <1> QED BY <1>1, RequestIInv, BeginSubscribeIInv, GroupIInv DEF Consumer

-----------------------------------------------------------------------------
(* vsomeip's threads. *)

\* The accepted subscription is answered with the values of all fields.
LEMMA InitialValues ==
    ASSUME IInv, ProviderSubscribes, accepted'
    PROVE  /\ toConsumer' \in Seq(EventIds \X Payload)
           /\ \A x \in EventIds : cache[x] # None => Current(x)'
  <1> DEFINE fields == {e \in EventIds : kinds[e] = "field" /\ cache[e] # None}
             values == {<<e, cache[e]>> : e \in fields}
             initial == SetToSeq(values)
             n == Len(toConsumer)
  <1>1. toConsumer' = toConsumer \o initial /\ UNCHANGED <<cache, dart>>
    BY DEF ProviderSubscribes
  <1>2. IsFiniteSet(values)
    <2> DEFINE pair == [e \in fields |-> <<e, cache[e]>>]
    <2>1. IsFiniteSet(fields)
      BY EventsFinite, FS_Subset
    <2>2. pair \in Surjection(fields, values)
      BY DEF Surjection
    <2> QED BY <2>1, <2>2, FS_Surjection
  <1>3. values \subseteq EventIds \X Payload
    BY DEF IInv, TypeInv
  <1>4. /\ initial \in Seq(values) /\ \A i \in 1..Len(initial) : initial[i] \in values
        /\ \A y \in values : \E i \in 1..Len(initial) : initial[i] = y
        /\ \A i, j \in 1..Len(initial) : initial[i] = initial[j] => i = j
    <2> HIDE DEF values
    <2>1. /\ initial \in Seq(values)
          /\ \A y \in values : \E i \in 1..Len(initial) : initial[i] = y
          /\ \A i, j \in 1..Len(initial) : initial[i] = initial[j] => i = j
      BY <1>2, SetToSeqFacts
    <2> HIDE DEF initial
    <2>2. \A i \in 1..Len(initial) : initial[i] \in values
      BY <2>1
    <2> QED BY <2>1, <2>2
  <1>5. \A y \in values : y[1] \in fields /\ y[2] = cache[y[1]] /\ y = <<y[1], cache[y[1]]>>
    OBVIOUS
  <1>6. toConsumer \in Seq(EventIds \X Payload)
    BY DEF IInv, TypeInv
  <1> HIDE DEF initial
  <1>7. initial \in Seq(EventIds \X Payload)
    BY <1>3, <1>4
  <1>8. /\ toConsumer' \in Seq(EventIds \X Payload)
        /\ n \in Nat /\ Len(initial) \in Nat /\ Len(toConsumer') = n + Len(initial)
        /\ \A i \in 1..Len(initial) : toConsumer'[n + i] = initial[i]
    BY <1>1, <1>6, <1>7
  <1>9. ASSUME NEW x \in EventIds, cache[x] # None PROVE Current(x)'
    <2>1. <<x, cache[x]>> \in values
      BY <1>9 DEF IInv, CacheInv
    <2>2. PICK i \in 1..Len(initial) : initial[i] = <<x, cache[x]>>
      BY <1>4, <2>1
    <2>3. n + i \in 1..Len(toConsumer') /\ toConsumer'[n + i] = <<x, cache'[x]>>
      BY <1>1, <1>8, <2>2
    <2>4. ASSUME NEW j \in (n + i + 1)..Len(toConsumer'), toConsumer'[j][1] = x PROVE FALSE
      <3>1. j - n \in 1..Len(initial) /\ n + (j - n) = j /\ j - n # i
        BY <1>8
      <3>2. toConsumer'[j] = initial[j - n]
        BY <1>8, <3>1
      <3>3. initial[j - n] \in values
        BY <1>4, <3>1
      <3>4. initial[j - n] = <<x, cache[x]>>
        BY <1>5, <2>4, <3>2, <3>3
      <3> QED BY <1>4, <2>2, <3>1, <3>4
    <2> QED BY <2>3, <2>4 DEF Current
  <1> QED BY <1>8, <1>9

LEMMA SubscribesIInv == ASSUME IInv, ProviderSubscribes PROVE IInv'
  <1>1. /\ UNCHANGED <<offered, kinds, cache, routing, consumer, dart>>
        /\ toProvider # <<>> /\ toProvider' = Tail(toProvider)
        /\ accepted' = (offered /\ Head(toProvider) = "subscribe")
        /\ ~accepted' => toConsumer' = toConsumer
    BY DEF ProviderSubscribes
  <1>2. /\ toProvider' \in Seq({"subscribe", "unsubscribe"})
        /\ toProvider' # <<>> => Last(toProvider') = Last(toProvider)
        /\ toProvider' = <<>> => Head(toProvider) = Last(toProvider)
    <2>1. toProvider \in Seq({"subscribe", "unsubscribe"})
      BY DEF IInv, TypeInv
    <2> QED BY <1>1, <2>1, TailFacts
  <1>3. toConsumer' \in Seq(EventIds \X Payload)
    BY <1>1, InitialValues DEF IInv, TypeInv
  <1>4. TypeInv'
    BY <1>1, <1>2, <1>3 DEF IInv, TypeInv, consumer, dart
  <1>5. RoutingInv' /\ CacheInv' /\ CallInv' /\ HeardWhole'
    BY <1>1 DEF IInv, RoutingInv, CacheInv, CallInv, HeardWhole, consumer, dart
  <1>6. FieldInv'
    <2>1. Listening' = Listening /\ Listening \subseteq EventIds
      BY <1>1 DEF Listening, consumer, IInv, TypeInv
    <2>2. SUFFICES ASSUME routing = <<>> /\ offered /\ requested /\ wanted
                   PROVE  IF toProvider' # <<>> THEN Last(toProvider') = "subscribe"
                          ELSE accepted' /\ \A x \in Listening : cache[x] # None => Current(x)'
      BY <1>1, <2>1 DEF FieldInv, consumer
    <2>3. Last(toProvider) = "subscribe"
      BY <1>1, <2>2 DEF IInv, FieldInv
    <2>4. CASE toProvider' # <<>>
      BY <1>2, <2>3, <2>4
    <2>5. CASE toProvider' = <<>>
      <3>1. accepted'
        BY <1>1, <1>2, <2>2, <2>3, <2>5
      <3> QED BY <2>1, <2>5, <3>1, InitialValues
    <2> QED BY <2>4, <2>5
  <1> QED BY <1>4, <1>5, <1>6 DEF IInv

LEMMA AvailabilityIInv ==
    ASSUME IInv, NEW padding \in {0, 255}, AvailabilityChanges(padding) PROVE IInv'
  <1>1. /\ UNCHANGED <<provider, toConsumer, requested, handlers, events, wanted, pc, arg, heard>>
        /\ routing # <<>> /\ routing' = Tail(routing) /\ known' = Head(routing)
        /\ toProvider' = IF Head(routing) /\ wanted THEN Append(toProvider, "subscribe")
                         ELSE toProvider
    BY DEF AvailabilityChanges
  <1>2. avail' = Head(routing) /\ HeardWhole'
    BY AvailabilityHeard DEF IInv
  <1>3. /\ routing' \in Seq(BOOLEAN) /\ Head(routing) \in BOOLEAN
        /\ routing' # <<>> => Last(routing') = Last(routing)
        /\ routing' = <<>> => Head(routing) = Last(routing)
    <2>1. routing \in Seq(BOOLEAN)
      BY DEF IInv, TypeInv
    <2> QED BY <1>1, <2>1, TailBoolean
  <1>4. /\ toProvider' \in Seq({"subscribe", "unsubscribe"})
        /\ Head(routing) /\ wanted => toProvider' # <<>> /\ Last(toProvider') = "subscribe"
    <2>1. toProvider \in Seq({"subscribe", "unsubscribe"})
      BY DEF IInv, TypeInv
    <2>2. LET p == Append(toProvider, "subscribe")
          IN  p \in Seq({"subscribe", "unsubscribe"}) /\ p # <<>> /\ Last(p) = "subscribe"
      BY <2>1, AppendFacts
    <2>3. CASE Head(routing) /\ wanted
      BY <1>1, <2>2, <2>3
    <2>4. CASE ~(Head(routing) /\ wanted)
      BY <1>1, <2>1, <2>4
    <2> QED BY <2>3, <2>4
  <1>5. TypeInv'
    <2>1. known' \in BOOLEAN /\ avail' \in BOOLEAN
      BY <1>1, <1>2, <1>3
    <2>2. UNCHANGED <<offered, kinds, cache, accepted, toConsumer, requested, handlers, events,
                      wanted, pc, arg, heard>>
      BY <1>1 DEF provider
    <2>3. routing' \in Seq(BOOLEAN) /\ toProvider' \in Seq({"subscribe", "unsubscribe"})
      BY <1>3, <1>4
    <2> QED BY <2>1, <2>2, <2>3 DEF IInv, TypeInv
  <1>6. RoutingInv'
    BY <1>1, <1>2, <1>3 DEF IInv, RoutingInv, provider
  <1>7. CacheInv' /\ CallInv'
    BY <1>1 DEF IInv, CacheInv, CallInv, provider
  <1>8. FieldInv'
    <2>1. routing' = <<>> /\ requested /\ offered => Head(routing)
      BY <1>1, <1>3 DEF IInv, RoutingInv
    <2> QED BY <1>1, <1>4, <2>1 DEF FieldInv, provider
  <1> QED BY <1>2, <1>5, <1>6, <1>7, <1>8 DEF IInv

\* Taking the oldest notification leaves the newest one where it is, or hears it.
LEMMA DispatchCurrent ==
    ASSUME IInv, Dispatch, NEW x \in handlers \cap events, Current(x)
    PROVE  Current(x)'
  <1> DEFINE n == Len(toConsumer)
  <1>1. /\ cache' = cache /\ toConsumer # <<>> /\ toConsumer' = Tail(toConsumer)
        /\ toConsumer \in Seq(EventIds \X Payload) /\ heard \in [EventIds -> Payload \cup {None}]
        /\ x \in EventIds
    BY DEF Dispatch, provider, IInv, TypeInv
  <1>2. /\ Head(toConsumer) = toConsumer[1] /\ Head(toConsumer)[1] \in EventIds
        /\ n \in Nat \ {0} /\ Len(toConsumer') = n - 1
        /\ \A i \in 1..Len(toConsumer') : toConsumer'[i] = toConsumer[i + 1]
    BY <1>1, TailFacts
  <1>3. heard' = IF Head(toConsumer)[1] \in handlers \cap events
                 THEN [heard EXCEPT ![Head(toConsumer)[1]] = Head(toConsumer)[2]] ELSE heard
    BY NotificationHeard DEF IInv
  <1>4. CASE heard[x] = cache[x] /\ \A j \in 1..n : toConsumer[j][1] # x
    <2>1. Head(toConsumer)[1] # x
      BY <1>2, <1>4
    <2>2. heard'[x] = heard[x]
      BY <1>1, <1>2, <1>3, <2>1
    <2>3. \A j \in 1..Len(toConsumer') : toConsumer'[j][1] # x
      BY <1>2, <1>4
    <2> QED BY <1>1, <1>4, <2>2, <2>3 DEF Current
  <1>5. ASSUME NEW i \in 1..n, toConsumer[i] = <<x, cache[x]>>,
               \A j \in (i + 1)..n : toConsumer[j][1] # x
        PROVE  Current(x)'
    <2>1. CASE i = 1
      <3>1. heard'[x] = cache[x]
        BY <1>1, <1>2, <1>3, <1>5, <2>1
      <3>2. \A j \in 1..Len(toConsumer') : toConsumer'[j][1] # x
        BY <1>2, <1>5, <2>1
      <3> QED BY <1>1, <3>1, <3>2 DEF Current
    <2>2. CASE i # 1
      <3>1. i - 1 \in 1..Len(toConsumer') /\ (i - 1) + 1 = i
        BY <1>2, <2>2
      <3>2. toConsumer'[i - 1] = <<x, cache'[x]>>
        BY <1>1, <1>2, <1>5, <3>1
      <3>3. ASSUME NEW j \in ((i - 1) + 1)..Len(toConsumer') PROVE toConsumer'[j][1] # x
        <4>1. j + 1 \in (i + 1)..n /\ j \in 1..Len(toConsumer')
          BY <1>2, <3>1
        <4> QED BY <1>2, <1>5, <4>1
      <3> QED BY <3>1, <3>2, <3>3 DEF Current
    <2> QED BY <2>1, <2>2
  <1> QED BY <1>4, <1>5 DEF Current

LEMMA DispatchIInv == ASSUME IInv, Dispatch PROVE IInv'
  <1>1. /\ UNCHANGED <<provider, routing, toProvider, consumer, avail>>
        /\ toConsumer # <<>> /\ toConsumer' = Tail(toConsumer)
    BY DEF Dispatch
  <1>2. /\ toConsumer' \in Seq(EventIds \X Payload) /\ Head(toConsumer) \in EventIds \X Payload
    <2>1. toConsumer \in Seq(EventIds \X Payload)
      BY DEF IInv, TypeInv
    <2> QED BY <1>1, <2>1, TailFacts
  <1>3. HeardWhole' /\ heard' \in [EventIds -> Payload \cup {None}]
    <2>1. heard \in [EventIds -> Payload \cup {None}]
      BY DEF IInv, TypeInv
    <2> QED BY <1>2, <2>1, NotificationHeard DEF IInv
  <1>4. TypeInv'
    BY <1>1, <1>2, <1>3 DEF IInv, TypeInv, provider, consumer
  <1>5. RoutingInv' /\ CacheInv' /\ CallInv'
    BY <1>1 DEF IInv, RoutingInv, CacheInv, CallInv, provider, consumer
  <1>6. FieldInv'
    <2>1. Listening' = Listening /\ Listening \subseteq handlers \cap events
      BY <1>1 DEF Listening, consumer
    <2>2. SUFFICES ASSUME routing = <<>> /\ offered /\ requested /\ wanted
                   PROVE  IF toProvider # <<>> THEN Last(toProvider) = "subscribe"
                          ELSE accepted /\ \A x \in Listening : cache[x] # None => Current(x)'
      BY <1>1, <2>1 DEF FieldInv, provider, consumer
    <2>3. IF toProvider # <<>> THEN Last(toProvider) = "subscribe"
          ELSE accepted /\ \A x \in Listening : cache[x] # None => Current(x)
      BY <2>2 DEF IInv, FieldInv
    <2> QED BY <2>1, <2>3, DispatchCurrent
  <1> QED BY <1>3, <1>4, <1>5, <1>6 DEF IInv

LEMMA NextIInv == ASSUME IInv, [Next]_vars PROVE IInv'
  <1>1. CASE UNCHANGED vars
    <2>1. Listening' = Listening /\ \A e \in EventIds : cache'[e] = cache[e]
      BY <1>1 DEF vars, provider, consumer, Listening
    <2>2. FieldInv'
      BY <1>1, <2>1, SameView
         DEF IInv, TypeInv, Listening, vars, provider, flights, consumer, dart
    <2>3. TypeInv' /\ RoutingInv' /\ CacheInv' /\ CallInv' /\ HeardWhole'
      BY <1>1 DEF IInv, TypeInv, RoutingInv, CacheInv, CallInv, HeardWhole, vars, provider,
                  flights, consumer, dart
    <2> QED BY <2>2, <2>3 DEF IInv
  <1> QED BY <1>1, ProviderIInv, ConsumerIInv, SubscribesIInv, AvailabilityIInv, DispatchIInv
          DEF Next, Vsomeip

LEMMA IInvAlways == Spec => []IInv
  <1>1. Init => IInv
    BY InitIInv
  <1>2. IInv /\ [Next]_vars => IInv'
    BY NextIInv
  <1> QED BY <1>1, <1>2, PTL DEF Spec

-----------------------------------------------------------------------------
(* What holds of the service. *)

\* When nothing is under way a subscribed client knows the value of every field it has
\* a handler for, over any number of offers, withdrawals and subscriptions.
THEOREM EventsFieldViewIsCurrent == Spec => []FieldViewIsCurrent
  <1>1. ASSUME IInv PROVE FieldViewIsCurrent
    <2>1. SUFFICES ASSUME Quiet, offered /\ requested /\ wanted, NEW e \in handlers,
                          cache[e] # None
                   PROVE  heard[e] = cache[e]
      BY DEF FieldViewIsCurrent
    <2>2. routing = <<>> /\ toProvider = <<>> /\ toConsumer = <<>> /\ pc = "idle"
      BY <2>1 DEF Quiet, flights
    <2>3. e \in Listening
      BY <1>1, <2>2 DEF IInv, CallInv, Listening
    <2>4. Current(e)
      BY <1>1, <2>1, <2>2, <2>3 DEF IInv, FieldInv
    <2>5. \A i \in 1..Len(toConsumer) : FALSE
      BY <2>2
    <2> QED BY <2>4, <2>5 DEF Current
  <1> QED BY <1>1, IInvAlways, PTL

\* What Dart was last told of the service is so, when nothing is under way.
THEOREM EventsAvailabilityIsCurrent == Spec => []AvailabilityIsCurrent
  <1>1. IInv => AvailabilityIsCurrent
    BY DEF IInv, RoutingInv, AvailabilityIsCurrent, Quiet, flights
  <1> QED BY <1>1, IInvAlways, PTL

\* Nothing heard differs from what was sent: header, availability and every field of
\* every payload of the source.
THEOREM EventsHeardWhole == Spec => []HeardWhole
  <1>1. IInv => HeardWhole
    BY DEF IInv
  <1> QED BY <1>1, IInvAlways, PTL
=============================================================================
