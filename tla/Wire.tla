-------------------------------- MODULE Wire --------------------------------
(***************************************************************************)
(* The bytes that cross from C++ to Dart (src/vsomeip_types.h,             *)
(* src/vsomeip_subscriber.cpp, src/vsomeip_app.cpp; lib/src/ffi/codec.dart *)
(* on the other side).  A buffer is the sequence of its bytes; the byte at *)
(* offset o of the code is element o + 1.  Everything is little endian.    *)
(***************************************************************************)
EXTENDS Integers, Sequences

\* namespace vsomeip_disc, the ones the bridge posts.
kMessage == 1
kAvailability == 2

Byte == {v \in Nat : v < 256}
U16 == {v \in Nat : v < 65536}
U32 == {v \in Nat : v \div 65536 \in U16}

\* The bytes of an unsigned integer, the lowest first.
Byte0(v) == v % 256
Byte1(v) == (v \div 256) % 256
Byte2(v) == (v \div 65536) % 256
Byte3(v) == (v \div 16777216) % 256

\* getUint8, getUint16, getUint32 and getUint64 at an offset, Endian.little.
GetU8(bytes, o) == bytes[o + 1]
GetU16(bytes, o) == bytes[o + 1] + 256 * bytes[o + 2]
GetU32(bytes, o) == GetU16(bytes, o) + 65536 * GetU16(bytes, o + 2)
GetU64(bytes, o) == GetU32(bytes, o) + 65536 * (65536 * GetU32(bytes, o + 4))

\* VsomeipMessageHeader.  Its request id is u64; vsomeip's ids fill the lower half.
MessageHeader == [service_id : U16, instance_id : U16, method_id : U16,
                  message_type : Byte, return_code : Byte,
                  request_id : U32, payload_len : U32]

\* (static_cast<uint64_t>(client_id) << 16) | session_id
RequestId(client, session) == client * 65536 + session

\* on_message packs the header from what vsomeip's message says.
PackHeader(service, instance, method, type, code, client, session, len) ==
    [service_id |-> service, instance_id |-> instance, method_id |-> method,
     message_type |-> type, return_code |-> code,
     request_id |-> RequestId(client, session), payload_len |-> len]

\* Mutant: push_u16 of the method id writes its high byte first.
encode_header_swapped(hdr) ==
    << kMessage,
       Byte0(hdr.service_id), Byte1(hdr.service_id),
       Byte0(hdr.instance_id), Byte1(hdr.instance_id),
       Byte1(hdr.method_id), Byte0(hdr.method_id),
       hdr.message_type, hdr.return_code,
       Byte0(hdr.request_id), Byte1(hdr.request_id), Byte2(hdr.request_id),
       Byte3(hdr.request_id), 0, 0, 0, 0,
       Byte0(hdr.payload_len), Byte1(hdr.payload_len), Byte2(hdr.payload_len),
       Byte3(hdr.payload_len) >>

\* encode_header: the discriminator and 20 bytes.
encode_header(hdr) ==
    << kMessage,
       Byte0(hdr.service_id), Byte1(hdr.service_id),
       Byte0(hdr.instance_id), Byte1(hdr.instance_id),
       Byte0(hdr.method_id), Byte1(hdr.method_id),
       hdr.message_type, hdr.return_code,
       Byte0(hdr.request_id), Byte1(hdr.request_id), Byte2(hdr.request_id),
       Byte3(hdr.request_id), 0, 0, 0, 0,
       Byte0(hdr.payload_len), Byte1(hdr.payload_len), Byte2(hdr.payload_len),
       Byte3(hdr.payload_len) >>

\* encode_capnp_header: the same, then the schema id.
encode_capnp_header(hdr, schema_id) ==
    encode_header(hdr) \o
        << Byte0(schema_id), Byte1(schema_id), Byte2(schema_id), Byte3(schema_id) >>

\* decodeHeader skips the discriminator.
decodeHeader(data) ==
    [service_id |-> GetU16(data, 1), instance_id |-> GetU16(data, 3),
     method_id |-> GetU16(data, 5), message_type |-> GetU8(data, 7),
     return_code |-> GetU8(data, 8), request_id |-> GetU64(data, 9),
     payload_len |-> GetU32(data, 17)]

\* SomeIpMessageType.fromByte: a byte the enum does not list becomes unknown.
MessageTypes == {0, 1, 2, 64, 65, 66, 128, 129}
fromByte(b) == IF b \in MessageTypes THEN b ELSE 255

\* VsomeipAvailability is posted as the six bytes of the struct, the last of
\* which is padding that nothing has written.
Availability == [service_id : U16, instance_id : U16, available : BOOLEAN]

on_availability(a, padding) ==
    << kAvailability, Byte0(a.service_id), Byte1(a.service_id),
       Byte0(a.instance_id), Byte1(a.instance_id),
       IF a.available THEN 1 ELSE 0, padding >>

\* Mutant: the flag is read one byte too far.
decodeAvailabilityPadding(data) ==
    [service_id |-> GetU16(data, 1), instance_id |-> GetU16(data, 3),
     available |-> GetU8(data, 6) # 0]

decodeAvailability(data) ==
    [service_id |-> GetU16(data, 1), instance_id |-> GetU16(data, 3),
     available |-> GetU8(data, 5) # 0]
=============================================================================
