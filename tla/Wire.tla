-------------------------------- MODULE Wire --------------------------------
(***************************************************************************)
(* The bytes of a topic file.  create_topic() starts the file with the two  *)
(* characters "{}"; publish_event() then appends frames, a frame being the  *)
(* event's length as a uint32_t in memory order (little-endian, the layout  *)
(* of every target the README names) followed by the event's bytes.         *)
(*                                                                         *)
(* Offsets are the code's: zero-based.  Sequences are TLA+'s: one-based.    *)
(***************************************************************************)
EXTENDS Integers, Sequences

Byte == 0..255

\* sizeof(uint32_t)
HeaderSize == 4

\* initial_data of create_topic(): the characters '{' and '}'
Prologue == <<123, 125>>

\* &packet_size as memory: four bytes, least significant first.
EncodeSize(n) ==
    << n % 256, (n \div 256) % 256, (n \div 65536) % 256, (n \div 16777216) % 256 >>

\* The uint32_t that HeaderSize bytes of data at a zero-based offset stand for.
DecodeSize(data, offset) ==
    data[offset + 1] + 256 * data[offset + 2]
        + 65536 * data[offset + 3] + 16777216 * data[offset + 4]

\* What publish_event() appends for an event.
Frame(event) == EncodeSize(Len(event)) \o event

\* data holds bytes at a zero-based offset.
HoldsAt(data, offset, bytes) ==
    /\ offset >= 0
    /\ offset + Len(bytes) <= Len(data)
    /\ \A i \in 1..Len(bytes) : data[offset + i] = bytes[i]
=============================================================================
