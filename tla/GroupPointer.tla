---------------------------- MODULE GroupPointer ----------------------------
(***************************************************************************)
(* The read pointer of one Group under everything a program can do to it:   *)
(* messaging/ack_packet.c, manage_groups.c (the pointer operations) and     *)
(* consume_packet.c, called in any order and with any arguments while other *)
(* threads publish.                                                        *)
(*                                                                         *)
(* Each call loads the Chunk before it looks at it and the file only grows, *)
(* so a call acts as if it ran at its last chunk_load(): it is one step and *)
(* the Chunk's data is the file.  (TopicStore has the steps inside a call.) *)
(* Those threads publish through Topics of their own.  A publish is two     *)
(* steps, so that calls meet a frame of which only a part is in the file.   *)
(* last_read_size is written by the code and read by none of it: left out.  *)
(*                                                                         *)
(* A call's chunk_load() may find the file whole; it may fail, whereupon    *)
(* the call returns -1; or it may be blind: fopen() fails, the Chunk is     *)
(* empty and the call goes on with that.  Sums with what a program passes   *)
(* are size_t sums and wrap; those with a length that is in the file are    *)
(* sums of a uint32_t and an offset in the file, and cannot.                *)
(***************************************************************************)
EXTENDS Wire, Chunk, FiniteSets

CONSTANTS
    Events,         \* what the other threads publish: MAX_EVENT_SIZE is MAX_PACKET_SIZE
    Sizes,          \* packet sizes and byte counts the program passes
    Offsets,        \* offsets it passes
    Counts,         \* batch lengths it passes
    MaxPacketSize,  \* MAX_PACKET_SIZE
    Word,           \* SIZE_MAX + 1
    MaxHeld,        \* bound: packets the program holds at once
    MaxFileSize     \* bound: no publish that would pass it

ASSUME GroupPointerAssumption ==
    /\ MaxPacketSize \in Nat /\ MaxPacketSize < 16777216
    /\ Events \subseteq {e \in Seq(Byte) : e /= << >> /\ Len(e) <= MaxPacketSize}
    /\ MaxHeld \in Nat /\ MaxFileSize \in Nat
    /\ Word \in Nat /\ MaxFileSize + HeaderSize < Word
    /\ Sizes \subseteq 0..(Word - 1) /\ Offsets \subseteq 0..(Word - 1) /\ Counts \subseteq Nat

VARIABLES
    data,           \* the bytes of the topic's file
    unwritten,      \* what another thread still has to write of its frame
    read_pointer,   \* of the Group
    held,           \* the Packets the program has not freed
    call,           \* history: the program's last call, its arguments, its result, and
                    \* whether it has loaded the topic
    frames          \* history: the frames published (the last may not be whole), as Packets

vars == <<data, unwritten, read_pointer, held, call, frames>>

Init == /\ data = Prologue
        /\ unwritten = << >>
        /\ read_pointer = 0
        /\ held = {}
        /\ call = [op |-> "create_group", args |-> << >>, loaded |-> FALSE, ok |-> TRUE]
        /\ frames = {}

Loads == {"whole", "blind", "failed"}

\* The Chunk's data and size after chunk_load() has returned 0.
Seen(load) == IF load = "whole" THEN data ELSE << >>
Size(load) == Len(Seen(load))

\* What size_t makes of a sum.
Sum(n) == n % Word

Returns(op, args, load, ok) ==
    call' = [op |-> op, args |-> args, loaded |-> load = "whole", ok |-> ok]

\* A call that moves the pointer and returns 0, and one that returns -1.
Moves(op, args, load, to) ==
    /\ load /= "failed"
    /\ read_pointer' = to
    /\ Returns(op, args, load, TRUE)
    /\ UNCHANGED <<data, unwritten, held, frames>>
Refuses(op, args, load) ==
    /\ Returns(op, args, load, FALSE)
    /\ UNCHANGED <<data, unwritten, read_pointer, held, frames>>

-----------------------------------------------------------------------------
(* Other threads publish. *)

BeginFrame(e, n) ==
    /\ unwritten = << >>
    /\ Len(data) + Len(Frame(e)) <= MaxFileSize
    /\ data' = data \o SubSeq(Frame(e), 1, n)
    /\ unwritten' = SubSeq(Frame(e), n + 1, Len(Frame(e)))
    /\ frames' = frames \cup {[packet_size |-> Len(e), offset_in_topic |-> Len(data)]}
    /\ UNCHANGED <<read_pointer, held, call>>

EndFrame ==
    /\ unwritten /= << >>
    /\ data' = data \o unwritten
    /\ unwritten' = << >>
    /\ UNCHANGED <<read_pointer, held, call, frames>>

-----------------------------------------------------------------------------
(* Consuming *)

Fits(n) == read_pointer + n <= Len(data)

\* The packet at an offset: its four bytes of length and all that they announce.
WholeAt(offset, n) ==
    /\ offset + HeaderSize <= Len(data)
    /\ n = DecodeSize(data, offset)
    /\ offset + HeaderSize + n <= Len(data)
PacketThereUnbounded(n) ==
    /\ read_pointer + HeaderSize <= Len(data)
    /\ n = DecodeSize(data, read_pointer)
    /\ n > 0 /\ n <= MaxPacketSize
PacketThere(n) ==
    /\ WholeAt(read_pointer, n)
    /\ n > 0 /\ n <= MaxPacketSize

HeaderValue == IF Fits(HeaderSize) THEN DecodeSize(data, read_pointer) ELSE 0

HandsBehindHeader(op, args, n, total) ==
    /\ Cardinality(held) < MaxHeld
    /\ held' = held \cup {[packet_size |-> n, offset_in_topic |-> read_pointer - HeaderSize]}
    /\ read_pointer' = read_pointer + total
    /\ Returns(op, args, "whole", TRUE)
    /\ UNCHANGED <<data, unwritten, frames>>
Hands(op, args, n, total) ==
    /\ Cardinality(held) < MaxHeld
    /\ held' = held \cup {[packet_size |-> n, offset_in_topic |-> read_pointer]}
    /\ read_pointer' = read_pointer + total
    /\ Returns(op, args, "whole", TRUE)
    /\ UNCHANGED <<data, unwritten, frames>>

\* An empty Chunk holds no packet.
ConsumePacket(load) ==
    LET found == load = "whole" /\ PacketThere(HeaderValue)
    IN  \/ found /\ Hands("consume_packet", << >>, HeaderValue, HeaderSize + HeaderValue)
        \/ ~found /\ Refuses("consume_packet", << >>, load)

\* n bytes from the pointer, with no regard to frames.
ConsumePacketWithSize(n, load) ==
    LET accepted == load = "whole" /\ n > 0 /\ n <= MaxPacketSize /\ Fits(n)
    IN  \/ accepted /\ Hands("consume_packet_with_size", <<n>>, n, n)
        \/ ~accepted /\ Refuses("consume_packet_with_size", <<n>>, load)

\* read_from_group(): as many of n bytes as there are.
BytesToRead(n, load) == Len(ChunkRead(ChunkLoad(Seen(load)), n, read_pointer))
ReadFromGroup(n, load) ==
    \/ Moves("read_from_group", <<n>>, load, read_pointer + BytesToRead(n, load))
    \/ load = "failed" /\ Refuses("read_from_group", <<n>>, load)

PacketFree(packet) ==
    /\ held' = held \ {packet}
    /\ Returns("packet_free", <<packet>>, "none", TRUE)
    /\ UNCHANGED <<data, unwritten, read_pointer, frames>>

-----------------------------------------------------------------------------
(* Acknowledging *)

\* ack_packet() and ack_packet_by_offset(): up to the end of one packet, never back.
AckUpToMovingBack(op, args, load, offset, n) ==
    LET end == Sum(offset + HeaderSize + n)
    IN  \/ end <= Size(load) /\ Moves(op, args, load, end)
        \/ (load = "failed" \/ end > Size(load)) /\ Refuses(op, args, load)
AckUpToFromPointer(op, args, load, offset, n) ==
    LET end == Sum(read_pointer + HeaderSize + n)
    IN  \/ end <= Size(load) /\ Moves(op, args, load, end)
        \/ (load = "failed" \/ end > Size(load)) /\ Refuses(op, args, load)
AckUpTo(op, args, load, offset, n) ==
    LET end == Sum(offset + HeaderSize + n)
    IN  \/ /\ end <= Size(load)
           /\ Moves(op, args, load, IF read_pointer < end THEN end ELSE read_pointer)
        \/ (load = "failed" \/ end > Size(load)) /\ Refuses(op, args, load)

AckPacket(packet, load) ==
    AckUpTo("ack_packet", <<packet>>, load, packet.offset_in_topic, packet.packet_size)

AckPacketByOffset(offset, n, load) ==
    \/ n > 0 /\ AckUpTo("ack_packet_by_offset", <<offset, n>>, load, offset, n)
    \/ n = 0 /\ Refuses("ack_packet_by_offset", <<offset, n>>, load)

\* ack_packet_batch_by_size() of count sizes of which total is the sum; an empty list is
\* refused and so is a size of zero.  Of one size it is ack_packet_by_size().
AckPacketBatchBySize(count, total, load) ==
    LET end == Sum(read_pointer + count * HeaderSize + total)
    IN  \/ /\ count > 0 /\ (count = 1 => total > 0) /\ end <= Size(load)
           /\ Moves("ack_packet_batch_by_size", <<count, total>>, load, end)
        \/ /\ load = "failed" \/ count /= 1 \/ total = 0 \/ end > Size(load)
           /\ Refuses("ack_packet_batch_by_size", <<count, total>>, load)

\* ack_packet_batch() goes packet by packet (a length may be any, zero too) until it has
\* passed count of them or the next is not whole, and keeps what it has passed either way.
PassesPayload(from, to) == WholeAt(from, to - from)
Passes(from, to) == WholeAt(from, to - from - HeaderSize)

GoesAnywhere(walk, count) ==
    /\ walk[1] = read_pointer
    /\ \A i \in 1..(Len(walk) - 1) : Passes(walk[i], walk[i + 1])
Goes(walk, count) ==
    LET last == Len(walk) - 1
    IN  /\ walk[1] = read_pointer
        /\ \A i \in 1..last : Passes(walk[i], walk[i + 1])
        /\ last < count => \A to \in 0..Len(data) : ~Passes(walk[last + 1], to)

\* From an empty Chunk it passes none.
AckPacketBatch(count, load) ==
    \/ /\ load = "whole" /\ count > 0
       /\ \E n \in 1..(count + 1) : \E walk \in [1..n -> read_pointer..Len(data)] :
             /\ Goes(walk, count)
             /\ read_pointer' = walk[n]
             /\ Returns("ack_packet_batch", <<count>>, load, n = count + 1)
       /\ UNCHANGED <<data, unwritten, held, frames>>
    \/ (load /= "whole" \/ count = 0) /\ Refuses("ack_packet_batch", <<count>>, load)

-----------------------------------------------------------------------------
(* Positioning *)

Clamped(offset, load) == IF offset > Size(load) THEN Size(load) ELSE offset

\* reset_group_pointer() is the offset 0.
SetGroupPointer(offset, load) ==
    \/ Moves("set_group_pointer", <<offset>>, load, Clamped(offset, load))
    \/ load = "failed" /\ Refuses("set_group_pointer", <<offset>>, load)
AdvanceGroupPointer(n, load) ==
    \/ Moves("advance_group_pointer", <<n>>, load, Clamped(Sum(read_pointer + n), load))
    \/ load = "failed" /\ Refuses("advance_group_pointer", <<n>>, load)

-----------------------------------------------------------------------------
Publishing == \/ \E e \in Events : \E n \in 1..Len(Frame(e)) : BeginFrame(e, n)
              \/ EndFrame

Loading(load) ==
    \/ ConsumePacket(load)
    \/ \E n \in Sizes : \/ ConsumePacketWithSize(n, load)
                        \/ ReadFromGroup(n, load)
                        \/ AdvanceGroupPointer(n, load)
    \/ \E packet \in held : AckPacket(packet, load)
    \/ \E offset \in Offsets : \/ SetGroupPointer(offset, load)
                               \/ \E n \in Sizes : AckPacketByOffset(offset, n, load)
    \/ \E count \in Counts : \/ AckPacketBatch(count, load)
                             \/ \E n \in Sizes : AckPacketBatchBySize(count, n, load)
Calling == \/ \E load \in Loads : Loading(load)
           \/ \E packet \in held : PacketFree(packet)

Next == Publishing \/ Calling

Spec == Init /\ [][Next]_vars

-----------------------------------------------------------------------------
(* Properties *)

Ops == {"create_group", "consume_packet", "consume_packet_with_size", "read_from_group",
        "packet_free", "ack_packet", "ack_packet_by_offset", "ack_packet_batch",
        "ack_packet_batch_by_size", "set_group_pointer", "advance_group_pointer"}
Acks == {"ack_packet", "ack_packet_by_offset", "ack_packet_batch", "ack_packet_batch_by_size"}
PacketType == [packet_size : Nat, offset_in_topic : Nat]

\* Types: what each variable may hold.
TypeOK ==
    /\ data \in Seq(Byte)
    /\ unwritten \in Seq(Byte)
    /\ read_pointer \in Nat
    /\ held \subseteq PacketType
    /\ call.op \in Ops /\ call.loaded \in BOOLEAN /\ call.ok \in BOOLEAN
    /\ frames \subseteq PacketType

\* Whatever is called, with whatever arguments and however little of the last frame is in
\* the file, the pointer stays within the topic, and so does every packet handed out.
PointerWithinTopic ==
    /\ read_pointer <= Len(data)
    /\ \A packet \in held : packet.offset_in_topic + packet.packet_size <= Len(data)

\* The sum of the sizes that ack_packet_batch_by_size() is given, from the pointer, wraps.
SizesWrap(count, total) == read_pointer + count * HeaderSize + total >= Word

\* No acknowledgement takes the pointer back: not one that comes late, after the pointer was
\* moved on, nor one that comes twice, nor one of packets in another order, nor one whose load
\* fails or is blind.  The sizes ack_packet_batch_by_size() is given are the exception: so large
\* that their sum wraps, they may.
AcksGoBackOnlyByWrapping ==
    [][call' /= call /\ call'.op \in Acks /\ read_pointer' < read_pointer
       => /\ call'.op = "ack_packet_batch_by_size"
          /\ SizesWrap(call'.args[1], call'.args[2])]_vars

\* Repeating ack_packet() or ack_packet_by_offset() after it returned 0 is harmless: it
\* changes nothing, though others have published in the meantime, and returns 0 again unless
\* it cannot load the topic this time.
AckRetryIsHarmless ==
    [][/\ call.op \in {"ack_packet", "ack_packet_by_offset"} /\ call.ok
       /\ call'.op = call.op /\ call'.args = call.args
       => /\ read_pointer' = read_pointer
          /\ call'.loaded => call'.ok]_vars

\* Where a frame begins: the first one, one that is in the file, one that is to come.
Boundary(offset) ==
    \/ offset = Len(Prologue)
    \/ \E f \in frames : offset = f.offset_in_topic + HeaderSize + f.packet_size

\* A program that stands at a frame's beginning and calls only what goes by frames stays at
\* one, also when a frame is half in the file, and is handed nothing but frames.
WholeFramesStayAligned ==
    [][/\ Boundary(read_pointer)
       /\ \/ call'.op \in {"consume_packet", "ack_packet_batch"}
          \/ call'.op = "ack_packet" /\ call'.args[1] \in frames
       => Boundary(read_pointer') /\ held' \subseteq held \cup frames]_vars

\* ack_packet_batch() that returns -1 has moved the pointer all the same.  From a frame's
\* beginning it has then passed everything published, and there is nothing to try again; or it
\* could not load the topic, and has passed nothing at all.
FailedBatchIsAllOrNothing ==
    [][/\ call' /= call /\ call'.op = "ack_packet_batch" /\ ~call'.ok /\ call'.args[1] > 0
       /\ Boundary(read_pointer)
       => IF call'.loaded
          THEN \A f \in frames :
                  LET end == f.offset_in_topic + HeaderSize + f.packet_size
                  IN  end <= Len(data) => end <= read_pointer'
          ELSE read_pointer' = read_pointer]_vars
=============================================================================
