------------------------ MODULE GroupPointer_proofs ------------------------
(***************************************************************************)
(* Theorems about GroupPointer, for every value of its constants: any       *)
(* events, sizes, offsets and batch lengths, in size_t of any width, and    *)
(* any outcome of any load.                                                 *)
(***************************************************************************)
EXTENDS GroupPointer, Wire_proofs

Inv == TypeOK /\ PointerWithinTopic

\* The sizes, offsets and counts a program passes are numbers.
LEMMA Arguments ==
    /\ Offsets \subseteq Nat /\ Sizes \subseteq Nat /\ Counts \subseteq Nat
    /\ Word \in Nat /\ Word > HeaderSize /\ MaxFileSize + HeaderSize < Word /\ MaxFileSize \in Nat
BY GroupPointerAssumption DEF GroupPointerAssumption, HeaderSize

\* A size_t sum is a number, and what it should be as long as it does not wrap.
LEMMA SumType ==
    ASSUME NEW n \in Nat
    PROVE  Sum(n) \in Nat /\ (n < Word => Sum(n) = n)
BY Arguments DEF Sum, HeaderSize

\* What a Chunk holds after a load is no more than the file does.
LEMMA SizeType ==
    ASSUME data \in Seq(Byte), NEW load
    PROVE  /\ Seen(load) \in Seq(Byte) /\ Size(load) \in Nat /\ Size(load) <= Len(data)
           /\ load = "whole" => Size(load) = Len(data)
BY DEF Seen, Size

\* A call that only moves the pointer keeps the invariant if it stays within the topic.
LEMMA MovesWithin ==
    ASSUME Inv, NEW op \in Ops, NEW args, NEW load, NEW to \in Nat, to <= Len(data),
           Moves(op, args, load, to)
    PROVE  Inv'
BY DEF Inv, TypeOK, PointerWithinTopic, Moves, Returns

\* So does one that returns -1, which changes nothing.
LEMMA RefusesWithin ==
    ASSUME Inv, NEW op \in Ops, NEW args, NEW load, Refuses(op, args, load)
    PROVE  Inv'
BY DEF Inv, TypeOK, PointerWithinTopic, Refuses, Returns

\* So does one that hands out n bytes of the topic and moves on within it.
LEMMA HandsWithin ==
    ASSUME Inv, NEW op \in Ops, NEW args, NEW n \in Nat, NEW total \in Nat,
           n <= total, read_pointer + total <= Len(data), Hands(op, args, n, total)
    PROVE  Inv'
<1> DEFINE new == [packet_size |-> n, offset_in_topic |-> read_pointer]
<1>1. read_pointer \in Nat /\ Len(data) \in Nat
  BY DEF Inv, TypeOK
<1>2. new \in PacketType /\ new.offset_in_topic + new.packet_size <= Len(data)
  BY <1>1 DEF PacketType
<1>3. held' = held \cup {new} /\ data' = data /\ read_pointer' = read_pointer + total
  BY DEF Hands
<1>4. PointerWithinTopic'
  BY <1>1, <1>2, <1>3 DEF Inv, PointerWithinTopic
<1>5. TypeOK'
  BY <1>1, <1>2, <1>3 DEF Inv, TypeOK, Hands, Returns
<1> QED
  BY <1>4, <1>5 DEF Inv

\* So does a longer file.
LEMMA GrowsWithin ==
    ASSUME Inv, NEW t \in Seq(Byte), data' = data \o t, unwritten' \in Seq(Byte),
           frames' \subseteq PacketType, UNCHANGED <<read_pointer, held, call>>
    PROVE  Inv'
<1>1. data' \in Seq(Byte) /\ Len(data') = Len(data) + Len(t) /\ Len(t) \in Nat /\ Len(data) \in Nat
  BY ConcatProperties DEF Inv, TypeOK
<1>2. \A packet \in held : packet.packet_size \in Nat /\ packet.offset_in_topic \in Nat
  BY DEF Inv, TypeOK, PacketType
<1> QED
  BY <1>1, <1>2 DEF Inv, TypeOK, PointerWithinTopic

\* The invariant holds at the start.
LEMMA InitWithin == Init => Inv
<1> SUFFICES ASSUME Init PROVE Inv
  OBVIOUS
<1>1. Prologue \in Seq(Byte) /\ Len(Prologue) = 2 /\ << >> \in Seq(Byte)
  BY DEF Prologue, Byte
<1> QED
  BY <1>1 DEF Init, Inv, TypeOK, PointerWithinTopic, Ops

\* Publishing keeps it.
LEMMA PublishingWithin == Inv /\ Publishing => Inv'
<1> SUFFICES ASSUME Inv, Publishing PROVE Inv'
  OBVIOUS
<1>1. ASSUME NEW e \in Events, NEW n \in 1..Len(Frame(e)), BeginFrame(e, n) PROVE Inv'
  <2>1. e \in Seq(Byte) /\ Len(e) \in Nat
    BY GroupPointerAssumption
  <2>2. Frame(e) \in Seq(Byte) /\ n \in Nat /\ n <= Len(Frame(e))
    BY <2>1, FrameType
  <2>3. SubSeq(Frame(e), 1, n) \in Seq(Byte)
    BY <2>2, SubSeqType
  <2>4. SubSeq(Frame(e), n + 1, Len(Frame(e))) \in Seq(Byte)
    BY <2>2, TailType
  <2>5. frames' \subseteq PacketType
    BY <1>1, <2>1 DEF BeginFrame, Inv, TypeOK, PacketType
  <2> QED
    BY <1>1, <2>3, <2>4, <2>5, GrowsWithin DEF BeginFrame
<1>2. CASE EndFrame
  <2>1. unwritten \in Seq(Byte) /\ << >> \in Seq(Byte) /\ frames \subseteq PacketType
    BY DEF Inv, TypeOK
  <2> QED
    BY <1>2, <2>1, GrowsWithin DEF EndFrame
<1> QED
  BY <1>1, <1>2 DEF Publishing

\* Acknowledging up to the end of a packet goes there, stays, or is refused.
LEMMA AckUpToWithin ==
    ASSUME Inv, NEW op \in Ops, NEW args, NEW load, NEW offset \in Nat, NEW n \in Nat,
           AckUpTo(op, args, load, offset, n)
    PROVE  Inv' /\ read_pointer' >= read_pointer
<1> PICK end \in Nat : end = Sum(offset + HeaderSize + n)
  BY SumType DEF HeaderSize
<1> PICK to \in Nat : to = IF read_pointer < end THEN end ELSE read_pointer
  BY DEF Inv, TypeOK
<1>1. /\ read_pointer \in Nat /\ read_pointer <= Len(data) /\ Len(data) \in Nat
      /\ Size(load) \in Nat /\ Size(load) <= Len(data)
  BY SizeType DEF Inv, TypeOK, PointerWithinTopic
<1>2. Refuses(op, args, load) \/ (end <= Size(load) /\ Moves(op, args, load, to))
  BY DEF AckUpTo
<1>3. ASSUME Refuses(op, args, load) PROVE Inv' /\ read_pointer' >= read_pointer
  <2>1. read_pointer' = read_pointer
    BY <1>3 DEF Refuses
  <2> QED
    BY <1>1, <1>3, <2>1, RefusesWithin
<1>4. ASSUME end <= Size(load), Moves(op, args, load, to)
      PROVE  Inv' /\ read_pointer' >= read_pointer
  <2>1. to <= Len(data) /\ to >= read_pointer
    BY <1>1, <1>4
  <2> QED
    BY <1>4, <2>1, MovesWithin DEF Moves
<1> QED
  BY <1>2, <1>3, <1>4

\* A batch of sizes goes forward or is refused, unless their sum wraps.
LEMMA AckBatchBySizeWithin ==
    ASSUME Inv, NEW count \in Nat, NEW total \in Nat, NEW load,
           AckPacketBatchBySize(count, total, load)
    PROVE  /\ Inv' /\ (read_pointer' >= read_pointer \/ SizesWrap(count, total))
           /\ call'.op = "ack_packet_batch_by_size" /\ call'.args = <<count, total>>
<1> DEFINE op == "ack_packet_batch_by_size"
           args == <<count, total>>
<1>1. /\ read_pointer \in Nat /\ Len(data) \in Nat /\ op \in Ops
      /\ Size(load) \in Nat /\ Size(load) <= Len(data)
  BY SizeType DEF Inv, TypeOK, Ops
<1>s. PICK sum \in Nat : sum = read_pointer + count * HeaderSize + total
  BY <1>1 DEF HeaderSize
<1>e. PICK end \in Nat : end = Sum(sum) /\ (sum < Word => end = sum)
  BY SumType
<1>2. Refuses(op, args, load) \/ (end <= Size(load) /\ Moves(op, args, load, end))
  BY <1>s, <1>e DEF AckPacketBatchBySize
<1>op. call'.op = "ack_packet_batch_by_size" /\ call'.args = <<count, total>>
  BY <1>2 DEF Refuses, Moves, Returns
<1> HIDE DEF op, args
<1>3. ASSUME Refuses(op, args, load) PROVE Inv' /\ read_pointer' >= read_pointer
  <2>1. read_pointer' = read_pointer
    BY <1>3 DEF Refuses
  <2> QED
    BY <1>1, <1>3, <2>1, RefusesWithin
<1>4. ASSUME end <= Size(load), Moves(op, args, load, end)
      PROVE  Inv' /\ (read_pointer' >= read_pointer \/ SizesWrap(count, total))
  <2>1. end <= Len(data) /\ read_pointer' = end
    BY <1>1, <1>4 DEF Moves
  <2>2. Inv'
    BY <1>1, <1>4, <2>1, MovesWithin
  <2>3. sum >= read_pointer
    BY <1>1, <1>s DEF HeaderSize
  <2>4. CASE sum < Word
    BY <1>e, <2>1, <2>2, <2>3, <2>4
  <2>5. CASE ~(sum < Word)
    <3>1. sum >= Word
      BY <2>5, Arguments
    <3> QED  BY <1>s, <2>2, <3>1 DEF SizesWrap
  <2> QED  BY <2>4, <2>5
<1> QED
  BY <1>op, <1>2, <1>3, <1>4

\* A batch of frames goes forward, over whole packets, or is refused.
LEMMA AckBatchWithin ==
    ASSUME Inv, NEW count \in Nat, NEW load, AckPacketBatch(count, load)
    PROVE  Inv' /\ read_pointer' >= read_pointer
<1>1. read_pointer \in Nat /\ Len(data) \in Nat /\ "ack_packet_batch" \in Ops
  BY DEF Inv, TypeOK, Ops
<1>2. ASSUME Refuses("ack_packet_batch", <<count>>, load) PROVE Inv' /\ read_pointer' >= read_pointer
  <2>1. read_pointer' = read_pointer
    BY <1>2 DEF Refuses
  <2> QED
    BY <1>1, <1>2, <2>1, RefusesWithin
<1>3. ASSUME NEW n \in 1..(count + 1), NEW walk \in [1..n -> read_pointer..Len(data)],
             Goes(walk, count), read_pointer' = walk[n],
             Returns("ack_packet_batch", <<count>>, load, n = count + 1),
             UNCHANGED <<data, unwritten, held, frames>>
      PROVE  Inv' /\ read_pointer' >= read_pointer
  <2>1. walk[n] \in read_pointer..Len(data)
    OBVIOUS
  <2>2. walk[n] \in Nat /\ walk[n] <= Len(data) /\ walk[n] >= read_pointer
    BY <1>1, <2>1
  <2> QED
    BY <1>1, <1>3, <2>2 DEF Inv, TypeOK, PointerWithinTopic, Returns
<1> QED
  BY <1>2, <1>3 DEF AckPacketBatch

\* A call that acknowledges: one packet, some frames, or some sizes.
SinglePacketStep ==
    \E load \in Loads : \/ \E packet \in held : AckPacket(packet, load)
                        \/ \E offset \in Offsets, n \in Sizes : AckPacketByOffset(offset, n, load)
BatchStep == \E load \in Loads, count \in Counts : AckPacketBatch(count, load)
BySizeStep ==
    \E load \in Loads, count \in Counts, n \in Sizes : AckPacketBatchBySize(count, n, load)
AckStep == SinglePacketStep \/ BatchStep \/ BySizeStep

\* The first two do not move back.
LEMMA ForwardStepWithin ==
    ASSUME Inv, SinglePacketStep \/ BatchStep
    PROVE  Inv' /\ read_pointer' >= read_pointer
<1>0. "ack_packet" \in Ops /\ "ack_packet_by_offset" \in Ops
  BY DEF Ops
<1>1. ASSUME NEW load \in Loads, NEW packet \in held, AckPacket(packet, load)
      PROVE  Inv' /\ read_pointer' >= read_pointer
  <2>1. packet.packet_size \in Nat /\ packet.offset_in_topic \in Nat
    BY DEF Inv, TypeOK, PacketType
  <2> QED
    BY <1>0, <1>1, <2>1, AckUpToWithin DEF AckPacket
<1>2. ASSUME NEW load \in Loads, NEW offset \in Offsets, NEW n \in Sizes,
             AckPacketByOffset(offset, n, load)
      PROVE  Inv' /\ read_pointer' >= read_pointer
  <2>1. ASSUME AckUpTo("ack_packet_by_offset", <<offset, n>>, load, offset, n)
        PROVE  Inv' /\ read_pointer' >= read_pointer
    BY <1>0, <2>1, Arguments, AckUpToWithin
  <2>2. ASSUME Refuses("ack_packet_by_offset", <<offset, n>>, load)
        PROVE  Inv' /\ read_pointer' >= read_pointer
    <3>1. read_pointer' = read_pointer /\ read_pointer \in Nat
      BY <2>2 DEF Refuses, Inv, TypeOK
    <3> QED
      BY <1>0, <2>2, <3>1, RefusesWithin
  <2> QED
    BY <1>2, <2>1, <2>2 DEF AckPacketByOffset
<1>3. ASSUME NEW load \in Loads, NEW count \in Counts, AckPacketBatch(count, load)
      PROVE  Inv' /\ read_pointer' >= read_pointer
  BY <1>3, Arguments, AckBatchWithin
<1> QED
  BY <1>1, <1>2, <1>3 DEF SinglePacketStep, BatchStep

\* The third does only if a sum wraps.
LEMMA BySizeStepWithin ==
    ASSUME Inv, BySizeStep
    PROVE  /\ Inv' /\ call'.op = "ack_packet_batch_by_size"
           /\ read_pointer' >= read_pointer \/ SizesWrap(call'.args[1], call'.args[2])
<1>1. PICK load \in Loads, count \in Counts, n \in Sizes : AckPacketBatchBySize(count, n, load)
  BY DEF BySizeStep
<1>2. /\ Inv' /\ (read_pointer' >= read_pointer \/ SizesWrap(count, n))
      /\ call'.op = "ack_packet_batch_by_size" /\ call'.args = <<count, n>>
  BY <1>1, Arguments, AckBatchBySizeWithin
<1>3. call'.args[1] = count /\ call'.args[2] = n
  BY <1>2
<1> QED  BY <1>2, <1>3

\* read_from_group() reads within the topic.
LEMMA BytesToReadType ==
    ASSUME NEW n \in Nat, NEW load, data \in Seq(Byte), read_pointer \in Nat,
           read_pointer <= Len(data)
    PROVE  BytesToRead(n, load) \in Nat /\ read_pointer + BytesToRead(n, load) <= Len(data)
<1> PICK d \in Seq(Byte) : d = Seen(load) /\ Len(d) <= Len(data)
  BY SizeType DEF Size
<1> DEFINE k == ChunkLoad(d)
<1>1. k.data = d /\ Len(d) \in Nat /\ Len(data) \in Nat
  BY DEF ChunkLoad
<1>2. CASE read_pointer >= Len(d)
  BY <1>1, <1>2 DEF BytesToRead, ChunkRead
<1>3. CASE read_pointer < Len(d)
  <2> PICK last \in Nat : last = IF read_pointer + n <= Len(d) THEN read_pointer + n ELSE Len(d)
    BY <1>1
  <2> PICK first \in Nat : first = read_pointer + 1
    OBVIOUS
  <2>1. ChunkRead(k, n, read_pointer) = SubSeq(d, first, last)
    BY <1>1, <1>3 DEF ChunkRead
  <2>2. Len(SubSeq(d, first, last)) = IF first <= last THEN last - first + 1 ELSE 0
    BY <1>1, SubSeqType
  <2> QED
    BY <1>1, <1>3, <2>1, <2>2 DEF BytesToRead
<1> QED
  BY <1>1, <1>2, <1>3

\* Consuming, reading and positioning: the calls that are no acknowledgement.
ConsumeStep == \E load \in Loads : ConsumePacket(load)
OtherStep ==
    \/ ConsumeStep
    \/ \E load \in Loads, n \in Sizes :
          ConsumePacketWithSize(n, load) \/ ReadFromGroup(n, load) \/ AdvanceGroupPointer(n, load)
    \/ \E packet \in held : PacketFree(packet)
    \/ \E load \in Loads, offset \in Offsets : SetGroupPointer(offset, load)

\* They keep the invariant too, and are told apart from acknowledgements.
LEMMA OtherStepWithin == Inv /\ OtherStep => Inv' /\ call'.op \notin Acks
<1> SUFFICES ASSUME Inv, OtherStep PROVE Inv' /\ call'.op \notin Acks
  OBVIOUS
<1>0. /\ data \in Seq(Byte) /\ Len(data) \in Nat
      /\ read_pointer \in Nat /\ read_pointer <= Len(data)
      /\ Offsets \subseteq Nat /\ Sizes \subseteq Nat /\ HeaderSize \in Nat
  BY Arguments DEF Inv, TypeOK, PointerWithinTopic, HeaderSize
<1>op. \A op \in {"consume_packet", "consume_packet_with_size", "read_from_group",
                   "packet_free", "set_group_pointer", "advance_group_pointer"} :
          op \in Ops /\ op \notin Acks
  BY DEF Ops, Acks
<1>to. ASSUME NEW op \in Ops \ Acks, NEW args, NEW load, NEW to \in Nat, to <= Len(data),
              Moves(op, args, load, to)
       PROVE  Inv' /\ call'.op \notin Acks
  <2>1. call'.op = op
    BY <1>to DEF Moves, Returns
  <2> QED
    BY <1>to, <2>1, MovesWithin
<1>no. ASSUME NEW op \in Ops \ Acks, NEW args, NEW load, Refuses(op, args, load)
       PROVE  Inv' /\ call'.op \notin Acks
  <2>1. call'.op = op
    BY <1>no DEF Refuses, Returns
  <2> QED
    BY <1>no, <2>1, RefusesWithin
<1>hands. ASSUME NEW op \in Ops \ Acks, NEW args, NEW n \in Nat, NEW total \in Nat,
                 n <= total, read_pointer + total <= Len(data), Hands(op, args, n, total)
          PROVE  Inv' /\ call'.op \notin Acks
  <2>1. call'.op = op
    BY <1>hands DEF Hands, Returns
  <2> QED
    BY <1>hands, <2>1, HandsWithin
<1>clamp. ASSUME NEW to \in Nat, NEW load
          PROVE  Clamped(to, load) \in Nat /\ Clamped(to, load) <= Len(data)
  BY <1>0, SizeType DEF Clamped
<1>1. ASSUME NEW load, ConsumePacket(load) PROVE Inv' /\ call'.op \notin Acks
  <2> PICK n : n = HeaderValue
    OBVIOUS
  <2>1. ASSUME PacketThere(n), Hands("consume_packet", << >>, n, HeaderSize + n)
        PROVE  Inv' /\ call'.op \notin Acks
    <3>1. n \in Nat /\ read_pointer + HeaderSize + n <= Len(data)
      BY <1>0, <2>1, DecodeSizeType DEF PacketThere, WholeAt
    <3>2. /\ HeaderSize + n \in Nat /\ n <= HeaderSize + n
          /\ read_pointer + (HeaderSize + n) <= Len(data)
      BY <1>0, <3>1
    <3> QED
      BY <1>op, <1>hands, <2>1, <3>1, <3>2
  <2>2. ASSUME Refuses("consume_packet", << >>, load) PROVE Inv' /\ call'.op \notin Acks
    BY <1>op, <1>no, <2>2
  <2> QED
    BY <1>1, <2>1, <2>2 DEF ConsumePacket
<1>2. ASSUME NEW load, NEW n \in Sizes, ConsumePacketWithSize(n, load)
      PROVE  Inv' /\ call'.op \notin Acks
  <2>1. ASSUME Fits(n), Hands("consume_packet_with_size", <<n>>, n, n)
        PROVE  Inv' /\ call'.op \notin Acks
    <3>1. n \in Nat /\ n <= n /\ read_pointer + n <= Len(data)
      BY <1>0, <2>1 DEF Fits
    <3> QED
      BY <1>op, <1>hands, <2>1, <3>1
  <2>2. ASSUME Refuses("consume_packet_with_size", <<n>>, load) PROVE Inv' /\ call'.op \notin Acks
    BY <1>op, <1>no, <2>2
  <2> QED
    BY <1>2, <2>1, <2>2 DEF ConsumePacketWithSize
<1>3. ASSUME NEW load, NEW n \in Sizes, ReadFromGroup(n, load) PROVE Inv' /\ call'.op \notin Acks
  <2>1. BytesToRead(n, load) \in Nat /\ read_pointer + BytesToRead(n, load) <= Len(data)
    BY <1>0, <1>3, BytesToReadType
  <2>2. read_pointer + BytesToRead(n, load) \in Nat
    BY <1>0, <2>1
  <2> QED
    BY <1>op, <1>to, <1>no, <1>3, <2>1, <2>2 DEF ReadFromGroup
<1>4. ASSUME NEW load, NEW n \in Sizes, AdvanceGroupPointer(n, load)
      PROVE  Inv' /\ call'.op \notin Acks
  <2>1. Sum(read_pointer + n) \in Nat
    <3> PICK sum \in Nat : sum = read_pointer + n
      BY <1>0
    <3> QED  BY SumType
  <2> QED
    BY <1>op, <1>to, <1>no, <1>clamp, <1>4, <2>1 DEF AdvanceGroupPointer
<1>5. ASSUME NEW packet \in held, PacketFree(packet) PROVE Inv' /\ call'.op \notin Acks
  <2>1. /\ held' = held \ {packet} /\ UNCHANGED <<data, unwritten, read_pointer, frames>>
        /\ call'.op = "packet_free" /\ call'.ok = TRUE /\ call'.loaded \in BOOLEAN
    BY <1>5 DEF PacketFree, Returns
  <2> QED
    BY <1>op, <2>1 DEF Inv, TypeOK, PointerWithinTopic
<1>6. ASSUME NEW load, NEW offset \in Offsets, SetGroupPointer(offset, load)
      PROVE  Inv' /\ call'.op \notin Acks
  BY <1>0, <1>op, <1>to, <1>no, <1>clamp, <1>6 DEF SetGroupPointer
<1> QED
  BY <1>1, <1>2, <1>3, <1>4, <1>5, <1>6 DEF OtherStep, ConsumeStep

\* Next has no other steps.
LEMMA StepsOfNext == Next => Publishing \/ AckStep \/ OtherStep
BY DEF Next, Calling, Loading, AckStep, SinglePacketStep, BatchStep, BySizeStep, OtherStep,
   ConsumeStep

\* Every step keeps the invariant.
LEMMA NextWithin == Inv /\ [Next]_vars => Inv'
<1>1. Inv /\ UNCHANGED vars => Inv'
  BY DEF Inv, TypeOK, PointerWithinTopic, vars
<1> QED
  BY <1>1, StepsOfNext, PublishingWithin, ForwardStepWithin, BySizeStepWithin, OtherStepWithin
     DEF AckStep

\* Every variable keeps its type, whatever is called with whatever arguments.
THEOREM TypeCorrect == Spec => []TypeOK
<1>1. Inv => TypeOK
  BY DEF Inv
<1> QED
  BY <1>1, InitWithin, NextWithin, PTL DEF Spec

\* The pointer and the packets handed out are always within the topic: for any events, sizes,
\* offsets and batch lengths.
THEOREM PointerStaysWithinTopic == Spec => []PointerWithinTopic
<1>1. Inv => PointerWithinTopic
  BY DEF Inv
<1> QED
  BY <1>1, InitWithin, NextWithin, PTL DEF Spec

\* No acknowledgement takes the pointer back, whatever it finds when it loads the topic, except
\* one of several sizes whose sum wraps.
THEOREM AcknowledgementsGoForward == Spec => AcksGoBackOnlyByWrapping
<1>1. Inv /\ [Next]_vars =>
         [call' /= call /\ call'.op \in Acks /\ read_pointer' < read_pointer
          => /\ call'.op = "ack_packet_batch_by_size"
             /\ SizesWrap(call'.args[1], call'.args[2])]_vars
  <2> SUFFICES ASSUME Inv, Next, call' /= call, call'.op \in Acks, read_pointer' < read_pointer
               PROVE  /\ call'.op = "ack_packet_batch_by_size"
                      /\ SizesWrap(call'.args[1], call'.args[2])
    OBVIOUS
  <2>0. read_pointer \in Nat /\ read_pointer' \in Nat
    BY NextWithin DEF Inv, TypeOK
  <2>1. ~Publishing
    BY DEF Publishing, BeginFrame, EndFrame
  <2>2. BySizeStep
    BY <2>0, <2>1, StepsOfNext, OtherStepWithin, ForwardStepWithin DEF AckStep
  <2> QED
    BY <2>0, <2>2, BySizeStepWithin
<1> QED
  BY <1>1, InitWithin, NextWithin, PTL DEF Spec, AcksGoBackOnlyByWrapping

-----------------------------------------------------------------------------
(* Acknowledging a packet again *)

\* Up to where the last call acknowledged, if it was one of these two.
SinglePacketAcks == {"ack_packet", "ack_packet_by_offset"}
Acked == IF call.op = "ack_packet"
         THEN Sum(call.args[1].offset_in_topic + HeaderSize + call.args[1].packet_size)
         ELSE Sum(call.args[1] + HeaderSize + call.args[2])

\* The pointer has got there, within the topic, and the packet was not empty.
AckedBehind ==
    call.op \in SinglePacketAcks /\ call.ok =>
        /\ Acked \in Nat /\ Acked <= read_pointer /\ Acked <= Len(data)
        /\ call.op = "ack_packet_by_offset" => call.args[2] /= 0

\* A repeated call changes nothing and returns 0 again, unless it cannot load the topic.
Repeated == read_pointer' = read_pointer /\ (call'.loaded => call'.ok)

\* What an acknowledgement up to the end of a packet answers, and when it changes nothing.
LEMMA AckUpToAnswers ==
    ASSUME Inv, NEW op, NEW args, NEW load \in Loads, NEW offset \in Nat, NEW n \in Nat,
           NEW end \in Nat, end = Sum(offset + HeaderSize + n), AckUpTo(op, args, load, offset, n)
    PROVE  /\ call'.op = op /\ call'.args = args /\ UNCHANGED data
           /\ call'.ok => end <= read_pointer' /\ end <= Len(data)
           /\ end <= read_pointer /\ end <= Len(data) => Repeated
<1>1. /\ read_pointer \in Nat /\ Len(data) \in Nat /\ Size(load) \in Nat /\ Size(load) <= Len(data)
      /\ load = "whole" => Size(load) = Len(data)
  BY SizeType DEF Inv, TypeOK
<1>2. \/ /\ end <= Size(load)
         /\ Moves(op, args, load, IF read_pointer < end THEN end ELSE read_pointer)
      \/ (load = "failed" \/ end > Size(load)) /\ Refuses(op, args, load)
  BY DEF AckUpTo
<1>3. CASE /\ end <= Size(load)
           /\ Moves(op, args, load, IF read_pointer < end THEN end ELSE read_pointer)
  BY <1>1, <1>3 DEF Moves, Returns, Repeated
<1>4. CASE (load = "failed" \/ end > Size(load)) /\ Refuses(op, args, load)
  <2>1. call'.op = op /\ call'.args = args /\ ~call'.ok /\ UNCHANGED <<data, read_pointer>>
    BY <1>4 DEF Refuses, Returns
  <2>2. call'.loaded => load = "whole"
    BY <1>4, Zenon DEF Refuses, Returns
  <2>3. call'.loaded => end > Len(data)
    BY <1>1, <1>4, <2>2
  <2>4. end <= read_pointer /\ end <= Len(data) => Repeated
    BY <1>1, <2>1, <2>3 DEF Repeated
  <2> QED  BY <2>1, <2>4
<1> QED  BY <1>2, <1>3, <1>4

\* ack_packet() and ack_packet_by_offset() leave the pointer behind what they accept.  Repeated
\* where the pointer has got there they change nothing.
LEMMA SinglePacketAckStep ==
    ASSUME Inv, SinglePacketStep
    PROVE  /\ AckedBehind'
           /\ /\ AckedBehind /\ call.op \in SinglePacketAcks /\ call.ok
              /\ call'.op = call.op /\ call'.args = call.args
              => Repeated
<1>1. ASSUME NEW load \in Loads, NEW packet \in held, AckPacket(packet, load)
      PROVE  /\ AckedBehind'
             /\ /\ AckedBehind /\ call.op \in SinglePacketAcks /\ call.ok
                /\ call'.op = call.op /\ call'.args = call.args
                => Repeated
  <2>1. packet.offset_in_topic \in Nat /\ packet.packet_size \in Nat
    BY DEF Inv, TypeOK, PacketType
  <2>2. PICK end \in Nat : end = Sum(packet.offset_in_topic + HeaderSize + packet.packet_size)
    BY <2>1, SumType DEF HeaderSize
  <2>3. /\ call'.op = "ack_packet" /\ call'.args = <<packet>> /\ UNCHANGED data
        /\ call'.ok => end <= read_pointer' /\ end <= Len(data)
        /\ end <= read_pointer /\ end <= Len(data) => Repeated
    BY <1>1, <2>1, <2>2, AckUpToAnswers DEF AckPacket
  <2>4. Acked' = end
    BY <2>2, <2>3 DEF Acked
  <2>5. call'.op = call.op /\ call'.args = call.args => Acked = end
    BY <2>2, <2>3 DEF Acked
  <2> QED  BY <2>3, <2>4, <2>5 DEF AckedBehind
<1>2. ASSUME NEW load \in Loads, NEW offset \in Offsets, NEW n \in Sizes,
             AckPacketByOffset(offset, n, load)
      PROVE  /\ AckedBehind'
             /\ /\ AckedBehind /\ call.op \in SinglePacketAcks /\ call.ok
                /\ call'.op = call.op /\ call'.args = call.args
                => Repeated
  <2>1. offset \in Nat /\ n \in Nat
    BY Arguments
  <2>2. PICK end \in Nat : end = Sum(offset + HeaderSize + n)
    BY <2>1, SumType DEF HeaderSize
  <2>3. CASE n > 0
    <3>1. AckUpTo("ack_packet_by_offset", <<offset, n>>, load, offset, n)
      BY <1>2, <2>1, <2>3 DEF AckPacketByOffset
    <3>2. /\ call'.op = "ack_packet_by_offset" /\ call'.args = <<offset, n>> /\ UNCHANGED data
          /\ call'.ok => end <= read_pointer' /\ end <= Len(data)
          /\ end <= read_pointer /\ end <= Len(data) => Repeated
      BY <2>1, <2>2, <3>1, AckUpToAnswers
    <3>3. Acked' = end
      BY <2>2, <3>2 DEF Acked
    <3>4. call'.op = call.op /\ call'.args = call.args => Acked = end
      BY <2>2, <3>2 DEF Acked
    <3>5. call'.args[2] /= 0
      BY <2>1, <2>3, <3>2
    <3> QED  BY <3>2, <3>3, <3>4, <3>5 DEF AckedBehind
  <2>4. CASE n = 0
    <3>1. Refuses("ack_packet_by_offset", <<offset, n>>, load)
      BY <1>2, <2>4 DEF AckPacketByOffset
    <3>2. /\ call'.op = "ack_packet_by_offset" /\ call'.args = <<offset, 0>> /\ ~call'.ok
          /\ read_pointer' = read_pointer
      BY <2>4, <3>1 DEF Refuses, Returns
    <3>3. call'.op = call.op /\ call'.args = call.args => call.args[2] = 0
      BY <3>2
    <3> QED  BY <3>2, <3>3 DEF AckedBehind
  <2> QED  BY <2>1, <2>3, <2>4
<1> QED  BY <1>1, <1>2 DEF SinglePacketStep

\* Every step leaves the pointer there, or answers another call.
LEMMA AckedBehindStep ==
    ASSUME Inv, AckedBehind, [Next]_vars
    PROVE  /\ AckedBehind'
           /\ /\ call.op \in SinglePacketAcks /\ call.ok
              /\ call'.op = call.op /\ call'.args = call.args
              => Repeated
<1>1. ASSUME UNCHANGED <<call, read_pointer>>, Len(data') >= Len(data), data' \in Seq(Byte)
      PROVE  /\ AckedBehind'
             /\ call.ok => Repeated
  <2>1. Len(data) \in Nat /\ Len(data') \in Nat /\ Acked' = Acked
    BY <1>1 DEF Inv, TypeOK, Acked
  <2> QED  BY <1>1, <2>1 DEF AckedBehind, Repeated
<1>2. CASE UNCHANGED vars
  BY <1>1, <1>2 DEF vars, Inv, TypeOK
<1>3. CASE Publishing
  <2>1. UNCHANGED <<call, read_pointer>>
    BY <1>3 DEF Publishing, BeginFrame, EndFrame
  <2>2. \E t \in Seq(Byte) : data' = data \o t
    <3>1. ASSUME NEW e \in Events, NEW n \in 1..Len(Frame(e)), BeginFrame(e, n)
          PROVE  \E t \in Seq(Byte) : data' = data \o t
      <4>1. e \in Seq(Byte)
        BY GroupPointerAssumption DEF GroupPointerAssumption
      <4>2. Frame(e) \in Seq(Byte) /\ n \in Nat /\ n <= Len(Frame(e))
        BY <4>1, FrameType
      <4>3. SubSeq(Frame(e), 1, n) \in Seq(Byte)
        BY <4>2, SubSeqType
      <4> QED  BY <3>1, <4>3 DEF BeginFrame
    <3>2. CASE EndFrame
      BY <3>2 DEF EndFrame, Inv, TypeOK
    <3> QED  BY <1>3, <3>1, <3>2 DEF Publishing
  <2>3. Len(data') >= Len(data) /\ data' \in Seq(Byte)
    <3>1. PICK t \in Seq(Byte) : data' = data \o t
      BY <2>2
    <3>2. data \in Seq(Byte)
      BY DEF Inv, TypeOK
    <3>3. Len(data \o t) = Len(data) + Len(t) /\ data \o t \in Seq(Byte)
      BY <3>2, ConcatProperties
    <3> QED  BY <3>1, <3>2, <3>3
  <2> QED  BY <1>1, <2>1, <2>3
<1>4. CASE SinglePacketStep
  BY <1>4, SinglePacketAckStep
<1>5. ASSUME call'.op \notin SinglePacketAcks
      PROVE  /\ AckedBehind'
             /\ ~(call.op \in SinglePacketAcks /\ call'.op = call.op)
  BY <1>5 DEF AckedBehind
<1>6. CASE OtherStep
  <2>1. call'.op \notin SinglePacketAcks
    BY <1>6, OtherStepWithin DEF Acks, SinglePacketAcks
  <2> QED  BY <1>5, <2>1
<1>7. CASE BatchStep \/ BySizeStep
  <2>1. call'.op \in {"ack_packet_batch", "ack_packet_batch_by_size"}
    BY <1>7 DEF BatchStep, BySizeStep, AckPacketBatch, AckPacketBatchBySize, Moves, Refuses, Returns
  <2>2. call'.op \notin SinglePacketAcks
    BY <2>1 DEF SinglePacketAcks
  <2> QED  BY <1>5, <2>2
<1> QED  BY <1>2, <1>3, <1>4, <1>6, <1>7, StepsOfNext DEF AckStep

\* Acknowledging a packet again after it was accepted moves nothing, whatever others published
\* in the meantime, and returns 0 again if the topic could be loaded.
THEOREM AcksMayBeRepeated == Spec => AckRetryIsHarmless
<1>1. Init => AckedBehind
  BY DEF Init, AckedBehind, SinglePacketAcks
<1>2. AckedBehind /\ Inv /\ [Next]_vars => AckedBehind'
  BY AckedBehindStep
<1>3. AckedBehind /\ Inv /\ [Next]_vars =>
         [/\ call.op \in {"ack_packet", "ack_packet_by_offset"} /\ call.ok
          /\ call'.op = call.op /\ call'.args = call.args
          => /\ read_pointer' = read_pointer
             /\ call'.loaded => call'.ok]_vars
  BY AckedBehindStep DEF SinglePacketAcks, Repeated
<1> QED
  BY <1>1, <1>2, <1>3, InitWithin, NextWithin, PTL DEF Spec, AckRetryIsHarmless

-----------------------------------------------------------------------------
(* Frames *)

EndOfFrame(f) == f.offset_in_topic + HeaderSize + f.packet_size

\* The file once the last frame is whole.
Expected == data \o unwritten

\* The frames that were published are in it, none begins within another, and behind the prologue
\* and behind each of them the next one begins.  No offset in it wraps.
Published ==
    /\ Len(Expected) < Word
    /\ \A f \in frames : /\ f.packet_size > 0 /\ f.packet_size <= MaxPacketSize
                         /\ HoldsAt(Expected, f.offset_in_topic, EncodeSize(f.packet_size))
                         /\ EndOfFrame(f) <= Len(Expected)
    /\ \A f, g \in frames : g.offset_in_topic < EndOfFrame(f) => EndOfFrame(g) <= EndOfFrame(f)
    /\ \A b \in Nat : Boundary(b) => b = Len(Expected) \/ \E f \in frames : f.offset_in_topic = b

\* The fields of a frame.
LEMMA FrameFields ==
    ASSUME Inv, NEW f \in frames
    PROVE  /\ f.packet_size \in Nat /\ f.offset_in_topic \in Nat /\ EndOfFrame(f) \in Nat
           /\ f = [packet_size |-> f.packet_size, offset_in_topic |-> f.offset_in_topic]
           /\ Boundary(EndOfFrame(f))
<1>1. f \in PacketType
  BY DEF Inv, TypeOK
<1>2. f.packet_size \in Nat /\ f.offset_in_topic \in Nat
  BY <1>1 DEF PacketType
<1> QED  BY <1>1, <1>2 DEF EndOfFrame, HeaderSize, Boundary, PacketType

\* The file is a beginning of what it will be.
LEMMA DataIsBeginning ==
    ASSUME Inv
    PROVE  /\ data \in Seq(Byte) /\ Expected \in Seq(Byte) /\ Len(data) <= Len(Expected)
           /\ Len(data) \in Nat /\ Len(Expected) \in Nat
           /\ \A i \in 1..Len(data) : Expected[i] = data[i]
<1>1. data \in Seq(Byte) /\ unwritten \in Seq(Byte)
  BY DEF Inv, TypeOK
<1>2. PICK d \in Seq(Byte) : d = data
  BY <1>1
<1>3. PICK u \in Seq(Byte) : u = unwritten
  BY <1>1
<1>4. /\ d \o u \in Seq(Byte) /\ Len(d \o u) = Len(d) + Len(u)
      /\ \A i \in 1..Len(d) : (d \o u)[i] = d[i]
  BY ConcatProperties
<1> QED  BY <1>2, <1>3, <1>4 DEF Expected

\* What the four bytes at a frame's beginning say, once they are in the file.
LEMMA HeaderReads ==
    ASSUME Inv, Published, NEW f \in frames, f.offset_in_topic + HeaderSize <= Len(data)
    PROVE  DecodeSize(data, f.offset_in_topic) = f.packet_size
<1>1. PICK at \in Nat, n \in Nat : at = f.offset_in_topic /\ n = f.packet_size
  BY FrameFields
<1>2. EncodeSize(n) \in Seq(Byte) /\ Len(EncodeSize(n)) = HeaderSize
  BY EncodeSizeType
<1>3. HoldsAt(Expected, at, EncodeSize(n))
  BY <1>1 DEF Published
<1>4. \A i \in 1..HeaderSize : Expected[at + i] = EncodeSize(n)[i]
  BY <1>2, <1>3 DEF HoldsAt
<1>5. \A i \in 1..HeaderSize : at + i \in 1..Len(data)
  BY <1>1, DataIsBeginning DEF HeaderSize
<1>6. \A i \in 1..HeaderSize : data[at + i] = EncodeSize(n)[i]
  BY <1>4, <1>5, DataIsBeginning
<1>7. n < 16777216
  BY <1>1, GroupPointerAssumption DEF GroupPointerAssumption, Published
<1>8. DecodeSize(data, at) = n
  BY <1>6, <1>7, DecodeEncode
<1> QED  BY <1>1, <1>8

\* A packet that is whole where a frame may begin is that frame.
LEMMA WholeIsFrame ==
    ASSUME Inv, Published, NEW b \in Nat, Boundary(b), NEW n, WholeAt(b, n)
    PROVE  /\ [packet_size |-> n, offset_in_topic |-> b] \in frames
           /\ n \in Nat /\ n > 0
           /\ Boundary(b + HeaderSize + n)
<1>1. b + HeaderSize <= Len(data) /\ n = DecodeSize(data, b)
  BY DEF WholeAt
<1>2. b /= Len(Expected)
  BY <1>1, DataIsBeginning DEF HeaderSize
<1>3. PICK f \in frames : f.offset_in_topic = b
  BY <1>2 DEF Published
<1>4. n = f.packet_size
  BY <1>1, <1>3, HeaderReads
<1>5. n \in Nat /\ n > 0 /\ f = [packet_size |-> n, offset_in_topic |-> b]
  BY <1>3, <1>4, FrameFields DEF Published
<1>6. Boundary(EndOfFrame(f))
  BY FrameFields
<1> QED  BY <1>3, <1>4, <1>5, <1>6 DEF EndOfFrame

\* At the start there are no frames.
LEMMA PublishedInit == Init => Published
<1> SUFFICES ASSUME Init PROVE Published
  OBVIOUS
<1>1. frames = {} /\ Expected = Prologue
  BY DEF Init, Expected, Prologue, Byte
<1>2. Len(Expected) < Word
  BY <1>1, Arguments DEF Prologue, HeaderSize
<1> QED  BY <1>1, <1>2 DEF Published, Boundary

\* A frame that is published goes behind the others.
LEMMA PublishedMore ==
    ASSUME Inv, Inv', Published, NEW e \in Events,
           Expected' = Expected \o Frame(e), Len(Expected) + Len(Frame(e)) <= MaxFileSize,
           frames' = frames \cup {[packet_size |-> Len(e), offset_in_topic |-> Len(Expected)]}
    PROVE  Published'
<1>1. e \in Seq(Byte) /\ e /= <<>> /\ Len(e) <= MaxPacketSize
  BY GroupPointerAssumption DEF GroupPointerAssumption
<1>2. PICK n \in Nat : n = Len(e)
  BY <1>1
<1>3. n > 0
  BY <1>1, <1>2
<1>4. PICK l \in Nat : l = Len(Expected)
  BY DataIsBeginning
<1>5. PICK t \in Seq(Byte) : t = Frame(e)
  BY <1>1, FrameType
<1>6. Len(t) = HeaderSize + n /\ \A i \in 1..HeaderSize : t[i] = EncodeSize(n)[i]
  BY <1>1, <1>2, <1>5, FrameType
<1>7. EncodeSize(n) \in Seq(Byte) /\ Len(EncodeSize(n)) = HeaderSize
  BY EncodeSizeType
<1>8. PICK d \in Seq(Byte) : d = Expected
  BY DataIsBeginning
<1>9. PICK new : new = [packet_size |-> n, offset_in_topic |-> l]
  OBVIOUS
<1>10. /\ frames' = frames \cup {new} /\ new.packet_size = n /\ new.offset_in_topic = l
       /\ EndOfFrame(new) = l + HeaderSize + n
  BY <1>2, <1>4, <1>9 DEF EndOfFrame
<1>11. Expected' = d \o t /\ Len(d) = l
  BY <1>4, <1>5, <1>8
<1>12. /\ Len(d \o t) = l + HeaderSize + n
       /\ \A i \in 1..Len(t) : (d \o t)[l + i] = t[i]
  <2>1. HoldsAt(d \o t, Len(d \o t) - Len(t), t)
    BY HoldsAtEnd
  <2>2. Len(d \o t) = Len(d) + Len(t)
    BY ConcatProperties
  <2>3. Len(d \o t) - Len(t) = l
    BY <1>11, <2>2
  <2> QED  BY <1>6, <1>11, <2>1, <2>2, <2>3 DEF HoldsAt, HeaderSize
<1>13. \A f \in frames : /\ f.offset_in_topic \in Nat /\ f.packet_size \in Nat
                         /\ EndOfFrame(f) \in Nat
                         /\ f.offset_in_topic + HeaderSize <= EndOfFrame(f)
                         /\ EndOfFrame(f) <= l
  BY <1>4, FrameFields DEF Published, EndOfFrame, HeaderSize
<1>14. ASSUME NEW f \in frames'
       PROVE  /\ f.packet_size > 0 /\ f.packet_size <= MaxPacketSize
              /\ HoldsAt(d \o t, f.offset_in_topic, EncodeSize(f.packet_size))
              /\ EndOfFrame(f) <= l + HeaderSize + n
  <2>1. CASE f = new
    <3>1. \A i \in 1..HeaderSize : (d \o t)[l + i] = EncodeSize(n)[i]
      BY <1>6, <1>12 DEF HeaderSize
    <3>2. HoldsAt(d \o t, l, EncodeSize(n))
      <4>1. PICK h \in Seq(Byte) : h = EncodeSize(n) /\ Len(h) = HeaderSize
        BY <1>7
      <4>2. l >= 0 /\ l + Len(h) <= Len(d \o t)
        BY <1>12, <4>1 DEF HeaderSize
      <4>3. \A i \in 1..Len(h) : (d \o t)[l + i] = h[i]
        BY <3>1, <4>1
      <4> QED  BY <4>1, <4>2, <4>3 DEF HoldsAt
    <3> QED  BY <1>1, <1>2, <1>3, <1>10, <2>1, <3>2 DEF HeaderSize
  <2>2. CASE f \in frames
    <3>1. /\ f.packet_size > 0 /\ f.packet_size <= MaxPacketSize /\ EndOfFrame(f) <= l
          /\ HoldsAt(d, f.offset_in_topic, EncodeSize(f.packet_size))
      BY <1>8, <1>13, <2>2 DEF Published
    <3>2. EncodeSize(f.packet_size) \in Seq(Byte)
      BY <1>13, <2>2, EncodeSizeType
    <3>3. HoldsAt(d \o t, f.offset_in_topic, EncodeSize(f.packet_size))
      BY <1>13, <2>2, <3>1, <3>2, HoldsAtExtended
    <3> QED  BY <1>13, <2>2, <3>1, <3>3 DEF HeaderSize
  <2> QED  BY <1>10, <2>1, <2>2
<1>15. ASSUME NEW f \in frames', NEW g \in frames', g.offset_in_topic < EndOfFrame(f)
       PROVE  EndOfFrame(g) <= EndOfFrame(f)
  <2>1. CASE f = new
    BY <1>10, <1>13, <2>1 DEF HeaderSize
  <2>2. CASE f \in frames /\ g = new
    BY <1>10, <1>13, <1>15, <2>2
  <2>3. CASE f \in frames /\ g \in frames
    BY <1>15, <2>3 DEF Published
  <2> QED  BY <1>10, <2>1, <2>2, <2>3
<1>16. ASSUME NEW b \in Nat, Boundary(b)'
       PROVE  b = l + HeaderSize + n \/ \E f \in frames' : f.offset_in_topic = b
  <2>1. b = Len(Prologue) \/ \E f \in frames' : b = EndOfFrame(f)
    BY <1>16 DEF Boundary, EndOfFrame
  <2>2. CASE b = EndOfFrame(new)
    BY <1>10, <2>2
  <2>3. CASE b = Len(Prologue) \/ \E f \in frames : b = EndOfFrame(f)
    <3>1. Boundary(b)
      BY <2>3 DEF Boundary, EndOfFrame
    <3>2. b = l \/ \E f \in frames : f.offset_in_topic = b
      BY <1>4, <3>1 DEF Published
    <3> QED  BY <1>10, <3>2
  <2> QED  BY <1>10, <2>1, <2>2, <2>3
<1>17. Len(d \o t) < Word
  BY <1>4, <1>5, <1>6, <1>12, Arguments DEF HeaderSize
<1> QED  BY <1>11, <1>12, <1>14, <1>15, <1>16, <1>17 DEF Published, EndOfFrame

\* Publishing keeps the frames as they are, or adds one.
LEMMA PublishingFrames ==
    ASSUME Inv, Inv', Published, Publishing
    PROVE  Published'
<1>1. ASSUME NEW e \in Events, NEW n \in 1..Len(Frame(e)), BeginFrame(e, n)
      PROVE  Published'
  <2>1. e \in Seq(Byte)
    BY GroupPointerAssumption DEF GroupPointerAssumption
  <2>2. PICK t \in Seq(Byte) : t = Frame(e)
    BY <2>1, FrameType
  <2>3. PICK d \in Seq(Byte) : d = data
    BY DataIsBeginning
  <2>4. PICK k \in Nat : k = n
    OBVIOUS
  <2>5. k \in 0..Len(t) /\ k <= Len(t)
    BY <2>2, <2>4
  <2>6. SubSeq(t, 1, k) \in Seq(Byte) /\ SubSeq(t, k + 1, Len(t)) \in Seq(Byte)
    BY <2>5, SubSeqType, TailType
  <2>7. SubSeq(t, 1, k) \o SubSeq(t, k + 1, Len(t)) = t
    <3>1. 1 \in 1..(Len(t) + 1) /\ k \in (1 - 1)..Len(t) /\ Len(t) \in k..Len(t)
      BY <2>5
    <3>2. SubSeq(t, 1, k) \o SubSeq(t, k + 1, Len(t)) = SubSeq(t, 1, Len(t))
      BY <3>1, ConcatAdjacentSubSeq
    <3> QED  BY <3>2, SubSeqFull
  <2>8. Expected' = (d \o SubSeq(t, 1, k)) \o SubSeq(t, k + 1, Len(t))
    BY <1>1, <2>2, <2>3, <2>4 DEF BeginFrame, Expected
  <2>9. Expected' = d \o t
    <3>1. PICK x \in Seq(Byte), y \in Seq(Byte) :
              x = SubSeq(t, 1, k) /\ y = SubSeq(t, k + 1, Len(t))
      BY <2>6
    <3>2. (d \o x) \o y = d \o (x \o y)
      BY ConcatAssociative
    <3> QED  BY <2>7, <2>8, <3>1, <3>2
  <2>10. Expected = d
    BY <1>1, <2>3, ConcatEmptySeq DEF BeginFrame, Expected
  <2>11. Len(Expected) + Len(t) <= MaxFileSize
    BY <1>1, <2>2, <2>3, <2>10 DEF BeginFrame
  <2> QED  BY <1>1, <2>2, <2>3, <2>9, <2>10, <2>11, PublishedMore DEF BeginFrame
<1>2. CASE EndFrame
  <2>1. data' = Expected /\ unwritten' = <<>> /\ frames' = frames
    BY <1>2 DEF EndFrame, Expected
  <2>2. Expected' = Expected
    BY <2>1, DataIsBeginning, ConcatEmptySeq DEF Expected
  <2> QED  BY <2>1, <2>2 DEF Published, Boundary
<1> QED  BY <1>1, <1>2 DEF Publishing

\* The other steps leave them alone.
LEMMA CallsLeaveFrames ==
    ASSUME UNCHANGED vars \/ AckStep \/ OtherStep
    PROVE  UNCHANGED <<data, unwritten, frames>>
BY DEF vars, AckStep, SinglePacketStep, BatchStep, BySizeStep, OtherStep, ConsumeStep, AckPacket, AckPacketByOffset, AckUpTo, AckPacketBatch,
   AckPacketBatchBySize, ConsumePacket, ConsumePacketWithSize, ReadFromGroup,
   AdvanceGroupPointer, PacketFree, SetGroupPointer, Moves, Refuses, Hands

\* So every step keeps this.
LEMMA PublishedStep ==
    ASSUME Inv, Published, [Next]_vars
    PROVE  Published'
<1>1. CASE Publishing
  BY <1>1, NextWithin, PublishingFrames
<1>2. CASE UNCHANGED <<data, unwritten, frames>>
  BY <1>2 DEF Published, Expected, Boundary
<1> QED  BY <1>1, <1>2, StepsOfNext, CallsLeaveFrames

\* From a frame's beginning ack_packet_batch() goes from frame to frame.
LEMMA WalkStaysAligned ==
    ASSUME Inv, Published, Boundary(read_pointer), NEW count \in Nat, NEW n \in Nat, n >= 1,
           NEW walk \in [1..n -> read_pointer..Len(data)], Goes(walk, count), Len(walk) = n
    PROVE  Boundary(walk[n]) /\ walk[n] \in Nat
<1>1. read_pointer \in Nat
  BY DEF Inv, TypeOK
<1>2. \A i \in 1..n : walk[i] \in Nat
  BY <1>1, DataIsBeginning
<1> DEFINE S == {i \in Nat : i + 1 <= n => Boundary(walk[i + 1])}
<1>3. 0 \in S
  BY DEF Goes
<1>4. ASSUME NEW i \in Nat, i \in S PROVE i + 1 \in S
  <2> SUFFICES ASSUME i + 2 <= n PROVE Boundary(walk[i + 2])
    BY <1>4
  <2>1. Boundary(walk[i + 1]) /\ i + 1 \in 1..(n - 1) /\ i + 1 \in 1..n /\ i + 2 \in 1..n
    BY <1>4
  <2>2. PICK from \in Nat, to \in Nat : from = walk[i + 1] /\ to = walk[i + 2]
    BY <1>2, <2>1
  <2>3. Passes(from, to)
    BY <2>1, <2>2 DEF Goes
  <2>4. WholeAt(from, to - from - HeaderSize)
    BY <2>3 DEF Passes
  <2>5. /\ to - from - HeaderSize \in Nat
        /\ Boundary(from + HeaderSize + (to - from - HeaderSize))
    BY <2>1, <2>2, <2>4, WholeIsFrame
  <2>6. from + HeaderSize + (to - from - HeaderSize) = to
    BY <2>2 DEF HeaderSize
  <2> QED  BY <2>2, <2>5, <2>6
<1>5. Nat \subseteq S
  BY <1>3, <1>4, SetInduction
<1>6. n - 1 \in Nat /\ n - 1 + 1 = n
  OBVIOUS
<1> QED  BY <1>2, <1>5, <1>6

\* So do the calls that go by frames: they stay at a frame's beginning and hand out frames.
LEMMA FrameCallsStayAligned ==
    ASSUME Inv, Published, Boundary(read_pointer),
           \/ ConsumeStep
           \/ BatchStep
           \/ \E load \in Loads, packet \in held : AckPacket(packet, load) /\ packet \in frames
    PROVE  Boundary(read_pointer') /\ held' \subseteq held \cup frames
<1>0. read_pointer \in Nat /\ Len(data) \in Nat
  BY DataIsBeginning DEF Inv, TypeOK
<1>1. ASSUME NEW load \in Loads, ConsumePacket(load)
      PROVE  Boundary(read_pointer') /\ held' \subseteq held \cup frames
  <2> PICK n : n = HeaderValue
    OBVIOUS
  <2>1. CASE Refuses("consume_packet", << >>, load)
    BY <2>1 DEF Refuses
  <2>2. CASE PacketThere(n) /\ Hands("consume_packet", << >>, n, HeaderSize + n)
    <3>1. /\ [packet_size |-> n, offset_in_topic |-> read_pointer] \in frames /\ n \in Nat
          /\ Boundary(read_pointer + HeaderSize + n)
      BY <1>0, <2>2, WholeIsFrame DEF PacketThere
    <3>2. /\ held' = held \cup {[packet_size |-> n, offset_in_topic |-> read_pointer]}
          /\ read_pointer' = read_pointer + (HeaderSize + n)
      BY <2>2 DEF Hands
    <3>3. read_pointer + (HeaderSize + n) = read_pointer + HeaderSize + n
      BY <1>0, <3>1 DEF HeaderSize
    <3> QED  BY <3>1, <3>2, <3>3
  <2> QED  BY <1>1, <2>1, <2>2 DEF ConsumePacket
<1>2. ASSUME NEW load \in Loads, NEW count \in Counts, AckPacketBatch(count, load)
      PROVE  Boundary(read_pointer') /\ held' \subseteq held \cup frames
  <2>0. count \in Nat
    BY Arguments
  <2>1. CASE Refuses("ack_packet_batch", <<count>>, load)
    BY <2>1 DEF Refuses
  <2>2. ASSUME NEW n \in 1..(count + 1), NEW walk \in [1..n -> read_pointer..Len(data)],
               Goes(walk, count), read_pointer' = walk[n], held' = held
        PROVE  Boundary(read_pointer') /\ held' \subseteq held \cup frames
    <3>1. n \in Nat /\ n >= 1 /\ Len(walk) = n
      BY <2>0, <2>2
    <3> QED  BY <2>0, <2>2, <3>1, WalkStaysAligned
  <2> QED  BY <1>2, <2>1, <2>2 DEF AckPacketBatch
<1>3. ASSUME NEW load \in Loads, NEW packet \in held, AckPacket(packet, load), packet \in frames
      PROVE  Boundary(read_pointer') /\ held' \subseteq held \cup frames
  <2>1. Boundary(EndOfFrame(packet))
    BY <1>3, FrameFields
  <2>2. held' = held /\ (read_pointer' = read_pointer \/ read_pointer' = EndOfFrame(packet))
    <3>1. PICK end \in Nat : end = EndOfFrame(packet) /\ end < Word
      <4>1. EndOfFrame(packet) <= Len(Expected) /\ Len(Expected) < Word
        BY <1>3 DEF Published
      <4> QED  BY <1>3, <4>1, FrameFields, DataIsBeginning, Arguments
    <3>2. Sum(packet.offset_in_topic + HeaderSize + packet.packet_size) = end
      BY <3>1, SumType DEF EndOfFrame
    <3> QED  BY <1>3, <3>1, <3>2 DEF AckPacket, AckUpTo, Moves, Refuses
  <2> QED  BY <2>1, <2>2
<1> QED  BY <1>1, <1>2, <1>3 DEF ConsumeStep, BatchStep

\* A program that goes by frames from a frame's beginning on stays at one, however much of the
\* last frame is in the file, and is handed nothing else.
THEOREM FrameCallsGoByFrames == Spec => WholeFramesStayAligned
<1>1. Inv /\ Published /\ [Next]_vars =>
         [/\ Boundary(read_pointer)
          /\ \/ call'.op \in {"consume_packet", "ack_packet_batch"}
             \/ call'.op = "ack_packet" /\ call'.args[1] \in frames
          => Boundary(read_pointer') /\ held' \subseteq held \cup frames]_vars
  <2> SUFFICES ASSUME Inv, Published, Next, Boundary(read_pointer),
                      \/ call'.op \in {"consume_packet", "ack_packet_batch"}
                      \/ call'.op = "ack_packet" /\ call'.args[1] \in frames
               PROVE  Boundary(read_pointer') /\ held' \subseteq held \cup frames
    OBVIOUS
  <2>1. CASE Publishing
    BY <2>1 DEF Publishing, BeginFrame, EndFrame
  <2>2. CASE ConsumeStep \/ BatchStep
    BY <2>2, FrameCallsStayAligned
  <2>3. ASSUME NEW load \in Loads, NEW packet \in held, AckPacket(packet, load)
        PROVE  packet \in frames
    <3>1. call'.op = "ack_packet" /\ call'.args = <<packet>>
      BY <2>3 DEF AckPacket, AckUpTo, Moves, Refuses, Returns
    <3> QED  BY <3>1
  <2>4. CASE \E load \in Loads, packet \in held : AckPacket(packet, load)
    BY <2>3, <2>4, FrameCallsStayAligned
  <2>5. ASSUME call'.op \in {"consume_packet_with_size", "read_from_group", "packet_free",
                             "set_group_pointer", "advance_group_pointer",
                             "ack_packet_by_offset", "ack_packet_batch_by_size"}
        PROVE  FALSE
    BY <2>5
  <2>6. CASE AckStep
    <3>1. CASE \/ \E load \in Loads, offset \in Offsets, n \in Sizes :
                     AckPacketByOffset(offset, n, load)
               \/ BySizeStep
      BY <2>5, <3>1 DEF BySizeStep, AckPacketByOffset, AckUpTo, AckPacketBatchBySize, Moves,
         Refuses, Returns
    <3> QED  BY <2>2, <2>4, <2>6, <3>1 DEF AckStep, SinglePacketStep
  <2>7. CASE OtherStep
    <3>1. CASE \/ \E load \in Loads, n \in Sizes :
                     \/ ConsumePacketWithSize(n, load)
                     \/ ReadFromGroup(n, load)
                     \/ AdvanceGroupPointer(n, load)
               \/ \E packet \in held : PacketFree(packet)
               \/ \E load \in Loads, offset \in Offsets : SetGroupPointer(offset, load)
      BY <2>5, <3>1 DEF ConsumePacketWithSize, ReadFromGroup, AdvanceGroupPointer, PacketFree,
         SetGroupPointer, Hands, Moves, Refuses, Returns
    <3> QED  BY <2>2, <2>7, <3>1 DEF OtherStep
  <2> QED  BY <2>1, <2>6, <2>7, StepsOfNext
<1> QED
  BY <1>1, InitWithin, NextWithin, PublishedInit, PublishedStep, PTL
  DEF Spec, WholeFramesStayAligned

\* Where ack_packet_batch() cannot go on from a frame's beginning, every frame that is in the
\* file is behind it.
LEMMA StopsBehindEverything ==
    ASSUME Inv, Published, NEW b \in Nat, Boundary(b), \A to \in 0..Len(data) : ~Passes(b, to),
           NEW f \in frames, EndOfFrame(f) <= Len(data)
    PROVE  EndOfFrame(f) <= b
<1> SUFFICES ASSUME EndOfFrame(f) > b PROVE FALSE
  BY FrameFields
<1>1. EndOfFrame(f) \in Nat /\ Len(data) <= Len(Expected) /\ Len(data) \in Nat /\ Len(Expected) \in Nat
  BY FrameFields, DataIsBeginning
<1>2. b /= Len(Expected)
  BY <1>1
<1>3. PICK g \in frames : g.offset_in_topic = b
  BY <1>2 DEF Published
<1>4. EndOfFrame(g) <= EndOfFrame(f)
  BY <1>3 DEF Published
<1>5. PICK n \in Nat, to \in Nat : n = g.packet_size /\ to = EndOfFrame(g)
  BY FrameFields
<1>6. to = b + HeaderSize + n /\ to <= Len(data)
  BY <1>1, <1>3, <1>4, <1>5 DEF EndOfFrame
<1>7. b + HeaderSize <= Len(data)
  BY <1>1, <1>6 DEF HeaderSize
<1>8. DecodeSize(data, b) = n
  BY <1>3, <1>5, <1>7, HeaderReads
<1>9. to - b - HeaderSize = n
  BY <1>6 DEF HeaderSize
<1>10. WholeAt(b, to - b - HeaderSize)
  BY <1>6, <1>7, <1>8, <1>9 DEF WholeAt
<1>11. to \in 0..Len(data)
  BY <1>1, <1>6
<1> QED  BY <1>10, <1>11 DEF Passes

\* From a frame's beginning an ack_packet_batch() that returns -1 has passed all that is
\* published, for want of more and not in the middle, or nothing, for want of a topic.
THEOREM FailedBatchesPassAllOrNothing == Spec => FailedBatchIsAllOrNothing
<1>1. ASSUME Inv, Published, Next, call' /= call, call'.op = "ack_packet_batch",
             ~call'.ok, call'.args[1] > 0, Boundary(read_pointer)
      PROVE  IF call'.loaded
             THEN \A f \in frames : EndOfFrame(f) <= Len(data) => EndOfFrame(f) <= read_pointer'
             ELSE read_pointer' = read_pointer
  <2>1. ~Publishing
    BY <1>1 DEF Publishing, BeginFrame, EndFrame
  <2>2. ~OtherStep
    BY <1>1, OtherStepWithin DEF Acks
  <2>3. PICK load \in Loads, count \in Counts : AckPacketBatch(count, load)
    <3>1. AckStep
      BY <1>1, <2>1, <2>2, StepsOfNext
    <3> QED
      BY <1>1, <3>1 DEF AckStep, SinglePacketStep, BatchStep, BySizeStep, AckPacket,
         AckPacketByOffset, AckUpTo, AckPacketBatchBySize, Moves, Refuses, Returns
  <2>4. count \in Nat
    BY Arguments
  <2>5. CASE load /= "whole"
    <3>1. Refuses("ack_packet_batch", <<count>>, load)
      BY <2>3, <2>5 DEF AckPacketBatch
    <3>2. call'.loaded = FALSE /\ read_pointer' = read_pointer
      BY <2>5, <3>1 DEF Refuses, Returns
    <3> QED  BY <3>2
  <2>6. CASE load = "whole"
    <3>0. count /= 0
      <4> SUFFICES ASSUME count = 0 PROVE FALSE
        OBVIOUS
      <4>1. Refuses("ack_packet_batch", <<count>>, load)
        BY <2>3 DEF AckPacketBatch
      <4>2. call'.args[1] = count
        BY <4>1 DEF Refuses, Returns
      <4> QED  BY <1>1, <4>2
    <3>1. PICK n \in 1..(count + 1) : \E walk \in [1..n -> read_pointer..Len(data)] :
               /\ Goes(walk, count) /\ read_pointer' = walk[n]
               /\ Returns("ack_packet_batch", <<count>>, load, n = count + 1)
      BY <2>3, <2>6, <3>0 DEF AckPacketBatch
    <3>2. PICK walk \in [1..n -> read_pointer..Len(data)] :
               /\ Goes(walk, count) /\ read_pointer' = walk[n]
               /\ Returns("ack_packet_batch", <<count>>, load, n = count + 1)
      BY <3>1
    <3>3. n \in Nat /\ n >= 1 /\ Len(walk) = n /\ n <= count + 1 /\ n /= count + 1
      <4>1. call'.ok = (n = count + 1)
        BY <3>2, Zenon DEF Returns
      <4>2. n /= count + 1
        BY <1>1, <4>1, Zenon
      <4>3. n \in Nat /\ n >= 1 /\ n <= count + 1
        BY <2>4
      <4>4. Len(walk) = n
        BY <4>3
      <4> QED  BY <4>2, <4>3, <4>4
    <3>4. Boundary(walk[n]) /\ walk[n] \in Nat
      BY <1>1, <2>4, <3>2, <3>3, WalkStaysAligned
    <3>5. \A to \in 0..Len(data) : ~Passes(walk[n], to)
      <4>1. Len(walk) - 1 < count /\ Len(walk) - 1 + 1 = n
        BY <2>4, <3>3
      <4> QED  BY <3>2, <4>1 DEF Goes
    <3>6. \A f \in frames : EndOfFrame(f) <= Len(data) => EndOfFrame(f) <= walk[n]
      BY <1>1, <3>4, <3>5, StopsBehindEverything
    <3>7. call'.loaded = TRUE
      BY <2>6, <3>2 DEF Returns
    <3> QED  BY <3>2, <3>6, <3>7
  <2> QED  BY <2>5, <2>6
<1>2. Inv /\ Published /\ [Next]_vars =>
         [/\ call' /= call /\ call'.op = "ack_packet_batch" /\ ~call'.ok /\ call'.args[1] > 0
          /\ Boundary(read_pointer)
          => IF call'.loaded
             THEN \A f \in frames :
                     LET end == f.offset_in_topic + HeaderSize + f.packet_size
                     IN  end <= Len(data) => end <= read_pointer'
             ELSE read_pointer' = read_pointer]_vars
  BY <1>1 DEF EndOfFrame
<1> QED
  BY <1>2, InitWithin, NextWithin, PublishedInit, PublishedStep, PTL
  DEF Spec, FailedBatchIsAllOrNothing
=============================================================================
