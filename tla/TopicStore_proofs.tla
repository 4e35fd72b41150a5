------------------------- MODULE TopicStore_proofs -------------------------
(***************************************************************************)
(* Theorems about TopicStore, for every value of its constants.            *)
(***************************************************************************)
EXTENDS TopicStore, Wire_proofs

-----------------------------------------------------------------------------
(* Types *)

USE DEF publisherVars, consumerVars

\* The chunk of a thread, and what the code can turn it into.
LEMMA ThreadChunkType ==
    ASSUME TypeOK, NEW t \in Publishers \cup Consumers
    PROVE  /\ chunkOf[t] \in Chunks
           /\ chunk[chunkOf[t]] \in ChunkType(Byte)
           /\ chunk[chunkOf[t]].data \in Seq(Byte)
           /\ chunk[chunkOf[t]].persisted_size \in Nat
           /\ Delta(chunk[chunkOf[t]]) \in Seq(Byte)
           /\ \A bytes \in Seq(Byte) :
                 /\ [chunk EXCEPT ![chunkOf[t]] = ChunkLoad(bytes)] \in [Chunks -> ChunkType(Byte)]
                 /\ [chunk EXCEPT ![chunkOf[t]] = ChunkAppend(chunk[chunkOf[t]], bytes)]
                        \in [Chunks -> ChunkType(Byte)]
           /\ [chunk EXCEPT ![chunkOf[t]] = Synced(chunk[chunkOf[t]])]
                  \in [Chunks -> ChunkType(Byte)]
<1>1. chunkOf[t] \in Chunks
  BY TopicStoreAssumption
<1>2. chunk[chunkOf[t]] \in ChunkType(Byte)
  BY <1>1 DEF TypeOK
<1>3. << >> \in Seq(Byte)
  OBVIOUS
<1>4. \A bytes \in Seq(Byte) : /\ ChunkLoad(bytes) \in ChunkType(Byte)
                               /\ ChunkAppend(chunk[chunkOf[t]], bytes) \in ChunkType(Byte)
  BY <1>2, ChunkOperationsType
<1>5. Synced(chunk[chunkOf[t]]) \in ChunkType(Byte)
  BY <1>2, <1>3, ChunkOperationsType
<1>6. Delta(chunk[chunkOf[t]]) \in Seq(Byte)
  BY <1>2, DeltaType
<1>7. \A k \in ChunkType(Byte) : [chunk EXCEPT ![chunkOf[t]] = k] \in [Chunks -> ChunkType(Byte)]
  BY DEF TypeOK
<1>8. chunk[chunkOf[t]].data \in Seq(Byte) /\ chunk[chunkOf[t]].persisted_size \in Nat
  BY <1>2 DEF ChunkType
<1> QED
  BY <1>1, <1>2, <1>4, <1>5, <1>6, <1>7, <1>8

\* What a load leaves: in its own Chunk the bytes it found, every other Chunk as it was.
LEMMA LoadType ==
    ASSUME TypeOK, NEW t \in Publishers \cup Consumers, NEW bytes \in {file, << >>},
           Load(t, bytes)
    PROVE  /\ bytes \in Seq(Byte) /\ Len(bytes) \in Nat
           /\ chunk' \in [Chunks -> ChunkType(Byte)]
           /\ chunk'[chunkOf[t]] = ChunkLoad(bytes)
           /\ \A k \in Chunks : k /= chunkOf[t] => chunk'[k] = chunk[k]
           /\ faults' \in Nat
           /\ "open" \notin Faults => bytes = file
<1>1. bytes \in Seq(Byte) /\ Len(bytes) \in Nat
  <2>1. file \in Seq(Byte) /\ << >> \in Seq(Byte)
    BY DEF TypeOK
  <2>2. bytes \in Seq(Byte)
    BY <2>1
  <2> QED
    BY <2>2
<1>2. chunk' = [chunk EXCEPT ![chunkOf[t]] = ChunkLoad(bytes)]
  BY DEF Load
<1>3. chunkOf[t] \in Chunks /\ DOMAIN chunk = Chunks
  BY ThreadChunkType DEF TypeOK
<1>4. faults' \in Nat
  BY DEF Load, Fault, TypeOK
<1>5. "open" \notin Faults => bytes = file
  BY DEF Load, Fault
<1> QED
  BY <1>1, <1>2, <1>3, <1>4, <1>5, ThreadChunkType

\* A save leaves byte sequences in the file and well-formed records in the history.
LEMMA FileStaysBytes ==
    ASSUME TypeOK, NEW p \in Publishers
    PROVE  /\ file \o Delta(chunk[chunkOf[p]]) \in Seq(Byte)
           /\ file \o Rest(p, written[p]) \in Seq(Byte)
           /\ \A n \in Int : n <= Len(Delta(chunk[chunkOf[p]])) =>
                 file \o SubSeq(Delta(chunk[chunkOf[p]]), 1, n) \in Seq(Byte)
<1>1. Delta(chunk[chunkOf[p]]) \in Seq(Byte)
  BY ThreadChunkType
<1>2. file \in Seq(Byte) /\ written[p] \in Nat
  BY DEF TypeOK
<1>3. Rest(p, written[p]) \in Seq(Byte)
  BY <1>1, <1>2, TailType DEF Rest
<1>4. \A n \in Int : n <= Len(Delta(chunk[chunkOf[p]])) =>
                        SubSeq(Delta(chunk[chunkOf[p]]), 1, n) \in Seq(Byte)
  BY <1>1, SubSeqType
<1> QED
  BY <1>1, <1>2, <1>3, <1>4, ConcatProperties

\* A record of what a call appended has an offset and an event.
LEMMA AppendedType ==
    ASSUME TypeOK, NEW p \in Publishers, NEW i \in 1..Len(appended[p])
    PROVE  /\ appended[p] \in Seq(Placed)
           /\ appended[p][i].at \in Int /\ appended[p][i].event \in Seq(Byte)
<1>1. appended[p] \in Seq(Placed)
  BY DEF TypeOK
<1>2. \A r \in Placed : r.at \in Int /\ r.event \in Seq(Byte)
  BY DEF Placed
<1>3. appended[p][i] \in Placed
  BY <1>1
<1>4. appended[p][i].at \in Int /\ appended[p][i].event \in Seq(Byte)
  BY <1>2, <1>3
<1> QED
  BY <1>1, <1>4

\* Where the appended frames land: a sequence of well-formed records.
LEMMA LandedType ==
    ASSUME TypeOK, NEW p \in Publishers, file' \in Seq(Byte)
    PROVE  /\ Landed(p) \in Seq(Placed)
           /\ Len(Landed(p)) = Len(appended[p])
           /\ \A i \in 1..Len(appended[p]) :
                 /\ Landed(p)[i].event = appended[p][i].event
                 /\ Landed(p)[i].at =
                        appended[p][i].at + (Len(file') - Len(chunk[chunkOf[p]].data))
<1> DEFINE n == Len(appended[p])
           moved == Len(file') - Len(chunk[chunkOf[p]].data)
<1>1. chunk[chunkOf[p]].data \in Seq(Byte) /\ n \in Nat /\ Len(file') \in Nat
  BY ThreadChunkType DEF TypeOK
<1>2. moved \in Int
  BY <1>1
<1> HIDE DEF moved
<1>3. ASSUME NEW i \in 1..n
      PROVE  [at |-> appended[p][i].at + moved, event |-> appended[p][i].event] \in Placed
  <2>1. PICK a \in Int, e \in Seq(Byte) :
           a = appended[p][i].at + moved /\ e = appended[p][i].event
    BY <1>2, AppendedType DEF n
  <2> QED
    BY <2>1 DEF Placed
<1>4. Landed(p) = [i \in 1..n |->
                     [at |-> appended[p][i].at + moved, event |-> appended[p][i].event]]
  BY DEF Landed, moved
<1> HIDE DEF n
<1>5. Landed(p) \in [1..n -> Placed]
  BY <1>3, <1>4
<1>6. Landed(p) \in Seq(Placed) /\ Len(Landed(p)) = n
  BY <1>1, <1>5
<1>7. \A i \in 1..n : /\ Landed(p)[i].event = appended[p][i].event
                      /\ Landed(p)[i].at = appended[p][i].at + moved
  BY <1>4
<1> QED
  BY <1>6, <1>7 DEF n, moved

\* The record of an accepted publish is well formed.
LEMMA AcceptType ==
    ASSUME TypeOK, NEW p \in Publishers, file' \in Seq(Byte), Accept(p)
    PROVE  stored' \in Seq(Placed)
BY LandedType, ConcatProperties DEF Accept, TypeOK

\* The initial values have their types.
LEMMA InitType == Init => TypeOK
<1> SUFFICES ASSUME Init PROVE TypeOK
  OBVIOUS
<1>1. Prologue \in Seq(Byte) /\ << >> \in Seq(Byte) /\ << >> \in Seq(Seq(Byte))
  BY DEF Prologue, Byte
<1>3. << >> \in Seq(Placed)
  OBVIOUS
<1>2. ChunkLoad(Prologue) \in ChunkType(Byte)
  BY <1>1 DEF ChunkLoad, ChunkType
<1> QED
  BY <1>1, <1>2, <1>3 DEF Init, TypeOK, NewGroup, NoPacket

\* What a call that returns leaves behind.
LEMMA ReturnType ==
    ASSUME TypeOK, NEW p \in Publishers, Return(p)
    PROVE  /\ pc' \in [Publishers -> {"idle", "header", "payload", "next", "save", "saving"}]
           /\ rest' \in [Publishers -> Seq(Seq(Byte))]
           /\ \A q \in Publishers : pc'[q] = "next" => rest'[q] /= << >>
           /\ appended' \in [Publishers -> Seq(Placed)]
BY DEF TypeOK, Return

\* What a batch is made of.
LEMMA BatchType ==
    ASSUME NEW p \in Publishers, NEW es \in Batches[p]
    PROVE  Head(es) \in Seq(Byte) /\ Tail(es) \in Seq(Seq(Byte))
<1>1. es \in Seq(Seq(Byte)) /\ es /= << >>
  BY TopicStoreAssumption
<1> QED
  BY <1>1, HeadTailProperties

\* Every step of a publisher keeps the types.
LEMMA PublishType ==
    ASSUME TypeOK, NEW p \in Publishers,
           \/ \E es \in Batches[p] : BeginPublish(p, es)
           \/ Flush(p) \/ GetTopicSize(p)
           \/ PublishStep(p)
           \/ AppendFails(p) \/ SaveFails(p)
    PROVE  TypeOK'
<1> USE DEF TypeOK
<1>0. /\ p \in Publishers \cup Consumers
      /\ file \in Seq(Byte) /\ event[p] \in Seq(Byte) /\ Len(event[p]) \in Nat
  OBVIOUS
<1>1. ASSUME NEW es \in Batches[p], BeginPublish(p, es) PROVE TypeOK'
  <2>1. PICK e \in Seq(Byte), r \in Seq(Seq(Byte)) : e = Head(es) /\ r = Tail(es)
    BY BatchType
  <2>2. chunk' \in [Chunks -> ChunkType(Byte)] /\ faults' \in Nat
    BY <1>0, <1>1, LoadType DEF BeginPublish, GetTopic, Loads
  <2>3. /\ pc' = [pc EXCEPT ![p] = "header"]
        /\ event' = [event EXCEPT ![p] = e] /\ rest' = [rest EXCEPT ![p] = r]
        /\ UNCHANGED <<file, appended, written, consumerVars, stored>>
    BY <1>1, <2>1 DEF BeginPublish
  <2> QED
    BY <2>2, <2>3
<1>2. CASE AppendHeader(p)
  <2>1. EncodeSize(Len(event[p])) \in Seq(Byte)
    BY <1>0, EncodeSizeType
  <2>2. chunk' \in [Chunks -> ChunkType(Byte)]
    BY <1>0, <1>2, <2>1, ThreadChunkType DEF AppendHeader
  <2> QED
    BY <1>2, <2>2 DEF AppendHeader
<1>3. CASE AppendPayload(p)
  <2>1. chunk' \in [Chunks -> ChunkType(Byte)]
    BY <1>0, <1>3, ThreadChunkType DEF AppendPayload
  <2>2. PICK r \in Placed :
           r = [at |-> Len(chunk[chunkOf[p]].data) - HeaderSize, event |-> event[p]]
    <3>1. PICK a \in Int, e \in Seq(Byte) :
             a = Len(chunk[chunkOf[p]].data) - HeaderSize /\ e = event[p]
      <4>1. Len(chunk[chunkOf[p]].data) \in Nat
        BY <1>0, ThreadChunkType
      <4>2. Len(chunk[chunkOf[p]].data) - HeaderSize \in Int
        BY <4>1 DEF HeaderSize
      <4> QED
        BY <1>0, <4>2
    <3> QED
      BY <3>1 DEF Placed
  <2>3. Append(appended[p], r) \in Seq(Placed)
    BY <2>2, AppendProperties
  <2>4. /\ appended' = [appended EXCEPT ![p] = Append(appended[p], r)]
        /\ pc' = [pc EXCEPT ![p] = IF rest[p] = << >> THEN "save" ELSE "next"]
        /\ UNCHANGED <<file, event, rest, written, consumerVars, stored, faults>>
    BY <1>3, <2>2 DEF AppendPayload
  <2>5. appended' \in [Publishers -> Seq(Placed)]
    BY <2>3, <2>4
  <2>6. /\ pc' \in [Publishers -> {"idle", "header", "payload", "next", "save", "saving"}]
        /\ \A q \in Publishers : pc'[q] = "next" => rest'[q] /= << >>
    BY <2>4
  <2> QED
    BY <2>1, <2>4, <2>5, <2>6
<1>4. CASE SaveWhole(p)
  <2>1. chunk' \in [Chunks -> ChunkType(Byte)] /\ file' \in Seq(Byte)
    BY <1>0, <1>4, ThreadChunkType, FileStaysBytes DEF SaveWhole
  <2>2. stored' \in Seq(Placed)
    BY <1>4, <2>1, AcceptType DEF SaveWhole
  <2> QED
    BY <1>4, <2>1, <2>2, ReturnType DEF SaveWhole
<1>5. CASE SaveFirstPart(p)
  <2>1. PICK n \in 1..(Len(Delta(chunk[chunkOf[p]])) - 1) :
           /\ file' = file \o SubSeq(Delta(chunk[chunkOf[p]]), 1, n)
           /\ written' = [written EXCEPT ![p] = n]
    BY <1>5 DEF SaveFirstPart
  <2>2. Len(Delta(chunk[chunkOf[p]])) \in Nat
    BY <1>0, ThreadChunkType
  <2>3. file' \in Seq(Byte) /\ n \in Nat
    <3>1. n \in Int /\ n \in Nat /\ n <= Len(Delta(chunk[chunkOf[p]]))
      BY <2>2
    <3> QED
      BY <2>1, <3>1, FileStaysBytes
  <2> QED
    BY <1>5, <2>1, <2>3 DEF SaveFirstPart
<1>6. CASE SaveRest(p)
  <2>1. chunk' \in [Chunks -> ChunkType(Byte)] /\ file' \in Seq(Byte)
    BY <1>0, <1>6, ThreadChunkType, FileStaysBytes DEF SaveRest
  <2>2. stored' \in Seq(Placed)
    BY <1>6, <2>1, AcceptType DEF SaveRest
  <2> QED
    BY <1>6, <2>1, <2>2, ReturnType DEF SaveRest
<1>7. CASE AppendFails(p)
  <2>1. Return(p) /\ faults' = faults + 1
    BY <1>7 DEF AppendFails, Fault
  <2>2. UNCHANGED <<file, chunk, event, written, consumerVars, stored>>
    BY <1>7 DEF AppendFails
  <2>3. /\ pc' \in [Publishers -> {"idle", "header", "payload", "next", "save", "saving"}]
        /\ rest' \in [Publishers -> Seq(Seq(Byte))]
        /\ \A q \in Publishers : pc'[q] = "next" => rest'[q] /= << >>
        /\ appended' \in [Publishers -> Seq(Placed)]
    BY <2>1, ReturnType
  <2> QED
    BY <2>1, <2>2, <2>3
<1>8. CASE SaveFails(p)
  <2>1. PICK n \in 0..(Len(Delta(chunk[chunkOf[p]])) - 1) :
           file' = file \o SubSeq(Delta(chunk[chunkOf[p]]), 1, n)
    BY <1>8 DEF SaveFails
  <2>2. Len(Delta(chunk[chunkOf[p]])) \in Nat
    BY <1>0, ThreadChunkType
  <2>3. file' \in Seq(Byte)
    <3>1. n \in Int /\ n <= Len(Delta(chunk[chunkOf[p]]))
      BY <2>2
    <3> QED
      BY <2>1, <3>1, FileStaysBytes
  <2>4. chunk' \in [Chunks -> ChunkType(Byte)] /\ stored' \in Seq(Placed)
    <3>1. CASE UNCHANGED <<chunk, stored>>
      BY <3>1
    <3>2. CASE /\ chunk' = [chunk EXCEPT ![chunkOf[p]] = Synced(chunk[chunkOf[p]])]
               /\ Accept(p)
      <4>1. chunk' \in [Chunks -> ChunkType(Byte)]
        BY <1>0, <3>2, ThreadChunkType
      <4>2. stored' \in Seq(Placed)
        BY <2>3, <3>2, AcceptType
      <4> QED
        BY <4>1, <4>2
    <3> QED
      BY <1>8, <3>1, <3>2 DEF SaveFails
  <2>5. faults' \in Nat
    BY <1>8 DEF SaveFails, Fault
  <2>6. Return(p) /\ UNCHANGED <<event, written, consumerVars>>
    BY <1>8 DEF SaveFails
  <2> QED
    BY <2>3, <2>4, <2>5, <2>6, ReturnType
<1>9. CASE NextElement(p)
  <2>1. rest[p] \in Seq(Seq(Byte)) /\ rest[p] /= << >>
    BY <1>9 DEF NextElement
  <2>2. PICK e \in Seq(Byte), r \in Seq(Seq(Byte)) : e = Head(rest[p]) /\ r = Tail(rest[p])
    BY <2>1, HeadTailProperties
  <2>3. /\ pc' = [pc EXCEPT ![p] = "header"]
        /\ event' = [event EXCEPT ![p] = e] /\ rest' = [rest EXCEPT ![p] = r]
        /\ UNCHANGED <<file, chunk, appended, written, consumerVars, stored, faults>>
    BY <1>9, <2>2 DEF NextElement
  <2> QED
    BY <2>3
<1>10. CASE RefuseElement(p)
  BY <1>10, ReturnType DEF RefuseElement
<1>11. CASE Flush(p)
  BY <1>11 DEF Flush
<1>12. CASE GetTopicSize(p)
  <2>1. chunk' \in [Chunks -> ChunkType(Byte)] /\ faults' \in Nat
    BY <1>0, <1>12, LoadType DEF GetTopicSize, Loads
  <2> QED
    BY <1>12, <2>1 DEF GetTopicSize
<1> QED
  BY <1>1, <1>2, <1>3, <1>4, <1>5, <1>6, <1>7, <1>8, <1>9, <1>10, <1>11, <1>12 DEF PublishStep

\* What a header on disk decodes to is a natural number.
LEMMA HeaderValueType ==
    ASSUME TypeOK, NEW c \in Consumers
    PROVE  HeaderValue(c) \in Nat
<1>1. Readable(c) \in Seq(Byte) /\ ReadPointer(c) \in Nat
  BY ThreadChunkType DEF TypeOK, Readable, ReadPointer
<1> QED
  BY <1>1, DecodeSizeType DEF HeaderValue

\* Every step of a consumer keeps the types.
LEMMA ConsumeType ==
    ASSUME TypeOK, NEW c \in Consumers, ConsumeStep(c) \/ ConsumeFails(c)
    PROVE  TypeOK'
<1> USE DEF TypeOK
<1>0. /\ c \in Publishers \cup Consumers
      /\ file \in Seq(Byte) /\ Len(file) \in Nat
      /\ ReadPointer(c) \in Nat /\ packet[c].packet_size \in Nat
      /\ packet[c].offset_in_topic \in Nat
      /\ group[c] \in [read_pointer : Nat, last_read_size : Nat]
      /\ NoPacket \in [packet_size : Nat, offset_in_topic : Nat]
  BY DEF ReadPointer, NoPacket
<1>a. ASSUME NEW bytes \in {file, << >>}, Load(c, bytes)
      PROVE  /\ chunk' \in [Chunks -> ChunkType(Byte)] /\ faults' \in Nat
             /\ Len(bytes) \in Nat
  BY <1>0, <1>a, LoadType
<1>b. Loads(c) => chunk' \in [Chunks -> ChunkType(Byte)] /\ faults' \in Nat
  BY <1>a DEF Loads
<1>1. ASSUME NEW offset \in Positions, Position(c, offset) PROVE TypeOK'
  <2>1. PICK bytes \in {file, << >>} :
           /\ Load(c, bytes)
           /\ group' = [group EXCEPT ![c].read_pointer = ClampedTo(bytes, offset)]
           /\ start' = [start EXCEPT ![c] = ClampedTo(bytes, offset)]
    BY <1>1 DEF Position
  <2>2. PICK n \in Nat : n = ClampedTo(bytes, offset)
    BY <1>a, <2>1, TopicStoreAssumption DEF ClampedTo
  <2>3. chunk' \in [Chunks -> ChunkType(Byte)] /\ faults' \in Nat
    BY <1>a, <2>1
  <2>4. /\ group' \in [Consumers -> [read_pointer : Nat, last_read_size : Nat]]
        /\ start' \in [Consumers -> Nat]
    BY <1>0, <2>1, <2>2
  <2> QED
    BY <1>1, <2>3, <2>4 DEF Position
<1>2. CASE BeginConsume(c)
  BY <1>2, <1>b DEF BeginConsume
<1>3. CASE NothingToRead(c)
  BY <1>3 DEF NothingToRead
<1>4. CASE Reload(c)
  BY <1>4, <1>b DEF Reload
<1>5. CASE ReadHeader(c)
  BY <1>0, <1>5, HeaderValueType DEF ReadHeader
<1>6. CASE NoPacketThere(c)
  BY <1>6 DEF NoPacketThere
<1>7. CASE ReadPayload(c)
  <2>1. Payload(c) \in Seq(Byte)
    <3> DEFINE d == chunk[chunkOf[c]].data
               m == ReadPointer(c) + HeaderSize
               n == packet[c].packet_size
    <3>1. d \in Seq(Byte)
      BY <1>0, ThreadChunkType
    <3>2. m \in Nat /\ n \in Nat
      BY <1>0 DEF HeaderSize
    <3> HIDE DEF d, m, n
    <3>3. m + 1 \in Nat /\ m + 1 >= 1 /\ m + n \in Int /\ Len(d) \in Int
      BY <3>1, <3>2
    <3>4. m + n <= Len(d) => SubSeq(d, m + 1, m + n) \in Seq(Byte)
      BY <3>1, <3>3, SubSeqType
    <3>5. SubSeq(d, m + 1, Len(d)) \in Seq(Byte)
      BY <3>1, <3>3, SubSeqType
    <3>6. << >> \in Seq(Byte)
      OBVIOUS
    <3> QED
      BY <3>4, <3>5, <3>6 DEF Payload, ChunkRead, d, m, n
  <2>2. Append(delivered[c], Payload(c)) \in Seq(Seq(Byte))
    BY <2>1, AppendProperties
  <2>3. group' \in [Consumers -> [read_pointer : Nat, last_read_size : Nat]]
    <3>a. /\ ReadPointer(c) + HeaderSize + packet[c].packet_size \in Nat
          /\ HeaderSize + packet[c].packet_size \in Nat
      BY <1>0 DEF HeaderSize, ReadPointer
    <3>1. PICK to \in Nat, size \in Nat :
             /\ to = ReadPointer(c) + HeaderSize + packet[c].packet_size
             /\ size = HeaderSize + packet[c].packet_size
      BY <3>a, Zenon
    <3>2. group' = [group EXCEPT ![c] = [read_pointer |-> to, last_read_size |-> size]]
      BY <1>7, <3>1 DEF ReadPayload
    <3> QED
      BY <3>2
  <2> QED
    BY <1>7, <2>2, <2>3 DEF ReadPayload
<1>8. CASE PayloadGone(c)
  BY <1>0, <1>8 DEF PayloadGone
<1>9. CASE AckPacket(c)
  <2>1. PacketEnd(c) \in Nat
    BY <1>0 DEF PacketEnd, HeaderSize
  <2>2. PICK bytes \in {file, << >>} :
           /\ Load(c, bytes)
           /\ group' = IF PacketEnd(c) <= Len(bytes) /\ ReadPointer(c) < PacketEnd(c)
                       THEN [group EXCEPT ![c].read_pointer = PacketEnd(c)] ELSE group
    BY <1>9 DEF AckPacket
  <2>3. group' \in [Consumers -> [read_pointer : Nat, last_read_size : Nat]]
    BY <2>1, <2>2
  <2>4. chunk' \in [Chunks -> ChunkType(Byte)] /\ faults' \in Nat
    BY <1>a, <2>2
  <2> QED
    BY <1>0, <1>9, <2>3, <2>4 DEF AckPacket
<1>10. CASE Discard(c)
  BY <1>0, <1>10 DEF Discard
<1>11. CASE ConsumeFails(c)
  BY <1>0, <1>11 DEF ConsumeFails, Fault
<1> QED
  BY <1>1, <1>2, <1>3, <1>4, <1>5, <1>6, <1>7, <1>8, <1>9, <1>10, <1>11 DEF ConsumeStep

\* A consumer changes no Chunk, or loads its own.
LEMMA ConsumerOnlyLoads ==
    ASSUME NEW c \in Consumers, ConsumeStep(c) \/ ConsumeFails(c)
    PROVE  \/ UNCHANGED chunk
           \/ ~Locked(chunkOf[c]) /\ Loads(c)
<1>1. CASE \E offset \in Positions : Position(c, offset)
  BY <1>1 DEF Position, Loads
<1>2. CASE AckPacket(c)
  BY <1>2 DEF AckPacket, Loads
<1>3. CASE BeginConsume(c) \/ Reload(c)
  BY <1>3 DEF BeginConsume, Reload
<1>4. CASE NothingToRead(c) \/ ReadHeader(c) \/ NoPacketThere(c) \/ ReadPayload(c)
           \/ PayloadGone(c) \/ Discard(c) \/ ConsumeFails(c)
  BY <1>4 DEF NothingToRead, ReadHeader, NoPacketThere, ReadPayload, PayloadGone, Discard,
              ConsumeFails
<1> QED
  BY <1>1, <1>2, <1>3, <1>4 DEF ConsumeStep

\* What a load leaves in the Chunks.
LEMMA LoadsLeave ==
    ASSUME TypeOK, NEW t \in Publishers \cup Consumers, Loads(t)
    PROVE  /\ \A k \in Chunks : k /= chunkOf[t] => chunk'[k] = chunk[k]
           /\ chunk'[chunkOf[t]] \in {ChunkLoad(file), ChunkLoad(<< >>)}
           /\ chunk'[chunkOf[t]] \in ChunkType(Byte)
           /\ chunk'[chunkOf[t]].persisted_size \in Nat
           /\ Len(chunk'[chunkOf[t]].data) = chunk'[chunkOf[t]].persisted_size
           /\ faults' \in {faults, faults + 1}
<1>1. PICK bytes \in {file, << >>} : Load(t, bytes)
  BY DEF Loads
<1>2. /\ bytes \in Seq(Byte) /\ Len(bytes) \in Nat
      /\ chunk'[chunkOf[t]] = ChunkLoad(bytes)
      /\ \A k \in Chunks : k /= chunkOf[t] => chunk'[k] = chunk[k]
  BY <1>1, LoadType
<1>3. faults' \in {faults, faults + 1}
  BY <1>1 DEF Load, Fault
<1>4. chunk'[chunkOf[t]] \in {ChunkLoad(file), ChunkLoad(<< >>)}
  BY <1>2
<1>5. /\ ChunkLoad(bytes) \in ChunkType(Byte)
      /\ ChunkLoad(bytes).persisted_size = Len(bytes) /\ ChunkLoad(bytes).data = bytes
  BY <1>2 DEF ChunkLoad, ChunkType
<1> QED
  BY <1>2, <1>3, <1>4, <1>5

\* A consumer's step loads its own Chunk or none.
LEMMA ConsumerLoads ==
    ASSUME TypeOK, NEW c \in Consumers, ConsumeStep(c) \/ ConsumeFails(c)
    PROVE  /\ \A k \in Chunks : k /= chunkOf[c] => chunk'[k] = chunk[k]
           /\ \A k \in Chunks :
                 chunk'[k] \in {chunk[k], ChunkLoad(file), ChunkLoad(<< >>)}
<1>1. CASE UNCHANGED chunk
  BY <1>1
<1>2. CASE Loads(c)
  <2>1. /\ \A k \in Chunks : k /= chunkOf[c] => chunk'[k] = chunk[k]
        /\ chunk'[chunkOf[c]] \in {ChunkLoad(file), ChunkLoad(<< >>)}
    BY <1>2, LoadsLeave
  <2> QED
    BY <2>1
<1> QED
  BY <1>1, <1>2, ConsumerOnlyLoads

\* So does a restart.
LEMMA RestartType == TypeOK /\ Restart => TypeOK'
<1> SUFFICES ASSUME TypeOK, Restart PROVE TypeOK'
  OBVIOUS
<1>1. /\ << >> \in Seq(Byte) /\ << >> \in Seq(Seq(Byte))
      /\ << >> \in Seq(Placed)
  OBVIOUS
<1>2. ChunkLoad(file) \in ChunkType(Byte)
  BY DEF ChunkLoad, ChunkType, TypeOK
<1> QED
  BY <1>1, <1>2 DEF Restart, Fault, TypeOK, NewGroup, NoPacket

\* So does every step of the specification.
LEMMA NextType == TypeOK /\ [Next]_vars => TypeOK'
<1> SUFFICES ASSUME TypeOK, [Next]_vars PROVE TypeOK'
  OBVIOUS
<1>1. ASSUME NEW p \in Publishers,
             \/ \E es \in Batches[p] : BeginPublish(p, es)
             \/ Flush(p) \/ GetTopicSize(p)
             \/ PublishStep(p)
             \/ AppendFails(p) \/ SaveFails(p)
      PROVE  TypeOK'
  BY <1>1, PublishType
<1>2. ASSUME NEW c \in Consumers, ConsumeStep(c) \/ ConsumeFails(c) PROVE TypeOK'
  BY <1>2, ConsumeType
<1>3. CASE Restart
  BY <1>3, RestartType
<1>4. CASE UNCHANGED vars
  BY <1>4 DEF TypeOK, vars
<1> QED
  BY <1>1, <1>2, <1>3, <1>4 DEF Next

\* Every variable always has its type, for any threads, chunks, events and faults.
THEOREM TypeCorrect == Spec => []TypeOK
<1>1. Init => TypeOK
  BY InitType
<1>2. TypeOK /\ [Next]_vars => TypeOK'
  BY NextType
<1> QED
  BY <1>1, <1>2, PTL DEF Spec

-----------------------------------------------------------------------------
(* Durability *)

\* No Chunk a publisher uses is used by another thread.
PrivateChunks ==
    /\ \A p, q \in Publishers : chunkOf[p] = chunkOf[q] => p = q
    /\ \A p \in Publishers, c \in Consumers : chunkOf[p] /= chunkOf[c]

\* When a delta can reach the file in pieces there is one publisher.
SplitsHaveOneWriter == SplitWrites => \A p, q \in Publishers : p = q

\* A record of the history has an offset and an event.
LEMMA StoredType ==
    ASSUME TypeOK, NEW i \in 1..Len(stored)
    PROVE  stored[i].at \in Int /\ stored[i].event \in Seq(Byte)
<1>1. stored \in Seq(Placed)
  BY DEF TypeOK
<1>2. \A r \in Placed : r.at \in Int /\ r.event \in Seq(Byte)
  BY DEF Placed
<1>3. stored[i] \in Placed
  BY <1>1
<1> QED
  BY <1>2, <1>3

\* Durable survives a longer file, and a new record whose frame the file holds.
LEMMA DurableExtended ==
    ASSUME TypeOK, Durable, NEW t \in Seq(Byte), file' = file \o t, stored' = stored
    PROVE  Durable'
<1>1. ASSUME NEW i \in 1..Len(stored)
      PROVE  HoldsAt(file \o t, stored[i].at, Frame(stored[i].event))
  <2>1. stored[i].at \in Int /\ stored[i].event \in Seq(Byte) /\ file \in Seq(Byte)
    BY StoredType DEF TypeOK
  <2>2. Frame(stored[i].event) \in Seq(Byte)
    BY <2>1, FrameType
  <2> QED
    BY <2>1, <2>2, HoldsAtExtended DEF Durable
<1> QED
  BY <1>1 DEF Durable

\* Durable survives an accepted publish whose frames the file now holds where they landed.
LEMMA DurableAccepted ==
    ASSUME TypeOK, Durable, NEW p \in Publishers, NEW t \in Seq(Byte), file' = file \o t,
           Accept(p),
           \A i \in 1..Len(appended[p]) :
              HoldsAt(file', appended[p][i].at + (Len(file') - Len(chunk[chunkOf[p]].data)),
                      Frame(appended[p][i].event))
    PROVE  Durable'
<1>1. file' \in Seq(Byte)
  BY ConcatProperties DEF TypeOK
<1>2. /\ Landed(p) \in Seq(Placed) /\ Len(Landed(p)) = Len(appended[p])
      /\ \A i \in 1..Len(appended[p]) :
            HoldsAt(file', Landed(p)[i].at, Frame(Landed(p)[i].event))
  BY <1>1, LandedType
<1>3. stored \in Seq(Placed) /\ stored' = stored \o Landed(p)
  BY DEF TypeOK, Accept
<1>4. /\ Len(stored') = Len(stored) + Len(Landed(p))
      /\ \A i \in 1..(Len(stored) + Len(Landed(p))) :
            stored'[i] = IF i <= Len(stored) THEN stored[i] ELSE Landed(p)[i - Len(stored)]
  BY <1>2, <1>3, ConcatProperties
<1>5. Len(stored) \in Nat /\ Len(Landed(p)) \in Nat
  BY <1>2, <1>3
<1>7. ASSUME NEW i \in 1..Len(stored)
      PROVE  HoldsAt(file', stored[i].at, Frame(stored[i].event))
  <2>1. stored[i].at \in Int /\ stored[i].event \in Seq(Byte) /\ file \in Seq(Byte)
    BY StoredType DEF TypeOK
  <2>2. Frame(stored[i].event) \in Seq(Byte)
    BY <2>1, FrameType
  <2> QED
    BY <2>1, <2>2, HoldsAtExtended DEF Durable
<1>8. ASSUME NEW i \in 1..Len(stored')
      PROVE  HoldsAt(file', stored'[i].at, Frame(stored'[i].event))
  <2>1. CASE i <= Len(stored)
    <3>1. i \in 1..Len(stored) /\ stored'[i] = stored[i]
      BY <1>4, <1>5, <2>1
    <3> QED
      BY <1>7, <3>1
  <2>2. CASE ~(i <= Len(stored))
    <3>1. PICK j \in 1..Len(Landed(p)) : j = i - Len(stored)
      BY <1>4, <1>5, <2>2
    <3>2. stored'[i] = Landed(p)[j]
      BY <1>4, <2>2, <3>1
    <3> QED
      BY <1>2, <3>1, <3>2
  <2> QED
    BY <2>1, <2>2
<1> QED
  BY <1>8 DEF Durable

\* A step that leaves a publisher and its Chunk alone, and the file too while that
\* publisher saves, leaves its publish in progress.
LEMMA InProgressUndisturbed ==
    ASSUME NEW p \in Publishers, PublishInProgress(p),
           chunk'[chunkOf[p]] = chunk[chunkOf[p]], pc'[p] = pc[p], event'[p] = event[p],
           appended'[p] = appended[p], written'[p] = written[p],
           pc[p] = "saving" => file' = file
    PROVE  PublishInProgress(p)'
BY DEF PublishInProgress

\* Data that ends with a header ends with the frame once the event is appended.
LEMMA FrameComplete ==
    ASSUME NEW s \in Seq(Byte), NEW e \in Seq(Byte), Len(s) >= HeaderSize,
           HoldsAt(s, Len(s) - HeaderSize, EncodeSize(Len(e)))
    PROVE  HoldsAt(s \o e, Len(s \o e) - (HeaderSize + Len(e)), Frame(e))
<1>1. HeaderSize \in Nat /\ Len(s) \in Nat /\ Len(e) \in Nat
  BY DEF HeaderSize
<1>2. PICK h \in Seq(Byte) : h = EncodeSize(Len(e)) /\ Len(h) = HeaderSize
  BY <1>1, EncodeSizeType
<1>3. PICK at \in Nat : at = Len(s) - HeaderSize
  BY <1>1
<1>4. PICK n \in Nat : n = HeaderSize + Len(e)
  BY <1>1
<1>5. /\ Len(s \o e) = Len(s) + Len(e)
      /\ \A i \in 1..(Len(s) + Len(e)) : (s \o e)[i] = IF i <= Len(s) THEN s[i] ELSE e[i - Len(s)]
  BY ConcatProperties
<1>6. /\ Len(Frame(e)) = n
      /\ \A i \in 1..n : Frame(e)[i] = IF i <= HeaderSize THEN h[i] ELSE e[i - HeaderSize]
  BY <1>2, <1>4, ConcatProperties DEF Frame
<1>7. \A i \in 1..HeaderSize : s[at + i] = h[i]
  BY <1>2, <1>3 DEF HoldsAt
<1>8. ASSUME NEW i \in 1..n PROVE (s \o e)[at + i] = Frame(e)[i]
  <2>1. CASE i <= HeaderSize
    <3>1. at + i \in 1..(Len(s) + Len(e)) /\ at + i <= Len(s) /\ i \in 1..HeaderSize
      BY <1>1, <1>3, <2>1
    <3> QED
      BY <1>5, <1>6, <1>7, <2>1, <3>1
  <2>2. CASE ~(i <= HeaderSize)
    <3>1. at + i \in 1..(Len(s) + Len(e)) /\ ~(at + i <= Len(s))
      BY <1>1, <1>3, <1>4, <2>2
    <3>2. (s \o e)[at + i] = e[at + i - Len(s)]
      BY <1>5, <3>1
    <3>3. Frame(e)[i] = e[i - HeaderSize]
      BY <1>6, <2>2
    <3>4. at + i - Len(s) = i - HeaderSize
      BY <1>1, <1>3
    <3> QED
      BY <3>2, <3>3, <3>4
  <2> QED
    BY <2>1, <2>2
<1>9. Len(s \o e) - (HeaderSize + Len(e)) = at /\ at + n <= Len(s \o e)
  BY <1>1, <1>3, <1>4, <1>5
<1>10. HoldsAt(s \o e, at, Frame(e))
  BY <1>6, <1>8, <1>9 DEF HoldsAt
<1> QED
  BY <1>9, <1>10

\* A publisher's step on its own Chunk leaves every other publish in progress.
LEMMA OthersInProgress ==
    ASSUME PrivateChunks, SplitsHaveOneWriter, NEW p \in Publishers, NEW q \in Publishers,
           q /= p, PublishInProgress(q), TypeOK,
           chunk'[chunkOf[q]] = chunk[chunkOf[q]],
           pc'[q] = pc[q], event'[q] = event[q], appended'[q] = appended[q],
           written'[q] = written[q]
    PROVE  PublishInProgress(q)'
<1>1. pc[q] /= "saving"
  BY DEF PublishInProgress, SplitsHaveOneWriter
<1> QED
  BY <1>1, InProgressUndisturbed

\* A publisher whose call is over has nothing in progress.
LEMMA IdleInProgress ==
    ASSUME NEW p \in Publishers, pc'[p] = "idle", appended'[p] = << >>,
           Len(chunk'[chunkOf[p]].data) - chunk'[chunkOf[p]].persisted_size >= 0
    PROVE  PublishInProgress(p)'
BY DEF PublishInProgress

\* At the start nothing is stored and nobody publishes.
LEMMA InitDurable == Init => DurableInv
<1> SUFFICES ASSUME Init PROVE DurableInv
  OBVIOUS
<1>1. TypeOK
  BY InitType
<1>2. Durable
  BY DEF Init, Durable
<1>3. ASSUME NEW p \in Publishers PROVE PublishInProgress(p)
  <2>1. chunk[chunkOf[p]] = ChunkLoad(Prologue) /\ pc[p] = "idle" /\ appended[p] = << >>
    BY TopicStoreAssumption DEF Init
  <2>2. Len(Prologue) \in Nat
    BY DEF Prologue
  <2> QED
    BY <2>1, <2>2 DEF PublishInProgress, ChunkLoad
<1> QED
  BY <1>1, <1>2, <1>3 DEF DurableInv

\* The actions of a publisher.
LEMMA PublishDurable ==
    ASSUME PrivateChunks, SplitsHaveOneWriter, "lost" \notin Faults, DurableInv,
           NEW p \in Publishers,
           \/ \E es \in Batches[p] : BeginPublish(p, es)
           \/ Flush(p) \/ GetTopicSize(p)
           \/ PublishStep(p)
           \/ AppendFails(p) \/ SaveFails(p)
    PROVE  DurableInv'
<1>0. /\ TypeOK /\ Durable /\ PublishInProgress(p)
      /\ chunkOf[p] \in Chunks /\ DOMAIN chunk = Chunks
      /\ DOMAIN pc = Publishers /\ DOMAIN event = Publishers /\ DOMAIN written = Publishers
      /\ DOMAIN appended = Publishers
      /\ file \in Seq(Byte) /\ Len(file) \in Nat
      /\ HeaderSize \in Nat
  <2>1. TypeOK /\ Durable /\ PublishInProgress(p)
    BY DEF DurableInv
  <2>2. chunkOf[p] \in Chunks
    BY <2>1, ThreadChunkType
  <2>3. /\ DOMAIN chunk = Chunks
        /\ DOMAIN pc = Publishers /\ DOMAIN event = Publishers /\ DOMAIN written = Publishers
        /\ DOMAIN appended = Publishers
        /\ file \in Seq(Byte)
    BY <2>1 DEF TypeOK
  <2> QED
    BY <2>1, <2>2, <2>3 DEF HeaderSize
<1>a. /\ chunk[chunkOf[p]] \in ChunkType(Byte)
      /\ chunk[chunkOf[p]].data \in Seq(Byte)
      /\ chunk[chunkOf[p]].persisted_size \in Nat
  BY <1>0, ThreadChunkType
<1>b. Len(chunk[chunkOf[p]].data) - chunk[chunkOf[p]].persisted_size \in Nat
  BY <1>0, <1>a DEF PublishInProgress
<1>c. PICK k \in ChunkType(Byte) : k = chunk[chunkOf[p]]
  BY <1>a
<1>d. PICK d \in Seq(Byte), n \in Nat, u \in Nat :
         d = k.data /\ n = k.persisted_size /\ u = Len(d) - n
  BY <1>a, <1>b, <1>c
<1>e. PICK e \in Seq(Byte) : e = event[p]
  BY <1>0 DEF TypeOK
<1>f. Len(d) \in Nat /\ n + u = Len(d) /\ Len(e) \in Nat
  BY <1>d
<1>g. /\ Delta(k) \in Seq(Byte) /\ Len(Delta(k)) = u
      /\ \A i \in 1..u : Delta(k)[i] = d[n + i]
  BY <1>d, <1>f, DeltaType
<1>1. TypeOK'
  BY <1>0, PublishType
\* The frames of the call are among the unsaved bytes; they stay there when the Chunk grows,
\* and a file that ends with the delta holds them.
<1>j. ASSUME NEW i \in 1..Len(appended[p])
      PROVE  /\ appended[p][i].at \in Int /\ appended[p][i].at >= n
             /\ Frame(appended[p][i].event) \in Seq(Byte)
             /\ HoldsAt(d, appended[p][i].at, Frame(appended[p][i].event))
  <2>1. appended[p][i].at \in Int /\ Frame(appended[p][i].event) \in Seq(Byte)
    BY <1>0, AppendedType, FrameType
  <2>2. appended[p][i].at >= n /\ HoldsAt(d, appended[p][i].at, Frame(appended[p][i].event))
    BY <1>0, <1>c, <1>d DEF PublishInProgress
  <2> QED
    BY <2>1, <2>2
<1>k. ASSUME NEW t \in Seq(Byte), NEW i \in 1..Len(appended[p])
      PROVE  HoldsAt(d \o t, appended[p][i].at, Frame(appended[p][i].event))
  BY <1>j, HoldsAtExtended
<1>h. ASSUME NEW g \in Seq(Byte), Len(g) >= u, \A i \in 1..u : g[Len(g) - u + i] = d[n + i]
      PROVE  \A i \in 1..Len(appended[p]) :
                HoldsAt(g, appended[p][i].at + (Len(g) - Len(chunk[chunkOf[p]].data)),
                        Frame(appended[p][i].event))
  <2>1. ASSUME NEW i \in 1..Len(appended[p])
        PROVE  HoldsAt(g, appended[p][i].at + (Len(g) - Len(d)), Frame(appended[p][i].event))
    <3>1. PICK a \in Int, b \in Seq(Byte) :
             /\ a = appended[p][i].at /\ b = Frame(appended[p][i].event)
             /\ a >= n /\ HoldsAt(d, a, b)
      BY <1>j
    <3>2. HoldsAt(g, a + (Len(g) - Len(d)), b)
      BY <1>f, <1>h, <3>1, HoldsAtMoved
    <3> QED
      BY <3>1, <3>2
  <2> QED
    BY <1>c, <1>d, <2>1
<1>2. ASSUME NEW q \in Publishers, q /= p PROVE PublishInProgress(q)'
  <2>1. chunkOf[q] /= chunkOf[p]
    BY <1>2 DEF PrivateChunks
  <2>2. /\ chunk'[chunkOf[q]] = chunk[chunkOf[q]]
        /\ pc'[q] = pc[q] /\ event'[q] = event[q] /\ appended'[q] = appended[q]
        /\ written'[q] = written[q]
    <3>1. chunkOf[q] \in Chunks
      BY <1>0, ThreadChunkType
    <3>2. CASE \/ \E es \in Batches[p] : BeginPublish(p, es)
               \/ Flush(p) \/ GetTopicSize(p)
      <4>1. UNCHANGED chunk \/ \E bytes \in {file, << >>} : Load(p, bytes)
        BY <3>2 DEF BeginPublish, GetTopic, Loads, Flush, GetTopicSize
      <4>2. chunk'[chunkOf[q]] = chunk[chunkOf[q]]
        BY <1>0, <2>1, <3>1, <4>1, LoadType
      <4> QED
        BY <1>0, <1>2, <3>2, <4>2 DEF BeginPublish, Flush, GetTopicSize
    <3>3. CASE AppendHeader(p) \/ AppendPayload(p) \/ AppendFails(p)
      BY <1>0, <1>2, <2>1, <3>1, <3>3 DEF AppendHeader, AppendPayload, AppendFails, Return
    <3>4. CASE NextElement(p) \/ RefuseElement(p)
      BY <1>0, <1>2, <2>1, <3>1, <3>4 DEF NextElement, RefuseElement, Return
    <3>5. CASE SaveWhole(p) \/ SaveFirstPart(p) \/ SaveRest(p) \/ SaveFails(p)
      BY <1>0, <1>2, <2>1, <3>1, <3>5 DEF SaveWhole, SaveFirstPart, SaveRest, SaveFails, Return
    <3> QED
      BY <3>2, <3>3, <3>4, <3>5 DEF PublishStep
  <2>3. PublishInProgress(q)
    BY DEF DurableInv
  <2> QED
    BY <1>0, <1>2, <2>2, <2>3, OthersInProgress
<1>3. ASSUME NEW es \in Batches[p], BeginPublish(p, es) PROVE Durable' /\ PublishInProgress(p)'
  <2>1. Durable'
    BY <1>0, <1>3 DEF BeginPublish, Durable
  <2>2. /\ pc[p] = "idle" /\ pc'[p] = "header" /\ appended'[p] = appended[p]
    BY <1>0, <1>3, <1>c DEF BeginPublish
  <2>3. Len(chunk'[chunkOf[p]].data) - chunk'[chunkOf[p]].persisted_size >= 0
    <3>1. CASE UNCHANGED chunk
      BY <1>b, <3>1
    <3>2. CASE Loads(p)
      <4>1. PICK bytes \in {file, << >>} : Load(p, bytes)
        BY <3>2 DEF Loads
      <4> QED
        BY <1>0, <4>1, LoadType DEF ChunkLoad
    <3> QED
      BY <1>3, <3>1, <3>2 DEF BeginPublish, GetTopic
  <2>4. appended'[p] = << >>
    BY <1>0, <2>2 DEF PublishInProgress
  <2> QED
    BY <2>1, <2>2, <2>3, <2>4 DEF PublishInProgress
<1>4. ASSUME AppendHeader(p) PROVE Durable' /\ PublishInProgress(p)'
  <2>1. PICK h \in Seq(Byte) : h = EncodeSize(Len(e)) /\ Len(h) = HeaderSize
    BY <1>f, EncodeSizeType
  <2>2. Durable'
    BY <1>0, <1>4 DEF AppendHeader, Durable
  <2>3. /\ pc'[p] = "payload" /\ event'[p] = e /\ appended'[p] = appended[p]
        /\ chunk'[chunkOf[p]].data = d \o h
        /\ chunk'[chunkOf[p]].persisted_size = n
    BY <1>0, <1>4, <1>c, <1>d, <1>e, <2>1 DEF AppendHeader, ChunkAppend, ChunkType
  <2>4. HoldsAt(d \o h, Len(d \o h) - HeaderSize, h) /\ Len(d \o h) = Len(d) + HeaderSize
    BY <2>1, HoldsAtEnd, ConcatProperties
  <2>5. Len(d \o h) - n >= HeaderSize /\ Len(d \o h) - n >= 0
    BY <1>0, <1>f, <2>4
  <2>6. \A i \in 1..Len(appended[p]) :
           /\ appended[p][i].at >= n
           /\ HoldsAt(d \o h, appended[p][i].at, Frame(appended[p][i].event))
    BY <1>j, <1>k
  <2> QED
    BY <2>1, <2>2, <2>3, <2>4, <2>5, <2>6 DEF PublishInProgress
<1>5. ASSUME AppendPayload(p) PROVE Durable' /\ PublishInProgress(p)'
  <2>1. Durable'
    BY <1>0, <1>5 DEF AppendPayload, Durable
  <2>2. PICK r : r = [at |-> Len(d) - HeaderSize, event |-> e]
    OBVIOUS
  <2>3. /\ pc[p] = "payload" /\ pc'[p] \in {"save", "next"}
        /\ chunk'[chunkOf[p]].data = d \o e
        /\ chunk'[chunkOf[p]].persisted_size = n
    BY <1>0, <1>5, <1>c, <1>d, <1>e DEF AppendPayload, ChunkAppend, ChunkType
  <2>4. appended'[p] = Append(appended[p], r)
    BY <1>0, <1>5, <1>c, <1>d, <1>e, <2>2 DEF AppendPayload
  <2>5. u >= HeaderSize /\ HoldsAt(d, Len(d) - HeaderSize, EncodeSize(Len(e)))
    BY <1>0, <1>c, <1>d, <1>e, <2>3 DEF PublishInProgress
  <2>6. Len(d \o e) = Len(d) + Len(e) /\ Len(d) >= HeaderSize
    BY <1>0, <1>f, <2>5, ConcatProperties
  <2>7. Len(d \o e) - (HeaderSize + Len(e)) = Len(d) - HeaderSize
    BY <1>0, <1>f, <2>6
  <2>8. r.at >= n /\ r.event = e /\ HoldsAt(d \o e, r.at, Frame(r.event))
    <3>1. HoldsAt(d \o e, Len(d) - HeaderSize, Frame(e))
      BY <2>5, <2>6, <2>7, FrameComplete
    <3>2. r.at = Len(d) - HeaderSize /\ r.event = e
      BY <2>2
    <3>3. Len(d) - HeaderSize >= n
      BY <1>0, <1>f, <2>5
    <3> QED
      BY <3>1, <3>2, <3>3
  <2>9. Len(d \o e) - n >= 0
    BY <1>0, <1>f, <2>6
  <2>10. \A i \in 1..Len(appended'[p]) :
            /\ appended'[p][i].at >= n
            /\ HoldsAt(d \o e, appended'[p][i].at, Frame(appended'[p][i].event))
    <3>1. appended[p] \in Seq(Placed) /\ Len(appended[p]) \in Nat
      BY <1>0 DEF TypeOK
    <3>2. /\ Len(appended'[p]) = Len(appended[p]) + 1
          /\ appended'[p][Len(appended[p]) + 1] = r
          /\ \A i \in 1..Len(appended[p]) : appended'[p][i] = appended[p][i]
      BY <2>4, <3>1
    <3>3. ASSUME NEW i \in 1..Len(appended'[p])
          PROVE  i \in 1..Len(appended[p]) \/ i = Len(appended[p]) + 1
      BY <3>1, <3>2
    <3>4. ASSUME NEW i \in 1..Len(appended[p])
          PROVE  /\ appended'[p][i].at >= n
                 /\ HoldsAt(d \o e, appended'[p][i].at, Frame(appended'[p][i].event))
      BY <1>j, <1>k, <3>2
    <3> QED
      BY <2>8, <3>2, <3>3, <3>4
  <2> QED
    BY <2>1, <2>3, <2>9, <2>10 DEF PublishInProgress
\* A save that ends the call: the Chunk is synced and the publisher idle.
<1>i. ASSUME pc'[p] = "idle", appended'[p] = << >>, chunk'[chunkOf[p]] = Synced(k)
      PROVE  PublishInProgress(p)'
  <2>1. chunk'[chunkOf[p]].data = d /\ chunk'[chunkOf[p]].persisted_size = Len(d)
    BY <1>d, <1>i DEF Synced, ChunkType
  <2> QED
    BY <1>f, <1>i, <2>1, IdleInProgress
<1>6. ASSUME SaveWhole(p) PROVE Durable' /\ PublishInProgress(p)'
  <2>1. /\ pc'[p] = "idle" /\ appended'[p] = << >> /\ chunk'[chunkOf[p]] = Synced(k)
        /\ file' = file \o Delta(k) /\ Accept(p)
    BY <1>0, <1>6, <1>c DEF SaveWhole, Return
  <2>2. /\ file' \in Seq(Byte) /\ Len(file') = Len(file) + u
        /\ \A i \in 1..(Len(file) + u) :
              file'[i] = IF i <= Len(file) THEN file[i] ELSE Delta(k)[i - Len(file)]
    BY <1>0, <1>g, <2>1, ConcatProperties
  <2>3. \A i \in 1..u : file'[Len(file') - u + i] = d[n + i]
    <3>1. ASSUME NEW i \in 1..u PROVE file'[Len(file') - u + i] = d[n + i]
      <4>1. /\ Len(file') - u + i = Len(file) + i /\ Len(file) + i \in 1..(Len(file) + u)
            /\ ~(Len(file) + i <= Len(file)) /\ Len(file) + i - Len(file) = i
        BY <1>0, <2>2
      <4>2. file'[Len(file) + i] = Delta(k)[i]
        BY <2>2, <4>1
      <4> QED
        BY <1>g, <4>1, <4>2
    <3> QED
      BY <3>1
  <2>4. \A i \in 1..Len(appended[p]) :
           HoldsAt(file', appended[p][i].at + (Len(file') - Len(chunk[chunkOf[p]].data)),
                   Frame(appended[p][i].event))
    <3>1. Len(file') >= u
      BY <1>0, <2>2
    <3> QED
      BY <1>h, <2>2, <2>3, <3>1
  <2>5. Durable'
    BY <1>0, <1>g, <2>1, <2>4, DurableAccepted
  <2> QED
    BY <1>i, <2>1, <2>5
<1>7. ASSUME SaveFirstPart(p) PROVE Durable' /\ PublishInProgress(p)'
  <2>1. /\ pc[p] = "save" /\ pc'[p] = "saving" /\ SplitWrites
        /\ chunk' = chunk /\ event' = event /\ appended' = appended /\ stored' = stored
    BY <1>0, <1>7 DEF SaveFirstPart
  <2>2. PICK m \in 1..(u - 1) : file' = file \o SubSeq(Delta(k), 1, m) /\ written'[p] = m
    BY <1>0, <1>7, <1>c, <1>g DEF SaveFirstPart
  <2>3. PICK t \in Seq(Byte) : /\ t = SubSeq(Delta(k), 1, m) /\ Len(t) = m
                               /\ \A i \in 1..m : t[i] = d[n + i]
    <3>1. 1 \in Nat /\ 1 >= 1 /\ m \in Int /\ m <= Len(Delta(k)) /\ 1 <= m
      BY <1>g
    <3>2. /\ SubSeq(Delta(k), 1, m) \in Seq(Byte)
          /\ Len(SubSeq(Delta(k), 1, m)) = IF 1 <= m THEN m - 1 + 1 ELSE 0
          /\ \A i \in 1..(m - 1 + 1) : SubSeq(Delta(k), 1, m)[i] = Delta(k)[1 + i - 1]
      BY <1>g, <3>1, SubSeqType
    <3>3. \A i \in 1..m : 1 + i - 1 = i /\ i \in 1..(m - 1 + 1) /\ i \in 1..u
      BY <1>f
    <3>4. Len(SubSeq(Delta(k), 1, m)) = m
      BY <3>1, <3>2
    <3>5. \A i \in 1..m : SubSeq(Delta(k), 1, m)[i] = d[n + i]
      BY <1>g, <3>2, <3>3
    <3> QED
      BY <3>2, <3>4, <3>5
  <2>4. /\ Len(file') = Len(file) + m /\ m \in Nat /\ m < u
        /\ \A i \in 1..(Len(file) + m) :
              file'[i] = IF i <= Len(file) THEN file[i] ELSE t[i - Len(file)]
    BY <1>0, <2>2, <2>3, ConcatProperties
  <2>5. Durable'
    BY <1>0, <2>1, <2>2, <2>3, DurableExtended
  <2>6. ASSUME NEW i \in 1..m PROVE file'[Len(file') - m + i] = d[n + i]
    <3>1. /\ Len(file') - m + i = Len(file) + i /\ Len(file) + i \in 1..(Len(file) + m)
          /\ ~(Len(file) + i <= Len(file)) /\ Len(file) + i - Len(file) = i
      BY <1>0, <2>4
    <3>2. file'[Len(file) + i] = t[i]
      BY <2>4, <3>1
    <3> QED
      BY <2>3, <3>1, <3>2
  <2>7. m <= Len(file')
    BY <1>0, <2>4
  <2>8. \A i \in 1..Len(appended[p]) :
           /\ appended[p][i].at >= n
           /\ HoldsAt(d, appended[p][i].at, Frame(appended[p][i].event))
    BY <1>j
  <2>9. /\ chunk'[chunkOf[p]].data = d /\ chunk'[chunkOf[p]].persisted_size = n
    BY <1>c, <1>d, <2>1
  <2>10. Len(d) - n = u /\ u >= 0
    BY <1>d
  <2>11. written'[p] = m /\ m < u
    BY <2>2, <2>4
  <2> QED
    BY <2>1, <2>5, <2>6, <2>7, <2>8, <2>9, <2>10, <2>11 DEF PublishInProgress
<1>8. ASSUME SaveRest(p) PROVE Durable' /\ PublishInProgress(p)'
  <2>1. /\ pc[p] = "saving" /\ pc'[p] = "idle" /\ appended'[p] = << >>
        /\ chunk'[chunkOf[p]] = Synced(k)
        /\ file' = file \o Rest(p, written[p]) /\ Accept(p)
    BY <1>0, <1>8, <1>c DEF SaveRest, Return
  <2>2. PICK w \in Nat : /\ w = written[p] /\ w < u /\ w <= Len(file)
                         /\ \A i \in 1..w : file[Len(file) - w + i] = d[n + i]
    BY <1>0, <1>c, <1>d, <2>1 DEF PublishInProgress, TypeOK
  <2>3. PICK t \in Seq(Byte) : /\ t = Rest(p, w) /\ Len(t) = u - w
                               /\ \A i \in 1..(u - w) : t[i] = d[n + w + i]
    <3>1. /\ SubSeq(Delta(k), w + 1, u) \in Seq(Byte)
          /\ Len(SubSeq(Delta(k), w + 1, u)) = IF w <= u THEN u - w ELSE 0
          /\ \A i \in 1..(u - w) : SubSeq(Delta(k), w + 1, u)[i] = Delta(k)[w + i]
      BY <1>g, TailType
    <3>2. Rest(p, w) = SubSeq(Delta(k), w + 1, u)
      BY <1>c, <1>g DEF Rest
    <3>3. \A i \in 1..(u - w) : w + i \in 1..u /\ n + (w + i) = n + w + i
      OBVIOUS
    <3>4. \A i \in 1..(u - w) : Delta(k)[w + i] = d[n + w + i]
      BY <1>g, <3>3
    <3>5. Len(SubSeq(Delta(k), w + 1, u)) = u - w
      BY <2>2, <3>1
    <3>6. \A i \in 1..(u - w) : SubSeq(Delta(k), w + 1, u)[i] = d[n + w + i]
      BY <3>1, <3>4
    <3> QED
      BY <3>1, <3>2, <3>5, <3>6
  <2>4. /\ file' \in Seq(Byte) /\ Len(file') = Len(file) + (u - w)
        /\ \A i \in 1..(Len(file) + (u - w)) :
              file'[i] = IF i <= Len(file) THEN file[i] ELSE t[i - Len(file)]
    <3>1. file' = file \o t
      BY <2>1, <2>2, <2>3
    <3>2. /\ file \o t \in Seq(Byte) /\ Len(file \o t) = Len(file) + Len(t)
          /\ \A i \in 1..(Len(file) + Len(t)) :
                (file \o t)[i] = IF i <= Len(file) THEN file[i] ELSE t[i - Len(file)]
      BY <1>0, ConcatProperties
    <3> QED
      BY <2>3, <3>1, <3>2
  <2>5. ASSUME NEW i \in 1..u PROVE file'[Len(file') - u + i] = d[n + i]
    <3>0. Len(file) - w + i \in Int /\ i \in Int
      BY <1>0
    <3>1. PICK j \in Int : j = Len(file) - w + i
      BY <3>0
    <3>2. Len(file') - u + i = j
      BY <1>0, <2>4, <3>1
    <3>3. CASE i <= w
      <4>1. j \in 1..(Len(file) + (u - w)) /\ j <= Len(file) /\ i \in 1..w
        BY <1>0, <2>2, <3>1, <3>3
      <4>2. file'[j] = file[j]
        BY <2>4, <4>1
      <4> QED
        BY <2>2, <3>1, <3>2, <4>1, <4>2
    <3>4. CASE ~(i <= w)
      <4>1. j \in 1..(Len(file) + (u - w)) /\ ~(j <= Len(file))
        BY <1>0, <2>2, <3>1, <3>4
      <4>2. j - Len(file) = i - w
        BY <1>0, <3>0, <3>1
      <4>5. i - w \in 1..(u - w)
        BY <3>0, <3>4
      <4>6. n + w + (i - w) = n + i
        BY <3>0
      <4>3. file'[j] = t[j - Len(file)]
        BY <2>4, <4>1
      <4>4. t[i - w] = d[n + w + (i - w)]
        BY <2>3, <4>5
      <4> QED
        BY <3>2, <4>2, <4>3, <4>4, <4>6
    <3> QED
      BY <3>3, <3>4
  <2>6. Len(file') >= u
    BY <1>0, <2>2, <2>4
  <2>7. \A i \in 1..Len(appended[p]) :
           HoldsAt(file', appended[p][i].at + (Len(file') - Len(chunk[chunkOf[p]].data)),
                   Frame(appended[p][i].event))
    BY <1>h, <2>4, <2>5, <2>6
  <2>8. Durable'
    BY <1>0, <2>1, <2>2, <2>3, <2>7, DurableAccepted
  <2> QED
    BY <1>i, <2>1, <2>8
<1>l. ASSUME pc'[p] = "idle", appended'[p] = << >>, chunk' = chunk PROVE PublishInProgress(p)'
  BY <1>b, <1>l, IdleInProgress
<1>9. ASSUME AppendFails(p) PROVE Durable' /\ PublishInProgress(p)'
  <2>1. Durable'
    BY <1>0, <1>9 DEF AppendFails, Durable
  <2>2. pc'[p] = "idle" /\ appended'[p] = << >> /\ chunk' = chunk
    BY <1>0, <1>9 DEF AppendFails, Return
  <2> QED
    BY <1>l, <2>1, <2>2
<1>10. ASSUME SaveFails(p) PROVE Durable' /\ PublishInProgress(p)'
  <2>1. pc'[p] = "idle" /\ appended'[p] = << >> /\ chunk' = chunk /\ stored' = stored
    BY <1>0, <1>10 DEF SaveFails, Fault, Return
  <2>2. PICK m \in 0..(u - 1) : file' = file \o SubSeq(Delta(k), 1, m)
    BY <1>10, <1>c, <1>g DEF SaveFails
  <2>3. SubSeq(Delta(k), 1, m) \in Seq(Byte)
    BY <1>g, SubSeqType
  <2>4. Durable'
    BY <1>0, <2>1, <2>2, <2>3, DurableExtended
  <2> QED
    BY <1>l, <2>1, <2>4
<1>11. ASSUME NextElement(p) PROVE Durable' /\ PublishInProgress(p)'
  <2>1. Durable'
    BY <1>0, <1>11 DEF NextElement, Durable
  <2>2. pc'[p] = "header" /\ appended'[p] = appended[p] /\ chunk' = chunk
    BY <1>0, <1>11 DEF NextElement
  <2> QED
    BY <1>0, <2>1, <2>2 DEF PublishInProgress
<1>12. ASSUME RefuseElement(p) PROVE Durable' /\ PublishInProgress(p)'
  <2>1. Durable'
    BY <1>0, <1>12 DEF RefuseElement, Durable
  <2>2. pc'[p] = "idle" /\ appended'[p] = << >> /\ chunk' = chunk
    BY <1>0, <1>12 DEF RefuseElement, Return
  <2> QED
    BY <1>l, <2>1, <2>2
<1>13. ASSUME Flush(p) PROVE Durable' /\ PublishInProgress(p)'
  <2>1. Durable'
    BY <1>0, <1>13 DEF Flush, Durable
  <2>2. pc'[p] = "save" /\ appended'[p] = appended[p] /\ chunk' = chunk
    BY <1>0, <1>13 DEF Flush
  <2> QED
    BY <1>0, <2>1, <2>2 DEF PublishInProgress
<1>14. ASSUME GetTopicSize(p) PROVE Durable' /\ PublishInProgress(p)'
  <2>1. Durable'
    BY <1>0, <1>14 DEF GetTopicSize, Durable
  <2>2. pc[p] = "idle" /\ pc'[p] = "idle" /\ appended'[p] = appended[p]
    BY <1>0, <1>14 DEF GetTopicSize
  <2>3. appended'[p] = << >>
    BY <1>0, <2>2 DEF PublishInProgress
  <2>4. Len(chunk'[chunkOf[p]].data) - chunk'[chunkOf[p]].persisted_size >= 0
    <3>1. PICK bytes \in {file, << >>} : Load(p, bytes)
      BY <1>14 DEF GetTopicSize, Loads
    <3> QED
      BY <1>0, <3>1, LoadType DEF ChunkLoad
  <2> QED
    BY <2>1, <2>2, <2>3, <2>4, IdleInProgress
<1> QED
  <2>1. Durable' /\ PublishInProgress(p)'
    BY <1>3, <1>4, <1>5, <1>6, <1>7, <1>8, <1>9, <1>10, <1>11, <1>12, <1>13, <1>14
    DEF PublishStep
  <2> QED
    BY <1>1, <1>2, <2>1 DEF DurableInv

\* The actions of a consumer reach neither the file nor a publisher's Chunk.
LEMMA ConsumeDurable ==
    ASSUME PrivateChunks, DurableInv, NEW c \in Consumers, ConsumeStep(c) \/ ConsumeFails(c)
    PROVE  DurableInv'
<1>1. TypeOK'
  BY ConsumeType DEF DurableInv
<1>2. UNCHANGED <<file, stored, pc, event, appended, written>>
  BY DEF ConsumeStep, ConsumeFails, Position, BeginConsume, NothingToRead, Reload, ReadHeader,
         NoPacketThere, ReadPayload, PayloadGone, AckPacket, Discard
<1>3. Durable'
  BY <1>2 DEF DurableInv, Durable
<1>4. UNCHANGED chunk \/ \E bytes \in {file, << >>} : Load(c, bytes)
  BY ConsumerOnlyLoads DEF Loads
<1>5. ASSUME NEW p \in Publishers PROVE PublishInProgress(p)'
  <2>1. chunkOf[p] /= chunkOf[c] /\ PublishInProgress(p)
    BY DEF PrivateChunks, DurableInv
  <2>2. chunkOf[p] \in Chunks /\ DOMAIN chunk = Chunks
    BY ThreadChunkType DEF DurableInv, TypeOK
  <2>3. chunk'[chunkOf[p]] = chunk[chunkOf[p]]
    BY <1>4, <2>1, <2>2, LoadType DEF DurableInv
  <2> QED
    BY <1>2, <2>1, <2>3, InProgressUndisturbed
<1> QED
  BY <1>1, <1>3, <1>5 DEF DurableInv

\* A restart leaves the file and the history, and nobody publishing.
LEMMA RestartDurable == DurableInv /\ Restart => DurableInv'
<1> SUFFICES ASSUME DurableInv, Restart PROVE DurableInv'
  OBVIOUS
<1>1. TypeOK' /\ Len(file) \in Nat
  BY RestartType DEF DurableInv, TypeOK
<1>2. Durable'
  BY DEF Restart, DurableInv, Durable
<1>3. ASSUME NEW p \in Publishers PROVE PublishInProgress(p)'
  <2>1. chunk'[chunkOf[p]] = ChunkLoad(file) /\ pc'[p] = "idle" /\ appended'[p] = << >>
    BY TopicStoreAssumption DEF Restart
  <2> QED
    BY <1>1, <2>1 DEF PublishInProgress, ChunkLoad
<1> QED
  BY <1>1, <1>2, <1>3 DEF DurableInv

\* No accepted event is ever lost or moved, whatever else fails, when the publishers'
\* Chunks are their own, at most one of them saves in pieces, and fclose() does not fail.
THEOREM AcceptedEventsAreDurable ==
    ASSUME PrivateChunks, SplitsHaveOneWriter, "lost" \notin Faults
    PROVE  Spec => []Durable
<1>1. Init => DurableInv
  BY InitDurable
<1>2. DurableInv /\ [Next]_vars => DurableInv'
  <2> SUFFICES ASSUME DurableInv, [Next]_vars PROVE DurableInv'
    OBVIOUS
  <2>1. ASSUME NEW p \in Publishers,
               \/ \E es \in Batches[p] : BeginPublish(p, es)
               \/ Flush(p) \/ GetTopicSize(p)
               \/ PublishStep(p)
               \/ AppendFails(p) \/ SaveFails(p)
        PROVE  DurableInv'
    BY <2>1, PublishDurable
  <2>2. ASSUME NEW c \in Consumers, ConsumeStep(c) \/ ConsumeFails(c) PROVE DurableInv'
    BY <2>2, ConsumeDurable
  <2>3. CASE Restart
    BY <2>3, RestartDurable
  <2>4. CASE UNCHANGED vars
    <3>1. TypeOK'
      BY <2>4, NextType DEF DurableInv
    <3> QED
      BY <2>4, <3>1 DEF vars, DurableInv, Durable, PublishInProgress
  <2> QED
    BY <2>1, <2>2, <2>3, <2>4 DEF Next
<1>3. DurableInv => Durable
  BY DEF DurableInv
<1> QED
  BY <1>1, <1>2, <1>3, PTL DEF Spec
=============================================================================
