----------------------------- MODULE TopicStore -----------------------------
(***************************************************************************)
(* One topic file and the threads that publish to it and consume from it:   *)
(* messaging/publish_event.c, consume_packet.c, ack_packet.c (ack_packet)    *)
(* and manage_groups.c (set_group_pointer) over writer/read_write_data.c.   *)
(*                                                                         *)
(* A step is one critical section of a chunk's mutex together with the      *)
(* unlocked reads next to it, or a part of the fwrite() that saves the      *)
(* delta.  fwrite() of more than a stdio block reaches the file in pieces,  *)
(* and another Chunk on the same file has a mutex of its own, so the pieces *)
(* are visible to it.                                                       *)
(*                                                                         *)
(* Two ways of calling the code are distinguished by CONSTANTS:             *)
(*   - the HTTP handler opens the topic anew for each request (Reopen);     *)
(*   - a program that embeds the library keeps its Topic and may share it   *)
(*     between threads (chunkOf maps several threads to one Chunk).         *)
(***************************************************************************)
EXTENDS Wire, Chunk

CONSTANTS
    Publishers,     \* threads that publish
    Consumers,      \* threads that consume, each with its own Group
    Chunks,         \* the Chunks opened on the topic's file
    chunkOf,        \* the Chunk each thread's Topic holds
    Batches,        \* what each publisher tries to publish: sequences of events (byte sequences)
    MaxEventSize,   \* MAX_EVENT_SIZE
    MaxPacketSize,  \* MAX_PACKET_SIZE
    Reopen,         \* TRUE: every publish loads its Chunk first
    SplitWrites,    \* TRUE: a delta may reach the file in two pieces
    Positions,      \* offsets consumers give to set_group_pointer()
    Faults,         \* which of "alloc", "open", "short", "lost", "crash" may happen
    MaxFaults,      \* bound: how many faults a behaviour has
    MaxPublishes,   \* bound: no publish begins once so many events were accepted,
    MaxSize         \* bound: or once the file or the publisher's Chunk is longer than this

ASSUME TopicStoreAssumption ==
    /\ \A t \in Publishers \cup Consumers : chunkOf[t] \in Chunks
    /\ \A p \in Publishers : Batches[p] \subseteq Seq(Seq(Byte)) \ {<< >>}
    /\ MaxEventSize \in Nat /\ MaxPacketSize \in Nat
    /\ MaxEventSize <= MaxPacketSize /\ MaxPacketSize < 16777216
    /\ Reopen \in BOOLEAN /\ SplitWrites \in BOOLEAN
    /\ Positions \subseteq Nat
    /\ MaxFaults \in Nat /\ MaxPublishes \in Nat /\ MaxSize \in Nat

VARIABLES
    file,       \* the bytes of the topic's file
    chunk,      \* each Chunk in RAM
    pc,         \* where each publisher is in publish_event() or publish_event_batch()
    event,      \* the event each publisher is publishing
    rest,       \* the elements of its batch behind that event
    appended,   \* the events its call has put into its Chunk, and where in the Chunk
    written,    \* bytes of the delta already in the file while a save is split
    cpc,        \* where each consumer is in its consume / acknowledge loop
    group,      \* each consumer's Group
    start,      \* history: where set_group_pointer() left the Group
    packet,     \* the Packet each consumer is reading or holding
    stored,     \* history: the publishes that returned 0, and where they landed
    delivered,  \* history: the payloads each group was given since it was created
    faults      \* faults so far

vars == <<file, chunk, pc, event, rest, appended, written, cpc, group, start, packet, stored,
          delivered, faults>>
publisherVars == <<pc, event, rest, appended, written>>
consumerVars == <<cpc, group, start, packet, delivered>>

NoPacket == [packet_size |-> 0, offset_in_topic |-> 0]
NewGroupUnset == [read_pointer |-> -1, last_read_size |-> 0]
NewGroup == [read_pointer |-> 0, last_read_size |-> 0]

Init ==
    /\ file = Prologue
    /\ chunk = [k \in Chunks |-> ChunkLoad(Prologue)]
    /\ pc = [p \in Publishers |-> "idle"]
    /\ event = [p \in Publishers |-> << >>]
    /\ rest = [p \in Publishers |-> << >>]
    /\ appended = [p \in Publishers |-> << >>]
    /\ written = [p \in Publishers |-> 0]
    /\ cpc = [c \in Consumers |-> "new"]
    /\ group = [c \in Consumers |-> NewGroup]
    /\ start = [c \in Consumers |-> 0]
    /\ packet = [c \in Consumers |-> NoPacket]
    /\ stored = << >>
    /\ delivered = [c \in Consumers |-> << >>]
    /\ faults = 0

\* A thread that is inside chunk_save_delta() holds the chunk's mutex.
Locked(k) == \E p \in Publishers : chunkOf[p] = k /\ pc[p] = "saving"

Fault(kind) == kind \in Faults /\ faults < MaxFaults /\ faults' = faults + 1

\* A thread loads its Chunk: from the file, or, when fopen() fails, from nothing.
Load(t, bytes) ==
    /\ chunk' = [chunk EXCEPT ![chunkOf[t]] = ChunkLoad(bytes)]
    /\ \/ bytes = file /\ UNCHANGED faults
       \/ bytes = << >> /\ Fault("open")
Loads(t) == \E bytes \in {file, << >>} : Load(t, bytes)

-----------------------------------------------------------------------------
(* Publishing *)

\* An HTTP request has just opened the topic: get_or_create_topic() loads its Chunk.
GetTopic(p) == IF Reopen THEN Loads(p) ELSE UNCHANGED <<chunk, faults>>

\* publish_event() publishes a batch of one; publish_event_batch() checks each element when
\* its turn comes.
Acceptable(e) == Len(e) > 0 /\ Len(e) <= MaxEventSize

MayBegin(p) ==
    /\ Len(stored) < MaxPublishes
    /\ Len(file) <= MaxSize /\ Len(chunk[chunkOf[p]].data) <= MaxSize

BeginPublishUnchecked(p, es) ==
    /\ pc[p] = "idle"
    /\ ~Locked(chunkOf[p])
    /\ MayBegin(p)
    /\ GetTopic(p)
    /\ pc' = [pc EXCEPT ![p] = "header"]
    /\ event' = [event EXCEPT ![p] = Head(es)]
    /\ rest' = [rest EXCEPT ![p] = Tail(es)]
    /\ UNCHANGED <<file, appended, written, consumerVars, stored>>
BeginPublish(p, es) ==
    /\ pc[p] = "idle"
    /\ ~Locked(chunkOf[p])
    /\ Acceptable(Head(es))
    /\ MayBegin(p)
    /\ GetTopic(p)
    /\ pc' = [pc EXCEPT ![p] = "header"]
    /\ event' = [event EXCEPT ![p] = Head(es)]
    /\ rest' = [rest EXCEPT ![p] = Tail(es)]
    /\ UNCHANGED <<file, appended, written, consumerVars, stored>>

AppendHeader(p) ==
    /\ pc[p] = "header"
    /\ ~Locked(chunkOf[p])
    /\ chunk' = [chunk EXCEPT ![chunkOf[p]] =
                    ChunkAppend(chunk[chunkOf[p]], EncodeSize(Len(event[p])))]
    /\ pc' = [pc EXCEPT ![p] = "payload"]
    /\ UNCHANGED <<file, event, rest, appended, written, consumerVars, stored, faults>>

AppendPayload(p) ==
    /\ pc[p] = "payload"
    /\ ~Locked(chunkOf[p])
    /\ chunk' = [chunk EXCEPT ![chunkOf[p]] = ChunkAppend(chunk[chunkOf[p]], event[p])]
    /\ appended' = [appended EXCEPT ![p] = Append(appended[p],
                        [at |-> Len(chunk[chunkOf[p]].data) - HeaderSize, event |-> event[p]])]
    /\ pc' = [pc EXCEPT ![p] = IF rest[p] = << >> THEN "save" ELSE "next"]
    /\ UNCHANGED <<file, event, rest, written, consumerVars, stored, faults>>

NextElement(p) ==
    /\ pc[p] = "next"
    /\ Acceptable(Head(rest[p]))
    /\ pc' = [pc EXCEPT ![p] = "header"]
    /\ event' = [event EXCEPT ![p] = Head(rest[p])]
    /\ rest' = [rest EXCEPT ![p] = Tail(rest[p])]
    /\ UNCHANGED <<file, chunk, appended, written, consumerVars, stored, faults>>

\* The call is over, without success or with it.
Return(p) ==
    /\ pc' = [pc EXCEPT ![p] = "idle"]
    /\ rest' = [rest EXCEPT ![p] = << >>]
    /\ appended' = [appended EXCEPT ![p] = << >>]

\* A bad element: -1, with the frames before it in the Chunk.
RefuseBehindHeader(p) ==
    /\ pc[p] = "next"
    /\ ~Acceptable(Head(rest[p]))
    /\ ~Locked(chunkOf[p])
    /\ chunk' = [chunk EXCEPT ![chunkOf[p]] =
                    ChunkAppend(chunk[chunkOf[p]], EncodeSize(Len(Head(rest[p]))))]
    /\ Return(p)
    /\ UNCHANGED <<file, event, written, consumerVars, stored, faults>>
RefuseElement(p) ==
    /\ pc[p] = "next"
    /\ ~Acceptable(Head(rest[p]))
    /\ Return(p)
    /\ UNCHANGED <<file, chunk, event, written, consumerVars, stored, faults>>

\* realloc() fails in chunk_append(): publish_event() returns -1 where it is.
AppendFails(p) ==
    /\ pc[p] \in {"header", "payload"}
    /\ ~Locked(chunkOf[p])
    /\ Fault("alloc")
    /\ Return(p)
    /\ UNCHANGED <<file, chunk, event, written, consumerVars, stored>>

\* flush_topic(), by a program that keeps its Topic: there is something to save.
Flush(p) ==
    /\ ~Reopen
    /\ pc[p] = "idle"
    /\ ~Locked(chunkOf[p])
    /\ Delta(chunk[chunkOf[p]]) /= << >>
    /\ pc' = [pc EXCEPT ![p] = "save"]
    /\ UNCHANGED <<file, chunk, event, rest, appended, written, consumerVars, stored, faults>>

\* get_topic_size() loads the Chunk: what a failed call left in it is gone.
GetTopicSize(p) ==
    /\ ~Reopen
    /\ pc[p] = "idle"
    /\ ~Locked(chunkOf[p])
    /\ Loads(p)
    /\ UNCHANGED <<file, publisherVars, consumerVars, stored>>

\* The bytes chunk_save_delta() has to write for this publisher, from the n-th on.
RestSkipsByte(p, n) == SubSeq(Delta(chunk[chunkOf[p]]), n + 2, Len(Delta(chunk[chunkOf[p]])))
RestFromStart(p, n) == Delta(chunk[chunkOf[p]])
Rest(p, n) == SubSeq(Delta(chunk[chunkOf[p]]), n + 1, Len(Delta(chunk[chunkOf[p]])))

\* Where the frames the call appended are in the file once it ends with the delta.
Landed(p) ==
    [i \in 1..Len(appended[p]) |->
        [at |-> appended[p][i].at + (Len(file') - Len(chunk[chunkOf[p]].data)),
         event |-> appended[p][i].event]]

\* The call is bound to return 0.
Accept(p) == stored' = stored \o Landed(p)

SaveWhole(p) ==
    /\ pc[p] = "save"
    /\ ~Locked(chunkOf[p])
    /\ file' = file \o Delta(chunk[chunkOf[p]])
    /\ chunk' = [chunk EXCEPT ![chunkOf[p]] = Synced(chunk[chunkOf[p]])]
    /\ Return(p)
    /\ Accept(p)
    /\ UNCHANGED <<event, written, consumerVars, faults>>

SaveFirstPart(p) ==
    /\ SplitWrites
    /\ pc[p] = "save"
    /\ ~Locked(chunkOf[p])
    /\ \E n \in 1..(Len(Delta(chunk[chunkOf[p]])) - 1) :
          /\ file' = file \o SubSeq(Delta(chunk[chunkOf[p]]), 1, n)
          /\ written' = [written EXCEPT ![p] = n]
    /\ pc' = [pc EXCEPT ![p] = "saving"]
    /\ UNCHANGED <<chunk, event, rest, appended, consumerVars, stored, faults>>

SaveRest(p) ==
    /\ pc[p] = "saving"
    /\ file' = file \o Rest(p, written[p])
    /\ chunk' = [chunk EXCEPT ![chunkOf[p]] = Synced(chunk[chunkOf[p]])]
    /\ Return(p)
    /\ written' = [written EXCEPT ![p] = 0]
    /\ Accept(p)
    /\ UNCHANGED <<event, consumerVars, faults>>

\* Part of the delta (perhaps none of it) reaches the file.  fwrite() reports it:
\* publish_event() returns -1 and persisted_size stays.  Or stdio had buffered the
\* delta and it is fclose() that fails, which nobody looks at: publish_event()
\* returns 0 and persisted_size counts bytes the file does not have.
SaveFailsUnnoticed(p) ==
    /\ pc[p] = "save"
    /\ ~Locked(chunkOf[p])
    /\ \E n \in 0..(Len(Delta(chunk[chunkOf[p]])) - 1) :
          file' = file \o SubSeq(Delta(chunk[chunkOf[p]]), 1, n)
    /\ Fault("short")
    /\ chunk' = [chunk EXCEPT ![chunkOf[p]] = Synced(chunk[chunkOf[p]])]
    /\ Accept(p)
    /\ Return(p)
    /\ UNCHANGED <<event, written, consumerVars>>
SaveFails(p) ==
    /\ pc[p] = "save"
    /\ ~Locked(chunkOf[p])
    /\ \E n \in 0..(Len(Delta(chunk[chunkOf[p]])) - 1) :
          file' = file \o SubSeq(Delta(chunk[chunkOf[p]]), 1, n)
    /\ \/ /\ Fault("short")
          /\ UNCHANGED <<chunk, stored>>
       \/ /\ Fault("lost")
          /\ chunk' = [chunk EXCEPT ![chunkOf[p]] = Synced(chunk[chunkOf[p]])]
          /\ Accept(p)
    /\ Return(p)
    /\ UNCHANGED <<event, written, consumerVars>>

-----------------------------------------------------------------------------
(* Consuming *)

Readable(c) == chunk[chunkOf[c]].data
ReadPointer(c) == group[c].read_pointer

\* set_group_pointer() on the Group the consumer has just created: clamped to what is loaded.
ClampedTo(bytes, offset) == IF offset > Len(bytes) THEN Len(bytes) ELSE offset
Position(c, offset) ==
    /\ cpc[c] = "new"
    /\ ~Locked(chunkOf[c])
    /\ \E bytes \in {file, << >>} :
          /\ Load(c, bytes)
          /\ group' = [group EXCEPT ![c].read_pointer = ClampedTo(bytes, offset)]
          /\ start' = [start EXCEPT ![c] = ClampedTo(bytes, offset)]
    /\ cpc' = [cpc EXCEPT ![c] = "idle"]
    /\ UNCHANGED <<file, publisherVars, packet, stored, delivered>>

\* consume_packet() begins: the first chunk_load().
BeginConsume(c) ==
    /\ cpc[c] = "idle"
    /\ ~Locked(chunkOf[c])
    /\ Loads(c)
    /\ cpc' = [cpc EXCEPT ![c] = "loaded"]
    /\ UNCHANGED <<file, publisherVars, group, start, packet, stored, delivered>>

\* Nothing at the read pointer: NULL.
NothingToRead(c) ==
    /\ cpc[c] = "loaded"
    /\ ReadPointer(c) >= Len(Readable(c))
    /\ cpc' = [cpc EXCEPT ![c] = "idle"]
    /\ UNCHANGED <<file, chunk, publisherVars, group, start, packet, stored, delivered, faults>>

\* Otherwise read_packet_size_header() loads the chunk again.
Reload(c) ==
    /\ cpc[c] = "loaded"
    /\ ReadPointer(c) < Len(Readable(c))
    /\ ~Locked(chunkOf[c])
    /\ Loads(c)
    /\ cpc' = [cpc EXCEPT ![c] = "header"]
    /\ UNCHANGED <<file, publisherVars, group, start, packet, stored, delivered>>

\* A length that consume_packet() accepts at the read pointer.
PacketThere(c, n) ==
    /\ ReadPointer(c) + HeaderSize <= Len(Readable(c))
    /\ n = DecodeSize(Readable(c), ReadPointer(c))
    /\ n > 0 /\ n <= MaxPacketSize
    /\ ReadPointer(c) + HeaderSize + n <= Len(Readable(c))

HeaderValue(c) == IF ReadPointer(c) + HeaderSize <= Len(Readable(c))
                  THEN DecodeSize(Readable(c), ReadPointer(c)) ELSE 0

ReadHeader(c) ==
    /\ cpc[c] = "header"
    /\ ~Locked(chunkOf[c])
    /\ PacketThere(c, HeaderValue(c))
    /\ packet' = [packet EXCEPT ![c] = [packet_size |-> HeaderValue(c),
                                        offset_in_topic |-> ReadPointer(c)]]
    /\ cpc' = [cpc EXCEPT ![c] = "payload"]
    /\ UNCHANGED <<file, chunk, publisherVars, group, start, stored, delivered, faults>>

\* A length of zero, too large, or longer than what is loaded: NULL.
NoPacketThere(c) ==
    /\ cpc[c] = "header"
    /\ ~Locked(chunkOf[c])
    /\ ~PacketThere(c, HeaderValue(c))
    /\ cpc' = [cpc EXCEPT ![c] = "idle"]
    /\ UNCHANGED <<file, chunk, publisherVars, group, start, packet, stored, delivered, faults>>

Payload(c) == ChunkRead(chunk[chunkOf[c]], packet[c].packet_size, ReadPointer(c) + HeaderSize)

\* The packet is filled and handed to the caller, and the read pointer moves past it.
ReadPayloadLeavesPointer(c) ==
    /\ cpc[c] = "payload"
    /\ ~Locked(chunkOf[c])
    /\ Len(Payload(c)) = packet[c].packet_size
    /\ delivered' = [delivered EXCEPT ![c] = Append(delivered[c], Payload(c))]
    /\ cpc' = [cpc EXCEPT ![c] = "holding"]
    /\ UNCHANGED <<file, chunk, publisherVars, group, start, packet, stored, faults>>
ReadPayload(c) ==
    /\ cpc[c] = "payload"
    /\ ~Locked(chunkOf[c])
    /\ Len(Payload(c)) = packet[c].packet_size
    /\ group' = [group EXCEPT ![c] =
                    [read_pointer |-> ReadPointer(c) + HeaderSize + packet[c].packet_size,
                     last_read_size |-> HeaderSize + packet[c].packet_size]]
    /\ delivered' = [delivered EXCEPT ![c] = Append(delivered[c], Payload(c))]
    /\ cpc' = [cpc EXCEPT ![c] = "holding"]
    /\ UNCHANGED <<file, chunk, publisherVars, start, packet, stored, faults>>

\* The chunk was reloaded shorter in between, or an allocation fails: NULL.
PayloadGone(c) ==
    /\ cpc[c] = "payload"
    /\ ~Locked(chunkOf[c])
    /\ Len(Payload(c)) /= packet[c].packet_size
    /\ packet' = [packet EXCEPT ![c] = NoPacket]
    /\ cpc' = [cpc EXCEPT ![c] = "idle"]
    /\ UNCHANGED <<file, chunk, publisherVars, group, start, stored, delivered, faults>>
ConsumeFails(c) ==
    /\ cpc[c] \in {"loaded", "payload", "holding"}
    /\ Fault("alloc")
    /\ packet' = [packet EXCEPT ![c] = NoPacket]
    /\ cpc' = [cpc EXCEPT ![c] = "idle"]
    /\ UNCHANGED <<file, chunk, publisherVars, group, start, stored, delivered>>

PacketEnd(c) == packet[c].offset_in_topic + HeaderSize + packet[c].packet_size

\* ack_packet(), then packet_free().
AckPacket(c) ==
    /\ cpc[c] = "holding"
    /\ ~Locked(chunkOf[c])
    /\ \E bytes \in {file, << >>} :
          /\ Load(c, bytes)
          /\ group' = IF PacketEnd(c) <= Len(bytes) /\ ReadPointer(c) < PacketEnd(c)
                      THEN [group EXCEPT ![c].read_pointer = PacketEnd(c)]
                      ELSE group
    /\ packet' = [packet EXCEPT ![c] = NoPacket]
    /\ cpc' = [cpc EXCEPT ![c] = "idle"]
    /\ UNCHANGED <<file, publisherVars, start, stored, delivered>>

\* packet_free() without an acknowledgement.
Discard(c) ==
    /\ cpc[c] = "holding"
    /\ packet' = [packet EXCEPT ![c] = NoPacket]
    /\ cpc' = [cpc EXCEPT ![c] = "idle"]
    /\ UNCHANGED <<file, chunk, publisherVars, group, start, stored, delivered, faults>>

-----------------------------------------------------------------------------
(* The process dies and is started again: only the file is left. *)

Restart ==
    /\ Fault("crash")
    /\ chunk' = [k \in Chunks |-> ChunkLoad(file)]
    /\ pc' = [p \in Publishers |-> "idle"]
    /\ event' = [p \in Publishers |-> << >>]
    /\ rest' = [p \in Publishers |-> << >>]
    /\ appended' = [p \in Publishers |-> << >>]
    /\ written' = [p \in Publishers |-> 0]
    /\ cpc' = [c \in Consumers |-> "new"]
    /\ group' = [c \in Consumers |-> NewGroup]
    /\ start' = [c \in Consumers |-> 0]
    /\ packet' = [c \in Consumers |-> NoPacket]
    /\ delivered' = [c \in Consumers |-> << >>]
    /\ UNCHANGED <<file, stored>>

-----------------------------------------------------------------------------
PublishStep(p) ==
    \/ AppendHeader(p) \/ AppendPayload(p) \/ NextElement(p) \/ RefuseElement(p)
    \/ SaveWhole(p) \/ SaveFirstPart(p) \/ SaveRest(p)

ConsumeStep(c) ==
    \/ \E offset \in Positions : Position(c, offset)
    \/ BeginConsume(c) \/ NothingToRead(c) \/ Reload(c)
    \/ ReadHeader(c) \/ NoPacketThere(c) \/ ReadPayload(c) \/ PayloadGone(c)
    \/ AckPacket(c) \/ Discard(c)

Next ==
    \/ \E p \in Publishers :
          \/ \E es \in Batches[p] : BeginPublish(p, es)
          \/ Flush(p) \/ GetTopicSize(p)
          \/ PublishStep(p)
          \/ AppendFails(p) \/ SaveFails(p)
    \/ \E c \in Consumers : ConsumeStep(c) \/ ConsumeFails(c)
    \/ Restart

Spec == Init /\ [][Next]_vars

\* A thread that is inside a library call runs on; a client keeps asking for packets.
\* Nobody is obliged to publish, and no fault has to happen.
Fairness == /\ \A p \in Publishers : WF_vars(PublishStep(p))
            /\ \A c \in Consumers : WF_vars(ConsumeStep(c))
FairSpec == Spec /\ Fairness

-----------------------------------------------------------------------------
(* Properties *)

\* An event and the place of its frame.
Placed == [at : Int, event : Seq(Byte)]

\* Types: what each variable may hold.
TypeOK ==
    /\ file \in Seq(Byte)
    /\ chunk \in [Chunks -> ChunkType(Byte)]
    /\ pc \in [Publishers -> {"idle", "header", "payload", "next", "save", "saving"}]
    /\ event \in [Publishers -> Seq(Byte)]
    /\ rest \in [Publishers -> Seq(Seq(Byte))]
    /\ \A p \in Publishers : pc[p] = "next" => rest[p] /= << >>
    /\ appended \in [Publishers -> Seq(Placed)]
    /\ written \in [Publishers -> Nat]
    /\ cpc \in [Consumers -> {"new", "idle", "loaded", "header", "payload", "holding"}]
    /\ group \in [Consumers -> [read_pointer : Nat, last_read_size : Nat]]
    /\ start \in [Consumers -> Nat]
    /\ packet \in [Consumers -> [packet_size : Nat, offset_in_topic : Nat]]
    /\ stored \in Seq(Placed)
    /\ delivered \in [Consumers -> Seq(Seq(Byte))]
    /\ faults \in Nat

\* Durability: an event whose publish returned 0 is in the file, framed, at the place
\* where it was written, and stays there whatever is published, fails or crashes later.
Durable == \A i \in 1..Len(stored) : HoldsAt(file, stored[i].at, Frame(stored[i].event))

\* What makes Durable inductive: how far a publish has come shows in its Chunk's data, behind
\* what is persisted, and of a split save at the end of the file.
PublishInProgress(p) ==
    LET k == chunk[chunkOf[p]]
        unsaved == Len(k.data) - k.persisted_size
    IN  /\ unsaved >= 0
        /\ \A i \in 1..Len(appended[p]) :
              /\ appended[p][i].at >= k.persisted_size
              /\ HoldsAt(k.data, appended[p][i].at, Frame(appended[p][i].event))
        /\ pc[p] = "idle" => appended[p] = << >>
        /\ pc[p] = "payload" =>
              /\ unsaved >= HeaderSize
              /\ HoldsAt(k.data, Len(k.data) - HeaderSize, EncodeSize(Len(event[p])))
        /\ pc[p] = "saving" =>
              /\ SplitWrites
              /\ written[p] < unsaved /\ written[p] <= Len(file)
              /\ \A i \in 1..written[p] :
                    file[Len(file) - written[p] + i] = k.data[k.persisted_size + i]
DurableInv == TypeOK /\ Durable /\ \A p \in Publishers : PublishInProgress(p)

\* The same without saying where: what remains of it when Chunks are shared.
AcceptedOnDisk ==
    \A i \in 1..Len(stored) :
        \E at \in 0..Len(file) : HoldsAt(file, at, Frame(stored[i].event))

\* "Synced with disk" (chunk_load) and the mutex: what a Chunk counts as persisted lies in the
\* file in one piece, also while another thread is saving, appending or reloading.  It lies
\* at the file's beginning, unless a load that could not open the file has emptied the Chunk.
PersistedIsOnDisk ==
    \A k \in Chunks :
        /\ chunk[k].persisted_size <= Len(chunk[k].data)
        /\ \E at \in 0..Len(file) :
              /\ "open" \notin Faults => at = 0
              /\ HoldsAt(file, at, SubSeq(chunk[k].data, 1, chunk[k].persisted_size))

\* Delivery: a group that set_group_pointer() has put at the first frame is given the accepted
\* events, each once, in the order they were accepted, whole and with none left out.
DeliveredInOrder ==
    \A c \in Consumers :
        /\ Len(delivered[c]) <= Len(stored)
        /\ \A i \in 1..Len(delivered[c]) : delivered[c][i] = stored[i].event

\* The frames of some events, one behind the other.
Frames(events) ==
    LET upTo[n \in 0..Len(events)] ==
            IF n = 0 THEN << >> ELSE upTo[n - 1] \o Frame(events[n])
    IN  upTo[Len(events)]

\* Whatever fails: from where set_group_pointer() left it, a group has been given what the
\* file holds up to its read pointer, frame by frame.  (When the file could not be opened
\* that is the file's start, whatever offset was asked for.)
DeliveredFromFile ==
    \A c \in Consumers :
        cpc[c] /= "new" =>
            /\ HoldsAt(file, start[c], Frames(delivered[c]))
            /\ ReadPointer(c) = start[c] + Len(Frames(delivered[c]))

\* From which offsets on data is frames that consume_packet() accepts, one behind the other.
FramedFrom(data) ==
    LET framed[at \in 0..Len(data)] ==
            \/ at = Len(data)
            \/ /\ at + HeaderSize < Len(data)
               /\ DecodeSize(data, at) \in 1..MaxPacketSize
               /\ at + HeaderSize + DecodeSize(data, at) <= Len(data)
               /\ framed[at + HeaderSize + DecodeSize(data, at)]
    IN  framed

\* While no fault has happened, a refused batch included, the file is the prologue and frames
\* that consume_packet() accepts, one behind the other.
FileIsFrames == faults = 0 => FramedFrom(file)[Len(Prologue)]

\* An accepted event is eventually given to every group that its program has positioned with
\* set_group_pointer().  (The last publish may be a batch that takes the count one past
\* MaxPublishes.)
EventuallyDelivered ==
    \A c \in Consumers : \A i \in 1..(MaxPublishes + 1) :
        (Len(stored) >= i) ~> (Len(delivered[c]) >= i)

\* The topic is the abstract log: a publish appends at its last write, a consume reads on.
Log == INSTANCE TopicLog WITH
    Groups <- Consumers,
    Batches <- UNION {Batches[p] : p \in Publishers},
    log <- [i \in 1..Len(stored) |-> stored[i].event],
    given <- delivered
ImplementsTopicLog == Log!Spec
=============================================================================
