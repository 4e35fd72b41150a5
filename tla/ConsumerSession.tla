-------------------------- MODULE ConsumerSession --------------------------
(***************************************************************************)
(* One client's session with the socket server, command by command:         *)
(* socket/server_event_handler.c over consume_packet(), ack_packet_by_size(),*)
(* ack_packet_batch(), create_group() and create_topic(), while HTTP         *)
(* requests and other sessions create topics and publish to them.           *)
(*                                                                         *)
(* A session's Topic, Chunk and Group are its own, a topic file only grows,  *)
(* and every command loads the Chunk before it looks at it, so a command     *)
(* answers as if it ran at its last chunk_load(): it is one step, and the    *)
(* Chunk's data is the file.  (TopicStore has the same calls step by step.)  *)
(* Only a SET_TOPIC that creates its topic is several: two looks for the     *)
(* file and the write that starts it.                                       *)
(***************************************************************************)
EXTENDS Wire, Chunk

CONSTANTS
    Names,          \* topic names a client or an HTTP request uses
    EmptyName,      \* the empty string
    Line,           \* a name as a session reads it: Line[n] is n with what ends the line
    Groups,         \* group names
    EmptyGroup,
    Null,
    Events,         \* what HTTP publishes: MAX_EVENT_SIZE is MAX_PACKET_SIZE
    AckSizes,       \* what atoi() makes of the packet_size of an ACK
    MaxPacketSize,  \* MAX_PACKET_SIZE
    MaxFileSize,    \* bound: no publish that would pass it
    MaxBytes,       \* bound: of two topics together
    MaxFaults       \* bound: how many calls fail, writes are cut or creators come late

FileNames == Names \cup {Line[n] : n \in Names}

\* A Group, without last_read_size, which no command reads.  attached tells whether
\* attached_topic is the session's present Topic, or one that was freed or lost before.
GroupType == [id : Groups \cup {EmptyGroup}, attached : BOOLEAN, read_pointer : Nat]

ASSUME ConsumerSessionAssumption ==
    /\ EmptyName \notin {Line[n] : n \in Names \ {EmptyName}}
    /\ Line[EmptyName] = EmptyName
    /\ Null \notin FileNames \cup Groups \cup {EmptyGroup}
    /\ Null \notin GroupType /\ Null \notin Seq(Byte)
    /\ EmptyGroup \notin Groups
    /\ AckSizes \subseteq Int
    /\ MaxPacketSize \in Nat /\ MaxPacketSize < 16777216
    /\ Events \subseteq {e \in Seq(Byte) : e /= << >> /\ Len(e) <= MaxPacketSize}
    /\ MaxFileSize \in Nat /\ MaxBytes \in Nat /\ MaxFaults \in Nat

VARIABLES
    files,      \* the topic files; a file that does not exist is Null
    spoiled,    \* history: the topics in which a write was cut or a prologue is not the first
    session,    \* the ClientSession
    creating,   \* the name a SET_TOPIC has found no file for, and how often it has looked
    reply,      \* what the last command answered, with the packet it sent
    asked,      \* history: the topic name of the client's last SET_TOPIC
    faults      \* what has failed so far

topicVars == <<files, spoiled>>
vars == <<files, spoiled, session, creating, reply, asked, faults>>

\* What create_group() makes: a Group that is attached to the topic, at its first byte.
NewGroup(id) == [id |-> id, attached |-> TRUE, read_pointer |-> 0]

NewSession == [topic |-> Null, chunk |-> FALSE, group_id |-> Null, group |-> Null]

Answer(kind) == [kind |-> kind, at |-> 0, packet |-> << >>]

Init == /\ files = [n \in FileNames |-> Null]
        /\ spoiled = {}
        /\ session = NewSession
        /\ creating = Null
        /\ reply = Answer("none")
        /\ asked = Null
        /\ faults = 0

\* create_group()
CreateGroup(id, topic) ==
    IF id \in {Null, EmptyGroup} \/ topic = Null THEN Null ELSE NewGroup(id)

-----------------------------------------------------------------------------
(* What the files hold *)

\* What chunk_load() finds: a file that cannot be opened counts as empty.
Bytes(n) == IF files[n] = Null THEN << >> ELSE files[n]
Prefixes(bytes) == {SubSeq(bytes, 1, k) : k \in 0..Len(bytes)}

\* malloc(), strdup() or fopen() returns NULL; or what else counts as a fault.
Fault == faults < MaxFaults /\ faults' = faults + 1

\* Bytes are added to a topic's file: as intended, or so that they spoil it.
Adds(n, bytes) ==
    /\ files' = [files EXCEPT ![n] = Bytes(n) \o bytes]
    /\ UNCHANGED spoiled
Spoils(n, bytes) ==
    /\ files' = [files EXCEPT ![n] = Bytes(n) \o bytes]
    /\ spoiled' = spoiled \cup {n}

-----------------------------------------------------------------------------
(* SET_GROUP and SET_TOPIC *)

\* The old Group is freed only where a new one is made: before a topic is set it stays.
SetGroupTo(id, group) ==
    /\ session' = [session EXCEPT !.group_id = id,
                                  !.group = IF session.topic /= Null THEN group ELSE @]
    /\ reply' = Answer("group_set")
    /\ UNCHANGED <<topicVars, creating, asked>>

SetGroup(g) ==
    /\ SetGroupTo(g, CreateGroup(g, session.topic))
    /\ UNCHANGED faults

\* No memory for the name, or none for the Group: the client is told that the group is set.
SetGroupFails(g) == Fault /\ (SetGroupTo(Null, Null) \/ SetGroupTo(g, Null))

\* The session's Topic is replaced; its Group with it, if a group name is known.  A Group that
\* is kept is attached to a Topic that was freed or lost; but malloc() may have put the new
\* Topic where a freed one was, and then nothing tells the two apart.
GroupOn(topic) ==
    IF topic /= Null /\ session.group_id /= Null THEN {CreateGroup(session.group_id, topic)}
    ELSE IF session.group = Null THEN {Null}
    ELSE {[session.group EXCEPT !.attached = same] : same \in {FALSE, topic /= Null}}
OpenTopicKeepingGroup(topic) ==
    session' = [session EXCEPT !.topic = topic,
                               !.chunk = topic /= Null,
                               !.group = IF @ = Null THEN CreateGroup(session.group_id, topic)
                                         ELSE [@ EXCEPT !.attached = FALSE]]
OpenTopic(topic) ==
    \E g \in GroupOn(topic) :
        session' = [session EXCEPT !.topic = topic, !.chunk = topic /= Null, !.group = g]

\* The same without memory for the Group, or for the Chunk of a topic that was there.
OpenTopicWithout(what, topic) ==
    /\ Fault
    /\ \/ /\ what = "group" /\ session.group_id \notin {Null, EmptyGroup}
          /\ session' = [session EXCEPT !.topic = topic, !.chunk = TRUE, !.group = Null]
       \/ /\ what = "chunk"
          /\ \E g \in GroupOn(topic) :
                session' = [session EXCEPT !.topic = topic, !.chunk = FALSE, !.group = g]

\* SET_TOPIC is over: the client is told that the topic is set.
Asked(n) == asked' = n /\ reply' = Answer("topic_set") /\ creating' = Null

\* topic_exists() says yes, or the name could not be kept.
SetExistingTopic(n) ==
    /\ files[Line[n]] /= Null
    /\ \/ OpenTopic(Line[n]) /\ UNCHANGED faults
       \/ \E what \in {"group", "chunk"} : OpenTopicWithout(what, Line[n])
    /\ Asked(n)
    /\ UNCHANGED topicVars
SetTopicFails(n) ==
    /\ Fault
    /\ OpenTopic(Null)
    /\ Asked(n)
    /\ UNCHANGED topicVars

\* topic_exists() says no, because there is no file or because it could not look.
FindsNoFile(n) == \/ files[Line[n]] = Null /\ UNCHANGED faults
                  \/ Fault
LookForTopic(n) ==
    /\ FindsNoFile(n)
    /\ creating' = [name |-> n, looks |-> 1]
    /\ UNCHANGED <<topicVars, session, reply, asked>>

\* create_topic() refuses an empty name, and looks once more.
LookAgain ==
    /\ creating.looks = 1
    /\ creating.name /= EmptyName
    /\ FindsNoFile(creating.name)
    /\ creating' = [creating EXCEPT !.looks = 2]
    /\ UNCHANGED <<topicVars, session, reply, asked>>

\* It returns NULL: the name is empty, the file is there now, or it cannot be made.  The Group
\* stays.
CreateFails ==
    /\ \/ /\ creating.looks = 1
          /\ creating.name = EmptyName \/ files[Line[creating.name]] /= Null
          /\ UNCHANGED faults
       \/ Fault
    /\ OpenTopic(Null)
    /\ Asked(creating.name)
    /\ UNCHANGED topicVars

\* The prologue is written, also where somebody else has made the file since.  There may be no
\* memory for the Topic then.
StartFile ==
    /\ creating.looks = 2
    /\ IF files[Line[creating.name]] = Null
       THEN Adds(Line[creating.name], Prologue)
       ELSE Spoils(Line[creating.name], Prologue)
    /\ \/ OpenTopic(Line[creating.name]) /\ UNCHANGED faults
       \/ OpenTopicWithout("group", Line[creating.name])
       \/ OpenTopic(Null) /\ Fault
    /\ Asked(creating.name)

\* Not all of it is written, which create_topic() is told of (fwrite()) or not (fclose()).
StartOfFileIsCut ==
    /\ creating.looks = 2
    /\ Fault
    /\ \E start \in Prefixes(Prologue) \ {Prologue} : Spoils(Line[creating.name], start)
    /\ OpenTopic(Null) \/ OpenTopic(Line[creating.name])
    /\ Asked(creating.name)

-----------------------------------------------------------------------------
(* CONSUME and ACK *)

Ready == session.topic /= Null /\ session.group /= Null
Data == Bytes(session.topic)
ReadPointer == session.group.read_pointer

\* The calls refuse a Group that is attached to another Topic object, and a Topic without Chunk.
Usable == session.group.attached /\ session.chunk

\* CONSUME or ACK before a topic and a group are set, or a command the server does not know.
Refused ==
    /\ reply' = Answer("error")
    /\ UNCHANGED <<topicVars, session, creating, asked, faults>>

\* The packet consume_packet() finds at the read pointer: of n bytes.
PacketAt(n) ==
    /\ Usable
    /\ ReadPointer + HeaderSize <= Len(Data)
    /\ n = DecodeSize(Data, ReadPointer)
    /\ n > 0 /\ n <= MaxPacketSize
    /\ ReadPointer + HeaderSize + n <= Len(Data)

MovePointer(to) == session' = [session EXCEPT !.group.read_pointer = to]

\* consume_packet() moves the pointer, then send_packet_to_consumer() may fail; the
\* packet is freed either way.
ConsumeFromHeader(n) ==
    /\ Ready
    /\ PacketAt(n)
    /\ MovePointer(ReadPointer + HeaderSize + n)
    /\ reply' = [kind |-> "packet", at |-> ReadPointer,
                 packet |-> ChunkRead(ChunkLoad(Data), n, ReadPointer)]
    /\ UNCHANGED <<topicVars, creating, asked, faults>>
Consume(n) ==
    /\ Ready
    /\ PacketAt(n)
    /\ MovePointer(ReadPointer + HeaderSize + n)
    /\ reply' = [kind |-> "packet", at |-> ReadPointer,
                 packet |-> ChunkRead(ChunkLoad(Data), n, ReadPointer + HeaderSize)]
    /\ UNCHANGED <<topicVars, creating, asked, faults>>

\* HeaderSize bytes at the pointer that are no packet, or too few bytes for one.  (Which of
\* the two answers a Group gets whose Topic was replaced depends on that Topic.)
ConsumeNothing ==
    /\ Ready
    /\ \/ ReadPointer + HeaderSize > Len(Data)
       \/ /\ ReadPointer + HeaderSize <= Len(Data)
          /\ ~PacketAt(DecodeSize(Data, ReadPointer))
    /\ \E kind \in {"no_data", "no_packet"} :
          /\ Usable => (kind = "no_data" <=> ReadPointer >= Len(Data))
          /\ reply' = Answer(kind)
    /\ UNCHANGED <<topicVars, session, creating, asked, faults>>

\* ack_packet_by_size() with size_t arithmetic: the sums are taken modulo 2^64, so an
\* atoi() below zero moves the pointer back, but never below the file's first byte.
AcceptsSizeSigned(n) ==
    /\ Usable
    /\ n /= 0
    /\ ReadPointer + HeaderSize + n <= Len(Data)
AcceptsSizeOfPayload(n) ==
    /\ Usable
    /\ n /= 0
    /\ ReadPointer + HeaderSize + n >= 0
    /\ ReadPointer + n <= Len(Data)
AcceptsSize(n) ==
    /\ Usable
    /\ n /= 0
    /\ ReadPointer + HeaderSize + n >= 0
    /\ ReadPointer + HeaderSize + n <= Len(Data)

AckBySize(n) ==
    /\ Ready
    /\ AcceptsSize(n)
    /\ MovePointer(ReadPointer + HeaderSize + n)
    /\ reply' = Answer("acked_size")
    /\ UNCHANGED <<topicVars, creating, asked, faults>>

\* ack_packet_batch(.., 1): whatever length the next four bytes say, if it fits.
FrameAtPointer(n) ==
    /\ Usable
    /\ ReadPointer + HeaderSize <= Len(Data)
    /\ n = DecodeSize(Data, ReadPointer)
    /\ ReadPointer + HeaderSize + n <= Len(Data)

NextHeader == IF ReadPointer + HeaderSize <= Len(Data)
              THEN DecodeSize(Data, ReadPointer) ELSE 0

AckNext ==
    /\ FrameAtPointer(NextHeader)
    /\ MovePointer(ReadPointer + HeaderSize + NextHeader)
    /\ reply' = Answer("acked")
    /\ UNCHANGED <<topicVars, creating, asked>>

AckFails ==
    /\ ~FrameAtPointer(NextHeader)
    /\ reply' = Answer("error")
    /\ UNCHANGED <<topicVars, session, creating, asked>>

\* ACK without a usable packet_size, or with one that ack_packet_by_size() refused, or whose
\* chunk_load() failed or could not open the file.
AckPlain == Ready /\ (AckNext \/ AckFails) /\ UNCHANGED faults
AckSizeRefused(n) == Ready /\ ~AcceptsSize(n) /\ (AckNext \/ AckFails) /\ UNCHANGED faults
AckSizeFails(n) == Ready /\ Fault /\ (AckNext \/ AckFails)

\* chunk_load() has no memory for what it loads, or cannot open the file, or consume_packet()
\* has no memory for the packet.
CommandFails ==
    /\ Ready
    /\ Fault
    /\ \E kind \in {"no_data", "no_packet", "error"} : reply' = Answer(kind)
    /\ UNCHANGED <<topicVars, session, creating, asked>>

-----------------------------------------------------------------------------
\* QUIT, EXIT or a closed connection: the session is freed; the client may come again.
Disconnect ==
    /\ session' = NewSession
    /\ reply' = Answer("none")
    /\ asked' = Null
    /\ UNCHANGED <<topicVars, creating, faults>>

-----------------------------------------------------------------------------
(* What others write: get_or_create_topic(), create_topic() and publish_event_string() *)

Others == UNCHANGED <<session, creating, reply, asked>>
MayWrite(n, bytes) ==
    /\ n /= EmptyName
    /\ Len(Bytes(n)) + Len(bytes) <= MaxFileSize
    /\ \A m \in FileNames \ {n} : Len(Bytes(m)) + Len(Bytes(n)) + Len(bytes) <= MaxBytes

\* A topic is created.
Create(n) ==
    /\ files[n] = Null
    /\ MayWrite(n, Prologue)
    /\ Adds(n, Prologue)
    /\ Others
    /\ UNCHANGED faults

\* An event is published; the topic is made if it is not there.
StartOf(n) == IF files[n] = Null THEN Prologue ELSE << >>
ToWrite(n, e) == StartOf(n) \o Frame(e)
Publish(n, e) ==
    /\ MayWrite(n, ToWrite(n, e))
    /\ Adds(n, ToWrite(n, e))
    /\ Others
    /\ UNCHANGED faults

\* A write is cut: of the prologue, or in the middle of the frame.
PublishCut(n, e) ==
    /\ MayWrite(n, ToWrite(n, e))
    /\ Fault
    /\ \E start \in Prefixes(StartOf(n)), frame \in Prefixes(Frame(e)) :
          /\ start /= StartOf(n) \/ frame \notin {<< >>, Frame(e)}
          /\ Spoils(n, start \o frame)
    /\ Others

\* A creator that had looked for the topic before it was there starts its file once more.
PrologueAgain(n) ==
    /\ files[n] /= Null
    /\ MayWrite(n, Prologue)
    /\ Fault
    /\ Spoils(n, Prologue)
    /\ Others

Command ==
    \/ \E g \in Groups \cup {EmptyGroup} : SetGroup(g) \/ SetGroupFails(g)
    \/ \E n \in Names : SetExistingTopic(n) \/ SetTopicFails(n) \/ LookForTopic(n)
    \/ Refused
    \/ Ready /\ Consume(NextHeader)
    \/ ConsumeNothing
    \/ AckPlain
    \/ CommandFails
    \/ \E n \in AckSizes : AckBySize(n) \/ AckSizeRefused(n) \/ AckSizeFails(n)
    \/ Disconnect

Next ==
    \/ creating = Null /\ Command
    \/ creating /= Null /\ (LookAgain \/ CreateFails \/ StartFile \/ StartOfFileIsCut)
    \/ \E n \in Names : Create(n) \/ PrologueAgain(n)
    \/ \E n \in Names, e \in Events : Publish(n, e) \/ PublishCut(n, e)

Spec == Init /\ [][Next]_vars

-----------------------------------------------------------------------------
(* Properties *)

\* Types: what each variable may hold.
TypeOK ==
    /\ files \in [FileNames -> Seq(Byte) \cup {Null}]
    /\ spoiled \subseteq FileNames
    /\ session \in [topic : FileNames \cup {Null},
                    chunk : BOOLEAN,
                    group_id : Groups \cup {EmptyGroup, Null},
                    group : GroupType \cup {Null}]
    /\ creating \in [name : Names, looks : 1..2] \cup {Null}
    /\ reply \in [kind : {"none", "group_set", "topic_set", "error", "no_data", "no_packet",
                          "packet", "acked", "acked_size"},
                  at : Nat, packet : Seq(Byte)]
    /\ asked \in Names \cup {Null}
    /\ faults \in Nat

\* A Group the commands can use is attached to the session's present Topic: none of them
\* reaches a Topic that SET_TOPIC has freed, in whatever order topics and groups are set,
\* replaced, refused and failed to be created.  Only a session that has lost its group's name
\* (SET_GROUP has freed the old one, found no memory for the new one and no topic to make a
\* Group on) takes the old Group along to the next topic.
GroupOnPresentTopic == Ready /\ session.group_id /= Null => session.group.attached

\* The read pointer never passes the end of its topic, though an ACK may carry any size,
\* a negative one included, and never has to say where it came from.  (The old Group above
\* may sit in a new Topic with the pointer of another one.)
PointerWithinTopic ==
    Ready /\ session.chunk /\ session.group_id /= Null => ReadPointer <= Len(Data)

\* Where the frames of a topic begin, and where the next one will.
StartsFrame(d) ==
    LET starts[i \in 0..Len(d)] ==
            \/ i = Len(Prologue)
            \/ \E j \in 0..(i - HeaderSize) : i = j + HeaderSize + DecodeSize(d, j) /\ starts[j]
    IN  starts
FrameStarts(d) == {i \in Len(Prologue)..Len(d) : StartsFrame(d)[i]}

\* What CONSUME sends from a frame's beginning is an event that was published, and leaves the
\* pointer at a frame's beginning, in a topic where no write was cut and no second prologue
\* was written.  From anywhere else (an ACK of any size may have led there, or a torn frame)
\* it is still what the length at the pointer announces, no more and no less.
RepliesAreFrames ==
    reply.kind = "packet" =>
        /\ Ready
        /\ HoldsAt(Data, reply.at, Frame(reply.packet))
        /\ ReadPointer = reply.at + HeaderSize + Len(reply.packet)
        /\ session.topic \notin spoiled /\ reply.at \in FrameStarts(Data) =>
              reply.packet \in Events /\ ReadPointer \in FrameStarts(Data)

\* README: "ACK - Acknowledge the last consumed packet".  The ACK that follows a CONSUME
\* does not take the group past a packet it was not sent.
AckStaysBehindSent ==
    [][reply.kind = "packet" /\ reply'.kind = "acked" =>
         session'.group.read_pointer <= reply.at + HeaderSize + Len(reply.packet)]_vars

\* README: "SET_TOPIC <topic_name> - Set the topic for the session".  The topic that is set
\* is the one the client named, the one an HTTP publisher reaches by that name.
TopicIsTheOneNamed == Ready => session.topic = asked
=============================================================================
