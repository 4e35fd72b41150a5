------------------------ MODULE ConsumerSession_proofs ------------------------
(***************************************************************************)
(* Theorems about ConsumerSession, for any topics, groups, events, sizes a  *)
(* client may acknowledge, and number of failed calls, cut writes and late  *)
(* creators.                                                               *)
(***************************************************************************)
EXTENDS ConsumerSession, Wire_proofs

USE DEF HeaderSize

-----------------------------------------------------------------------------
(* Types *)

SessionType == [topic : FileNames \cup {Null}, chunk : BOOLEAN,
                group_id : Groups \cup {EmptyGroup, Null}, group : GroupType \cup {Null}]
ReplyType == [kind : {"none", "group_set", "topic_set", "error", "no_data", "no_packet",
                      "packet", "acked", "acked_size"},
              at : Nat, packet : Seq(Byte)]
CreatingType == [name : Names, looks : 1..2]

\* The prologue takes two bytes.
LEMMA PrologueLength == Len(Prologue) = 2 /\ Prologue \in Seq(Byte)
BY DEF Prologue, Byte

\* An event of a topic.
LEMMA EventType ==
    ASSUME NEW e \in Events
    PROVE  /\ e \in Seq(Byte) /\ Len(e) \in Nat /\ Len(e) < 16777216
           /\ Frame(e) \in Seq(Byte) /\ Len(Frame(e)) = HeaderSize + Len(e)
<1>1. e \in Seq(Byte) /\ Len(e) <= MaxPacketSize
  BY ConsumerSessionAssumption DEF ConsumerSessionAssumption
<1>2. Len(e) \in Nat /\ MaxPacketSize \in Nat /\ MaxPacketSize < 16777216
  BY <1>1, ConsumerSessionAssumption DEF ConsumerSessionAssumption
<1> QED  BY <1>1, <1>2, FrameType

\* What chunk_load() finds is a sequence of bytes.
LEMMA BytesType ==
    ASSUME TypeOK, NEW n \in FileNames
    PROVE  /\ Bytes(n) \in Seq(Byte)
           /\ files[n] = Null => Bytes(n) = <<>>
           /\ files[n] /= Null => files[n] \in Seq(Byte) /\ Bytes(n) = files[n]
BY EmptySeq DEF TypeOK, Bytes

\* So is what is written of bytes when the write is cut.
LEMMA PrefixType ==
    ASSUME NEW b \in Seq(Byte), NEW p \in Prefixes(b)
    PROVE  p \in Seq(Byte)
<1>1. PICK k \in 0..Len(b) : p = SubSeq(b, 1, k)
  BY DEF Prefixes
<1> QED  BY <1>1, SubSeqType

\* The session's fields.
LEMMA SessionFields ==
    ASSUME TypeOK
    PROVE  /\ session \in SessionType
           /\ session.topic /= Null => session.topic \in FileNames /\ Data \in Seq(Byte)
           /\ session.group /= Null => session.group \in GroupType /\ ReadPointer \in Nat
<1>1. session \in SessionType
  BY DEF TypeOK, SessionType
<1>2. session.topic /= Null => session.topic \in FileNames /\ Data \in Seq(Byte)
  BY <1>1, BytesType DEF SessionType, Data
<1> QED  BY <1>1, <1>2 DEF SessionType, GroupType, ReadPointer

\* The length at the pointer is a natural number.
LEMMA NextHeaderType ==
    ASSUME TypeOK, Ready
    PROVE  NextHeader \in Nat
<1>1. Data \in Seq(Byte) /\ ReadPointer \in Nat
  BY SessionFields DEF Ready
<1> QED  BY <1>1, DecodeSizeType DEF NextHeader

\* A packet that is read is a sequence of bytes.
LEMMA ReadType ==
    ASSUME NEW d \in Seq(Byte), NEW n \in Nat, NEW at \in Nat, at + n <= Len(d), n > 0
    PROVE  /\ ChunkRead(ChunkLoad(d), n, at) \in Seq(Byte)
           /\ Len(ChunkRead(ChunkLoad(d), n, at)) = n
           /\ \A i \in 1..n : ChunkRead(ChunkLoad(d), n, at)[i] = d[at + i]
<1>1. PICK l \in Nat : l = Len(d)
  OBVIOUS
<1>2. ChunkRead(ChunkLoad(d), n, at) = SubSeq(d, at + 1, at + n)
  <2>1. ChunkLoad(d).data = d
    BY DEF ChunkLoad
  <2>2. ~(at >= Len(d)) /\ at + n <= Len(d)
    BY <1>1
  <2> QED  BY <2>1, <2>2 DEF ChunkRead
<1>3. PICK m \in Nat : m = at + 1
  OBVIOUS
<1>4. PICK k \in Int : k = at + n
  OBVIOUS
<1>5. m >= 1 /\ k <= Len(d)
  BY <1>3, <1>4
<1>6. /\ SubSeq(d, m, k) \in Seq(Byte)
      /\ Len(SubSeq(d, m, k)) = IF m <= k THEN k - m + 1 ELSE 0
      /\ \A i \in 1..(k - m + 1) : SubSeq(d, m, k)[i] = d[m + i - 1]
  BY <1>5, SubSeqType
<1>7. m <= k /\ k - m + 1 = n /\ \A i \in 1..n : m + i - 1 = at + i
  BY <1>3, <1>4
<1> QED  BY <1>2, <1>3, <1>4, <1>6, <1>7

\* create_group() makes a Group or none.
LEMMA CreateGroupType ==
    ASSUME NEW id \in Groups \cup {EmptyGroup, Null}, NEW topic
    PROVE  CreateGroup(id, topic) \in GroupType \cup {Null}
BY DEF CreateGroup, NewGroup, GroupType

\* What SET_TOPIC leaves in the session.
LEMMA GroupOnType ==
    ASSUME TypeOK, NEW topic
    PROVE  GroupOn(topic) \subseteq GroupType \cup {Null}
<1>1. CASE topic /= Null /\ session.group_id /= Null
  BY <1>1, CreateGroupType DEF TypeOK, GroupOn
<1>2. CASE ~(topic /= Null /\ session.group_id /= Null)
  <2>1. session.group \in GroupType \cup {Null}
    BY DEF TypeOK
  <2> QED  BY <1>2, <2>1 DEF GroupOn, GroupType
<1> QED  BY <1>1, <1>2

\* Opening a topic, wholly or in part, keeps the session's type.
LEMMA OpenTopicType ==
    ASSUME TypeOK, NEW topic \in FileNames \cup {Null}, NEW what,
           OpenTopic(topic) \/ OpenTopicWithout(what, topic)
    PROVE  session' \in SessionType
<1>1. session \in SessionType /\ GroupOn(topic) \subseteq GroupType \cup {Null}
  BY GroupOnType, SessionFields
<1>2. CASE OpenTopic(topic)
  BY <1>1, <1>2 DEF OpenTopic, SessionType
<1>3. CASE OpenTopicWithout(what, topic)
  BY <1>1, <1>3 DEF OpenTopicWithout, SessionType
<1> QED  BY <1>2, <1>3

\* So does moving the read pointer.
LEMMA MovePointerType ==
    ASSUME TypeOK, Ready, NEW to \in Nat, MovePointer(to)
    PROVE  /\ session' \in SessionType
           /\ session'.group \in GroupType
           /\ session'.group.read_pointer = to
           /\ session'.group.attached = session.group.attached
           /\ session'.topic = session.topic
           /\ session'.chunk = session.chunk
           /\ session'.group_id = session.group_id
<1> DEFINE group == [session.group EXCEPT !.read_pointer = to]
<1>1. session \in SessionType /\ session.group \in GroupType
  BY SessionFields DEF Ready
<1>2. group \in GroupType /\ group.read_pointer = to /\ group.attached = session.group.attached
  BY <1>1 DEF GroupType
<1>3. session' = [session EXCEPT !.group = group]
  BY <1>1 DEF MovePointer, SessionType, GroupType
<1> HIDE DEF group
<1> QED  BY <1>1, <1>2, <1>3 DEF SessionType

\* A fault is counted.
LEMMA FaultType ==
    ASSUME TypeOK, Fault \/ UNCHANGED faults
    PROVE  faults' \in Nat
BY DEF TypeOK, Fault

\* An answer without a packet.
LEMMA AnswerType ==
    ASSUME NEW kind \in {"none", "group_set", "topic_set", "error", "no_data", "no_packet",
                         "packet", "acked", "acked_size"}
    PROVE  Answer(kind) \in ReplyType
BY EmptySeq DEF Answer, ReplyType

\* Initially the variables have their types.
LEMMA TypeInit == Init => TypeOK
<1> SUFFICES ASSUME Init PROVE TypeOK
  OBVIOUS
<1>1. session \in SessionType
  BY DEF Init, NewSession, SessionType
<1>2. reply \in ReplyType
  BY AnswerType DEF Init
<1>3. files \in [FileNames -> Seq(Byte) \cup {Null}]
  BY DEF Init
<1>4. /\ spoiled \subseteq FileNames /\ faults \in Nat
      /\ creating \in CreatingType \cup {Null} /\ asked \in Names \cup {Null}
  BY DEF Init
<1> QED  BY <1>1, <1>2, <1>3, <1>4 DEF TypeOK, SessionType, ReplyType, CreatingType

\* Bytes that are added to a file, as intended or not, change no other file.
LEMMA WriteType ==
    ASSUME TypeOK, NEW n \in FileNames, NEW bytes \in Seq(Byte),
           Adds(n, bytes) \/ Spoils(n, bytes)
    PROVE  /\ files' \in [FileNames -> Seq(Byte) \cup {Null}]
           /\ spoiled' \subseteq FileNames /\ spoiled \subseteq spoiled'
           /\ files'[n] /= Null /\ files'[n] = Bytes(n) \o bytes
           /\ \A m \in FileNames \ {n} : files'[m] = files[m]
<1>1. Bytes(n) \o bytes \in Seq(Byte)
  BY BytesType, ConcatProperties
<1>2. files' = [files EXCEPT ![n] = Bytes(n) \o bytes]
  BY DEF Adds, Spoils
<1>3. Bytes(n) \o bytes /= Null
  <2>1. Null \notin Seq(Byte)
    BY ConsumerSessionAssumption DEF ConsumerSessionAssumption
  <2> QED  BY <1>1, <2>1, Zenon
<1>4. spoiled' \subseteq FileNames /\ spoiled \subseteq spoiled'
  BY DEF Adds, Spoils, TypeOK
<1> HIDE DEF Bytes
<1> QED  BY <1>1, <1>2, <1>3, <1>4 DEF TypeOK

\* What is written as intended: the prologue of a file that was not there, or a publisher's frame.
Intended(n, bytes) ==
    \/ files[n] = Null /\ bytes = Prologue
    \/ \E e \in Events : bytes = ToWrite(n, e)

\* Only the creators and the publishers write, each to the end of one file.
LEMMA StepWrites ==
    ASSUME TypeOK, [Next]_vars
    PROVE  \/ UNCHANGED topicVars
           \/ \E n \in FileNames, bytes \in Seq(Byte) :
                 (Adds(n, bytes) /\ Intended(n, bytes)) \/ Spoils(n, bytes)
<1> DEFINE Writes == \E n \in FileNames, bytes \in Seq(Byte) :
                        (Adds(n, bytes) /\ Intended(n, bytes)) \/ Spoils(n, bytes)
<1>n. \A n \in Names : n \in FileNames /\ Line[n] \in FileNames
  BY DEF FileNames
<1>c. creating /= Null => creating.name \in Names
  BY DEF TypeOK
<1>1. ASSUME UNCHANGED vars PROVE UNCHANGED topicVars
  BY <1>1 DEF vars, topicVars
<1>2. ASSUME creating = Null, Command PROVE UNCHANGED topicVars
  <2>1. \A g \in Groups \cup {EmptyGroup} : SetGroup(g) \/ SetGroupFails(g) => UNCHANGED topicVars
    BY DEF SetGroup, SetGroupFails, SetGroupTo
  <2>2. \A n \in Names : SetExistingTopic(n) \/ SetTopicFails(n) \/ LookForTopic(n)
                            => UNCHANGED topicVars
    BY DEF SetExistingTopic, SetTopicFails, LookForTopic, topicVars
  <2>3. Refused \/ ConsumeNothing \/ AckPlain \/ CommandFails \/ Disconnect => UNCHANGED topicVars
    BY DEF Refused, ConsumeNothing, AckPlain, AckNext, AckFails, CommandFails, Disconnect
  <2>4. Consume(NextHeader) => UNCHANGED topicVars
    BY DEF Consume
  <2>5. \A n \in AckSizes : AckBySize(n) \/ AckSizeRefused(n) \/ AckSizeFails(n)
                               => UNCHANGED topicVars
    BY DEF AckBySize, AckSizeRefused, AckSizeFails, AckNext, AckFails
  <2> HIDE DEF topicVars
  <2> QED  BY <1>2, <2>1, <2>2, <2>3, <2>4, <2>5 DEF Command
<1>3. ASSUME creating /= Null, LookAgain \/ CreateFails PROVE UNCHANGED topicVars
  BY <1>3 DEF LookAgain, CreateFails, topicVars
<1>4. ASSUME creating /= Null, StartFile PROVE Writes
  <2>1. PICK n \in FileNames : n = Line[creating.name]
    BY <1>4, <1>c, <1>n
  <2>2. (files[n] = Null /\ Adds(n, Prologue)) \/ Spoils(n, Prologue)
    BY <1>4, <2>1 DEF StartFile
  <2> QED  BY <2>2, PrologueLength DEF Intended
<1>5. ASSUME creating /= Null, StartOfFileIsCut PROVE Writes
  <2>1. PICK n \in FileNames : n = Line[creating.name]
    BY <1>5, <1>c, <1>n
  <2>2. PICK start \in Prefixes(Prologue) : Spoils(n, start)
    BY <1>5, <2>1 DEF StartOfFileIsCut
  <2>3. start \in Seq(Byte)
    BY PrefixType, PrologueLength
  <2> QED  BY <2>2, <2>3
<1>6. ASSUME NEW n \in Names, Create(n) \/ PrologueAgain(n) PROVE Writes
  BY <1>6, <1>n, PrologueLength DEF Create, PrologueAgain, Intended
<1>w. ASSUME NEW n \in Names PROVE StartOf(n) \in Seq(Byte)
  BY PrologueLength, EmptySeq DEF StartOf
<1>7. ASSUME NEW n \in Names, NEW e \in Events, Publish(n, e) PROVE Writes
  <2>1. ToWrite(n, e) \in Seq(Byte)
    BY <1>w, EventType, ConcatProperties DEF ToWrite
  <2> QED  BY <1>7, <1>n, <2>1 DEF Publish, Intended
<1>8. ASSUME NEW n \in Names, NEW e \in Events, PublishCut(n, e) PROVE Writes
  <2>1. PICK pro \in Seq(Byte) : pro = StartOf(n)
    BY <1>w
  <2>2. PICK f \in Seq(Byte) : f = Frame(e)
    BY EventType
  <2>3. PICK start \in Prefixes(pro), frame \in Prefixes(f) : Spoils(n, start \o frame)
    BY <1>8, <2>1, <2>2 DEF PublishCut
  <2>4. start \in Seq(Byte)
    BY PrefixType
  <2>5. frame \in Seq(Byte)
    BY PrefixType
  <2>6. start \o frame \in Seq(Byte)
    BY <2>4, <2>5, ConcatProperties
  <2> QED  BY <1>n, <2>3, <2>6
<1> DEFINE Keeps == UNCHANGED topicVars
<1>9. Keeps \/ Writes
  <2>1. UNCHANGED vars => Keeps
    BY <1>1
  <2>2. creating = Null /\ Command => Keeps
    BY <1>2
  <2>3. creating /= Null /\ (LookAgain \/ CreateFails) => Keeps
    BY <1>3
  <2> HIDE DEF Writes, Keeps
  <2> QED  BY <1>4, <1>5, <1>6, <1>7, <1>8, <2>1, <2>2, <2>3 DEF Next
<1> QED  BY <1>9 DEF Writes

\* A topic file only grows, and is never taken away.
LEMMA FilesGrow ==
    ASSUME TypeOK, [Next]_vars, NEW n \in FileNames
    PROVE  /\ files' \in [FileNames -> Seq(Byte) \cup {Null}]
           /\ spoiled' \subseteq FileNames /\ spoiled \subseteq spoiled'
           /\ \E t \in Seq(Byte) : Bytes(n)' = Bytes(n) \o t
<1>1. CASE UNCHANGED topicVars
  <2>1. Bytes(n)' = Bytes(n) /\ Bytes(n) \in Seq(Byte)
    BY <1>1, BytesType DEF topicVars, Bytes
  <2>2. <<>> \in Seq(Byte) /\ Bytes(n) \o <<>> = Bytes(n)
    BY <2>1, EmptySeq, ConcatEmptySeq
  <2> QED  BY <1>1, <2>1, <2>2 DEF topicVars, TypeOK
<1>2. ASSUME NEW m \in FileNames, NEW bytes \in Seq(Byte), Adds(m, bytes) \/ Spoils(m, bytes)
      PROVE  /\ files' \in [FileNames -> Seq(Byte) \cup {Null}]
             /\ spoiled' \subseteq FileNames /\ spoiled \subseteq spoiled'
             /\ \E t \in Seq(Byte) : Bytes(n)' = Bytes(n) \o t
  <2>1. /\ files' \in [FileNames -> Seq(Byte) \cup {Null}]
        /\ spoiled' \subseteq FileNames /\ spoiled \subseteq spoiled'
        /\ files'[m] /= Null /\ files'[m] = Bytes(m) \o bytes
        /\ \A k \in FileNames \ {m} : files'[k] = files[k]
    BY <1>2, WriteType
  <2>2. CASE n = m
    <3>1. Bytes(n)' = Bytes(n) \o bytes
      BY <2>1, <2>2 DEF Bytes
    <3> QED  BY <2>1, <3>1
  <2>3. CASE n /= m
    <3>1. Bytes(n)' = Bytes(n) /\ Bytes(n) \in Seq(Byte)
      BY <2>1, <2>3, BytesType DEF Bytes
    <3>2. <<>> \in Seq(Byte) /\ Bytes(n) \o <<>> = Bytes(n)
      BY <3>1, EmptySeq, ConcatEmptySeq
    <3> QED  BY <2>1, <3>1, <3>2
  <2> QED  BY <2>2, <2>3
<1> QED  BY <1>1, <1>2, StepWrites

\* Every step keeps the types.
LEMMA TypeStep ==
    ASSUME TypeOK, [Next]_vars
    PROVE  TypeOK'
<1> USE DEF SessionType, ReplyType, CreatingType
<1>0. CASE UNCHANGED vars
  BY <1>0 DEF vars, topicVars, TypeOK
<1>n. \A n \in Names : n \in FileNames /\ Line[n] \in FileNames
  BY DEF FileNames
<1>f. ASSUME NEW n \in Names
      PROVE  files' \in [FileNames -> Seq(Byte) \cup {Null}] /\ spoiled' \subseteq FileNames
  BY <1>n, FilesGrow
<1>q. \* it is enough to look at the other variables
      ASSUME NEW n \in Names, session' \in SessionType, reply' \in ReplyType,
             creating' \in CreatingType \cup {Null}, asked' \in Names \cup {Null},
             Fault \/ UNCHANGED faults
      PROVE  TypeOK'
  BY <1>f, <1>q, FaultType DEF TypeOK
<1>u. ASSUME UNCHANGED topicVars, session' \in SessionType, reply' \in ReplyType,
             UNCHANGED creating, UNCHANGED asked \/ asked' = Null, Fault \/ UNCHANGED faults
      PROVE  TypeOK'
  BY <1>u, FaultType DEF TypeOK, topicVars
<1>k. creating \in CreatingType \cup {Null} /\ asked \in Names \cup {Null} /\ reply \in ReplyType
  BY DEF TypeOK
<1>1. ASSUME NEW g \in Groups \cup {EmptyGroup}, SetGroup(g) \/ SetGroupFails(g)
      PROVE  TypeOK'
  <2>1. ASSUME NEW id \in Groups \cup {EmptyGroup, Null}, NEW group \in GroupType \cup {Null},
               SetGroupTo(id, group), Fault \/ UNCHANGED faults
        PROVE  TypeOK'
    <3>1. reply' \in ReplyType
      BY <2>1, AnswerType DEF SetGroupTo
    <3>2. session' \in SessionType
      BY <2>1, SessionFields DEF SetGroupTo
    <3> QED  BY <1>u, <2>1, <3>1, <3>2 DEF SetGroupTo
  <2>2. CASE SetGroup(g)
    <3>1. CreateGroup(g, session.topic) \in GroupType \cup {Null}
      BY CreateGroupType
    <3> QED  BY <2>1, <2>2, <3>1 DEF SetGroup
  <2>3. CASE SetGroupFails(g)
    BY <2>1, <2>3 DEF SetGroupFails
  <2> QED  BY <1>1, <2>2, <2>3
<1>o. ASSUME NEW n \in Names, NEW topic \in FileNames \cup {Null}, Asked(n), NEW what,
             OpenTopic(topic) \/ OpenTopicWithout(what, topic), Fault \/ UNCHANGED faults
      PROVE  TypeOK'
  <2>1. session' \in SessionType
    BY <1>o, OpenTopicType
  <2>2. asked' = n /\ creating' = Null /\ reply' \in ReplyType
    BY <1>o, AnswerType DEF Asked
  <2> QED  BY <1>o, <1>q, <2>1, <2>2
<1>2. ASSUME NEW n \in Names, SetExistingTopic(n) \/ SetTopicFails(n)
      PROVE  TypeOK'
  <2>1. CASE SetExistingTopic(n)
    <3>1. Asked(n) /\ (Fault \/ UNCHANGED faults)
      BY <2>1 DEF SetExistingTopic, OpenTopicWithout
    <3>2. PICK what : OpenTopic(Line[n]) \/ OpenTopicWithout(what, Line[n])
      BY <2>1 DEF SetExistingTopic
    <3> QED  BY <1>n, <1>o, <3>1, <3>2
  <2>2. CASE SetTopicFails(n)
    BY <1>o, <2>2 DEF SetTopicFails
  <2> QED  BY <1>2, <2>1, <2>2
<1>3. ASSUME NEW n \in Names, LookForTopic(n)
      PROVE  TypeOK'
  <2>1. session' \in SessionType /\ reply' \in ReplyType /\ (Fault \/ UNCHANGED faults)
    BY <1>3, <1>k, SessionFields DEF LookForTopic, FindsNoFile
  <2>2. creating' \in CreatingType /\ asked' = asked
    BY <1>3 DEF LookForTopic
  <2> QED  BY <1>k, <1>q, <2>1, <2>2
<1>4. ASSUME creating /= Null, LookAgain
      PROVE  TypeOK'
  <2>1. session' \in SessionType /\ reply' \in ReplyType /\ (Fault \/ UNCHANGED faults)
    BY <1>4, <1>k, SessionFields DEF LookAgain, FindsNoFile
  <2>2. creating' \in CreatingType /\ asked' = asked /\ creating.name \in Names
    BY <1>4, <1>k DEF LookAgain
  <2> QED  BY <1>k, <1>q, <2>1, <2>2
<1>5. ASSUME creating /= Null, CreateFails \/ StartFile \/ StartOfFileIsCut
      PROVE  TypeOK'
  <2>1. creating.name \in Names
    BY <1>5, <1>k
  <2>2. PICK n \in Names : n = creating.name
    BY <2>1
  <2>3. Asked(n) /\ (Fault \/ UNCHANGED faults)
    BY <1>5, <2>2 DEF CreateFails, StartFile, StartOfFileIsCut, OpenTopicWithout
  <2>4. PICK topic \in {Line[n], Null}, what \in {"group", "chunk"} : OpenTopic(topic) \/ OpenTopicWithout(what, topic)
    BY <1>5, <2>2 DEF CreateFails, StartFile, StartOfFileIsCut
  <2>5. topic \in FileNames \cup {Null}
    BY <1>n, <2>4
  <2> QED  BY <1>o, <2>3, <2>4, <2>5
<1>6. ASSUME Refused \/ ConsumeNothing \/ CommandFails
      PROVE  TypeOK'
  <2>1. reply' \in ReplyType
    BY <1>6, AnswerType DEF Refused, ConsumeNothing, CommandFails
  <2>2. UNCHANGED <<topicVars, session, creating, asked>> /\ (Fault \/ UNCHANGED faults)
    BY <1>6 DEF Refused, ConsumeNothing, CommandFails
  <2> QED  BY <1>u, <2>1, <2>2, SessionFields
<1>7. ASSUME Ready, Consume(NextHeader)
      PROVE  TypeOK'
  <2>1. NextHeader \in Nat /\ Data \in Seq(Byte) /\ ReadPointer \in Nat
    BY <1>7, NextHeaderType, SessionFields DEF Ready
  <2>2. NextHeader > 0 /\ ReadPointer + HeaderSize + NextHeader <= Len(Data)
    BY <1>7 DEF Consume, PacketAt
  <2>3. ChunkRead(ChunkLoad(Data), NextHeader, ReadPointer + HeaderSize) \in Seq(Byte)
    BY <2>1, <2>2, ReadType
  <2>4. reply' \in ReplyType
    BY <1>7, <2>1, <2>3 DEF Consume
  <2>5. session' \in SessionType
    BY <1>7, <2>1, MovePointerType DEF Consume
  <2> QED  BY <1>7, <1>u, <2>4, <2>5 DEF Consume
<1>8. ASSUME Ready, AckNext \/ AckFails, Fault \/ UNCHANGED faults
      PROVE  TypeOK'
  <2>1. NextHeader \in Nat /\ ReadPointer \in Nat
    BY <1>8, NextHeaderType, SessionFields DEF Ready
  <2>2. reply' \in ReplyType
    BY <1>8, AnswerType DEF AckNext, AckFails
  <2>3. session' \in SessionType
    BY <1>8, <2>1, MovePointerType, SessionFields DEF AckNext, AckFails
  <2> QED  BY <1>8, <1>u, <2>2, <2>3 DEF AckNext, AckFails
<1>9. ASSUME NEW n \in AckSizes, AckBySize(n)
      PROVE  TypeOK'
  <2>1. Ready /\ ReadPointer \in Nat /\ n \in Int
    BY <1>9, SessionFields, ConsumerSessionAssumption DEF ConsumerSessionAssumption, AckBySize,
       Ready
  <2>2. ReadPointer + HeaderSize + n \in Nat
    BY <1>9, <2>1 DEF AckBySize, AcceptsSize
  <2>3. reply' \in ReplyType
    BY <1>9, AnswerType DEF AckBySize
  <2>4. session' \in SessionType
    BY <1>9, <2>1, <2>2, MovePointerType DEF AckBySize
  <2> QED  BY <1>9, <1>u, <2>3, <2>4 DEF AckBySize
<1>10. ASSUME Disconnect
      PROVE  TypeOK'
  <2>1. session' \in SessionType
    BY <1>10 DEF Disconnect, NewSession
  <2>2. reply' \in ReplyType
    BY <1>10, AnswerType DEF Disconnect
  <2> QED  BY <1>10, <1>u, <2>1, <2>2 DEF Disconnect
<1>11. ASSUME NEW n \in Names,
              Create(n) \/ PrologueAgain(n) \/ \E e \in Events : Publish(n, e) \/ PublishCut(n, e)
      PROVE  TypeOK'
  <2>1. Others /\ (Fault \/ UNCHANGED faults)
    BY <1>11 DEF Create, PrologueAgain, Publish, PublishCut
  <2> QED  BY <1>k, <1>q, <2>1, SessionFields DEF Others
<1>12. CASE creating = Null /\ Command
  BY <1>1, <1>2, <1>3, <1>6, <1>7, <1>8, <1>9, <1>10, <1>12
     DEF Command, AckPlain, AckSizeRefused, AckSizeFails
<1> QED  BY <1>0, <1>4, <1>5, <1>11, <1>12 DEF Next

\* A session, its replies and the topics keep their types, whatever a client sends.
THEOREM TypeCorrect == Spec => []TypeOK
<1>1. Init => TypeOK
  BY TypeInit
<1>2. TypeOK /\ [Next]_vars => TypeOK'
  BY TypeStep
<1> QED  BY <1>1, <1>2, PTL DEF Spec

-----------------------------------------------------------------------------
(* The Group and its topic *)

\* The Group of a session that knows its group's name is on the session's topic, which has
\* not passed it by, whether or not there is a Chunk to read with.
Positioned ==
    Ready /\ session.group_id /= Null => session.group.attached /\ ReadPointer <= Len(Data)

\* Initially there is no Group.
LEMMA PositionedInit == Init => Positioned
BY DEF Init, NewSession, Positioned, Ready

\* A Group that create_group() has just made is positioned.
LEMMA NewIsPositioned ==
    ASSUME TypeOK', session'.group = Null \/ session'.group = NewGroup(session'.group_id)
    PROVE  Positioned'
<1> SUFFICES ASSUME session'.topic /= Null, session'.group /= Null
             PROVE  session'.group.attached /\ session'.group.read_pointer <= Len(Data')
  BY DEF Positioned, Ready, ReadPointer
<1>1. session'.group.attached /\ session'.group.read_pointer = 0
  BY DEF NewGroup
<1>2. session'.topic \in FileNames /\ files' \in [FileNames -> Seq(Byte) \cup {Null}]
  BY DEF TypeOK
<1>3. Data' \in Seq(Byte)
  BY <1>2, EmptySeq DEF Data, Bytes
<1>4. Len(Data') \in Nat
  BY <1>3
<1> QED  BY <1>1, <1>4

\* Opening a topic, wholly or in part, makes a new Group if the group's name is known.
LEMMA OpenTopicPositions ==
    ASSUME TypeOK, TypeOK', NEW topic \in FileNames \cup {Null}, NEW what,
           OpenTopic(topic) \/ OpenTopicWithout(what, topic)
    PROVE  Positioned'
<1>0. session \in SessionType
  BY SessionFields
<1>1. session'.topic = topic /\ session'.group_id = session.group_id
  BY <1>0 DEF OpenTopic, OpenTopicWithout, SessionType
<1>2. session'.group = Null \/ session'.group \in GroupOn(topic)
  BY <1>0 DEF OpenTopic, OpenTopicWithout, SessionType
<1>3. CASE topic = Null \/ session.group_id = Null
  BY <1>1, <1>3 DEF Positioned, Ready
<1>4. CASE topic /= Null /\ session.group_id /= Null
  <2>1. session'.group = Null \/ session'.group = NewGroup(session'.group_id)
    BY <1>1, <1>2, <1>4 DEF GroupOn, CreateGroup
  <2> QED  BY <2>1, NewIsPositioned
<1> QED  BY <1>3, <1>4

\* Moving the read pointer within the topic keeps the Group positioned.
LEMMA MoveIsPositioned ==
    ASSUME TypeOK, Ready, Usable, NEW to \in Nat, to <= Len(Data), MovePointer(to),
           UNCHANGED topicVars
    PROVE  Positioned'
<1>1. /\ session'.group.read_pointer = to
      /\ session'.group.attached = session.group.attached
      /\ session'.topic = session.topic
  BY MovePointerType
<1> QED  BY <1>1 DEF Positioned, Usable, ReadPointer, Data, Bytes, topicVars

\* What others write moves neither the Group nor the beginning of its topic.
LEMMA StaysPositioned ==
    ASSUME TypeOK, Positioned, [Next]_vars, UNCHANGED session
    PROVE  Positioned'
<1> SUFFICES ASSUME Ready, session.group_id /= Null PROVE Positioned'
  BY DEF Positioned, Ready
<1>1. session.topic \in FileNames /\ Data \in Seq(Byte) /\ ReadPointer \in Nat
  BY SessionFields DEF Ready
<1>2. PICK t \in Seq(Byte) : Bytes(session.topic)' = Bytes(session.topic) \o t
  <2>1. PICK n \in FileNames : n = session.topic
    BY <1>1
  <2>2. PICK t \in Seq(Byte) : Bytes(n)' = Bytes(n) \o t
    BY FilesGrow
  <2> QED  BY <2>1, <2>2 DEF Bytes
<1>3. Len(Data \o t) = Len(Data) + Len(t) /\ Len(t) \in Nat /\ Len(Data) \in Nat
  BY <1>1, ConcatProperties
<1>4. Data' = Data \o t
  BY <1>2 DEF Data, Bytes
<1>5. ReadPointer <= Len(Data) /\ session.group.attached /\ ReadPointer' = ReadPointer
  BY DEF Positioned, ReadPointer
<1>6. ReadPointer <= Len(Data')
  BY <1>1, <1>3, <1>4, <1>5
<1> QED  BY <1>5, <1>6 DEF Positioned

\* Every step keeps it so.
LEMMA PositionedStep ==
    ASSUME TypeOK, Positioned, [Next]_vars
    PROVE  Positioned'
<1>t. TypeOK'
  BY TypeStep
<1>n. \A n \in Names : Line[n] \in FileNames
  BY DEF FileNames
<1>0. CASE UNCHANGED vars
  BY <1>0, StaysPositioned DEF vars
<1>1. ASSUME NEW g \in Groups \cup {EmptyGroup}, SetGroup(g) \/ SetGroupFails(g)
      PROVE  Positioned'
  <2>0. session \in SessionType
    BY SessionFields
  <2>1. ASSUME NEW id, NEW group, SetGroupTo(id, group), group \in {Null, NewGroup(id)}
        PROVE  Positioned'
    <3>1. session'.topic = session.topic /\ session'.group_id = id
      BY <2>0, <2>1 DEF SetGroupTo, SessionType
    <3>2. session.topic /= Null => session'.group = group
      BY <2>0, <2>1 DEF SetGroupTo, SessionType
    <3>3. CASE session.topic = Null
      BY <3>1, <3>3 DEF Positioned, Ready
    <3>4. CASE session.topic /= Null
      BY <1>t, <2>1, <3>1, <3>2, <3>4, NewIsPositioned
    <3> QED  BY <3>3, <3>4
  <2>2. CASE SetGroup(g)
    <3>1. CreateGroup(g, session.topic) \in {Null, NewGroup(g)}
      BY DEF CreateGroup
    <3> QED  BY <2>1, <2>2, <3>1 DEF SetGroup
  <2>3. CASE SetGroupFails(g)
    BY <2>1, <2>3 DEF SetGroupFails
  <2> QED  BY <1>1, <2>2, <2>3
<1>2. ASSUME NEW n \in Names, SetExistingTopic(n) \/ SetTopicFails(n)
      PROVE  Positioned'
  <2>1. PICK topic \in {Line[n], Null}, what \in {"group", "chunk"} : OpenTopic(topic) \/ OpenTopicWithout(what, topic)
    BY <1>2 DEF SetExistingTopic, SetTopicFails
  <2> QED  BY <1>n, <1>t, <2>1, OpenTopicPositions
<1>3. ASSUME creating /= Null, CreateFails \/ StartFile \/ StartOfFileIsCut
      PROVE  Positioned'
  <2>1. PICK n \in Names : n = creating.name
    BY <1>3 DEF TypeOK
  <2>2. PICK topic \in {Line[n], Null}, what \in {"group", "chunk"} : OpenTopic(topic) \/ OpenTopicWithout(what, topic)
    BY <1>3, <2>1 DEF CreateFails, StartFile, StartOfFileIsCut
  <2> QED  BY <1>n, <1>t, <2>2, OpenTopicPositions
<1>4. ASSUME \/ Refused \/ ConsumeNothing \/ CommandFails \/ AckFails \/ LookAgain
             \/ \E n \in Names : LookForTopic(n)
      PROVE  Positioned'
  <2>1. UNCHANGED session
    BY <1>4 DEF Refused, ConsumeNothing, CommandFails, AckFails, LookAgain, LookForTopic
  <2> QED  BY <2>1, StaysPositioned
<1>5. ASSUME Ready, Consume(NextHeader) \/ AckNext
      PROVE  Positioned'
  <2>1. NextHeader \in Nat /\ ReadPointer \in Nat
    BY <1>5, NextHeaderType, SessionFields DEF Ready
  <2>2. /\ Usable /\ MovePointer(ReadPointer + HeaderSize + NextHeader) /\ UNCHANGED topicVars
        /\ ReadPointer + HeaderSize + NextHeader <= Len(Data)
    BY <1>5 DEF Consume, AckNext, PacketAt, FrameAtPointer
  <2> QED  BY <1>5, <2>1, <2>2, MoveIsPositioned
<1>6. ASSUME NEW n \in AckSizes, AckBySize(n)
      PROVE  Positioned'
  <2>1. Ready /\ ReadPointer \in Nat /\ n \in Int
    BY <1>6, SessionFields, ConsumerSessionAssumption DEF ConsumerSessionAssumption, AckBySize,
       Ready
  <2>2. /\ Usable /\ MovePointer(ReadPointer + HeaderSize + n) /\ UNCHANGED topicVars
        /\ ReadPointer + HeaderSize + n >= 0 /\ ReadPointer + HeaderSize + n <= Len(Data)
    BY <1>6 DEF AckBySize, AcceptsSize
  <2>3. ReadPointer + HeaderSize + n \in Nat
    BY <2>1, <2>2
  <2> QED  BY <2>1, <2>2, <2>3, MoveIsPositioned
<1>7. ASSUME Disconnect
      PROVE  Positioned'
  BY <1>7 DEF Disconnect, NewSession, Positioned, Ready
<1>8. ASSUME NEW n \in Names,
             Create(n) \/ PrologueAgain(n) \/ \E e \in Events : Publish(n, e) \/ PublishCut(n, e)
      PROVE  Positioned'
  BY <1>8, StaysPositioned DEF Create, PrologueAgain, Publish, PublishCut, Others
<1>9. CASE creating = Null /\ Command
  BY <1>1, <1>2, <1>4, <1>5, <1>6, <1>7, <1>9
     DEF Command, AckPlain, AckSizeRefused, AckSizeFails
<1> QED  BY <1>0, <1>3, <1>4, <1>8, <1>9 DEF Next

\* In whatever order topics and groups are set, replaced, refused or lost for want of memory:
\* a Group whose name the session knows is attached to the session's present Topic.
THEOREM GroupsFollowTheTopic == Spec => []GroupOnPresentTopic
<1>1. Init => TypeOK /\ Positioned
  BY TypeInit, PositionedInit
<1>2. TypeOK /\ Positioned /\ [Next]_vars => (TypeOK /\ Positioned)'
  BY TypeStep, PositionedStep
<1>3. Positioned => GroupOnPresentTopic
  BY DEF Positioned, GroupOnPresentTopic
<1> QED  BY <1>1, <1>2, <1>3, PTL DEF Spec

\* Whatever sizes a client acknowledges, negative ones included: its read pointer stays within
\* its topic.
THEOREM PointerStaysInTopic == Spec => []PointerWithinTopic
<1>1. Init => TypeOK /\ Positioned
  BY TypeInit, PositionedInit
<1>2. TypeOK /\ Positioned /\ [Next]_vars => (TypeOK /\ Positioned)'
  BY TypeStep, PositionedStep
<1>3. Positioned => PointerWithinTopic
  BY DEF Positioned, PointerWithinTopic
<1> QED  BY <1>1, <1>2, <1>3, PTL DEF Spec

-----------------------------------------------------------------------------
(* Where frames begin *)

\* What the recursive definition of StartsFrame says of an offset, of any function.
Begins(d, f, i) ==
    \/ i = Len(Prologue)
    \/ \E j \in 0..(i - HeaderSize) : i = j + HeaderSize + DecodeSize(d, j) /\ f[j]

\* The recursive definition has a solution: the offsets that are in every set that contains
\* the first frame's and with a frame's beginning its end.
LEMMA SolutionExists ==
    ASSUME NEW d \in Seq(Byte)
    PROVE  \E f : f = [i \in 0..Len(d) |-> Begins(d, f, i)]
<1> DEFINE Closed(S) ==
               /\ Len(Prologue) \in S
               /\ \A j \in S : j + HeaderSize <= Len(d) => j + HeaderSize + DecodeSize(d, j) \in S
           R == {i \in 0..Len(d) : \A S \in SUBSET Nat : Closed(S) => i \in S}
           f == [i \in 0..Len(d) |-> i \in R]
<1>0. PICK l \in Nat : l = Len(d)
  OBVIOUS
<1>1. ASSUME NEW i \in 0..Len(d), Begins(d, f, i) PROVE i \in R
  <2>1. CASE i = Len(Prologue)
    BY <2>1
  <2>2. CASE \E j \in 0..(i - HeaderSize) : i = j + HeaderSize + DecodeSize(d, j) /\ f[j]
    <3>1. PICK j \in 0..(i - HeaderSize) : i = j + HeaderSize + DecodeSize(d, j) /\ f[j]
      BY <2>2
    <3>2. j \in 0..Len(d) /\ j + HeaderSize <= Len(d)
      BY <1>0
    <3>3. j \in R
      BY <3>1, <3>2
    <3> QED  BY <3>1, <3>2, <3>3
  <2> QED  BY <1>1, <2>1, <2>2 DEF Begins
<1>2. ASSUME NEW i \in R, ~Begins(d, f, i) PROVE FALSE
  <2> DEFINE S == {k \in Nat : k <= Len(d) => k \in R /\ k /= i}
  <2>1. Len(Prologue) \in S
    <3>1. Len(Prologue) <= Len(d) => Len(Prologue) \in R
      BY <1>0, PrologueLength
    <3> QED  BY <1>2, <3>1, PrologueLength DEF Begins
  <2>2. ASSUME NEW j \in S, j + HeaderSize <= Len(d)
        PROVE  j + HeaderSize + DecodeSize(d, j) \in S
    <3>1. DecodeSize(d, j) \in Nat
      BY <2>2, DecodeSizeType
    <3>2. PICK k \in Nat : k = j + HeaderSize + DecodeSize(d, j)
      BY <3>1
    <3>3. j \in R
      BY <1>0, <2>2
    <3>4. k <= Len(d) => k \in R
      <4> SUFFICES ASSUME k <= Len(d), NEW T \in SUBSET Nat, Closed(T) PROVE k \in T
        BY <1>0
      <4>1. j \in T
        BY <3>3
      <4> QED  BY <2>2, <3>2, <4>1
    <3>5. k = i => Begins(d, f, i)
      <4> SUFFICES ASSUME k = i PROVE Begins(d, f, i)
        OBVIOUS
      <4>1. j \in 0..(i - HeaderSize)
        BY <3>1, <3>2
      <4>2. j \in 0..Len(d) /\ f[j]
        BY <3>3
      <4> HIDE DEF f, R
      <4> QED  BY <3>2, <4>1, <4>2 DEF Begins
    <3> QED  BY <1>2, <3>2, <3>4, <3>5
  <2>3. i \in S
    BY <2>1, <2>2
  <2> QED  BY <1>0, <2>3
<1>3. f = [i \in 0..Len(d) |-> Begins(d, f, i)]
  <2>1. \A i \in 0..Len(d) : (i \in R) <=> Begins(d, f, i)
    BY <1>1, <1>2
  <2> HIDE DEF R
  <2>2. PICK g : g = f
    OBVIOUS
  <2>3. g = [i \in 0..Len(d) |-> i \in R]
    BY <2>2
  <2> HIDE DEF f
  <2>4. \A i \in 0..Len(d) : (i \in R) <=> Begins(d, g, i)
    BY <2>1, <2>2
  <2>5. g = [i \in 0..Len(d) |-> Begins(d, g, i)]
    <3>1. \A i \in 0..Len(d) : (i \in R) = Begins(d, g, i)
      <4> SUFFICES ASSUME NEW i \in 0..Len(d) PROVE (i \in R) = Begins(d, g, i)
        OBVIOUS
      <4>1. (i \in R) <=> Begins(d, g, i)
        BY <2>4
      <4>2. PICK p \in BOOLEAN : p <=> (i \in R)
        OBVIOUS
      <4>3. (i \in R) = p
        BY <4>2
      <4>4. Begins(d, g, i) = p
        BY <4>1, <4>2, Zenon DEF Begins
      <4> QED  BY <4>3, <4>4, Zenon
    <3> QED  BY <2>3, <3>1
  <2> QED  BY <2>2, <2>5
<1> HIDE DEF f
<1> QED  BY <1>3

\* So StartsFrame is one.
LEMMA StartsFrameSolves ==
    ASSUME NEW d \in Seq(Byte)
    PROVE  StartsFrame(d) = [i \in 0..Len(d) |-> Begins(d, StartsFrame(d), i)]
<1> DEFINE G(f) == [i \in 0..Len(d) |-> Begins(d, f, i)]
           P(f) == f = G(f)
<1>1. StartsFrame(d) = CHOOSE f : P(f)
  BY DEF StartsFrame, Begins
<1>2. \E f : P(f)
  BY SolutionExists
<1> HIDE DEF P
<1>3. P(CHOOSE f : P(f))
  BY <1>2, Zenon
<1>4. P(StartsFrame(d))
  BY <1>1, <1>3, Zenon
<1> QED  BY <1>4 DEF P

\* A frame begins behind the prologue and where one that begins earlier ends, nowhere else.
LEMMA FrameStartsMembers ==
    ASSUME NEW d \in Seq(Byte), NEW i
    PROVE  i \in FrameStarts(d) <=>
              /\ i \in Len(Prologue)..Len(d)
              /\ \/ i = Len(Prologue)
                 \/ \E j \in FrameStarts(d) :
                       j + HeaderSize <= i /\ i = j + HeaderSize + DecodeSize(d, j)
<1>0. PICK l \in Nat : l = Len(d)
  OBVIOUS
<1> DEFINE s == StartsFrame(d)
<1>1. \A k \in 0..Len(d) : s[k] <=> Begins(d, s, k)
  BY StartsFrameSolves
<1> HIDE DEF s
<1>2. \A k \in FrameStarts(d) : k \in 2..Len(d) /\ k \in 0..Len(d) /\ s[k]
  BY <1>0, PrologueLength DEF FrameStarts, s
<1>3. \A k \in 0..Len(d) : s[k] => k \in FrameStarts(d)
  <2> SUFFICES ASSUME NEW k \in 0..Len(d), s[k] PROVE k \in 2..Len(d)
    BY PrologueLength DEF FrameStarts, s
  <2>1. CASE k = 2
    BY <1>0, <2>1
  <2>2. CASE k /= 2
    <3>1. PICK j \in 0..(k - HeaderSize) : TRUE
      BY <1>1, <2>2, PrologueLength DEF Begins
    <3> QED  BY <1>0, <3>1
  <2> QED  BY <2>1, <2>2
<1>4. ASSUME i \in FrameStarts(d)
      PROVE  /\ i \in Len(Prologue)..Len(d)
             /\ \/ i = Len(Prologue)
                \/ \E j \in FrameStarts(d) :
                      j + HeaderSize <= i /\ i = j + HeaderSize + DecodeSize(d, j)
  <2>1. i \in Len(Prologue)..Len(d) /\ i \in 0..Len(d) /\ Begins(d, s, i)
    BY <1>1, <1>2, <1>4, PrologueLength
  <2>2. CASE \E j \in 0..(i - HeaderSize) : i = j + HeaderSize + DecodeSize(d, j) /\ s[j]
    <3>1. PICK j \in 0..(i - HeaderSize) : i = j + HeaderSize + DecodeSize(d, j) /\ s[j]
      BY <2>2
    <3>2. j \in 0..Len(d) /\ j + HeaderSize <= i
      BY <1>0, <2>1
    <3> QED  BY <1>3, <2>1, <3>1, <3>2
  <2> QED  BY <2>1, <2>2 DEF Begins
<1>5. ASSUME i \in Len(Prologue)..Len(d),
             NEW j \in FrameStarts(d), j + HeaderSize <= i, i = j + HeaderSize + DecodeSize(d, j)
      PROVE  i \in FrameStarts(d)
  <2>1. j \in 0..(i - HeaderSize) /\ s[j] /\ i \in 0..Len(d)
    BY <1>0, <1>2, <1>5, PrologueLength
  <2>2. Begins(d, s, i)
    BY <1>5, <2>1 DEF Begins
  <2> QED  BY <1>1, <1>3, <2>1, <2>2
<1>6. ASSUME i \in Len(Prologue)..Len(d), i = Len(Prologue)
      PROVE  i \in FrameStarts(d)
  <2>1. i \in 0..Len(d) /\ Begins(d, s, i)
    BY <1>0, <1>6, PrologueLength DEF Begins
  <2> QED  BY <1>1, <1>3, <2>1
<1> QED  BY <1>4, <1>5, <1>6

\* What follows does not change where the frames before it begin.
LEMMA FrameStartsExtended ==
    ASSUME NEW d \in Seq(Byte), NEW t \in Seq(Byte), NEW i \in 0..Len(d)
    PROVE  i \in FrameStarts(d) <=> i \in FrameStarts(d \o t)
<1> DEFINE u == d \o t
<1>1. /\ u \in Seq(Byte) /\ Len(u) = Len(d) + Len(t)
      /\ \A j \in 1..Len(d) : u[j] = d[j]
  BY ConcatProperties
<1>2. PICK l \in Nat : l = Len(d)
  OBVIOUS
<1>3. Len(u) \in Nat /\ l <= Len(u)
  BY <1>1, <1>2
<1> HIDE DEF u
<1> DEFINE B == {k \in 0..Len(d) : ~(k \in FrameStarts(d) <=> k \in FrameStarts(u))}
<1> SUFFICES ASSUME B /= {} PROVE FALSE
  BY DEF u
<1>4. PICK m \in B : \A k \in B : m <= k
  <2>1. B \in SUBSET Nat
    BY <1>2
  <2> QED  BY <2>1, LeastNumber
<1>5. \A j \in 0..Len(d) : j + HeaderSize <= m =>
         /\ DecodeSize(d, j) = DecodeSize(u, j)
         /\ j \in FrameStarts(d) <=> j \in FrameStarts(u)
  <2> SUFFICES ASSUME NEW j \in 0..Len(d), j + HeaderSize <= m
               PROVE  /\ DecodeSize(d, j) = DecodeSize(u, j)
                      /\ j \in FrameStarts(d) <=> j \in FrameStarts(u)
    OBVIOUS
  <2>1. j \notin B
    BY <1>2, <1>4
  <2>2. j + 1 \in 1..Len(d) /\ j + 2 \in 1..Len(d) /\ j + 3 \in 1..Len(d) /\ j + 4 \in 1..Len(d)
    BY <1>2
  <2> QED  BY <1>1, <2>1, <2>2 DEF DecodeSize
<1>6. m \in 0..Len(d) /\ m \in Int
  BY <1>2
<1>7. m \in Len(Prologue)..Len(d) <=> m \in Len(Prologue)..Len(u)
  BY <1>2, <1>3, <1>6, PrologueLength
<1>8. m \in FrameStarts(d) => m \in FrameStarts(u)
  <2> SUFFICES ASSUME m \in FrameStarts(d), m /= Len(Prologue) PROVE m \in FrameStarts(u)
    BY <1>1, <1>7, FrameStartsMembers
  <2>1. m \in Len(Prologue)..Len(d)
    BY FrameStartsMembers
  <2>2. PICK j \in FrameStarts(d) : j + HeaderSize <= m /\ m = j + HeaderSize + DecodeSize(d, j)
    BY FrameStartsMembers
  <2>3. j \in 0..Len(d)
    <3>1. j \in 2..Len(d)
      BY FrameStartsMembers, PrologueLength
    <3> QED  BY <1>2, <3>1
  <2> QED  BY <1>1, <1>5, <1>7, <2>1, <2>2, <2>3, FrameStartsMembers
<1>9. m \in FrameStarts(u) => m \in FrameStarts(d)
  <2> SUFFICES ASSUME m \in FrameStarts(u), m /= Len(Prologue) PROVE m \in FrameStarts(d)
    BY <1>1, <1>7, FrameStartsMembers
  <2>1. m \in Len(Prologue)..Len(u)
    BY <1>1, FrameStartsMembers
  <2>2. PICK j \in FrameStarts(u) : j + HeaderSize <= m /\ m = j + HeaderSize + DecodeSize(u, j)
    BY <1>1, FrameStartsMembers
  <2>3. j \in 0..Len(d)
    <3>1. j \in 2..Len(u)
      BY <1>1, FrameStartsMembers, PrologueLength
    <3> QED  BY <1>2, <1>3, <1>6, <2>2, <3>1
  <2> QED  BY <1>1, <1>5, <1>7, <2>1, <2>2, <2>3, FrameStartsMembers
<1> QED  BY <1>8, <1>9

\* A topic that is the prologue and whole frames of events, one behind the other.
WholeFrames(d) ==
    /\ Len(d) \in FrameStarts(d)
    /\ \A i \in FrameStarts(d) : i < Len(d) => \E e \in Events : HoldsAt(d, i, Frame(e))

\* A topic that has just been created is one.
LEMMA PrologueIsWhole == WholeFrames(Prologue)
<1>0. Prologue \in Seq(Byte) /\ Len(Prologue) = 2
  BY PrologueLength
<1>1. ASSUME NEW i \in FrameStarts(Prologue) PROVE i = 2
  <2>1. i \in Len(Prologue)..Len(Prologue)
    BY <1>0, FrameStartsMembers
  <2> QED  BY <1>0, <2>1
<1>2. 2 \in FrameStarts(Prologue)
  <2>1. 2 \in Len(Prologue)..Len(Prologue) /\ 2 = Len(Prologue)
    BY <1>0
  <2> QED  BY <1>0, <2>1, FrameStartsMembers
<1> QED  BY <1>1, <1>2, PrologueLength DEF WholeFrames

\* Where a frame stands its length can be read.
LEMMA FrameDecodes ==
    ASSUME NEW d \in Seq(Byte), NEW i \in Nat, NEW e \in Events, HoldsAt(d, i, Frame(e))
    PROVE  DecodeSize(d, i) = Len(e) /\ i + HeaderSize + Len(e) <= Len(d)
<1>1. e \in Seq(Byte) /\ Frame(e) \in Seq(Byte)
  BY EventType
<1>2. PICK n \in Nat : n = Len(e)
  BY EventType
<1>3. n < 16777216 /\ Len(Frame(e)) = HeaderSize + n
  BY <1>2, EventType
<1>4. \A k \in 1..HeaderSize : Frame(e)[k] = EncodeSize(n)[k]
  <2>1. \A k \in 1..HeaderSize : Frame(e)[k] = EncodeSize(Len(e))[k]
    BY <1>1, FrameType
  <2> QED  BY <1>2, <2>1
<1>5. \A k \in 1..Len(Frame(e)) : d[i + k] = Frame(e)[k]
  BY DEF HoldsAt
<1>6. i + Len(Frame(e)) <= Len(d)
  BY DEF HoldsAt
<1>7. \A k \in 1..HeaderSize : d[i + k] = EncodeSize(n)[k]
  BY <1>2, <1>3, <1>4, <1>5
<1>8. DecodeSize(d, i) = n
  BY <1>3, <1>7, DecodeEncode
<1> QED  BY <1>2, <1>3, <1>6, <1>8

\* It stays whole when an event's frame is appended.
LEMMA WholeFramesAppend ==
    ASSUME NEW d \in Seq(Byte), WholeFrames(d), NEW e \in Events
    PROVE  WholeFrames(d \o Frame(e))
<1> DEFINE u == d \o Frame(e)
<1>1. /\ Frame(e) \in Seq(Byte) /\ Len(Frame(e)) = HeaderSize + Len(e) /\ Len(e) \in Nat
      /\ Len(e) < 16777216 /\ e \in Seq(Byte)
  BY EventType
<1>2. u \in Seq(Byte) /\ Len(u) = Len(d) + Len(Frame(e))
  BY <1>1, ConcatProperties
<1>3. PICK l \in Nat : l = Len(d)
  OBVIOUS
<1>4. PICK n \in Nat : n = Len(e)
  BY <1>1
<1>5. Len(u) = l + HeaderSize + n /\ Len(u) \in Nat
  BY <1>1, <1>2, <1>3, <1>4
<1>6. HoldsAt(u, l, Frame(e))
  <2>1. HoldsAt(u, Len(u) - Len(Frame(e)), Frame(e))
    BY <1>1, HoldsAtEnd
  <2>2. Len(u) - Len(Frame(e)) = l
    BY <1>1, <1>4, <1>5
  <2> QED  BY <2>1, <2>2
<1>7. \A i \in 0..l : i \in FrameStarts(d) <=> i \in FrameStarts(u)
  BY <1>1, <1>3, FrameStartsExtended
<1>8. \A i \in FrameStarts(d), x \in Events : HoldsAt(d, i, Frame(x)) => HoldsAt(u, i, Frame(x))
  <2> SUFFICES ASSUME NEW i \in FrameStarts(d), NEW x \in Events, HoldsAt(d, i, Frame(x))
               PROVE  HoldsAt(u, i, Frame(x))
    OBVIOUS
  <2>1. i \in Int /\ Frame(x) \in Seq(Byte)
    BY FrameStartsMembers, EventType, PrologueLength
  <2> QED  BY <1>1, <2>1, HoldsAtExtended
<1> HIDE DEF u
<1>9. l \in FrameStarts(u) /\ l \in 2..Len(u)
  <2>1. l \in FrameStarts(d)
    BY <1>3 DEF WholeFrames
  <2>2. l \in FrameStarts(u)
    BY <1>7, <2>1
  <2> QED  BY <1>2, <2>2, FrameStartsMembers, PrologueLength
<1>10. DecodeSize(u, l) = n
  BY <1>2, <1>4, <1>6, FrameDecodes
<1>11. Len(u) \in FrameStarts(u)
  <2>1. /\ Len(u) \in Len(Prologue)..Len(u)
        /\ l + HeaderSize <= Len(u) /\ Len(u) = l + HeaderSize + DecodeSize(u, l)
    BY <1>5, <1>9, <1>10, PrologueLength
  <2> QED  BY <1>2, <1>9, <2>1, FrameStartsMembers
<1>12. ASSUME NEW i \in FrameStarts(u), i > l PROVE i = Len(u)
  <2> DEFINE B == {k \in FrameStarts(u) : k > l /\ k /= Len(u)}
  <2> SUFFICES ASSUME B /= {} PROVE FALSE
    BY <1>12
  <2>1. \A k \in FrameStarts(u) : k \in 2..Len(u) /\ k \in Nat
    BY <1>2, <1>5, FrameStartsMembers, PrologueLength
  <2>2. PICK m \in B : \A k \in B : m <= k
    <3>1. B \in SUBSET Nat
      BY <2>1
    <3> QED  BY <3>1, LeastNumber
  <2>3. m \in Nat /\ m > l /\ m /= Len(u) /\ l >= 2
    BY <1>9, <2>1
  <2>4. PICK j \in FrameStarts(u) : j + HeaderSize <= m /\ m = j + HeaderSize + DecodeSize(u, j)
    BY <1>2, <2>3, FrameStartsMembers, PrologueLength
  <2>5. j \in Nat /\ j < m
    BY <2>1, <2>3, <2>4
  <2>6. j /= l
    BY <1>5, <1>10, <2>3, <2>4
  <2>7. ~(j > l)
    BY <2>2, <2>1, <2>3, <2>4, <2>5
  <2>8. j \in FrameStarts(d) /\ j < Len(d)
    BY <1>3, <1>7, <2>5, <2>6, <2>7
  <2>9. PICK x \in Events : HoldsAt(d, j, Frame(x))
    BY <2>8 DEF WholeFrames
  <2>10. j + HeaderSize + Len(x) <= l
    BY <1>3, <2>5, <2>9, FrameDecodes
  <2>11. DecodeSize(u, j) = Len(x) /\ Len(x) \in Nat
    BY <1>2, <1>8, <2>5, <2>8, <2>9, FrameDecodes, EventType
  <2> QED  BY <2>3, <2>4, <2>5, <2>10, <2>11
<1>13. ASSUME NEW i \in FrameStarts(u), i < Len(u) PROVE \E x \in Events : HoldsAt(u, i, Frame(x))
  <2>1. i \in 2..Len(u) /\ i \in Nat
    BY <1>2, <1>5, FrameStartsMembers, PrologueLength
  <2>2. i <= l
    BY <1>5, <1>12, <1>13, <2>1
  <2>3. CASE i = l
    BY <1>6, <2>3
  <2>4. CASE i /= l
    <3>1. i \in FrameStarts(d) /\ i < Len(d)
      BY <1>3, <1>7, <2>1, <2>2, <2>4
    <3>2. PICK x \in Events : HoldsAt(d, i, Frame(x))
      BY <3>1 DEF WholeFrames
    <3> QED  BY <1>8, <3>1, <3>2
  <2> QED  BY <2>3, <2>4
<1>14. WholeFrames(u)
  BY <1>11, <1>13 DEF WholeFrames
<1> QED  BY <1>14 DEF u

\* Every topic whose writes were all as intended is whole.
Framed == \A n \in FileNames \ spoiled : files[n] /= Null => WholeFrames(files[n])

\* Initially there are no topics.
LEMMA FramedInit == Init => Framed
BY DEF Init, Framed

\* What is written as intended leaves a whole topic whole, or makes one.
LEMMA IntendedIsWhole ==
    ASSUME TypeOK, NEW n \in FileNames, files[n] /= Null => WholeFrames(files[n]),
           NEW bytes \in Seq(Byte), Intended(n, bytes)
    PROVE  WholeFrames(Bytes(n) \o bytes)
<1>1. \A b \in Seq(Byte) : <<>> \o b = b
  BY ConcatEmptySeq
<1>2. CASE files[n] = Null /\ bytes = Prologue
  <2>1. Bytes(n) \o bytes = Prologue
    BY <1>1, <1>2, BytesType, PrologueLength
  <2> QED  BY <2>1, PrologueIsWhole
<1>3. ASSUME NEW e \in Events, bytes = ToWrite(n, e)
      PROVE  WholeFrames(Bytes(n) \o bytes)
  <2>1. PICK f \in Seq(Byte) : f = Frame(e)
    BY EventType
  <2>2. CASE files[n] = Null
    <3>1. bytes = Prologue \o f /\ Bytes(n) = <<>>
      BY <1>3, <2>1, <2>2, BytesType DEF ToWrite, StartOf
    <3>2. Bytes(n) \o bytes = Prologue \o f
      BY <1>1, <3>1
    <3> QED  BY <2>1, <3>2, PrologueIsWhole, PrologueLength, WholeFramesAppend
  <2>3. CASE files[n] /= Null
    <3>1. Bytes(n) = files[n] /\ files[n] \in Seq(Byte)
      BY <2>3, BytesType
    <3>2. bytes = f
      BY <1>1, <1>3, <2>1, <2>3 DEF ToWrite, StartOf
    <3>3. WholeFrames(files[n] \o Frame(e))
      BY <2>3, <3>1, WholeFramesAppend
    <3> QED  BY <2>1, <3>1, <3>2, <3>3
  <2> QED  BY <2>2, <2>3
<1> QED  BY <1>2, <1>3 DEF Intended

\* Every step keeps it so.
LEMMA FramedStep ==
    ASSUME TypeOK, Framed, [Next]_vars
    PROVE  Framed'
<1>1. CASE UNCHANGED topicVars
  BY <1>1 DEF Framed, topicVars
<1>2. ASSUME NEW n \in FileNames, NEW bytes \in Seq(Byte), Adds(n, bytes), Intended(n, bytes)
      PROVE  Framed'
  <2>1. files'[n] = Bytes(n) \o bytes /\ \A m \in FileNames \ {n} : files'[m] = files[m]
    BY <1>2, WriteType
  <2>2. n \notin spoiled => WholeFrames(files'[n])
    BY <1>2, <2>1, IntendedIsWhole DEF Framed
  <2>3. spoiled' = spoiled
    BY <1>2 DEF Adds
  <2> QED  BY <2>1, <2>2, <2>3 DEF Framed
<1>3. ASSUME NEW n \in FileNames, NEW bytes \in Seq(Byte), Spoils(n, bytes)
      PROVE  Framed'
  <2>1. \A m \in FileNames \ {n} : files'[m] = files[m]
    BY <1>3, WriteType
  <2>2. spoiled' = spoiled \cup {n}
    BY <1>3 DEF Spoils
  <2> QED  BY <2>1, <2>2 DEF Framed
<1> QED  BY <1>1, <1>2, <1>3, StepWrites

-----------------------------------------------------------------------------
(* What CONSUME sends *)

\* Where a frame begins the two frames that are there are the same.
LEMMA FrameIsTheEvent ==
    ASSUME NEW d \in Seq(Byte), NEW at \in Nat, NEW p \in Seq(Byte), NEW e \in Events,
           HoldsAt(d, at, Frame(e)), Len(p) = DecodeSize(d, at),
           \A i \in 1..Len(p) : p[i] = d[at + HeaderSize + i]
    PROVE  p = e
<1>1. e \in Seq(Byte) /\ Len(e) \in Nat
  BY EventType
<1>2. PICK n \in Nat : n = Len(e)
  BY <1>1
<1>3. Len(p) = n
  BY <1>2, FrameDecodes
<1>4. PICK f \in Seq(Byte) : f = Frame(e)
  BY EventType
<1>5. Len(f) = HeaderSize + n /\ \A i \in 1..n : f[HeaderSize + i] = e[i]
  <2>1. /\ Len(Frame(e)) = HeaderSize + Len(e)
        /\ \A i \in 1..Len(e) : Frame(e)[HeaderSize + i] = e[i]
    BY <1>1, FrameType
  <2> QED  BY <1>2, <1>4, <2>1, Zenon
<1>6. \A i \in 1..Len(f) : d[at + i] = f[i]
  BY <1>4 DEF HoldsAt
<1>7. ASSUME NEW i \in 1..n PROVE p[i] = e[i]
  <2>1. HeaderSize + i \in 1..Len(f) /\ at + (HeaderSize + i) = at + HeaderSize + i
    BY <1>5
  <2>2. d[at + (HeaderSize + i)] = f[HeaderSize + i]
    BY <1>6, <2>1
  <2>3. p[i] = d[at + HeaderSize + i]
    BY <1>3
  <2> QED  BY <1>5, <2>1, <2>2, <2>3
<1> QED  BY <1>1, <1>2, <1>3, <1>7, SeqEqual

\* CONSUME sends a frame of the topic.
LEMMA ConsumedIsFrame ==
    ASSUME TypeOK, Framed, Ready, Consume(NextHeader)
    PROVE  RepliesAreFrames'
<1> DEFINE d == Data
           at == ReadPointer
           n == NextHeader
           p == ChunkRead(ChunkLoad(Data), NextHeader, ReadPointer + HeaderSize)
<1>1. d \in Seq(Byte) /\ at \in Nat /\ n \in Nat /\ session.topic \in FileNames
  BY NextHeaderType, SessionFields DEF Ready
<1>2. /\ n = DecodeSize(d, at) /\ n > 0 /\ n <= MaxPacketSize
      /\ at + HeaderSize + n <= Len(d)
  BY DEF Consume, PacketAt
<1>3. session.topic \notin spoiled => WholeFrames(d)
  <2>1. files[session.topic] = Null => d = <<>>
    BY <1>1, BytesType DEF Data
  <2>2. Len(<<>>) = 0
    BY EmptySeq
  <2>3. files[session.topic] /= Null
    <3>1. d /= <<>>
      BY <1>1, <1>2, <2>2
    <3> QED  BY <2>1, <3>1
  <2> QED  BY <1>1, <2>3 DEF Framed, Data, Bytes
<1>4. p \in Seq(Byte) /\ Len(p) = n /\ \A i \in 1..n : p[i] = d[at + HeaderSize + i]
  <2>1. PICK a \in Nat : a = at + HeaderSize
    BY <1>1
  <2>2. p = ChunkRead(ChunkLoad(d), n, a) /\ a + n <= Len(d)
    BY <1>2, <2>1
  <2> HIDE DEF p, d, n, at
  <2>3. p \in Seq(Byte) /\ Len(p) = n /\ \A i \in 1..n : p[i] = d[a + i]
    BY <1>1, <1>2, <2>2, ReadType
  <2> QED  BY <2>1, <2>3
<1>5. /\ session'.topic = session.topic /\ session'.group /= Null
      /\ session'.group.read_pointer = at + HeaderSize + n
  <2>1. at + HeaderSize + n \in Nat /\ MovePointer(at + HeaderSize + n)
    BY <1>1 DEF Consume
  <2>2. /\ session'.topic = session.topic /\ session'.group \in GroupType
        /\ session'.group.read_pointer = at + HeaderSize + n
    BY <2>1, MovePointerType
  <2>3. session'.group.read_pointer \in Nat /\ session' \in SessionType
    BY <2>1, MovePointerType
  <2>4. session'.group /= Null
    BY <2>2, ConsumerSessionAssumption DEF ConsumerSessionAssumption
  <2> QED  BY <2>2, <2>4
<1>6. files' = files /\ spoiled' = spoiled /\ reply'.at = at /\ reply'.packet = p
  BY DEF Consume, topicVars
<1>7. Data' = d /\ ReadPointer' = at + HeaderSize + n /\ Ready'
  BY <1>5, <1>6 DEF Data, Bytes, ReadPointer, Ready
<1> HIDE DEF d, at, n, p
<1>8. HoldsAt(d, at, Frame(p))
  <2>1. n \in ThreeBytes
    BY <1>1, <1>2, ConsumerSessionAssumption DEF ConsumerSessionAssumption, ThreeBytes
  <2> QED  BY <1>1, <1>2, <1>4, <2>1, FrameRead
<1>9. ASSUME session.topic \notin spoiled, at \in FrameStarts(d)
      PROVE  p \in Events /\ at + HeaderSize + n \in FrameStarts(d)
  <2>1. at < Len(d)
    BY <1>1, <1>2
  <2>2. PICK e \in Events : HoldsAt(d, at, Frame(e))
    BY <1>3, <1>9, <2>1 DEF WholeFrames
  <2>3. p = e
    BY <1>1, <1>2, <1>4, <2>2, FrameIsTheEvent
  <2>4. at \in 2..Len(d)
    BY <1>1, <1>9, FrameStartsMembers, PrologueLength
  <2>5. /\ at + HeaderSize + n \in Len(Prologue)..Len(d)
        /\ at + HeaderSize <= at + HeaderSize + n
    BY <1>1, <1>2, <2>4, PrologueLength
  <2>6. at + HeaderSize + n \in FrameStarts(d)
    BY <1>1, <1>2, <1>9, <2>5, FrameStartsMembers
  <2> QED  BY <2>3, <2>6
<1> QED  BY <1>4, <1>5, <1>6, <1>7, <1>8, <1>9 DEF RepliesAreFrames

\* What CONSUME sent stays a frame of the topic whatever others append to it.
LEMMA StaysFrame ==
    ASSUME TypeOK, RepliesAreFrames, [Next]_vars, UNCHANGED <<session, reply>>
    PROVE  RepliesAreFrames'
<1> SUFFICES ASSUME reply.kind = "packet"
             PROVE  RepliesAreFrames'
  BY DEF RepliesAreFrames
<1>2. /\ Ready /\ HoldsAt(Data, reply.at, Frame(reply.packet))
      /\ ReadPointer = reply.at + HeaderSize + Len(reply.packet)
      /\ session.topic \notin spoiled /\ reply.at \in FrameStarts(Data) =>
            reply.packet \in Events /\ ReadPointer \in FrameStarts(Data)
  BY DEF RepliesAreFrames
<1>3. session.topic \in FileNames /\ Data \in Seq(Byte)
  BY <1>2, SessionFields DEF Ready
<1>4. reply.at \in Nat /\ reply.packet \in Seq(Byte) /\ ReadPointer \in Nat
  BY <1>2, SessionFields DEF TypeOK, Ready
<1>5. PICK t \in Seq(Byte) : Data' = Data \o t
  <2>1. PICK n \in FileNames : n = session.topic
    BY <1>3
  <2>2. PICK t \in Seq(Byte) : Bytes(n)' = Bytes(n) \o t
    BY FilesGrow
  <2>3. Data' = Data \o t
    BY <2>1, <2>2 DEF Data, Bytes
  <2> QED  BY <2>3
<1>s. session.topic \notin spoiled' => session.topic \notin spoiled
  BY <1>3, FilesGrow
<1>6. /\ Frame(reply.packet) \in Seq(Byte)
      /\ Len(Frame(reply.packet)) = HeaderSize + Len(reply.packet)
  BY <1>4, FrameType
<1>7. HoldsAt(Data', reply.at, Frame(reply.packet))
  BY <1>2, <1>3, <1>4, <1>5, <1>6, HoldsAtExtended
<1>8. reply.at \in 0..Len(Data) /\ ReadPointer \in 0..Len(Data)
  <2>1. PICK m \in Nat : m = Len(reply.packet)
    BY <1>4
  <2>2. PICK l \in Nat : l = Len(Data)
    BY <1>3
  <2>3. reply.at + Len(Frame(reply.packet)) <= l
    BY <1>2, <2>2 DEF HoldsAt
  <2> QED  BY <1>2, <1>4, <1>6, <2>1, <2>2, <2>3
<1>9. /\ reply.at \in FrameStarts(Data) <=> reply.at \in FrameStarts(Data')
      /\ ReadPointer \in FrameStarts(Data) <=> ReadPointer \in FrameStarts(Data')
  BY <1>3, <1>5, <1>8, FrameStartsExtended
<1>10. ReadPointer' = ReadPointer /\ Ready'
  BY <1>2 DEF ReadPointer, Ready
<1> QED  BY <1>2, <1>s, <1>7, <1>9, <1>10 DEF RepliesAreFrames

\* Every step keeps it so: the other commands answer without a packet.
LEMMA RepliesStep ==
    ASSUME TypeOK, Framed, RepliesAreFrames, [Next]_vars
    PROVE  RepliesAreFrames'
<1>1. CASE UNCHANGED vars
  BY <1>1, StaysFrame DEF vars
<1>2. CASE Ready /\ Consume(NextHeader)
  BY <1>2, ConsumedIsFrame
<1>3. CASE \/ LookAgain
           \/ \E n \in Names :
                 \/ LookForTopic(n) \/ Create(n) \/ PrologueAgain(n)
                 \/ \E e \in Events : Publish(n, e) \/ PublishCut(n, e)
  <2>1. UNCHANGED <<session, reply>>
    BY <1>3 DEF LookAgain, LookForTopic, Create, PrologueAgain, Publish, PublishCut, Others
  <2> QED  BY <2>1, StaysFrame
<1>4. ASSUME NEW kind, kind /= "packet", reply' = Answer(kind)
      PROVE  RepliesAreFrames'
  BY <1>4 DEF Answer, RepliesAreFrames
<1>5. CASE \/ \E g \in Groups \cup {EmptyGroup} : SetGroup(g) \/ SetGroupFails(g)
           \/ \E n \in Names : SetExistingTopic(n) \/ SetTopicFails(n)
           \/ CreateFails \/ StartFile \/ StartOfFileIsCut
  BY <1>4, <1>5 DEF SetGroup, SetGroupFails, SetGroupTo, SetExistingTopic, SetTopicFails,
     CreateFails, StartFile, StartOfFileIsCut, Asked
<1>6. CASE Refused \/ ConsumeNothing \/ AckPlain \/ CommandFails \/ Disconnect
  BY <1>4, <1>6 DEF Refused, ConsumeNothing, AckPlain, AckNext, AckFails, CommandFails, Disconnect
<1>7. CASE \E n \in AckSizes : AckBySize(n) \/ AckSizeRefused(n) \/ AckSizeFails(n)
  BY <1>4, <1>7 DEF AckBySize, AckSizeRefused, AckSizeFails, AckNext, AckFails
<1> QED  BY <1>1, <1>2, <1>3, <1>5, <1>6, <1>7 DEF Next, Command

\* Whatever a client acknowledged before and whatever is published meanwhile: CONSUME sends what
\* the length at the pointer announces, and from the beginning of a frame an event that was
\* published, whole, as long as no write to the topic was cut or started it a second time.
THEOREM RepliesAreWholePackets == Spec => []RepliesAreFrames
<1>1. Init => TypeOK /\ Framed /\ RepliesAreFrames
  BY TypeInit, FramedInit DEF Init, Answer, RepliesAreFrames
<1>2. TypeOK /\ Framed /\ RepliesAreFrames /\ [Next]_vars => (TypeOK /\ Framed /\ RepliesAreFrames)'
  BY TypeStep, FramedStep, RepliesStep
<1> QED  BY <1>1, <1>2, PTL DEF Spec
=============================================================================
