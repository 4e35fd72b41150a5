------------------------- MODULE TopicDelivery_proofs -------------------------
(***************************************************************************)
(* Theorems about what consumers of a TopicStore are given, and that it     *)
(* implements TopicLog, for every value of the constants that leaves the    *)
(* file a sequence of whole frames.                                        *)
(***************************************************************************)
EXTENDS TopicStore_proofs

USE DEF publisherVars, consumerVars

-----------------------------------------------------------------------------
(* The conditions *)

\* Whatever reaches the file is, once a save is over, the frames of the calls it accepts:
\* writes do not fail; no process dies within a save that is split; a call that appended
\* something and failed is forgotten when the next one opens the topic, or there is none.
SavesAreWhole ==
    /\ "short" \notin Faults /\ "lost" \notin Faults
    /\ SplitWrites => "crash" \notin Faults
    /\ ~Reopen => /\ "alloc" \notin Faults
                  /\ \A p \in Publishers : \A es \in Batches[p] :
                        \A i \in 1..Len(es) : Acceptable(es[i])

\* Nobody sees the first frames of a batch before the last: batches are saved at once.
BatchesAreSavedWhole ==
    SplitWrites => \A p \in Publishers : \A es \in Batches[p] : Len(es) = 1

\* Groups are positioned behind the prologue, by a set_group_pointer() that finds the file.
GroupsStartAtFirstFrame == Positions \subseteq {Len(Prologue)} /\ "open" \notin Faults

Undisturbed == /\ PrivateChunks /\ SplitsHaveOneWriter
               /\ SavesAreWhole /\ BatchesAreSavedWhole /\ GroupsStartAtFirstFrame

-----------------------------------------------------------------------------
(* The inductive invariant *)

\* Frames that lie one behind the other from an offset on, and where the n-th of them ends.
FrameEnd(r) == r.at + HeaderSize + Len(r.event)
EndOf(frames, offset, n) == IF n = 0 THEN offset ELSE FrameEnd(frames[n])
End(frames, offset) == EndOf(frames, offset, Len(frames))
Contiguous(frames, offset) ==
    \A i \in 1..Len(frames) : /\ frames[i].at = EndOf(frames, offset, i - 1)
                              /\ Acceptable(frames[i].event)

\* Where the accepted frames end.
FileEnd == End(stored, Len(Prologue))

\* The file is the prologue, the accepted frames, and what a split save has written so far.
Layout ==
    /\ Contiguous(stored, Len(Prologue))
    /\ Len(file) >= Len(Prologue)
    /\ (\A p \in Publishers : pc[p] /= "saving") => Len(file) = FileEnd
    /\ \A p \in Publishers : pc[p] = "saving" => Len(file) = FileEnd + written[p]

\* The unsaved part of a publisher's Chunk is the frames its call has appended so far, and
\* a header while the payload is still to come.
CallLayout(p) ==
    LET k == chunk[chunkOf[p]]
        unsavedEnd == End(appended[p], k.persisted_size)
    IN  /\ Contiguous(appended[p], k.persisted_size)
        /\ pc[p] \in {"header", "payload"} => Acceptable(event[p])
        /\ pc[p] = "idle" /\ ~Reopen => Len(k.data) = k.persisted_size
        /\ pc[p] = "payload" => Len(k.data) = unsavedEnd + HeaderSize
        /\ pc[p] \in {"header", "next", "save", "saving"} => Len(k.data) = unsavedEnd

\* What a call has appended, what it is appending and what is left are its batch.
Taken(p) == Len(appended[p]) + (IF pc[p] \in {"header", "payload"} THEN 1 ELSE 0)
CallBatch(p) ==
    pc[p] /= "idle" =>
        /\ pc[p] \in {"save", "saving"} => rest[p] = << >>
        /\ \E es \in Batches[p] :
              /\ Len(es) = Taken(p) + Len(rest[p])
              /\ \A i \in 1..Len(appended[p]) : es[i] = appended[p][i].event
              /\ Taken(p) = Len(appended[p]) + 1 => es[Taken(p)] = event[p]
              /\ \A j \in 1..Len(rest[p]) : es[Taken(p) + j] = rest[p][j]

\* What a consumer was given is what was accepted first; its pointer is at the next frame,
\* its Chunk a beginning of the file, and the packet it is reading that frame.
Reads(c) ==
    LET next == Len(delivered[c]) + 1
    IN  /\ HoldsAt(file, 0, Readable(c))
        /\ Len(delivered[c]) <= Len(stored)
        /\ \A i \in 1..Len(delivered[c]) : delivered[c][i] = stored[i].event
        /\ cpc[c] = "new" => delivered[c] = << >>
        /\ cpc[c] /= "new" => ReadPointer(c) = EndOf(stored, Len(Prologue), Len(delivered[c]))
        /\ cpc[c] = "payload" => /\ next <= Len(stored)
                                 /\ packet[c].packet_size = Len(stored[next].event)
                                 /\ packet[c].offset_in_topic = ReadPointer(c)
        /\ cpc[c] = "holding" => PacketEnd(c) = ReadPointer(c)

DeliveryInv == /\ DurableInv /\ Layout
               /\ \A p \in Publishers : CallLayout(p) /\ CallBatch(p)
               /\ \A c \in Consumers : Reads(c)

-----------------------------------------------------------------------------
(* Lemmas about frames that lie one behind the other *)

\* The fields of a record of the history.
LEMMA PlacedFields ==
    ASSUME NEW r \in Placed
    PROVE  /\ r.at \in Int /\ r.event \in Seq(Byte) /\ Len(r.event) \in Nat
           /\ FrameEnd(r) \in Int
BY DEF Placed, FrameEnd, HeaderSize

\* Where a frame ends is an offset.
LEMMA EndOfType ==
    ASSUME NEW s \in Seq(Placed), NEW b \in Int
    PROVE  /\ \A n \in 0..Len(s) : EndOf(s, b, n) \in Int
           /\ End(s, b) \in Int
           /\ s = << >> => End(s, b) = b
<1>1. ASSUME NEW n \in 0..Len(s) PROVE EndOf(s, b, n) \in Int
  <2>1. CASE n = 0
    BY <2>1 DEF EndOf
  <2>2. CASE n \in 1..Len(s)
    <3>1. s[n] \in Placed
      BY <2>2
    <3> QED
      BY <2>2, <3>1, PlacedFields DEF EndOf
  <2> QED
    BY <2>1, <2>2
<1>2. Len(s) \in 0..Len(s)
  OBVIOUS
<1> QED
  BY <1>1, <1>2 DEF End, EndOf

\* Two runs of frames of which the second begins where the first ends are one.
LEMMA ContiguousConcat ==
    ASSUME NEW s \in Seq(Placed), NEW t \in Seq(Placed), NEW b \in Int,
           Contiguous(s, b), Contiguous(t, End(s, b))
    PROVE  /\ Contiguous(s \o t, b)
           /\ End(s \o t, b) = End(t, End(s, b))
<1>1. Len(s) \in Nat /\ Len(t) \in Nat
  OBVIOUS
<1>2. /\ Len(s \o t) = Len(s) + Len(t)
      /\ \A i \in 1..(Len(s) + Len(t)) :
            (s \o t)[i] = IF i <= Len(s) THEN s[i] ELSE t[i - Len(s)]
  BY ConcatProperties
<1>3. ASSUME NEW i \in 1..Len(s) PROVE (s \o t)[i] = s[i]
  BY <1>1, <1>2
<1>4. ASSUME NEW j \in 1..Len(t) PROVE (s \o t)[Len(s) + j] = t[j]
  <2>1. /\ Len(s) + j \in 1..(Len(s) + Len(t)) /\ ~(Len(s) + j <= Len(s))
        /\ Len(s) + j - Len(s) = j
    BY <1>1
  <2> QED
    BY <1>2, <2>1
<1>5. ASSUME NEW n \in 0..Len(s) PROVE EndOf(s \o t, b, n) = EndOf(s, b, n)
  BY <1>3 DEF EndOf
<1>6. ASSUME NEW n \in 0..Len(t) PROVE EndOf(s \o t, b, Len(s) + n) = EndOf(t, End(s, b), n)
  <2>1. CASE n = 0
    <3>1. Len(s) + n = Len(s) /\ Len(s) \in 0..Len(s)
      BY <1>1, <2>1
    <3>2. EndOf(s \o t, b, Len(s)) = EndOf(s, b, Len(s))
      BY <1>5, <3>1
    <3> QED
      BY <2>1, <3>1, <3>2 DEF End, EndOf
  <2>2. CASE n \in 1..Len(t)
    <3>1. Len(s) + n /= 0 /\ n /= 0
      BY <1>1, <2>2
    <3> QED
      BY <1>4, <2>2, <3>1 DEF EndOf
  <2> QED
    BY <2>1, <2>2
<1>7. ASSUME NEW i \in 1..Len(s \o t)
      PROVE  /\ (s \o t)[i].at = EndOf(s \o t, b, i - 1)
             /\ Acceptable((s \o t)[i].event)
  <2>1. CASE i <= Len(s)
    <3>1. i \in 1..Len(s) /\ i - 1 \in 0..Len(s)
      BY <1>1, <1>2, <2>1
    <3>2. (s \o t)[i] = s[i] /\ EndOf(s \o t, b, i - 1) = EndOf(s, b, i - 1)
      BY <1>3, <1>5, <3>1
    <3> QED
      BY <3>1, <3>2 DEF Contiguous
  <2>2. CASE ~(i <= Len(s))
    <3>1. PICK j \in 1..Len(t) : i = Len(s) + j
      <4>1. i - Len(s) \in 1..Len(t) /\ i = Len(s) + (i - Len(s))
        BY <1>1, <1>2, <2>2
      <4> QED
        BY <4>1
    <3>2. j - 1 \in 0..Len(t) /\ i - 1 = Len(s) + (j - 1)
      BY <1>1, <3>1
    <3>3. (s \o t)[i] = t[j] /\ EndOf(s \o t, b, i - 1) = EndOf(t, End(s, b), j - 1)
      BY <1>4, <1>6, <3>1, <3>2
    <3> QED
      BY <3>3 DEF Contiguous
  <2> QED
    BY <2>1, <2>2
<1>8. EndOf(s \o t, b, Len(s) + Len(t)) = EndOf(t, End(s, b), Len(t))
  <2>1. Len(t) \in 0..Len(t)
    BY <1>1
  <2> QED
    BY <1>6, <2>1
<1> QED
  BY <1>2, <1>7, <1>8 DEF Contiguous, End

\* One more frame at the end.
LEMMA ContiguousAppend ==
    ASSUME NEW s \in Seq(Placed), NEW r \in Placed, NEW b \in Int,
           Contiguous(s, b), r.at = End(s, b), Acceptable(r.event)
    PROVE  /\ Contiguous(Append(s, r), b)
           /\ End(Append(s, r), b) = FrameEnd(r)
<1>1. PICK t \in Seq(Placed) : t = <<r>> /\ Len(t) = 1 /\ t[1] = r
  <2>1. <<r>> \in Seq(Placed)
    OBVIOUS
  <2>2. Len(<<r>>) = 1 /\ <<r>>[1] = r
    OBVIOUS
  <2> QED
    BY <2>1, <2>2
<1>2. Contiguous(t, End(s, b)) /\ End(t, End(s, b)) = FrameEnd(r)
  BY <1>1 DEF Contiguous, EndOf, End
<1>3. Append(s, r) = s \o t
  BY <1>1, AppendIsConcat
<1> QED
  BY <1>2, <1>3, ContiguousConcat

\* Frames that are all moved by the same distance.
LEMMA ContiguousMoved ==
    ASSUME NEW s \in Seq(Placed), NEW t \in Seq(Placed), NEW b \in Int, NEW m \in Int,
           Contiguous(s, b), Len(t) = Len(s),
           \A i \in 1..Len(s) : t[i].event = s[i].event /\ t[i].at = s[i].at + m
    PROVE  /\ Contiguous(t, b + m)
           /\ End(t, b + m) = End(s, b) + m
<1>1. Len(s) \in Nat /\ HeaderSize \in Nat
  BY DEF HeaderSize
<1>2. ASSUME NEW n \in 0..Len(s) PROVE EndOf(t, b + m, n) = EndOf(s, b, n) + m
  <2>1. CASE n = 0
    BY <2>1 DEF EndOf
  <2>2. CASE n \in 1..Len(s)
    <3>1. s[n] \in Placed
      BY <2>2
    <3>2. /\ s[n].at \in Int /\ Len(s[n].event) \in Nat
          /\ t[n].event = s[n].event /\ t[n].at = s[n].at + m
      BY <2>2, <3>1, PlacedFields
    <3>3. FrameEnd(t[n]) = FrameEnd(s[n]) + m
      BY <1>1, <3>2 DEF FrameEnd
    <3> QED
      BY <2>2, <3>3 DEF EndOf
  <2> QED
    BY <2>1, <2>2
<1>3. ASSUME NEW i \in 1..Len(t)
      PROVE  t[i].at = EndOf(t, b + m, i - 1) /\ Acceptable(t[i].event)
  <2>1. i \in 1..Len(s) /\ i - 1 \in 0..Len(s)
    BY <1>1
  <2>2. s[i].at = EndOf(s, b, i - 1) /\ Acceptable(s[i].event)
    BY <2>1 DEF Contiguous
  <2> QED
    BY <1>2, <2>1, <2>2
<1>4. Len(s) \in 0..Len(s)
  BY <1>1
<1> QED
  BY <1>2, <1>3, <1>4 DEF Contiguous, End

-----------------------------------------------------------------------------
(* What a step leaves alone *)

\* One publisher at most is in a split save, and then it is the only one.
LEMMA OnlySaver ==
    ASSUME SplitsHaveOneWriter, DurableInv, NEW p \in Publishers, NEW q \in Publishers,
           pc[p] = "saving" \/ SplitWrites
    PROVE  p = q
<1>1. PublishInProgress(p)
  BY DEF DurableInv
<1>2. SplitWrites
  BY <1>1 DEF PublishInProgress
<1> QED
  BY <1>2 DEF SplitsHaveOneWriter

\* A step of another publisher.
LEMMA CallUndisturbed ==
    ASSUME NEW q \in Publishers, CallLayout(q), CallBatch(q),
           chunk'[chunkOf[q]] = chunk[chunkOf[q]], pc'[q] = pc[q], event'[q] = event[q],
           rest'[q] = rest[q], appended'[q] = appended[q]
    PROVE  CallLayout(q)' /\ CallBatch(q)'
<1>1. CallLayout(q)'
  BY DEF CallLayout
<1>2. Taken(q)' = Taken(q)
  BY DEF Taken
<1>3. CallBatch(q)'
  BY <1>2 DEF CallBatch
<1> QED
  BY <1>1, <1>3

\* A step that writes nothing and begins or ends no split save.
LEMMA LayoutUndisturbed ==
    ASSUME Layout, UNCHANGED <<file, stored, written>>,
           \A q \in Publishers : pc'[q] = "saving" <=> pc[q] = "saving"
    PROVE  Layout'
BY DEF Layout, FileEnd

\* A file and a history that only grow leave a consumer where it is.
LEMMA ReadsUndisturbed ==
    ASSUME TypeOK, NEW c \in Consumers, Reads(c),
           NEW t \in Seq(Byte), file' = file \o t,
           NEW s \in Seq(Placed), stored' = stored \o s,
           chunk'[chunkOf[c]] = chunk[chunkOf[c]], UNCHANGED consumerVars
    PROVE  Reads(c)'
<1>1. /\ file \in Seq(Byte) /\ stored \in Seq(Placed) /\ Len(stored) \in Nat /\ Len(s) \in Nat
      /\ Readable(c) \in Seq(Byte) /\ delivered[c] \in Seq(Seq(Byte)) /\ Len(delivered[c]) \in Nat
  <2>1. c \in Publishers \cup Consumers
    OBVIOUS
  <2>2. Readable(c) \in Seq(Byte)
    BY <2>1, ThreadChunkType DEF Readable
  <2>3. file \in Seq(Byte) /\ stored \in Seq(Placed) /\ delivered[c] \in Seq(Seq(Byte))
    BY DEF TypeOK
  <2> QED
    BY <2>2, <2>3
<1>2. HoldsAt(file, 0, Readable(c))'
  <2>1. HoldsAt(file \o t, 0, Readable(c))
    BY <1>1, HoldsAtExtended DEF Reads
  <2> QED
    BY <2>1 DEF Readable
<1>3. /\ Len(stored') = Len(stored) + Len(s)
      /\ \A i \in 1..Len(stored) : stored'[i] = stored[i]
  BY <1>1, ConcatProperties
<1>4. Len(delivered[c]) <= Len(stored)
  BY DEF Reads
<1>5. EndOf(stored', Len(Prologue), Len(delivered[c]))
         = EndOf(stored, Len(Prologue), Len(delivered[c]))
  BY <1>1, <1>3, <1>4 DEF EndOf
<1>6. /\ cpc'[c] = cpc[c] /\ delivered'[c] = delivered[c] /\ packet'[c] = packet[c]
      /\ ReadPointer(c)' = ReadPointer(c) /\ PacketEnd(c)' = PacketEnd(c)
  BY DEF ReadPointer, PacketEnd
<1>7. ASSUME NEW i \in 1..Len(delivered[c]) PROVE delivered[c][i] = stored'[i].event
  <2>1. i \in 1..Len(stored)
    BY <1>1, <1>4
  <2> QED
    BY <1>3, <2>1 DEF Reads
<1>8. cpc[c] = "payload" => /\ Len(delivered[c]) + 1 <= Len(stored')
                            /\ packet[c].packet_size = Len(stored'[Len(delivered[c]) + 1].event)
                            /\ packet[c].offset_in_topic = ReadPointer(c)
  <2> SUFFICES ASSUME cpc[c] = "payload"
               PROVE  /\ Len(delivered[c]) + 1 <= Len(stored')
                      /\ packet[c].packet_size = Len(stored'[Len(delivered[c]) + 1].event)
                      /\ packet[c].offset_in_topic = ReadPointer(c)
    OBVIOUS
  <2>1. /\ Len(delivered[c]) + 1 <= Len(stored)
        /\ packet[c].packet_size = Len(stored[Len(delivered[c]) + 1].event)
        /\ packet[c].offset_in_topic = ReadPointer(c)
    BY DEF Reads
  <2>2. Len(delivered[c]) + 1 \in 1..Len(stored)
    BY <1>1, <2>1
  <2> QED
    BY <1>1, <1>3, <2>1, <2>2
<1>9. Len(delivered[c]) <= Len(stored')
  BY <1>1, <1>3, <1>4
<1> QED
  BY <1>2, <1>5, <1>6, <1>7, <1>8, <1>9 DEF Reads

\* So does a step that leaves file and history as they are.
LEMMA ReadsUnmoved ==
    ASSUME NEW c \in Consumers, Reads(c), UNCHANGED <<file, stored, consumerVars>>,
           chunk'[chunkOf[c]] = chunk[chunkOf[c]]
    PROVE  Reads(c)'
<1>1. Readable(c)' = Readable(c)
  BY DEF Readable
<1>2. /\ cpc'[c] = cpc[c] /\ delivered'[c] = delivered[c] /\ packet'[c] = packet[c]
      /\ ReadPointer(c)' = ReadPointer(c) /\ PacketEnd(c)' = PacketEnd(c)
  BY DEF ReadPointer, PacketEnd
<1>3. file' = file /\ stored' = stored
  OBVIOUS
<1> QED
  BY <1>1, <1>2, <1>3 DEF Reads

-----------------------------------------------------------------------------
(* A publish is accepted *)

\* The frames of the call lie behind those accepted before, and end with the file.
LEMMA AcceptedLayout ==
    ASSUME TypeOK, Layout, NEW p \in Publishers, CallLayout(p), pc[p] \in {"save", "saving"},
           NEW t \in Seq(Byte), file' = file \o t, NEW w \in Nat,
           Len(file) = FileEnd + w,
           Len(t) = Len(chunk[chunkOf[p]].data) - chunk[chunkOf[p]].persisted_size - w,
           Accept(p), \A q \in Publishers : pc'[q] /= "saving"
    PROVE  Layout'
<1>1. PICK d \in Seq(Byte), n \in Nat :
         d = chunk[chunkOf[p]].data /\ n = chunk[chunkOf[p]].persisted_size
  BY ThreadChunkType
<1>2. /\ stored \in Seq(Placed) /\ appended[p] \in Seq(Placed)
      /\ file \in Seq(Byte) /\ Len(file) \in Nat /\ Len(d) \in Nat /\ Len(t) \in Nat
      /\ Len(Prologue) \in Int
  BY DEF TypeOK, Prologue
<1>3. file' \in Seq(Byte) /\ Len(file') = Len(file) + Len(t)
  BY <1>2, ConcatProperties
<1>4. PICK f \in Int, m \in Int :
         f = FileEnd /\ m = Len(file') - Len(d) /\ f = n + m
  <2>1. FileEnd \in Int
    BY <1>2, EndOfType DEF FileEnd
  <2>2. Len(t) = Len(d) - n - w
    BY <1>1
  <2>3. Len(file') - Len(d) \in Int /\ FileEnd = n + (Len(file') - Len(d))
    <3>1. PICK e \in Int, lf \in Int, lt \in Int, ld \in Int :
             e = FileEnd /\ lf = Len(file) /\ lt = Len(t) /\ ld = Len(d)
      BY <1>2, <2>1
    <3>2. lf = e + w /\ lt = ld - n - w /\ Len(file') = lf + lt
      BY <1>3, <2>2, <3>1
    <3>3. lf + lt - ld \in Int /\ e = n + (lf + lt - ld)
      BY <3>2
    <3> QED
      BY <3>1, <3>2, <3>3
  <2> QED
    BY <2>1, <2>3
<1>5. PICK l \in Seq(Placed) :
         /\ l = Landed(p) /\ Len(l) = Len(appended[p])
         /\ \A i \in 1..Len(appended[p]) :
               l[i].event = appended[p][i].event /\ l[i].at = appended[p][i].at + m
  <2>1. /\ Landed(p) \in Seq(Placed) /\ Len(Landed(p)) = Len(appended[p])
        /\ \A i \in 1..Len(appended[p]) :
              /\ Landed(p)[i].event = appended[p][i].event
              /\ Landed(p)[i].at =
                     appended[p][i].at + (Len(file') - Len(chunk[chunkOf[p]].data))
    BY <1>3, LandedType
  <2>2. m = Len(file') - Len(chunk[chunkOf[p]].data)
    BY <1>1, <1>4
  <2> QED
    BY <2>1, <2>2
<1>6. /\ Contiguous(appended[p], n) /\ End(appended[p], n) = Len(d)
  BY <1>1 DEF CallLayout
<1>7. Contiguous(l, f) /\ End(l, f) = Len(d) + m
  <2>1. Contiguous(l, n + m) /\ End(l, n + m) = End(appended[p], n) + m
    <3>1. n \in Int /\ m \in Int /\ appended[p] \in Seq(Placed) /\ l \in Seq(Placed)
      BY <1>2
    <3>2. Contiguous(appended[p], n) /\ Len(l) = Len(appended[p])
      BY <1>5, <1>6
    <3>3. \A i \in 1..Len(appended[p]) :
             l[i].event = appended[p][i].event /\ l[i].at = appended[p][i].at + m
      BY <1>5
    <3> QED
      BY <3>1, <3>2, <3>3, ContiguousMoved
  <2> QED
    BY <1>4, <1>6, <2>1
<1>8. Contiguous(stored, Len(Prologue)) /\ End(stored, Len(Prologue)) = f
  BY <1>4 DEF Layout, FileEnd
<1>9. /\ Contiguous(stored \o l, Len(Prologue))
      /\ End(stored \o l, Len(Prologue)) = Len(d) + m
  BY <1>2, <1>5, <1>7, <1>8, ContiguousConcat
<1>10. stored' = stored \o l
  BY <1>5 DEF Accept
<1>11. Len(file') = FileEnd'
  BY <1>2, <1>3, <1>4, <1>9, <1>10 DEF FileEnd
<1>12. Len(file') >= Len(Prologue)
  BY <1>2, <1>3 DEF Layout
<1> QED
  BY <1>9, <1>10, <1>11, <1>12 DEF Layout

\* What the history gains is a batch, in its order.
LEMMA AcceptedBatch ==
    ASSUME TypeOK, NEW p \in Publishers, CallBatch(p), pc[p] \in {"save", "saving"},
           file' \in Seq(Byte), Accept(p)
    PROVE  \E es \in Batches[p] :
              [i \in 1..Len(stored') |-> stored'[i].event]
                 = [i \in 1..Len(stored) |-> stored[i].event] \o es
<1>1. PICK es \in Batches[p] : /\ Len(es) = Len(appended[p])
                               /\ \A i \in 1..Len(appended[p]) : es[i] = appended[p][i].event
  <2>1. PICK es \in Batches[p] : /\ Len(es) = Taken(p) + Len(rest[p])
                                 /\ \A i \in 1..Len(appended[p]) : es[i] = appended[p][i].event
    BY DEF CallBatch
  <2>2. Len(rest[p]) = 0
    BY DEF CallBatch
  <2>3. Taken(p) = Len(appended[p]) + 0 /\ Len(appended[p]) \in Nat
    BY DEF Taken, TypeOK
  <2> QED
    BY <2>1, <2>2, <2>3
<1>2. es \in Seq(Seq(Byte)) /\ Len(es) \in Nat
  BY TopicStoreAssumption
<1>3. PICK l \in Seq(Placed) : /\ l = Landed(p) /\ Len(l) = Len(es)
                               /\ \A i \in 1..Len(es) : l[i].event = es[i]
  BY <1>1, LandedType
<1>4. stored \in Seq(Placed) /\ stored' = stored \o l /\ Len(stored) \in Nat
  BY <1>3 DEF TypeOK, Accept
<1>5. /\ Len(stored') = Len(stored) + Len(es)
      /\ \A i \in 1..(Len(stored) + Len(es)) :
            stored'[i] = IF i <= Len(stored) THEN stored[i] ELSE l[i - Len(stored)]
  <2>1. /\ Len(stored \o l) = Len(stored) + Len(l)
        /\ \A i \in 1..(Len(stored) + Len(l)) :
              (stored \o l)[i] = IF i <= Len(stored) THEN stored[i] ELSE l[i - Len(stored)]
    BY <1>4, ConcatProperties
  <2> QED
    BY <1>3, <1>4, <2>1
<1> DEFINE log == [i \in 1..Len(stored) |-> stored[i].event]
           newLog == [i \in 1..Len(stored') |-> stored'[i].event]
<1>6. log \in Seq(Seq(Byte)) /\ Len(log) = Len(stored)
  <2>1. \A i \in 1..Len(stored) : stored[i].event \in Seq(Byte)
    BY StoredType
  <2>2. log \in [1..Len(stored) -> Seq(Byte)]
    BY <2>1
  <2> QED
    BY <1>4, <2>2
<1>7. \A i \in 1..Len(stored) : log[i] = stored[i].event
  OBVIOUS
<1>8. newLog = [i \in 1..(Len(stored) + Len(es)) |-> stored'[i].event]
  BY <1>5
<1> HIDE DEF log
<1>9. /\ log \o es \in Seq(Seq(Byte)) /\ Len(log \o es) = Len(stored) + Len(es)
      /\ \A i \in 1..(Len(stored) + Len(es)) :
            (log \o es)[i] = IF i <= Len(stored) THEN log[i] ELSE es[i - Len(stored)]
  <2>1. /\ log \o es \in Seq(Seq(Byte)) /\ Len(log \o es) = Len(log) + Len(es)
        /\ \A i \in 1..(Len(log) + Len(es)) :
              (log \o es)[i] = IF i <= Len(log) THEN log[i] ELSE es[i - Len(log)]
    BY <1>2, <1>6, ConcatProperties
  <2> QED
    BY <1>6, <2>1
<1>10. ASSUME NEW i \in 1..(Len(stored) + Len(es)) PROVE stored'[i].event = (log \o es)[i]
  <2>1. CASE i <= Len(stored)
    <3>1. i \in 1..Len(stored)
      BY <1>4, <2>1
    <3> QED
      BY <1>5, <1>7, <1>9, <2>1, <3>1
  <2>2. CASE ~(i <= Len(stored))
    <3>1. i - Len(stored) \in 1..Len(es)
      BY <1>2, <1>4, <2>2
    <3> QED
      BY <1>3, <1>5, <1>9, <2>2, <3>1
  <2> QED
    BY <2>1, <2>2
<1>11. log \o es = [i \in 1..(Len(stored) + Len(es)) |-> (log \o es)[i]]
  <2>1. log \o es \in [1..Len(log \o es) -> Seq(Byte)]
    BY <1>9, LenProperties
  <2> QED
    BY <1>9, <2>1
<1>12. newLog = log \o es
  BY <1>8, <1>10, <1>11
<1> QED
  BY <1>12 DEF log

-----------------------------------------------------------------------------
(* The steps of a publisher *)

\* The parts of the invariant that a publisher's step starts from.
LEMMA PublisherParts ==
    ASSUME DeliveryInv, NEW p \in Publishers
    PROVE  /\ TypeOK /\ Layout
           /\ PublishInProgress(p) /\ CallLayout(p) /\ CallBatch(p)
           /\ chunkOf[p] \in Chunks /\ DOMAIN chunk = Chunks
           /\ chunk[chunkOf[p]] \in ChunkType(Byte)
           /\ DOMAIN pc = Publishers /\ DOMAIN event = Publishers /\ DOMAIN rest = Publishers
           /\ DOMAIN appended = Publishers /\ DOMAIN written = Publishers
           /\ appended[p] \in Seq(Placed) /\ Len(appended[p]) \in Nat
           /\ event[p] \in Seq(Byte) /\ rest[p] \in Seq(Seq(Byte)) /\ file \in Seq(Byte)
<1>1. TypeOK /\ Layout /\ PublishInProgress(p) /\ CallLayout(p) /\ CallBatch(p)
  BY DEF DeliveryInv, DurableInv
<1>2. chunkOf[p] \in Chunks /\ chunk[chunkOf[p]] \in ChunkType(Byte)
  BY <1>1, ThreadChunkType
<1> QED
  BY <1>1, <1>2 DEF TypeOK

\* A call begins with what the topic's Chunk has unsaved: nothing.
LEMMA BeginDelivery ==
    ASSUME DeliveryInv, NEW p \in Publishers, NEW es \in Batches[p], BeginPublish(p, es)
    PROVE  CallLayout(p)' /\ CallBatch(p)'
<1>1. TypeOK /\ PublishInProgress(p) /\ CallLayout(p) /\ chunkOf[p] \in Chunks
  BY ThreadChunkType DEF DeliveryInv, DurableInv
<1>2. es \in Seq(Seq(Byte)) /\ es /= << >>
  BY TopicStoreAssumption
<1>3. /\ pc[p] = "idle" /\ pc'[p] = "header" /\ event'[p] = Head(es) /\ rest'[p] = Tail(es)
      /\ appended'[p] = appended[p] /\ Acceptable(Head(es)) /\ GetTopic(p)
  BY <1>1 DEF BeginPublish, TypeOK
<1>4. appended'[p] = << >> /\ Len(appended'[p]) = 0
  BY <1>1, <1>3 DEF PublishInProgress
<1>5. PICK n \in Nat : /\ chunk'[chunkOf[p]].persisted_size = n
                       /\ Len(chunk'[chunkOf[p]].data) = n
  <2>1. CASE Reopen
    <3>1. Loads(p)
      BY <1>3, <2>1 DEF GetTopic
    <3> QED
      BY <1>1, <3>1, LoadsLeave
  <2>2. CASE ~Reopen
    <3>1. chunk'[chunkOf[p]] = chunk[chunkOf[p]]
      BY <1>3, <2>2 DEF GetTopic
    <3>2. p \in Publishers \cup Consumers
      OBVIOUS
    <3>3. chunk[chunkOf[p]].persisted_size \in Nat
      BY <1>1, <3>2, ThreadChunkType
    <3> QED
      BY <1>1, <1>3, <2>2, <3>1, <3>3 DEF CallLayout
  <2> QED
    BY <2>1, <2>2
<1>6. CallLayout(p)'
  BY <1>3, <1>4, <1>5 DEF CallLayout, Contiguous, End, EndOf
<1>7. Taken(p)' = 1
  BY <1>3, <1>4 DEF Taken
<1>8. /\ Len(es) = 1 + Len(Tail(es)) /\ es[1] = Head(es)
      /\ \A j \in 1..Len(Tail(es)) : es[1 + j] = Tail(es)[j]
  BY <1>2
<1>9. CallBatch(p)'
  BY <1>3, <1>4, <1>7, <1>8 DEF CallBatch
<1> QED
  BY <1>6, <1>9

\* A frame is appended in two steps, behind those of its call.
LEMMA AppendDelivery ==
    ASSUME DeliveryInv, NEW p \in Publishers, AppendHeader(p) \/ AppendPayload(p)
    PROVE  CallLayout(p)' /\ CallBatch(p)'
<1>0. /\ TypeOK /\ CallLayout(p) /\ CallBatch(p)
      /\ chunkOf[p] \in Chunks /\ DOMAIN chunk = Chunks /\ DOMAIN pc = Publishers
      /\ DOMAIN appended = Publishers
      /\ appended[p] \in Seq(Placed) /\ Len(appended[p]) \in Nat
      /\ event[p] \in Seq(Byte) /\ rest[p] \in Seq(Seq(Byte))
  BY PublisherParts
<1>1. PICK k \in ChunkType(Byte), d \in Seq(Byte), n \in Nat, l \in Nat :
         k = chunk[chunkOf[p]] /\ d = k.data /\ n = k.persisted_size /\ l = Len(d)
  <2>1. chunk[chunkOf[p]] \in ChunkType(Byte)
    BY PublisherParts
  <2> QED
    BY <2>1 DEF ChunkType
<1>2. PICK e \in Seq(Byte), m \in Nat : e = event[p] /\ m = Len(e)
  BY <1>0
<1>3. PICK u \in Int : u = End(appended[p], n)
  BY <1>0, EndOfType
<1>4. Contiguous(appended[p], n)
  BY <1>0, <1>1 DEF CallLayout
<1>5. ASSUME AppendHeader(p) PROVE CallLayout(p)' /\ CallBatch(p)'
  <2>1. /\ pc[p] = "header" /\ pc'[p] = "payload"
        /\ UNCHANGED <<event, rest, appended>>
    BY <1>0, <1>5 DEF AppendHeader
  <2>2. PICK h \in Seq(Byte) : h = EncodeSize(m) /\ Len(h) = HeaderSize
    BY EncodeSizeType
  <2>3. chunk'[chunkOf[p]] = ChunkAppend(k, h)
    BY <1>0, <1>1, <1>2, <1>5, <2>2 DEF AppendHeader
  <2>4. chunk'[chunkOf[p]].data = d \o h /\ chunk'[chunkOf[p]].persisted_size = n
    BY <1>1, <2>3 DEF ChunkAppend, ChunkType
  <2>5. Len(d \o h) = l + HeaderSize
    BY <1>1, <2>2, ConcatProperties
  <2>6. l = u /\ Acceptable(event[p])
    BY <1>0, <1>1, <1>3, <2>1 DEF CallLayout
  <2>7. CallLayout(p)'
    BY <1>3, <1>4, <2>1, <2>4, <2>5, <2>6 DEF CallLayout
  <2>8. Taken(p)' = Taken(p)
    BY <2>1 DEF Taken
  <2>9. CallBatch(p)'
    BY <1>0, <2>1, <2>8 DEF CallBatch
  <2> QED
    BY <2>7, <2>9
<1>6. ASSUME AppendPayload(p) PROVE CallLayout(p)' /\ CallBatch(p)'
  <2>1. /\ pc[p] = "payload" /\ pc'[p] = IF rest[p] = << >> THEN "save" ELSE "next"
        /\ UNCHANGED <<event, rest>>
    BY <1>0, <1>6 DEF AppendPayload
  <2>2. l = u + HeaderSize /\ Acceptable(e)
    BY <1>0, <1>1, <1>2, <1>3, <2>1 DEF CallLayout
  <2>3. PICK r \in Placed : r = [at |-> l - HeaderSize, event |-> e]
    <3>1. PICK a \in Int : a = l - HeaderSize
      BY DEF HeaderSize
    <3>2. [at |-> a, event |-> e] \in Placed
      BY DEF Placed
    <3> QED
      BY <3>1, <3>2
  <2>4. r.at = u /\ r.event = e /\ FrameEnd(r) = l + m
    BY <1>2, <2>2, <2>3 DEF FrameEnd, HeaderSize
  <2>5. appended'[p] = Append(appended[p], r)
    BY <1>0, <1>1, <1>2, <1>6, <2>3 DEF AppendPayload
  <2>6. Contiguous(appended'[p], n) /\ End(appended'[p], n) = l + m
    BY <1>0, <1>3, <1>4, <2>2, <2>4, <2>5, ContiguousAppend
  <2>7. chunk'[chunkOf[p]] = ChunkAppend(k, e)
    BY <1>0, <1>1, <1>2, <1>6 DEF AppendPayload
  <2>8. chunk'[chunkOf[p]].data = d \o e /\ chunk'[chunkOf[p]].persisted_size = n
    BY <1>1, <2>7 DEF ChunkAppend, ChunkType
  <2>9. Len(d \o e) = l + m
    BY <1>1, <1>2, ConcatProperties
  <2>10. pc'[p] \in {"save", "next"}
    BY <2>1
  <2>11. CallLayout(p)'
    <3>1. /\ pc'[p] /= "idle" /\ pc'[p] /= "payload" /\ pc'[p] /= "header"
      BY <2>10
    <3> QED
      BY <2>6, <2>8, <2>9, <3>1 DEF CallLayout
  <2>12. /\ Len(appended'[p]) = Len(appended[p]) + 1
         /\ appended'[p][Len(appended[p]) + 1] = r
         /\ \A i \in 1..Len(appended[p]) : appended'[p][i] = appended[p][i]
    BY <1>0, <2>5
  <2>13. Taken(p) = Len(appended[p]) + 1 /\ Taken(p)' = Len(appended[p]) + 1
    <3>1. Taken(p) = Len(appended[p]) + 1
      BY <2>1 DEF Taken
    <3>2. Taken(p)' = Len(appended[p]) + 1 + 0
      BY <2>10, <2>12 DEF Taken
    <3> QED
      BY <1>0, <3>1, <3>2
  <2>14. PICK es \in Batches[p] :
            /\ Len(es) = Taken(p) + Len(rest[p])
            /\ \A i \in 1..Len(appended[p]) : es[i] = appended[p][i].event
            /\ Taken(p) = Len(appended[p]) + 1 => es[Taken(p)] = event[p]
            /\ \A j \in 1..Len(rest[p]) : es[Taken(p) + j] = rest[p][j]
    BY <1>0, <2>1 DEF CallBatch
  <2>15. ASSUME NEW i \in 1..Len(appended'[p]) PROVE es[i] = appended'[p][i].event
    <3>1. i \in 1..Len(appended[p]) \/ i = Len(appended[p]) + 1
      BY <1>0, <2>12
    <3>2. CASE i \in 1..Len(appended[p])
      BY <2>12, <2>14, <3>2
    <3>3. CASE i = Len(appended[p]) + 1
      BY <1>2, <2>4, <2>12, <2>13, <2>14, <3>3
    <3> QED
      BY <3>1, <3>2, <3>3
  <2>16. Taken(p)' /= Len(appended'[p]) + 1
    BY <1>0, <2>12, <2>13
  <2>17. pc'[p] \in {"save", "saving"} => rest'[p] = << >>
    BY <2>1
  <2>18. CallBatch(p)'
    BY <2>1, <2>13, <2>14, <2>15, <2>16, <2>17 DEF CallBatch
  <2> QED
    BY <2>11, <2>18
<1> QED
  BY <1>5, <1>6

\* The next element of the batch is taken.
LEMMA NextElementDelivery ==
    ASSUME DeliveryInv, NEW p \in Publishers, NextElement(p)
    PROVE  CallLayout(p)' /\ CallBatch(p)'
<1>0. /\ TypeOK /\ CallLayout(p) /\ CallBatch(p)
      /\ DOMAIN pc = Publishers /\ DOMAIN event = Publishers /\ DOMAIN rest = Publishers
      /\ Len(appended[p]) \in Nat /\ rest[p] \in Seq(Seq(Byte))
  BY PublisherParts
<1>1. /\ pc[p] = "next" /\ pc'[p] = "header" /\ Acceptable(Head(rest[p]))
      /\ event'[p] = Head(rest[p]) /\ rest'[p] = Tail(rest[p])
      /\ UNCHANGED <<chunk, appended>>
  BY <1>0 DEF NextElement
<1>2. rest[p] /= << >>
  BY <1>0, <1>1 DEF TypeOK
<1>3. CallLayout(p)'
  BY <1>0, <1>1 DEF CallLayout
<1>4. Taken(p) = Len(appended[p]) /\ Taken(p)' = Len(appended[p]) + 1
  BY <1>0, <1>1 DEF Taken
<1>5. PICK n \in Nat, l \in Nat : n = Len(rest[p]) /\ n >= 1 /\ l = Len(appended[p])
  <2>1. Len(rest[p]) \in Nat /\ Len(rest[p]) /= 0
    BY <1>0, <1>2, EmptySeq
  <2>2. PICK n \in Nat : n = Len(rest[p]) /\ n >= 1
    <3>1. Len(rest[p]) >= 1
      BY <2>1
    <3> QED
      BY <2>1, <3>1
  <2>3. Len(appended[p]) \in Nat
    BY <1>0
  <2> QED
    BY <2>2, <2>3
<1>6. /\ Len(rest'[p]) = n - 1 /\ event'[p] = rest[p][1]
      /\ \A j \in 1..(n - 1) : rest'[p][j] = rest[p][j + 1]
  BY <1>0, <1>1, <1>2, <1>5
<1>7. PICK es \in Batches[p] :
         /\ Len(es) = Taken(p) + n
         /\ \A i \in 1..Len(appended[p]) : es[i] = appended[p][i].event
         /\ \A j \in 1..n : es[Taken(p) + j] = rest[p][j]
  BY <1>0, <1>1, <1>5 DEF CallBatch
<1>8. Len(es) = Taken(p)' + Len(rest'[p])
  BY <1>0, <1>4, <1>6, <1>7
<1>9. es[Taken(p)'] = event'[p]
  <2>1. 1 \in 1..n
    BY <1>5
  <2> QED
    BY <1>4, <1>6, <1>7, <2>1
<1>10. ASSUME NEW j \in 1..Len(rest'[p]) PROVE es[Taken(p)' + j] = rest'[p][j]
  <2>1. j \in 1..(n - 1)
    BY <1>6
  <2>2. j + 1 \in 1..n
    BY <2>1
  <2>3. Taken(p)' = l + 1 /\ Taken(p) = l
    BY <1>4, <1>5
  <2>4. Taken(p)' + j = Taken(p) + (j + 1)
    <3>1. l + 1 + j = l + (j + 1)
      BY <2>1
    <3> QED
      BY <2>3, <3>1
  <2> QED
    BY <1>6, <1>7, <2>1, <2>2, <2>4
<1>11. CallBatch(p)'
  BY <1>1, <1>7, <1>8, <1>9, <1>10 DEF CallBatch
<1> QED
  BY <1>3, <1>11

\* A call that returns leaves nothing of itself behind but in its Chunk.
LEMMA ReturnDelivery ==
    ASSUME NEW p \in Publishers, pc'[p] = "idle", appended'[p] = << >>,
           Reopen \/ Len(chunk'[chunkOf[p]].data) = chunk'[chunkOf[p]].persisted_size
    PROVE  CallLayout(p)' /\ CallBatch(p)'
BY DEF CallLayout, CallBatch, Contiguous

\* A call that fails after it appended something does so in a server that will load the
\* Chunk anew.
LEMMA FailureDelivery ==
    ASSUME SavesAreWhole, DeliveryInv, NEW p \in Publishers, RefuseElement(p) \/ AppendFails(p)
    PROVE  CallLayout(p)' /\ CallBatch(p)'
<1>0. /\ TypeOK /\ CallLayout(p) /\ CallBatch(p)
      /\ DOMAIN pc = Publishers /\ DOMAIN appended = Publishers
      /\ Len(appended[p]) \in Nat /\ rest[p] \in Seq(Seq(Byte))
  BY PublisherParts
<1>1. pc'[p] = "idle" /\ appended'[p] = << >>
  BY <1>0 DEF RefuseElement, AppendFails, Return
<1>2. ASSUME ~Reopen, RefuseElement(p) PROVE FALSE
  <2>1. pc[p] = "next" /\ ~Acceptable(Head(rest[p])) /\ rest[p] /= << >>
    BY <1>0, <1>2 DEF RefuseElement, TypeOK
  <2>2. PICK es \in Batches[p] :
           /\ Len(es) = Taken(p) + Len(rest[p])
           /\ \A j \in 1..Len(rest[p]) : es[Taken(p) + j] = rest[p][j]
    BY <1>0, <2>1 DEF CallBatch
  <2>3. Taken(p) \in Nat
    BY <1>0, <2>1 DEF Taken
  <2>4. 1 \in 1..Len(rest[p]) /\ Head(rest[p]) = rest[p][1]
    BY <1>0, <2>1
  <2>5. Taken(p) + 1 \in 1..Len(es)
    BY <1>0, <2>2, <2>3, <2>4
  <2> QED
    BY <1>2, <2>1, <2>2, <2>4, <2>5 DEF SavesAreWhole
<1>3. ASSUME ~Reopen, AppendFails(p) PROVE FALSE
  BY <1>3 DEF AppendFails, Fault, SavesAreWhole
<1> QED
  BY <1>1, <1>2, <1>3, ReturnDelivery

\* Where a program keeps its Chunk and no call is in progress, it has nothing to flush.
LEMMA NothingToFlush ==
    ASSUME DeliveryInv, NEW p \in Publishers, ~Reopen, pc[p] = "idle"
    PROVE  Delta(chunk[chunkOf[p]]) = << >>
<1>1. CallLayout(p) /\ chunk[chunkOf[p]] \in ChunkType(Byte)
  BY PublisherParts
<1>2. Len(chunk[chunkOf[p]].data) = chunk[chunkOf[p]].persisted_size
  BY <1>1 DEF CallLayout
<1>3. /\ Delta(chunk[chunkOf[p]]) \in Seq(Byte)
      /\ Len(Delta(chunk[chunkOf[p]])) = IF chunk[chunkOf[p]].persisted_size <= Len(chunk[chunkOf[p]].data)
                              THEN Len(chunk[chunkOf[p]].data) - chunk[chunkOf[p]].persisted_size ELSE 0
  BY <1>1, DeltaType
<1>4. chunk[chunkOf[p]].persisted_size \in Nat
  BY <1>1 DEF ChunkType
<1>5. Len(Delta(chunk[chunkOf[p]])) = 0
  BY <1>2, <1>3, <1>4
<1> QED
  BY <1>3, <1>5

\* get_topic_size() makes the Chunk the file.
LEMMA GetTopicSizeDelivery ==
    ASSUME DeliveryInv, NEW p \in Publishers, GetTopicSize(p)
    PROVE  CallLayout(p)' /\ CallBatch(p)'
<1>0. /\ TypeOK /\ PublishInProgress(p) /\ chunkOf[p] \in Chunks /\ DOMAIN chunk = Chunks
  BY PublisherParts
<1>1. pc[p] = "idle" /\ UNCHANGED <<pc, appended>> /\ Loads(p)
  BY DEF GetTopicSize
<1>2. appended'[p] = << >>
  BY <1>0, <1>1 DEF PublishInProgress
<1>3. Len(chunk'[chunkOf[p]].data) = chunk'[chunkOf[p]].persisted_size
  BY <1>0, <1>1, LoadsLeave
<1> QED
  BY <1>1, <1>2, <1>3, ReturnDelivery

\* The first part of a split save is what the file has more than the accepted frames.
LEMMA FirstPartDelivery ==
    ASSUME SplitsHaveOneWriter, DeliveryInv, NEW p \in Publishers, SaveFirstPart(p)
    PROVE  Layout' /\ CallLayout(p)' /\ CallBatch(p)'
<1>0. /\ TypeOK /\ Layout /\ CallLayout(p) /\ CallBatch(p)
      /\ DOMAIN pc = Publishers /\ DOMAIN written = Publishers
      /\ chunk[chunkOf[p]] \in ChunkType(Byte) /\ file \in Seq(Byte) /\ Len(file) \in Nat
      /\ Len(Prologue) \in Nat /\ Delta(chunk[chunkOf[p]]) \in Seq(Byte)
  <2>1. /\ TypeOK /\ Layout /\ CallLayout(p) /\ CallBatch(p)
        /\ DOMAIN pc = Publishers /\ DOMAIN written = Publishers
        /\ chunk[chunkOf[p]] \in ChunkType(Byte) /\ file \in Seq(Byte)
    BY PublisherParts
  <2>2. Delta(chunk[chunkOf[p]]) \in Seq(Byte)
    BY <2>1, DeltaType
  <2> QED
    BY <2>1, <2>2 DEF Prologue
<1>1. /\ pc[p] = "save" /\ pc'[p] = "saving" /\ SplitWrites
      /\ UNCHANGED <<chunk, event, rest, appended, stored>>
  BY <1>0 DEF SaveFirstPart
<1>2. \A q \in Publishers : q = p
  BY <1>1, OnlySaver DEF DeliveryInv
<1>3. PICK m \in 1..(Len(Delta(chunk[chunkOf[p]])) - 1) :
         /\ file' = file \o SubSeq(Delta(chunk[chunkOf[p]]), 1, m)
         /\ written'[p] = m
  BY <1>0 DEF SaveFirstPart
<1>4. PICK t \in Seq(Byte) : t = SubSeq(Delta(chunk[chunkOf[p]]), 1, m) /\ Len(t) = m
  <2>1. m \in Int /\ m >= 1 /\ m <= Len(Delta(chunk[chunkOf[p]]))
    BY <1>0
  <2>2. /\ SubSeq(Delta(chunk[chunkOf[p]]), 1, m) \in Seq(Byte)
        /\ Len(SubSeq(Delta(chunk[chunkOf[p]]), 1, m)) = IF 1 <= m THEN m - 1 + 1 ELSE 0
    BY <1>0, <2>1, SubSeqType
  <2>3. m - 1 + 1 = m /\ 1 <= m
    BY <2>1
  <2> QED
    BY <2>2, <2>3
<1>5. Len(file') = Len(file) + m /\ m \in Nat
  BY <1>0, <1>3, <1>4, ConcatProperties
<1>6. Len(file) = FileEnd /\ FileEnd' = FileEnd
  BY <1>0, <1>1, <1>2 DEF Layout, FileEnd
<1>7. Layout'
  <2>1. Len(file') >= Len(Prologue)
    BY <1>0, <1>5 DEF Layout
  <2>2. Contiguous(stored', Len(Prologue))
    BY <1>0, <1>1 DEF Layout
  <2>3. Len(file') = FileEnd' + written'[p]
    BY <1>3, <1>5, <1>6
  <2> QED
    BY <1>1, <1>2, <2>1, <2>2, <2>3 DEF Layout
<1>8. CallLayout(p)'
  BY <1>0, <1>1 DEF CallLayout
<1>9. Taken(p)' = Taken(p)
  BY <1>1 DEF Taken
<1>10. CallBatch(p)'
  BY <1>0, <1>1, <1>9 DEF CallBatch
<1> QED
  BY <1>7, <1>8, <1>10

\* A save that ends leaves the accepted frames and nothing else.
LEMMA SaveDelivery ==
    ASSUME SplitsHaveOneWriter, DeliveryInv, NEW p \in Publishers, SaveWhole(p) \/ SaveRest(p)
    PROVE  Layout' /\ CallLayout(p)' /\ CallBatch(p)'
<1>0. /\ TypeOK /\ Layout /\ PublishInProgress(p) /\ CallLayout(p)
      /\ chunkOf[p] \in Chunks /\ DOMAIN chunk = Chunks
      /\ DOMAIN pc = Publishers /\ DOMAIN appended = Publishers
      /\ chunk[chunkOf[p]] \in ChunkType(Byte)
  BY PublisherParts
<1>1. /\ pc[p] \in {"save", "saving"} /\ pc'[p] = "idle" /\ appended'[p] = << >> /\ Accept(p)
      /\ \A q \in Publishers : q /= p => pc'[q] = pc[q]
      /\ chunk'[chunkOf[p]] = Synced(chunk[chunkOf[p]])
  BY <1>0 DEF SaveWhole, SaveRest, Return
<1>2. Len(chunk'[chunkOf[p]].data) = chunk'[chunkOf[p]].persisted_size
  BY <1>0, <1>1 DEF Synced, ChunkType
<1>3. CallLayout(p)' /\ CallBatch(p)'
  BY <1>1, <1>2, ReturnDelivery
<1>4. ASSUME NEW q \in Publishers, pc[q] = "saving" PROVE q = p
  BY <1>4, OnlySaver DEF DeliveryInv
<1>5. \A q \in Publishers : pc'[q] /= "saving"
  BY <1>1, <1>4
<1>6. PICK k \in ChunkType(Byte), d \in Seq(Byte), n \in Nat, u \in Nat :
         k = chunk[chunkOf[p]] /\ d = k.data /\ n = k.persisted_size /\ u = Len(d) - n
  <2>1. /\ chunk[chunkOf[p]].data \in Seq(Byte) /\ chunk[chunkOf[p]].persisted_size \in Nat
    BY <1>0 DEF ChunkType
  <2>2. Len(chunk[chunkOf[p]].data) - chunk[chunkOf[p]].persisted_size >= 0
    BY <1>0 DEF PublishInProgress
  <2>3. Len(chunk[chunkOf[p]].data) - chunk[chunkOf[p]].persisted_size \in Nat
    BY <2>1, <2>2
  <2> QED
    BY <1>0, <2>1, <2>3
<1>7. Delta(k) \in Seq(Byte) /\ Len(Delta(k)) = u
  <2>1. /\ Delta(k) \in Seq(Byte)
        /\ Len(Delta(k)) = IF n <= Len(d) THEN Len(d) - n ELSE 0
    BY <1>6, DeltaType
  <2>2. n <= Len(d)
    BY <1>6
  <2> QED
    BY <1>6, <2>1, <2>2
<1>8. CASE SaveWhole(p)
  <2>1. pc[p] = "save" /\ file' = file \o Delta(k)
    BY <1>6, <1>8 DEF SaveWhole
  <2>2. \A q \in Publishers : pc[q] /= "saving"
    BY <1>4, <2>1
  <2>3. Len(file) = FileEnd + 0
    <3>1. FileEnd \in Int
      BY <1>0, EndOfType DEF FileEnd, TypeOK, Prologue
    <3> QED
      BY <1>0, <2>2, <3>1 DEF Layout
  <2>4. Len(Delta(k)) = Len(chunk[chunkOf[p]].data) - chunk[chunkOf[p]].persisted_size - 0
    BY <1>6, <1>7
  <2>5. Layout'
    BY <1>0, <1>1, <1>5, <1>7, <2>1, <2>3, <2>4, AcceptedLayout
  <2> QED
    BY <1>3, <2>5
<1>9. CASE SaveRest(p)
  <2>1. pc[p] = "saving" /\ file' = file \o Rest(p, written[p])
    BY <1>9 DEF SaveRest
  <2>2. PICK w \in Nat : w = written[p] /\ w < u
    BY <1>0, <1>6, <2>1 DEF PublishInProgress, TypeOK
  <2>3. Rest(p, w) \in Seq(Byte) /\ Len(Rest(p, w)) = u - w
    <3>1. Rest(p, w) = SubSeq(Delta(k), w + 1, Len(Delta(k)))
      BY <1>6 DEF Rest
    <3>2. /\ SubSeq(Delta(k), w + 1, Len(Delta(k))) \in Seq(Byte)
          /\ Len(SubSeq(Delta(k), w + 1, Len(Delta(k))))
                = IF w <= Len(Delta(k)) THEN Len(Delta(k)) - w ELSE 0
      BY <1>7, TailType
    <3>3. w <= u
      BY <2>2
    <3> QED
      BY <1>7, <3>1, <3>2, <3>3
  <2>4. Len(file) = FileEnd + w
    BY <1>0, <2>1, <2>2 DEF Layout
  <2>5. Len(Rest(p, w)) = Len(chunk[chunkOf[p]].data) - chunk[chunkOf[p]].persisted_size - w
    BY <1>6, <2>3
  <2>6. Layout'
    BY <1>0, <1>1, <1>5, <2>1, <2>2, <2>3, <2>4, <2>5, AcceptedLayout
  <2> QED
    BY <1>3, <2>6
<1> QED
  BY <1>8, <1>9

\* The steps by which a publisher disturbs no other thread.
LEMMA PublishLeavesOthers ==
    ASSUME PrivateChunks, DeliveryInv, NEW p \in Publishers,
           \/ \E es \in Batches[p] : BeginPublish(p, es)
           \/ GetTopicSize(p) \/ PublishStep(p) \/ AppendFails(p)
    PROVE  /\ UNCHANGED consumerVars
           /\ \A c \in Consumers : chunk'[chunkOf[c]] = chunk[chunkOf[c]]
           /\ \A q \in Publishers :
                 q /= p => /\ chunk'[chunkOf[q]] = chunk[chunkOf[q]]
                           /\ pc'[q] = pc[q] /\ event'[q] = event[q] /\ rest'[q] = rest[q]
                           /\ appended'[q] = appended[q]
<1>0. /\ TypeOK /\ chunkOf[p] \in Chunks /\ DOMAIN chunk = Chunks
      /\ DOMAIN pc = Publishers /\ DOMAIN event = Publishers /\ DOMAIN rest = Publishers
      /\ DOMAIN appended = Publishers
  BY PublisherParts
<1>1. ASSUME NEW k \in Chunks, k /= chunkOf[p] PROVE chunk'[k] = chunk[k]
  <2>1. CASE \/ \E es \in Batches[p] : BeginPublish(p, es)
             \/ GetTopicSize(p) \/ AppendFails(p)
    <3>1. UNCHANGED chunk \/ Loads(p)
      BY <2>1 DEF BeginPublish, GetTopic, GetTopicSize, AppendFails
    <3> QED
      BY <1>0, <1>1, <3>1, LoadsLeave
  <2>2. CASE AppendHeader(p) \/ AppendPayload(p) \/ NextElement(p) \/ RefuseElement(p)
    BY <1>0, <1>1, <2>2 DEF AppendHeader, AppendPayload, NextElement, RefuseElement
  <2>3. CASE SaveWhole(p) \/ SaveFirstPart(p) \/ SaveRest(p)
    BY <1>0, <1>1, <2>3 DEF SaveWhole, SaveFirstPart, SaveRest
  <2> QED
    BY <2>1, <2>2, <2>3 DEF PublishStep
<1>2. ASSUME NEW q \in Publishers, q /= p
      PROVE  /\ pc'[q] = pc[q] /\ event'[q] = event[q] /\ rest'[q] = rest[q]
             /\ appended'[q] = appended[q]
  <2>1. CASE \/ \E es \in Batches[p] : BeginPublish(p, es)
             \/ GetTopicSize(p) \/ AppendFails(p)
    BY <1>0, <1>2, <2>1 DEF BeginPublish, GetTopicSize, AppendFails, Return
  <2>2. CASE AppendHeader(p) \/ AppendPayload(p) \/ NextElement(p) \/ RefuseElement(p)
    BY <1>0, <1>2, <2>2 DEF AppendHeader, AppendPayload, NextElement, RefuseElement, Return
  <2>3. CASE SaveWhole(p) \/ SaveFirstPart(p) \/ SaveRest(p)
    BY <1>0, <1>2, <2>3 DEF SaveWhole, SaveFirstPart, SaveRest, Return
  <2> QED
    BY <2>1, <2>2, <2>3 DEF PublishStep
<1>3. UNCHANGED consumerVars
  BY DEF BeginPublish, GetTopicSize, AppendFails, PublishStep, AppendHeader, AppendPayload,
         NextElement, RefuseElement, SaveWhole, SaveFirstPart, SaveRest
<1>4. /\ \A q \in Publishers : q /= p => chunkOf[q] /= chunkOf[p]
      /\ \A c \in Consumers : chunkOf[c] /= chunkOf[p]
      /\ \A t \in Publishers \cup Consumers : chunkOf[t] \in Chunks
  BY TopicStoreAssumption DEF PrivateChunks
<1> QED
  BY <1>1, <1>2, <1>3, <1>4

\* What the steps of a publisher add to the file and to the history.
LEMMA PublishAdds ==
    ASSUME DeliveryInv, NEW p \in Publishers,
           \/ \E es \in Batches[p] : BeginPublish(p, es)
           \/ GetTopicSize(p) \/ PublishStep(p) \/ AppendFails(p)
    PROVE  \/ /\ UNCHANGED <<file, stored, written>>
              /\ \A q \in Publishers : pc'[q] = "saving" <=> pc[q] = "saving"
           \/ /\ SaveWhole(p) \/ SaveFirstPart(p) \/ SaveRest(p)
              /\ \E t \in Seq(Byte), s \in Seq(Placed) :
                    file' = file \o t /\ stored' = stored \o s
<1>0. TypeOK /\ DOMAIN pc = Publishers /\ stored \in Seq(Placed) /\ written[p] \in Nat
  BY PublisherParts DEF TypeOK
<1>d. PICK d \in Seq(Byte) : d = Delta(chunk[chunkOf[p]])
  <2>1. chunk[chunkOf[p]] \in ChunkType(Byte)
    BY PublisherParts
  <2> QED
    BY <2>1, DeltaType
<1>1. CASE \/ \E es \in Batches[p] : BeginPublish(p, es)
           \/ GetTopicSize(p) \/ AppendFails(p)
  BY <1>0, <1>1 DEF BeginPublish, GetTopicSize, AppendFails, Return
<1>2. CASE AppendHeader(p) \/ AppendPayload(p) \/ NextElement(p) \/ RefuseElement(p)
  BY <1>0, <1>2 DEF AppendHeader, AppendPayload, NextElement, RefuseElement, Return
<1>3. CASE SaveWhole(p)
  <2>1. file' = file \o d
    BY <1>3, <1>d DEF SaveWhole
  <2>2. PICK s \in Seq(Placed) : stored' = stored \o s
    <3>1. file' \in Seq(Byte)
      BY <1>0, <2>1, ConcatProperties DEF TypeOK
    <3> QED
      BY <1>0, <1>3, <3>1, LandedType DEF SaveWhole, Accept
  <2> QED
    BY <1>3, <2>1, <2>2
<1>4. CASE SaveFirstPart(p)
  <2>1. PICK m \in 1..(Len(d) - 1) : file' = file \o SubSeq(d, 1, m)
    BY <1>4, <1>d DEF SaveFirstPart
  <2>2. SubSeq(d, 1, m) \in Seq(Byte)
    BY SubSeqType
  <2>3. << >> \in Seq(Placed) /\ stored' = stored \o << >>
    BY <1>0, <1>4, ConcatEmptySeq DEF SaveFirstPart
  <2> QED
    BY <1>4, <2>1, <2>2, <2>3
<1>5. CASE SaveRest(p)
  <2>1. PICK t \in Seq(Byte) : file' = file \o t
    <3>1. Rest(p, written[p]) \in Seq(Byte)
      BY <1>0, <1>d, TailType DEF Rest
    <3> QED
      BY <1>5, <3>1 DEF SaveRest
  <2>2. PICK s \in Seq(Placed) : stored' = stored \o s
    <3>1. file' \in Seq(Byte)
      BY <1>0, <2>1, ConcatProperties DEF TypeOK
    <3> QED
      BY <1>0, <1>5, <3>1, LandedType DEF SaveRest, Accept
  <2> QED
    BY <1>5, <2>1, <2>2
<1> QED
  BY <1>1, <1>2, <1>3, <1>4, <1>5 DEF PublishStep

\* The steps of a publisher.
LEMMA PublishDelivery ==
    ASSUME Undisturbed, DeliveryInv, NEW p \in Publishers,
           \/ \E es \in Batches[p] : BeginPublish(p, es)
           \/ Flush(p) \/ GetTopicSize(p)
           \/ PublishStep(p)
           \/ AppendFails(p) \/ SaveFails(p)
    PROVE  DeliveryInv'
<1>0. /\ PrivateChunks /\ SplitsHaveOneWriter /\ SavesAreWhole
      /\ DurableInv /\ TypeOK /\ Layout
  BY DEF Undisturbed, DeliveryInv, DurableInv
<1>1. ~Flush(p) /\ ~SaveFails(p)
  BY <1>0, NothingToFlush DEF Flush, SaveFails, Fault, SavesAreWhole
<1>2. DurableInv'
  BY <1>0, PublishDurable DEF SavesAreWhole
<1>3. CallLayout(p)' /\ CallBatch(p)'
  BY <1>0, <1>1, BeginDelivery, AppendDelivery, NextElementDelivery, FailureDelivery,
     GetTopicSizeDelivery, FirstPartDelivery, SaveDelivery DEF PublishStep
<1>4. Layout'
  BY <1>0, <1>1, PublishAdds, LayoutUndisturbed, FirstPartDelivery, SaveDelivery
<1>5. ASSUME NEW q \in Publishers, q /= p PROVE CallLayout(q)' /\ CallBatch(q)'
  <2>1. CallLayout(q) /\ CallBatch(q)
    BY DEF DeliveryInv
  <2> QED
    BY <1>0, <1>1, <1>5, <2>1, PublishLeavesOthers, CallUndisturbed
<1>6. ASSUME NEW c \in Consumers PROVE Reads(c)'
  <2>1. /\ Reads(c) /\ UNCHANGED consumerVars
        /\ chunk'[chunkOf[c]] = chunk[chunkOf[c]]
    BY <1>0, <1>1, PublishLeavesOthers DEF DeliveryInv
  <2>2. CASE UNCHANGED <<file, stored>>
    BY <2>1, <2>2, ReadsUnmoved
  <2>3. ASSUME NEW t \in Seq(Byte), NEW s \in Seq(Placed),
               file' = file \o t, stored' = stored \o s
        PROVE  Reads(c)'
    BY <1>0, <2>1, <2>3, ReadsUndisturbed
  <2> QED
    BY <1>1, <2>2, <2>3, PublishAdds
<1>7. \A q \in Publishers : CallLayout(q)' /\ CallBatch(q)'
  BY <1>3, <1>5
<1> QED
  BY <1>2, <1>4, <1>6, <1>7 DEF DeliveryInv

-----------------------------------------------------------------------------
(* What a consumer finds at its read pointer *)

\* The header of an acceptable event decodes to its length.
LEMMA HeaderDecodes ==
    ASSUME NEW e \in Seq(Byte), Acceptable(e), NEW r, NEW at \in Nat,
           \A i \in 1..HeaderSize : r[at + i] = Frame(e)[i]
    PROVE  DecodeSize(r, at) = Len(e)
<1>1. Len(e) \in Nat /\ Len(e) < 16777216
  BY TopicStoreAssumption DEF Acceptable
<1>2. \A i \in 1..HeaderSize : r[at + i] = EncodeSize(Len(e))[i]
  BY FrameType
<1> QED
  BY <1>1, <1>2, DecodeEncode

\* The frame behind the first n accepted ones is the next one's, complete.
LEMMA NextFrame ==
    ASSUME DeliveryInv, NEW n \in Nat, n < Len(stored)
    PROVE  LET next == stored[n + 1]
           IN  /\ next \in Placed /\ Acceptable(next.event)
               /\ next.at = EndOf(stored, Len(Prologue), n)
               /\ EndOf(stored, Len(Prologue), n + 1) = FrameEnd(next)
               /\ HoldsAt(file, next.at, Frame(next.event))
<1>1. TypeOK /\ Durable /\ Contiguous(stored, Len(Prologue))
  BY DEF DeliveryInv, DurableInv, Layout
<1>2. stored \in Seq(Placed) /\ Len(stored) \in Nat
  BY <1>1 DEF TypeOK
<1>3. n + 1 \in 1..Len(stored) /\ n + 1 - 1 = n /\ n + 1 /= 0
  BY <1>2
<1>4. stored[n + 1] \in Placed
  BY <1>2, <1>3
<1>5. /\ stored[n + 1].at = EndOf(stored, Len(Prologue), n)
      /\ Acceptable(stored[n + 1].event)
  BY <1>1, <1>3 DEF Contiguous
<1>6. EndOf(stored, Len(Prologue), n + 1) = FrameEnd(stored[n + 1])
  BY <1>3 DEF EndOf
<1>7. HoldsAt(file, stored[n + 1].at, Frame(stored[n + 1].event))
  BY <1>1, <1>3 DEF Durable
<1> QED
  BY <1>4, <1>5, <1>6, <1>7

\* Behind the accepted frames the file has less than a frame whose size can be read.
LEMMA NothingBehind ==
    ASSUME Undisturbed, DeliveryInv, NEW at \in Nat, at = FileEnd, at + HeaderSize <= Len(file)
    PROVE  /\ DecodeSize(file, at) \in Nat
           /\ Len(file) < at + HeaderSize + DecodeSize(file, at)
<1>1. TypeOK /\ Layout /\ file \in Seq(Byte) /\ Len(file) \in Nat /\ HeaderSize \in Nat
  BY DEF DeliveryInv, DurableInv, TypeOK, HeaderSize
<1>2. PICK p \in Publishers : pc[p] = "saving"
  <2>1. CASE \A p \in Publishers : pc[p] /= "saving"
    <3>1. Len(file) = at
      BY <1>1, <2>1 DEF Layout
    <3> QED
      BY <1>1, <3>1 DEF HeaderSize
  <2> QED
    BY <2>1
<1>3. /\ PublishInProgress(p) /\ CallLayout(p) /\ CallBatch(p) /\ TypeOK /\ SplitWrites
      /\ chunk[chunkOf[p]] \in ChunkType(Byte)
      /\ appended[p] \in Seq(Placed) /\ Len(appended[p]) \in Nat
  BY <1>2, PublisherParts DEF PublishInProgress
<1>4. PICK d \in Seq(Byte), n \in Nat, w \in Nat :
         d = chunk[chunkOf[p]].data /\ n = chunk[chunkOf[p]].persisted_size /\ w = written[p]
  BY <1>3 DEF ChunkType, TypeOK
<1>5. Len(file) = at + w
  BY <1>1, <1>2, <1>4 DEF Layout
<1>6. /\ w < Len(d) - n
      /\ \A i \in 1..w : file[Len(file) - w + i] = d[n + i]
      /\ \A i \in 1..Len(appended[p]) : HoldsAt(d, appended[p][i].at, Frame(appended[p][i].event))
  BY <1>2, <1>3, <1>4 DEF PublishInProgress
\* The call saves one frame.
<1>7. Len(appended[p]) = 1
  <2>1. PICK es \in Batches[p] : Len(es) = Taken(p) + Len(rest[p]) /\ rest[p] = << >>
    BY <1>2, <1>3 DEF CallBatch
  <2>2. Len(es) = 1
    BY <1>3 DEF Undisturbed, BatchesAreSavedWhole
  <2>3. Taken(p) = Len(appended[p]) + 0
    BY <1>2 DEF Taken
  <2> QED
    BY <1>3, <2>1, <2>2, <2>3
<1>8. PICK e \in Seq(Byte) : e = appended[p][1].event
  BY <1>3, <1>7, AppendedType
<1>9. appended[p][1].at = n /\ Acceptable(e) /\ Len(d) = n + HeaderSize + Len(e)
  <2>1. Contiguous(appended[p], n) /\ Len(d) = End(appended[p], n)
    BY <1>2, <1>3, <1>4 DEF CallLayout
  <2>2. appended[p][1].at = EndOf(appended[p], n, 0) /\ Acceptable(e)
    BY <1>7, <1>8, <2>1 DEF Contiguous
  <2>3. End(appended[p], n) = FrameEnd(appended[p][1])
    BY <1>7 DEF End, EndOf
  <2> QED
    BY <1>8, <2>1, <2>2, <2>3 DEF EndOf, FrameEnd
<1>10. ASSUME NEW i \in 1..HeaderSize PROVE file[at + i] = Frame(e)[i]
  <2>1. i \in 1..w /\ Len(file) - w + i = at + i
    BY <1>1, <1>5
  <2>2. Len(Frame(e)) = HeaderSize + Len(e) /\ i \in 1..(HeaderSize + Len(e))
    BY <1>1, FrameType
  <2>3. HoldsAt(d, n, Frame(e))
    BY <1>6, <1>7, <1>8, <1>9
  <2>4. d[n + i] = Frame(e)[i]
    BY <2>2, <2>3 DEF HoldsAt
  <2> QED
    BY <1>6, <2>1, <2>4
<1>11. DecodeSize(file, at) = Len(e)
  BY <1>9, <1>10, HeaderDecodes
<1>12. Len(e) \in Nat /\ w < HeaderSize + Len(e)
  BY <1>1, <1>6, <1>9
<1> QED
  BY <1>1, <1>5, <1>11, <1>12

\* A header that consume_packet() accepts is the one of the next accepted frame.
LEMMA HeaderIsNext ==
    ASSUME Undisturbed, DeliveryInv, NEW c \in Consumers, cpc[c] /= "new",
           PacketThere(c, HeaderValue(c))
    PROVE  /\ Len(delivered[c]) + 1 <= Len(stored)
           /\ HeaderValue(c) = Len(stored[Len(delivered[c]) + 1].event)
<1>1. /\ TypeOK /\ Reads(c) /\ file \in Seq(Byte) /\ Len(file) \in Nat
      /\ Len(stored) \in Nat /\ Len(delivered[c]) \in Nat /\ ReadPointer(c) \in Nat
  BY DEF DeliveryInv, DurableInv, TypeOK, ReadPointer
<1>2. PICK r \in Seq(Byte), n \in Nat, m \in Nat, at \in Nat :
         r = Readable(c) /\ n = HeaderValue(c) /\ m = Len(delivered[c]) /\ at = ReadPointer(c)
  <2>1. Readable(c) \in Seq(Byte)
    BY <1>1, ThreadChunkType DEF Readable
  <2> QED
    BY <1>1, <2>1, HeaderValueType
<1>3. /\ at + HeaderSize <= Len(r) /\ n = DecodeSize(r, at)
      /\ at + HeaderSize + n <= Len(r)
  BY <1>2 DEF PacketThere
<1>4. /\ Len(r) \in Nat /\ Len(r) <= Len(file)
      /\ \A i \in 1..Len(r) : file[i] = r[i]
  <2>1. HoldsAt(file, 0, r)
    BY <1>1, <1>2 DEF Reads
  <2>2. \A i \in 1..Len(r) : 0 + i = i
    OBVIOUS
  <2>3. 0 + Len(r) = Len(r) /\ Len(r) \in Nat
    OBVIOUS
  <2> QED
    BY <2>1, <2>2, <2>3 DEF HoldsAt
<1>5. \A i \in 1..HeaderSize : r[at + i] = file[at + i]
  <2>1. \A i \in 1..HeaderSize : at + i \in 1..Len(r)
    BY <1>3, <1>4 DEF HeaderSize
  <2> QED
    BY <1>4, <2>1
<1>6. m <= Len(stored) /\ at = EndOf(stored, Len(Prologue), m)
  BY <1>1, <1>2 DEF Reads
<1>7. m < Len(stored)
  <2> SUFFICES ASSUME m = Len(stored) PROVE FALSE
    BY <1>1, <1>2, <1>6
  <2>1. at = FileEnd /\ at + HeaderSize <= Len(file)
    BY <1>1, <1>3, <1>4, <1>6 DEF FileEnd, End, HeaderSize
  <2>2. DecodeSize(file, at) = n
    BY <1>3, <1>5 DEF DecodeSize, HeaderSize
  <2>3. Len(file) < at + HeaderSize + n
    BY <2>1, <2>2, NothingBehind
  <2> QED
    BY <1>1, <1>3, <1>4, <2>3 DEF HeaderSize
<1>8. PICK e \in Seq(Byte) : /\ e = stored[m + 1].event /\ Acceptable(e)
                             /\ HoldsAt(file, at, Frame(e))
  <2>1. /\ stored[m + 1] \in Placed /\ Acceptable(stored[m + 1].event)
        /\ stored[m + 1].at = at
        /\ HoldsAt(file, stored[m + 1].at, Frame(stored[m + 1].event))
    BY <1>6, <1>7, NextFrame
  <2> QED
    BY <2>1, PlacedFields
<1>9. \A i \in 1..HeaderSize : r[at + i] = Frame(e)[i]
  <2>1. \A i \in 1..HeaderSize : i \in 1..Len(Frame(e))
    BY FrameType DEF HeaderSize
  <2> QED
    BY <1>5, <1>8, <2>1 DEF HoldsAt
<1>10. n = Len(e)
  BY <1>3, <1>8, <1>9, HeaderDecodes
<1> QED
  BY <1>1, <1>2, <1>7, <1>8, <1>10

\* A read that returns as many bytes as were asked for returns the bytes at the offset.
LEMMA ReadInFull ==
    ASSUME NEW k \in ChunkType(Byte), NEW n \in Nat, n > 0, NEW o \in Nat,
           Len(ChunkRead(k, n, o)) = n
    PROVE  /\ ChunkRead(k, n, o) \in Seq(Byte) /\ o + n <= Len(k.data)
           /\ \A i \in 1..n : ChunkRead(k, n, o)[i] = k.data[o + i]
<1>1. PICK r \in Seq(Byte), l \in Nat : r = k.data /\ l = Len(r)
  BY DEF ChunkType
<1>2. ChunkRead(k, n, o) = IF o >= l THEN << >>
                           ELSE IF o + n <= l THEN SubSeq(r, o + 1, o + n)
                           ELSE SubSeq(r, o + 1, Len(r))
  BY <1>1 DEF ChunkRead
<1>3. ~(o >= l)
  <2> SUFFICES ASSUME o >= l PROVE FALSE
    OBVIOUS
  <2>1. ChunkRead(k, n, o) = << >>
    BY <1>2
  <2> QED
    BY <2>1
<1>4. o + n <= l
  <2> SUFFICES ASSUME ~(o + n <= l) PROVE FALSE
    OBVIOUS
  <2>1. ChunkRead(k, n, o) = SubSeq(r, o + 1, Len(r))
    BY <1>2, <1>3
  <2>2. Len(SubSeq(r, o + 1, Len(r))) = IF o <= Len(r) THEN Len(r) - o ELSE 0
    BY TailType
  <2>3. l - o = n
    BY <1>1, <1>3, <2>1, <2>2
  <2> QED
    BY <2>3
<1>5. PICK q : q = ChunkRead(k, n, o)
  OBVIOUS
<1>6. /\ q \in Seq(Byte)
      /\ \A i \in 1..(o + n - (o + 1) + 1) : q[i] = r[o + 1 + i - 1]
  <2>1. o + 1 \in Nat /\ o + 1 >= 1 /\ o + n \in Int /\ o + n <= Len(r)
    BY <1>1, <1>4
  <2>2. q = SubSeq(r, o + 1, o + n)
    BY <1>2, <1>3, <1>4, <1>5
  <2> QED
    BY <2>1, <2>2, SubSeqType
<1>7. ASSUME NEW i \in 1..n PROVE q[i] = r[o + i]
  <2>1. i \in 1..(o + n - (o + 1) + 1) /\ o + 1 + i - 1 = o + i
    OBVIOUS
  <2> QED
    BY <1>6, <2>1
<1> QED
  BY <1>1, <1>4, <1>5, <1>6, <1>7

\* The payload read behind it is the event.
LEMMA PayloadIsNext ==
    ASSUME DeliveryInv, NEW c \in Consumers, cpc[c] = "payload",
           Len(Payload(c)) = packet[c].packet_size
    PROVE  /\ Len(delivered[c]) < Len(stored)
           /\ Payload(c) = stored[Len(delivered[c]) + 1].event
<1>1. /\ TypeOK /\ Reads(c) /\ Len(stored) \in Nat /\ ReadPointer(c) \in Nat
      /\ Len(file) \in Nat
  BY DEF DeliveryInv, DurableInv, TypeOK, ReadPointer
<1>2. PICK r \in Seq(Byte), m \in Nat, at \in Nat :
         r = Readable(c) /\ m = Len(delivered[c]) /\ at = ReadPointer(c)
  <2>1. Readable(c) \in Seq(Byte)
    BY <1>1, ThreadChunkType DEF Readable
  <2>2. Len(delivered[c]) \in Nat
    BY <1>1 DEF TypeOK
  <2> QED
    BY <1>1, <2>1, <2>2
<1>3. /\ m + 1 <= Len(stored) /\ at = EndOf(stored, Len(Prologue), m)
      /\ packet[c].packet_size = Len(stored[m + 1].event)
  BY <1>1, <1>2 DEF Reads
<1>4. m < Len(stored)
  BY <1>1, <1>3
<1>5. PICK e \in Seq(Byte), n \in Nat :
         /\ e = stored[m + 1].event /\ n = Len(e) /\ n > 0
         /\ HoldsAt(file, at, Frame(e))
  <2>1. /\ stored[m + 1] \in Placed /\ Acceptable(stored[m + 1].event)
        /\ stored[m + 1].at = at
        /\ HoldsAt(file, stored[m + 1].at, Frame(stored[m + 1].event))
    BY <1>3, <1>4, NextFrame
  <2>2. PICK e \in Seq(Byte) : e = stored[m + 1].event
    BY <2>1, PlacedFields
  <2>3. Len(e) \in Nat
    OBVIOUS
  <2> QED
    BY <2>1, <2>2, <2>3 DEF Acceptable
<1>6. PICK o \in Nat : o = at + HeaderSize
  BY DEF HeaderSize
<1>7. \A i \in 1..n : file[o + i] = e[i]
  <2>1. ASSUME NEW i \in 1..n PROVE file[o + i] = e[i]
    <3>1. HeaderSize + i \in 1..Len(Frame(e)) /\ Frame(e)[HeaderSize + i] = e[i]
      <4>1. /\ Len(Frame(e)) = HeaderSize + n
            /\ \A j \in 1..n : Frame(e)[HeaderSize + j] = e[j]
        BY <1>5, FrameType
      <4>2. HeaderSize + i \in 1..(HeaderSize + n)
        BY DEF HeaderSize
      <4> QED
        BY <4>1, <4>2
    <3>2. file[at + (HeaderSize + i)] = Frame(e)[HeaderSize + i]
      BY <1>5, <3>1 DEF HoldsAt
    <3>3. at + (HeaderSize + i) = o + i
      BY <1>6 DEF HeaderSize
    <3> QED
      BY <3>1, <3>2, <3>3
  <2> QED
    BY <2>1
<1>8. Len(r) \in Nat /\ \A i \in 1..Len(r) : r[i] = file[i]
  <2>1. HoldsAt(file, 0, r)
    BY <1>1, <1>2 DEF Reads
  <2>2. \A i \in 1..Len(r) : 0 + i = i
    OBVIOUS
  <2> QED
    BY <2>1, <2>2 DEF HoldsAt
<1>9. PICK k \in ChunkType(Byte) : k.data = r /\ Payload(c) = ChunkRead(k, n, o)
  <2>1. chunk[chunkOf[c]] \in ChunkType(Byte)
    BY <1>1, ThreadChunkType
  <2> QED
    BY <1>2, <1>3, <1>5, <1>6, <2>1 DEF Payload, Readable
<1>10. Len(Payload(c)) = n
  BY <1>3, <1>5
<1>11. /\ Payload(c) \in Seq(Byte) /\ o + n <= Len(r)
       /\ \A i \in 1..n : Payload(c)[i] = r[o + i]
  <2>1. Len(ChunkRead(k, n, o)) = n
    BY <1>9, <1>10, Zenon
  <2>2. /\ ChunkRead(k, n, o) \in Seq(Byte) /\ o + n <= Len(k.data)
        /\ \A i \in 1..n : ChunkRead(k, n, o)[i] = k.data[o + i]
    BY <1>5, <2>1, ReadInFull
  <2> QED
    BY <1>9, <2>2, Zenon
<1>12. ASSUME NEW i \in 1..n PROVE Payload(c)[i] = e[i]
  <2>1. o + i \in 1..Len(r)
    BY <1>8, <1>11
  <2> QED
    BY <1>7, <1>8, <1>11, <2>1
<1>13. Payload(c) = e
  BY <1>5, <1>10, <1>11, <1>12, SeqEqual
<1> QED
  BY <1>2, <1>4, <1>5, <1>13

-----------------------------------------------------------------------------
(* The steps of a consumer *)

\* A consumer whose own state a step leaves alone, and whose Chunk it may load anew.
LEMMA ReadsReloaded ==
    ASSUME TypeOK, NEW c \in Consumers, Reads(c), UNCHANGED <<file, stored>>,
           chunk'[chunkOf[c]] \in {chunk[chunkOf[c]], ChunkLoad(file), ChunkLoad(<< >>)},
           cpc'[c] = cpc[c], group'[c] = group[c], packet'[c] = packet[c],
           delivered'[c] = delivered[c]
    PROVE  Reads(c)'
<1>1. HoldsAt(file, 0, Readable(c)')
  <2>1. HoldsAt(file, 0, Readable(c))
    BY DEF Reads
  <2>2. HoldsAt(file, 0, file) /\ HoldsAt(file, 0, << >>)
    BY DEF HoldsAt, TypeOK
  <2>3. Readable(c)' \in {Readable(c), file, << >>}
    BY DEF Readable, ChunkLoad
  <2> QED
    BY <2>1, <2>2, <2>3
<1>2. ReadPointer(c)' = ReadPointer(c) /\ PacketEnd(c)' = PacketEnd(c)
  BY DEF ReadPointer, PacketEnd
<1> QED
  BY <1>1, <1>2 DEF Reads

\* A step that ends up in front of a packet, with the pointer where it was.
LEMMA ReadsKept ==
    ASSUME TypeOK, NEW c \in Consumers, Reads(c), UNCHANGED <<file, stored>>, cpc[c] /= "new",
           chunk'[chunkOf[c]] \in {chunk[chunkOf[c]], ChunkLoad(file), ChunkLoad(<< >>)},
           cpc'[c] \in {"idle", "loaded", "header"}, group'[c] = group[c],
           delivered'[c] = delivered[c]
    PROVE  Reads(c)'
<1>1. HoldsAt(file, 0, Readable(c)')
  <2>1. HoldsAt(file, 0, Readable(c))
    BY DEF Reads
  <2>2. HoldsAt(file, 0, file) /\ HoldsAt(file, 0, << >>)
    BY DEF HoldsAt, TypeOK
  <2>3. Readable(c)' \in {Readable(c), file, << >>}
    BY DEF Readable, ChunkLoad
  <2> QED
    BY <2>1, <2>2, <2>3
<1>2. ReadPointer(c)' = ReadPointer(c)
  BY DEF ReadPointer
<1>3. /\ Len(delivered[c]) <= Len(stored)
      /\ \A i \in 1..Len(delivered[c]) : delivered[c][i] = stored[i].event
      /\ ReadPointer(c) = EndOf(stored, Len(Prologue), Len(delivered[c]))
  BY DEF Reads
<1>4. /\ Len(delivered'[c]) <= Len(stored')
      /\ \A i \in 1..Len(delivered'[c]) : delivered'[c][i] = stored'[i].event
      /\ ReadPointer(c)' = EndOf(stored', Len(Prologue), Len(delivered'[c]))
  <2>1. stored' = stored /\ delivered'[c] = delivered[c]
    OBVIOUS
  <2> QED
    BY <1>2, <1>3, <2>1
<1>5. cpc'[c] /= "new" /\ cpc'[c] /= "payload" /\ cpc'[c] /= "holding"
  OBVIOUS
<1> QED
  BY <1>1, <1>4, <1>5 DEF Reads

\* A new group stands at the first frame.
LEMMA PositionReads ==
    ASSUME GroupsStartAtFirstFrame, DeliveryInv, NEW c \in Consumers, NEW offset \in Positions,
           Position(c, offset)
    PROVE  Reads(c)'
<1>1. /\ TypeOK /\ Reads(c) /\ Layout /\ chunkOf[c] \in Chunks /\ file \in Seq(Byte)
      /\ Len(stored) \in Nat
  BY ThreadChunkType DEF DeliveryInv, DurableInv, TypeOK
<1>0. PICK bytes \in {file, << >>} :
         /\ Load(c, bytes)
         /\ group' = [group EXCEPT ![c].read_pointer = ClampedTo(bytes, offset)]
  BY DEF Position
<1>b. bytes = file /\ chunk'[chunkOf[c]] = ChunkLoad(file)
  BY <1>0, <1>1, LoadType DEF GroupsStartAtFirstFrame
<1>2. /\ cpc[c] = "new" /\ cpc'[c] = "idle"
      /\ UNCHANGED <<file, stored, delivered>>
      /\ ReadPointer(c)' = IF offset > Len(file) THEN Len(file) ELSE offset
  BY <1>0, <1>1, <1>b DEF Position, TypeOK, ReadPointer, ClampedTo
<1>3. delivered[c] = << >>
  BY <1>1, <1>2 DEF Reads
<1>4. ReadPointer(c)' = Len(Prologue)
  <2>1. offset = Len(Prologue) /\ Len(file) >= Len(Prologue)
    BY <1>1 DEF GroupsStartAtFirstFrame, Layout
  <2>2. Len(file) \in Nat /\ Len(Prologue) \in Nat
    BY <1>1 DEF Prologue
  <2> QED
    BY <1>2, <2>1, <2>2
<1>5. HoldsAt(file, 0, Readable(c)')
  BY <1>1, <1>b, <1>2 DEF Readable, ChunkLoad, HoldsAt
<1>6. Len(delivered'[c]) = 0
  BY <1>2, <1>3
<1> QED
  BY <1>1, <1>2, <1>3, <1>4, <1>5, <1>6 DEF Reads, EndOf

\* A packet's size is the next event's.
LEMMA ReadHeaderReads ==
    ASSUME Undisturbed, DeliveryInv, NEW c \in Consumers, ReadHeader(c)
    PROVE  Reads(c)'
<1>1. TypeOK /\ Reads(c)
  BY DEF DeliveryInv, DurableInv
<1>2. /\ cpc[c] = "header" /\ cpc'[c] = "payload" /\ PacketThere(c, HeaderValue(c))
      /\ packet'[c] = [packet_size |-> HeaderValue(c), offset_in_topic |-> ReadPointer(c)]
      /\ UNCHANGED <<file, chunk, group, stored, delivered>>
  BY <1>1 DEF ReadHeader, TypeOK
<1>3. /\ Len(delivered[c]) + 1 <= Len(stored)
      /\ HeaderValue(c) = Len(stored[Len(delivered[c]) + 1].event)
  BY <1>2, HeaderIsNext
<1>4. ReadPointer(c)' = ReadPointer(c) /\ Readable(c)' = Readable(c)
  BY <1>2 DEF ReadPointer, Readable
<1> QED
  BY <1>1, <1>2, <1>3, <1>4 DEF Reads

\* A consumer is given the next event, and its pointer moves behind its frame.
LEMMA ReadPayloadReads ==
    ASSUME DeliveryInv, NEW c \in Consumers, ReadPayload(c)
    PROVE  /\ Reads(c)'
           /\ Len(delivered[c]) < Len(stored)
           /\ Payload(c) = stored[Len(delivered[c]) + 1].event
<1>1. /\ TypeOK /\ Reads(c) /\ delivered[c] \in Seq(Seq(Byte)) /\ Len(stored) \in Nat
      /\ ReadPointer(c) \in Nat /\ packet[c].packet_size \in Nat
  BY DEF DeliveryInv, DurableInv, TypeOK, ReadPointer
<1>2. /\ cpc[c] = "payload" /\ cpc'[c] = "holding"
      /\ Len(Payload(c)) = packet[c].packet_size
      /\ delivered'[c] = Append(delivered[c], Payload(c))
      /\ ReadPointer(c)' = ReadPointer(c) + HeaderSize + packet[c].packet_size
      /\ UNCHANGED <<file, chunk, packet, stored>>
  BY <1>1 DEF ReadPayload, TypeOK, ReadPointer
<1>3. Len(delivered[c]) < Len(stored) /\ Payload(c) = stored[Len(delivered[c]) + 1].event
  BY <1>2, PayloadIsNext
<1>4. PICK m \in Nat : m = Len(delivered[c])
  BY <1>1
<1>5. PICK e \in Seq(Byte) :
         /\ e = stored[m + 1].event /\ e = Payload(c)
         /\ EndOf(stored, Len(Prologue), m + 1)
               = EndOf(stored, Len(Prologue), m) + HeaderSize + Len(e)
  <2>1. /\ stored[m + 1] \in Placed
        /\ stored[m + 1].at = EndOf(stored, Len(Prologue), m)
        /\ EndOf(stored, Len(Prologue), m + 1) = FrameEnd(stored[m + 1])
    BY <1>3, <1>4, NextFrame
  <2> QED
    BY <1>3, <1>4, <2>1, PlacedFields DEF FrameEnd
<1>6. /\ Len(delivered'[c]) = m + 1
      /\ delivered'[c][m + 1] = e
      /\ \A i \in 1..m : delivered'[c][i] = delivered[c][i]
  <2>1. e \in Seq(Byte) /\ delivered'[c] = Append(delivered[c], e)
    BY <1>2, <1>5
  <2> QED
    BY <1>1, <1>4, <2>1, AppendProperties
<1>7. ReadPointer(c)' = EndOf(stored', Len(Prologue), m + 1)
  <2>1. ReadPointer(c) = EndOf(stored, Len(Prologue), m)
    BY <1>1, <1>2, <1>4 DEF Reads
  <2> QED
    BY <1>2, <1>5, <2>1
<1>8. PacketEnd(c)' = ReadPointer(c)'
  <2>1. packet[c].offset_in_topic = ReadPointer(c)
    BY <1>1, <1>2 DEF Reads
  <2> QED
    BY <1>2, <2>1 DEF PacketEnd
<1>9. ASSUME NEW i \in 1..(m + 1) PROVE delivered'[c][i] = stored'[i].event
  <2>1. CASE i \in 1..m
    BY <1>1, <1>2, <1>4, <1>6, <2>1 DEF Reads
  <2>2. CASE i = m + 1
    BY <1>2, <1>5, <1>6, <2>2
  <2> QED
    BY <2>1, <2>2
<1>10. HoldsAt(file, 0, Readable(c))'
  BY <1>1, <1>2 DEF Reads, Readable
<1>11. Len(delivered'[c]) <= Len(stored')
  BY <1>1, <1>2, <1>3, <1>4, <1>6
<1>12. Reads(c)'
  BY <1>2, <1>6, <1>7, <1>8, <1>9, <1>10, <1>11 DEF Reads
<1> QED
  BY <1>3, <1>12

\* An acknowledgement of a packet just read leaves the pointer where it is.
LEMMA AckReads ==
    ASSUME DeliveryInv, NEW c \in Consumers, AckPacket(c)
    PROVE  Reads(c)'
<1>1. TypeOK /\ Reads(c) /\ ReadPointer(c) \in Nat /\ chunkOf[c] \in Chunks
  BY ThreadChunkType DEF DeliveryInv, DurableInv, TypeOK, ReadPointer
<1>2. cpc[c] = "holding" /\ PacketEnd(c) = ReadPointer(c)
  BY <1>1 DEF AckPacket, Reads
<1>3. group' = group
  BY <1>1, <1>2 DEF AckPacket
<1>4. /\ chunk'[chunkOf[c]] \in {ChunkLoad(file), ChunkLoad(<< >>)} /\ cpc'[c] = "idle"
      /\ UNCHANGED <<file, stored, delivered>>
  <2>1. Loads(c)
    BY DEF AckPacket, Loads
  <2> QED
    BY <1>1, <2>1, LoadsLeave DEF AckPacket, TypeOK
<1> QED
  BY <1>1, <1>2, <1>3, <1>4, ReadsKept

\* Every step of a consumer.
LEMMA ConsumeDelivery ==
    ASSUME Undisturbed, DeliveryInv, NEW c \in Consumers, ConsumeStep(c) \/ ConsumeFails(c)
    PROVE  DeliveryInv'
<1>0. /\ TypeOK /\ DurableInv /\ Layout /\ PrivateChunks /\ GroupsStartAtFirstFrame
      /\ DOMAIN chunk = Chunks /\ DOMAIN cpc = Consumers /\ DOMAIN group = Consumers
      /\ DOMAIN packet = Consumers /\ DOMAIN delivered = Consumers /\ chunkOf[c] \in Chunks
  BY ThreadChunkType DEF Undisturbed, DeliveryInv, DurableInv, TypeOK
<1>1. DurableInv'
  BY <1>0, ConsumeDurable
<1>2. UNCHANGED <<file, publisherVars, stored>>
  BY DEF ConsumeStep, ConsumeFails, Position, BeginConsume, NothingToRead, Reload, ReadHeader,
         NoPacketThere, ReadPayload, PayloadGone, AckPacket, Discard
<1>3. /\ \A k \in Chunks : k /= chunkOf[c] => chunk'[k] = chunk[k]
      /\ \A k \in Chunks : chunk'[k] \in {chunk[k], ChunkLoad(file), ChunkLoad(<< >>)}
  BY <1>0, ConsumerLoads
<1>4. Layout'
  BY <1>0, <1>2, LayoutUndisturbed
<1>5. ASSUME NEW p \in Publishers PROVE CallLayout(p)' /\ CallBatch(p)'
  <2>1. chunkOf[p] /= chunkOf[c] /\ chunkOf[p] \in Chunks
    BY <1>0, TopicStoreAssumption DEF PrivateChunks
  <2>2. chunk'[chunkOf[p]] = chunk[chunkOf[p]]
    BY <1>0, <1>3, <2>1
  <2> QED
    BY <1>2, <2>2, CallUndisturbed DEF DeliveryInv
<1>6. ASSUME NEW x \in Consumers, x /= c PROVE Reads(x)'
  <2>1. chunk'[chunkOf[x]] \in {chunk[chunkOf[x]], ChunkLoad(file), ChunkLoad(<< >>)}
    <3>1. chunkOf[x] \in Chunks
      BY TopicStoreAssumption
    <3> QED
      BY <1>0, <1>3, <3>1
  <2>2. /\ cpc'[x] = cpc[x] /\ group'[x] = group[x] /\ packet'[x] = packet[x]
        /\ delivered'[x] = delivered[x]
    BY <1>0, <1>6
    DEF ConsumeStep, ConsumeFails, Position, BeginConsume, NothingToRead, Reload, ReadHeader,
        NoPacketThere, ReadPayload, PayloadGone, AckPacket, Discard
  <2> QED
    BY <1>0, <1>2, <2>1, <2>2, ReadsReloaded DEF DeliveryInv
<1>7. Reads(c)'
  <2>0. Reads(c)
    BY DEF DeliveryInv
  <2>1. CASE \E offset \in Positions : Position(c, offset)
    BY <1>0, <2>1, PositionReads
  <2>2. CASE ReadHeader(c)
    BY <2>2, ReadHeaderReads
  <2>3. CASE ReadPayload(c)
    BY <2>3, ReadPayloadReads
  <2>4. CASE AckPacket(c)
    BY <2>4, AckReads
  <2>5. CASE BeginConsume(c) \/ NothingToRead(c) \/ Reload(c) \/ NoPacketThere(c)
    <3>1. /\ cpc[c] /= "new" /\ cpc'[c] \in {"idle", "loaded", "header"}
          /\ UNCHANGED <<group, delivered>>
      BY <1>0, <2>5 DEF BeginConsume, NothingToRead, Reload, NoPacketThere
    <3>2. chunk'[chunkOf[c]] \in {chunk[chunkOf[c]], ChunkLoad(file), ChunkLoad(<< >>)}
      BY <1>0, <1>3
    <3> QED
      BY <1>0, <1>2, <2>0, <3>1, <3>2, ReadsKept
  <2>6. CASE PayloadGone(c) \/ ConsumeFails(c) \/ Discard(c)
    <3>1. /\ cpc[c] /= "new" /\ cpc'[c] = "idle"
          /\ UNCHANGED <<chunk, group, delivered>>
      BY <1>0, <2>6 DEF PayloadGone, ConsumeFails, Discard
    <3> QED
      BY <1>0, <1>2, <2>0, <3>1, ReadsKept
  <2> QED
    BY <2>1, <2>2, <2>3, <2>4, <2>5, <2>6 DEF ConsumeStep
<1> QED
  BY <1>1, <1>4, <1>5, <1>6, <1>7 DEF DeliveryInv

-----------------------------------------------------------------------------
(* The invariant *)

\* A restart finds whole frames in the file and no group.
LEMMA RestartDelivery == Undisturbed /\ DeliveryInv /\ Restart => DeliveryInv'
<1> SUFFICES ASSUME Undisturbed, DeliveryInv, Restart PROVE DeliveryInv'
  OBVIOUS
<1>1. /\ DurableInv /\ Layout /\ file \in Seq(Byte) /\ Len(stored) \in Nat
      /\ UNCHANGED <<file, stored>>
      /\ \A t \in Publishers \cup Consumers : chunk'[chunkOf[t]] = ChunkLoad(file)
      /\ \A p \in Publishers : pc'[p] = "idle" /\ appended'[p] = << >>
      /\ \A c \in Consumers : cpc'[c] = "new" /\ delivered'[c] = << >>
  BY TopicStoreAssumption DEF Restart, DeliveryInv, DurableInv, TypeOK
<1>2. DurableInv'
  BY <1>1, RestartDurable
<1>3. ~SplitWrites
  BY DEF Undisturbed, SavesAreWhole, Restart, Fault
<1>4. \A p \in Publishers : pc[p] /= "saving"
  BY <1>1, <1>3 DEF DurableInv, PublishInProgress
<1>5. Layout'
  BY <1>1, <1>4 DEF Layout, FileEnd
<1>6. ASSUME NEW p \in Publishers PROVE CallLayout(p)' /\ CallBatch(p)'
  <2>1. Len(chunk'[chunkOf[p]].data) = chunk'[chunkOf[p]].persisted_size
    BY <1>1 DEF ChunkLoad
  <2> QED
    BY <1>1, <2>1, ReturnDelivery
<1>7. ASSUME NEW c \in Consumers PROVE Reads(c)'
  <2>1. Readable(c)' = file /\ HoldsAt(file, 0, file)
    BY <1>1 DEF Readable, ChunkLoad, HoldsAt
  <2>2. cpc'[c] = "new" /\ delivered'[c] = << >> /\ Len(delivered'[c]) = 0
    BY <1>1
  <2> QED
    BY <1>1, <2>1, <2>2 DEF Reads
<1> QED
  BY <1>2, <1>5, <1>6, <1>7 DEF DeliveryInv

\* At the start the file is the prologue and nobody has read.
LEMMA InitDelivery == Init => DeliveryInv
<1> SUFFICES ASSUME Init PROVE DeliveryInv
  OBVIOUS
<1>1. DurableInv
  BY InitDurable
<1>2. /\ file = Prologue /\ stored = << >> /\ Len(Prologue) \in Nat /\ Len(stored) = 0
      /\ \A t \in Publishers \cup Consumers : chunk[chunkOf[t]] = ChunkLoad(Prologue)
      /\ \A p \in Publishers : pc[p] = "idle" /\ appended[p] = << >>
      /\ \A c \in Consumers : cpc[c] = "new" /\ delivered[c] = << >>
  BY TopicStoreAssumption DEF Init, Prologue
<1>3. Layout
  BY <1>2 DEF Layout, Contiguous, FileEnd, End, EndOf
<1>4. ASSUME NEW p \in Publishers PROVE CallLayout(p) /\ CallBatch(p)
  BY <1>2 DEF CallLayout, CallBatch, Contiguous, ChunkLoad
<1>5. ASSUME NEW c \in Consumers PROVE Reads(c)
  <2>1. HoldsAt(file, 0, Readable(c))
    BY <1>2 DEF Readable, ChunkLoad, HoldsAt
  <2>2. cpc[c] = "new" /\ delivered[c] = << >> /\ Len(delivered[c]) = 0
    BY <1>2
  <2> QED
    BY <1>2, <2>1, <2>2 DEF Reads
<1> QED
  BY <1>1, <1>3, <1>4, <1>5 DEF DeliveryInv

\* Every step keeps the invariant.
LEMMA NextDelivery == Undisturbed /\ DeliveryInv /\ [Next]_vars => DeliveryInv'
<1> SUFFICES ASSUME Undisturbed, DeliveryInv, [Next]_vars PROVE DeliveryInv'
  OBVIOUS
<1>1. ASSUME NEW p \in Publishers,
             \/ \E es \in Batches[p] : BeginPublish(p, es)
             \/ Flush(p) \/ GetTopicSize(p)
             \/ PublishStep(p)
             \/ AppendFails(p) \/ SaveFails(p)
      PROVE  DeliveryInv'
  BY <1>1, PublishDelivery
<1>2. ASSUME NEW c \in Consumers, ConsumeStep(c) \/ ConsumeFails(c) PROVE DeliveryInv'
  BY <1>2, ConsumeDelivery
<1>3. CASE Restart
  BY <1>3, RestartDelivery
<1>4. CASE UNCHANGED vars
  <2>1. TypeOK'
    BY <1>4, NextType DEF DeliveryInv, DurableInv
  <2>2. DurableInv'
    BY <1>4, <2>1 DEF vars, DeliveryInv, DurableInv, Durable, PublishInProgress
  <2>3. Layout'
    BY <1>4, LayoutUndisturbed DEF vars, DeliveryInv
  <2>4. ASSUME NEW p \in Publishers PROVE CallLayout(p)' /\ CallBatch(p)'
    BY <1>4, CallUndisturbed DEF vars, DeliveryInv
  <2>5. ASSUME NEW c \in Consumers PROVE Reads(c)'
    BY <1>4, ReadsUnmoved DEF vars, DeliveryInv
  <2> QED
    BY <2>2, <2>3, <2>4, <2>5 DEF DeliveryInv
<1> QED
  BY <1>1, <1>2, <1>3, <1>4 DEF Next

-----------------------------------------------------------------------------
(* The theorems *)

\* A group that was positioned at the first frame is given the events whose publish
\* returned 0, in their order, each once, whole and with none left out, while others publish
\* batches, save in two parts, run out of memory, and the server restarts.
THEOREM GroupsReadTheTopicInOrder ==
    ASSUME Undisturbed
    PROVE  Spec => []DeliveredInOrder
<1>1. Init => DeliveryInv
  BY InitDelivery
<1>2. DeliveryInv /\ [Next]_vars => DeliveryInv'
  BY NextDelivery
<1>3. DeliveryInv => DeliveredInOrder
  BY DEF DeliveryInv, Reads, DeliveredInOrder
<1> QED
  BY <1>1, <1>2, <1>3, PTL DEF Spec

\* What a step does to the log of the topic and to what the groups were given.
LEMMA StepOfLog ==
    ASSUME Undisturbed, DeliveryInv, [Next]_vars
    PROVE  [Log!Next]_(Log!vars)
<1>0. /\ TypeOK /\ SavesAreWhole /\ PrivateChunks
  BY DEF Undisturbed, DeliveryInv, DurableInv
<1>1. ASSUME UNCHANGED <<stored, delivered>> PROVE [Log!Next]_(Log!vars)
  BY <1>1 DEF Log!vars
<1>2. ASSUME NEW p \in Publishers, SaveWhole(p) \/ SaveRest(p) PROVE Log!Next
  <2>1. /\ CallBatch(p) /\ pc[p] \in {"save", "saving"} /\ Accept(p)
        /\ UNCHANGED delivered
    BY <1>2, PublisherParts DEF SaveWhole, SaveRest
  <2>2. file' \in Seq(Byte)
    BY <1>0, <1>2, FileStaysBytes DEF SaveWhole, SaveRest
  <2>3. PICK es \in Batches[p] :
           [i \in 1..Len(stored') |-> stored'[i].event]
              = [i \in 1..Len(stored) |-> stored[i].event] \o es
    BY <1>0, <2>1, <2>2, AcceptedBatch
  <2>4. es \in UNION {Batches[q] : q \in Publishers}
    OBVIOUS
  <2>5. Log!Publish(es)
    BY <2>1, <2>3 DEF Log!Publish
  <2> QED
    BY <2>4, <2>5 DEF Log!Next
<1>3. ASSUME NEW p \in Publishers,
             \/ \E es \in Batches[p] : BeginPublish(p, es)
             \/ Flush(p) \/ GetTopicSize(p)
             \/ PublishStep(p)
             \/ AppendFails(p) \/ SaveFails(p)
      PROVE  [Log!Next]_(Log!vars)
  <2>1. ~SaveFails(p)
    BY <1>0 DEF SaveFails, Fault, SavesAreWhole
  <2>2. CASE SaveWhole(p) \/ SaveRest(p)
    BY <1>2, <2>2
  <2>3. CASE \/ \E es \in Batches[p] : BeginPublish(p, es)
             \/ Flush(p) \/ GetTopicSize(p) \/ AppendFails(p)
             \/ AppendHeader(p) \/ AppendPayload(p) \/ NextElement(p) \/ RefuseElement(p)
             \/ SaveFirstPart(p)
    BY <1>1, <2>3
    DEF BeginPublish, Flush, GetTopicSize, AppendFails, AppendHeader, AppendPayload,
        NextElement, RefuseElement, SaveFirstPart
  <2> QED
    BY <1>3, <2>1, <2>2, <2>3 DEF PublishStep
<1>4. ASSUME NEW c \in Consumers, ReadPayload(c) PROVE Log!Next
  <2>1. /\ Len(delivered[c]) < Len(stored)
        /\ Payload(c) = stored[Len(delivered[c]) + 1].event
    BY <1>4, ReadPayloadReads
  <2>2. PICK m \in Nat, l \in Nat : m = Len(delivered[c]) /\ l = Len(stored)
    BY <1>0 DEF TypeOK
  <2> DEFINE log == [i \in 1..Len(stored) |-> stored[i].event]
  <2>3. Len(log) = l /\ log[m + 1] = stored[m + 1].event
    <3>1. m + 1 \in 1..l
      BY <2>1, <2>2
    <3> QED
      BY <2>2, <3>1
  <2>4. /\ delivered' = [delivered EXCEPT ![c] = Append(delivered[c], Payload(c))]
        /\ UNCHANGED stored
    BY <1>4 DEF ReadPayload
  <2> HIDE DEF log
  <2>5. /\ Len(delivered[c]) < Len(log)
        /\ delivered' = [delivered EXCEPT ![c] =
                            Append(delivered[c], log[Len(delivered[c]) + 1])]
        /\ log' = log
    BY <2>1, <2>2, <2>3, <2>4 DEF log
  <2>6. Log!Consume(c)
    BY <2>5 DEF Log!Consume, log
  <2> QED
    BY <2>6 DEF Log!Next
<1>5. ASSUME NEW c \in Consumers, ConsumeStep(c) \/ ConsumeFails(c)
      PROVE  [Log!Next]_(Log!vars)
  <2>1. CASE ReadPayload(c)
    BY <1>4, <2>1
  <2>2. CASE UNCHANGED <<stored, delivered>>
    BY <1>1, <2>2
  <2> QED
    BY <1>5, <2>1, <2>2
    DEF ConsumeStep, ConsumeFails, Position, BeginConsume, NothingToRead, Reload, ReadHeader,
        NoPacketThere, PayloadGone, AckPacket, Discard
<1>6. CASE Restart
  BY <1>6 DEF Restart, Log!Next, Log!Forget
<1>7. CASE UNCHANGED vars
  BY <1>1, <1>7 DEF vars
<1> QED
  BY <1>3, <1>5, <1>6, <1>7 DEF Next

\* Under the same conditions the topic is the abstract log: a publish that returns 0 appends
\* its batch to the log, whole and in one step, a consume takes the next event from it, a
\* restart forgets what the groups were given, and no other step shows.
THEOREM TopicIsALog ==
    ASSUME Undisturbed
    PROVE  Spec => ImplementsTopicLog
<1>1. Init => DeliveryInv
  BY InitDelivery
<1>2. DeliveryInv /\ [Next]_vars => DeliveryInv'
  BY NextDelivery
<1>3. Init => Log!Init
  <2> SUFFICES ASSUME Init PROVE Log!Init
    OBVIOUS
  <2>1. stored = << >> /\ delivered = [c \in Consumers |-> << >>]
    BY DEF Init
  <2>2. [i \in 1..Len(stored) |-> stored[i].event] = << >>
    BY <2>1
  <2> QED
    BY <2>1, <2>2 DEF Log!Init
<1>4. DeliveryInv /\ [Next]_vars => [Log!Next]_(Log!vars)
  BY StepOfLog
<1> QED
  BY <1>1, <1>2, <1>3, <1>4, PTL DEF Spec, ImplementsTopicLog, Log!Spec

-----------------------------------------------------------------------------
(* The frames of a sequence of events *)

\* What the recursive function of Frames computes: the frames of the first n events.
Builds(s, n, f) == /\ f \in [0..n -> Seq(Byte)]
                   /\ f[0] = << >>
                   /\ \A i \in 1..n : f[i] = f[i - 1] \o Frame(s[i])

\* One event more.
LEMMA BuildsOn ==
    ASSUME NEW s, NEW n \in Nat, NEW f, Builds(s, n, f), NEW e \in Seq(Byte), s[n + 1] = e,
           NEW t, \A i \in 1..(n + 1) : t[i] = s[i]
    PROVE  /\ f[n] \in Seq(Byte) /\ f[n] \o Frame(e) \in Seq(Byte)
           /\ Builds(t, n + 1, [i \in 0..(n + 1) |->
                                   IF i <= n THEN f[i] ELSE f[n] \o Frame(e)])
<1>1. /\ f \in [0..n -> Seq(Byte)] /\ f[0] = << >> /\ n \in 0..n
      /\ \A i \in 1..n : f[i] = f[i - 1] \o Frame(s[i])
  <2>1. n \in 0..n
    OBVIOUS
  <2> QED  BY <2>1, Zenon DEF Builds
<1>2. PICK b \in Seq(Byte) : b = f[n] \o Frame(e) /\ f[n] \in Seq(Byte)
  BY <1>1, FrameType, ConcatProperties
<1>3. PICK g \in [0..(n + 1) -> Seq(Byte)] :
         /\ g = [i \in 0..(n + 1) |-> IF i <= n THEN f[i] ELSE f[n] \o Frame(e)]
         /\ \A i \in 0..n : g[i] = f[i]
         /\ g[n + 1] = b
  <2> DEFINE g == [i \in 0..(n + 1) |-> IF i <= n THEN f[i] ELSE b]
  <2>1. \A i \in 0..(n + 1) : i <= n => i \in 0..n
    OBVIOUS
  <2>2. g \in [0..(n + 1) -> Seq(Byte)]
    BY <1>1, <2>1
  <2>3. \A i \in 0..n : g[i] = f[i]
    OBVIOUS
  <2>4. g[n + 1] = b
    OBVIOUS
  <2>5. g = [i \in 0..(n + 1) |-> IF i <= n THEN f[i] ELSE f[n] \o Frame(e)]
    BY <1>2
  <2> QED  BY <2>2, <2>3, <2>4, <2>5
<1>4. ASSUME NEW i \in 1..(n + 1) PROVE g[i] = g[i - 1] \o Frame(t[i])
  <2>0. t[i] = s[i]
    OBVIOUS
  <2>1. CASE i \in 1..n
    <3>1. i \in 0..n /\ i - 1 \in 0..n
      BY <2>1
    <3>2. g[i] = f[i] /\ g[i - 1] = f[i - 1]
      BY <1>3, <3>1
    <3>3. f[i] = f[i - 1] \o Frame(s[i])
      BY <1>1, <2>1
    <3> QED  BY <2>0, <3>2, <3>3
  <2>2. CASE i = n + 1
    <3>1. i - 1 = n /\ n \in 0..n
      BY <2>2
    <3>2. g[i] = b /\ g[i - 1] = f[n] /\ s[i] = e
      BY <1>3, <2>2, <3>1
    <3> QED  BY <1>2, <2>0, <3>2
  <2>3. i \in 1..n \/ i = n + 1
    OBVIOUS
  <2> QED  BY <2>1, <2>2, <2>3, Zenon
<1>5. g[0] = << >>
  BY <1>1, <1>3
<1> QED  BY <1>2, <1>3, <1>4, <1>5 DEF Builds

\* There is such a function,
LEMMA BuildsExists ==
    ASSUME NEW s \in Seq(Seq(Byte))
    PROVE  \E f : Builds(s, Len(s), f)
<1>0. PICK l \in Nat : l = Len(s)
  OBVIOUS
<1> DEFINE S == {n \in Nat : n <= l => \E f : Builds(s, n, f)}
<1>1. 0 \in S
  <2> DEFINE f == [n \in 0..0 |-> << >>]
  <2>1. /\ f \in [0..0 -> Seq(Byte)] /\ f[0] = << >>
        /\ \A i \in 1..0 : f[i] = f[i - 1] \o Frame(s[i])
    OBVIOUS
  <2>2. Builds(s, 0, f)
    BY <2>1 DEF Builds
  <2> QED  BY <2>2
<1>2. ASSUME NEW n \in Nat, n \in S PROVE n + 1 \in S
  <2>1. CASE n + 1 <= l
    <3>1. PICK f : Builds(s, n, f)
      BY <1>2, <2>1
    <3>2. PICK e \in Seq(Byte) : e = s[n + 1]
      <4>1. n + 1 \in 1..Len(s)
        BY <1>0, <2>1
      <4> QED  BY <4>1
    <3>3. \E g : Builds(s, n + 1, g)
      BY <3>1, <3>2, BuildsOn
    <3> QED  BY <3>3
  <2>2. CASE ~(n + 1 <= l)
    BY <2>2
  <2> QED  BY <2>1, <2>2
<1>3. Nat \subseteq S
  <2> HIDE DEF S
  <2> QED  BY <1>1, <1>2, SetInduction
<1>4. l \in S
  BY <1>3
<1> QED  BY <1>0, <1>4

\* and it is the one Frames chooses.
LEMMA FramesBuilt ==
    ASSUME NEW s \in Seq(Seq(Byte)), NEW f, Builds(s, Len(s), f)
    PROVE  Frames(s) = f[Len(s)] /\ Frames(s) \in Seq(Byte)
<1>0. PICK l \in Nat : l = Len(s)
  OBVIOUS
<1> DEFINE P(h) == h = [n \in 0..Len(s) |->
                          IF n = 0 THEN << >> ELSE h[n - 1] \o Frame(s[n])]
           g == CHOOSE h : P(h)
<1>1. Frames(s) = g[Len(s)]
  BY DEF Frames
<1>a. /\ f \in [0..l -> Seq(Byte)] /\ f[0] = << >>
      /\ \A i \in 1..l : f[i] = f[i - 1] \o Frame(s[i])
  BY <1>0 DEF Builds
<1>2. P(f)
  <2>1. f = [n \in 0..l |-> f[n]]
    BY <1>a
  <2>2. \A n \in 0..l : f[n] = IF n = 0 THEN << >> ELSE f[n - 1] \o Frame(s[n])
    <3> SUFFICES ASSUME NEW n \in 0..l
                 PROVE  f[n] = IF n = 0 THEN << >> ELSE f[n - 1] \o Frame(s[n])
      OBVIOUS
    <3>1. CASE n = 0
      BY <1>a, <3>1
    <3>2. CASE n \in 1..l
      BY <1>a, <3>2
    <3> QED  BY <3>1, <3>2
  <2>3. [n \in 0..l |-> f[n]]
           = [n \in 0..l |-> IF n = 0 THEN << >> ELSE f[n - 1] \o Frame(s[n])]
    BY <2>2, Zenon
  <2> QED  BY <1>0, <2>1, <2>3, Zenon
<1> HIDE DEF P
<1>3. P(g)
  BY <1>2, Zenon
<1> HIDE DEF g
<1>4. /\ g[0] = << >>
      /\ \A n \in 1..l : g[n] = g[n - 1] \o Frame(s[n])
  <2>1. g = [n \in 0..l |-> IF n = 0 THEN << >> ELSE g[n - 1] \o Frame(s[n])]
    BY <1>0, <1>3, Zenon DEF P
  <2>2. \A n \in 0..l : g[n] = IF n = 0 THEN << >> ELSE g[n - 1] \o Frame(s[n])
    BY <2>1, Zenon
  <2>3. 0 \in 0..l /\ \A n \in 1..l : n \in 0..l /\ n /= 0
    OBVIOUS
  <2> QED  BY <2>2, <2>3, Zenon
<1> DEFINE S == {n \in Nat : n <= l => g[n] = f[n]}
<1>5. 0 \in S
  BY <1>4, <1>a
<1>6. ASSUME NEW n \in Nat, n \in S PROVE n + 1 \in S
  <2>1. CASE n + 1 <= l
    <3>1. PICK m \in 1..l : m = n + 1 /\ m - 1 = n
      BY <2>1
    <3>2. g[m] = g[m - 1] \o Frame(s[m]) /\ f[m] = f[m - 1] \o Frame(s[m])
      BY <1>4, <1>a
    <3>3. g[m - 1] = f[m - 1]
      BY <1>6, <2>1, <3>1
    <3>4. g[m] = f[m]
      BY <3>2, <3>3, Zenon
    <3> QED  BY <3>1, <3>4
  <2>2. CASE ~(n + 1 <= l)
    BY <2>2
  <2> QED  BY <2>1, <2>2
<1>7. Nat \subseteq S
  <2> HIDE DEF S
  <2> QED  BY <1>5, <1>6, SetInduction
<1>8. g[l] = f[l] /\ f[l] \in Seq(Byte)
  <2>1. l \in 0..l /\ l \in S /\ l <= l
    BY <1>7
  <2> QED  BY <1>a, <2>1
<1> QED  BY <1>0, <1>1, <1>8

\* The frames of nothing, and of one event more.
LEMMA FramesProperties ==
    ASSUME NEW s \in Seq(Seq(Byte)), NEW e \in Seq(Byte)
    PROVE  /\ Frames(<< >>) = << >>
           /\ Frames(s) \in Seq(Byte)
           /\ Frames(Append(s, e)) = Frames(s) \o Frame(e)
<1>0. PICK l \in Nat : l = Len(s)
  OBVIOUS
<1>1. Frames(<< >>) = << >>
  <2>0. << >> \in Seq(Seq(Byte)) /\ Len(<< >>) = 0
    OBVIOUS
  <2>1. PICK z \in Seq(Seq(Byte)) : z = << >> /\ Len(z) = 0
    BY <2>0, Zenon
  <2>2. PICK f : Builds(z, 0, f)
    BY <2>1, BuildsExists
  <2>3. f[0] = << >>
    BY <2>2 DEF Builds
  <2>4. Frames(z) = f[0]
    BY <2>1, <2>2, FramesBuilt
  <2> QED  BY <2>1, <2>3, <2>4
<1>2. PICK f : Builds(s, l, f)
  BY <1>0, BuildsExists
<1>3. f[l] = Frames(s) /\ Frames(s) \in Seq(Byte)
  BY <1>0, <1>2, FramesBuilt
<1>4. PICK t \in Seq(Seq(Byte)) : /\ t = Append(s, e) /\ Len(t) = l + 1 /\ t[l + 1] = e
                                  /\ \A i \in 1..l : t[i] = s[i]
  <2>1. Append(s, e) \in Seq(Seq(Byte))
    OBVIOUS
  <2>2. /\ Len(Append(s, e)) = l + 1 /\ Append(s, e)[l + 1] = e
        /\ \A i \in 1..l : Append(s, e)[i] = s[i]
    BY <1>0, AppendProperties
  <2> QED  BY <2>1, <2>2, Zenon
<1>5. Builds(t, l, f)
  BY <1>2, <1>4 DEF Builds
<1> DEFINE g == [i \in 0..(l + 1) |-> IF i <= l THEN f[i] ELSE f[l] \o Frame(e)]
<1>6. Builds(t, l + 1, g)
  BY <1>4, <1>5, BuildsOn
<1>7. g[l + 1] = f[l] \o Frame(e)
  OBVIOUS
<1>8. Frames(t) = g[l + 1]
  <2> HIDE DEF g
  <2> QED  BY <1>4, <1>6, FramesBuilt
<1> QED  BY <1>1, <1>3, <1>4, <1>7, <1>8

-----------------------------------------------------------------------------
(* What groups are given, whatever fails *)

\* A consumer's Chunk is not a publisher's: it holds nothing that is not in the file.
ReadersHaveTheirOwn == \A p \in Publishers, c \in Consumers : chunkOf[p] /= chunkOf[c]

\* What a consumer has been given is what the file holds from where its group was put, frame
\* by frame, and where it is in its loop shows in its pointer and in its packet.
ReadsFile(c) ==
    /\ HoldsAt(file, 0, Readable(c))
    /\ cpc[c] = "new" => delivered[c] = << >>
    /\ cpc[c] /= "new" =>
          /\ HoldsAt(file, start[c], Frames(delivered[c]))
          /\ ReadPointer(c) = start[c] + Len(Frames(delivered[c]))
    /\ cpc[c] = "payload" =>
          /\ packet[c].packet_size \in 1..MaxPacketSize
          /\ packet[c].offset_in_topic = ReadPointer(c)
          /\ ReadPointer(c) + HeaderSize + packet[c].packet_size <= Len(file)
          /\ packet[c].packet_size = DecodeSize(file, ReadPointer(c))
    /\ cpc[c] = "holding" => PacketEnd(c) = ReadPointer(c)
FileReadingInv == TypeOK /\ \A c \in Consumers : ReadsFile(c)

\* The types of what a consumer reads with.
LEMMA ReaderType ==
    ASSUME TypeOK, NEW c \in Consumers
    PROVE  /\ file \in Seq(Byte) /\ Len(file) \in Nat /\ start[c] \in Nat
           /\ Readable(c) \in Seq(Byte) /\ ReadPointer(c) \in Nat
           /\ delivered[c] \in Seq(Seq(Byte)) /\ Frames(delivered[c]) \in Seq(Byte)
           /\ packet[c].packet_size \in Nat /\ packet[c].offset_in_topic \in Nat
           /\ chunkOf[c] \in Chunks /\ DOMAIN chunk = Chunks
<1>1. /\ file \in Seq(Byte) /\ delivered[c] \in Seq(Seq(Byte)) /\ ReadPointer(c) \in Nat
      /\ start[c] \in Nat
      /\ packet[c].packet_size \in Nat /\ packet[c].offset_in_topic \in Nat
      /\ DOMAIN chunk = Chunks
  BY DEF TypeOK, ReadPointer
<1>2. Readable(c) \in Seq(Byte) /\ chunkOf[c] \in Chunks
  BY ThreadChunkType DEF Readable
<1>3. << >> \in Seq(Byte)
  OBVIOUS
<1>4. Frames(delivered[c]) \in Seq(Byte)
  BY <1>1, <1>3, FramesProperties
<1> QED
  BY <1>1, <1>2, <1>4

\* Four bytes of the file stay what they are when it grows.
LEMMA DecodeExtended ==
    ASSUME NEW s \in Seq(Byte), NEW t \in Seq(Byte), NEW at \in Nat,
           at + HeaderSize <= Len(s)
    PROVE  DecodeSize(s \o t, at) = DecodeSize(s, at)
<1>1. /\ Len(s \o t) = Len(s) + Len(t)
      /\ \A i \in 1..Len(s) : (s \o t)[i] = s[i]
  BY ConcatProperties
<1>2. /\ at + 1 \in 1..Len(s) /\ at + 2 \in 1..Len(s)
      /\ at + 3 \in 1..Len(s) /\ at + 4 \in 1..Len(s)
  BY DEF HeaderSize
<1>3. /\ (s \o t)[at + 1] = s[at + 1] /\ (s \o t)[at + 2] = s[at + 2]
      /\ (s \o t)[at + 3] = s[at + 3] /\ (s \o t)[at + 4] = s[at + 4]
  BY <1>1, <1>2
<1> QED
  BY <1>3 DEF DecodeSize

\* The file only ever grows, and a publisher leaves the consumers and other Chunks alone.
LEMMA PublisherGrowsFile ==
    ASSUME TypeOK, NEW p \in Publishers,
           \/ \E es \in Batches[p] : BeginPublish(p, es)
           \/ Flush(p) \/ GetTopicSize(p)
           \/ PublishStep(p)
           \/ AppendFails(p) \/ SaveFails(p)
    PROVE  /\ \E t \in Seq(Byte) : file' = file \o t
           /\ UNCHANGED consumerVars
           /\ \A k \in Chunks : k /= chunkOf[p] => chunk'[k] = chunk[k]
<1>0. /\ file \in Seq(Byte) /\ DOMAIN chunk = Chunks /\ chunkOf[p] \in Chunks
      /\ written[p] \in Nat
  BY ThreadChunkType DEF TypeOK
<1>1. PICK d \in Seq(Byte) : d = Delta(chunk[chunkOf[p]])
  BY ThreadChunkType
<1>2. file = file \o << >> /\ << >> \in Seq(Byte)
  BY <1>0, ConcatEmptySeq
<1>3. \A n \in Int : n <= Len(d) => SubSeq(d, 1, n) \in Seq(Byte)
  BY SubSeqType
<1>4. CASE \/ \E es \in Batches[p] : BeginPublish(p, es)
           \/ Flush(p) \/ GetTopicSize(p) \/ AppendFails(p)
  <2>1. /\ UNCHANGED file /\ UNCHANGED consumerVars
        /\ \A k \in Chunks : k /= chunkOf[p] => chunk'[k] = chunk[k]
    <3>1. UNCHANGED file /\ UNCHANGED consumerVars /\ (UNCHANGED chunk \/ Loads(p))
      BY <1>4 DEF BeginPublish, GetTopic, Flush, GetTopicSize, AppendFails
    <3> QED  BY <3>1, LoadsLeave
  <2> QED  BY <1>2, <2>1
<1>5. CASE AppendHeader(p) \/ AppendPayload(p) \/ NextElement(p) \/ RefuseElement(p)
  <2>1. UNCHANGED file /\ UNCHANGED consumerVars
    BY <1>5 DEF AppendHeader, AppendPayload, NextElement, RefuseElement
  <2>2. CASE AppendHeader(p) \/ AppendPayload(p)
    <3>1. PICK v : chunk' = [chunk EXCEPT ![chunkOf[p]] = v]
      BY <2>2 DEF AppendHeader, AppendPayload
    <3> QED  BY <1>0, <1>2, <2>1, <3>1
  <2>3. CASE NextElement(p) \/ RefuseElement(p)
    <3>1. chunk' = chunk
      BY <2>3 DEF NextElement, RefuseElement
    <3> QED  BY <1>2, <2>1, <3>1
  <2> QED  BY <1>5, <2>2, <2>3
<1>6. CASE SaveWhole(p) \/ SaveRest(p)
  <2>1. /\ file' = file \o d \/ file' = file \o Rest(p, written[p])
        /\ UNCHANGED consumerVars
        /\ \A k \in Chunks : k /= chunkOf[p] => chunk'[k] = chunk[k]
    BY <1>0, <1>1, <1>6 DEF SaveWhole, SaveRest
  <2>2. Rest(p, written[p]) \in Seq(Byte)
    BY <1>0, <1>1, TailType DEF Rest
  <2> QED  BY <2>1, <2>2
<1>7. CASE SaveFirstPart(p) \/ SaveFails(p)
  <2>1. /\ UNCHANGED consumerVars
        /\ \A k \in Chunks : k /= chunkOf[p] => chunk'[k] = chunk[k]
    BY <1>0, <1>7 DEF SaveFirstPart, SaveFails
  <2>2. PICK n \in 0..(Len(d) - 1) : file' = file \o SubSeq(d, 1, n)
    <3>1. CASE SaveFirstPart(p)
      <4>1. PICK n \in 1..(Len(d) - 1) : file' = file \o SubSeq(d, 1, n)
        BY <1>1, <3>1, Zenon DEF SaveFirstPart
      <4> QED  BY <4>1
    <3>2. CASE SaveFails(p)
      BY <1>1, <3>2, Zenon DEF SaveFails
    <3> QED  BY <1>7, <3>1, <3>2
  <2>3. SubSeq(d, 1, n) \in Seq(Byte)
    BY <1>3
  <2> QED  BY <2>1, <2>2, <2>3
<1> QED
  BY <1>4, <1>5, <1>6, <1>7 DEF PublishStep

\* A consumer that is left alone, with a file that has grown.
LEMMA ReadsFileExtended ==
    ASSUME TypeOK, NEW c \in Consumers, ReadsFile(c), NEW t \in Seq(Byte), file' = file \o t,
           chunk'[chunkOf[c]] = chunk[chunkOf[c]], UNCHANGED consumerVars
    PROVE  ReadsFile(c)'
<1>1. PICK s \in Seq(Byte), r \in Seq(Byte), b \in Seq(Byte), at \in Nat :
         /\ s = file /\ r = Readable(c) /\ b = Frames(delivered[c]) /\ at = ReadPointer(c)
  BY ReaderType
<1>2. /\ cpc'[c] = cpc[c] /\ delivered'[c] = delivered[c] /\ packet'[c] = packet[c]
      /\ ReadPointer(c)' = ReadPointer(c) /\ PacketEnd(c)' = PacketEnd(c)
      /\ Readable(c)' = r /\ file' = s \o t
  BY <1>1 DEF ReadPointer, PacketEnd, Readable
<1>3. start[c] \in Int /\ 0 \in Int /\ start'[c] = start[c]
  BY ReaderType
<1>4. HoldsAt(file', 0, Readable(c)')
  BY <1>1, <1>2, <1>3, HoldsAtExtended DEF ReadsFile
<1>5. cpc[c] /= "new" => HoldsAt(file', start[c], b)
  BY <1>1, <1>2, <1>3, HoldsAtExtended DEF ReadsFile
<1>6. Len(s \o t) = Len(s) + Len(t) /\ Len(s) \in Nat /\ Len(t) \in Nat
  BY ConcatProperties
<1>7. ASSUME cpc[c] = "payload"
      PROVE  /\ at + HeaderSize + packet[c].packet_size <= Len(file')
             /\ packet[c].packet_size = DecodeSize(file', at)
  <2>1. PICK n \in Nat : /\ n = packet[c].packet_size /\ n = DecodeSize(s, at)
                         /\ at + HeaderSize + n <= Len(s)
    BY <1>1, <1>7, ReaderType DEF ReadsFile
  <2>2. at + HeaderSize <= Len(s) /\ at + HeaderSize + n <= Len(s \o t)
    BY <1>6, <2>1 DEF HeaderSize
  <2>3. DecodeSize(s \o t, at) = DecodeSize(s, at)
    BY <2>2, DecodeExtended
  <2> QED  BY <1>2, <2>1, <2>2, <2>3
<1> QED
  BY <1>1, <1>2, <1>3, <1>4, <1>5, <1>7 DEF ReadsFile

\* A consumer that is left alone, and whose Chunk another may have loaded.
LEMMA ReadsFileReloaded ==
    ASSUME TypeOK, NEW c \in Consumers, ReadsFile(c), UNCHANGED file,
           chunk'[chunkOf[c]] \in {chunk[chunkOf[c]], ChunkLoad(file), ChunkLoad(<< >>)},
           cpc'[c] = cpc[c], group'[c] = group[c], start'[c] = start[c],
           packet'[c] = packet[c], delivered'[c] = delivered[c]
    PROVE  ReadsFile(c)'
<1>1. HoldsAt(file, 0, Readable(c)')
  <2>1. HoldsAt(file, 0, Readable(c))
    BY DEF ReadsFile
  <2>2. HoldsAt(file, 0, file) /\ HoldsAt(file, 0, << >>)
    BY DEF HoldsAt, TypeOK
  <2>3. Readable(c)' \in {Readable(c), file, << >>}
    BY DEF Readable, ChunkLoad
  <2> QED
    BY <2>1, <2>2, <2>3
<1>2. ReadPointer(c)' = ReadPointer(c) /\ PacketEnd(c)' = PacketEnd(c)
  BY DEF ReadPointer, PacketEnd
<1> QED
  BY <1>1, <1>2 DEF ReadsFile

\* A step that ends up in front of a packet, with the pointer where it was.
LEMMA ReadsFileKept ==
    ASSUME TypeOK, NEW c \in Consumers, ReadsFile(c), UNCHANGED file, cpc[c] /= "new",
           chunk'[chunkOf[c]] \in {chunk[chunkOf[c]], ChunkLoad(file), ChunkLoad(<< >>)},
           cpc'[c] \in {"idle", "loaded", "header"}, group'[c] = group[c],
           start'[c] = start[c], delivered'[c] = delivered[c]
    PROVE  ReadsFile(c)'
<1>1. HoldsAt(file, 0, Readable(c)')
  <2>1. HoldsAt(file, 0, Readable(c))
    BY DEF ReadsFile
  <2>2. HoldsAt(file, 0, file) /\ HoldsAt(file, 0, << >>)
    BY DEF HoldsAt, TypeOK
  <2>3. Readable(c)' \in {Readable(c), file, << >>}
    BY DEF Readable, ChunkLoad
  <2> QED
    BY <2>1, <2>2, <2>3
<1>2. ReadPointer(c)' = ReadPointer(c)
  BY DEF ReadPointer
<1>3. /\ HoldsAt(file, start[c], Frames(delivered[c]))
      /\ ReadPointer(c) = start[c] + Len(Frames(delivered[c]))
  BY DEF ReadsFile
<1>4. /\ HoldsAt(file, start[c], Frames(delivered[c]))'
      /\ (ReadPointer(c) = start[c] + Len(Frames(delivered[c])))'
  <2>1. file' = file /\ start'[c] = start[c] /\ delivered'[c] = delivered[c]
    OBVIOUS
  <2> QED
    BY <1>2, <1>3, <2>1
<1>5. cpc'[c] /= "new" /\ cpc'[c] /= "payload" /\ cpc'[c] /= "holding"
  OBVIOUS
<1> QED
  BY <1>1, <1>4, <1>5 DEF ReadsFile

\* A new group stands where set_group_pointer() has put it, with nothing read.
LEMMA PositionReadsFile ==
    ASSUME FileReadingInv, NEW c \in Consumers, NEW offset \in Positions, Position(c, offset)
    PROVE  ReadsFile(c)'
<1>1. /\ TypeOK /\ ReadsFile(c) /\ chunkOf[c] \in Chunks /\ file \in Seq(Byte)
      /\ Len(file) \in Nat /\ offset \in Nat /\ DOMAIN start = Consumers
      /\ DOMAIN group = Consumers /\ DOMAIN cpc = Consumers
  <2>1. TypeOK /\ ReadsFile(c)
    BY DEF FileReadingInv
  <2>2. chunkOf[c] \in Chunks /\ file \in Seq(Byte) /\ Len(file) \in Nat
    BY <2>1, ReaderType
  <2>3. offset \in Nat
    BY TopicStoreAssumption
  <2>4. DOMAIN start = Consumers /\ DOMAIN group = Consumers /\ DOMAIN cpc = Consumers
    BY <2>1 DEF TypeOK
  <2> QED
    BY <2>1, <2>2, <2>3, <2>4
<1>2. PICK bytes \in {file, << >>} :
         /\ Load(c, bytes)
         /\ group' = [group EXCEPT ![c].read_pointer = ClampedTo(bytes, offset)]
         /\ start' = [start EXCEPT ![c] = ClampedTo(bytes, offset)]
  BY DEF Position
<1>3. PICK at \in Nat : at = ClampedTo(bytes, offset) /\ at <= Len(file)
  <2>1. Len(bytes) \in Nat /\ Len(bytes) <= Len(file)
    BY <1>1, <1>2, LoadType
  <2> QED  BY <1>1, <2>1 DEF ClampedTo
<1>4. /\ cpc[c] = "new" /\ cpc'[c] = "idle" /\ UNCHANGED <<file, delivered>>
      /\ start'[c] = at
  BY <1>1, <1>2, <1>3 DEF Position
<1>5. ReadPointer(c)' = at
  BY <1>1, <1>2, <1>3 DEF ReadPointer, TypeOK
<1>6. delivered'[c] = << >>
  BY <1>1, <1>4 DEF ReadsFile
<1>7. HoldsAt(file, 0, Readable(c)')
  <2>1. chunk'[chunkOf[c]] = ChunkLoad(bytes)
    BY <1>1, <1>2, LoadType
  <2>2. HoldsAt(file, 0, file) /\ HoldsAt(file, 0, << >>)
    BY <1>1 DEF HoldsAt
  <2> QED  BY <2>1, <2>2 DEF Readable, ChunkLoad
<1>8. PICK b \in Seq(Byte) : b = Frames(delivered'[c]) /\ b = << >> /\ Len(b) = 0
  <2>1. << >> \in Seq(Byte) /\ << >> \in Seq(Seq(Byte)) /\ Len(<< >>) = 0
    OBVIOUS
  <2>2. Frames(<< >>) = << >>
    BY <2>1, FramesProperties
  <2> QED  BY <1>6, <2>1, <2>2, Zenon
<1>9. HoldsAt(file, at, b) /\ at = at + Len(b)
  BY <1>1, <1>3, <1>8 DEF HoldsAt
<1> QED
  BY <1>4, <1>5, <1>6, <1>7, <1>8, <1>9 DEF ReadsFile

\* What a consumer's Chunk holds is what the file holds there.
LEMMA ReadableIsFile ==
    ASSUME TypeOK, NEW c \in Consumers, ReadsFile(c)
    PROVE  /\ Len(Readable(c)) <= Len(file)
           /\ \A i \in 1..Len(Readable(c)) : Readable(c)[i] = file[i]
           /\ \A at \in Nat : at + HeaderSize <= Len(Readable(c)) =>
                 DecodeSize(Readable(c), at) = DecodeSize(file, at)
<1>1. PICK s \in Seq(Byte), r \in Seq(Byte) : s = file /\ r = Readable(c)
  BY ReaderType
<1>2. Len(r) \in Nat /\ Len(s) \in Nat
  OBVIOUS
<1>3. HoldsAt(s, 0, r)
  BY <1>1 DEF ReadsFile
<1>4. Len(r) <= Len(s) /\ \A i \in 1..Len(r) : r[i] = s[i]
  BY <1>2, <1>3 DEF HoldsAt
<1>5. ASSUME NEW at \in Nat, at + HeaderSize <= Len(r)
      PROVE  DecodeSize(r, at) = DecodeSize(s, at)
  <2>1. /\ at + 1 \in 1..Len(r) /\ at + 2 \in 1..Len(r)
        /\ at + 3 \in 1..Len(r) /\ at + 4 \in 1..Len(r)
    BY <1>2, <1>5 DEF HeaderSize
  <2>2. /\ r[at + 1] = s[at + 1] /\ r[at + 2] = s[at + 2]
        /\ r[at + 3] = s[at + 3] /\ r[at + 4] = s[at + 4]
    BY <1>4, <2>1
  <2> QED  BY <2>2 DEF DecodeSize
<1> QED  BY <1>1, <1>4, <1>5

\* A header is accepted: the packet's size is the length in the file, and the file is that long.
LEMMA ReadHeaderReadsFile ==
    ASSUME TypeOK, NEW c \in Consumers, ReadsFile(c), ReadHeader(c)
    PROVE  ReadsFile(c)'
<1>1. PICK s \in Seq(Byte), r \in Seq(Byte), at \in Nat, n \in Nat :
         s = file /\ r = Readable(c) /\ at = ReadPointer(c) /\ n = HeaderValue(c)
  BY ReaderType, HeaderValueType
<1>2. /\ cpc[c] = "header" /\ cpc'[c] = "payload" /\ PacketThere(c, HeaderValue(c))
      /\ packet'[c] = [packet_size |-> HeaderValue(c), offset_in_topic |-> ReadPointer(c)]
      /\ UNCHANGED <<file, chunk, group, start, delivered>>
  BY DEF ReadHeader, TypeOK
<1>3. /\ at + HeaderSize <= Len(r) /\ n = DecodeSize(r, at) /\ n > 0 /\ n <= MaxPacketSize
      /\ at + HeaderSize + n <= Len(r)
  BY <1>1, <1>2 DEF PacketThere
<1>4. Len(r) <= Len(s) /\ n = DecodeSize(s, at)
  BY <1>1, <1>3, ReadableIsFile
<1>5. n \in 1..MaxPacketSize /\ at + HeaderSize + n <= Len(s)
  <2>1. Len(r) \in Nat /\ Len(s) \in Nat /\ at + HeaderSize + n \in Nat
    BY DEF HeaderSize
  <2>2. MaxPacketSize \in Nat
    BY TopicStoreAssumption
  <2> QED  BY <1>3, <1>4, <2>1, <2>2
<1>6. ReadPointer(c)' = at /\ Readable(c)' = r /\ file' = s /\ delivered'[c] = delivered[c]
  BY <1>1, <1>2 DEF ReadPointer, Readable
<1>7. packet'[c].packet_size = n /\ packet'[c].offset_in_topic = at
  BY <1>1, <1>2
<1> QED
  BY <1>1, <1>2, <1>4, <1>5, <1>6, <1>7 DEF ReadsFile

\* The payload that is read is the rest of the frame at the pointer.
LEMMA ReadPayloadReadsFile ==
    ASSUME TypeOK, NEW c \in Consumers, ReadsFile(c), ReadPayload(c)
    PROVE  ReadsFile(c)'
<1>1. PICK s \in Seq(Byte), r \in Seq(Byte), at \in Nat, n \in Nat, ds \in Seq(Seq(Byte)) :
         /\ s = file /\ r = Readable(c) /\ at = ReadPointer(c) /\ n = packet[c].packet_size
         /\ ds = delivered[c]
  BY ReaderType
<1>2. /\ cpc[c] = "payload" /\ cpc'[c] = "holding" /\ Len(Payload(c)) = n
      /\ delivered'[c] = Append(ds, Payload(c))
      /\ ReadPointer(c)' = at + HeaderSize + n
      /\ UNCHANGED <<file, chunk, start, packet>>
  BY <1>1 DEF ReadPayload, TypeOK, ReadPointer
<1>3. /\ n \in 1..MaxPacketSize /\ packet[c].offset_in_topic = at
      /\ at + HeaderSize + n <= Len(s) /\ n = DecodeSize(s, at)
      /\ HoldsAt(s, start[c], Frames(ds)) /\ at = start[c] + Len(Frames(ds))
  BY <1>1, <1>2 DEF ReadsFile
<1>4. PICK q : q = Payload(c)
  OBVIOUS
<1>5. /\ q \in Seq(Byte) /\ at + HeaderSize + n <= Len(r) /\ Len(q) = n
      /\ \A i \in 1..n : q[i] = r[at + HeaderSize + i]
  <2>1. PICK o \in Nat : o = at + HeaderSize
    BY DEF HeaderSize
  <2>2. PICK k \in ChunkType(Byte) : k = chunk[chunkOf[c]]
    BY ThreadChunkType
  <2>3. q = ChunkRead(k, n, o) /\ r = k.data
    BY <1>1, <1>4, <2>1, <2>2 DEF Payload, Readable
  <2>4. Len(ChunkRead(k, n, o)) = n /\ n > 0
    BY <1>2, <1>3, <1>4, <2>3
  <2>5. /\ ChunkRead(k, n, o) \in Seq(Byte) /\ o + n <= Len(k.data)
        /\ \A i \in 1..n : ChunkRead(k, n, o)[i] = k.data[o + i]
    BY <2>4, ReadInFull
  <2> QED  BY <1>2, <1>4, <2>1, <2>3, <2>5
<1>6. PICK p \in Seq(Byte) : p = Payload(c) /\ p = q
  BY <1>4, <1>5
<1>7. HoldsAt(s, at, Frame(p))
  <2>1. ASSUME NEW i \in 1..n PROVE p[i] = s[at + HeaderSize + i]
    <3>1. at + HeaderSize + i \in 1..Len(r)
      BY <1>5 DEF HeaderSize
    <3>2. r[at + HeaderSize + i] = s[at + HeaderSize + i]
      BY <1>1, <3>1, ReadableIsFile
    <3> QED  BY <1>5, <1>6, <3>2
  <2>2. n \in ThreeBytes
    BY <1>3, TopicStoreAssumption DEF ThreeBytes
  <2>3. Len(p) = n
    BY <1>5, <1>6
  <2> QED  BY <1>3, <2>1, <2>2, <2>3, FrameRead
<1>8. PICK b \in Seq(Byte), f \in Seq(Byte) :
         /\ b = Frames(ds) /\ f = Frame(p) /\ Len(f) = HeaderSize + n
         /\ Frames(Append(ds, p)) = b \o f
  <2>1. Frame(p) \in Seq(Byte) /\ Len(Frame(p)) = HeaderSize + Len(p)
    BY FrameType
  <2>2. Frames(ds) \in Seq(Byte) /\ Frames(Append(ds, p)) = Frames(ds) \o Frame(p)
    BY FramesProperties
  <2> QED  BY <1>5, <1>6, <2>1, <2>2
<1>9. /\ HoldsAt(s, start[c], b \o f)
      /\ at + HeaderSize + n = start[c] + Len(b \o f)
  <2>1. PICK l \in Nat : l = start[c]
    BY ReaderType
  <2>2. /\ Len(b \o f) = Len(b) + Len(f)
        /\ \A i \in 1..(Len(b) + Len(f)) :
              (b \o f)[i] = IF i <= Len(b) THEN b[i] ELSE f[i - Len(b)]
    BY ConcatProperties
  <2>3. HoldsAt(s, l, b) /\ HoldsAt(s, at, f) /\ at = l + Len(b)
    BY <1>3, <1>7, <1>8, <2>1
  <2>4. PICK m \in Nat, u \in Nat : m = Len(b) /\ u = Len(f)
    OBVIOUS
  <2>5. /\ \A i \in 1..m : s[l + i] = b[i]
        /\ \A i \in 1..u : s[l + m + i] = f[i]
        /\ l + m + u <= Len(s)
    BY <2>3, <2>4 DEF HoldsAt
  <2>6. ASSUME NEW i \in 1..(m + u) PROVE s[l + i] = (b \o f)[i]
    <3>0. (b \o f)[i] = IF i <= m THEN b[i] ELSE f[i - m]
      BY <2>2, <2>4
    <3>1. CASE i \in 1..m
      BY <2>5, <3>0, <3>1
    <3>2. CASE ~(i <= m)
      <4>1. PICK j \in 1..u : j = i - m
        BY <3>2
      <4>2. s[l + m + j] = f[j] /\ l + m + j = l + i
        BY <2>5, <4>1
      <4>3. (b \o f)[i] = f[j]
        BY <3>0, <3>2, <4>1
      <4> QED  BY <4>2, <4>3
    <3>3. i \in 1..m \/ ~(i <= m)
      OBVIOUS
    <3> QED  BY <3>1, <3>2, <3>3
  <2>7. Len(b \o f) = m + u /\ l + (m + u) <= Len(s)
    BY <2>2, <2>4, <2>5
  <2>8. HoldsAt(s, l, b \o f)
    BY <2>6, <2>7 DEF HoldsAt
  <2>9. at + HeaderSize + n = l + (m + u)
    BY <1>8, <2>3, <2>4 DEF HeaderSize
  <2> QED  BY <2>1, <2>7, <2>8, <2>9
<1>10. /\ HoldsAt(file', start'[c], Frames(delivered'[c]))
       /\ ReadPointer(c)' = start'[c] + Len(Frames(delivered'[c]))
  <2>1. Frames(delivered'[c]) = b \o f /\ file' = s /\ start'[c] = start[c]
    BY <1>1, <1>2, <1>6, <1>8
  <2> QED  BY <1>2, <1>9, <2>1
<1>11. PacketEnd(c)' = ReadPointer(c)'
  BY <1>1, <1>2, <1>3 DEF PacketEnd
<1>12. HoldsAt(file', 0, Readable(c)')
  BY <1>2 DEF ReadsFile, Readable
<1> QED
  BY <1>2, <1>10, <1>11, <1>12 DEF ReadsFile

\* An acknowledgement of the packet just read leaves the pointer where it is.
LEMMA AckReadsFile ==
    ASSUME TypeOK, NEW c \in Consumers, ReadsFile(c), AckPacket(c)
    PROVE  ReadsFile(c)'
<1>1. ReadPointer(c) \in Nat /\ chunkOf[c] \in Chunks
  BY ReaderType
<1>2. cpc[c] = "holding" /\ PacketEnd(c) = ReadPointer(c)
  BY DEF AckPacket, ReadsFile
<1>3. group' = group
  BY <1>1, <1>2 DEF AckPacket
<1>4. /\ chunk'[chunkOf[c]] \in {ChunkLoad(file), ChunkLoad(<< >>)} /\ cpc'[c] = "idle"
      /\ UNCHANGED <<file, start, delivered>>
  <2>1. Loads(c)
    BY DEF AckPacket, Loads
  <2> QED
    BY <1>1, <2>1, LoadsLeave DEF AckPacket, TypeOK
<1> QED
  BY <1>1, <1>2, <1>3, <1>4, ReadsFileKept

\* Every step of a consumer.
LEMMA ConsumerReadsFile ==
    ASSUME FileReadingInv, NEW c \in Consumers,
           ConsumeStep(c) \/ ConsumeFails(c)
    PROVE  /\ UNCHANGED file
           /\ \A x \in Consumers : ReadsFile(x)'
<1>0. /\ TypeOK /\ ReadsFile(c) /\ DOMAIN chunk = Chunks /\ DOMAIN cpc = Consumers
      /\ DOMAIN group = Consumers /\ DOMAIN packet = Consumers /\ DOMAIN start = Consumers
      /\ DOMAIN delivered = Consumers /\ chunkOf[c] \in Chunks
  BY ReaderType DEF FileReadingInv, TypeOK
<1>1. UNCHANGED file
  BY DEF ConsumeStep, ConsumeFails, Position, BeginConsume, NothingToRead, Reload, ReadHeader,
         NoPacketThere, ReadPayload, PayloadGone, AckPacket, Discard
<1>2. \A k \in Chunks : chunk'[k] \in {chunk[k], ChunkLoad(file), ChunkLoad(<< >>)}
  BY <1>0, ConsumerLoads
<1>3. ASSUME NEW x \in Consumers, x /= c PROVE ReadsFile(x)'
  <2>1. chunk'[chunkOf[x]] \in {chunk[chunkOf[x]], ChunkLoad(file), ChunkLoad(<< >>)}
    <3>1. chunkOf[x] \in Chunks
      BY TopicStoreAssumption
    <3> QED  BY <1>0, <1>2, <3>1
  <2>2. /\ cpc'[x] = cpc[x] /\ group'[x] = group[x] /\ start'[x] = start[x]
        /\ packet'[x] = packet[x] /\ delivered'[x] = delivered[x]
    BY <1>0, <1>3
    DEF ConsumeStep, ConsumeFails, Position, BeginConsume, NothingToRead, Reload, ReadHeader,
        NoPacketThere, ReadPayload, PayloadGone, AckPacket, Discard
  <2> QED  BY <1>0, <1>1, <2>1, <2>2, ReadsFileReloaded DEF FileReadingInv
<1>4. ReadsFile(c)'
  <2>1. CASE \E offset \in Positions : Position(c, offset)
    BY <2>1, PositionReadsFile
  <2>2. CASE ReadHeader(c)
    BY <1>0, <2>2, ReadHeaderReadsFile
  <2>3. CASE ReadPayload(c)
    BY <1>0, <2>3, ReadPayloadReadsFile
  <2>4. CASE AckPacket(c)
    BY <1>0, <2>4, AckReadsFile
  <2>5. CASE BeginConsume(c) \/ NothingToRead(c) \/ Reload(c) \/ NoPacketThere(c)
    <3>1. /\ cpc[c] /= "new" /\ cpc'[c] \in {"idle", "loaded", "header"}
          /\ UNCHANGED <<group, start, delivered>>
      BY <1>0, <2>5 DEF BeginConsume, NothingToRead, Reload, NoPacketThere
    <3>2. chunk'[chunkOf[c]] \in {chunk[chunkOf[c]], ChunkLoad(file), ChunkLoad(<< >>)}
      BY <1>0, <1>2
    <3> QED  BY <1>0, <1>1, <3>1, <3>2, ReadsFileKept
  <2>6. CASE PayloadGone(c) \/ ConsumeFails(c) \/ Discard(c)
    <3>1. /\ cpc[c] /= "new" /\ cpc'[c] = "idle"
          /\ UNCHANGED <<chunk, group, start, delivered>>
      BY <1>0, <2>6 DEF PayloadGone, ConsumeFails, Discard
    <3> QED  BY <1>0, <1>1, <3>1, ReadsFileKept
  <2> QED
    BY <2>1, <2>2, <2>3, <2>4, <2>5, <2>6 DEF ConsumeStep
<1> QED
  BY <1>1, <1>3, <1>4

\* Every step keeps the invariant, the faults' among them.
LEMMA NextReadsFile ==
    ASSUME ReadersHaveTheirOwn, FileReadingInv, [Next]_vars
    PROVE  FileReadingInv'
<1>1. TypeOK /\ file \in Seq(Byte)
  BY DEF FileReadingInv, TypeOK
<1>2. TypeOK'
  BY <1>1, NextType
<1>3. ASSUME NEW p \in Publishers,
             \/ \E es \in Batches[p] : BeginPublish(p, es)
             \/ Flush(p) \/ GetTopicSize(p)
             \/ PublishStep(p)
             \/ AppendFails(p) \/ SaveFails(p)
      PROVE  FileReadingInv'
  <2>1. /\ \E t \in Seq(Byte) : file' = file \o t
        /\ UNCHANGED consumerVars
        /\ \A k \in Chunks : k /= chunkOf[p] => chunk'[k] = chunk[k]
    BY <1>1, <1>3, PublisherGrowsFile
  <2>2. PICK t \in Seq(Byte) : file' = file \o t
    BY <2>1
  <2>3. ASSUME NEW c \in Consumers PROVE ReadsFile(c)'
    <3>1. chunkOf[c] \in Chunks /\ chunkOf[c] /= chunkOf[p]
      BY TopicStoreAssumption DEF ReadersHaveTheirOwn
    <3>2. chunk'[chunkOf[c]] = chunk[chunkOf[c]]
      BY <2>1, <3>1
    <3> QED  BY <1>1, <2>1, <2>2, <3>2, ReadsFileExtended DEF FileReadingInv
  <2> QED  BY <1>2, <2>3 DEF FileReadingInv
<1>4. ASSUME NEW c \in Consumers, ConsumeStep(c) \/ ConsumeFails(c) PROVE FileReadingInv'
  <2>1. UNCHANGED file /\ \A x \in Consumers : ReadsFile(x)'
    BY <1>4, ConsumerReadsFile
  <2> QED  BY <1>1, <1>2, <2>1 DEF FileReadingInv
<1>5. CASE Restart
  <2>1. UNCHANGED file
    BY <1>5 DEF Restart
  <2>2. ASSUME NEW c \in Consumers PROVE ReadsFile(c)'
    <3>1. /\ chunk'[chunkOf[c]] = ChunkLoad(file) /\ cpc'[c] = "new" /\ delivered'[c] = << >>
      BY <1>5, TopicStoreAssumption DEF Restart
    <3>2. Readable(c)' = file /\ HoldsAt(file, 0, file)
      BY <1>1, <3>1 DEF Readable, ChunkLoad, HoldsAt
    <3> QED  BY <2>1, <3>1, <3>2 DEF ReadsFile
  <2> QED  BY <1>1, <1>2, <2>1, <2>2 DEF FileReadingInv
<1>6. CASE UNCHANGED vars
  <2>1. ASSUME NEW c \in Consumers PROVE ReadsFile(c)'
    BY <1>1, <1>6, ReadsFileReloaded DEF vars, FileReadingInv
  <2> QED  BY <1>1, <1>2, <1>6, <2>1 DEF vars, FileReadingInv
<1> QED
  BY <1>3, <1>4, <1>5, <1>6 DEF Next

\* At the start nobody has read.
LEMMA InitReadsFile == Init => FileReadingInv
<1> SUFFICES ASSUME Init PROVE FileReadingInv
  OBVIOUS
<1>1. TypeOK /\ file = Prologue /\ file \in Seq(Byte)
  BY InitType DEF Init, TypeOK
<1>2. ASSUME NEW c \in Consumers PROVE ReadsFile(c)
  <2>1. chunk[chunkOf[c]] = ChunkLoad(file) /\ cpc[c] = "new" /\ delivered[c] = << >>
    BY TopicStoreAssumption DEF Init
  <2>2. Readable(c) = file /\ HoldsAt(file, 0, file)
    BY <1>1, <2>1 DEF Readable, ChunkLoad, HoldsAt
  <2> QED  BY <2>1, <2>2 DEF ReadsFile
<1> QED
  BY <1>1, <1>2 DEF FileReadingInv, Prologue

\* Writes that fail, are cut or get lost, loads that cannot open the file, batches that are
\* refused, crashes, Chunks that publishers share: a group has been given what the file holds
\* from where set_group_pointer() left it up to its read pointer, frame by frame.
THEOREM GroupsAreGivenTheFile ==
    ASSUME ReadersHaveTheirOwn
    PROVE  Spec => []DeliveredFromFile
<1>1. Init => FileReadingInv
  BY InitReadsFile
<1>2. FileReadingInv /\ [Next]_vars => FileReadingInv'
  BY NextReadsFile
<1>3. FileReadingInv => DeliveredFromFile
  BY DEF FileReadingInv, ReadsFile, DeliveredFromFile
<1> QED
  BY <1>1, <1>2, <1>3, PTL DEF Spec

-----------------------------------------------------------------------------
(* Sequences that are frames, one behind the other *)

\* starts are offsets of data from which on it is frames that consume_packet() accepts: with
\* each of them the place where its frame ends, and at is one.
FrameStops(data, at, starts) ==
    /\ starts \subseteq 0..Len(data) /\ at \in starts
    /\ \A i \in starts :
          \/ i = Len(data)
          \/ /\ i + HeaderSize < Len(data)
             /\ DecodeSize(data, i) \in 1..MaxPacketSize
             /\ i + HeaderSize + DecodeSize(data, i) \in starts
IsFramed(data, at) == \E starts : FrameStops(data, at, starts)

\* Nothing is no frame, and an acceptable event's frame is one.
LEMMA SmallFramings ==
    /\ IsFramed(<< >>, 0)
    /\ IsFramed(Prologue, Len(Prologue))
    /\ \A e \in Seq(Byte) : Acceptable(e) => IsFramed(Frame(e), 0)
<1>1. IsFramed(<< >>, 0)
  <2>1. FrameStops(<< >>, 0, {0})
    BY DEF FrameStops
  <2> QED  BY <2>1 DEF IsFramed
<1>2. IsFramed(Prologue, Len(Prologue))
  <2>1. FrameStops(Prologue, Len(Prologue), {Len(Prologue)})
    BY DEF FrameStops, Prologue
  <2> QED  BY <2>1 DEF IsFramed
<1>3. ASSUME NEW e \in Seq(Byte), Acceptable(e) PROVE IsFramed(Frame(e), 0)
  <2>1. PICK f \in Seq(Byte), n \in Nat :
           /\ f = Frame(e) /\ n = Len(e) /\ Len(f) = HeaderSize + n
           /\ \A i \in 1..HeaderSize : f[0 + i] = f[i]
    <3>1. Frame(e) \in Seq(Byte) /\ Len(Frame(e)) = HeaderSize + Len(e)
      BY FrameType
    <3>2. \A i \in 1..HeaderSize : 0 + i = i
      BY DEF HeaderSize
    <3> QED  BY <3>1, <3>2
  <2>2. n \in 1..MaxPacketSize
    BY <1>3, <2>1, TopicStoreAssumption DEF Acceptable
  <2>3. DecodeSize(f, 0) = n
    <3>1. 0 \in Nat /\ \A i \in 1..HeaderSize : f[0 + i] = Frame(e)[i]
      BY <2>1
    <3> QED  BY <1>3, <2>1, <3>1, HeaderDecodes
  <2>4. FrameStops(f, 0, {0, HeaderSize + n})
    BY <2>1, <2>2, <2>3 DEF FrameStops, HeaderSize
  <2> QED  BY <2>1, <2>4 DEF IsFramed
<1> QED
  BY <1>1, <1>2, <1>3

\* Frames behind frames are frames.
LEMMA FramedConcat ==
    ASSUME NEW s \in Seq(Byte), NEW t \in Seq(Byte), NEW at, IsFramed(s, at), IsFramed(t, 0)
    PROVE  IsFramed(s \o t, at)
<1>1. PICK S : FrameStops(s, at, S)
  BY DEF IsFramed
<1>2. PICK T : FrameStops(t, 0, T)
  BY DEF IsFramed
<1>a. PICK m \in Nat, n \in Nat, c \in Seq(Byte) : m = Len(s) /\ n = Len(t) /\ c = s \o t
  <2>1. s \o t \in Seq(Byte)
    BY ConcatProperties
  <2>2. Len(s) \in Nat /\ Len(t) \in Nat
    OBVIOUS
  <2> QED  BY <2>1, <2>2, Zenon
<1>3. /\ m = Len(s) /\ n = Len(t) /\ c = s \o t /\ Len(c) = m + n
      /\ \A i \in 1..(m + n) : c[i] = IF i <= m THEN s[i] ELSE t[i - m]
  <2>1. /\ Len(s \o t) = Len(s) + Len(t)
        /\ \A i \in 1..(Len(s) + Len(t)) :
              (s \o t)[i] = IF i <= Len(s) THEN s[i] ELSE t[i - Len(s)]
    BY ConcatProperties
  <2> QED  BY <1>a, <2>1, Zenon
<1>4. /\ S \subseteq 0..m /\ at \in S /\ T \subseteq 0..n /\ 0 \in T
      /\ \A i \in S : \/ i = m
                      \/ /\ i + HeaderSize < m /\ DecodeSize(s, i) \in 1..MaxPacketSize
                         /\ i + HeaderSize + DecodeSize(s, i) \in S
      /\ \A j \in T : \/ j = n
                      \/ /\ j + HeaderSize < n /\ DecodeSize(t, j) \in 1..MaxPacketSize
                         /\ j + HeaderSize + DecodeSize(t, j) \in T
  BY <1>1, <1>2, <1>3 DEF FrameStops
<1> DEFINE U == {m + j : j \in T}
           R == S \cup U
<1>5. R \subseteq 0..Len(c) /\ at \in R
  <2>1. ASSUME NEW i \in U PROVE i \in 0..(m + n)
    <3>1. PICK j \in T : i = m + j
      OBVIOUS
    <3>2. j \in 0..n
      BY <1>4
    <3> HIDE DEF U
    <3> QED  BY <3>1, <3>2
  <2>2. ASSUME NEW i \in S PROVE i \in 0..(m + n)
    <3>1. i \in 0..m
      BY <1>4
    <3> QED  BY <3>1
  <2> HIDE DEF U
  <2> QED  BY <1>3, <1>4, <2>1, <2>2
<1>6. ASSUME NEW i \in U
      PROVE  \/ i = Len(c)
             \/ /\ i + HeaderSize < Len(c) /\ DecodeSize(c, i) \in 1..MaxPacketSize
                /\ i + HeaderSize + DecodeSize(c, i) \in R
  <2>1. PICK j \in T : i = m + j
    OBVIOUS
  <2> HIDE DEF U, R
  <2>2. j \in 0..n
    BY <1>4
  <2>3. CASE j = n
    BY <1>3, <2>1, <2>3
  <2>4. CASE j /= n
    <3>1. PICK d \in 1..MaxPacketSize :
             d = DecodeSize(t, j) /\ j + HeaderSize < n /\ j + HeaderSize + d \in T
      BY <1>4, <2>4
    <3>2. DecodeSize(c, i) = d
      <4>1. \A k \in 1..n : c[m + k] = t[k]
        <5> SUFFICES ASSUME NEW k \in 1..n PROVE c[m + k] = t[k]
          OBVIOUS
        <5>1. m + k \in 1..(m + n) /\ ~(m + k <= m) /\ m + k - m = k
          OBVIOUS
        <5> QED  BY <1>3, <5>1
      <4>2. /\ j + 1 \in 1..n /\ j + 2 \in 1..n /\ j + 3 \in 1..n /\ j + 4 \in 1..n
        BY <2>2, <3>1 DEF HeaderSize
      <4>3. /\ c[m + (j + 1)] = t[j + 1] /\ c[m + (j + 2)] = t[j + 2]
            /\ c[m + (j + 3)] = t[j + 3] /\ c[m + (j + 4)] = t[j + 4]
        BY <4>1, <4>2
      <4>4. /\ m + (j + 1) = i + 1 /\ m + (j + 2) = i + 2
            /\ m + (j + 3) = i + 3 /\ m + (j + 4) = i + 4
        BY <2>1, <2>2
      <4>5. /\ c[i + 1] = t[j + 1] /\ c[i + 2] = t[j + 2]
            /\ c[i + 3] = t[j + 3] /\ c[i + 4] = t[j + 4]
        BY <4>3, <4>4
      <4> QED  BY <3>1, <4>5 DEF DecodeSize
    <3>3. m + (j + HeaderSize + d) \in U
      BY <3>1 DEF U
    <3>4. i + HeaderSize + d = m + (j + HeaderSize + d) /\ i + HeaderSize < m + n
      BY <2>1, <2>2, <3>1 DEF HeaderSize
    <3>5. i + HeaderSize + d \in R
      BY <3>3, <3>4 DEF R
    <3> QED  BY <1>3, <3>2, <3>4, <3>5
  <2> QED  BY <2>3, <2>4
<1>7. ASSUME NEW i \in S
      PROVE  \/ i = Len(c)
             \/ /\ i + HeaderSize < Len(c) /\ DecodeSize(c, i) \in 1..MaxPacketSize
                /\ i + HeaderSize + DecodeSize(c, i) \in R
  <2>1. i \in 0..m
    BY <1>4
  <2>2. CASE i = m
    <3>1. m + 0 \in U
      BY <1>4
    <3>2. i \in U
      <4> HIDE DEF U
      <4> QED  BY <2>2, <3>1
    <3> QED  BY <1>6, <3>2
  <2>3. CASE i /= m
    <3>1. PICK d \in 1..MaxPacketSize :
             d = DecodeSize(s, i) /\ i + HeaderSize < m /\ i + HeaderSize + d \in S
      BY <1>4, <2>3
    <3>2. DecodeSize(c, i) = d
      <4>1. i \in Nat /\ i + HeaderSize <= Len(s)
        BY <1>3, <2>1, <3>1 DEF HeaderSize
      <4> QED  BY <1>3, <3>1, <4>1, DecodeExtended
    <3>3. i + HeaderSize < m + n
      BY <2>1, <3>1 DEF HeaderSize
    <3> QED  BY <1>3, <3>1, <3>2, <3>3
  <2> QED  BY <2>2, <2>3
<1>8. FrameStops(c, at, R)
  BY <1>5, <1>6, <1>7 DEF FrameStops
<1> QED
  BY <1>3, <1>8 DEF IsFramed

\* The recursive function of FramedFrom finds the frames that are there.
LEMMA FramedFromFrames ==
    ASSUME NEW s \in Seq(Byte), NEW at, IsFramed(s, at)
    PROVE  FramedFrom(s)[at]
<1>0. PICK l \in Nat : l = Len(s)
  OBVIOUS
<1> DEFINE Ends(h, i) ==
             \/ i = Len(s)
             \/ /\ i + HeaderSize < Len(s)
                /\ DecodeSize(s, i) \in 1..MaxPacketSize
                /\ i + HeaderSize + DecodeSize(s, i) <= Len(s)
                /\ h[i + HeaderSize + DecodeSize(s, i)]
           P(h) == h = [i \in 0..Len(s) |-> Ends(h, i)]
           g == CHOOSE h : P(h)
           f == [i \in 0..Len(s) |-> IsFramed(s, i)]
<1>1. FramedFrom(s) = g
  BY DEF FramedFrom
<1>2. ASSUME NEW i \in 0..Len(s) PROVE IsFramed(s, i) = Ends(f, i)
  <2>1. ASSUME IsFramed(s, i) PROVE Ends(f, i)
    <3>1. PICK S : FrameStops(s, i, S)
      BY <2>1 DEF IsFramed
    <3>2. CASE i = Len(s)
      BY <3>2
    <3>3. CASE i /= Len(s)
      <4>1. PICK d \in 1..MaxPacketSize :
               /\ d = DecodeSize(s, i) /\ i + HeaderSize < Len(s)
               /\ i + HeaderSize + d \in S
        BY <3>1, <3>3 DEF FrameStops
      <4>2. PICK k \in 0..Len(s) : k = i + HeaderSize + d
        BY <3>1, <4>1 DEF FrameStops
      <4>3. FrameStops(s, k, S)
        BY <3>1, <4>1, <4>2 DEF FrameStops
      <4>4. f[k]
        BY <4>3 DEF IsFramed
      <4>5. k <= Len(s)
        BY <1>0, <4>2
      <4> HIDE DEF f
      <4> QED  BY <4>1, <4>2, <4>4, <4>5
    <3> QED  BY <3>2, <3>3
  <2>2. ASSUME Ends(f, i) PROVE IsFramed(s, i)
    <3>1. CASE i = Len(s)
      <4>1. FrameStops(s, i, {i})
        BY <3>1 DEF FrameStops
      <4> QED  BY <4>1 DEF IsFramed
    <3>2. CASE i /= Len(s)
      <4>1. PICK d \in 1..MaxPacketSize :
               /\ d = DecodeSize(s, i) /\ i + HeaderSize < Len(s)
               /\ i + HeaderSize + d <= Len(s) /\ f[i + HeaderSize + d]
        BY <2>2, <3>2
      <4>2. PICK k \in 0..Len(s) : k = i + HeaderSize + d
        <5>1. i + HeaderSize + d \in 0..Len(s)
          BY <1>0, <4>1 DEF HeaderSize
        <5> QED  BY <5>1
      <4>3. IsFramed(s, k)
        BY <4>1, <4>2
      <4>4. PICK S : FrameStops(s, k, S)
        BY <4>3 DEF IsFramed
      <4>5. FrameStops(s, i, S \cup {i})
        BY <4>1, <4>2, <4>4 DEF FrameStops
      <4> QED  BY <4>5 DEF IsFramed
    <3> QED  BY <3>1, <3>2
  <2> QED  BY <2>1, <2>2
<1>3. P(f)
  <2> HIDE DEF Ends
  <2> QED  BY <1>2, Zenon
<1> HIDE DEF P
<1>4. P(g)
  BY <1>3, Zenon
<1> HIDE DEF g
<1>5. ASSUME NEW i \in 0..Len(s), Ends(g, i) PROVE g[i]
  <2>1. g = [k \in 0..Len(s) |-> Ends(g, k)]
    BY <1>4, Zenon DEF P
  <2> HIDE DEF Ends
  <2>2. g[i] = Ends(g, i)
    BY <2>1, Zenon
  <2> QED  BY <1>5, <2>2, Zenon
<1>6. PICK S : FrameStops(s, at, S)
  BY DEF IsFramed
<1> DEFINE B == {l - i : i \in {k \in S : ~g[k]}}
<1>7. B = {}
  <2> SUFFICES ASSUME B /= {} PROVE FALSE
    OBVIOUS
  <2>1. B \subseteq Nat
    BY <1>0, <1>6 DEF FrameStops
  <2>2. PICK m \in B : \A k \in B : m <= k
    <3> HIDE DEF B
    <3> QED  BY <2>1, LeastNumber
  <2>3. PICK i \in S : m = l - i /\ ~g[i]
    BY <2>2
  <2>4. i \in 0..Len(s)
    BY <1>6 DEF FrameStops
  <2>5. i /= Len(s)
    BY <1>5, <2>3, <2>4
  <2>6. PICK d \in 1..MaxPacketSize :
           d = DecodeSize(s, i) /\ i + HeaderSize < Len(s) /\ i + HeaderSize + d \in S
    BY <1>6, <2>5 DEF FrameStops
  <2>7. PICK k \in 0..Len(s) : k = i + HeaderSize + d /\ k \in S
    BY <1>6, <2>6 DEF FrameStops
  <2>8. g[k]
    <3> SUFFICES ASSUME ~g[k] PROVE FALSE
      OBVIOUS
    <3>1. l - k \in B
      BY <2>7
    <3>2. l - i <= l - k
      <4> HIDE DEF B
      <4> QED  BY <2>2, <2>3, <3>1
    <3> QED  BY <1>0, <2>4, <2>6, <2>7, <3>2 DEF HeaderSize
  <2>9. Ends(g, i)
    BY <1>0, <2>6, <2>7, <2>8
  <2> QED  BY <1>5, <2>3, <2>4, <2>9
<1>8. g[at]
  <2>1. at \in S
    BY <1>6 DEF FrameStops
  <2> QED  BY <1>7, <2>1
<1> QED  BY <1>1, <1>8

-----------------------------------------------------------------------------
(* What the file is while nothing fails *)

\* What a publisher's Chunk has not saved is frames, whole ones but for the payload that is
\* still to come: those of its call, and of batches that were refused before.
Building(p) ==
    LET k == chunk[chunkOf[p]]
    IN  /\ Len(k.data) >= k.persisted_size
        /\ pc[p] \in {"header", "payload"} => Acceptable(event[p])
        /\ pc[p] /= "payload" => IsFramed(Delta(k), 0)
        /\ pc[p] = "payload" =>
              \E frames \in Seq(Byte) : /\ IsFramed(frames, 0)
                                        /\ Delta(k) = frames \o EncodeSize(Len(event[p]))
FramingInv ==
    /\ TypeOK
    /\ \A p \in Publishers : pc[p] /= "saving"
    /\ faults = 0 => /\ IsFramed(file, Len(Prologue))
                     /\ \A p \in Publishers : Building(p)

\* The delta of a Chunk that is as long as what it believes to be on disk.
LEMMA DeltaEmpty ==
    ASSUME NEW k \in ChunkType(Byte), k.persisted_size = Len(k.data)
    PROVE  Delta(k) = << >>
<1>1. Delta(k) \in Seq(Byte) /\ k.data \in Seq(Byte)
  BY DeltaType DEF ChunkType
<1>2. Len(Delta(k)) = IF k.persisted_size <= Len(k.data) THEN Len(k.data) - k.persisted_size ELSE 0
  BY DeltaType
<1>3. Len(Delta(k)) = 0
  BY <1>1, <1>2
<1> QED  BY <1>1, <1>3, EmptySeq

\* What is appended to a Chunk is appended to its delta.
LEMMA DeltaAppended ==
    ASSUME NEW k \in ChunkType(Byte), Len(k.data) >= k.persisted_size, NEW b \in Seq(Byte)
    PROVE  /\ Delta(ChunkAppend(k, b)) = Delta(k) \o b
           /\ Len(ChunkAppend(k, b).data) >= k.persisted_size
           /\ ChunkAppend(k, b).persisted_size = k.persisted_size
<1>1. PICK j \in ChunkType(Byte) : j = ChunkAppend(k, b)
  <2>1. ChunkAppend(k, b) \in ChunkType(Byte)
    BY ChunkOperationsType
  <2> QED  BY <2>1
<1>2. PICK s \in Seq(Byte), r \in Seq(Byte), n \in Nat :
         s = k.data /\ r = j.data /\ n = k.persisted_size
  BY DEF ChunkType
<1>3. r = s \o b /\ j.persisted_size = n /\ n <= Len(s)
  BY <1>1, <1>2 DEF ChunkAppend, ChunkType
<1>4. /\ Len(r) = Len(s) + Len(b)
      /\ \A i \in 1..(Len(s) + Len(b)) : r[i] = IF i <= Len(s) THEN s[i] ELSE b[i - Len(s)]
  BY <1>3, ConcatProperties
<1>5. PICK dk \in Seq(Byte), dj \in Seq(Byte) : dk = Delta(k) /\ dj = Delta(j)
  BY DeltaType
<1>6. PICK m \in Nat, u \in Nat : m = Len(s) - n /\ u = Len(b)
  <2>1. Len(s) - n \in Nat /\ Len(b) \in Nat
    BY <1>3
  <2> QED  BY <2>1, Zenon
<1>7. /\ Len(dk) = m /\ \A i \in 1..m : dk[i] = s[n + i]
      /\ Len(dj) = m + u /\ \A i \in 1..(m + u) : dj[i] = r[n + i]
  <2>1. /\ Len(Delta(k)) = IF k.persisted_size <= Len(k.data)
                           THEN Len(k.data) - k.persisted_size ELSE 0
        /\ \A i \in 1..(Len(k.data) - k.persisted_size) : Delta(k)[i] = k.data[k.persisted_size + i]
    BY DeltaType
  <2>2. /\ Len(Delta(j)) = IF j.persisted_size <= Len(j.data)
                           THEN Len(j.data) - j.persisted_size ELSE 0
        /\ \A i \in 1..(Len(j.data) - j.persisted_size) : Delta(j)[i] = j.data[j.persisted_size + i]
    BY DeltaType
  <2>3. /\ Len(dk) = IF n <= Len(s) THEN Len(s) - n ELSE 0
        /\ \A i \in 1..(Len(s) - n) : dk[i] = s[n + i]
    BY <1>2, <1>5, <2>1, Zenon
  <2>4. /\ Len(dj) = IF n <= Len(r) THEN Len(r) - n ELSE 0
        /\ \A i \in 1..(Len(r) - n) : dj[i] = r[n + i]
    BY <1>2, <1>3, <1>5, <2>2, Zenon
  <2>5. n <= Len(r) /\ Len(r) - n = m + u /\ Len(s) - n = m
    BY <1>3, <1>4, <1>6
  <2>6. Len(dk) = m /\ Len(dj) = m + u
    BY <1>3, <1>6, <2>3, <2>4, <2>5
  <2> QED  BY <2>3, <2>4, <2>5, <2>6
<1>8. PICK q \in Seq(Byte) : /\ q = dk \o b /\ Len(q) = m + u
                             /\ \A i \in 1..(m + u) : q[i] = IF i <= m THEN dk[i] ELSE b[i - m]
  <2>1. /\ dk \o b \in Seq(Byte) /\ Len(dk \o b) = Len(dk) + Len(b)
        /\ \A i \in 1..(Len(dk) + Len(b)) :
              (dk \o b)[i] = IF i <= Len(dk) THEN dk[i] ELSE b[i - Len(dk)]
    BY ConcatProperties
  <2>2. Len(dk) = m /\ Len(b) = u
    BY <1>6, <1>7
  <2> QED  BY <2>1, <2>2, Zenon
<1>9. ASSUME NEW i \in 1..(m + u) PROVE dj[i] = q[i]
  <2>1. dj[i] = r[n + i]
    BY <1>7
  <2>2. n + i \in 1..(Len(s) + Len(b)) /\ (n + i <= Len(s) <=> i <= m) /\ n + i - Len(s) = i - m
    BY <1>3, <1>6
  <2>3. r[n + i] = IF i <= m THEN s[n + i] ELSE b[i - m]
    BY <1>4, <2>2
  <2>4. i <= m => dk[i] = s[n + i]
    BY <1>7
  <2> QED  BY <1>8, <2>1, <2>3, <2>4
<1>10. dj = q
  BY <1>7, <1>8, <1>9, SeqEqual
<1>11. Len(r) >= n
  BY <1>3, <1>4
<1> QED  BY <1>1, <1>2, <1>3, <1>5, <1>8, <1>10, <1>11

\* A publisher that is left alone.
LEMMA BuildingKept ==
    ASSUME NEW p \in Publishers, Building(p), chunk'[chunkOf[p]] = chunk[chunkOf[p]],
           event'[p] = event[p],
           \/ pc'[p] = pc[p]
           \/ pc[p] /= "payload" /\ pc'[p] \notin {"header", "payload"}
    PROVE  Building(p)'
BY DEF Building

\* A Chunk that was just loaded or saved has nothing to save.
LEMMA BuildingNothing ==
    ASSUME NEW p \in Publishers, NEW k \in ChunkType(Byte), chunk'[chunkOf[p]] = k,
           k.persisted_size = Len(k.data), pc'[p] /= "payload",
           pc'[p] = "header" => Acceptable(event'[p])
    PROVE  Building(p)'
<1>1. Delta(k) = << >>
  BY DeltaEmpty
<1>2. IsFramed(Delta(k), 0)
  BY <1>1, SmallFramings
<1>3. Len(k.data) >= k.persisted_size
  BY DEF ChunkType
<1> QED
  BY <1>2, <1>3 DEF Building

\* A publisher's steps that fail at nothing: its Chunk's delta grows by whole frames, and the
\* file by a whole delta.
LEMMA StepBuilds ==
    ASSUME TypeOK, ~SplitWrites, NEW p \in Publishers, pc[p] /= "saving",
           IsFramed(file, Len(Prologue)), Building(p),
           \/ \E es \in Batches[p] : BeginPublish(p, es)
           \/ Flush(p) \/ GetTopicSize(p)
           \/ PublishStep(p)
    PROVE  IsFramed(file', Len(Prologue)) /\ Building(p)'
<1>0. /\ chunkOf[p] \in Chunks /\ DOMAIN chunk = Chunks /\ DOMAIN pc = Publishers
      /\ DOMAIN event = Publishers /\ file \in Seq(Byte) /\ event[p] \in Seq(Byte)
  BY ThreadChunkType DEF TypeOK
<1>k. PICK k \in ChunkType(Byte) : k = chunk[chunkOf[p]]
  BY ThreadChunkType
<1>l. /\ Synced(k) \in ChunkType(Byte)
      /\ Synced(k).persisted_size = Len(Synced(k).data)
  <2>1. Synced(k) \in ChunkType(Byte)
    BY <1>0, ChunkOperationsType
  <2>2. Synced(k).persisted_size = Len(Synced(k).data)
    BY DEF Synced, ChunkType
  <2> QED  BY <2>1, <2>2
<1>m. ASSUME Loads(p), pc'[p] /= "payload", pc'[p] = "header" => Acceptable(event'[p])
      PROVE  Building(p)'
  <2>1. /\ chunk'[chunkOf[p]] \in ChunkType(Byte)
        /\ chunk'[chunkOf[p]].persisted_size = Len(chunk'[chunkOf[p]].data)
    BY <1>m, LoadsLeave
  <2> QED  BY <1>m, <2>1, BuildingNothing
<1>1. CASE \E es \in Batches[p] : BeginPublish(p, es)
  <2>1. PICK es \in Batches[p] : BeginPublish(p, es)
    BY <1>1
  <2>2. /\ pc[p] = "idle" /\ pc'[p] = "header" /\ event'[p] = Head(es) /\ Acceptable(Head(es))
        /\ GetTopic(p) /\ file' = file
    BY <1>0, <2>1 DEF BeginPublish
  <2>3. CASE Reopen
    <3>1. Loads(p)
      BY <2>2, <2>3 DEF GetTopic
    <3> QED  BY <1>m, <2>2, <3>1
  <2>4. CASE ~Reopen
    <3>1. chunk' = chunk
      BY <2>2, <2>4 DEF GetTopic
    <3> QED  BY <2>2, <3>1 DEF Building
  <2> QED  BY <2>3, <2>4
<1>2. CASE Flush(p)
  <2>1. chunk' = chunk /\ pc[p] = "idle" /\ pc'[p] = "save" /\ event' = event /\ file' = file
    BY <1>0, <1>2 DEF Flush
  <2> QED  BY <2>1, BuildingKept
<1>3. CASE GetTopicSize(p)
  <2>1. Loads(p) /\ pc'[p] = "idle" /\ file' = file
    BY <1>0, <1>3 DEF GetTopicSize
  <2> QED  BY <1>m, <2>1
<1>4. CASE AppendHeader(p)
  <2>1. /\ pc[p] = "header" /\ pc'[p] = "payload" /\ event' = event /\ file' = file
        /\ chunk'[chunkOf[p]] = ChunkAppend(k, EncodeSize(Len(event[p])))
    BY <1>0, <1>4, <1>k DEF AppendHeader
  <2>2. PICK b \in Seq(Byte) : b = EncodeSize(Len(event[p]))
    <3>1. Len(event[p]) \in Nat
      BY <1>0
    <3> QED  BY <3>1, EncodeSizeType
  <2>3. PICK v \in Seq(Byte) : v = Delta(k) /\ IsFramed(v, 0)
    <3>1. Delta(k) \in Seq(Byte)
      BY DeltaType
    <3> QED  BY <1>k, <2>1, <3>1 DEF Building
  <2>4. /\ Delta(ChunkAppend(k, b)) = v \o b
        /\ Len(ChunkAppend(k, b).data) >= ChunkAppend(k, b).persisted_size
    <3>1. Len(k.data) >= k.persisted_size
      BY <1>k DEF Building
    <3> QED  BY <2>3, <3>1, DeltaAppended
  <2>5. Acceptable(event'[p])
    BY <2>1 DEF Building
  <2>6. /\ Delta(chunk'[chunkOf[p]]) = v \o EncodeSize(Len(event'[p]))
        /\ Len(chunk'[chunkOf[p]].data) >= chunk'[chunkOf[p]].persisted_size
    BY <2>1, <2>2, <2>4
  <2> QED  BY <2>1, <2>3, <2>5, <2>6 DEF Building
<1>5. CASE AppendPayload(p)
  <2>1. /\ pc[p] = "payload" /\ pc'[p] \in {"save", "next"} /\ file' = file
        /\ chunk'[chunkOf[p]] = ChunkAppend(k, event[p])
    BY <1>0, <1>5, <1>k DEF AppendPayload
  <2>2. PICK e \in Seq(Byte), b \in Seq(Byte) :
           e = event[p] /\ b = EncodeSize(Len(e)) /\ Acceptable(e)
    <3>1. Len(event[p]) \in Nat
      BY <1>0
    <3>2. EncodeSize(Len(event[p])) \in Seq(Byte)
      BY <3>1, EncodeSizeType
    <3> QED  BY <1>0, <2>1, <3>2 DEF Building
  <2>3. PICK v \in Seq(Byte) : IsFramed(v, 0) /\ Delta(k) = v \o b
    BY <1>k, <2>1, <2>2 DEF Building
  <2>4. /\ Delta(ChunkAppend(k, e)) = (v \o b) \o e
        /\ Len(ChunkAppend(k, e).data) >= ChunkAppend(k, e).persisted_size
    <3>1. Len(k.data) >= k.persisted_size
      BY <1>k DEF Building
    <3> QED  BY <2>3, <3>1, DeltaAppended
  <2>5. (v \o b) \o e = v \o Frame(e)
    <3>1. (v \o b) \o e = v \o (b \o e)
      BY ConcatAssociative
    <3>2. Frame(e) = b \o e
      BY <2>2, Zenon DEF Frame
    <3> QED  BY <3>1, <3>2, Zenon
  <2>6. IsFramed(v \o Frame(e), 0)
    BY <2>2, <2>3, FrameType, SmallFramings, FramedConcat
  <2>7. /\ IsFramed(Delta(chunk'[chunkOf[p]]), 0)
        /\ Len(chunk'[chunkOf[p]].data) >= chunk'[chunkOf[p]].persisted_size
    BY <2>1, <2>2, <2>4, <2>5, <2>6
  <2> QED  BY <2>1, <2>7 DEF Building
<1>6. CASE NextElement(p)
  <2>1. /\ pc[p] = "next" /\ pc'[p] = "header" /\ chunk' = chunk /\ file' = file
        /\ Acceptable(event'[p])
    BY <1>0, <1>6 DEF NextElement
  <2> QED  BY <2>1 DEF Building
<1>7. CASE RefuseElement(p)
  <2>1. /\ pc[p] = "next" /\ pc'[p] = "idle" /\ chunk' = chunk /\ file' = file
        /\ event' = event
    BY <1>0, <1>7 DEF RefuseElement, Return
  <2> QED  BY <2>1, BuildingKept
<1>8. CASE SaveWhole(p)
  <2>1. /\ pc[p] = "save" /\ pc'[p] = "idle" /\ chunk'[chunkOf[p]] = Synced(k)
        /\ file' = file \o Delta(k)
    BY <1>0, <1>8, <1>k DEF SaveWhole, Return
  <2>2. Building(p)'
    BY <1>l, <2>1, BuildingNothing
  <2>3. Delta(k) \in Seq(Byte) /\ IsFramed(Delta(k), 0)
    BY <1>k, <2>1, DeltaType DEF Building
  <2> QED  BY <1>0, <2>1, <2>2, <2>3, FramedConcat
<1>9. ~SaveFirstPart(p) /\ ~SaveRest(p)
  BY DEF SaveFirstPart, SaveRest
<1> QED
  BY <1>1, <1>2, <1>3, <1>4, <1>5, <1>6, <1>7, <1>8, <1>9 DEF PublishStep

\* Every step of a publisher.
LEMMA PublishFraming ==
    ASSUME PrivateChunks, ~SplitWrites, FramingInv, NEW p \in Publishers,
           \/ \E es \in Batches[p] : BeginPublish(p, es)
           \/ Flush(p) \/ GetTopicSize(p)
           \/ PublishStep(p)
           \/ AppendFails(p) \/ SaveFails(p)
    PROVE  FramingInv'
<1>0. /\ TypeOK /\ faults \in Nat /\ DOMAIN pc = Publishers /\ DOMAIN event = Publishers
      /\ \A q \in Publishers : pc[q] /= "saving"
  BY DEF FramingInv, TypeOK
<1>1. TypeOK'
  BY <1>0, PublishType
<1>2. /\ \A q \in Publishers : q /= p => pc'[q] = pc[q] /\ event'[q] = event[q]
      /\ pc'[p] /= "saving"
  <2>1. CASE \/ \E es \in Batches[p] : BeginPublish(p, es)
             \/ Flush(p) \/ GetTopicSize(p) \/ AppendFails(p) \/ SaveFails(p)
    BY <1>0, <2>1 DEF BeginPublish, Flush, GetTopicSize, AppendFails, SaveFails, Return
  <2>2. CASE AppendHeader(p) \/ AppendPayload(p) \/ NextElement(p) \/ RefuseElement(p)
    BY <1>0, <2>2 DEF AppendHeader, AppendPayload, NextElement, RefuseElement, Return
  <2>3. CASE SaveWhole(p) \/ SaveFirstPart(p) \/ SaveRest(p)
    BY <1>0, <2>3 DEF SaveWhole, SaveFirstPart, SaveRest, Return
  <2> QED  BY <2>1, <2>2, <2>3 DEF PublishStep
<1>3. CASE AppendFails(p) \/ SaveFails(p)
  <2>1. faults' = faults + 1
    BY <1>3 DEF AppendFails, SaveFails, Fault
  <2>2. faults' /= 0
    BY <1>0, <2>1
  <2> QED  BY <1>0, <1>1, <1>2, <2>2 DEF FramingInv
<1>4. CASE \/ \E es \in Batches[p] : BeginPublish(p, es)
           \/ Flush(p) \/ GetTopicSize(p) \/ PublishStep(p)
  <2>1. faults' = 0 => faults = 0
    <3>1. UNCHANGED faults \/ Loads(p)
      BY <1>4 DEF BeginPublish, GetTopic, Flush, GetTopicSize, PublishStep, AppendHeader,
                  AppendPayload, NextElement, RefuseElement, SaveWhole, SaveFirstPart, SaveRest
    <3>2. faults' \in {faults, faults + 1}
      BY <1>0, <3>1, LoadsLeave
    <3> QED  BY <1>0, <3>2
  <2>2. ASSUME faults = 0
        PROVE  /\ IsFramed(file', Len(Prologue))
               /\ \A q \in Publishers : Building(q)'
    <3>1. IsFramed(file, Len(Prologue)) /\ \A q \in Publishers : Building(q)
      BY <2>2 DEF FramingInv
    <3>2. IsFramed(file', Len(Prologue)) /\ Building(p)'
      BY <1>0, <1>4, <3>1, StepBuilds
    <3>3. ASSUME NEW q \in Publishers, q /= p PROVE Building(q)'
      <4>1. chunkOf[q] \in Chunks /\ chunkOf[q] /= chunkOf[p]
        BY <3>3, TopicStoreAssumption DEF PrivateChunks
      <4>2. chunk'[chunkOf[q]] = chunk[chunkOf[q]]
        BY <1>0, <1>4, <4>1, PublisherGrowsFile
      <4> QED  BY <1>2, <3>1, <3>3, <4>2, BuildingKept
    <3> QED  BY <3>2, <3>3
  <2> QED  BY <1>0, <1>1, <1>2, <2>1, <2>2 DEF FramingInv
<1> QED
  BY <1>3, <1>4

\* Every step keeps the invariant.
LEMMA NextFraming ==
    ASSUME PrivateChunks, ~SplitWrites, FramingInv, [Next]_vars
    PROVE  FramingInv'
<1>1. TypeOK /\ faults \in Nat /\ DOMAIN chunk = Chunks
  BY DEF FramingInv, TypeOK
<1>2. TypeOK'
  BY <1>1, NextType
<1>3. ASSUME NEW p \in Publishers,
             \/ \E es \in Batches[p] : BeginPublish(p, es)
             \/ Flush(p) \/ GetTopicSize(p)
             \/ PublishStep(p)
             \/ AppendFails(p) \/ SaveFails(p)
      PROVE  FramingInv'
  BY <1>3, PublishFraming
<1>4. ASSUME NEW c \in Consumers, ConsumeStep(c) \/ ConsumeFails(c) PROVE FramingInv'
  <2>1. UNCHANGED <<file, publisherVars>>
    BY <1>4
    DEF ConsumeStep, ConsumeFails, Position, BeginConsume, NothingToRead, Reload, ReadHeader,
        NoPacketThere, ReadPayload, PayloadGone, AckPacket, Discard
  <2>2. \A k \in Chunks : k /= chunkOf[c] => chunk'[k] = chunk[k]
    BY <1>1, <1>4, ConsumerLoads
  <2>3. faults' = faults \/ faults' = faults + 1
    BY <1>4
    DEF ConsumeStep, ConsumeFails, Position, BeginConsume, NothingToRead, Reload, ReadHeader,
        NoPacketThere, ReadPayload, PayloadGone, AckPacket, Discard, Loads, Load, Fault
  <2>4. ASSUME NEW q \in Publishers, Building(q) PROVE Building(q)'
    <3>1. chunkOf[q] \in Chunks /\ chunkOf[q] /= chunkOf[c]
      BY TopicStoreAssumption DEF PrivateChunks
    <3>2. chunk'[chunkOf[q]] = chunk[chunkOf[q]]
      BY <1>1, <2>2, <3>1
    <3> QED  BY <2>1, <2>4, <3>2, BuildingKept
  <2>5. faults' = 0 => faults = 0
    BY <1>1, <2>3
  <2> QED  BY <1>2, <2>1, <2>4, <2>5 DEF FramingInv
<1>5. CASE Restart
  <2>1. faults' /= 0 /\ \A p \in Publishers : pc'[p] = "idle"
    BY <1>1, <1>5 DEF Restart, Fault
  <2> QED  BY <1>2, <2>1 DEF FramingInv
<1>6. CASE UNCHANGED vars
  <2>1. ASSUME NEW q \in Publishers, Building(q) PROVE Building(q)'
    BY <1>6, <2>1, BuildingKept DEF vars
  <2> QED  BY <1>2, <1>6, <2>1 DEF vars, FramingInv
<1> QED
  BY <1>3, <1>4, <1>5, <1>6 DEF Next

\* At the start the file is the prologue and nothing is unsaved.
LEMMA InitFraming == Init => FramingInv
<1> SUFFICES ASSUME Init PROVE FramingInv
  OBVIOUS
<1>1. /\ TypeOK /\ file = Prologue /\ file \in Seq(Byte)
      /\ \A p \in Publishers : pc[p] = "idle" /\ chunk[chunkOf[p]] = ChunkLoad(file)
  BY InitType, TopicStoreAssumption DEF Init, TypeOK
<1>2. PICK k \in ChunkType(Byte) : k = ChunkLoad(file) /\ k.persisted_size = Len(k.data)
  <2>1. ChunkLoad(file) \in ChunkType(Byte)
    BY <1>1 DEF ChunkLoad, ChunkType
  <2> QED  BY <2>1 DEF ChunkLoad
<1>3. IsFramed(Delta(k), 0) /\ Len(k.data) >= k.persisted_size
  <2>1. Delta(k) = << >>
    BY <1>2, DeltaEmpty
  <2> QED  BY <1>2, <2>1, SmallFramings DEF ChunkType
<1>4. ASSUME NEW p \in Publishers PROVE Building(p)
  BY <1>1, <1>2, <1>3 DEF Building
<1>5. IsFramed(file, Len(Prologue))
  BY <1>1, SmallFramings
<1> QED
  BY <1>1, <1>4, <1>5 DEF FramingInv

\* While nothing failed, whatever batches were refused half-way: behind the prologue the file
\* is frames that consume_packet() accepts, one behind the other, up to its end, so that no
\* consumer that starts there is ever stuck at something that is none.
THEOREM FileStaysFrames ==
    ASSUME PrivateChunks, ~SplitWrites
    PROVE  Spec => []FileIsFrames
<1>1. Init => FramingInv
  BY InitFraming
<1>2. FramingInv /\ [Next]_vars => FramingInv'
  BY NextFraming
<1>3. FramingInv => FileIsFrames
  <2> SUFFICES ASSUME FramingInv, faults = 0 PROVE FramedFrom(file)[Len(Prologue)]
    BY DEF FileIsFrames
  <2>1. file \in Seq(Byte) /\ IsFramed(file, Len(Prologue))
    BY DEF FramingInv, TypeOK
  <2> QED  BY <2>1, FramedFromFrames
<1> QED
  BY <1>1, <1>2, <1>3, PTL DEF Spec
=============================================================================
