--------------------------- MODULE Streaming_proofs ---------------------------
(***************************************************************************)
(* Theorems about Streaming, for every value of its constants: any number   *)
(* of packets, errors, frames and requests, and replies in any number of    *)
(* pieces.                                                                 *)
(***************************************************************************)
EXTENDS Streaming, FiniteSetTheorems, SequenceTheorems, TLAPS

\* The records TypeOK gives the handler.
Handlers == [at : {"idle", "loop", "send", "await", "dead"}, packet : Nat,
             packets_sent : Nat, error_count : Nat, first : Nat \cup {-1}]
USE DEF Handlers

-----------------------------------------------------------------------------
(* The inductive invariant *)

\* A packet is in hand from the call of consume_packet() that took it until its
\* acknowledgement, its error or the end of the process.
Holding == At("send") \/ At("await") \/ At("dead")

\* The counters of the loop stay within their limits, and below them while a packet is in
\* hand; that packet is the last one the group's pointer passed, and this request took it.
Counters ==
    /\ handler.packets_sent <= MaxPackets /\ handler.error_count <= MaxErrors
    /\ ~At("idle") => handler.first <= read_pointer
    /\ ~Holding => handler.packet = 0
    /\ Holding => /\ handler.packet = read_pointer /\ read_pointer >= 1
                  /\ handler.first < read_pointer
                  /\ handler.packets_sent < MaxPackets /\ handler.error_count < MaxErrors

\* What clients have read and what is on its way to one: the packets in their order, none that
\* the pointer has not passed, and not the packet in hand before it is sent.
Sent == received \o transit
InOrder ==
    /\ \A i, j \in 1..Len(Sent) : i < j => Sent[i] < Sent[j]
    /\ \A i \in 1..Len(Sent) : Sent[i] <= read_pointer
    /\ At("send") => \A i \in 1..Len(Sent) : Sent[i] < handler.packet
    /\ connection = "closed" => transit = << >>

\* The packet in hand that a client has read is answered by one piece more.
OnItsWay(p) == \E i \in 1..Len(transit) : transit[i] = p
AnsweredInHand == IF At("await") /\ WasReceived(handler.packet) THEN 1 ELSE 0

\* While the client is there, each packet on its way to it and each piece it sent stand for a
\* packet that this request was done with, but for the one in hand and the surplus.  Once it
\* is gone, the packets it did not read take the place of those on their way.
Answers ==
    /\ connection = "open" =>
          /\ Len(replies) + Len(transit) <= surplus + (IF At("await") THEN 1 ELSE 0)
          /\ \A p \in Unread : OnItsWay(p)
          /\ At("await") => WasReceived(handler.packet) \/ OnItsWay(handler.packet)
    /\ connection = "closed" => Cardinality(Unread) + Len(replies) <= surplus + AnsweredInHand
    /\ UnreadOnlyBySurplus

\* What was confirmed lies behind the pointer, the packet in hand not yet.
Confirming ==
    /\ \A p \in confirmed : p <= read_pointer
    /\ Holding => \A p \in confirmed : p < handler.packet

Inv == /\ TypeOK /\ Counters /\ InOrder /\ Answers /\ Confirming
       /\ LossIsBounded /\ CountCoversConfirmed

-----------------------------------------------------------------------------
(* Lemmas about what was confirmed *)

\* The packets a request confirmed are finitely many, since the pointer has passed them all.
LEMMA PastIsFinite ==
    ASSUME NEW C \in SUBSET Nat, NEW r \in Int, \A p \in C : p <= r, NEW f \in Int
    PROVE  /\ IsFiniteSet({p \in C : p > f})
           /\ Cardinality({p \in C : p > f}) \in Nat
           /\ f >= r => Cardinality({p \in C : p > f}) = 0
<1> DEFINE P == {p \in C : p > f}
<1>1. IsFiniteSet(0..r)
  BY FS_Interval
<1>2. ASSUME NEW p \in P PROVE p \in 0..r /\ ~(f >= r)
  <2>1. p \in Nat /\ p <= r /\ p > f
    OBVIOUS
  <2> QED
    BY <2>1
<1>3. P \in SUBSET (0..r)
  BY <1>2
<1>4. IsFiniteSet(P)
  BY <1>1, <1>3, FS_Subset
<1>5. Cardinality(P) \in Nat
  BY <1>4, FS_CardinalityType
<1>6. f >= r => P = {}
  <2> SUFFICES ASSUME f >= r PROVE P = {}
    OBVIOUS
  <2> HIDE DEF P
  <2> QED
    BY <1>2
<1> QED
  BY <1>4, <1>5, <1>6, FS_EmptySet

\* Confirming one more packet of this request makes them one more.
LEMMA PastGrows ==
    ASSUME NEW C \in SUBSET Nat, NEW r \in Int, \A p \in C : p <= r,
           NEW f \in Int, NEW x \in Nat, x > f, x \notin C
    PROVE  Cardinality({p \in C \cup {x} : p > f}) = Cardinality({p \in C : p > f}) + 1
<1> DEFINE P == {p \in C : p > f}
<1>1. IsFiniteSet(P)
  BY PastIsFinite
<1>2. {p \in C \cup {x} : p > f} = P \cup {x} /\ x \notin P
  OBVIOUS
<1> QED
  BY <1>1, <1>2, FS_AddElement

\* The bound on the loss may be counted with one more packet and no errors.
LEMMA LossDistributes ==
    ASSUME NEW u \in Int, NEW n \in Nat, NEW e \in Nat,
           u <= (MaxErrors - 1) * n + e, e < MaxErrors
    PROVE  u <= (MaxErrors - 1) * (n + 1) + 0
<1>1. MaxErrors - 1 \in Int /\ e <= MaxErrors - 1
  BY StreamingAssumption
<1>2. (MaxErrors - 1) * (n + 1) = (MaxErrors - 1) * n + (MaxErrors - 1)
  BY <1>1
<1>3. (MaxErrors - 1) * n \in Int
  BY <1>1
<1> QED
  BY <1>1, <1>2, <1>3

-----------------------------------------------------------------------------
(* The steps *)

\* What the types say of the handler.
LEMMA HandlerType ==
    ASSUME TypeOK
    PROVE  /\ handler.packet \in Nat /\ handler.packets_sent \in Nat
           /\ handler.error_count \in Nat /\ handler.first \in Int
           /\ handler.at \in {"idle", "loop", "send", "await", "dead"}
           /\ read_pointer \in Int
BY DEF TypeOK

\* The sum that LossIsBounded bounds is an integer.
LEMMA PastType ==
    ASSUME Inv
    PROVE  /\ Cardinality({p \in confirmed : p > handler.first}) \in Nat
           /\ confirmed \in SUBSET Nat /\ \A p \in confirmed : p <= read_pointer
           /\ (MaxErrors - 1) * handler.packets_sent \in Int
<1>1. confirmed \in SUBSET Nat /\ \A p \in confirmed : p <= read_pointer
  BY DEF Inv, TypeOK, Confirming
<1>2. handler.first \in Int /\ read_pointer \in Int /\ handler.packets_sent \in Nat
  BY HandlerType DEF Inv
<1>3. (MaxErrors - 1) * handler.packets_sent \in Int
  BY <1>2, StreamingAssumption
<1>4. Cardinality({p \in confirmed : p > handler.first}) \in Nat
  BY <1>1, <1>2, PastIsFinite
<1> QED
  BY <1>1, <1>3, <1>4

\* Nobody has called yet.
LEMMA InitInv == Init => Inv
<1> SUFFICES ASSUME Init PROVE Inv
  OBVIOUS
<1>1. TypeOK
  <2>1. Idle \in Handlers
    BY DEF Idle
  <2>2. << >> \in Seq(Nat) /\ << >> \in Seq({"ACK", "other"})
    OBVIOUS
  <2>3. read_pointer \in Nat \cup {-1} /\ confirmed \subseteq Nat
    BY DEF Init
  <2>4. frames \in Nat /\ torn \in BOOLEAN /\ requests \in Nat /\ surplus \in Nat /\ connection \in {"open", "closed"}
    BY DEF Init
  <2>5. handler = Idle /\ transit = << >> /\ replies = << >> /\ received = << >>
    BY DEF Init
  <2> HIDE DEF Init
  <2> QED
    BY <2>1, <2>2, <2>3, <2>4, <2>5 DEF TypeOK
<1>2. handler = Idle /\ received = << >> /\ confirmed = {} /\ transit = << >> /\ replies = << >>
  BY DEF Init
<1>3. Counters
  BY <1>2, StreamingAssumption DEF Counters, Holding, At, Idle
<1>4. InOrder /\ Answers /\ Confirming
  <2>1. Sent = << >> /\ Len(<< >>) = 0
    BY <1>2 DEF Sent
  <2>2. InOrder /\ Confirming
    BY <1>2, <2>1 DEF InOrder, Confirming, Holding, At, Idle
  <2>3. Unread = {}
    BY <1>2 DEF Unread
  <2>4. Cardinality(Unread) = 0
    BY <2>3, FS_EmptySet
  <2>5. connection = "closed" /\ surplus = 0 /\ ~At("await")
    BY DEF Init, At, Idle
  <2> QED
    BY <1>2, <2>1, <2>2, <2>4, <2>5 DEF Answers, AnsweredInHand, UnreadOnlyBySurplus
<1>5. {p \in confirmed : p > handler.first} = {}
  BY <1>2
<1>6. Cardinality({p \in confirmed : p > handler.first}) = 0
  BY <1>5, FS_EmptySet
<1>7. CountCoversConfirmed
  BY <1>2, <1>6, StreamingAssumption DEF CountCoversConfirmed, Idle
<1>8. Unconfirmed = read_pointer /\ read_pointer <= 0
  BY <1>2, <1>6 DEF Init, Unconfirmed, InHand, Idle
<1>9. (MaxErrors - 1) * handler.packets_sent + handler.error_count = 0
  BY <1>2, StreamingAssumption DEF Idle
<1>10. LossIsBounded
  BY <1>8, <1>9 DEF LossIsBounded
<1> QED
  BY <1>1, <1>3, <1>4, <1>7, <1>10 DEF Inv

\* Publishing more changes nothing of a request.
LEMMA PublishInv == ASSUME Inv, PublishPart \/ PublishRest PROVE Inv'
<1>1. UNCHANGED <<read_pointer, handler, network, confirmed, requests>>
  BY DEF PublishPart, PublishRest
<1>2. frames' \in Nat /\ torn' \in BOOLEAN
  <2>1. frames \in Nat
    BY DEF Inv, TypeOK
  <2>2. frames' = frames \/ frames' = frames + 1
    BY DEF PublishPart, PublishRest
  <2>3. torn' = TRUE \/ torn' = FALSE
    BY DEF PublishPart, PublishRest
  <2>4. frames' \in Nat
    BY <2>1, <2>2
  <2>5. torn' \in BOOLEAN
    BY <2>3
  <2> QED
    BY <2>4, <2>5
<1>3. TypeOK'
  BY <1>1, <1>2 DEF Inv, TypeOK, network
<1> QED
  BY <1>1, <1>3 DEF Inv, Counters, InOrder, Sent, Answers, OnItsWay, AnsweredInHand, WasReceived,
     Unread, UnreadOnlyBySurplus, Confirming, Holding, At, LossIsBounded, Unconfirmed, InHand,
     CountCoversConfirmed, network

-----------------------------------------------------------------------------
(* Lemmas about the network *)

\* A set of things that a sequence holds is no larger than the sequence, and smaller if the
\* sequence holds one more thing.
LEMMA FewerThanSequence ==
    ASSUME NEW s \in Seq(Nat), NEW U, \A p \in U : \E i \in 1..Len(s) : s[i] = p
    PROVE  /\ IsFiniteSet(U) /\ Cardinality(U) \in Nat /\ Cardinality(U) <= Len(s)
           /\ \A q \in Nat : q \notin U /\ (\E i \in 1..Len(s) : s[i] = q)
                             => Cardinality(U) <= Len(s) - 1
<1> PICK m \in Nat : m = Len(s)
  OBVIOUS
<1> PICK T : T = {s[i] : i \in 1..m}
  OBVIOUS
<1>1. s \in Surjection(1..m, T)
  <2>1. s \in [1..m -> T]
    OBVIOUS
  <2> QED
    BY <2>1 DEF Surjection
<1>2. IsFiniteSet(1..m) /\ Cardinality(1..m) = m
  <2>1. IsFiniteSet(1..m) /\ Cardinality(1..m) = IF 1 > m THEN 0 ELSE m - 1 + 1
    <3>1. 1 \in Int /\ m \in Int
      OBVIOUS
    <3> QED
      BY <3>1, FS_Interval, Zenon
  <2> QED
    BY <2>1
<1>3. IsFiniteSet(T) /\ Cardinality(T) <= m /\ Cardinality(T) \in Nat
  BY <1>1, <1>2, FS_Surjection, FS_CardinalityType
<1>4. U \in SUBSET T
  OBVIOUS
<1>5. IsFiniteSet(U) /\ Cardinality(U) \in Nat /\ Cardinality(U) <= Cardinality(T)
  BY <1>3, <1>4, FS_Subset, FS_CardinalityType
<1>6. ASSUME NEW q \in Nat, q \notin U, \E i \in 1..Len(s) : s[i] = q
      PROVE  Cardinality(U) <= m - 1
  <2>1. q \in T /\ U \in SUBSET (T \ {q})
    BY <1>4, <1>6
  <2>2. IsFiniteSet(T \ {q}) /\ Cardinality(T \ {q}) = Cardinality(T) - 1
    <3>1. IsFiniteSet(T) /\ q \in T
      BY <1>3, <2>1
    <3> HIDE <1>3, <2>1
    <3> QED
      BY <3>1, FS_RemoveElement, Zenon
  <2>3. Cardinality(U) <= Cardinality(T \ {q})
    BY <2>1, <2>2, FS_Subset
  <2> QED
    BY <1>3, <1>5, <2>2, <2>3
<1> QED
  BY <1>3, <1>5, <1>6

\* What was confirmed and not read is finite.
LEMMA UnreadType ==
    ASSUME Inv
    PROVE  IsFiniteSet(Unread) /\ Cardinality(Unread) \in Nat /\ Unread \in SUBSET Nat
<1>1. confirmed \in SUBSET Nat /\ \A p \in confirmed : p <= read_pointer
  BY DEF Inv, TypeOK, Confirming
<1>2. handler.first \in Int /\ read_pointer \in Int
  BY HandlerType DEF Inv
<1>3. IsFiniteSet({p \in confirmed : p > handler.first})
  BY <1>1, <1>2, PastIsFinite
<1>4. Unread \in SUBSET {p \in confirmed : p > handler.first} /\ Unread \in SUBSET Nat
  BY <1>1 DEF Unread
<1> QED
  BY <1>3, <1>4, FS_Subset, FS_CardinalityType

\* Whether the client is there or gone, this bounds the unread packets and the pieces together.
LEMMA AnswersCounted ==
    ASSUME Inv
    PROVE  /\ Cardinality(Unread) + Len(replies) <= surplus + AnsweredInHand
           /\ Cardinality(Unread) \in Nat /\ Len(replies) \in Nat /\ surplus \in Nat
           /\ AnsweredInHand \in {0, 1}
<1>1. /\ Cardinality(Unread) \in Nat /\ Len(replies) \in Nat /\ surplus \in Nat
      /\ AnsweredInHand \in {0, 1} /\ Len(transit) \in Nat /\ transit \in Seq(Nat)
  BY UnreadType DEF Inv, TypeOK, AnsweredInHand
<1>2. CASE connection = "closed"
  BY <1>1, <1>2 DEF Inv, Answers
<1>3. CASE connection = "open"
  <2>1. /\ Len(replies) + Len(transit) <= surplus + (IF At("await") THEN 1 ELSE 0)
        /\ \A p \in Unread : \E i \in 1..Len(transit) : transit[i] = p
        /\ At("await") => WasReceived(handler.packet) \/ OnItsWay(handler.packet)
    BY <1>3 DEF Inv, Answers, OnItsWay
  <2>2. Cardinality(Unread) <= Len(transit)
    BY <1>1, <2>1, FewerThanSequence
  <2>3. CASE ~At("await") \/ WasReceived(handler.packet)
    BY <1>1, <2>1, <2>2, <2>3 DEF AnsweredInHand
  <2>4. CASE At("await") /\ ~WasReceived(handler.packet)
    <3>1. \E i \in 1..Len(transit) : transit[i] = handler.packet
      BY <2>1, <2>4 DEF OnItsWay
    <3>2. handler.packet \in Nat /\ handler.packet \notin Unread
      <4>1. Holding
        BY <2>4 DEF Holding
      <4>2. handler.packet \in Nat
        BY HandlerType DEF Inv
      <4> QED
        BY <4>1, <4>2 DEF Inv, Confirming, Unread
    <3>3. Cardinality(Unread) <= Len(transit) - 1
      BY <1>1, <2>1, <3>1, <3>2, FewerThanSequence
    <3> QED
      BY <1>1, <2>1, <2>4, <3>3 DEF AnsweredInHand
  <2> QED
    BY <2>3, <2>4
<1> QED
  BY <1>1, <1>2, <1>3 DEF Inv, TypeOK

\* The packets clients read are the first of those sent.
LEMMA SentType ==
    ASSUME Inv
    PROVE  /\ received \in Seq(Nat) /\ transit \in Seq(Nat) /\ Sent \in Seq(Nat)
           /\ Len(received) \in Nat /\ Len(Sent) \in Nat /\ Len(received) <= Len(Sent)
           /\ \A i \in 1..Len(received) : Sent[i] = received[i]
<1>1. received \in Seq(Nat) /\ transit \in Seq(Nat)
  BY DEF Inv, TypeOK
<1>2. PICK r \in Seq(Nat), t \in Seq(Nat) : r = received /\ t = transit
  BY <1>1
<1>3. /\ r \o t \in Seq(Nat) /\ Len(r \o t) = Len(r) + Len(t)
      /\ \A i \in 1..(Len(r) + Len(t)) : (r \o t)[i] = IF i <= Len(r) THEN r[i] ELSE t[i - Len(r)]
  BY ConcatProperties
<1>4. \A i \in 1..Len(r) : (r \o t)[i] = r[i]
  BY <1>3
<1> QED
  BY <1>1, <1>2, <1>3, <1>4 DEF Sent

\* The order of the packets stays as long as nothing new is sent.
LEMMA OrderKept ==
    ASSUME Inv, Sent' = Sent \/ Sent' = received,
           read_pointer' \in Int, read_pointer' >= read_pointer,
           At("send")' => handler'.packet > read_pointer \/ handler' = handler,
           handler'.packet \in Nat, connection' = "closed" => transit' = << >>
    PROVE  InOrder'
<1>1. Len(Sent) \in Nat /\ Len(Sent') \in Nat
  BY SentType
<1>2. \A i \in 1..Len(Sent') : i \in 1..Len(Sent) /\ Sent'[i] = Sent[i] /\ Sent[i] \in Nat
  BY SentType
<1>3. read_pointer \in Int /\ handler.packet \in Nat
  BY HandlerType DEF Inv
<1>4. \A i, j \in 1..Len(Sent) : i < j => Sent[i] < Sent[j]
  BY DEF Inv, InOrder
<1>5. \A i \in 1..Len(Sent) : Sent[i] <= read_pointer
  BY DEF Inv, InOrder
<1>6. \A i, j \in 1..Len(Sent') : i < j => Sent'[i] < Sent'[j]
  BY <1>2, <1>4
<1>7. \A i \in 1..Len(Sent') : Sent'[i] <= read_pointer'
  BY <1>2, <1>3, <1>5
<1>8. ASSUME At("send")', NEW i \in 1..Len(Sent') PROVE Sent'[i] < handler'.packet
  <2>1. CASE handler'.packet > read_pointer
    BY <1>2, <1>3, <1>5, <2>1
  <2>2. CASE handler' = handler
    <3>1. At("send")
      BY <1>8, <2>2 DEF At
    <3> QED
      BY <1>2, <2>2, <3>1 DEF Inv, InOrder
  <2> QED
    BY <1>8, <2>1, <2>2
<1> QED
  BY <1>6, <1>7, <1>8 DEF InOrder

\* A step of the handler that has nothing to do with the network leaves its part alone.
LEMMA QuietNetwork ==
    ASSUME Inv, UNCHANGED <<network, confirmed>>, handler'.first = handler.first,
           ~At("await"), ~At("await")'
    PROVE  Answers'
<1>1. Unread' = Unread
  BY DEF Unread, WasReceived, network
<1> QED
  BY <1>1 DEF Inv, Answers, OnItsWay, AnsweredInHand, UnreadOnlyBySurplus, network

\* What the client does leaves the counters alone.
LEMMA ClientKeeps ==
    ASSUME Inv, UNCHANGED <<read_pointer, handler, confirmed>>
    PROVE  Counters' /\ Confirming' /\ LossIsBounded' /\ CountCoversConfirmed'
BY DEF Inv, Counters, Confirming, Holding, At, LossIsBounded, Unconfirmed, InHand,
   CountCoversConfirmed

\* The client reads a packet and answers it, in one piece or in several.
LEMMA AnswerInv == ASSUME Inv, NEW reply \in Replies, Answer(reply) PROVE Inv'
<1>1. /\ connection = "open" /\ transit /= << >>
      /\ received' = Append(received, Head(transit)) /\ transit' = Tail(transit)
      /\ replies' = replies \o reply /\ surplus' = surplus + (Len(reply) - 1)
      /\ UNCHANGED <<topic, read_pointer, handler, connection, confirmed, requests>>
  BY DEF Answer
<1>2. PICK r \in Seq(Nat), t \in Seq(Nat) : r = received /\ t = transit
  BY DEF Inv, TypeOK
<1>3. /\ t /= << >> /\ Head(t) \in Nat /\ Tail(t) \in Seq(Nat) /\ Len(t) \in Nat /\ Len(r) \in Nat
      /\ Len(Tail(t)) = Len(t) - 1 /\ \A i \in 1..Len(Tail(t)) : Tail(t)[i] = t[i + 1]
      /\ Head(t) = t[1]
  BY <1>1, <1>2, HeadTailProperties
<1>4. PICK k \in Nat : k = Len(reply) /\ k >= 1 /\ reply \in Seq({"ACK", "other"})
  BY DEF Replies
<1>5. replies' \in Seq({"ACK", "other"}) /\ Len(replies') = Len(replies) + k /\ Len(replies) \in Nat
  <2>1. PICK a \in Seq({"ACK", "other"}), b \in Seq({"ACK", "other"}) : a = replies /\ b = reply
    BY <1>4 DEF Inv, TypeOK
  <2>2. a \o b \in Seq({"ACK", "other"}) /\ Len(a \o b) = Len(a) + Len(b)
    BY ConcatProperties
  <2> QED
    BY <1>1, <1>4, <2>1, <2>2
<1>6. surplus' \in Nat /\ surplus' = surplus + k - 1 /\ surplus \in Nat
  BY <1>1, <1>4 DEF Inv, TypeOK
<1>7. /\ Append(r, Head(t)) \in Seq(Nat) /\ Len(Append(r, Head(t))) = Len(r) + 1
      /\ \A i \in 1..Len(r) : Append(r, Head(t))[i] = r[i]
      /\ Append(r, Head(t))[Len(r) + 1] = Head(t)
  BY <1>3
<1>8. TypeOK'
  BY <1>1, <1>2, <1>3, <1>5, <1>6, <1>7 DEF Inv, TypeOK, topic
<1>9. Sent' = Sent
  <2>1. Append(r, Head(t)) = r \o <<Head(t)>> /\ <<Head(t)>> \in Seq(Nat)
    BY <1>3, AppendIsConcat
  <2>2. PICK h \in Seq(Nat), u \in Seq(Nat) : h = <<Head(t)>> /\ u = Tail(t)
    BY <1>3, <2>1
  <2>3. (r \o h) \o u = r \o (h \o u)
    BY ConcatAssociative
  <2>4. h \o u = t
    <3>1. /\ h \o u \in Seq(Nat) /\ Len(h \o u) = Len(h) + Len(u)
          /\ \A i \in 1..(Len(h) + Len(u)) : (h \o u)[i] = IF i <= Len(h) THEN h[i] ELSE u[i - Len(h)]
      BY ConcatProperties
    <3>2. Len(h) = 1 /\ h[1] = t[1]
      BY <1>3, <2>2
    <3>3. \A i \in 1..Len(t) : i /= 1 => i - 1 \in 1..Len(u) /\ u[i - 1] = t[(i - 1) + 1]
      BY <1>3, <2>2
    <3>4. \A i \in 1..Len(h \o u) : (h \o u)[i] = t[i]
      BY <1>3, <2>2, <3>1, <3>2, <3>3
    <3> QED
      BY <1>3, <2>2, <3>1, <3>2, <3>4, SeqEqual
  <2> QED
    BY <1>1, <1>2, <2>1, <2>2, <2>3, <2>4 DEF Sent
<1>10. InOrder'
  <2>1. read_pointer' = read_pointer /\ read_pointer \in Int /\ handler' = handler
        /\ handler'.packet \in Nat /\ connection' = "open"
    BY <1>1, HandlerType DEF Inv
  <2> QED
    BY <1>9, <2>1, OrderKept
<1>11. \A p : WasReceived(p) => WasReceived(p)'
  <2>1. \A i \in 1..Len(received) : i \in 1..Len(received') /\ received'[i] = received[i]
    BY <1>1, <1>2, <1>3, <1>7
  <2> QED
    BY <2>1 DEF WasReceived
<1>12. \A p : OnItsWay(p) => OnItsWay(p)' \/ WasReceived(p)'
  <2> SUFFICES ASSUME NEW i \in 1..Len(t), ~OnItsWay(t[i])' PROVE WasReceived(t[i])'
    BY <1>2 DEF OnItsWay
  <2>1. i = 1
    <3> SUFFICES ASSUME i /= 1 PROVE FALSE
      OBVIOUS
    <3>1. i - 1 \in 1..Len(Tail(t)) /\ Tail(t)[i - 1] = t[(i - 1) + 1] /\ (i - 1) + 1 = i
      BY <1>3
    <3> QED
      BY <1>1, <1>2, <3>1 DEF OnItsWay
  <2>2. Len(received') = Len(r) + 1 /\ received'[Len(r) + 1] = t[i]
    BY <1>1, <1>2, <1>3, <1>7, <2>1
  <2>3. Len(r) + 1 \in 1..Len(received')
    BY <1>3, <2>2
  <2> QED
    BY <2>2, <2>3 DEF WasReceived
<1>13. Unread' \in SUBSET Unread
  BY <1>1, <1>11 DEF Unread
<1>14. Cardinality(Unread') <= Cardinality(Unread) /\ Cardinality(Unread') \in Nat
  BY <1>13, UnreadType, FS_Subset, FS_CardinalityType
<1>15. UnreadOnlyBySurplus'
  <2>1. Cardinality(Unread) <= surplus /\ Cardinality(Unread) \in Nat
    BY UnreadType DEF Inv, Answers, UnreadOnlyBySurplus
  <2> QED
    BY <1>4, <1>6, <1>14, <2>1 DEF UnreadOnlyBySurplus
<1>16. Answers'
  <2>1. Len(replies) + Len(transit) <= surplus + (IF At("await") THEN 1 ELSE 0)
    BY <1>1 DEF Inv, Answers
  <2>2. Len(replies') + Len(transit') <= surplus' + (IF At("await") THEN 1 ELSE 0)
    <3> PICK await \in Nat : await = IF At("await") THEN 1 ELSE 0
      OBVIOUS
    <3>1. Len(replies) + Len(t) <= surplus + await
      BY <1>2, <2>1
    <3>2. Len(transit') = Len(t) - 1
      BY <1>1, <1>2, <1>3
    <3>3. (Len(replies) + k) + (Len(t) - 1) <= (surplus + k - 1) + await
      BY <1>3, <1>5, <1>6, <3>1
    <3> QED
      BY <1>5, <1>6, <3>2, <3>3
  <2>3. \A p \in Unread' : OnItsWay(p)'
    <3>1. \A p \in Unread' : OnItsWay(p) /\ ~WasReceived(p)'
      BY <1>1, <1>13 DEF Inv, Answers, Unread
    <3> QED
      BY <1>12, <3>1
  <2>4. At("await") => WasReceived(handler.packet)' \/ OnItsWay(handler.packet)'
    <3>1. At("await") => WasReceived(handler.packet) \/ OnItsWay(handler.packet)
      BY <1>1 DEF Inv, Answers
    <3>2. handler' = handler
      BY <1>1
    <3> QED
      BY <1>11, <1>12, <3>1, <3>2 DEF WasReceived, OnItsWay
  <2>5. (At("await") <=> At("await")') /\ connection' = "open" /\ handler' = handler
    BY <1>1 DEF At
  <2> QED
    BY <1>15, <2>2, <2>3, <2>4, <2>5 DEF Answers
<1> QED
  BY <1>1, <1>8, <1>10, <1>16, ClientKeeps DEF Inv

\* What a client that has gone leaves behind: it has read all that was on its way, or nothing
\* of it.
LEMMA ReceivedAtLeaving ==
    ASSUME Inv, received' \in {received, received \o transit}, transit' = << >>
    PROVE  /\ received' \in Seq(Nat) /\ (Sent' = Sent \/ Sent' = received)
           /\ \A p : WasReceived(p) => WasReceived(p)'
<1>1. /\ received \in Seq(Nat) /\ Sent \in Seq(Nat) /\ Len(received) \in Nat /\ Len(Sent) \in Nat
      /\ Len(received) <= Len(Sent) /\ \A i \in 1..Len(received) : Sent[i] = received[i]
  BY SentType
<1>2. received' = received \/ received' = Sent
  BY DEF Sent
<1>3. received' \in Seq(Nat) /\ \A i \in 1..Len(received) : i \in 1..Len(received') /\ received'[i] = received[i]
  BY <1>1, <1>2
<1>4. Sent' = received'
  BY <1>3, ConcatEmptySeq DEF Sent
<1> QED
  BY <1>2, <1>3, <1>4 DEF WasReceived

\* The client goes away.
LEMMA LeaveInv == ASSUME Inv, Leave PROVE Inv'
<1>1. /\ connection' = "closed" /\ transit' = << >> /\ received' \in {received, received \o transit}
      /\ UNCHANGED <<topic, read_pointer, handler, replies, surplus, confirmed, requests>>
  BY DEF Leave
<1>2. /\ received' \in Seq(Nat) /\ (Sent' = Sent \/ Sent' = received)
      /\ \A p : WasReceived(p) => WasReceived(p)'
  BY <1>1, ReceivedAtLeaving
<1>3. TypeOK'
  BY <1>1, <1>2 DEF Inv, TypeOK, topic
<1>4. InOrder'
  <2>1. read_pointer' = read_pointer /\ read_pointer \in Int /\ handler' = handler
        /\ handler'.packet \in Nat /\ transit' = << >>
    BY <1>1, HandlerType DEF Inv
  <2> QED
    BY <1>2, <2>1, OrderKept
<1>5. Unread' \in SUBSET Unread
  BY <1>1, <1>2 DEF Unread
<1>6. Cardinality(Unread') <= Cardinality(Unread) /\ Cardinality(Unread') \in Nat
  BY <1>5, UnreadType, FS_Subset, FS_CardinalityType
<1>7. AnsweredInHand' \in {0, 1} /\ AnsweredInHand' >= AnsweredInHand
  <2>1. WasReceived(handler.packet) => WasReceived(handler.packet)'
    <3>1. \A p : WasReceived(p) => (\E i \in 1..Len(received') : received'[i] = p)
      BY <1>2 DEF WasReceived
    <3> QED
      BY <1>1, <3>1 DEF WasReceived
  <2> QED
    BY <1>1, <2>1 DEF AnsweredInHand, At
<1>8. Cardinality(Unread') + Len(replies) <= surplus + AnsweredInHand'
  <2>1. /\ Cardinality(Unread) + Len(replies) <= surplus + AnsweredInHand
        /\ Cardinality(Unread) \in Nat /\ Len(replies) \in Nat /\ surplus \in Nat
        /\ AnsweredInHand \in {0, 1}
    BY AnswersCounted
  <2> QED
    BY <1>6, <1>7, <2>1
<1>9. UnreadOnlyBySurplus'
  <2>1. Cardinality(Unread) <= surplus /\ Cardinality(Unread) \in Nat /\ surplus \in Nat
    BY UnreadType DEF Inv, TypeOK, Answers, UnreadOnlyBySurplus
  <2> QED
    BY <1>1, <1>6, <2>1 DEF UnreadOnlyBySurplus
<1>10. Answers'
  BY <1>1, <1>8, <1>9 DEF Answers
<1> QED
  BY <1>1, <1>3, <1>4, <1>10, ClientKeeps DEF Inv

-----------------------------------------------------------------------------
(* The steps of the handler *)

\* A request begins with nothing counted and nothing in hand.
LEMMA CallInv == ASSUME Inv, Call PROVE Inv'
<1>1. /\ At("idle") /\ handler' = [Idle EXCEPT !.at = "loop", !.first = read_pointer]
      /\ connection' = "open" /\ transit' = << >> /\ replies' = << >> /\ surplus' = 0
      /\ received' \in {received, received \o transit} /\ requests' = requests + 1
      /\ UNCHANGED <<frames, torn, read_pointer, confirmed>>
  BY DEF Call, topic
<1>2. /\ handler'.at = "loop" /\ handler'.packet = 0 /\ handler'.packets_sent = 0
      /\ handler'.error_count = 0 /\ handler'.first = read_pointer
  BY <1>1 DEF Idle
<1>3. TypeOK'
  <2>1. << >> \in Seq(Nat) /\ << >> \in Seq({"ACK", "other"})
    OBVIOUS
  <2>2. requests' \in Nat /\ surplus' \in Nat /\ received' \in Seq(Nat)
    BY <1>1, ReceivedAtLeaving DEF Inv, TypeOK
  <2>3. handler' \in Handlers
    BY <1>1 DEF Inv, TypeOK, Idle
  <2> QED
    BY <1>1, <2>1, <2>2, <2>3 DEF Inv, TypeOK
<1>4. Counters'
  <2>1. read_pointer \in Int
    BY HandlerType DEF Inv
  <2> QED
    BY <1>1, <1>2, <2>1, StreamingAssumption DEF Counters, Holding, At
<1>5. InOrder' /\ Answers'
  <2>1. read_pointer' = read_pointer /\ read_pointer \in Int /\ handler'.packet \in Nat
    BY <1>1, <1>2, HandlerType DEF Inv
  <2>2. InOrder'
    BY <1>1, <1>2, <2>1, ReceivedAtLeaving, OrderKept DEF At
  <2>3. Unread' = {}
    <3>1. \A p \in confirmed : p \in Nat /\ p <= read_pointer
      BY DEF Inv, TypeOK, Confirming
    <3> QED
      BY <1>1, <1>2, <2>1, <3>1 DEF Unread
  <2>4. Cardinality(Unread') = 0
    BY <2>3, FS_EmptySet
  <2>5. Len(replies') = 0 /\ Len(transit') = 0 /\ ~At("await")'
    BY <1>1, <1>2 DEF At
  <2>6. Answers'
    BY <1>1, <2>3, <2>4, <2>5 DEF Answers, UnreadOnlyBySurplus
  <2> QED
    BY <2>2, <2>6
<1>6. Confirming'
  BY <1>1, <1>2 DEF Inv, Confirming, Holding, At
<1>7. Cardinality({p \in confirmed' : p > handler'.first}) = 0
  <2>1. Cardinality({p \in confirmed : p > read_pointer}) = 0
    <3>1. read_pointer \in Int /\ read_pointer >= read_pointer
      BY HandlerType DEF Inv
    <3> QED
      BY <3>1, PastType, PastIsFinite
  <2> QED
    BY <1>1, <1>2, <2>1
<1>8. CountCoversConfirmed'
  BY <1>2, <1>7, StreamingAssumption DEF CountCoversConfirmed
<1>9. LossIsBounded'
  <2>1. Unconfirmed' = read_pointer - read_pointer - 0 - 0
    BY <1>1, <1>2, <1>7 DEF Unconfirmed, InHand
  <2>2. (MaxErrors - 1) * handler'.packets_sent + handler'.error_count = 0
    BY <1>2, StreamingAssumption
  <2>3. read_pointer \in Int
    BY HandlerType DEF Inv
  <2> QED
    BY <2>1, <2>2, <2>3 DEF LossIsBounded
<1> QED
  BY <1>3, <1>4, <1>5, <1>6, <1>8, <1>9 DEF Inv

\* A step of the handler between packets that counts nothing.
LEMMA LoopInv ==
    ASSUME Inv, At("loop"), NEW place \in {"idle", "loop"}, Goes(place),
           UNCHANGED <<topic, read_pointer, network, confirmed, requests>>
    PROVE  Inv'
<1>1. handler' = [handler EXCEPT !.at = place] /\ handler.at = "loop"
  BY DEF Goes, At
<1>2. /\ handler'.at = place /\ handler'.packet = handler.packet
      /\ handler'.packets_sent = handler.packets_sent
      /\ handler'.error_count = handler.error_count /\ handler'.first = handler.first
  BY <1>1 DEF Inv, TypeOK
<1>3. TypeOK'
  <2>1. handler' \in Handlers
    BY <1>1 DEF Inv, TypeOK
  <2> QED
    BY <2>1 DEF Inv, TypeOK, topic, network
<1>4. Counters'
  BY <1>1, <1>2 DEF Inv, Counters, Holding, At
<1>5. InOrder' /\ Answers'
  <2>1. /\ Sent' = Sent /\ read_pointer' = read_pointer /\ read_pointer \in Int
        /\ handler'.packet \in Nat /\ connection' = connection /\ transit' = transit
    BY <1>1, <1>2, HandlerType DEF Inv, Sent, network
  <2>2. ~At("send")' /\ ~At("await")' /\ ~At("await")
    BY <1>1, <1>2 DEF At
  <2>3. InOrder'
    BY <2>1, <2>2, OrderKept DEF Inv, InOrder
  <2> QED
    BY <1>2, <2>2, <2>3, QuietNetwork
<1>6. Confirming'
  BY <1>1, <1>2 DEF Inv, Confirming, Holding, At
<1>7. LossIsBounded' /\ CountCoversConfirmed'
  BY <1>1, <1>2 DEF Inv, LossIsBounded, Unconfirmed, InHand, CountCoversConfirmed
<1> QED
  BY <1>3, <1>4, <1>5, <1>6, <1>7 DEF Inv

\* What each way of counting makes of the handler.
LEMMA CountFields ==
    ASSUME Inv
    PROVE  /\ CountPacket =>
                 /\ handler'.at = "loop" /\ handler'.packet = 0 /\ handler'.error_count = 0
                 /\ handler'.packets_sent = handler.packets_sent + 1
                 /\ handler'.first = handler.first
                 /\ handler' \in Handlers
           /\ CountError =>
                 /\ handler'.at = "loop" /\ handler'.packet = 0
                 /\ handler'.error_count = handler.error_count + 1
                 /\ handler'.packets_sent = handler.packets_sent
                 /\ handler'.first = handler.first
                 /\ handler' \in Handlers
<1>1. handler \in Handlers
  BY DEF Inv, TypeOK
<1>2. handler.packets_sent + 1 \in Nat /\ handler.error_count + 1 \in Nat
  BY <1>1
<1>3. ASSUME CountPacket
      PROVE  /\ handler'.at = "loop" /\ handler'.packet = 0 /\ handler'.error_count = 0
             /\ handler'.packets_sent = handler.packets_sent + 1
             /\ handler'.first = handler.first
             /\ handler' \in Handlers
  BY <1>1, <1>2, <1>3 DEF CountPacket
<1>4. ASSUME CountError
      PROVE  /\ handler'.at = "loop" /\ handler'.packet = 0
             /\ handler'.error_count = handler.error_count + 1
             /\ handler'.packets_sent = handler.packets_sent
             /\ handler'.first = handler.first
             /\ handler' \in Handlers
  BY <1>1, <1>2, <1>4 DEF CountError
<1> QED
  BY <1>3, <1>4

\* consume_and_send_packet() returned 0 without a packet: counted as sent all the same.
LEMMA NothingCountedInv ==
    ASSUME Inv, At("loop"), MayGoOn, CountPacket,
           UNCHANGED <<topic, read_pointer, network, confirmed, requests>>
    PROVE  Inv'
<1>1. /\ handler.at = "loop" /\ handler.packet = 0
      /\ handler.packets_sent \in Nat /\ handler.error_count \in Nat
      /\ handler.packets_sent < MaxPackets /\ handler.error_count < MaxErrors
      /\ handler.first \in Int /\ read_pointer \in Int
  BY HandlerType DEF At, Inv, Counters, Holding, MayGoOn
<1>2. /\ handler'.at = "loop" /\ handler'.packet = 0 /\ handler'.error_count = 0
      /\ handler'.packets_sent = handler.packets_sent + 1
      /\ handler'.first = handler.first
      /\ handler' \in Handlers
  BY CountFields
<1>3. TypeOK'
  BY <1>2 DEF Inv, TypeOK, topic, network
<1>4. Counters'
  BY <1>1, <1>2, StreamingAssumption DEF Inv, Counters, Holding, At
<1>5. InOrder' /\ Answers'
  <2>1. /\ Sent' = Sent /\ read_pointer' = read_pointer /\ read_pointer \in Int
        /\ handler'.packet \in Nat /\ connection' = connection /\ transit' = transit
    BY <1>1, <1>2, HandlerType DEF Inv, Sent, network
  <2>2. ~At("send")' /\ ~At("await")' /\ ~At("await")
    BY <1>1, <1>2 DEF At
  <2>3. InOrder'
    BY <2>1, <2>2, OrderKept DEF Inv, InOrder
  <2> QED
    BY <1>2, <2>2, <2>3, QuietNetwork
<1>6. Confirming'
  BY <1>1, <1>2 DEF Inv, Confirming, Holding, At
<1>7. CountCoversConfirmed'
  <2>1. Cardinality({p \in confirmed : p > handler.first}) \in Nat
    BY PastType
  <2> QED
    BY <1>1, <1>2, <2>1, StreamingAssumption DEF Inv, CountCoversConfirmed
<1>8. LossIsBounded'
  <2>1. Cardinality({p \in confirmed : p > handler.first}) \in Nat
    BY PastType
  <2>2. Unconfirmed' = Unconfirmed /\ Unconfirmed \in Int
    BY <1>1, <1>2, <2>1 DEF Unconfirmed, InHand
  <2>3. Unconfirmed <= (MaxErrors - 1) * handler.packets_sent + handler.error_count
    BY DEF Inv, LossIsBounded
  <2> HIDE DEF Unconfirmed
  <2>4. Unconfirmed <= (MaxErrors - 1) * (handler.packets_sent + 1) + 0
    BY <1>1, <2>2, <2>3, LossDistributes
  <2> QED
    BY <1>2, <2>2, <2>4 DEF LossIsBounded
<1> QED
  BY <1>3, <1>4, <1>5, <1>6, <1>7, <1>8 DEF Inv

\* A packet in hand ends in an error: one more passed over, one more error.
LEMMA ErrorInv ==
    ASSUME Inv, At("send") \/ At("await"), CountError,
           replies' \in Seq({"ACK", "other"}), Len(replies') <= Len(replies),
           At("await") => \/ Len(replies') < Len(replies)
                          \/ connection = "closed" /\ replies' = << >>,
           UNCHANGED <<topic, read_pointer, connection, transit, surplus, received, confirmed,
                       requests>>
    PROVE  Inv'
<1>1. /\ Holding /\ handler.packet = read_pointer /\ read_pointer >= 1
      /\ handler.packets_sent \in Nat /\ handler.error_count \in Nat
      /\ handler.packets_sent < MaxPackets /\ handler.error_count < MaxErrors
      /\ handler.first \in Int /\ read_pointer \in Int /\ handler.first < read_pointer
  BY HandlerType DEF Inv, Counters, Holding
<1>2. /\ handler'.at = "loop" /\ handler'.packet = 0
      /\ handler'.error_count = handler.error_count + 1
      /\ handler'.packets_sent = handler.packets_sent
      /\ handler'.first = handler.first
      /\ handler' \in Handlers
  BY CountFields
<1>3. TypeOK'
  BY <1>2 DEF Inv, TypeOK, topic
<1>4. Counters'
  BY <1>1, <1>2, StreamingAssumption DEF Inv, Counters, Holding, At
<1>5. InOrder'
  <2>1. /\ Sent' = Sent /\ read_pointer' = read_pointer /\ handler'.packet \in Nat
        /\ connection' = connection /\ transit' = transit /\ ~At("send")'
    BY <1>2 DEF Sent, At
  <2> QED
    BY <1>1, <2>1, OrderKept DEF Inv, InOrder
<1>a. Answers'
  <2>1. PICK a \in Nat, b \in Nat, u \in Nat, x \in Nat :
            a = Len(replies) /\ b = Len(replies') /\ u = Cardinality(Unread) /\ x = surplus
    BY AnswersCounted
  <2>2. Unread' = Unread /\ AnsweredInHand' = 0 /\ ~At("await")'
    BY <1>2 DEF Unread, WasReceived, AnsweredInHand, At
  <2>3. u + a <= x + AnsweredInHand /\ u <= x /\ b <= a
    BY <2>1, AnswersCounted DEF Inv, Answers, UnreadOnlyBySurplus
  <2>4. CASE connection = "open"
    <3>1. PICK t \in Nat : t = Len(transit)
      BY DEF Inv, TypeOK
    <3>2. a + t <= x + (IF At("await") THEN 1 ELSE 0) /\ \A p \in Unread : OnItsWay(p)
      BY <2>1, <2>4, <3>1 DEF Inv, Answers
    <3>3. b + t <= x
      <4>1. CASE At("await")
        BY <2>1, <2>4, <3>2, <4>1
      <4>2. CASE ~At("await")
        BY <2>1, <2>3, <3>2, <4>2
      <4> QED
        BY <4>1, <4>2
    <3> QED
      BY <2>1, <2>2, <2>3, <2>4, <3>1, <3>2, <3>3 DEF Answers, OnItsWay, UnreadOnlyBySurplus
  <2>5. CASE connection = "closed"
    <3>1. u + b <= x
      <4>1. CASE ~At("await")
        <5>1. AnsweredInHand = 0
          BY <4>1 DEF AnsweredInHand
        <5> QED
          BY <2>3, <5>1
      <4>2. CASE At("await") /\ b < a
        <5>1. AnsweredInHand <= 1 /\ AnsweredInHand \in Nat
          BY DEF AnsweredInHand
        <5> QED
          BY <2>3, <4>2, <5>1
      <4>3. CASE replies' = << >>
        BY <2>1, <2>3, <4>3
      <4> QED
        BY <2>1, <4>1, <4>2, <4>3
    <3> QED
      BY <2>1, <2>2, <2>3, <2>5, <3>1 DEF Answers, UnreadOnlyBySurplus
  <2> QED
    BY <2>4, <2>5 DEF Inv, TypeOK
<1>6. Confirming'
  BY <1>2 DEF Inv, Confirming, Holding, At
<1>7. CountCoversConfirmed'
  BY <1>2 DEF Inv, CountCoversConfirmed
<1>8. LossIsBounded'
  <2>1. PICK n \in Nat, m \in Int : /\ n = Cardinality({p \in confirmed : p > handler.first})
                                    /\ m = (MaxErrors - 1) * handler.packets_sent
    BY PastType
  <2>2. read_pointer - handler.first - 1 - n <= m + handler.error_count
    BY <1>1, <2>1 DEF Inv, LossIsBounded, Unconfirmed, InHand
  <2>3. read_pointer - handler.first - 0 - n <= m + (handler.error_count + 1)
    BY <1>1, <2>2
  <2> QED
    BY <1>2, <2>1, <2>3 DEF LossIsBounded, Unconfirmed, InHand
<1> QED
  BY <1>3, <1>4, <1>5, <1>a, <1>6, <1>7, <1>8 DEF Inv

\* consume_packet() takes the next packet: in hand, behind all that was read or confirmed.
LEMMA ConsumeInv == ASSUME Inv, Consume PROVE Inv'
<1>1. /\ handler.at = "loop" /\ handler.packet = 0 /\ MayGoOn /\ PacketThere
      /\ handler.packets_sent \in Nat /\ handler.error_count \in Nat
      /\ handler.first \in Int /\ read_pointer \in Int /\ handler.first <= read_pointer
  BY HandlerType DEF Consume, At, Inv, Counters, Holding
<1>2. /\ handler' = [handler EXCEPT !.at = "send", !.packet = read_pointer + 1]
      /\ read_pointer' = read_pointer + 1
      /\ UNCHANGED <<topic, network, confirmed, requests>>
  BY DEF Consume
<1>3. read_pointer >= 0 /\ read_pointer + 1 \in Nat
  BY <1>1 DEF PacketThere
<1>4. /\ handler'.at = "send" /\ handler'.packet = read_pointer + 1
      /\ handler'.packets_sent = handler.packets_sent
      /\ handler'.error_count = handler.error_count /\ handler'.first = handler.first
      /\ handler' \in Handlers
  BY <1>2, <1>3 DEF Inv, TypeOK
<1>5. TypeOK'
  BY <1>2, <1>3, <1>4 DEF Inv, TypeOK, topic, network
<1>6. Counters'
  BY <1>1, <1>2, <1>3, <1>4 DEF Inv, Counters, MayGoOn, Holding, At
<1>7. InOrder'
  <2>1. /\ Sent' = Sent /\ handler'.packet > read_pointer /\ handler'.packet \in Nat
        /\ connection' = connection /\ transit' = transit /\ read_pointer' >= read_pointer
        /\ read_pointer' \in Int
    BY <1>1, <1>2, <1>3, <1>4 DEF Sent, network
  <2> QED
    BY <2>1, OrderKept DEF Inv, InOrder
<1>8. Answers'
  <2>1. ~At("await") /\ ~At("await")' /\ UNCHANGED <<network, confirmed>>
    BY <1>1, <1>2, <1>4 DEF At
  <2> QED
    BY <1>4, <2>1, QuietNetwork
<1>10. Confirming'
  <2>1. ASSUME NEW p \in confirmed PROVE p <= read_pointer' /\ p < handler'.packet
    <3>1. p \in Nat /\ p <= read_pointer
      BY PastType
    <3> QED
      BY <1>1, <1>2, <1>4, <3>1
  <2>2. confirmed' = confirmed
    BY <1>2
  <2> QED
    BY <2>1, <2>2 DEF Confirming
<1>11. CountCoversConfirmed'
  BY <1>2, <1>4 DEF Inv, CountCoversConfirmed
<1>12. LossIsBounded'
  <2>1. PICK n \in Nat, m \in Int : /\ n = Cardinality({p \in confirmed : p > handler.first})
                                    /\ m = (MaxErrors - 1) * handler.packets_sent
    BY PastType
  <2>2. read_pointer - handler.first - 0 - n <= m + handler.error_count
    BY <1>1, <2>1 DEF Inv, LossIsBounded, Unconfirmed, InHand
  <2>3. (read_pointer + 1) - handler.first - 1 - n <= m + handler.error_count
    BY <1>1, <2>2
  <2>4. handler'.packet /= 0
    BY <1>1, <1>3, <1>4
  <2> QED
    BY <1>2, <1>4, <2>1, <2>3, <2>4 DEF LossIsBounded, Unconfirmed, InHand
<1> QED
  BY <1>5, <1>6, <1>7, <1>8, <1>10, <1>11, <1>12 DEF Inv

\* The packet in hand stays in hand when send() returns, or when it raises SIGPIPE.
LEMMA SendInv == ASSUME Inv, Send \/ SendKills PROVE Inv'
<1>1. handler.at = "send" /\ Holding /\ handler.packet \in Nat /\ handler.packet = read_pointer
  BY HandlerType DEF Send, SendKills, At, Holding, Inv, Counters
<1>2. PICK place \in {"await", "dead"} :
        /\ Goes(place)
        /\ \/ place = "dead" /\ connection = "closed" /\ transit' = transit
           \/ place = "await" /\ connection = "closed" /\ transit' = transit
           \/ place = "await" /\ connection = "open" /\ transit' = Append(transit, handler.packet)
        /\ UNCHANGED <<topic, read_pointer, connection, replies, surplus, received, confirmed, requests>>
  <2>1. CASE Send
    <3>1. /\ Goes("await")
          /\ UNCHANGED <<topic, read_pointer, connection, replies, surplus, received, confirmed, requests>>
          /\ transit' = IF connection = "open" THEN Append(transit, handler.packet) ELSE transit
          /\ connection \in {"open", "closed"}
      BY <2>1 DEF Send, Inv, TypeOK
    <3> QED
      BY <3>1
  <2>2. CASE SendKills
    BY <2>2 DEF SendKills, network
  <2> QED
    BY <2>1, <2>2
<1>3. /\ handler'.at = place /\ handler'.packet = handler.packet
      /\ handler'.packets_sent = handler.packets_sent
      /\ handler'.error_count = handler.error_count /\ handler'.first = handler.first
      /\ handler' \in Handlers
  BY <1>2 DEF Goes, Inv, TypeOK
<1>4. PICK t \in Seq(Nat) : t = transit
  BY DEF Inv, TypeOK
<1>5. /\ Append(t, handler.packet) \in Seq(Nat) /\ Len(Append(t, handler.packet)) = Len(t) + 1
      /\ \A i \in 1..Len(t) : Append(t, handler.packet)[i] = t[i]
      /\ Append(t, handler.packet)[Len(t) + 1] = handler.packet /\ Len(t) \in Nat
  BY <1>1
<1>6. TypeOK'
  BY <1>2, <1>3, <1>4, <1>5 DEF Inv, TypeOK, topic
<1>7. Counters'
  BY <1>1, <1>2, <1>3 DEF Inv, Counters, Holding, At
<1>8. Confirming'
  BY <1>1, <1>2, <1>3 DEF Inv, Confirming, Holding, At
<1>9. LossIsBounded' /\ CountCoversConfirmed'
  BY <1>2, <1>3 DEF Inv, LossIsBounded, Unconfirmed, InHand, CountCoversConfirmed
<1>10. Unread' = Unread /\ ~At("await") /\ AnsweredInHand = 0 /\ AnsweredInHand' \in {0, 1}
  BY <1>1, <1>2, <1>3 DEF Unread, WasReceived, At, AnsweredInHand
<1>11. CASE transit' = transit /\ connection = "closed"
  <2>1. /\ Sent' = Sent /\ read_pointer' = read_pointer /\ read_pointer \in Int /\ ~At("send")'
        /\ handler'.packet \in Nat /\ connection' = connection
    BY <1>1, <1>2, <1>3, <1>11 DEF Sent, At
  <2>2. InOrder'
    BY <1>11, <2>1, OrderKept DEF Inv, InOrder
  <2>3. Cardinality(Unread) + Len(replies) <= surplus + AnsweredInHand'
    BY <1>10, AnswersCounted
  <2>4. Answers'
    BY <1>2, <1>10, <1>11, <2>3 DEF Inv, Answers, UnreadOnlyBySurplus
  <2> QED
    BY <1>6, <1>7, <1>8, <1>9, <2>2, <2>4 DEF Inv
<1>12. CASE transit' = Append(transit, handler.packet) /\ connection = "open" /\ place = "await"
  <2>1. PICK d \in Seq(Nat) : d = Sent
    BY SentType
  <2>2. Sent' = Append(d, handler.packet)
    <3>0. received \in Seq(Nat) /\ <<handler.packet>> \in Seq(Nat)
      BY <1>1 DEF Inv, TypeOK
    <3>1. PICK r \in Seq(Nat), h \in Seq(Nat) : r = received /\ h = <<handler.packet>>
      BY <3>0
    <3>2. Append(t, handler.packet) = t \o h
      BY <1>1, <3>1, AppendIsConcat
    <3>3. Append(r \o t, handler.packet) = (r \o t) \o h
      <4>1. r \o t = d
        BY <1>4, <2>1, <3>1 DEF Sent
      <4>2. Append(d, handler.packet) = d \o h
        BY <1>1, <3>1, AppendIsConcat
      <4> QED
        BY <4>1, <4>2
    <3>4. (r \o t) \o h = r \o (t \o h)
      BY ConcatAssociative
    <3> QED
      BY <1>2, <1>4, <1>12, <2>1, <3>1, <3>2, <3>3, <3>4 DEF Sent
  <2>3. /\ Len(Append(d, handler.packet)) = Len(d) + 1 /\ Len(d) \in Nat
        /\ \A i \in 1..Len(d) : Append(d, handler.packet)[i] = d[i] /\ d[i] \in Nat
        /\ Append(d, handler.packet)[Len(d) + 1] = handler.packet
    BY <1>1
  <2>4. \A i \in 1..Len(d) : d[i] < handler.packet /\ d[i] <= read_pointer
    BY <1>1, <2>1 DEF Inv, InOrder, At
  <2>5. \A i, j \in 1..Len(d) : i < j => d[i] < d[j]
    BY <2>1 DEF Inv, InOrder
  <2>6. ASSUME NEW i \in 1..(Len(d) + 1), NEW j \in 1..(Len(d) + 1), i < j
        PROVE  Append(d, handler.packet)[i] < Append(d, handler.packet)[j]
    <3>1. i \in 1..Len(d)
      BY <2>3, <2>6
    <3>2. CASE j = Len(d) + 1
      BY <2>3, <2>4, <3>1, <3>2
    <3>3. CASE j \in 1..Len(d)
      BY <2>3, <2>5, <2>6, <3>1, <3>3
    <3> QED
      BY <2>3, <3>2, <3>3
  <2>7. ASSUME NEW i \in 1..(Len(d) + 1) PROVE Append(d, handler.packet)[i] <= read_pointer
    <3>1. CASE i = Len(d) + 1
      BY <1>1, <2>3, <3>1
    <3>2. CASE i \in 1..Len(d)
      BY <2>3, <2>4, <3>2
    <3> QED
      BY <2>3, <3>1, <3>2
  <2>8. InOrder'
    <3>1. ~At("send")' /\ connection' = "open" /\ read_pointer' = read_pointer
      BY <1>2, <1>3, <1>12 DEF At
    <3> QED
      BY <2>2, <2>3, <2>6, <2>7, <3>1 DEF InOrder
  <2>9. /\ Len(replies) + Len(t) <= surplus + 0 /\ \A p \in Unread : \E i \in 1..Len(t) : t[i] = p
        /\ Len(replies) \in Nat /\ surplus \in Nat
    BY <1>4, <1>10, <1>12 DEF Inv, TypeOK, Answers, OnItsWay
  <2>10. /\ transit' = Append(t, handler.packet) /\ connection' = "open" /\ At("await")'
         /\ replies' = replies /\ surplus' = surplus /\ handler'.packet = handler.packet
    BY <1>2, <1>3, <1>4, <1>12 DEF At
  <2>11. Len(replies') + Len(transit') <= surplus' + 1
    BY <1>5, <2>9, <2>10
  <2>12. \A p \in Unread : OnItsWay(p)'
    <3>1. ASSUME NEW p \in Unread PROVE \E i \in 1..Len(transit') : transit'[i] = p
      <4>1. PICK i \in 1..Len(t) : t[i] = p
        BY <2>9
      <4>2. i \in 1..Len(transit') /\ transit'[i] = p
        BY <1>5, <2>10, <4>1
      <4> QED
        BY <4>2
    <3> QED
      BY <3>1 DEF OnItsWay
  <2>13. \E i \in 1..Len(transit') : transit'[i] = handler'.packet
    <3>1. Len(t) + 1 \in 1..Len(transit') /\ transit'[Len(t) + 1] = handler'.packet
      BY <1>5, <2>10
    <3> QED
      BY <3>1
  <2>14. UnreadOnlyBySurplus'
    BY <1>10, <2>10 DEF Inv, Answers, UnreadOnlyBySurplus
  <2>15. Answers'
    BY <1>10, <2>10, <2>11, <2>12, <2>13, <2>14 DEF Answers, OnItsWay
  <2> QED
    BY <1>6, <1>7, <1>8, <1>9, <2>8, <2>15 DEF Inv
<1> QED
  BY <1>2, <1>11, <1>12

\* A read() takes a piece at least.
LEMMA ReadTakes ==
    ASSUME Inv, NEW n \in 1..Len(replies), Read(n)
    PROVE  /\ replies' \in Seq({"ACK", "other"}) /\ At("await")
           /\ Len(replies) \in Nat /\ n \in Nat /\ Len(replies') \in Nat
           /\ Len(replies') = Len(replies) - n /\ Len(replies') < Len(replies)
<1>1. replies \in Seq({"ACK", "other"}) /\ Len(replies) \in Nat
  BY DEF Inv, TypeOK
<1>2. PICK m \in Nat : m = Len(replies)
  BY <1>1
<1>3. PICK k \in Int : k = n + 1
  OBVIOUS
<1>4. \A i \in k..m : replies[i] \in {"ACK", "other"}
  BY <1>1, <1>2, <1>3
<1>5. /\ SubSeq(replies, k, m) \in Seq({"ACK", "other"})
      /\ Len(SubSeq(replies, k, m)) = IF k <= m THEN m - k + 1 ELSE 0
  BY <1>4, SubSeqProperties
<1>6. replies' = SubSeq(replies, k, m) /\ At("await")
  BY <1>2, <1>3 DEF Read
<1> QED
  BY <1>1, <1>2, <1>3, <1>5, <1>6

\* What the server takes for the client's answer acknowledges the packet in hand.
LEMMA AckInv == ASSUME Inv, NEW n \in 1..Len(replies), AwaitAck(n) PROVE Inv'
<1>1. /\ Holding /\ handler.packet = read_pointer /\ read_pointer >= 1
      /\ handler.packet \in Nat /\ handler.packets_sent \in Nat /\ handler.error_count \in Nat
      /\ handler.packets_sent < MaxPackets /\ handler.error_count < MaxErrors
      /\ handler.first \in Int /\ read_pointer \in Int /\ handler.first < read_pointer
  BY HandlerType DEF AwaitAck, Read, Inv, Counters, Holding
<1>2. /\ replies' \in Seq({"ACK", "other"}) /\ At("await")
      /\ Len(replies) \in Nat /\ n \in Nat /\ Len(replies') \in Nat
      /\ Len(replies') = Len(replies) - n /\ Len(replies') < Len(replies)
  BY ReadTakes DEF AwaitAck
<1>3. /\ read_pointer' = read_pointer /\ confirmed' = confirmed \cup {handler.packet}
      /\ UNCHANGED <<topic, connection, transit, surplus, received, requests>>
  BY <1>1 DEF AwaitAck
<1>4. /\ handler'.at = "loop" /\ handler'.packet = 0 /\ handler'.error_count = 0
      /\ handler'.packets_sent = handler.packets_sent + 1
      /\ handler'.first = handler.first
      /\ handler' \in Handlers
  BY CountFields DEF AwaitAck
<1>5. TypeOK'
  <2>1. confirmed' \subseteq Nat
    BY <1>1, <1>3 DEF Inv, TypeOK
  <2> QED
    BY <1>2, <1>3, <1>4, <2>1 DEF Inv, TypeOK, topic
<1>6. Counters'
  BY <1>1, <1>3, <1>4, StreamingAssumption DEF Counters, Holding, At
<1>7. InOrder'
  <2>1. /\ Sent' = Sent /\ read_pointer' = read_pointer /\ handler'.packet \in Nat
        /\ connection' = connection /\ transit' = transit /\ ~At("send")'
    BY <1>3, <1>4 DEF Sent, At
  <2> QED
    BY <1>1, <2>1, OrderKept DEF Inv, InOrder
<1>a. Answers'
  <2>1. PICK a \in Nat, b \in Nat, u \in Nat, x \in Nat :
            a = Len(replies) /\ b = Len(replies') /\ u = Cardinality(Unread) /\ x = surplus
    BY <1>2, AnswersCounted
  <2>2. /\ surplus' = surplus /\ AnsweredInHand' = 0 /\ ~At("await")' /\ b < a
        /\ \A p : (WasReceived(p) <=> WasReceived(p)') /\ (OnItsWay(p) <=> OnItsWay(p)')
    BY <1>2, <1>3, <1>4, <2>1 DEF WasReceived, OnItsWay, AnsweredInHand, At
  <2>3. u + a <= x + AnsweredInHand
    BY <2>1, AnswersCounted
  <2>4. Unread' = IF WasReceived(handler.packet) THEN Unread ELSE Unread \cup {handler.packet}
    BY <1>1, <1>3, <1>4 DEF Unread, WasReceived
  <2>5. PICK v \in Nat : v = Cardinality(Unread') /\ v + b <= x
    <3>1. CASE WasReceived(handler.packet)
      <4>1. AnsweredInHand = 1 /\ Unread' = Unread
        BY <1>2, <2>4, <3>1 DEF AnsweredInHand
      <4> QED
        BY <2>1, <2>2, <2>3, <4>1
    <3>2. CASE ~WasReceived(handler.packet)
      <4>1. AnsweredInHand = 0 /\ Unread' = Unread \cup {handler.packet}
        BY <2>4, <3>2 DEF AnsweredInHand
      <4>2. IsFiniteSet(Unread)
        BY UnreadType
      <4>3. Cardinality(Unread') = u \/ Cardinality(Unread') = u + 1
        BY <2>1, <4>1, <4>2, FS_AddElement
      <4> QED
        BY <2>2, <2>3, <4>1, <4>3
    <3> QED
      BY <3>1, <3>2
  <2>6. UnreadOnlyBySurplus'
    BY <2>1, <2>2, <2>5 DEF UnreadOnlyBySurplus
  <2>7. CASE connection = "open"
    <3>1. PICK t \in Nat : t = Len(transit)
      BY DEF Inv, TypeOK
    <3>2. /\ a + t <= x + 1 /\ \A p \in Unread : OnItsWay(p)
          /\ WasReceived(handler.packet) \/ OnItsWay(handler.packet)
      BY <1>2, <2>1, <2>7, <3>1 DEF Inv, Answers
    <3>3. b + t <= x
      BY <2>2, <3>2
    <3>4. \A p \in Unread' : OnItsWay(p)'
      BY <2>2, <2>4, <3>2
    <3>5. connection' = "open" /\ Len(transit') = t /\ Len(replies') = b /\ surplus' = x
      BY <1>3, <2>1, <2>2, <2>7, <3>1
    <3> QED
      BY <2>2, <2>6, <3>3, <3>4, <3>5 DEF Answers
  <2>8. CASE connection = "closed"
    BY <1>3, <2>1, <2>2, <2>5, <2>6, <2>8 DEF Answers
  <2> QED
    BY <2>7, <2>8 DEF Inv, TypeOK
<1>8. Confirming'
  <2>1. \A p \in confirmed' : p <= read_pointer'
    BY <1>1, <1>3 DEF Inv, Confirming
  <2> QED
    BY <1>4, <2>1 DEF Confirming, Holding, At
<1>9. PICK c \in Nat : /\ c = Cardinality({p \in confirmed : p > handler.first})
                       /\ Cardinality({p \in confirmed' : p > handler'.first}) = c + 1
  <2>1. handler.packet \notin confirmed
    BY <1>1 DEF Inv, Confirming
  <2>2. Cardinality({p \in confirmed \cup {handler.packet} : p > handler.first})
           = Cardinality({p \in confirmed : p > handler.first}) + 1
    BY <1>1, <2>1, PastType, PastGrows
  <2> QED
    BY <1>3, <1>4, <2>2, PastType
<1>10. CountCoversConfirmed'
  <2>1. c <= handler.packets_sent
    BY <1>9 DEF Inv, CountCoversConfirmed
  <2> QED
    BY <1>1, <1>4, <1>9, <2>1, StreamingAssumption DEF CountCoversConfirmed
<1>11. LossIsBounded'
  <2>1. PICK u \in Int : u = read_pointer - handler.first - 1 - c
    BY <1>1
  <2>2. u <= (MaxErrors - 1) * handler.packets_sent + handler.error_count
    BY <1>1, <1>9, <2>1 DEF Inv, LossIsBounded, Unconfirmed, InHand
  <2>3. u <= (MaxErrors - 1) * (handler.packets_sent + 1) + 0
    BY <1>1, <2>2, LossDistributes
  <2>4. Unconfirmed' = read_pointer - handler.first - 0 - (c + 1)
    BY <1>3, <1>4, <1>9 DEF Unconfirmed, InHand
  <2>5. Unconfirmed' = u
    BY <1>1, <2>1, <2>4
  <2> QED
    BY <1>4, <2>3, <2>5 DEF LossIsBounded
<1> QED
  BY <1>5, <1>6, <1>7, <1>a, <1>8, <1>10, <1>11 DEF Inv

\* Every step keeps the invariant.
LEMMA NextInv == Inv /\ [Next]_vars => Inv'
<1> SUFFICES ASSUME Inv, [Next]_vars PROVE Inv'
  OBVIOUS
<1>1. CASE PublishPart \/ PublishRest
  BY <1>1, PublishInv
<1>2. CASE Call
  BY <1>2, CallInv
<1>3. CASE Return
  BY <1>3, LoopInv DEF Return
<1>4. CASE NoPacket
  BY <1>4, NothingCountedInv DEF NoPacket
<1>5. CASE Consume
  BY <1>5, ConsumeInv
<1>6. CASE Send \/ SendKills
  BY <1>6, SendInv
<1>7. CASE SendFails
  <2>1. /\ At("send") /\ ~At("await") /\ CountError
        /\ UNCHANGED <<topic, read_pointer, connection, transit, surplus, received, confirmed, requests>>
        /\ replies' = replies
    BY <1>7 DEF SendFails, network, At
  <2>2. replies \in Seq({"ACK", "other"}) /\ Len(replies) \in Nat
    BY DEF Inv, TypeOK
  <2> QED
    BY <2>1, <2>2, ErrorInv
<1>8. ASSUME NEW n \in 1..Len(replies), AwaitAck(n) PROVE Inv'
  BY <1>8, AckInv
<1>9. ASSUME NEW n \in 1..Len(replies), AwaitOther(n) \/ AckOutOfMemory(n) PROVE Inv'
  <2>1. /\ Read(n) /\ CountError
        /\ UNCHANGED <<topic, read_pointer, connection, transit, surplus, received, confirmed, requests>>
    BY <1>9 DEF AwaitOther, AckOutOfMemory
  <2>2. /\ replies' \in Seq({"ACK", "other"}) /\ At("await")
        /\ Len(replies') < Len(replies) /\ Len(replies') <= Len(replies)
    BY <2>1, ReadTakes
  <2> QED
    BY <2>1, <2>2, ErrorInv
<1>10. CASE AwaitClosed
  <2>1. /\ At("await") /\ CountError /\ connection = "closed" /\ replies' = << >>
        /\ UNCHANGED <<topic, read_pointer, connection, transit, surplus, received, confirmed, requests>>
    BY <1>10 DEF AwaitClosed
  <2>2. << >> \in Seq({"ACK", "other"}) /\ Len(<< >>) = 0 /\ Len(replies) \in Nat
    BY DEF Inv, TypeOK
  <2>3. replies' \in Seq({"ACK", "other"}) /\ Len(replies') <= Len(replies)
    BY <2>1, <2>2
  <2> QED
    BY <2>1, <2>3, ErrorInv
<1>11. CASE LoopOutOfMemory
  <2>1. /\ At("loop") /\ MayGoOn
        /\ UNCHANGED <<topic, read_pointer, network, confirmed, requests>>
        /\ Goes("idle") \/ CountPacket
    BY <1>11 DEF LoopOutOfMemory
  <2> QED
    BY <2>1, LoopInv, NothingCountedInv
<1>12. ASSUME NEW reply \in Replies, Answer(reply) PROVE Inv'
  BY <1>12, AnswerInv
<1>13. CASE Leave
  BY <1>13, LeaveInv
<1>14. CASE UNCHANGED vars
  <2>1. TypeOK' /\ Counters' /\ Confirming' /\ LossIsBounded' /\ CountCoversConfirmed'
    BY <1>14 DEF vars, Inv, TypeOK, Counters, Confirming, Holding, At, LossIsBounded, Unconfirmed,
       InHand, CountCoversConfirmed
  <2>2. InOrder'
    BY <1>14 DEF vars, Inv, InOrder, Sent, At
  <2>3. Unread' = Unread /\ AnsweredInHand' = AnsweredInHand
    BY <1>14 DEF vars, Unread, AnsweredInHand, WasReceived, At
  <2>4. Answers'
    BY <1>14, <2>3 DEF vars, Inv, Answers, OnItsWay, WasReceived, At, UnreadOnlyBySurplus
  <2> QED
    BY <2>1, <2>2, <2>4 DEF Inv
<1> QED
  BY <1>1, <1>2, <1>3, <1>4, <1>5, <1>6, <1>7, <1>8, <1>9, <1>10, <1>11, <1>12, <1>13, <1>14
  DEF Next, HandlerStep, OutOfMemory, ClientStep

\* The invariant holds throughout.
LEMMA Invariance == Spec => []Inv
<1> QED
  BY InitInv, NextInv, PTL DEF Spec

-----------------------------------------------------------------------------
(* Theorems *)

\* Every variable of the streaming loop keeps its type.
THEOREM TypeCorrect == Spec => []TypeOK
<1>1. Inv => TypeOK
  BY DEF Inv
<1> QED
  BY <1>1, Invariance, PTL

\* wait_for_ack() takes no more leftovers of replies for the answers to packets nobody has read
\* than there were pieces of replies beyond one each.
THEOREM UnreadAreConfirmedBySurplus == Spec => []UnreadOnlyBySurplus
<1>1. Inv => UnreadOnlyBySurplus
  BY DEF Inv, Answers
<1> QED
  BY <1>1, Invariance, PTL

\* So where every reply is read whole, only packets that were read are confirmed.
THEOREM WholeRepliesConfirmTheReceived ==
    Spec => [](surplus = 0 => \A p \in confirmed : p > handler.first => WasReceived(p))
<1>1. Inv => (surplus = 0 => \A p \in confirmed : p > handler.first => WasReceived(p))
  <2> SUFFICES ASSUME Inv, surplus = 0
               PROVE  \A p \in confirmed : p > handler.first => WasReceived(p)
    OBVIOUS
  <2>1. IsFiniteSet(Unread) /\ Cardinality(Unread) \in Nat /\ Cardinality(Unread) <= 0
    BY UnreadType DEF Inv, Answers, UnreadOnlyBySurplus
  <2>2. Cardinality(Unread) = 0
    BY <2>1
  <2>3. Unread = {}
    BY <2>1, <2>2, FS_EmptySet
  <2> QED
    BY <2>3 DEF Unread
<1> QED
  BY <1>1, Invariance, PTL

\* No request, however it ended, makes a later one repeat a packet or change the order.
THEOREM PacketsAreNeverRepeated == Spec => []NeverRepeated
<1>1. Inv => NeverRepeated
  <2> SUFFICES ASSUME Inv PROVE NeverRepeated
    OBVIOUS
  <2>1. /\ Len(received) \in Nat /\ Len(Sent) \in Nat /\ Len(received) <= Len(Sent)
        /\ \A i \in 1..Len(received) : Sent[i] = received[i]
    BY SentType
  <2>2. \A i \in 1..Len(received) : i \in 1..Len(Sent)
    BY <2>1
  <2> QED
    BY <2>1, <2>2 DEF Inv, InOrder, NeverRepeated
<1> QED
  BY <1>1, Invariance, PTL

\* A request passes over at most MaxErrors - 1 packets for each one it counts as sent, and
\* MaxErrors before it gives up.
THEOREM RequestLossIsBounded == Spec => []LossIsBounded
<1>1. Inv => LossIsBounded
  BY DEF Inv
<1> QED
  BY <1>1, Invariance, PTL

\* The number of packets a request reports covers those acknowledged, within its limit.
THEOREM ReportedCountCoversConfirmed == Spec => []CountCoversConfirmed
<1>1. Inv => CountCoversConfirmed
  BY DEF Inv
<1> QED
  BY <1>1, Invariance, PTL
=============================================================================
