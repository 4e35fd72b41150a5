----------------------------- MODULE Streaming -----------------------------
(***************************************************************************)
(* handle_consumer_request() of socket/consumer_handler.c: the loop that    *)
(* consumes a packet, sends it, waits for the client's acknowledgement and  *)
(* goes on, with wait_for_ack() of socket/handle_ack.c and a client that    *)
(* answers, answers something else, or goes away at any moment.             *)
(*                                                                         *)
(* A packet is the number of its frame in the topic, and the read pointer   *)
(* the number of frames it has passed: -1 in front of the prologue, where   *)
(* create_group() puts it and no packet is found (the topic is smaller than *)
(* the length that "{}" reads as).  Bytes are TopicStore's, and so is what  *)
(* becomes of a part of a frame that a publisher never completes but others *)
(* publish behind.                                                         *)
(*                                                                         *)
(* The client, and what TCP does, are external: send() delivers while the   *)
(* connection is open; once it is closed a send() may seem to succeed, may  *)
(* fail, or may raise SIGPIPE, which nothing in the program handles.  What  *)
(* the client answers arrives as bytes: one reply may be read in pieces and *)
(* several pieces in one read.                                             *)
(***************************************************************************)
EXTENDS Integers, Sequences, FiniteSets

CONSTANTS
    MaxPackets,     \* max_packets
    MaxErrors,      \* max_errors
    AllocFails,     \* TRUE: malloc(), realloc() and fopen() may fail in any call
    MaxPieces,      \* bound: pieces that a reply comes in
    MaxFrames,      \* bound: frames published
    MaxRequests     \* bound: calls of handle_consumer_request()

ASSUME StreamingAssumption ==
    /\ MaxPackets \in Nat \ {0} /\ MaxErrors \in Nat \ {0}
    /\ AllocFails \in BOOLEAN /\ MaxPieces \in Nat \ {0}
    /\ MaxFrames \in Nat /\ MaxRequests \in Nat

VARIABLES
    frames,         \* whole frames in the topic's file
    torn,           \* a part of one more frame is in the file
    read_pointer,   \* of the Group
    handler,        \* handle_consumer_request()'s variables and where it is
    connection,     \* "open" or "closed" by the client
    transit,        \* packets sent that the client has not read
    replies,        \* what the client sent that the server has not read, in pieces: "ACK"
                    \* is a piece that holds an "ACK" or an "OK"
    surplus,        \* history: pieces of this connection's replies beyond one each
    received,       \* history: the packets clients read, in their order
    confirmed,      \* history: the packets for which ack_packet() returned 0
    requests        \* calls so far

vars == <<frames, torn, read_pointer, handler, connection, transit, replies, surplus,
          received, confirmed, requests>>
topic == <<frames, torn>>
network == <<connection, transit, replies, surplus, received>>

\* Waiting to be called; first is where the pointer was when the last call began.
Idle == [at |-> "idle", packet |-> 0, packets_sent |-> 0, error_count |-> 0, first |-> 0]

Init == /\ frames = 0 /\ torn = FALSE
        /\ read_pointer \in {-1, 0}
        /\ handler = Idle
        /\ connection = "closed" /\ transit = << >> /\ replies = << >>
        /\ surplus = 0
        /\ received = << >> /\ confirmed = {}
        /\ requests = 0

At(place) == handler.at = place
Goes(place) == handler' = [handler EXCEPT !.at = place]

\* consume_and_send_packet() returned 0, or below 0.
CountPacket == handler' = [handler EXCEPT !.at = "loop", !.packet = 0,
                                          !.packets_sent = @ + 1, !.error_count = 0]
CountNothing == handler' = [handler EXCEPT !.at = "loop", !.packet = 0]
CountErrorUncounting == handler' = [handler EXCEPT !.at = "loop", !.packet = 0,
                                                   !.packets_sent = @ - 1,
                                                   !.error_count = @ + 1]
CountError == handler' = [handler EXCEPT !.at = "loop", !.packet = 0, !.error_count = @ + 1]

-----------------------------------------------------------------------------
(* Publishers: a frame reaches the file in two pieces. *)

PublishPart == /\ frames < MaxFrames /\ ~torn
               /\ torn' = TRUE
               /\ UNCHANGED <<frames, read_pointer, handler, network, confirmed, requests>>
PublishRest == /\ torn
               /\ frames' = frames + 1 /\ torn' = FALSE
               /\ UNCHANGED <<read_pointer, handler, network, confirmed, requests>>

-----------------------------------------------------------------------------
(* handle_consumer_request() *)

\* A client on a connection of its own asks for the group's packets.  The one before has gone.
Call ==
    /\ At("idle") /\ requests < MaxRequests
    /\ handler' = [Idle EXCEPT !.at = "loop", !.first = read_pointer]
    /\ connection' = "open" /\ transit' = << >> /\ replies' = << >> /\ surplus' = 0
    /\ received' \in {received, received \o transit}
    /\ requests' = requests + 1
    /\ UNCHANGED <<topic, read_pointer, confirmed>>

MayGoOnOneMore == handler.packets_sent <= MaxPackets /\ handler.error_count < MaxErrors
MayGoOn == handler.packets_sent < MaxPackets /\ handler.error_count < MaxErrors

\* group_has_more_data(): behind the frames passed there is something, if only "{}" or a part.
HasMoreData == read_pointer < frames \/ torn
PacketThere == read_pointer >= 0 /\ read_pointer < frames

Return ==
    /\ At("loop")
    /\ ~MayGoOn \/ ~HasMoreData
    /\ Goes("idle")
    /\ UNCHANGED <<topic, read_pointer, network, confirmed, requests>>

\* consume_packet() returned NULL: consume_and_send_packet() returns 0.
NoPacketUncounted ==
    /\ At("loop") /\ MayGoOn /\ HasMoreData /\ ~PacketThere
    /\ CountNothing
    /\ UNCHANGED <<topic, read_pointer, network, confirmed, requests>>
NoPacket ==
    /\ At("loop") /\ MayGoOn /\ HasMoreData /\ ~PacketThere
    /\ CountPacket
    /\ UNCHANGED <<topic, read_pointer, network, confirmed, requests>>

\* consume_packet() moves the pointer before anything is sent.
ConsumeKeepingPointer ==
    /\ At("loop") /\ MayGoOn /\ PacketThere
    /\ handler' = [handler EXCEPT !.at = "send", !.packet = read_pointer + 1]
    /\ UNCHANGED <<topic, read_pointer, network, confirmed, requests>>
Consume ==
    /\ At("loop") /\ MayGoOn /\ PacketThere
    /\ read_pointer' = read_pointer + 1
    /\ handler' = [handler EXCEPT !.at = "send", !.packet = read_pointer + 1]
    /\ UNCHANGED <<topic, network, confirmed, requests>>

Send ==
    /\ At("send")
    /\ transit' = IF connection = "open" THEN Append(transit, handler.packet) ELSE transit
    /\ Goes("await")
    /\ UNCHANGED <<topic, read_pointer, connection, replies, surplus, received, confirmed,
                   requests>>

SendFailsUncounted ==
    /\ At("send") /\ connection = "closed"
    /\ CountNothing
    /\ UNCHANGED <<topic, read_pointer, network, confirmed, requests>>
SendFails ==
    /\ At("send") /\ connection = "closed"
    /\ CountError
    /\ UNCHANGED <<topic, read_pointer, network, confirmed, requests>>

SendKills ==
    /\ At("send") /\ connection = "closed"
    /\ Goes("dead")
    /\ UNCHANGED <<topic, read_pointer, network, confirmed, requests>>

\* wait_for_ack(): one read(), of up to 1023 of the bytes there are, and a search for "ACK" or
\* "OK" anywhere in them: in a piece, or across the end of one.  Whatever the server has left
\* unread of an earlier reply is read first.  ack_packet() finds the pointer already behind the
\* packet.
Read(n) == /\ At("await") /\ n \in 1..Len(replies)
           /\ replies' = SubSeq(replies, n + 1, Len(replies))
AwaitAck(n) ==
    /\ Read(n)
    /\ n > 1 \/ replies[1] = "ACK"
    /\ read_pointer' = IF read_pointer < handler.packet THEN handler.packet ELSE read_pointer
    /\ confirmed' = confirmed \cup {handler.packet}
    /\ CountPacket
    /\ UNCHANGED <<topic, connection, transit, surplus, received, requests>>

\* Neither is in it.
AwaitOther(n) ==
    /\ Read(n)
    /\ \A i \in 1..n : replies[i] /= "ACK"
    /\ CountError
    /\ UNCHANGED <<topic, read_pointer, connection, transit, surplus, received, confirmed, requests>>

\* read() returns 0 or fails.  A reset may discard replies that were not read.
AwaitClosedAsAck ==
    /\ At("await") /\ connection = "closed"
    /\ replies' = << >>
    /\ confirmed' = confirmed \cup {handler.packet}
    /\ CountPacket
    /\ UNCHANGED <<topic, read_pointer, connection, transit, surplus, received, requests>>
AwaitClosed ==
    /\ At("await") /\ connection = "closed"
    /\ replies' = << >>
    /\ CountError
    /\ UNCHANGED <<topic, read_pointer, connection, transit, surplus, received, confirmed, requests>>

\* Memory or a file fails: group_has_more_data() returns 0, consume_packet() returns NULL, or
\* ack_packet() returns -1 though the client acknowledged.
LoopOutOfMemory ==
    /\ AllocFails
    /\ At("loop") /\ MayGoOn
    /\ \/ Goes("idle")
       \/ HasMoreData /\ CountPacket
    /\ UNCHANGED <<topic, read_pointer, network, confirmed, requests>>
AckOutOfMemory(n) ==
    /\ AllocFails
    /\ Read(n)
    /\ CountError
    /\ UNCHANGED <<topic, read_pointer, connection, transit, surplus, received, confirmed, requests>>
OutOfMemory == LoopOutOfMemory \/ \E n \in 1..Len(replies) : AckOutOfMemory(n)

-----------------------------------------------------------------------------
(* The client *)

\* It reads a packet and answers it, once: with "ACK", with "OK" or with anything else, which
\* arrives in one piece or in several.
Replies == UNION {[1..n -> {"ACK", "other"}] : n \in 1..MaxPieces}
Answer(reply) ==
    /\ connection = "open" /\ transit /= << >>
    /\ received' = Append(received, Head(transit))
    /\ transit' = Tail(transit)
    /\ replies' = replies \o reply
    /\ surplus' = surplus + (Len(reply) - 1)
    /\ UNCHANGED <<topic, read_pointer, handler, connection, confirmed, requests>>

\* It goes away, having read what there was or not.
Leave ==
    /\ connection = "open"
    /\ connection' = "closed" /\ transit' = << >>
    /\ received' \in {received, received \o transit}
    /\ UNCHANGED <<topic, read_pointer, handler, replies, surplus, confirmed, requests>>

-----------------------------------------------------------------------------
HandlerStep ==
    \/ Return \/ NoPacket \/ Consume \/ Send \/ SendFails \/ SendKills
    \/ \E n \in 1..Len(replies) : AwaitAck(n) \/ AwaitOther(n)
    \/ AwaitClosed
ClientStep == Leave \/ \E reply \in Replies : Answer(reply)

Next == PublishPart \/ PublishRest \/ Call \/ HandlerStep \/ OutOfMemory \/ ClientStep

Spec == Init /\ [][Next]_vars

\* The handler's thread runs on unless it waits for the client; a client that was sent a
\* packet answers or goes away (wait_for_ack() has no timeout: it waits for a silent one
\* for ever).  Nobody has to publish or to call, and memory need not fail.
Fairness == WF_vars(HandlerStep) /\ WF_vars(transit /= << >> /\ ClientStep)
FairSpec == Spec /\ Fairness

-----------------------------------------------------------------------------
(* Properties *)

\* Types: what each variable may hold.
TypeOK ==
    /\ frames \in Nat /\ torn \in BOOLEAN
    /\ read_pointer \in Nat \cup {-1}
    /\ handler \in [at : {"idle", "loop", "send", "await", "dead"}, packet : Nat,
                    packets_sent : Nat, error_count : Nat, first : Nat \cup {-1}]
    /\ connection \in {"open", "closed"}
    /\ transit \in Seq(Nat) /\ replies \in Seq({"ACK", "other"}) /\ received \in Seq(Nat)
    /\ confirmed \subseteq Nat
    /\ surplus \in Nat /\ requests \in Nat

\* A packet counts as acknowledged only if a client has read it, as long as each reply is read
\* whole.  What is left of a reply that comes in pieces may be taken for the answer to a packet
\* nobody has read: of those there are never more than there were such pieces, though the
\* client's answers stay behind from then on, and though it leaves.
WasReceived(p) == \E i \in 1..Len(received) : received[i] = p
Unread == {p \in confirmed : p > handler.first /\ ~WasReceived(p)}
UnreadOnlyBySurplus == Cardinality(Unread) <= surplus

\* At most once: no request, however it ended, makes a later one repeat a packet or give
\* packets in another order.
NeverRepeated == \A i, j \in 1..Len(received) : i < j => received[i] < received[j]

\* Packets the present (or last) request took from the group without an acknowledgement.
InHand == IF handler.packet = 0 THEN 0 ELSE 1
Unconfirmed ==
    read_pointer - handler.first - InHand
        - Cardinality({p \in confirmed : p > handler.first})

\* What a request can cost a group: with each packet it counts as sent it may have passed
\* over MaxErrors - 1 that were never acknowledged, and MaxErrors before it gives up.
LossIsBounded ==
    Unconfirmed <= (MaxErrors - 1) * handler.packets_sent + handler.error_count

\* "Sent %d packets" is never less than what was acknowledged, and never above the limit.
CountCoversConfirmed ==
    /\ handler.packets_sent <= MaxPackets
    /\ Cardinality({p \in confirmed : p > handler.first}) <= handler.packets_sent

\* A request ends: in front of the prologue, behind a part of a frame, with a client that
\* answers nonsense, leaves, or is gone.  (Or SIGPIPE ends the process.)
RequestsEnd == At("loop") ~> (At("idle") \/ At("dead"))
=============================================================================
