---------------------------- MODULE TopicRequests ----------------------------
(***************************************************************************)
(* HTTP requests and sessions for a topic that may not exist yet:           *)
(* api/handler.c, api/publish_event.c and api/create_topic.c over           *)
(* messaging/create_topic.c, with the SET_TOPIC of the socket sessions.     *)
(*                                                                         *)
(* libmicrohttpd runs one thread, so a handler's call is never interrupted  *)
(* by another request; the sessions' threads run beside it.  A step is what *)
(* a thread does between two looks at, or changes of, the topic's file.     *)
(*                                                                         *)
(* The bytes and the Chunks of TopicStore are left out: every thread here   *)
(* has a Chunk of its own and appends one thing at a time, so the file is   *)
(* the sequence of what was appended.  All requests name one topic.         *)
(***************************************************************************)
EXTENDS Integers, Sequences, FiniteSets

CONSTANTS
    Requests,       \* HTTP requests, each on a connection of its own
    Sessions,       \* session threads, each with one SET_TOPIC to execute
    route,          \* what each request asks for: "publish", "create" or "other"
    Unacceptable,   \* requests whose data publish_event() refuses: empty, or above MAX_EVENT_SIZE
    Empty,          \* POSTs that may come without a body
    MaxBody,        \* MAX_BODY_SIZE, in pieces of an upload
    Announces,      \* TRUE: the first call of a request has no data, as libmicrohttpd's do
    Faults,         \* which of "alloc", "blind", "write", "crash" may happen
    MaxFaults,      \* bound: how many faults a behaviour has
    MaxDeletes      \* bound: how often the program deletes the topic

Threads == Requests \cup Sessions

ASSUME TopicRequestsAssumption ==
    /\ Requests \cap Sessions = {}
    /\ IsFiniteSet(Threads)
    /\ \A r \in Requests : route[r] \in {"publish", "create", "other"}
    /\ Unacceptable \subseteq Requests
    /\ Empty \subseteq Requests
    /\ MaxBody \in Nat \ {0}
    /\ Announces \in BOOLEAN
    /\ MaxFaults \in Nat /\ MaxDeletes \in Nat

VARIABLES
    present,    \* whether the topic's file exists
    file,       \* what was appended to it, in order
    gone,       \* history: what was in files that were deleted
    orphans,    \* threads that have a deleted file open
    pc,         \* where each thread is
    lost,       \* history: what fclose() failed to write without anybody noticing
    buffer,     \* pieces in each request's RequestBuffer (*con_cls)
    upload,     \* history: how much of its body each request has brought
    answer,     \* the status a request gets; "closed" for none
    faults,     \* faults so far
    deletes,    \* deletions so far
    raced       \* history: a creation overlapped with another operation on the topic

vars == <<present, file, gone, orphans, lost, pc, buffer, upload, answer, faults, deletes, raced>>
storeVars == <<present, file, gone, orphans, lost, deletes>>
uploadVars == <<buffer, upload>>
requestVars == <<uploadVars, answer>>

NoBuffer == -1

\* What a thread appends to the file.
Prologue(t) == [kind |-> "prologue", by |-> t]
Event(t) == [kind |-> "event", by |-> t]
Torn(t) == [kind |-> "torn", by |-> t]
Items == [kind : {"prologue", "event", "torn"}, by : Threads]

Init ==
    /\ present = FALSE
    /\ file = << >>
    /\ gone = << >>
    /\ orphans = {}
    /\ lost = {}
    /\ pc = [t \in Threads |-> "new"]
    /\ buffer = [r \in Requests |-> NoBuffer]
    /\ upload = [r \in Requests |-> "none"]
    /\ answer = [r \in Requests |-> "none"]
    /\ faults = 0
    /\ deletes = 0
    /\ raced = FALSE

Fault(kind) == kind \in Faults /\ faults < MaxFaults /\ faults' = faults + 1

\* Where a thread is inside an operation on the topic, and where it is about to write the
\* prologue, having found no file.
InOperation == {"exists", "create", "opening", "prologue", "append", "event"}
Creating == {"opening", "prologue"}

\* The daemon's thread is not inside a handler.
HttpIdle == \A r \in Requests : pc[r] \notin InOperation \cup {"answering"}

Goto(t, label) == pc' = [pc EXCEPT ![t] = label]

\* The handler has decided on a status: the response is built and queued next.
Decide(r, status) == Goto(r, "answering") /\ answer' = [answer EXCEPT ![r] = status]

\* The connection ends without a response.
Close(r) == Goto(r, "done") /\ answer' = [answer EXCEPT ![r] = "closed"]

-----------------------------------------------------------------------------
(* Receiving a request *)

\* route_request(): GET, or an address nobody serves.
RouteOther(r) ==
    /\ pc[r] = "new" /\ route[r] = "other"
    /\ HttpIdle
    /\ \E status \in {"200", "404"} : Decide(r, status)
    /\ UNCHANGED <<storeVars, uploadVars, faults>>

\* A first call without data, be it that it announces the POST or that nothing follows, finds
\* no buffer: MHD_NO.
Announce(r) ==
    /\ Announces \/ r \in Empty
    /\ pc[r] = "new" /\ route[r] /= "other"
    /\ HttpIdle
    /\ Close(r)
    /\ UNCHANGED <<storeVars, uploadVars, faults>>

Receives(r) ==
    /\ ~Announces
    /\ pc[r] \in {"new", "receiving"} /\ route[r] /= "other"
    /\ HttpIdle

\* The buffer once the first call with data has allocated it.
Pieces(r) == IF buffer[r] = NoBuffer THEN 0 ELSE buffer[r]

\* append_to_buffer()
PieceUnlimited(r) ==
    /\ Receives(r)
    /\ Pieces(r) <= MaxBody
    /\ buffer' = [buffer EXCEPT ![r] = Pieces(r) + 1]
    /\ upload' = [upload EXCEPT ![r] = "begun"]
    /\ Goto(r, "receiving")
    /\ UNCHANGED <<storeVars, answer, faults>>
Piece(r) ==
    /\ Receives(r)
    /\ Pieces(r) < MaxBody
    /\ buffer' = [buffer EXCEPT ![r] = Pieces(r) + 1]
    /\ upload' = [upload EXCEPT ![r] = "begun"]
    /\ Goto(r, "receiving")
    /\ UNCHANGED <<storeVars, answer, faults>>

\* Too large, or no memory: a 413 that libmicrohttpd may refuse to queue while the upload
\* is going on.  The buffer stays where it is.
PieceRefused(r) ==
    /\ Receives(r)
    /\ \/ Pieces(r) = MaxBody /\ UNCHANGED faults
       \/ Fault("alloc")
    /\ buffer' = [buffer EXCEPT ![r] = Pieces(r)]
    /\ upload' = [upload EXCEPT ![r] = "begun"]
    /\ \E status \in {"413", "closed"} : answer' = [answer EXCEPT ![r] = status]
    /\ Goto(r, "done")
    /\ UNCHANGED storeVars

\* No memory for the RequestBuffer.
BufferFails(r) ==
    /\ Receives(r)
    /\ buffer[r] = NoBuffer
    /\ Fault("alloc")
    /\ Close(r)
    /\ UNCHANGED <<storeVars, uploadVars>>

\* The client goes away in the middle of its upload: nobody is told, nothing is freed.
Abort(r) ==
    /\ pc[r] = "receiving"
    /\ HttpIdle
    /\ Close(r)
    /\ UNCHANGED <<storeVars, uploadVars, faults>>

\* The last call: the fields are not in the JSON, or there is no memory to take them out; or
\* else the handler goes on to the topic.
BodyEnds(r) ==
    /\ pc[r] = "receiving" /\ HttpIdle
    /\ upload' = [upload EXCEPT ![r] = "ended"]
    /\ \/ Decide(r, "400")
       \/ Goto(r, "exists") /\ UNCHANGED answer
    /\ UNCHANGED <<storeVars, buffer, faults>>

\* build_response_from_buffer() and MHD_queue_response().  There is one such exit for every
\* status, each with and without a response, and all of them free the buffer.
Respond(r) ==
    /\ pc[r] = "answering"
    /\ \/ Goto(r, "done") /\ UNCHANGED <<answer, faults>>
       \/ Fault("alloc") /\ Close(r)
    /\ buffer' = [buffer EXCEPT ![r] = NoBuffer]
    /\ UNCHANGED <<storeVars, upload>>

-----------------------------------------------------------------------------
(* The topic *)

\* A session executes SET_TOPIC.
SetTopic(s) ==
    /\ pc[s] = "new"
    /\ Goto(s, "exists")
    /\ UNCHANGED <<storeVars, requestVars, faults>>

\* topic_exists(): whatever keeps the file from being opened reads as its absence.
Looks(found) ==
    \/ found = present /\ UNCHANGED faults
    \/ ~found /\ present /\ Fault("blind")

\* An operation on the topic ends early: what the caller makes of it.
Fails(t) ==
    IF t \in Sessions THEN Goto(t, "done") /\ UNCHANGED answer ELSE Decide(t, "500")

\* The caller's own look: get_or_create_topic(), handle_create_topic_request(), SET_TOPIC.
FindsTopicNever(t) ==
    /\ pc[t] = "exists"
    /\ present
    /\ Goto(t, "create")
    /\ UNCHANGED <<storeVars, requestVars, faults>>
FindsTopic(t) ==
    /\ pc[t] = "exists"
    /\ Looks(TRUE)
    /\ IF t \in Sessions THEN Goto(t, "done") /\ UNCHANGED answer
       ELSE IF route[t] = "create" THEN Decide(t, "409")
       ELSE Goto(t, "append") /\ UNCHANGED answer
    /\ UNCHANGED <<storeVars, uploadVars>>

FindsNoTopic(t) ==
    /\ pc[t] = "exists"
    /\ Looks(FALSE)
    /\ Goto(t, "create")
    /\ UNCHANGED <<storeVars, requestVars>>

\* create_topic() looks again.
CreateUnchecked(t) ==
    /\ pc[t] = "create"
    /\ Goto(t, "opening")
    /\ UNCHANGED <<storeVars, requestVars, faults>>
Create(t) ==
    /\ pc[t] = "create"
    /\ Looks(FALSE)
    /\ Goto(t, "opening")
    /\ UNCHANGED <<storeVars, requestVars>>

\* It finds a topic, or has no memory, or no directory.
CreateFails(t) ==
    /\ pc[t] = "create"
    /\ \/ Looks(TRUE)
       \/ Fault("alloc")
    /\ Fails(t)
    /\ UNCHANGED <<storeVars, uploadVars>>

\* chunk_save_delta() opens the file for appending, which makes it.
OpenFile(t) ==
    /\ \/ pc[t] = "opening" /\ Goto(t, "prologue")
       \/ pc[t] = "append" /\ t \notin Unacceptable /\ Goto(t, "event")
    /\ present' = TRUE
    /\ UNCHANGED <<file, gone, orphans, lost, deletes, requestVars, faults>>

\* It cannot; or a chunk_append() or chunk_load() before it could not.
OpenFails(t) ==
    /\ pc[t] \in {"opening", "append"}
    /\ \/ pc[t] = "append" /\ t \in Unacceptable /\ UNCHANGED faults
       \/ Fault("alloc") \/ Fault("write")
    /\ Fails(t)
    /\ UNCHANGED <<storeVars, uploadVars>>

\* Something reaches the file that was opened, which may have been deleted since.
Appends(t, item) ==
    /\ IF t \in orphans THEN gone' = Append(gone, item) /\ UNCHANGED file
                        ELSE file' = Append(file, item) /\ UNCHANGED gone
    /\ orphans' = orphans \ {t}
    /\ UNCHANGED <<present, deletes>>

\* The caller of create_topic() or publish_event() goes on.
GoesOn(t) ==
    IF t \in Sessions THEN Goto(t, "done") /\ UNCHANGED answer
    ELSE IF pc[t] = "event" \/ route[t] = "create" THEN Decide(t, "200")
    ELSE Goto(t, "append") /\ UNCHANGED answer

\* create_topic() has written the prologue and returns the Topic, or has no memory for it.
WritePrologue(t) ==
    /\ pc[t] = "prologue"
    /\ Appends(t, Prologue(t))
    /\ \/ GoesOn(t) /\ UNCHANGED faults
       \/ Fault("alloc") /\ Fails(t)
    /\ UNCHANGED <<lost, uploadVars>>

\* publish_event() has written the frame.
WriteEvent(t) ==
    /\ pc[t] = "event"
    /\ Appends(t, Event(t))
    /\ GoesOn(t)
    /\ UNCHANGED <<lost, uploadVars, faults>>

\* What a write that does not succeed leaves in the file: a part, or nothing.
FallsShort(t) ==
    \/ Appends(t, Torn(t))
    \/ orphans' = orphans \ {t} /\ UNCHANGED <<present, file, gone, deletes>>

\* fwrite() falls short.
WriteFailsUnnoticed(t) ==
    /\ pc[t] \in {"prologue", "event"}
    /\ Fault("write")
    /\ FallsShort(t)
    /\ GoesOn(t)
    /\ UNCHANGED <<lost, uploadVars>>
WriteFails(t) ==
    /\ pc[t] \in {"prologue", "event"}
    /\ Fault("write")
    /\ FallsShort(t)
    /\ Fails(t)
    /\ UNCHANGED <<lost, uploadVars>>

\* fclose(), which writes what fwrite() has only buffered, falls short: nobody looks at its
\* result.  (Without memory for the Topic after that, it is as if WriteFails(t).)
WriteIsLost(t) ==
    /\ pc[t] \in {"prologue", "event"}
    /\ Fault("write")
    /\ FallsShort(t)
    /\ lost' = lost \cup {IF pc[t] = "event" THEN Event(t) ELSE Prologue(t)}
    /\ GoesOn(t)
    /\ UNCHANGED uploadVars

\* delete_topic(), by the program these threads run in.
Delete ==
    /\ present
    /\ deletes < MaxDeletes
    /\ deletes' = deletes + 1
    /\ present' = FALSE
    /\ file' = << >>
    /\ gone' = gone \o file
    /\ orphans' = {t \in Threads : pc[t] \in {"prologue", "event"}}
    /\ UNCHANGED <<lost, pc, requestVars, faults>>

\* The process dies: connections and buffers go, the file stays.
Restart ==
    /\ Fault("crash")
    /\ orphans' = {}
    /\ pc' = [t \in Threads |-> IF pc[t] = "new" THEN "new" ELSE "done"]
    /\ answer' = [r \in Requests |->
                    IF pc[r] \in {"new", "done"} THEN answer[r] ELSE "closed"]
    /\ buffer' = [r \in Requests |-> NoBuffer]
    /\ UNCHANGED <<present, file, gone, lost, deletes, upload>>

-----------------------------------------------------------------------------
\* One thread is creating the topic and another is inside an operation on it.
Overlap == \E t, u \in Threads : t /= u /\ pc[t] \in Creating /\ pc[u] \in InOperation

Step ==
    \/ \E r \in Requests :
          \/ RouteOther(r) \/ Announce(r) \/ Piece(r) \/ PieceRefused(r) \/ BufferFails(r)
          \/ Abort(r) \/ BodyEnds(r) \/ Respond(r) \/ WriteEvent(r)
    \/ \E s \in Sessions : SetTopic(s)
    \/ \E t \in Threads :
          \/ FindsTopic(t) \/ FindsNoTopic(t) \/ Create(t) \/ CreateFails(t)
          \/ OpenFile(t) \/ OpenFails(t) \/ WritePrologue(t) \/ WriteFails(t)
          \/ WriteIsLost(t)
    \/ Delete \/ Restart

\* A deletion in the midst of an operation is an overlap too.
Next ==
    /\ Step
    /\ raced' = \/ raced \/ Overlap'
                \/ deletes' > deletes /\ \E t \in Threads : pc[t] \in InOperation

Spec == Init /\ [][Next]_vars

-----------------------------------------------------------------------------
(* Properties *)

Statuses == {"none", "closed", "200", "400", "404", "409", "413", "500"}

\* Types: what each variable may hold; a buffer never holds more than MAX_BODY_SIZE.
TypeOK ==
    /\ present \in BOOLEAN
    /\ file \in Seq(Items) /\ gone \in Seq(Items)
    /\ orphans \subseteq Threads
    /\ lost \subseteq Items
    /\ pc \in [Threads -> InOperation \cup {"new", "receiving", "answering", "done"}]
    /\ buffer \in [Requests -> {NoBuffer} \cup 0..MaxBody]
    /\ upload \in [Requests -> {"none", "begun", "ended"}]
    /\ answer \in [Requests -> Statuses]
    /\ faults \in Nat /\ deletes \in Nat
    /\ raced \in BOOLEAN

\* How often something was written, and how often it is where it can be read.
Times(item, s) == Cardinality({i \in DOMAIN s : s[i] = item})
Written(item) == Times(item, file) + Times(item, gone)

\* What a client is told is what happened, but for a write that fclose() lost: after a 200 to
\* POST /publish the event has been written once, whole, and is in the topic unless the topic
\* was deleted; after a 200 to POST /create_topic the prologue has; after any other answer
\* nothing of the request is there but the torn part of a 500, or the topic that could not be
\* returned.  A client that was told nothing may have published, but not twice.
AnswersAreTrue ==
    \A r \in Requests : pc[r] = "done" =>
        /\ answer[r] = "200" /\ route[r] = "publish" =>
              IF Event(r) \in lost THEN Written(Event(r)) = 0
              ELSE Written(Event(r)) = 1 /\ (deletes = 0 => Times(Event(r), file) = 1)
        /\ answer[r] = "200" /\ route[r] = "create" =>
              Prologue(r) \in lost \/ Written(Prologue(r)) = 1
        /\ answer[r] \notin {"200", "closed"} => Written(Event(r)) = 0
        /\ answer[r] \in {"400", "409", "413"} =>
              Written(Prologue(r)) = 0 /\ Written(Torn(r)) = 0
        /\ answer[r] = "closed" => Written(Event(r)) <= 1

\* The topic's file begins with the prologue and has no other, as long as no creation
\* overlapped with another operation: one look at the file that fails is made up for by the
\* second (two are not), and a creation that fails half-way leaves a topic without prologue
\* that nobody ever repairs.
PrologueFirst ==
    /\ ~raced /\ faults <= 1 =>
          \A i \in DOMAIN file : file[i].kind = "prologue" => i = 1
    /\ ~raced /\ faults = 0 /\ present /\ (\A t \in Threads : pc[t] \notin Creating) =>
          file /= << >> /\ file[1].kind = "prologue"

\* A request does not fail for nothing: a 500 says that a fault happened, that the event
\* was unacceptable, or that another thread got in between; a connection that ends without
\* an answer, that a fault happened or that the body was never read to its end: it was broken
\* off or refused, or no data came with the first call.
FailuresHaveCauses ==
    \A r \in Requests : pc[r] = "done" =>
        /\ answer[r] = "500" => faults > 0 \/ raced \/ r \in Unacceptable
        /\ answer[r] = "closed" => faults > 0 \/ upload[r] /= "ended"

\* README.md:261-278: POST /publish publishes an event and is answered.  As long as nothing
\* fails, that is.
EveryRequestIsAnswered ==
    faults = 0 => \A r \in Requests : pc[r] = "done" => answer[r] /= "closed"
=============================================================================
