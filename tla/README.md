# SuparnaD in TLA+

SuparnaD is a small message broker in C: producers publish events to topics over
HTTP, consumers read them over a socket, and a topic is one append-only file. This
directory holds TLA+ models of the part of it that decides whether an accepted event
is kept and delivered, the TLC configurations that check them, and TLAPS proofs of
the properties that matter most. Paths below are relative to the repository's `src/`
directory; `API`, `messaging` and so on are its subdirectories.

Run a check with `tlc -config <name>.cfg <module>`, a proof with `tlapm <module>.tla`.
`PROJECT.json` maps every definition to the lines it models, every property to the
hazards it answers, and gives for every property a mutation of the model that breaks it.

## 1. The system

```
 producer --HTTP--> libmicrohttpd thread --> publish_event() --+
                                                               v
                                          Chunk (RAM) --delta--> topic file "{}" frame frame ...
                                                               |
 client --socket--> session thread --> consume / ack  <--load--+
                       Topic, Group(read_pointer)
```

A topic file starts with the two characters `{}` and then holds frames: a length of
four bytes, little-endian, and that many bytes of payload.

| Component | Source | State | Operations | Correct when |
|---|---|---|---|---|
| Chunk | `writer/read_write_data.c` | the file's bytes in RAM, `persisted_size`, a mutex | load, append, read, save the delta | what counts as persisted is in the file; a save adds exactly what was appended |
| Publishing | `messaging/publish_event.c` | none of its own | publish one event, a batch, a compressed one; flush; ask for the size | 0 means that the event is in the file, whole, and stays |
| Consuming | `messaging/consume_packet.c` | moves the group's pointer, allocates Packets | consume a frame, consume n bytes, peek, free | frames are given whole, in order, none left out |
| Acknowledging | `messaging/ack_packet.c` | moves the group's pointer | by packet, by offset, by size, in batches | never goes back unless a sum wraps; a repeated one is harmless; -1 leaves the caller something it can act on |
| Group | `messaging/manage_groups.c` | `read_pointer`, the topic it is attached to | create, set, advance and reset the pointer, raw read; a list of groups | the pointer lies in the topic |
| Topic files | `messaging/create_topic.c` | the file, a Topic with its Chunk | exists, create, open, free, delete | the file starts with one prologue and keeps its frames |
| Socket session | `socket/server_event_handler.c` | topic, group name, Group, per client | SET_TOPIC, SET_GROUP, CONSUME, ACK, QUIT | commands use the present topic; a reply is a frame; ACK does what its name says |
| Streaming consumer | `socket/consumer_handler.c`, `handle_ack.c` | a count of packets | consume, send, await the acknowledgement, in a loop | what was not acknowledged is not lost; the loop ends |
| HTTP handlers | `api/publish_event.c`, `api/create_topic.c`, `api/handler.c` | the upload buffer of a request (`con_cls`) | one call per piece of a request | a request is answered once, with what was done |
| Socket server | `socket/host_server.c`, `connect_to_client.c`, `send_message.c` | the listening socket | accept, start a thread, send | - |
| HTTP server | `api/http_server.c`, `response_builder.c` | the daemon | start, stop, respond | - |
| Compression | `messaging/encoder.c` | none | compress, decompress | - |
| Logger | `utils/logger.c` | none | write a line | - |
| Main program | `main.c` | - | the file is empty | - |

How they interact. An HTTP request opens the topic anew (`get_or_create_topic`), so its
Chunk is private to the request; a session opens a Topic per SET_TOPIC. Chunks of
different Topics share the file and nothing else: each has a mutex of its own, and
none of them locks the file. A program that embeds the library can keep a Topic and
share it between threads; that is what the mutex is there for, and what README.md:103
promises.

What is hard here:

* a publish is three critical sections (header, payload, save), and a consume several;
* `chunk_load()` replaces what other threads were appending to or reading;
* a delta reaches the file in pieces that another Chunk can load in between;
* allocations, writes and the flush in `fclose()` fail, a load takes a file it cannot open for an empty
  one, and the process dies, between any two of these steps; read pointers live in RAM only;
* a group's pointer is moved by nine functions with different notions of what they move
  over, called in any order by a program or by a client's commands;
* an ACK's size comes from the client through `atoi()` and wraps in `size_t`, as do other sums of what
  a program passes;
* topics and groups of a session are replaced, in two orders and with failures;
* a topic comes into being in steps (a look, a second look, a file, a prologue) while other
  threads look, publish and delete;
* the client's answers are bytes of a stream, of which `wait_for_ack()` reads what there is;
* a request arrives in calls whose meaning depends on what the earlier ones left in `con_cls`;
* `main.c` is empty: which parts run in one process, and who shares what, is open.

`PROJECT.json` lists the hazards line by line with the properties that cover each.

## 2. The modules

| Module | Models | A step is |
|---|---|---|
| `Wire` | frames, the length header, the prologue | - (operators) |
| `Chunk` | `ChunkLoad`, `ChunkAppend`, `ChunkRead`, `Delta` | - (operators) |
| `TopicLog` | the abstract topic: a log that grows, groups that are given it in order | a publish, a consume, a restart |
| `TopicStore` | publishers and consumers on one file | one critical section, or one piece of a write |
| `GroupPointer` | one group under every consume, acknowledge and pointer function | one call |
| `ConsumerSession` | one client's session, over several topics, which others create and publish to | one command; a creation is three steps |
| `TopicRequests` | HTTP requests and SET_TOPICs for one topic that is created, published to and deleted | one call of a handler, or what a thread does between two looks at the file |
| `Streaming` | the consumer handler's loop of consume, send and await, and a client that may leave | one part of the loop's body |
| `MC...` | the values and small sets for TLC | |
| `Wire_proofs` | lemmas about frames, Chunks, sequences and numbers that the proofs share | |
| `TopicStore_proofs`, `TopicDelivery_proofs`, `SharedChunk_proofs` | theorems about TopicStore: types and durability; delivery, the abstract log and what the file is; a shared Chunk | |
| `GroupPointer_proofs`, `ConsumerSession_proofs`, `TopicRequests_proofs`, `Streaming_proofs` | theorems about the module they are named after | |

### TopicStore

`file` is the file; `chunk[k]` is a `Chunk` as it is in RAM; `pc`, `event`, `rest`, `appended` and
`written` say where each publisher is in its call and in `chunk_save_delta()`, which event of which batch
it is at, and what it has appended; `cpc`, `packet` and `group` where each consumer is in
`consume_packet()`, what it holds, and its group. `stored`, `delivered` and `start` (where
`set_group_pointer()` left a group) are history. The actions are the steps of the code:

| Code | Actions |
|---|---|
| `publish_event()`, `publish_event_batch()` (one event is a batch of one), with `get_or_create_topic()` | `BeginPublish`, `NextElement` or `RefuseElement` |
| `chunk_append()` twice for each event | `AppendHeader`, `AppendPayload`, `AppendFails` |
| `chunk_save_delta()` | `SaveWhole`; `SaveFirstPart`, `SaveRest`; `SaveFails` |
| `flush_topic()`, `get_topic_size()` | `Flush` and a save; `GetTopicSize` |
| `set_group_pointer()` | `Position` |
| `consume_packet()` | `BeginConsume` or `NothingToRead`, `Reload`, `ReadHeader` or `NoPacketThere`, `ReadPayload` or `PayloadGone`, `ConsumeFails` |
| `ack_packet()`, `packet_free()` | `AckPacket`, `Discard` |
| the process dies and comes back | `Restart` |

`chunkOf` says which thread uses which Chunk: each its own (as in the server) or all one (an
embedding program). `Positions` are the offsets that are given to `set_group_pointer()`, which only an embedding
program can call: the server's sessions stay where `create_group()` puts them, at 0. `Reopen` says whether a publish opens the topic first. `SplitWrites`
says whether a delta may be in the file in part while another Chunk loads it: stdio
passes a delta on in blocks, and the kernel may take a part of one. `Faults` chooses among
allocations that fail, loads that find no file to open (`Loads`: the Chunk is empty then, and the load returns 0),
writes that fall short, a flush that fails in `fclose()` and crashes.
`publish_event_compressed()` is `publish_event()` of other bytes, or fails before it does anything.

Abstractions, and why they are sound:

* A call whose first element is refused does nothing, and is left out; a later one that is refused
  leaves the frames before it in the Chunk.
* A thread holds a Chunk's mutex throughout a step; `Locked` keeps others out while a
  split save is under way. Reads of `chunk->size` without the mutex are merged with the
  locked read that follows.
* An accepted event enters `stored` when its last byte is handed to the operating system,
  the point at which other Chunks can see it; the call returns 0 with nothing in between.
  Ordering it there is what lets the topic implement a log.
* A crash is of the process. What a crash of the machine does to data that was never
  synced is outside: the code does not call `fsync()`.
* A failed allocation in `chunk_load()` leaves the Chunk as it was, which is the model's
  `ConsumeFails` or `AppendFails`.

### GroupPointer

`data` is the file (each call loads its Chunk first and the file only grows, so a call acts
as if it ran at its last load; the steps inside a call are TopicStore's). `unwritten` is
the part of the last frame that has not reached the file yet. `held` are the Packets the program
has not freed, `call` the last call with its arguments and result and whether it loaded the topic, `frames` the
frames published. Each call takes a `load`: whole, failed (the call returns -1), or blind (`fopen()` failed: the
Chunk is empty and the call goes on). Sums of what the program passes are `size_t` sums, modulo `Word` (`Sum`); those of
an offset in the file and a length in it cannot wrap. `last_read_size`, which the code writes and never reads, is
left out. `ack_packet_batch()` is a loop: the model says where it may end (`Goes`: a walk of frames from the
pointer), not how it counts. `ack_packet_by_size()` is `ack_packet_batch_by_size()` of one size.

### ConsumerSession

`files` are the topics, `session` the `ClientSession`; `attached` tells whether a group's
`attached_topic` is equal to the session's present Topic pointer. `Line` says what
a name is once `recv()` delivered it: bare, or with the end of its line. An ACK's size is an
integer that `ack_packet_by_size()` takes as `size_t`, with its wrap-around.

A SET_TOPIC that finds no file goes on in steps (`creating`): `LookForTopic`, `LookAgain` and `StartFile`, between which
others create the topic and publish to it, so that its prologue may be a second one. Others also come late with theirs
(`PrologueAgain`), and writes are cut (`PublishCut`, `StartOfFileIsCut`). `spoiled` are the topics in
which that has happened: their bytes stay, and commands meet them.

Every command answers "set" whatever became of it, so the failures matter: a look for the file may fail (`FindsNoFile`), a
name, a Topic, a Chunk, a Group or a packet may find no memory, and a load may fail or find no file to open (`SetGroupFails`,
`SetTopicFails`, `CreateFails`, `OpenTopicWithout`, `AckSizeFails`, `CommandFails`); a
topic may be without its Chunk (`chunk`). Where a Group outlives its Topic, the new Topic may lie where a
freed one was (`GroupOn`). A command that `recv()` cuts or joins with another is read as a different
command, or one with a different name; the model has any command at any time.

### TopicRequests

`file` is the sequence of what was appended to the topic's file (a prologue, an event, a torn part),
`present` whether there is such a file, `gone` what deleted files held and `orphans` the threads that
have a deleted file open. `pc` says where each thread is, `buffer` how many pieces of its upload a
request's `RequestBuffer` holds (`NoBuffer` for a `con_cls` that is NULL), `upload` whether its body was begun and
read to its end, `answer` what the client is told, `lost` what `fclose()` failed to write.

| Code | Actions |
|---|---|
| `route_request()` | `RouteOther`; POSTs go on below |
| a first call without data, which announces the request or ends one without a body (`Empty`) | `Announce` |
| calls with data: `append_to_buffer()` | `Piece`, `PieceRefused`, `BufferFails`; the client may `Abort` |
| the call without data at the end | `BodyEnds`, with a 400 or with the topic next |
| the caller's `topic_exists()` | `FindsTopic`, `FindsNoTopic` |
| `create_topic()` | `Create` or `CreateFails`, `OpenFile` or `OpenFails`, `WritePrologue`, `WriteFails` or `WriteIsLost` |
| `publish_event_string()` | `OpenFile` or `OpenFails`, `WriteEvent`, `WriteFails` or `WriteIsLost` |
| `build_response_from_buffer()`, `MHD_queue_response()`, `free_request_buffer()` | `Respond` |
| `delete_topic()`, by the program | `Delete` |

libmicrohttpd runs one thread (`HttpIdle`): requests interleave between the handler's calls, not within
one, while sessions and a deleting program run beside it. Bytes and Chunks are left out: each thread opens
a Chunk of its own and appends one thing, so the file is the sequence of what was appended
(TopicStore has the bytes). All requests name one topic in one directory; what `extract_json_string()`
finds is either the fields or not; the handlers' exits, which differ in the status and in whether the response
could be built, are one action.

### Streaming

`handler` holds the loop's variables and where it is; a packet is the number of its frame and
`read_pointer` the number of frames passed (-1 in front of the prologue). `transit` and `replies` are
the connection; `received`, `confirmed` and `surplus` are history. The client is external: it reads a packet and
answers once, with an acknowledgement or anything else, or leaves at any moment. Its reply is bytes that arrive in
one piece or several, and one `read()` takes one piece or several (`Read`): "ACK" or "OK" may be in a piece or across
the end of one, and what is left of a reply is read when the next packet's is awaited. `surplus` counts the pieces
beyond one for each reply. Once it has left, `send()` may seem to succeed, fail, or
raise SIGPIPE (`SendKills`). `OutOfMemory` collects the calls whose allocation fails. A publisher
that leaves a part of a frame behind and never completes it is here, what others publish behind
that part is not (TopicStore has it).

## 3. The runs

| Run | Question | Result |
|---|---|---|
| `store_positioned` | A publisher that reopens the topic, as the HTTP handler does, and writes in two pieces; two groups that a program has put at the first frame. Is anything lost, torn, left out, reordered, never delivered? | no: `Durable`, `DeliveredInOrder`, `EventuallyDelivered` hold, and the topic implements `TopicLog`. (Of groups that nobody positions, the server's sessions among them, see `store_fresh_group`.) |
| `store_faults` | Two programs that keep a Topic each, one of which publishes batches with refused elements, flushes and asks for the size; allocations, loads, writes and processes fail. | `Durable`; a group is given exactly what the file holds from where it was positioned (`DeliveredFromFile`); as long as nothing has failed the file is nothing but frames (`FileIsFrames`) |
| `store_mutex` | Four threads, one Topic, loads that may find no file to open. What does the mutex protect? | what a Chunk counts as persisted is in the file, in one piece (`PersistedIsOnDisk`) |
| `store_shared` | The same with one publisher and one consumer: is an accepted event in the file? | **no** (finding 2) |
| `store_fresh_group` | A group as `create_group()` makes it: is it given the event? | **no** (finding 1) |
| `group_pointer` | Any calls in any order, late and twice, with sizes and offsets whose sums wrap, loads that fail or find no file, half a frame in the file. | the pointer stays in the topic; only sizes whose sum wraps take it back; a repeated acknowledgement changes nothing; calls by frames stay on frames; a failed batch has passed everything there was, or nothing where it could not load |
| `session` | Any commands in any order, topics that this session and others create and others publish to, ACKs of any size; two of: allocations, looks and loads that fail, writes that are cut, creators that come late. | no command reaches a replaced topic, the pointer stays in the topic (for both, observation 2 is the exception), a reply is what the length at the pointer announces, and a published event in a topic that is not spoiled |
| `session_ack` | Does ACK acknowledge the last packet consumed? | **no** (finding 3) |
| `session_lines` | Does SET_TOPIC set the topic that was named? | **no** (finding 4) |
| `streaming` | Two requests for a group's packets, a client that may answer anything, in one piece or two, and leave, memory that fails, frames half in the file. | what counts as acknowledged was read, but for one packet per piece beyond one a reply; nothing is given twice; a request costs the group at most `(MaxErrors - 1) * packets_sent + MaxErrors` packets; it ends |
| `requests` | Publishes, a creation and a SET_TOPIC meet on a topic that nobody has made; a body may be missing, uploads are refused and broken off, the topic is deleted, two things fail. Is the client told the truth? | but for what `fclose()` lost, yes (`AnswersAreTrue`), and a failure has a cause (`FailuresHaveCauses`); without overlapping creations there is no second prologue while at most one thing has failed, and the file begins with the first while nothing has (`PrologueFirst`) |
| `requests_announced` | The same, announced as libmicrohttpd announces requests: is each one answered? | **no** (finding 5) |

`requests` is run without the announcing call (`Announces = FALSE`), for with it no POST gets any further
and the rest of the handlers has nothing to show. It says what the handlers do once that call is let
through (answered with `MHD_YES`, say), which is what every other model of a publish over HTTP takes for granted.

### Bounds

* Events (`SomeEvents`): one byte, two bytes that read like the prologue, and the empty and
  oversized ones that `publish_event()` refuses. `store_faults` has batches of two events, with the second
  refused in one of them, beside a publisher of single events; runs on sharing use one event of two bytes. The
  length header is modelled with all four bytes, and no property depends on a payload
  longer than two bytes: a frame has header and payload that can be torn apart at any byte.
* `store_positioned` publishes single events, as HTTP does. (With batches written in pieces it would
  not implement the log: see observation 4.)
* `MaxPublishes` (1 or 2) and `MaxSize` (7 bytes of file or Chunk in `store_faults`): no call begins beyond them.
  Two publishes are enough for one to follow, overlap or sit behind the torn remains of another.
  `store_faults` and `store_mutex` allow one acceptance but let both publishers
  begin, so that two publishes overlap; four threads make the state space large.
* `MaxFaults` (1 or 2): two faults let a retry fail too, and a crash follow a short write; in `session`
  two are what it takes to keep a Group whose Topic is gone; in `session` and `requests` two make both looks at the
  file fail.
* `MaxFileSize` (12 in `session` and `group_pointer`, 17 in the ACK runs): a prologue and two
  small frames, or a second prologue or a torn frame and one more. `MaxBytes` (14 in `session`): the other topic has then as much as
  a prologue, or each of two topics one frame. `MaxHeld` = 2: one packet acknowledged behind another.
* `Sizes`, `Offsets`, `Counts`, `AckSizes`: zero, values that hit and miss a frame's end, and ones far
  behind the file; for ACKs also negative ones. `Word` is 128 instead of 2^64: more than the file and a header, and
  122 and 125 are sizes and offsets close enough to it for sums to wrap to places in the file.
* `MaxPieces` = 2: one piece of a reply is left behind each time, and the leftovers add up.
* `MaxErrors` is the code's 3; `MaxPackets` is 3 instead of 100, and six frames let a request make two
  errors, be acknowledged, and make three more, the most it can lose. Two requests, so that one meets
  what another left.
* `MaxPacketSize` is 2 or 3, so that lengths just above it occur, and the code's 10 MiB in
  `store_fresh_group`, where what the prologue reads as matters.
* `Positions` is the first frame in the runs about delivery and 0 in `store_fresh_group`.
* `requests` has two publishes (one of unacceptable data or without a body), a creation, a GET, and a session with one SET_TOPIC;
  `MaxBody` is one piece, so that the second is refused; `MaxDeletes` is 1. That is a thread inside an operation,
  another that creates and a third that comes later.

`session` uses symmetry: two topics whose names nothing tells apart (`Alike`); its properties are invariants. No run has
a state constraint; bounds are guards. Deadlock is checked except in
`streaming`, where SIGPIPE may end the process, and in the two runs of requests, which are answered and over.

### Fairness

`FairSpec` asks weak fairness of `PublishStep` (a thread inside a call runs on: no step of it
waits for anything but a mutex whose holder runs on) and of `ConsumeStep` (a client goes on
asking; `EventuallyDelivered` says nothing of clients that leave). No publisher is obliged to
publish and no fault to happen. Weak fairness is enough, as no other thread can
keep disabling a step for ever: a mutex is held by a save of finitely many pieces.

In Streaming the handler's thread runs on, and a client that was sent a packet answers or goes away:
`wait_for_ack()` has no timeout, and a silent client holds the request for ever. Memory need not
fail (`OutOfMemory` has no fairness, so that the loop cannot end by it alone).

## 4. The proofs

Every safety property and every action property that a passing run checks is a theorem, for any threads, events,
sizes, offsets and faults that the modules' assumptions allow, and so is the refinement of `TopicLog`.

| Theorem | Property | Conditions, and what the property itself excepts |
|---|---|---|
| `TypeCorrect` (in five modules) | `TypeOK` | none |
| `AcceptedEventsAreDurable` | `Durable` | `PrivateChunks`, `SplitsHaveOneWriter`, `fclose()` does not fail |
| `GroupsReadTheTopicInOrder` | `DeliveredInOrder` | `Undisturbed` |
| `TopicIsALog` | `ImplementsTopicLog` | `Undisturbed` |
| `GroupsAreGivenTheFile` | `DeliveredFromFile` | `ReadersHaveTheirOwn` |
| `FileStaysFrames` | `FileIsFrames` | `PrivateChunks`, no split writes; excepts what happens after a fault |
| `ChunksAreSyncedWithDisk` | `PersistedIsOnDisk` | `OneWritingChunk`, `WritesSucceed`; not at the file's beginning after a load that found no file |
| `PointerStaysWithinTopic` | `PointerWithinTopic` (GroupPointer) | none |
| `AcknowledgementsGoForward` | `AcksGoBackOnlyByWrapping` | excepts sizes whose sum wraps |
| `AcksMayBeRepeated` | `AckRetryIsHarmless` | 0 is promised again where the load finds the topic |
| `FrameCallsGoByFrames`, `FailedBatchesPassAllOrNothing` | `WholeFramesStayAligned`, `FailedBatchIsAllOrNothing` | the pointer is at a frame's beginning |
| `GroupsFollowTheTopic`, `PointerStaysInTopic` | `GroupOnPresentTopic`, `PointerWithinTopic` (ConsumerSession) | except sessions that lost their group's name |
| `RepliesAreWholePackets` | `RepliesAreFrames` | a published event only in a topic that is not `spoiled`, from a frame's beginning |
| `UnreadAreConfirmedBySurplus` | `UnreadOnlyBySurplus` | excepts one packet per surplus piece |
| `WholeRepliesConfirmTheReceived` | what that comes to where replies arrive whole | `surplus = 0` |
| `PacketsAreNeverRepeated` | `NeverRepeated` | none |
| `RequestLossIsBounded`, `ReportedCountCoversConfirmed` | `LossIsBounded`, `CountCoversConfirmed` | none |
| `TopicsBeginWithThePrologue` | `PrologueFirst` | no overlapping creations; at most one fault, or none |
| `FailuresAreExplained` | `FailuresHaveCauses` | none: announced and empty requests are among the causes |
| `AnswersTellWhatHappened` | `AnswersAreTrue` | excepts what `fclose()` lost |

### The conditions

A condition is there where the code breaks the property without it; each is met by the constants of the run that
checks the property, so no theorem is about nothing.

* `PrivateChunks`: a publisher's Chunk is nobody else's. Finding 2 is what happens otherwise. (`store_positioned`,
  `store_faults`)
* `SplitsHaveOneWriter`: pieces of two publishers' writes would tear each other's frames.
* `Undisturbed` adds that saves put whole calls into the file: writes do not fall short or get lost, a process that dies is
  not in the middle of a split save, batches are not split (observation 4), and where a program keeps its Topic no call
  fails with something in the Chunk, for the next call would save what was refused. Groups are put at the first
  frame (finding 1) by a call that can open the file. An embedding program can meet it; the server as it is does not,
  for its sessions start at 0. (`store_positioned`)
* `ReadersHaveTheirOwn` is only that a consumer's Chunk is not a publisher's, in which it would read what is not in
  the file yet. Publishers may share theirs, groups may be put anywhere, and every fault of the model may happen. (`store_faults`)
* `OneWritingChunk`, `WritesSucceed`: a Chunk that is one of several that write believes its own bytes to be where another's are,
  and one whose write fell short saves the same bytes again. (`store_mutex`)
* What a property excepts is in its definition and, for the models' faults, in the runs: each exception occurs there.

The modules' assumptions say what the code's constants satisfy: sizes are natural numbers, `MaxPacketSize` is below 2^24 (the
code's is 10 MiB), published events are neither empty nor larger than that, and `Null` is no Group.

### The arguments

*Durability* (`DurableInv`). That the save puts the events into the file
depends on what the appends left in the Chunk. `PublishInProgress` says that, for each stage of a
call: the frames it has appended are in the Chunk's data where `appended` says, behind what is persisted;
after a header the data end with it; during a split save the file ends with the part that is
written. A save then puts the unsaved data behind the file as it was, and every frame of `appended` lands
as far behind as the file's end is from the Chunk's (`Landed`). Other publishers
cannot disturb it because the Chunk is private, and cannot put bytes between the two pieces
because there is one writer. Every other step only appends to the file, and what a file
holds at a place it holds for ever (`HoldsAtMoved` carries a frame from the Chunk's data to the file's).

*Order and refinement* (`DeliveryInv`, on top of `DurableInv`). `Layout`: the accepted frames lie one behind the other
from the prologue to the end of the file, or to where a split save began. `CallLayout` and `CallBatch`: a publisher's
unsaved data are the frames its call has appended, and these, the present event and the rest are one of its batches.
`Reads`: a consumer's pointer is the end of the last frame it was given, its Chunk a prefix of the file, and a header it has
accepted is the next event's. The step that needs the argument is a header read while a save is in two pieces: the
length is there but the frame is not, and since the file is shorter than the frame (`NothingBehind`) the
consumer goes away empty-handed instead of reading bytes that are not an event. For `TopicIsALog`, a save maps to the abstract publish of the
whole batch, a payload's read to a consume, a restart to a restart, and every other step to a stutter (`StepOfLog`).

*Whatever fails* (`FileReadingInv`). The file only grows (`PublisherGrowsFile`), a consumer's Chunk is a prefix of it (the
empty one, if the file could not be opened), and so a
length that was accepted once stays what the file says and the payload read behind it is the rest of a frame: four bytes
that decode to n are the encoding of n (`EncodeDecode`, for lengths of three bytes). What follows is that what was
delivered is what the file holds, not that anyone had published it: torn writes do yield frames of rubbish.

*Nothing but frames* (`FramingInv`). As long as no fault has happened, the unsaved part of each publisher's Chunk is frames
(`Building`), whole ones but for a header whose payload is to come; a refused batch stops between two. A save puts frames behind
frames (`FramedConcat`).

*A shared Chunk* (`MutexInv`). A load makes the Chunk the file, or empties it; an append leaves the persisted part alone, and a
save, which holds the mutex throughout, writes what lies behind it. The persisted part ends where the file ends (`InStep`), so
with an emptied Chunk it is the file's last bytes instead of its first. A split save is the case to follow:
the file then holds more than `persisted_size` says, and it is the Chunk's own bytes.

*Pointer* (GroupPointer). `TypeOK /\ PointerWithinTopic` is inductive. The one step that needs an argument
is the acknowledgement of a held packet: its end may lie behind the data when
`consume_packet_with_size()` made it, for the code counts a header that was not there; the check against the loaded size is what keeps the pointer inside. An acknowledgement that moves the pointer to a sum that
did not wrap moves it forward; one of a packet, or by an offset, compares. That an acknowledgement may be repeated needs `AckedBehind` (the
one that returned 0 left the pointer at or behind what it named), and that calls by frames stay on frames needs `Published`: the file is the
prologue and the frames published, the last perhaps in part, and a walk by headers meets exactly their beginnings.

*Session*. `Framed`: every topic that is not `spoiled` is a prologue and whole frames, for every other write has spoiled its
topic. A reply holds the length it was read with in any topic. `Positioned`: if the session
knows its group's name, its Group is on the present topic and has its pointer in that, whatever SET_TOPIC and SET_GROUP
failed at before (without the name, see observation 2).

*Requests*. `Order`, `Causes` and `Writing` say for each place of a thread what it saw of the file, what went
wrong and what it has written or lost. `Order` carries the argument: who overlaps with a creation is marked, and a thread
that found the topic while nobody was creating it found it with its prologue.

*Streaming* (`Inv`). While a packet is in hand it is the last one the pointer passed (`Counters`); what clients have read or are about to is in the packets' order
(`InOrder`); and what counts as acknowledged lies behind it (`Confirming`). `Answers` counts: while the client is there, the packets on their
way to it and the unread pieces of its replies exceed the packet in hand by no more than the surplus; when it leaves, the packets it
did not read take the place of those on their way, and each piece can confirm one of them at most. `LossIsBounded` is inductive next to these: an error costs one packet, and at most `MaxErrors - 1` of them lie
between two acknowledgements.

Some definitions compute by a recursive function (`Frames`, `FramedFrom`, the walks of frames). Induction is over sets of natural numbers
(`SetInduction`, from `LeastNumber`): a theorem that takes a predicate as a parameter cannot be used here. Each such function is shown
to exist by giving one that satisfies its equation, then to agree with it everywhere (`FramesBuilt`, `FramedFromFrames`).

Only model-checked: liveness, which is out of the prover's reach: `EventuallyDelivered` and `RequestsEnd`. The five
findings are counterexamples.

## 5. Findings

1. **A new group is given nothing** (`store_fresh_group`). `create_group()` starts at offset 0, in
   front of the prologue, whose two bytes and two of the first frame read as a length of 32123 + 65536 *
   (the event's length): above the maximum, or more than the topic holds. `consume_packet()` returns NULL and
   does not move. README.md:193-207 shows this very sequence. (A topic that has grown beyond that
   length would give the group that many bytes of many frames.)
2. **Sharing a Topic loses accepted events** (`store_shared`). A load between the appends and the
   save discards what was appended; the save has nothing to do and the publish returns 0.
   README.md:103 promises thread safety.
3. **ACK passes over a packet that was not sent** (`session_ack`). CONSUME has moved the pointer; ACK moves
   it again. README.md:285 calls it the acknowledgement of the last consumed packet.
4. **A line's end becomes part of the name** (`session_lines`). SET_TOPIC takes everything behind the
   blanks, so the commands as README.md:178 shows them name another topic.
5. **No POST is answered** (`requests_announced`). libmicrohttpd's first call for a request brings no data and a
   `con_cls` of NULL; the handlers take a call without data for the last one, find no buffer and return `MHD_NO`,
   which closes the connection. README.md:161-171 and 261-278 show publishing over HTTP.

Observations, met while modelling, that no run of their own is spent on:

1. `chunk_save_delta()` looks at `fwrite()` and not at `fclose()`, which does the writing of a small delta: a
   flush that fails is reported as success, to an HTTP client with a 200 (`"lost"` in TopicStore, `WriteIsLost` in TopicRequests).
2. After a SET_TOPIC that failed, a SET_GROUP whose `strdup()` fails leaves the old Group without a name, and the next
   SET_TOPIC takes it along. `consume_packet()` refuses it for its old Topic pointer, `group_has_more_data()` reads that
   Topic, and where the new Topic lies at the old one's address the Group goes on with another topic's pointer.
   `GroupOnPresentTopic` and `PointerWithinTopic` hold for sessions that know their group's name.
3. A packet is passed before it is acknowledged: the pointer moves in `consume_packet()`, and README.md:228
   puts the ACK in between. `LossIsBounded` says what that can cost.
4. A batch is not atomic for readers: written in pieces, its first events can be consumed before
   `publish_event_batch()` has returned, or though it returns -1.
5. A creation that dies or fails between the making of the file and its prologue leaves a topic without one,
   for good; two that overlap write two. A reader positioned behind the first prologue reads the second as a length.
6. The buffer of an upload that is refused or broken off is never freed: `MHD_OPTION_NOTIFY_COMPLETED` is not set.
7. A client whose publish is stored may get no answer, when the response finds no memory.
8. `chunk_load()` returns 0 when `fopen()` fails, with an empty Chunk: `set_group_pointer()` then goes to 0 and succeeds, a repeated
   acknowledgement is refused, and a Topic that is kept counts what it saves next from nothing.
9. `ack_packet_by_size()` and `ack_packet_batch_by_size()` accept sizes whose `size_t` sum wraps, and move the pointer back. The
   socket's ACK passes such a size for a negative `packet_size`.
10. A reply that arrives in two pieces acknowledges the packet behind the one it answers as well, if the rest holds an "ACK" or "OK":
   `wait_for_ack()` is one `read()` and keeps no account of what it answers. The client's answers stay one behind from then on.

## 6. Not modelled, and the plan

Not modelled because there is no state of the program's own to check: the socket server's
accept loop, starting and stopping the HTTP server, compression, the logger. `main.c` is empty. The GroupManager
(a list of groups without a lock) is called by nothing in the repository, and `handle_client_session()` ignores
the one it is given: there is no use of it to model. `wait_and_acknowledge_packet()`, `peek_packet_size()` and
`build_response_from_file()` have no caller or no effect. What a use of freed memory does is not modelled beyond
the choices named above, nor is the byte that `buffer[size] = '\0'` may write behind a full upload buffer.

What could still be proved: that a split save of a batch shows a consumer a beginning of the batch and nothing else
(`TopicLog` would have to let a publish take effect event by event), which is what `Undisturbed` now excludes.
