------------------------- MODULE TopicRequests_proofs -------------------------
(***************************************************************************)
(* Proofs about TopicRequests: for every set of requests and sessions, any  *)
(* number of faults and of deletions.                                       *)
(***************************************************************************)
EXTENDS TopicRequests, FiniteSetTheorems, FunctionTheorems, SequenceTheorems, TLAPS

-----------------------------------------------------------------------------
(* Types *)

Labels == InOperation \cup {"new", "receiving", "answering", "done"}

\* An operation that is given up leaves the thread and its answer well typed.
LEMMA FailsType ==
    ASSUME TypeOK, NEW t \in Threads, Fails(t)
    PROVE  /\ pc' \in [Threads -> Labels]
           /\ answer' \in [Requests -> Statuses]
BY DEF TypeOK, Fails, Decide, Goto, Labels, Statuses, Threads, InOperation

\* So does one that goes on.
LEMMA GoesOnType ==
    ASSUME TypeOK, NEW t \in Threads, GoesOn(t)
    PROVE  /\ pc' \in [Threads -> Labels]
           /\ answer' \in [Requests -> Statuses]
BY DEF TypeOK, GoesOn, Decide, Goto, Labels, Statuses, Threads, InOperation

\* So does an item that reaches a file.
LEMMA AppendsType ==
    ASSUME TypeOK, NEW t \in Threads, NEW item \in Items, Appends(t, item)
    PROVE  /\ file' \in Seq(Items) /\ gone' \in Seq(Items)
           /\ orphans' \subseteq Threads
           /\ present' \in BOOLEAN /\ deletes' \in Nat
<1>1. Append(gone, item) \in Seq(Items) /\ Append(file, item) \in Seq(Items)
  BY AppendProperties DEF TypeOK
<1> QED  BY <1>1 DEF TypeOK, Appends

\* So does what a failed write leaves.
LEMMA FallsShortType ==
    ASSUME TypeOK, NEW t \in Threads, FallsShort(t)
    PROVE  /\ file' \in Seq(Items) /\ gone' \in Seq(Items)
           /\ orphans' \subseteq Threads
           /\ present' \in BOOLEAN /\ deletes' \in Nat
<1>1. Torn(t) \in Items
  BY DEF Torn, Items
<1> QED  BY <1>1, AppendsType DEF FallsShort, TypeOK

\* What the threads append are items.
LEMMA ItemsAre ==
    ASSUME NEW t \in Threads
    PROVE  Prologue(t) \in Items /\ Event(t) \in Items /\ Torn(t) \in Items
BY DEF Prologue, Event, Torn, Items

\* A fault is one more.
LEMMA FaultType ==
    ASSUME TypeOK, NEW kind, Fault(kind)
    PROVE  faults' = faults + 1 /\ faults' \in Nat
BY DEF TypeOK, Fault

\* Initially the variables have their types.
LEMMA TypeInit == Init => TypeOK
<1> SUFFICES ASSUME Init PROVE TypeOK
  OBVIOUS
<1>1. file \in Seq(Items) /\ gone \in Seq(Items)
  BY EmptySeq DEF Init
<1>2. pc \in [Threads -> InOperation \cup {"new", "receiving", "answering", "done"}]
  BY DEF Init
<1>3. /\ buffer \in [Requests -> {NoBuffer} \cup 0..MaxBody]
      /\ upload \in [Requests -> {"none", "begun", "ended"}]
      /\ answer \in [Requests -> Statuses]
  BY DEF Init, Statuses
<1> QED  BY <1>1, <1>2, <1>3 DEF Init, TypeOK

\* Every step keeps the types.
LEMMA TypeStep ==
    ASSUME TypeOK, [Next]_vars
    PROVE  TypeOK'
<1> USE TopicRequestsAssumption DEF TopicRequestsAssumption, Threads
<1>0. CASE UNCHANGED vars
  BY <1>0 DEF vars, TypeOK
<1> SUFFICES ASSUME Next PROVE TypeOK'
  BY <1>0
<1>r. raced' \in BOOLEAN
  BY DEF Next, TypeOK
<1>1. ASSUME NEW r \in Requests,
             RouteOther(r) \/ Announce(r) \/ Abort(r) \/ BodyEnds(r)
      PROVE  TypeOK'
  <2>1. CASE RouteOther(r)
    BY <2>1, <1>r DEF TypeOK, RouteOther, Decide, Goto, storeVars, uploadVars, Statuses
  <2>2. CASE Announce(r) \/ Abort(r)
    BY <2>2, <1>r DEF TypeOK, Announce, Abort, Close, Goto, storeVars, uploadVars, Statuses
  <2>3. CASE BodyEnds(r)
    BY <2>3, <1>r DEF TypeOK, BodyEnds, Decide, Goto, storeVars, Statuses, InOperation
  <2> QED  BY <1>1, <2>1, <2>2, <2>3
<1>2. ASSUME NEW r \in Requests, Piece(r)
      PROVE  TypeOK'
  BY <1>2, <1>r DEF TypeOK, Piece, Receives, Pieces, NoBuffer, Goto, storeVars
<1>3. ASSUME NEW r \in Requests, PieceRefused(r)
      PROVE  TypeOK'
  BY <1>3, <1>r DEF TypeOK, PieceRefused, Receives, Pieces, NoBuffer, Goto, Fault, storeVars, Statuses
<1>4. ASSUME NEW r \in Requests, BufferFails(r) \/ Respond(r)
      PROVE  TypeOK'
  <2>1. CASE BufferFails(r)
    BY <2>1, <1>r DEF TypeOK, BufferFails, Fault, Close, Goto, storeVars, uploadVars, Statuses
  <2>2. CASE Respond(r)
    BY <2>2, <1>r DEF TypeOK, Respond, NoBuffer, Fault, Close, Goto, storeVars, Statuses
  <2> QED  BY <1>4, <2>1, <2>2
<1>5. ASSUME NEW r \in Requests, WriteEvent(r)
      PROVE  TypeOK'
  <2>1. Appends(r, Event(r)) /\ Event(r) \in Items
    BY <1>5, ItemsAre DEF WriteEvent
  <2>2. r \in Threads /\ GoesOn(r)
    BY <1>5 DEF WriteEvent
  <2> QED  BY <2>1, <2>2, <1>5, <1>r, AppendsType, GoesOnType DEF TypeOK, WriteEvent, uploadVars,
           Labels
<1>6. ASSUME NEW s \in Sessions, SetTopic(s)
      PROVE  TypeOK'
  BY <1>6, <1>r DEF TypeOK, SetTopic, Goto, storeVars, requestVars, uploadVars, InOperation
<1>7. ASSUME NEW t \in Threads, FindsTopic(t)
      PROVE  TypeOK'
  BY <1>7, <1>r DEF TypeOK, FindsTopic, Looks, Fault, Decide, Goto, storeVars, uploadVars,
     Statuses, InOperation
<1>8. ASSUME NEW t \in Threads, FindsNoTopic(t) \/ Create(t)
      PROVE  TypeOK'
  <2>1. faults' \in Nat
    BY <1>8, FaultType DEF FindsNoTopic, Create, Looks, TypeOK
  <2>2. \E label \in InOperation : Goto(t, label)
    BY <1>8 DEF FindsNoTopic, Create, InOperation
  <2>3. pc' \in [Threads -> InOperation \cup {"new", "receiving", "answering", "done"}]
    BY <2>2 DEF TypeOK, Goto
  <2>4. UNCHANGED <<present, file, gone, orphans, lost, deletes, buffer, upload, answer>>
    BY <1>8 DEF FindsNoTopic, Create, storeVars, requestVars, uploadVars
  <2> QED  BY <2>1, <2>3, <2>4, <1>r DEF TypeOK
<1>9. ASSUME NEW t \in Threads, CreateFails(t) \/ OpenFails(t)
      PROVE  TypeOK'
  <2>1. Fails(t) /\ faults' \in Nat
    BY <1>9, FaultType DEF CreateFails, OpenFails, Looks, TypeOK
  <2> QED  BY <2>1, <1>9, <1>r, FailsType DEF TypeOK, CreateFails, OpenFails, storeVars,
           uploadVars, Labels
<1>10. ASSUME NEW t \in Threads, OpenFile(t)
       PROVE  TypeOK'
  BY <1>10, <1>r DEF TypeOK, OpenFile, Goto, requestVars, uploadVars, InOperation
<1>11. ASSUME NEW t \in Threads, WritePrologue(t)
       PROVE  TypeOK'
  <2>1. Appends(t, Prologue(t)) /\ Prologue(t) \in Items /\ faults' \in Nat
    BY <1>11, ItemsAre, FaultType DEF WritePrologue, TypeOK
  <2>2. pc' \in [Threads -> Labels] /\ answer' \in [Requests -> Statuses]
    BY <1>11, FailsType, GoesOnType DEF WritePrologue
  <2> QED  BY <2>1, <2>2, <1>11, <1>r, AppendsType DEF TypeOK, WritePrologue, uploadVars, Labels
<1>12. ASSUME NEW t \in Threads, WriteFails(t)
       PROVE  TypeOK'
  <2>1. Fails(t) /\ FallsShort(t) /\ faults' \in Nat
    BY <1>12, FaultType DEF WriteFails
  <2> QED  BY <2>1, <1>12, <1>r, FallsShortType, FailsType DEF TypeOK, WriteFails, uploadVars,
           Labels
<1>15. ASSUME NEW t \in Threads, WriteIsLost(t)
       PROVE  TypeOK'
  <2>1. GoesOn(t) /\ FallsShort(t) /\ faults' \in Nat
    BY <1>15, FaultType DEF WriteIsLost
  <2>2. lost' \subseteq Items
    BY <1>15, ItemsAre DEF WriteIsLost, TypeOK
  <2> QED  BY <2>1, <2>2, <1>15, <1>r, FallsShortType, GoesOnType DEF TypeOK, WriteIsLost,
           uploadVars, Labels
<1>13. ASSUME Delete
       PROVE  TypeOK'
  <2>1. gone \o file \in Seq(Items) /\ << >> \in Seq(Items)
    BY ConcatProperties, EmptySeq DEF TypeOK
  <2>2. orphans' \subseteq Threads
    BY <1>13 DEF Delete
  <2>3. deletes' \in Nat
    BY <1>13 DEF Delete, TypeOK
  <2>4. file' \in Seq(Items) /\ gone' \in Seq(Items)
    BY <2>1, <1>13 DEF Delete
  <2> QED  BY <2>2, <2>3, <2>4, <1>13, <1>r DEF TypeOK, Delete, requestVars, uploadVars
<1>14. ASSUME Restart
       PROVE  TypeOK'
  BY <1>14, <1>r, FaultType DEF TypeOK, Restart, Statuses
<1> QED
  BY <1>1, <1>2, <1>3, <1>4, <1>5, <1>6, <1>7, <1>8, <1>9, <1>10, <1>11, <1>12, <1>13, <1>14, <1>15
     DEF Next, Step

\* Requests and sessions keep every variable within its type; in particular a buffer never
\* grows past MAX_BODY_SIZE.
THEOREM TypeCorrect == Spec => []TypeOK
<1>1. Init => TypeOK
  BY TypeInit
<1>2. TypeOK /\ [Next]_vars => TypeOK'
  BY TypeStep
<1> QED  BY <1>1, <1>2, PTL DEF Spec

-----------------------------------------------------------------------------
(* Open files *)

\* Who is about to write has the topic's file open, or a deleted one; where there is no file
\* nothing is in it.
Handles ==
    /\ \A t \in orphans : pc[t] \in {"prologue", "event"}
    /\ \A t \in Threads : pc[t] \in {"prologue", "event"} /\ t \notin orphans => present
    /\ ~present => file = << >>

\* Initially no file is open.
LEMMA HandlesInit == Init => Handles
BY DEF Init, Handles, Threads

\* A thread that has no file open goes on without one.
LEMMA HandlesKept ==
    ASSUME TypeOK, Handles, NEW t \in Threads, pc[t] \notin {"prologue", "event"},
           NEW label \in Labels \ {"prologue", "event"}, Goto(t, label),
           UNCHANGED storeVars
    PROVE  Handles'
BY DEF TypeOK, Handles, Goto, storeVars

\* A thread that has one open has none once it has written, or has failed to.
LEMMA HandlesClosed ==
    ASSUME TypeOK, Handles, NEW t \in Threads, pc[t] \in {"prologue", "event"},
           NEW label \in Labels \ {"prologue", "event"}, Goto(t, label),
           (\E item \in Items : Appends(t, item)) \/ FallsShort(t)
    PROVE  Handles'
<1>1. t \notin orphans => present
  BY DEF Handles
<1>2. /\ present' = present
      /\ orphans' = orphans \ {t}
      /\ ~present => file' = << >>
  BY <1>1 DEF FallsShort, Appends, Handles
<1> QED  BY <1>2 DEF TypeOK, Handles, Goto

\* Every step keeps it so.
LEMMA HandlesStep ==
    ASSUME TypeOK, Handles, [Next]_vars
    PROVE  Handles'
<1>0. CASE UNCHANGED vars
  BY <1>0 DEF vars, Handles
<1> SUFFICES ASSUME Next PROVE Handles'
  BY <1>0
<1>1. ASSUME NEW r \in Requests,
             \/ RouteOther(r) \/ Announce(r) \/ Piece(r) \/ PieceRefused(r) \/ BufferFails(r)
             \/ Abort(r) \/ BodyEnds(r) \/ Respond(r)
      PROVE  Handles'
  <2>1. \E label \in Labels \ {"prologue", "event"} : Goto(r, label)
    BY <1>1 DEF RouteOther, Announce, Piece, PieceRefused, BufferFails, Abort, BodyEnds,
       Respond, Decide, Close, Labels, InOperation
  <2>2. pc[r] \notin {"prologue", "event"}
    BY <1>1 DEF RouteOther, Announce, Piece, PieceRefused, BufferFails, Abort, BodyEnds,
       Respond, Receives
  <2>3. UNCHANGED storeVars
    BY <1>1 DEF RouteOther, Announce, Piece, PieceRefused, BufferFails, Abort, BodyEnds,
       Respond
  <2> QED  BY <2>1, <2>2, <2>3, HandlesKept DEF Threads
<1>2. ASSUME NEW t \in Threads,
             \/ FindsTopic(t) \/ FindsNoTopic(t) \/ Create(t) \/ CreateFails(t) \/ OpenFails(t)
             \/ (t \in Sessions /\ SetTopic(t))
      PROVE  Handles'
  <2>1. \E label \in Labels \ {"prologue", "event"} : Goto(t, label)
    BY <1>2 DEF FindsTopic, FindsNoTopic, Create, CreateFails, OpenFails, SetTopic, Fails,
       Decide, Labels, InOperation
  <2>2. pc[t] \notin {"prologue", "event"}
    BY <1>2 DEF FindsTopic, FindsNoTopic, Create, CreateFails, OpenFails, SetTopic
  <2>3. UNCHANGED storeVars
    BY <1>2 DEF FindsTopic, FindsNoTopic, Create, CreateFails, OpenFails, SetTopic
  <2> QED  BY <2>1, <2>2, <2>3, HandlesKept
<1>3. ASSUME NEW t \in Threads, OpenFile(t)
      PROVE  Handles'
  BY <1>3 DEF TypeOK, Handles, OpenFile, Goto
<1>4. ASSUME NEW t \in Threads,
             \/ WritePrologue(t) \/ WriteFails(t) \/ WriteIsLost(t)
             \/ (t \in Requests /\ WriteEvent(t))
      PROVE  Handles'
  <2>1. \E label \in Labels \ {"prologue", "event"} : Goto(t, label)
    BY <1>4 DEF WritePrologue, WriteFails, WriteIsLost, WriteEvent, GoesOn, Fails, Decide, Labels,
       InOperation
  <2>2. pc[t] \in {"prologue", "event"}
    BY <1>4 DEF WritePrologue, WriteFails, WriteIsLost, WriteEvent
  <2>3. (\E item \in Items : Appends(t, item)) \/ FallsShort(t)
    BY <1>4, ItemsAre DEF WritePrologue, WriteFails, WriteIsLost, WriteEvent
  <2> QED  BY <2>1, <2>2, <2>3, HandlesClosed
<1>5. ASSUME Delete
      PROVE  Handles'
  <2>1. orphans' = {t \in Threads : pc[t] \in {"prologue", "event"}} /\ UNCHANGED pc
    BY <1>5 DEF Delete
  <2>2. file' = << >>
    BY <1>5 DEF Delete
  <2> QED  BY <2>1, <2>2 DEF Handles
<1>6. ASSUME Restart
      PROVE  Handles'
  <2>1. orphans' = {} /\ UNCHANGED <<present, file>>
    BY <1>6 DEF Restart
  <2>2. \A t \in Threads : pc'[t] \notin {"prologue", "event"}
    BY <1>6 DEF Restart
  <2> QED  BY <2>1, <2>2 DEF Handles
<1> QED
  BY <1>1, <1>2, <1>3, <1>4, <1>5, <1>6 DEF Next, Step, Threads

-----------------------------------------------------------------------------
(* The prologue *)

\* As long as no creation has overlapped with another operation: nobody has a deleted file
\* open; an append finds the file its thread saw; a creation that goes on although the file
\* is there has been misled by one fault per look.
Alone ==
    /\ orphans = {}
    /\ ~Overlap
    /\ \A t \in Threads : pc[t] = "append" => present
    /\ \A t \in Threads : pc[t] = "create" /\ present => faults >= 1
    /\ \A t \in Threads : pc[t] = "opening" /\ present => faults >= 2
    /\ \A t \in Threads : pc[t] = "prologue" /\ file /= << >> => faults >= 2

\* Then the prologue is the first thing in the file and the only one of its kind, or about
\* to be written.
Headed ==
    /\ faults <= 1 => \A i \in DOMAIN file : file[i].kind = "prologue" => i = 1
    /\ faults = 0 /\ present =>
          \/ file = << >> /\ \E t \in Threads : pc[t] = "prologue"
          \/ file /= << >> /\ file[1].kind = "prologue"

\* Initially no thread is in an operation.
LEMMA AloneInit == Init => Alone /\ Headed
BY DEF Init, Alone, Headed, Overlap, Creating

\* A thread moves about without touching the file, away from what was said of it.
LEMMA AloneKept ==
    ASSUME TypeOK, Alone, Headed, NEW t \in Threads, pc[t] /= "prologue",
           NEW label \in Labels \ {"append", "create", "opening", "prologue"}, Goto(t, label),
           UNCHANGED storeVars, faults' \in Nat, faults' >= faults, ~Overlap'
    PROVE  Alone' /\ Headed'
<1>1. /\ present' = present /\ file' = file /\ orphans' = orphans
      /\ \A u \in Threads : pc'[u] \in {"append", "create", "opening", "prologue"} =>
            pc'[u] = pc[u]
      /\ \A u \in Threads : pc[u] = "prologue" => pc'[u] = "prologue"
      /\ faults \in Nat
  BY DEF TypeOK, Goto, storeVars
<1>2. Alone'
  BY <1>1 DEF Alone
<1>3. Headed'
  BY <1>1 DEF Headed
<1> QED  BY <1>2, <1>3

\* The file after an item has been appended to it.
LEMMA Appended ==
    ASSUME TypeOK, NEW item \in Items, file' = Append(file, item)
    PROVE  /\ file' /= << >>
           /\ DOMAIN file' = DOMAIN file \cup {Len(file) + 1}
           /\ \A i \in DOMAIN file : file'[i] = file[i]
           /\ file'[Len(file) + 1] = item
           /\ file = << >> => DOMAIN file' = {1} /\ file'[1] = item
           /\ file /= << >> => 1 \in DOMAIN file
<1>1. file \in Seq(Items)
  BY DEF TypeOK
<1>2. PICK n \in Nat : n = Len(file)
  BY <1>1
<1>3. /\ Len(file') = n + 1
      /\ \A i \in 1..n : file'[i] = file[i]
      /\ file'[n + 1] = item
  BY <1>1, <1>2, AppendProperties
<1>4. DOMAIN file = 1..n /\ DOMAIN file' = 1..(n + 1)
  BY <1>1, <1>2, <1>3, AppendProperties
<1>5. file = << >> <=> n = 0
  BY <1>1, <1>2, EmptySeq
<1>6. file' /= << >>
  BY <1>3, <1>2
<1> QED  BY <1>2, <1>3, <1>4, <1>5, <1>6

\* A thread writes the prologue, an event or a torn part, and has been alone with the file
\* if it was creating the topic.
LEMMA AloneWrites ==
    ASSUME TypeOK, Handles, Alone, Headed, NEW t \in Threads, pc[t] \in {"prologue", "event"},
           NEW label \in Labels \ {"create", "opening", "prologue", "event"}, Goto(t, label),
           NEW item \in Items, Appends(t, item),
           item.kind = "prologue" => pc[t] = "prologue",
           faults' \in Nat,
           \/ faults' = faults /\ (pc[t] = "prologue" => item.kind = "prologue")
           \/ faults' = faults + 1,
           ~Overlap'
    PROVE  Alone' /\ Headed'
<1>1. /\ present /\ present' /\ orphans' = {} /\ file' = Append(file, item)
      /\ faults \in Nat
  BY DEF Handles, Alone, Appends, TypeOK
<1>2. \A u \in Threads : u /= t => pc'[u] = pc[u]
  BY DEF TypeOK, Goto
<1>3. \A u \in Threads : u /= t => pc[u] /= "prologue"
  BY DEF Alone, Overlap, Creating, InOperation
<1>4. pc'[t] \notin {"create", "opening", "prologue", "event"}
  BY DEF TypeOK, Goto
<1>5. Alone'
  BY <1>1, <1>2, <1>3, <1>4 DEF Alone
<1>6. faults <= 1 /\ pc[t] = "prologue" => file = << >>
  BY <1>1 DEF Alone
<1>7. faults' <= 1 => \A i \in DOMAIN file' : file'[i].kind = "prologue" => i = 1
  <2> SUFFICES ASSUME faults' <= 1, NEW i \in DOMAIN file', file'[i].kind = "prologue"
               PROVE  i = 1
    OBVIOUS
  <2>1. faults <= 1
    BY <1>1
  <2>2. CASE i \in DOMAIN file
    BY <2>1, <2>2, <1>1, Appended DEF Headed
  <2>3. CASE i \notin DOMAIN file
    <3>1. file'[i] = item
      BY <2>3, <1>1, Appended
    <3> QED  BY <3>1, <2>1, <1>1, <1>6, Appended
  <2> QED  BY <2>2, <2>3
<1>8. faults' = 0 => file' /= << >> /\ file'[1].kind = "prologue"
  <2> SUFFICES ASSUME faults' = 0 PROVE file' /= << >> /\ file'[1].kind = "prologue"
    OBVIOUS
  <2>1. faults = 0 /\ (pc[t] = "prologue" => item.kind = "prologue")
    BY <1>1
  <2>2. CASE file = << >>
    <3>1. pc[t] = "prologue"
      BY <2>1, <2>2, <1>1, <1>3 DEF Headed
    <3> QED  BY <3>1, <2>1, <2>2, <1>1, Appended
  <2>3. CASE file /= << >>
    BY <2>1, <2>3, <1>1, Appended DEF Headed
  <2> QED  BY <2>2, <2>3
<1>9. Headed'
  BY <1>7, <1>8 DEF Headed
<1> QED  BY <1>5, <1>9

\* Every step that is not an overlap keeps it so.
LEMMA AloneStep ==
    ASSUME TypeOK, TypeOK', Handles, Alone, Headed, Next, ~raced'
    PROVE  Alone' /\ Headed'
<1>0. /\ ~Overlap'
      /\ deletes' > deletes => \A t \in Threads : pc[t] \notin InOperation
      /\ faults \in Nat /\ faults' \in Nat
  BY DEF Next, TypeOK
<1>1. ASSUME NEW r \in Requests,
             \/ RouteOther(r) \/ Announce(r) \/ Piece(r) \/ PieceRefused(r) \/ BufferFails(r)
             \/ Abort(r) \/ BodyEnds(r) \/ Respond(r)
      PROVE  Alone' /\ Headed'
  <2>1. \E label \in Labels \ {"append", "create", "opening", "prologue"} : Goto(r, label)
    BY <1>1 DEF RouteOther, Announce, Piece, PieceRefused, BufferFails, Abort, BodyEnds,
       Respond, Decide, Close, Labels, InOperation
  <2>2. pc[r] /= "prologue"
    BY <1>1 DEF RouteOther, Announce, Piece, PieceRefused, BufferFails, Abort, BodyEnds,
       Respond, Receives
  <2>3. UNCHANGED storeVars
    BY <1>1 DEF RouteOther, Announce, Piece, PieceRefused, BufferFails, Abort, BodyEnds,
       Respond
  <2>4. faults' >= faults
    BY <1>0, <1>1 DEF RouteOther, Announce, Piece, PieceRefused, BufferFails, Abort,
       BodyEnds, Respond, Fault
  <2> QED  BY <1>0, <2>1, <2>2, <2>3, <2>4, AloneKept DEF Threads
<1>2. ASSUME NEW t \in Threads,
             CreateFails(t) \/ OpenFails(t) \/ (t \in Sessions /\ SetTopic(t))
      PROVE  Alone' /\ Headed'
  <2>1. \E label \in Labels \ {"append", "create", "opening", "prologue"} : Goto(t, label)
    BY <1>2 DEF CreateFails, OpenFails, SetTopic, Fails, Decide, Labels, InOperation
  <2>2. pc[t] /= "prologue"
    BY <1>2 DEF CreateFails, OpenFails, SetTopic
  <2>3. UNCHANGED storeVars
    BY <1>2 DEF CreateFails, OpenFails, SetTopic
  <2>4. faults' >= faults
    BY <1>0, <1>2 DEF CreateFails, OpenFails, SetTopic, Looks, Fault
  <2> QED  BY <1>0, <2>1, <2>2, <2>3, <2>4, AloneKept
<1>3. ASSUME NEW t \in Threads, FindsTopic(t)
      PROVE  Alone' /\ Headed'
  <2>1. present /\ UNCHANGED <<present, file, orphans, faults>>
    BY <1>3 DEF FindsTopic, Looks, storeVars, TypeOK
  <2>2. pc[t] = "exists" /\ \E label \in {"done", "answering", "append"} : Goto(t, label)
    BY <1>3 DEF FindsTopic, Decide
  <2> QED  BY <2>1, <2>2, <1>0 DEF Alone, Headed, Goto, TypeOK
<1>4. ASSUME NEW t \in Threads, FindsNoTopic(t)
      PROVE  Alone' /\ Headed'
  <2>1. /\ UNCHANGED <<present, file, orphans>>
        /\ faults' >= faults /\ (present => faults' >= 1)
    BY <1>0, <1>4 DEF FindsNoTopic, Looks, Fault, storeVars
  <2>2. pc[t] = "exists" /\ Goto(t, "create")
    BY <1>4 DEF FindsNoTopic
  <2> QED  BY <2>1, <2>2, <1>0 DEF Alone, Headed, Goto, TypeOK
<1>5. ASSUME NEW t \in Threads, Create(t)
      PROVE  Alone' /\ Headed'
  <2>1. pc[t] = "create" /\ Goto(t, "opening")
    BY <1>5 DEF Create
  <2>2. present => faults >= 1
    BY <2>1 DEF Alone
  <2>3. /\ UNCHANGED <<present, file, orphans>>
        /\ faults' >= faults /\ (present => faults' >= 2)
    BY <1>0, <1>5, <2>2 DEF Create, Looks, Fault, storeVars
  <2> QED  BY <2>1, <2>3, <1>0 DEF Alone, Headed, Goto, TypeOK
<1>6. ASSUME NEW t \in Threads, OpenFile(t)
      PROVE  Alone' /\ Headed'
  <2>1. present' /\ UNCHANGED <<file, orphans, faults>>
    BY <1>6 DEF OpenFile
  <2>2. CASE pc[t] = "append"
    <3>1. present /\ Goto(t, "event")
      BY <1>6, <2>2 DEF OpenFile, Alone
    <3> QED  BY <2>1, <2>2, <3>1, <1>0 DEF Alone, Headed, Goto, TypeOK
  <2>3. CASE pc[t] = "opening"
    <3>1. Goto(t, "prologue") /\ pc'[t] = "prologue"
      BY <1>6, <2>3 DEF OpenFile, Goto, TypeOK
    <3>2. \A u \in Threads : u /= t => pc'[u] = pc[u] /\ pc'[u] \notin InOperation
      BY <1>0, <3>1 DEF Overlap, Creating, Goto, TypeOK
    <3>3. present => faults >= 2
      BY <2>3 DEF Alone
    <3>4. file /= << >> => present
      BY DEF Handles
    <3>5. Alone'
      BY <1>0, <2>1, <3>1, <3>2, <3>3, <3>4 DEF Alone, InOperation
    <3>6. Headed'
      BY <1>0, <2>1, <3>1, <3>3, <3>4 DEF Headed
    <3> QED  BY <3>5, <3>6
  <2> QED  BY <1>6, <2>2, <2>3 DEF OpenFile
<1>7. ASSUME NEW t \in Threads, WritePrologue(t)
      PROVE  Alone' /\ Headed'
  <2>1. \E label \in Labels \ {"create", "opening", "prologue", "event"} : Goto(t, label)
    BY <1>7 DEF WritePrologue, GoesOn, Fails, Decide, Labels, InOperation
  <2>2. pc[t] = "prologue" /\ Appends(t, Prologue(t)) /\ Prologue(t).kind = "prologue"
    BY <1>7 DEF WritePrologue, Prologue
  <2>3. faults' = faults \/ faults' = faults + 1
    BY <1>7 DEF WritePrologue, Fault
  <2> QED  BY <1>0, <2>1, <2>2, <2>3, ItemsAre, AloneWrites
<1>8. ASSUME NEW t \in Requests, WriteEvent(t)
      PROVE  Alone' /\ Headed'
  <2>1. \E label \in Labels \ {"create", "opening", "prologue", "event"} : Goto(t, label)
    BY <1>8 DEF WriteEvent, GoesOn, Decide, Labels, InOperation
  <2>2. pc[t] = "event" /\ Appends(t, Event(t)) /\ Event(t).kind = "event"
    BY <1>8 DEF WriteEvent, Event
  <2>3. faults' = faults /\ t \in Threads
    BY <1>8 DEF WriteEvent, Threads
  <2> QED  BY <1>0, <2>1, <2>2, <2>3, ItemsAre, AloneWrites
<1>9. ASSUME NEW t \in Threads, WriteFails(t) \/ WriteIsLost(t)
      PROVE  Alone' /\ Headed'
  <2>1. \E label \in Labels \ {"create", "opening", "prologue", "event"} : Goto(t, label)
    BY <1>9 DEF WriteFails, WriteIsLost, GoesOn, Fails, Decide, Labels, InOperation
  <2>2. pc[t] \in {"prologue", "event"} /\ Torn(t).kind /= "prologue" /\ faults' = faults + 1
    BY <1>9 DEF WriteFails, WriteIsLost, Torn, Fault
  <2>5. present /\ orphans = {}
    BY <2>2 DEF Handles, Alone
  <2>3. CASE Appends(t, Torn(t))
    BY <1>0, <2>1, <2>2, <2>3, ItemsAre, AloneWrites
  <2>4. CASE orphans' = orphans \ {t} /\ UNCHANGED <<present, file, gone, deletes>>
    <3>1. \A u \in Threads : pc'[u] \in {"create", "opening", "prologue"} => pc'[u] = pc[u]
      BY <2>1 DEF Goto, TypeOK
    <3>2. Alone'
      BY <1>0, <2>2, <2>4, <2>5, <3>1 DEF Alone
    <3>3. Headed'
      BY <1>0, <2>2, <2>4 DEF Headed
    <3> QED  BY <3>2, <3>3
  <2> QED  BY <1>9, <2>3, <2>4 DEF WriteFails, WriteIsLost, FallsShort
<1>10. ASSUME Delete
       PROVE  Alone' /\ Headed'
  <2>1. \A t \in Threads : pc'[t] = pc[t] /\ pc[t] \notin InOperation
    BY <1>0, <1>10 DEF Delete, TypeOK
  <2>2. orphans' = {t \in Threads : pc[t] \in {"prologue", "event"}}
    BY <1>10 DEF Delete
  <2>3. orphans' = {}
    BY <2>1, <2>2 DEF InOperation
  <2>4. ~present' /\ file' = << >>
    BY <1>10 DEF Delete
  <2>5. Alone'
    BY <1>0, <2>1, <2>3 DEF Alone, InOperation
  <2>6. Headed'
    BY <2>4 DEF Headed
  <2> QED  BY <2>5, <2>6
<1>11. ASSUME Restart
       PROVE  Alone' /\ Headed'
  <2>1. /\ orphans' = {} /\ UNCHANGED file
        /\ faults' = faults + 1
    BY <1>11 DEF Restart, Fault
  <2>2. \A t \in Threads : pc'[t] \notin InOperation
    BY <1>11 DEF Restart, InOperation
  <2>3. Alone'
    BY <1>0, <2>1, <2>2 DEF Alone, InOperation
  <2>4. Headed'
    BY <1>0, <2>1 DEF Headed
  <2> QED  BY <2>3, <2>4
<1> QED
  BY <1>1, <1>2, <1>3, <1>4, <1>5, <1>6, <1>7, <1>8, <1>9, <1>10, <1>11
     DEF Next, Step, Threads

\* What the order of the file's contents rests on.
Order == TypeOK /\ Handles /\ (~raced => Alone /\ Headed)

\* It holds initially, and every step keeps it.
LEMMA OrderInductive == /\ Init => Order
                        /\ Order /\ [Next]_vars => Order'
<1>1. Init => Order
  BY TypeInit, HandlesInit, AloneInit DEF Order
<1>2. ASSUME Order, [Next]_vars PROVE Order'
  <2>1. TypeOK' /\ Handles'
    BY <1>2, TypeStep, HandlesStep DEF Order
  <2>2. CASE UNCHANGED vars
    BY <1>2, <2>1, <2>2 DEF Order, vars, Alone, Headed, Overlap
  <2>3. CASE Next
    <3>1. ~raced' => ~raced
      BY <2>3 DEF Next
    <3> QED  BY <1>2, <2>1, <2>3, <3>1, AloneStep DEF Order
  <2> QED  BY <1>2, <2>2, <2>3
<1> QED  BY <1>1, <1>2

\* However many requests and sessions meet on a topic: unless a creation overlaps with
\* another operation, its file begins with the prologue and has no other.
THEOREM TopicsBeginWithThePrologue == Spec => []PrologueFirst
<1>1. Order => PrologueFirst
  BY DEF Order, Headed, PrologueFirst, Creating
<1> QED  BY <1>1, OrderInductive, PTL DEF Spec

-----------------------------------------------------------------------------
(* Why requests fail *)

\* Whoever is told of a failure, or of nothing, has met with its cause.
CauseOf(r) ==
    /\ pc[r] \in {"new", "receiving"} => upload[r] /= "ended"
    /\ pc[r] = "answering" => answer[r] /= "closed"
    /\ pc[r] \in {"answering", "done"} /\ answer[r] = "500" =>
          faults > 0 \/ raced \/ r \in Unacceptable
    /\ pc[r] = "done" /\ answer[r] = "closed" => faults > 0 \/ upload[r] /= "ended"
Causes == \A r \in Requests : CauseOf(r)

\* Causes do not go away: a step of one thread is of no concern to other requests.
LEMMA CausesKept ==
    ASSUME TypeOK, Causes, NEW t \in Threads, NEW label, Goto(t, label),
           \A r \in Requests : r /= t => upload'[r] = upload[r] /\ answer'[r] = answer[r],
           t \in Requests => CauseOf(t)',
           faults' \in Nat, faults' >= faults, raced => raced'
    PROVE  Causes'
<1> SUFFICES ASSUME NEW r \in Requests, r /= t PROVE CauseOf(r)'
  BY DEF Causes
<1>1. pc'[r] = pc[r] /\ upload'[r] = upload[r] /\ answer'[r] = answer[r]
  BY DEF Goto, TypeOK, Threads
<1> QED  BY <1>1 DEF Causes, CauseOf, TypeOK

\* A thread that fails has a reason.
LEMMA CausesFails ==
    ASSUME TypeOK, Causes, NEW t \in Threads, Fails(t), UNCHANGED upload,
           faults' \in Nat, faults' >= faults, raced => raced',
           faults' > 0 \/ raced \/ t \in Unacceptable
    PROVE  Causes'
<1>1. \E label : Goto(t, label)
  BY DEF Fails, Decide
<1>2. \A r \in Requests : r /= t => answer'[r] = answer[r]
  BY DEF Fails, Decide, TypeOK
<1>3. t \in Requests => pc'[t] = "answering" /\ answer'[t] = "500"
  BY TopicRequestsAssumption DEF TopicRequestsAssumption, Fails, Decide, Goto, TypeOK
<1> QED  BY <1>1, <1>2, <1>3, CausesKept DEF CauseOf

\* Every step keeps it so.
LEMMA CausesStep ==
    ASSUME Order, Causes, Next, TypeOK'
    PROVE  Causes'
<1>0. /\ TypeOK /\ TypeOK'
      /\ faults \in Nat /\ faults' \in Nat
      /\ raced => raced'
  BY DEF Next, Order, TypeOK
<1>1. ASSUME NEW r \in Requests,
             RouteOther(r) \/ BodyEnds(r) \/ Piece(r)
      PROVE  Causes'
  <2>1. /\ \E label : Goto(r, label)
        /\ \A u \in Requests : u /= r => upload'[u] = upload[u] /\ answer'[u] = answer[u]
        /\ faults' = faults
    BY <1>0, <1>1 DEF RouteOther, BodyEnds, Piece, Decide, TypeOK, uploadVars
  <2>2. CauseOf(r)'
    BY <1>0, <1>1 DEF RouteOther, BodyEnds, Piece, Decide, Goto, TypeOK, uploadVars,
       CauseOf, Threads
  <2> QED  BY <1>0, <2>1, <2>2, CausesKept DEF Threads
<1>2. ASSUME NEW r \in Requests,
             Announce(r) \/ PieceRefused(r) \/ BufferFails(r) \/ Abort(r) \/ Respond(r)
      PROVE  Causes'
  <2>1. /\ \E label : Goto(r, label)
        /\ \A u \in Requests : u /= r => upload'[u] = upload[u] /\ answer'[u] = answer[u]
        /\ faults' >= faults
    BY <1>0, <1>2 DEF Announce, PieceRefused, BufferFails, Abort, Respond, Close, Fault, TypeOK,
       uploadVars
  <2>2. CASE PieceRefused(r)
    <3>1. upload'[r] = "begun" /\ answer'[r] \in {"413", "closed"} /\ pc'[r] = "done"
      BY <1>0, <2>2 DEF PieceRefused, Goto, TypeOK, Threads
    <3> QED  BY <1>0, <2>1, <3>1, CausesKept DEF Threads, CauseOf
  <2>3. CASE Announce(r) \/ BufferFails(r) \/ Abort(r)
    <3>1. answer'[r] = "closed" /\ pc'[r] = "done" /\ upload'[r] = upload[r]
      BY <1>0, <2>3 DEF Announce, BufferFails, Abort, Close, Goto, TypeOK, uploadVars, Threads
    <3>2. pc[r] \in {"new", "receiving"}
      BY <2>3 DEF Announce, BufferFails, Receives, Abort
    <3>3. upload'[r] /= "ended"
      BY <3>1, <3>2 DEF Causes, CauseOf
    <3> QED  BY <1>0, <2>1, <3>1, <3>3, CausesKept DEF Threads, CauseOf
  <2>5. CASE Respond(r)
    <3>1. pc[r] = "answering" /\ pc'[r] = "done" /\ upload'[r] = upload[r]
      BY <1>0, <2>5 DEF Respond, Close, Goto, TypeOK, Threads
    <3>2. \/ answer'[r] = answer[r]
          \/ faults' > 0 /\ answer'[r] = "closed"
      BY <1>0, <2>5 DEF Respond, Close, Fault, TypeOK
    <3>3. CauseOf(r)'
      BY <1>0, <2>1, <3>1, <3>2 DEF CauseOf, Causes
    <3> QED  BY <1>0, <2>1, <3>3, CausesKept DEF Threads
  <2> QED  BY <1>2, <2>2, <2>3, <2>5
<1>3. ASSUME NEW s \in Sessions, SetTopic(s)
      PROVE  Causes'
  <2>1. s \in Threads /\ s \notin Requests
    BY TopicRequestsAssumption DEF TopicRequestsAssumption, Threads
  <2> QED  BY <1>0, <1>3, <2>1, CausesKept DEF SetTopic, requestVars, uploadVars
<1>4. ASSUME NEW t \in Threads,
             \/ FindsTopic(t) \/ FindsNoTopic(t) \/ Create(t) \/ OpenFile(t)
             \/ (t \in Requests /\ WriteEvent(t))
      PROVE  Causes'
  <2>1. /\ \E label : Goto(t, label)
        /\ UNCHANGED upload
        /\ \A u \in Requests : u /= t => answer'[u] = answer[u]
        /\ faults' >= faults
    BY <1>0, <1>4 DEF FindsTopic, FindsNoTopic, Create, OpenFile, WriteEvent, Looks, Fault,
       GoesOn, Decide, TypeOK, requestVars, uploadVars
  <2>2. t \in Requests => \/ pc'[t] \in InOperation
                          \/ pc'[t] = "answering" /\ answer'[t] \in {"200", "409"}
    BY <1>0, <1>4, TopicRequestsAssumption DEF TopicRequestsAssumption, FindsTopic,
       FindsNoTopic, Create, OpenFile, WriteEvent, GoesOn, Decide, Goto, TypeOK, InOperation
  <2> QED  BY <1>0, <2>1, <2>2, CausesKept DEF CauseOf, InOperation
<1>5. ASSUME NEW t \in Threads, CreateFails(t)
      PROVE  Causes'
  <2>1. Fails(t) /\ UNCHANGED upload /\ pc[t] = "create"
    BY <1>5 DEF CreateFails, uploadVars
  <2>2. present \/ faults' = faults + 1
    BY <1>0, <1>5 DEF CreateFails, Looks, Fault, TypeOK
  <2>3. faults' >= faults
    BY <1>0, <1>5 DEF CreateFails, Looks, Fault
  <2>4. faults' > 0 \/ raced
    BY <1>0, <2>1, <2>2, <2>3 DEF Order, Alone
  <2> QED  BY <1>0, <2>1, <2>3, <2>4, CausesFails
<1>6. ASSUME NEW t \in Threads, OpenFails(t) \/ WriteFails(t)
      PROVE  Causes'
  <2>1. /\ Fails(t) /\ UNCHANGED upload
        /\ faults' >= faults
        /\ faults' > 0 \/ t \in Unacceptable
    BY <1>0, <1>6 DEF OpenFails, WriteFails, Fault, uploadVars
  <2> QED  BY <1>0, <2>1, CausesFails
<1>7. ASSUME NEW t \in Threads, WritePrologue(t) \/ WriteIsLost(t)
      PROVE  Causes'
  <2>1. CASE Fault("alloc") /\ Fails(t) /\ UNCHANGED upload
    BY <1>0, <2>1, CausesFails DEF Fault
  <2>2. CASE GoesOn(t) /\ UNCHANGED upload /\ faults' >= faults
    <3>1. /\ \E label : Goto(t, label)
          /\ \A u \in Requests : u /= t => answer'[u] = answer[u]
      BY <1>0, <2>2 DEF GoesOn, Decide, TypeOK
    <3>2. t \in Requests => \/ pc'[t] = "append"
                            \/ pc'[t] = "answering" /\ answer'[t] = "200"
      BY <1>0, <2>2, TopicRequestsAssumption DEF TopicRequestsAssumption, GoesOn, Decide, Goto,
         TypeOK
    <3> QED  BY <1>0, <2>2, <3>1, <3>2, CausesKept DEF CauseOf
  <2> QED  BY <1>0, <1>7, <2>1, <2>2 DEF WritePrologue, WriteIsLost, Fault, uploadVars
<1>8. ASSUME Delete
      PROVE  Causes'
  BY <1>0, <1>8 DEF Delete, Causes, CauseOf, requestVars, uploadVars
<1>9. ASSUME Restart
      PROVE  Causes'
  BY <1>0, <1>9 DEF Restart, Fault, Causes, CauseOf, TypeOK, Threads
<1> QED
  BY <1>1, <1>2, <1>3, <1>4, <1>5, <1>6, <1>7, <1>8, <1>9 DEF Next, Step, Threads

\* However requests come, be it that they are announced or have no body: none fails for
\* nothing.  A 500 has its fault, its unacceptable event or its race, a closed connection its
\* fault or a body that was never read to its end.
THEOREM FailuresAreExplained == Spec => []FailuresHaveCauses
<1>1. Init => Order /\ Causes
  BY OrderInductive DEF Init, Causes, CauseOf, Threads
<1>2. Order /\ Causes /\ [Next]_vars => (Order /\ Causes)'
  <2> SUFFICES ASSUME Order, Causes, [Next]_vars
               PROVE  (Order /\ Causes)'
    OBVIOUS
  <2>1. Order'
    BY OrderInductive
  <2>2. CASE UNCHANGED vars
    BY <2>1, <2>2 DEF vars, Causes, CauseOf
  <2>3. CASE Next
    BY <2>1, <2>3, CausesStep DEF Order
  <2> QED  BY <2>1, <2>2, <2>3
<1>3. Causes => FailuresHaveCauses
  BY DEF Causes, CauseOf, FailuresHaveCauses
<1> QED  BY <1>1, <1>2, <1>3, PTL DEF Spec

-----------------------------------------------------------------------------
(* How often something was written *)

\* Where an item is in a sequence.
Places(item, s) == {i \in DOMAIN s : s[i] = item}

\* A sequence has finitely many places; an empty one none.
LEMMA PlacesAreFinite ==
    ASSUME NEW item, NEW s \in Seq(Items)
    PROVE  /\ IsFiniteSet(Places(item, s))
           /\ Times(item, s) = Cardinality(Places(item, s))
           /\ Times(item, s) \in Nat
<1>1. PICK n \in Nat : n = Len(s)
  OBVIOUS
<1>2. DOMAIN s = 1..n
  BY <1>1
<1>3. IsFiniteSet(1..n)
  BY FS_Interval
<1>4. Places(item, s) \in SUBSET (1..n)
  BY <1>2 DEF Places
<1>5. IsFiniteSet(Places(item, s))
  BY <1>3, <1>4, FS_Subset
<1>6. Times(item, s) = Cardinality(Places(item, s))
  BY DEF Times, Places
<1> QED  BY <1>5, <1>6, FS_CardinalityType

\* An empty sequence has none.
LEMMA TimesEmpty == ASSUME NEW item PROVE Times(item, << >>) = 0
<1>1. {i \in DOMAIN << >> : << >>[i] = item} = {}
  OBVIOUS
<1> QED  BY <1>1, FS_EmptySet DEF Times

\* An item appended is there once more, every other as often as before.
LEMMA TimesAppend ==
    ASSUME NEW item \in Items, NEW s \in Seq(Items), NEW x \in Items
    PROVE  Times(x, Append(s, item)) = IF x = item THEN Times(x, s) + 1 ELSE Times(x, s)
<1>1. PICK n \in Nat : n = Len(s)
  OBVIOUS
<1> DEFINE u == Append(s, item)
<1>2. u \in Seq(Items) /\ Len(u) = n + 1 /\ u[n + 1] = item /\ \A i \in 1..n : u[i] = s[i]
  BY <1>1, AppendProperties
<1>3. DOMAIN u = 1..(n + 1) /\ DOMAIN s = 1..n
  BY <1>1, <1>2
<1> HIDE DEF u
<1>4. CASE x = item
  <2>1. Places(x, u) = Places(x, s) \cup {n + 1}
    BY <1>2, <1>3, <1>4 DEF Places
  <2>2. n + 1 \notin Places(x, s)
    BY <1>3 DEF Places
  <2>3. Cardinality(Places(x, u)) = Cardinality(Places(x, s)) + 1
    BY <2>1, <2>2, PlacesAreFinite, FS_AddElement
  <2> QED  BY <2>3, <1>2, <1>4, PlacesAreFinite DEF u
<1>5. CASE x /= item
  <2>1. Places(x, u) = Places(x, s)
    BY <1>2, <1>3, <1>5 DEF Places
  <2> QED  BY <2>1, <1>2, <1>5, PlacesAreFinite DEF u
<1> QED  BY <1>4, <1>5

\* What is in two sequences is in their concatenation.
LEMMA TimesConcat ==
    ASSUME NEW s \in Seq(Items), NEW v \in Seq(Items), NEW x
    PROVE  Times(x, s \o v) = Times(x, s) + Times(x, v)
<1>1. PICK m \in Nat : m = Len(s)
  OBVIOUS
<1>2. PICK n \in Nat : n = Len(v)
  OBVIOUS
<1> DEFINE u == s \o v
<1>3. /\ u \in Seq(Items) /\ Len(u) = m + n
      /\ \A i \in 1..(m + n) : u[i] = IF i <= m THEN s[i] ELSE v[i - m]
  BY <1>1, <1>2, ConcatProperties
<1>4. DOMAIN s = 1..m /\ DOMAIN v = 1..n /\ DOMAIN u = 1..(m + n)
  BY <1>1, <1>2, <1>3
<1> HIDE DEF u
<1> DEFINE P == Places(x, s)
           Q == Places(x, v)
           R == {j \in (m + 1)..(m + n) : v[j - m] = x}
           f == [i \in Q |-> i + m]
<1>5. Places(x, u) = P \cup R
  <2>1. ASSUME NEW i PROVE i \in Places(x, u) <=> i \in P \cup R
    BY <1>3, <1>4 DEF Places
  <2> QED  BY <2>1
<1>6. P \cap R = {}
  BY <1>4 DEF Places
<1>7. f \in Bijection(Q, R)
  <2>1. f \in [Q -> R]
    BY <1>4 DEF Places
  <2>2. \A a, b \in Q : f[a] = f[b] => a = b
    BY <1>4 DEF Places
  <2>3. \A t \in R : \E i \in Q : f[i] = t
    <3> SUFFICES ASSUME NEW t \in R PROVE \E i \in Q : f[i] = t
      OBVIOUS
    <3>1. t - m \in Q
      BY <1>4 DEF Places
    <3>2. f[t - m] = t
      BY <3>1, <1>1
    <3> QED  BY <3>1, <3>2
  <2> HIDE DEF f, Q, R
  <2> QED  BY <2>1, <2>2, <2>3, Fun_IsBij
<1>8. IsFiniteSet(P) /\ IsFiniteSet(Q) /\ Cardinality(P) \in Nat /\ Cardinality(Q) \in Nat
  BY PlacesAreFinite, FS_CardinalityType
<1>9. IsFiniteSet(R) /\ Cardinality(R) = Cardinality(Q)
  <2>1. ExistsBijection(Q, R)
    BY <1>7, Fun_ExistsBij
  <2> QED  BY <2>1, <1>8, FS_Bijection
<1> HIDE DEF R
<1>10. Cardinality(P \cup R) = Cardinality(P) + Cardinality(Q)
  <2>1. Cardinality(P \cup R) = Cardinality(P) + Cardinality(R) - Cardinality(P \cap R)
    BY <1>8, <1>9, FS_Union
  <2>2. Cardinality(P \cap R) = 0
    BY <1>6, FS_EmptySet
  <2> QED  BY <2>1, <2>2, <1>8, <1>9
<1> QED  BY <1>5, <1>10, <1>3, PlacesAreFinite DEF u

-----------------------------------------------------------------------------
(* What requests wrote *)

\* Before the topic was first deleted, nobody has a deleted file open and none was read.
Undeleted == deletes = 0 => orphans = {} /\ gone = << >>

\* A request writes its event last and answers then; what it has written, or fclose() lost,
\* agrees with how far it is and with what it answers.
Wrote(r) ==
    /\ pc[r] \notin {"answering", "done"} => Written(Event(r)) = 0 /\ Event(r) \notin lost
    /\ pc[r] \in {"new", "receiving", "exists", "create", "opening", "prologue"} =>
          Written(Prologue(r)) = 0 /\ Written(Torn(r)) = 0
    /\ pc[r] \in {"append", "event"} => route[r] /= "create"
    /\ pc[r] \in {"answering", "done"} =>
          /\ answer[r] = "200" /\ route[r] = "publish" =>
                IF Event(r) \in lost THEN Written(Event(r)) = 0 ELSE Written(Event(r)) = 1
          /\ answer[r] = "200" /\ route[r] = "create" =>
                Prologue(r) \in lost \/ Written(Prologue(r)) = 1
          /\ answer[r] \notin {"200", "closed"} => Written(Event(r)) = 0
          /\ answer[r] \in {"400", "409", "413"} =>
                Written(Prologue(r)) = 0 /\ Written(Torn(r)) = 0
          /\ Written(Event(r)) \in {0, 1}

Writing == Undeleted /\ \A r \in Requests : Wrote(r)

\* Initially nothing is written.
LEMMA WritingInit == Init => Writing
<1> SUFFICES ASSUME Init PROVE Writing
  OBVIOUS
<1>1. \A x : Written(x) = 0
  BY TimesEmpty DEF Init, Written
<1> QED  BY <1>1 DEF Init, Writing, Undeleted, Wrote, Threads

\* What is written stays written when the file does not change.
LEMMA WrittenKept ==
    ASSUME UNCHANGED <<file, gone>>
    PROVE  \A x : Written(x)' = Written(x)
BY DEF Written, Times

\* An item that reaches a file is written once more, whichever file that is.
LEMMA WrittenAppends ==
    ASSUME TypeOK, NEW t \in Threads, NEW item \in Items, Appends(t, item)
    PROVE  \A x \in Items : Written(x)' = IF x = item THEN Written(x) + 1 ELSE Written(x)
<1> SUFFICES ASSUME NEW x \in Items
             PROVE  Written(x)' = IF x = item THEN Written(x) + 1 ELSE Written(x)
  OBVIOUS
<1>1. file \in Seq(Items) /\ gone \in Seq(Items)
  BY DEF TypeOK
<1>2. Times(x, file) \in Nat /\ Times(x, gone) \in Nat
  BY <1>1, PlacesAreFinite
<1>3. Written(x) = Times(x, file) + Times(x, gone)
  BY DEF Written
<1>4. Written(x)' = Times(x, file') + Times(x, gone')
  BY DEF Written, Times
<1>5. CASE t \in orphans
  <2>1. file' = file /\ gone' = Append(gone, item)
    BY <1>5 DEF Appends
  <2> QED  BY <2>1, <1>1, <1>2, <1>3, <1>4, TimesAppend
<1>6. CASE t \notin orphans
  <2>1. gone' = gone /\ file' = Append(file, item)
    BY <1>6 DEF Appends
  <2> QED  BY <2>1, <1>1, <1>2, <1>3, <1>4, TimesAppend
<1> QED  BY <1>5, <1>6

\* Deleting the topic unwrites nothing.
LEMMA WrittenDelete ==
    ASSUME TypeOK, Delete
    PROVE  \A x : Written(x)' = Written(x)
<1> SUFFICES ASSUME NEW x PROVE Written(x)' = Written(x)
  OBVIOUS
<1>1. file \in Seq(Items) /\ gone \in Seq(Items)
  BY DEF TypeOK
<1>2. Times(x, file) \in Nat /\ Times(x, gone) \in Nat
  BY <1>1, PlacesAreFinite
<1>3. file' = << >> /\ gone' = gone \o file
  BY DEF Delete
<1>4. Times(x, file') = 0
  BY <1>3, TimesEmpty
<1>5. Times(x, gone') = Times(x, gone) + Times(x, file)
  BY <1>1, <1>3, TimesConcat
<1>6. Written(x)' = Times(x, file') + Times(x, gone')
  BY DEF Written, Times
<1> QED  BY <1>2, <1>4, <1>5, <1>6 DEF Written

\* The items of one thread are not those of another, nor one the other.
LEMMA ItemsDiffer ==
    ASSUME NEW t \in Threads, NEW u \in Threads
    PROVE  /\ Prologue(t) /= Event(u) /\ Prologue(t) /= Torn(u) /\ Event(t) /= Torn(u)
           /\ t /= u => /\ Prologue(t) /= Prologue(u) /\ Event(t) /= Event(u)
                        /\ Torn(t) /= Torn(u)
BY DEF Prologue, Event, Torn

\* A step of one thread, which writes at most what is its own, leaves other requests as they
\* were.
LEMMA WritingKept ==
    ASSUME TypeOK, Writing, Undeleted', NEW t \in Threads, NEW label, Goto(t, label),
           \A r \in Requests : r /= t => answer'[r] = answer[r],
           \/ UNCHANGED <<file, gone>>
           \/ \E item \in {Prologue(t), Event(t), Torn(t)} : Appends(t, item),
           lost' = lost \/ \E item \in {Prologue(t), Event(t)} : lost' = lost \cup {item},
           t \in Requests => Wrote(t)'
    PROVE  Writing'
<1> SUFFICES ASSUME NEW r \in Requests, r /= t PROVE Wrote(r)'
  BY DEF Writing
<1>1. r \in Threads /\ pc'[r] = pc[r] /\ answer'[r] = answer[r]
  BY DEF Goto, TypeOK, Threads
<1>2. Prologue(r) \in Items /\ Event(r) \in Items /\ Torn(r) \in Items
  BY <1>1, ItemsAre
<1>3. /\ Written(Event(r))' = Written(Event(r))
      /\ Written(Prologue(r))' = Written(Prologue(r))
      /\ Written(Torn(r))' = Written(Torn(r))
  <2>1. CASE UNCHANGED <<file, gone>>
    BY <2>1, WrittenKept
  <2>2. CASE \E item \in {Prologue(t), Event(t), Torn(t)} : Appends(t, item)
    <3>1. PICK item \in {Prologue(t), Event(t), Torn(t)} : Appends(t, item)
      BY <2>2
    <3>2. item \in Items /\ Event(r) /= item /\ Prologue(r) /= item /\ Torn(r) /= item
      BY <1>1, <3>1, ItemsAre, ItemsDiffer
    <3> QED  BY <1>2, <3>1, <3>2, WrittenAppends
  <2> QED  BY <2>1, <2>2
<1>4. /\ Event(r) \in lost' <=> Event(r) \in lost
      /\ Prologue(r) \in lost' <=> Prologue(r) \in lost
  <2>1. CASE lost' = lost
    BY <2>1
  <2>2. CASE \E item \in {Prologue(t), Event(t)} : lost' = lost \cup {item}
    BY <1>1, <2>2, ItemsDiffer
  <2> QED  BY <2>1, <2>2
<1>5. Wrote(r)
  BY DEF Writing
<1>6. /\ Event(r)' = Event(r) /\ Prologue(r)' = Prologue(r) /\ Torn(r)' = Torn(r)
  BY DEF Event, Prologue, Torn
<1> QED  BY <1>1, <1>3, <1>4, <1>5, <1>6 DEF Wrote

\* Writing into a file that was not deleted leaves the others empty.
LEMMA UndeletedAppends ==
    ASSUME Undeleted, NEW t, NEW item, Appends(t, item)
    PROVE  Undeleted'
BY DEF Undeleted, Appends

\* So does writing less than was to be written; and it writes no event and no prologue.
LEMMA ShortWrites ==
    ASSUME TypeOK, Undeleted, NEW t \in Threads, FallsShort(t)
    PROVE  /\ Undeleted'
           /\ \/ UNCHANGED <<file, gone>>
              \/ \E item \in {Prologue(t), Event(t), Torn(t)} : Appends(t, item)
           /\ Written(Event(t))' = Written(Event(t))
<1>1. CASE Appends(t, Torn(t))
  BY <1>1, UndeletedAppends, ItemsAre, ItemsDiffer, WrittenAppends
<1>2. CASE orphans' = orphans \ {t} /\ UNCHANGED <<present, file, gone, deletes>>
  BY <1>2, WrittenKept DEF Undeleted
<1> QED  BY <1>1, <1>2 DEF FallsShort

\* Every step keeps it so.
LEMMA WritingStep ==
    ASSUME TypeOK, Writing, Next
    PROVE  Writing'
<1>0. TypeOK /\ TypeOK' /\ Undeleted
  <2>1. [Next]_vars
    OBVIOUS
  <2> QED  BY <2>1, TypeStep DEF Writing
<1>w. ASSUME UNCHANGED <<file, gone>>, NEW r \in Requests
      PROVE  /\ Written(Event(r))' = Written(Event(r))
             /\ Written(Prologue(r))' = Written(Prologue(r))
             /\ Written(Torn(r))' = Written(Torn(r))
  BY <1>w, WrittenKept
<1>1. ASSUME NEW r \in Requests,
             \/ RouteOther(r) \/ Announce(r) \/ Piece(r) \/ PieceRefused(r) \/ BufferFails(r)
             \/ Abort(r) \/ BodyEnds(r) \/ Respond(r)
      PROVE  Writing'
  <2>1. /\ \E label : Goto(r, label)
        /\ \A u \in Requests : u /= r => answer'[u] = answer[u]
    BY <1>0, <1>1 DEF RouteOther, Announce, Piece, PieceRefused, BufferFails, Abort,
       BodyEnds, Respond, Decide, Close, TypeOK
  <2>2. UNCHANGED storeVars
    BY <1>1 DEF RouteOther, Announce, Piece, PieceRefused, BufferFails, Abort, BodyEnds,
       Respond
  <2>3. UNCHANGED <<file, gone, lost>> /\ Undeleted'
    BY <1>0, <2>2 DEF storeVars, Undeleted
  <2>4. \/ /\ pc[r] \in {"new", "receiving"}
           /\ \/ pc'[r] \in {"receiving", "exists"}
              \/ pc'[r] \in {"answering", "done"} /\ answer'[r] \in {"400", "413", "closed"}
              \/ pc'[r] = "answering" /\ route[r] = "other"
        \/ /\ pc[r] = "answering" /\ pc'[r] = "done"
           /\ answer'[r] = answer[r] \/ answer'[r] = "closed"
    BY <1>0, <1>1 DEF RouteOther, Announce, Piece, PieceRefused, BufferFails, Abort,
       BodyEnds, Respond, Receives, Decide, Close, Goto, TypeOK, Threads
  <2>5. Wrote(r)'
    BY <2>3, <2>4, <1>w DEF Writing, Wrote
  <2> QED  BY <1>0, <2>1, <2>3, <2>5, WritingKept DEF Threads
<1>2. ASSUME NEW s \in Sessions, SetTopic(s)
      PROVE  Writing'
  <2>1. s \in Threads /\ s \notin Requests
    BY TopicRequestsAssumption DEF TopicRequestsAssumption, Threads
  <2>2. UNCHANGED <<file, gone, lost, answer>> /\ Undeleted'
    BY <1>0, <1>2 DEF SetTopic, storeVars, requestVars, Undeleted
  <2> QED  BY <1>0, <1>2, <2>1, <2>2, WritingKept DEF SetTopic
<1>3. ASSUME NEW t \in Threads,
             \/ FindsTopic(t) \/ FindsNoTopic(t) \/ Create(t) \/ CreateFails(t)
             \/ OpenFile(t) \/ OpenFails(t)
      PROVE  Writing'
  <2>1. /\ \E label : Goto(t, label)
        /\ \A u \in Requests : u /= t => answer'[u] = answer[u]
    BY <1>0, <1>3 DEF FindsTopic, FindsNoTopic, Create, CreateFails, OpenFile, OpenFails,
       Fails, Decide, TypeOK, requestVars
  <2>2. UNCHANGED <<file, gone, lost, orphans, deletes>>
    BY <1>3 DEF FindsTopic, FindsNoTopic, Create, CreateFails, OpenFile, OpenFails, storeVars
  <2>3. UNCHANGED <<file, gone, lost>> /\ Undeleted'
    BY <1>0, <2>2 DEF Undeleted
  <2>4. ASSUME t \in Requests
        PROVE  \/ /\ pc[t] \in {"exists", "create", "opening"}
                  /\ \/ pc'[t] \in {"create", "opening", "prologue"}
                     \/ pc'[t] = "append" /\ route[t] /= "create"
                     \/ pc'[t] = "answering" /\ answer'[t] \in {"409", "500"}
               \/ /\ pc[t] = "append"
                  /\ \/ pc'[t] = "event"
                     \/ pc'[t] = "answering" /\ answer'[t] = "500"
    <3>1. t \notin Sessions
      BY <2>4, TopicRequestsAssumption DEF TopicRequestsAssumption
    <3> QED  BY <1>0, <1>3, <2>4, <3>1 DEF FindsTopic, FindsNoTopic, Create, CreateFails,
             OpenFile, OpenFails, Fails, Decide, Goto, TypeOK
  <2>5. ASSUME t \in Requests PROVE Wrote(t)'
    BY <2>3, <2>4, <2>5, <1>w DEF Writing, Wrote
  <2> QED  BY <1>0, <2>1, <2>3, <2>5, WritingKept
<1>4. ASSUME NEW t \in Threads, WritePrologue(t)
      PROVE  Writing'
  <2>1. /\ \E label : Goto(t, label)
        /\ \A u \in Requests : u /= t => answer'[u] = answer[u]
        /\ Appends(t, Prologue(t)) /\ pc[t] = "prologue" /\ lost' = lost
    BY <1>0, <1>4 DEF WritePrologue, GoesOn, Fails, Decide, TypeOK
  <2>2. Undeleted'
    BY <1>0, <2>1, UndeletedAppends
  <2>3. ASSUME t \in Requests PROVE Wrote(t)'
    <3>1. t \notin Sessions
      BY <2>3, TopicRequestsAssumption DEF TopicRequestsAssumption
    <3>2. \/ pc'[t] = "append" /\ route[t] /= "create"
          \/ pc'[t] = "answering" /\ answer'[t] = "200" /\ route[t] = "create"
          \/ pc'[t] = "answering" /\ answer'[t] = "500"
      BY <1>0, <1>4, <2>1, <2>3, <3>1 DEF WritePrologue, GoesOn, Fails, Decide, Goto, TypeOK
    <3>3. /\ Written(Prologue(t))' = Written(Prologue(t)) + 1
          /\ Written(Event(t))' = Written(Event(t))
      BY <1>0, <2>1, ItemsAre, ItemsDiffer, WrittenAppends
    <3>4. Written(Prologue(t)) = 0 /\ Written(Event(t)) = 0 /\ Event(t) \notin lost'
      BY <2>1, <2>3 DEF Writing, Wrote
    <3> QED  BY <3>2, <3>3, <3>4 DEF Wrote
  <2> QED  BY <1>0, <2>1, <2>2, <2>3, WritingKept
<1>5. ASSUME NEW t \in Requests, WriteEvent(t)
      PROVE  Writing'
  <2>1. /\ \E label : Goto(t, label)
        /\ \A u \in Requests : u /= t => answer'[u] = answer[u]
        /\ Appends(t, Event(t)) /\ pc[t] = "event" /\ t \in Threads /\ lost' = lost
    BY <1>0, <1>5 DEF WriteEvent, GoesOn, Decide, TypeOK, Threads
  <2>2. Undeleted'
    BY <1>0, <2>1, UndeletedAppends
  <2>3. pc'[t] = "answering" /\ answer'[t] = "200"
    <3>1. t \notin Sessions
      BY TopicRequestsAssumption DEF TopicRequestsAssumption
    <3> QED  BY <1>0, <1>5, <2>1, <3>1 DEF WriteEvent, GoesOn, Decide, Goto, TypeOK
  <2>4. Written(Event(t))' = Written(Event(t)) + 1
    BY <1>0, <2>1, ItemsAre, WrittenAppends
  <2>5. Written(Event(t)) = 0 /\ route[t] /= "create" /\ Event(t) \notin lost'
    BY <2>1 DEF Writing, Wrote
  <2>6. Wrote(t)'
    BY <2>3, <2>4, <2>5 DEF Wrote
  <2> QED  BY <1>0, <2>1, <2>2, <2>6, WritingKept
<1>6. ASSUME NEW t \in Threads, WriteFails(t)
      PROVE  Writing'
  <2>1. /\ \E label : Goto(t, label)
        /\ \A u \in Requests : u /= t => answer'[u] = answer[u]
        /\ FallsShort(t) /\ pc[t] \in {"prologue", "event"} /\ lost' = lost
    BY <1>0, <1>6 DEF WriteFails, Fails, Decide, TypeOK
  <2>2. ASSUME t \in Requests PROVE Wrote(t)'
    <3>1. pc'[t] = "answering" /\ answer'[t] = "500"
      BY <1>0, <1>6, <2>2, TopicRequestsAssumption DEF TopicRequestsAssumption, WriteFails,
         Fails, Decide, Goto, TypeOK
    <3>2. Written(Event(t))' = 0
      BY <1>0, <2>1, <2>2, ShortWrites DEF Writing, Wrote
    <3> QED  BY <3>1, <3>2 DEF Wrote
  <2> QED  BY <1>0, <2>1, <2>2, ShortWrites, WritingKept
<1>9. ASSUME NEW t \in Threads, WriteIsLost(t)
      PROVE  Writing'
  <2>1. /\ \E label : Goto(t, label)
        /\ \A u \in Requests : u /= t => answer'[u] = answer[u]
        /\ FallsShort(t) /\ pc[t] \in {"prologue", "event"}
        /\ pc[t] = "event" => lost' = lost \cup {Event(t)}
        /\ pc[t] = "prologue" => lost' = lost \cup {Prologue(t)}
    BY <1>0, <1>9 DEF WriteIsLost, GoesOn, Decide, TypeOK
  <2>2. ASSUME t \in Requests PROVE Wrote(t)'
    <3>1. t \notin Sessions
      BY <2>2, TopicRequestsAssumption DEF TopicRequestsAssumption
    <3>2. Written(Event(t))' = 0 /\ Event(t) \notin lost
      BY <1>0, <2>1, <2>2, ShortWrites DEF Writing, Wrote
    <3>3. CASE pc[t] = "event"
      <4>1. /\ pc'[t] = "answering" /\ answer'[t] = "200" /\ Event(t) \in lost'
            /\ route[t] /= "create"
        BY <1>0, <1>9, <2>1, <2>2, <3>1, <3>3 DEF WriteIsLost, GoesOn, Decide, Goto, TypeOK,
           Writing, Wrote
      <4> QED  BY <3>2, <4>1 DEF Wrote, Event
    <3>4. CASE pc[t] = "prologue"
      <4>1. \/ pc'[t] = "append" /\ route[t] /= "create"
            \/ pc'[t] = "answering" /\ answer'[t] = "200" /\ route[t] = "create"
        BY <1>0, <1>9, <2>1, <2>2, <3>1, <3>4 DEF WriteIsLost, GoesOn, Decide, Goto, TypeOK
      <4>2. Event(t) \notin lost' /\ Prologue(t) \in lost'
        BY <2>1, <3>2, <3>4, ItemsDiffer
      <4> QED  BY <3>2, <4>1, <4>2 DEF Wrote, Event, Prologue
    <3> QED  BY <2>1, <3>3, <3>4
  <2>3. \E item \in {Prologue(t), Event(t)} : lost' = lost \cup {item}
    BY <2>1
  <2> QED  BY <1>0, <2>1, <2>2, <2>3, ShortWrites, WritingKept
<1>7. ASSUME Delete
      PROVE  Writing'
  <2>1. UNCHANGED <<pc, answer, lost>> /\ deletes' = deletes + 1
    BY <1>7 DEF Delete, requestVars
  <2>2. Undeleted'
    BY <1>0, <2>1 DEF Undeleted, TypeOK
  <2>3. ASSUME NEW r \in Requests PROVE Wrote(r)'
    <3>1. /\ Written(Event(r))' = Written(Event(r))
          /\ Written(Prologue(r))' = Written(Prologue(r))
          /\ Written(Torn(r))' = Written(Torn(r))
      BY <1>0, <1>7, WrittenDelete
    <3> QED  BY <2>1, <3>1 DEF Writing, Wrote
  <2> QED  BY <2>2, <2>3 DEF Writing
<1>8. ASSUME Restart
      PROVE  Writing'
  <2>1. orphans' = {} /\ UNCHANGED <<file, gone, lost, deletes>>
    BY <1>8 DEF Restart
  <2>2. Undeleted'
    BY <1>0, <2>1 DEF Undeleted
  <2>3. ASSUME NEW r \in Requests PROVE Wrote(r)'
    <3>1. \/ pc[r] \in {"new", "done"} /\ pc'[r] = pc[r] /\ answer'[r] = answer[r]
          \/ pc'[r] = "done" /\ answer'[r] = "closed"
      BY <1>0, <1>8 DEF Restart, TypeOK, Threads
    <3> QED  BY <2>1, <3>1, <1>w DEF Writing, Wrote
  <2> QED  BY <2>2, <2>3 DEF Writing
<1> QED
  BY <1>1, <1>2, <1>3, <1>4, <1>5, <1>6, <1>7, <1>8, <1>9 DEF Next, Step, Threads

\* Whatever faults, races and deletions there are: after a 200 to a publish the event has
\* been written once and whole, and is in the topic if none was deleted, unless fclose() lost
\* it; after a 200 to a creation the prologue has been, unless fclose() lost that; after any
\* other answer nothing of the event has, and never more than once after none.
THEOREM AnswersTellWhatHappened == Spec => []AnswersAreTrue
<1>1. Init => TypeOK /\ Writing
  BY TypeInit, WritingInit
<1>2. TypeOK /\ Writing /\ [Next]_vars => (TypeOK /\ Writing)'
  <2> SUFFICES ASSUME TypeOK, Writing, [Next]_vars
               PROVE  (TypeOK /\ Writing)'
    OBVIOUS
  <2>1. TypeOK'
    BY TypeStep
  <2>2. CASE UNCHANGED vars
    BY <2>1, <2>2, WrittenKept DEF vars, Writing, Undeleted, Wrote
  <2>3. CASE Next
    BY <2>1, <2>3, WritingStep
  <2> QED  BY <2>1, <2>2, <2>3
<1>3. TypeOK /\ Writing => AnswersAreTrue
  <2> SUFFICES ASSUME TypeOK, Writing, NEW r \in Requests, pc[r] = "done"
               PROVE  /\ answer[r] = "200" /\ route[r] = "publish" =>
                            IF Event(r) \in lost THEN Written(Event(r)) = 0
                            ELSE /\ Written(Event(r)) = 1
                                 /\ deletes = 0 => Times(Event(r), file) = 1
                      /\ answer[r] = "200" /\ route[r] = "create" =>
                            Prologue(r) \in lost \/ Written(Prologue(r)) = 1
                      /\ answer[r] \notin {"200", "closed"} => Written(Event(r)) = 0
                      /\ answer[r] \in {"400", "409", "413"} =>
                            Written(Prologue(r)) = 0 /\ Written(Torn(r)) = 0
                      /\ answer[r] = "closed" => Written(Event(r)) <= 1
    BY DEF AnswersAreTrue
  <2>1. deletes = 0 => Times(Event(r), gone) = 0
    BY TimesEmpty DEF Writing, Undeleted
  <2>2. Times(Event(r), file) \in Nat
    BY PlacesAreFinite DEF TypeOK
  <2>3. Written(Event(r)) = Times(Event(r), file) + Times(Event(r), gone)
    BY DEF Written
  <2> QED  BY <2>1, <2>2, <2>3 DEF Writing, Wrote
<1> QED  BY <1>1, <1>2, <1>3, PTL DEF Spec
=============================================================================
