-------------------------- MODULE SharedChunk_proofs --------------------------
(***************************************************************************)
(* A theorem about what the mutex of a Chunk protects, for any number of    *)
(* threads that share it and every value of the other constants.           *)
(***************************************************************************)
EXTENDS TopicStore_proofs

USE DEF publisherVars, consumerVars

-----------------------------------------------------------------------------
(* The conditions and the inductive invariant *)

\* Who publishes to the topic does so through one Chunk: a program's threads share its Topic.
OneWritingChunk == \A p, q \in Publishers : chunkOf[p] = chunkOf[q]

\* What is handed to fwrite() reaches the file, at once or in two parts.
WritesSucceed == "short" \notin Faults /\ "lost" \notin Faults

\* The persisted bytes of a Chunk are the file's from an offset on, the beginning unless a
\* load may have emptied the Chunk.
PersistedAt(k, at) ==
    /\ "open" \notin Faults => at = 0
    /\ k.persisted_size <= Len(k.data) /\ at + k.persisted_size <= Len(file)
    /\ \A i \in 1..k.persisted_size : file[at + i] = k.data[i]
Persisted(k) == \E at \in Nat : PersistedAt(k, at)

\* The persisted bytes of the publishers' Chunk are the file's last, or the file is being
\* extended behind them by the one thread that holds the mutex.
InStep(p) ==
    LET k == chunk[chunkOf[p]]
    IN  /\ ~Locked(chunkOf[p]) =>
              \E at \in Nat : PersistedAt(k, at) /\ Len(file) = at + k.persisted_size
        /\ pc[p] = "saving" =>
              /\ written[p] < Len(k.data) - k.persisted_size
              /\ \E at \in Nat :
                    /\ PersistedAt(k, at)
                    /\ Len(file) = at + k.persisted_size + written[p]
                    /\ \A i \in 1..written[p] :
                          file[at + k.persisted_size + i] = k.data[k.persisted_size + i]
              /\ \A q \in Publishers : pc[q] = "saving" => q = p

MutexInv == /\ TypeOK
            /\ \A k \in Chunks : Persisted(chunk[k])
            /\ \A p \in Publishers : InStep(p)

-----------------------------------------------------------------------------
(* Lemmas *)

\* The persisted bytes lie in the file in one piece.
LEMMA PersistedHeld ==
    ASSUME TypeOK, NEW k \in Chunks, Persisted(chunk[k])
    PROVE  /\ chunk[k].persisted_size <= Len(chunk[k].data)
           /\ \E at \in 0..Len(file) :
                 /\ "open" \notin Faults => at = 0
                 /\ HoldsAt(file, at, SubSeq(chunk[k].data, 1, chunk[k].persisted_size))
<1>1. PICK d \in Seq(Byte), n \in Nat : d = chunk[k].data /\ n = chunk[k].persisted_size
  BY DEF TypeOK, ChunkType
<1>a. PICK at \in Nat : PersistedAt(chunk[k], at)
  BY DEF Persisted
<1>2. /\ n <= Len(d) /\ at + n <= Len(file) /\ \A i \in 1..n : file[at + i] = d[i]
      /\ "open" \notin Faults => at = 0
  BY <1>1, <1>a DEF PersistedAt
<1>3. /\ Len(SubSeq(d, 1, n)) = IF 1 <= n THEN n - 1 + 1 ELSE 0
      /\ \A i \in 1..(n - 1 + 1) : SubSeq(d, 1, n)[i] = d[1 + i - 1]
  BY <1>2, SubSeqType
<1>4. Len(SubSeq(d, 1, n)) = n
  BY <1>3
<1>5. ASSUME NEW i \in 1..n PROVE file[at + i] = SubSeq(d, 1, n)[i]
  <2>1. i \in 1..(n - 1 + 1) /\ 1 + i - 1 = i
    OBVIOUS
  <2> QED
    BY <1>2, <1>3, <2>1
<1>6. at \in 0..Len(file)
  BY <1>2 DEF TypeOK
<1>7. HoldsAt(file, at, SubSeq(d, 1, n))
  BY <1>2, <1>4, <1>5 DEF HoldsAt
<1> QED
  BY <1>1, <1>2, <1>6, <1>7, Zenon

\* They stay what they are when the file grows.
LEMMA PersistedExtended ==
    ASSUME TypeOK, NEW k \in ChunkType(Byte), NEW at \in Nat, PersistedAt(k, at),
           NEW t \in Seq(Byte), file' = file \o t
    PROVE  /\ k.persisted_size <= Len(k.data) /\ at + k.persisted_size <= Len(file')
           /\ \A i \in 1..k.persisted_size : file'[at + i] = k.data[i]
<1>1. PICK n \in Nat : n = k.persisted_size
  BY DEF ChunkType
<1>2. file \in Seq(Byte) /\ Len(file) \in Nat /\ Len(t) \in Nat
  BY DEF TypeOK
<1>3. Len(file') = Len(file) + Len(t) /\ \A i \in 1..Len(file) : file'[i] = file[i]
  BY <1>2, ConcatProperties
<1>4. n <= Len(k.data) /\ at + n <= Len(file) /\ \A i \in 1..n : file[at + i] = k.data[i]
  BY <1>1 DEF PersistedAt
<1>5. at + n <= Len(file') /\ \A i \in 1..n : at + i \in 1..Len(file)
  BY <1>2, <1>3, <1>4
<1> QED
  BY <1>1, <1>3, <1>4, <1>5

\* A Chunk that was just loaded is the file, or nothing.
LEMMA PersistedLoaded ==
    ASSUME file \in Seq(Byte), NEW bytes \in {file, << >>}, "open" \notin Faults => bytes = file
    PROVE  \E at \in Nat : /\ PersistedAt(ChunkLoad(bytes), at)
                           /\ Len(file) = at + ChunkLoad(bytes).persisted_size
<1>1. ChunkLoad(bytes).data = bytes /\ ChunkLoad(bytes).persisted_size = Len(bytes)
  BY DEF ChunkLoad
<1>2. Len(file) \in Nat
  OBVIOUS
<1>3. CASE bytes = file
  <2>1. PersistedAt(ChunkLoad(bytes), 0) /\ Len(file) = 0 + Len(bytes)
    BY <1>1, <1>2, <1>3 DEF PersistedAt
  <2> QED
    BY <1>1, <2>1
<1>4. CASE bytes /= file
  <2>1. bytes = << >> /\ Len(bytes) = 0
    BY <1>4
  <2>2. PersistedAt(ChunkLoad(bytes), Len(file)) /\ Len(file) = Len(file) + Len(bytes)
    BY <1>1, <1>2, <1>4, <2>1 DEF PersistedAt
  <2> QED
    BY <1>1, <1>2, <2>2
<1> QED
  BY <1>3, <1>4

\* The mutex of the publishers' Chunk is free when nobody is in a split save.
LEMMA LockFree ==
    ASSUME OneWritingChunk, NEW p \in Publishers
    PROVE  /\ ~Locked(chunkOf[p]) <=> \A q \in Publishers : pc[q] /= "saving"
           /\ ~Locked(chunkOf[p])' <=> \A q \in Publishers : pc'[q] /= "saving"
BY DEF OneWritingChunk, Locked

\* Whatever publishes has the chunk, the data and the sizes the invariant speaks of.
LEMMA PublisherChunk ==
    ASSUME MutexInv, NEW p \in Publishers
    PROVE  /\ TypeOK /\ InStep(p) /\ Persisted(chunk[chunkOf[p]])
           /\ chunkOf[p] \in Chunks /\ DOMAIN chunk = Chunks
           /\ DOMAIN pc = Publishers /\ DOMAIN written = Publishers
           /\ chunk[chunkOf[p]] \in ChunkType(Byte)
           /\ file \in Seq(Byte) /\ Len(file) \in Nat
<1>1. TypeOK /\ InStep(p)
  BY DEF MutexInv
<1>2. chunkOf[p] \in Chunks /\ chunk[chunkOf[p]] \in ChunkType(Byte)
  BY <1>1, ThreadChunkType
<1>3. Persisted(chunk[chunkOf[p]])
  BY <1>2 DEF MutexInv
<1> QED
  BY <1>1, <1>2, <1>3 DEF TypeOK

-----------------------------------------------------------------------------
(* The steps *)

\* A step that writes nothing and leaves every Chunk as it is.
LEMMA ChunksUntouched ==
    ASSUME MutexInv, TypeOK', UNCHANGED <<file, chunk, written>>,
           \A q \in Publishers : pc'[q] = "saving" <=> pc[q] = "saving"
    PROVE  MutexInv'
<1>1. \A k \in Chunks : Persisted(chunk[k])'
  BY DEF MutexInv, Persisted, PersistedAt
<1>2. ASSUME NEW p \in Publishers PROVE InStep(p)'
  <2>1. Locked(chunkOf[p])' <=> Locked(chunkOf[p])
    BY DEF Locked
  <2>2. InStep(p)
    BY DEF MutexInv
  <2> QED
    BY <2>1, <2>2 DEF InStep, PersistedAt
<1> QED
  BY <1>1, <1>2 DEF MutexInv

\* A thread that found the mutex free loads its Chunk, appends to it or only looks.
LEMMA ChunkChanged ==
    ASSUME MutexInv, TypeOK', NEW t \in Publishers \cup Consumers, ~Locked(chunkOf[t]),
           UNCHANGED <<file, written>>,
           \A q \in Publishers : pc'[q] = "saving" <=> pc[q] = "saving",
           \A k \in Chunks : k /= chunkOf[t] => chunk'[k] = chunk[k],
           NEW at \in Nat, PersistedAt(chunk[chunkOf[t]], at)',
           Len(file') = at + chunk'[chunkOf[t]].persisted_size
    PROVE  MutexInv'
<1>1. ASSUME NEW k \in Chunks PROVE Persisted(chunk[k])'
  <2>1. CASE k = chunkOf[t]
    BY <2>1 DEF Persisted
  <2>2. CASE k /= chunkOf[t]
    BY <2>2 DEF MutexInv, Persisted, PersistedAt
  <2> QED
    BY <2>1, <2>2
<1>2. ASSUME NEW p \in Publishers PROVE InStep(p)'
  <2>1. Locked(chunkOf[p])' <=> Locked(chunkOf[p])
    BY DEF Locked
  <2>2. InStep(p)
    BY DEF MutexInv
  <2>3. CASE chunkOf[p] = chunkOf[t]
    <3>1. /\ pc[p] /= "saving" /\ pc'[p] /= "saving"
      BY <2>3 DEF Locked
    <3> QED
      BY <2>3, <3>1 DEF InStep
  <2>4. CASE chunkOf[p] /= chunkOf[t]
    <3>1. chunk'[chunkOf[p]] = chunk[chunkOf[p]]
      BY <2>4, TopicStoreAssumption
    <3> QED
      BY <2>1, <2>2, <3>1 DEF InStep, PersistedAt
  <2> QED
    BY <2>3, <2>4
<1> QED
  BY <1>1, <1>2 DEF MutexInv

\* A thread that found the mutex free loads its Chunk.
LEMMA ChunkLoaded ==
    ASSUME MutexInv, TypeOK', NEW t \in Publishers \cup Consumers, ~Locked(chunkOf[t]),
           UNCHANGED <<file, written>>,
           \A q \in Publishers : pc'[q] = "saving" <=> pc[q] = "saving",
           Loads(t)
    PROVE  MutexInv'
<1>1. PICK bytes \in {file, << >>} : Load(t, bytes)
  BY DEF Loads
<1>2. TypeOK /\ file \in Seq(Byte)
  BY DEF MutexInv, TypeOK
<1>3. /\ chunk'[chunkOf[t]] = ChunkLoad(bytes)
      /\ \A k \in Chunks : k /= chunkOf[t] => chunk'[k] = chunk[k]
      /\ "open" \notin Faults => bytes = file
  BY <1>1, <1>2, LoadType
<1>4. PICK at \in Nat : /\ PersistedAt(ChunkLoad(bytes), at)
                        /\ Len(file) = at + ChunkLoad(bytes).persisted_size
  BY <1>2, <1>3, PersistedLoaded
<1>5. PersistedAt(chunk[chunkOf[t]], at)' /\ Len(file') = at + chunk'[chunkOf[t]].persisted_size
  BY <1>3, <1>4 DEF PersistedAt
<1> QED
  BY <1>3, <1>5, ChunkChanged

\* A publisher that found the mutex free appends bytes.
LEMMA ChunkAppended ==
    ASSUME MutexInv, TypeOK', NEW p \in Publishers, ~Locked(chunkOf[p]),
           UNCHANGED <<file, written>>,
           \A q \in Publishers : pc'[q] = "saving" <=> pc[q] = "saving",
           NEW bytes \in Seq(Byte),
           chunk' = [chunk EXCEPT ![chunkOf[p]] = ChunkAppend(chunk[chunkOf[p]], bytes)]
    PROVE  MutexInv'
<1>0. /\ TypeOK /\ InStep(p) /\ chunkOf[p] \in Chunks /\ DOMAIN chunk = Chunks
      /\ chunk[chunkOf[p]] \in ChunkType(Byte)
  BY PublisherChunk
<1>1. PICK d \in Seq(Byte), n \in Nat :
         d = chunk[chunkOf[p]].data /\ n = chunk[chunkOf[p]].persisted_size
  BY <1>0 DEF ChunkType
<1>2. chunk'[chunkOf[p]].data = d \o bytes /\ chunk'[chunkOf[p]].persisted_size = n
  BY <1>0, <1>1 DEF ChunkAppend, ChunkType
<1>3. \A k \in Chunks : k /= chunkOf[p] => chunk'[k] = chunk[k]
  BY <1>0
<1>4. /\ Len(d \o bytes) = Len(d) + Len(bytes)
      /\ \A i \in 1..Len(d) : (d \o bytes)[i] = d[i]
  BY ConcatProperties
<1>a. PICK at \in Nat : PersistedAt(chunk[chunkOf[p]], at) /\ Len(file) = at + n
  BY <1>0, <1>1 DEF InStep
<1>5. /\ n <= Len(d) /\ at + n <= Len(file) /\ \A i \in 1..n : file[at + i] = d[i]
      /\ "open" \notin Faults => at = 0
  BY <1>1, <1>a DEF PersistedAt
<1>6. n <= Len(d \o bytes) /\ \A i \in 1..n : i \in 1..Len(d)
  BY <1>4, <1>5
<1>7. /\ PersistedAt(chunk[chunkOf[p]], at)'
      /\ Len(file') = at + chunk'[chunkOf[p]].persisted_size
  BY <1>2, <1>4, <1>5, <1>6, <1>a DEF PersistedAt
<1>8. p \in Publishers \cup Consumers
  OBVIOUS
<1> QED
  BY <1>3, <1>7, <1>8, ChunkChanged

\* A save that ends makes the file what the Chunk holds.
LEMMA SaveEnds ==
    ASSUME OneWritingChunk, MutexInv, NEW p \in Publishers, SaveWhole(p) \/ SaveRest(p), TypeOK'
    PROVE  MutexInv'
<1>0. /\ TypeOK /\ InStep(p) /\ Persisted(chunk[chunkOf[p]])
      /\ chunkOf[p] \in Chunks /\ DOMAIN chunk = Chunks /\ DOMAIN pc = Publishers
      /\ chunk[chunkOf[p]] \in ChunkType(Byte) /\ file \in Seq(Byte) /\ Len(file) \in Nat
  BY PublisherChunk
<1>1. PICK k \in ChunkType(Byte), d \in Seq(Byte), n \in Nat :
         k = chunk[chunkOf[p]] /\ d = k.data /\ n = k.persisted_size
  BY <1>0 DEF ChunkType
<1>b. pc[p] /= "saving" => ~Locked(chunkOf[p])
  BY DEF SaveWhole, SaveRest
<1>m. PICK at \in Nat :
         /\ PersistedAt(k, at)
         /\ pc[p] /= "saving" => Len(file) = at + n
         /\ pc[p] = "saving" =>
               /\ Len(file) = at + n + written[p]
               /\ \A i \in 1..written[p] : file[at + n + i] = d[n + i]
  <2>1. CASE pc[p] = "saving"
    BY <1>0, <1>1, <2>1 DEF InStep
  <2>2. CASE pc[p] /= "saving"
    BY <1>0, <1>1, <1>b, <2>2 DEF InStep
  <2> QED
    BY <2>1, <2>2
<1>2. /\ n <= Len(d) /\ at + n <= Len(file) /\ Len(d) \in Nat
      /\ \A i \in 1..n : file[at + i] = d[i]
      /\ "open" \notin Faults => at = 0
  BY <1>1, <1>m DEF PersistedAt
<1>a. PICK u \in Nat : Len(d) = n + u /\ Len(d) - n = u
  <2>1. Len(d) - n \in Nat /\ Len(d) = n + (Len(d) - n)
    BY <1>2
  <2> QED
    BY <2>1
<1>3. /\ Delta(k) \in Seq(Byte) /\ Len(Delta(k)) = u
      /\ \A i \in 1..u : Delta(k)[i] = d[n + i]
  <2>1. /\ Delta(k) \in Seq(Byte)
        /\ Len(Delta(k)) = IF n <= Len(d) THEN Len(d) - n ELSE 0
        /\ \A i \in 1..(Len(d) - n) : Delta(k)[i] = d[n + i]
    BY <1>1, DeltaType
  <2> QED
    BY <1>2, <1>a, <2>1
<1>4. chunk' = [chunk EXCEPT ![chunkOf[p]] = Synced(chunk[chunkOf[p]])]
  BY DEF SaveWhole, SaveRest
<1>5. PICK w \in Nat, v \in Nat, t \in Seq(Byte) :
         /\ Len(file) = at + n + w /\ u = w + v
         /\ \A i \in 1..w : file[at + n + i] = d[n + i]
         /\ file' = file \o t /\ Len(t) = v
         /\ \A i \in 1..v : t[i] = d[n + (w + i)]
  <2>1. CASE SaveWhole(p)
    <3>1. at + n = Len(file)
      BY <1>m, <2>1 DEF SaveWhole
    <3>2. file' = file \o Delta(k)
      BY <1>1, <2>1 DEF SaveWhole
    <3>3. Len(file) = at + n + 0 /\ u = 0 + u
      BY <3>1
    <3>4. \A i \in 1..u : Delta(k)[i] = d[n + (0 + i)]
      <4>1. \A i \in 1..u : 0 + i = i
        OBVIOUS
      <4> QED
        BY <1>3, <4>1
    <3>5. \A i \in 1..0 : file[at + n + i] = d[n + i]
      OBVIOUS
    <3> QED
      BY <1>3, <3>2, <3>3, <3>4, <3>5
  <2>2. CASE SaveRest(p)
    <3>1. pc[p] = "saving" /\ file' = file \o Rest(p, written[p])
      BY <2>2 DEF SaveRest
    <3>2. PICK w \in Nat : /\ w = written[p] /\ w < u /\ Len(file) = at + n + w
                           /\ \A i \in 1..w : file[at + n + i] = d[n + i]
      BY <1>0, <1>1, <1>a, <1>m, <3>1 DEF InStep, TypeOK
    <3>3. PICK v \in Nat : u = w + v /\ v = u - w
      <4>1. u - w \in Nat /\ u = w + (u - w)
        BY <3>2
      <4> QED
        BY <4>1
    <3>4. Rest(p, w) = SubSeq(Delta(k), w + 1, Len(Delta(k)))
      BY <1>1 DEF Rest
    <3>5. /\ Rest(p, w) \in Seq(Byte)
          /\ Len(Rest(p, w)) = IF w <= u THEN u - w ELSE 0
          /\ \A i \in 1..(u - w) : Rest(p, w)[i] = Delta(k)[w + i]
      <4>1. /\ SubSeq(Delta(k), w + 1, Len(Delta(k))) \in Seq(Byte)
            /\ Len(SubSeq(Delta(k), w + 1, Len(Delta(k))))
                  = IF w <= Len(Delta(k)) THEN Len(Delta(k)) - w ELSE 0
            /\ \A i \in 1..(Len(Delta(k)) - w) :
                  SubSeq(Delta(k), w + 1, Len(Delta(k)))[i] = Delta(k)[w + i]
        BY <1>3, TailType
      <4> QED
        BY <1>3, <3>4, <4>1
    <3>6. Len(Rest(p, w)) = v
      BY <3>2, <3>3, <3>5
    <3>7. ASSUME NEW i \in 1..v PROVE Rest(p, w)[i] = d[n + (w + i)]
      <4>1. i \in 1..(u - w) /\ w + i \in 1..u
        BY <3>3
      <4>2. Delta(k)[w + i] = d[n + (w + i)]
        BY <1>3, <4>1
      <4> QED
        BY <3>5, <4>1, <4>2
    <3> QED
      BY <3>1, <3>2, <3>3, <3>5, <3>6, <3>7
  <2> QED
    BY <2>1, <2>2
<1>6. /\ Len(file') = at + Len(d)
      /\ \A i \in 1..Len(d) : file'[at + i] = d[i]
  <2>2. /\ Len(file') = Len(file) + v
        /\ \A i \in 1..(Len(file) + v) :
              file'[i] = IF i <= Len(file) THEN file[i] ELSE t[i - Len(file)]
    <3>1. /\ Len(file \o t) = Len(file) + Len(t)
          /\ \A i \in 1..(Len(file) + Len(t)) :
                (file \o t)[i] = IF i <= Len(file) THEN file[i] ELSE t[i - Len(file)]
      BY <1>0, ConcatProperties
    <3> QED
      BY <1>5, <3>1
  <2>3. Len(file) + v = at + Len(d)
    BY <1>a, <1>5
  <2>4. ASSUME NEW i \in 1..Len(d) PROVE file'[at + i] = d[i]
    <3>0. at + i \in 1..(Len(file) + v)
      BY <1>2, <2>3
    <3>1. CASE i <= n
      <4>1. i \in 1..n /\ at + i <= Len(file)
        BY <1>0, <1>2, <3>1
      <4> QED
        BY <1>2, <2>2, <3>0, <4>1
    <3>2. CASE n < i /\ i <= n + w
      <4>1. PICK j \in 1..w : i = n + j /\ at + i = at + n + j
        <5>1. i - n \in 1..w /\ i = n + (i - n) /\ at + i = at + n + (i - n)
          BY <3>2
        <5> QED
          BY <5>1
      <4>2. at + i <= Len(file)
        BY <1>5, <3>2
      <4>3. file[at + n + j] = d[n + j]
        BY <1>5
      <4> QED
        BY <2>2, <3>0, <4>1, <4>2, <4>3
    <3>3. CASE n + w < i
      <4>1. PICK j \in 1..v : i = n + (w + j)
        <5>1. i - (n + w) \in 1..v /\ i = n + (w + (i - (n + w)))
          BY <1>a, <1>5, <3>3
        <5> QED
          BY <5>1
      <4>2. ~(at + i <= Len(file)) /\ at + i - Len(file) = j
        BY <1>5, <4>1
      <4>3. t[j] = d[n + (w + j)]
        BY <1>5
      <4> QED
        BY <2>2, <3>0, <4>1, <4>2, <4>3
    <3> QED
      BY <3>1, <3>2, <3>3
  <2> QED
    BY <2>2, <2>3, <2>4
<1>7. chunk'[chunkOf[p]].data = d /\ chunk'[chunkOf[p]].persisted_size = Len(d)
  BY <1>0, <1>1, <1>4 DEF Synced, ChunkType
<1>n. PersistedAt(chunk[chunkOf[p]], at)' /\ Len(file') = at + chunk'[chunkOf[p]].persisted_size
  BY <1>2, <1>6, <1>7 DEF PersistedAt
<1>8. ASSUME NEW c \in Chunks PROVE Persisted(chunk[c])'
  <2>1. CASE c = chunkOf[p]
    BY <1>n, <2>1 DEF Persisted
  <2>2. CASE c /= chunkOf[p]
    <3>1. chunk'[c] = chunk[c] /\ chunk[c] \in ChunkType(Byte) /\ Persisted(chunk[c])
      BY <1>0, <1>4, <2>2 DEF MutexInv, TypeOK
    <3>2. PICK a \in Nat : PersistedAt(chunk[c], a)
      BY <3>1 DEF Persisted
    <3>3. PersistedAt(chunk[c], a)'
      <4>1. /\ chunk[c].persisted_size <= Len(chunk[c].data)
            /\ a + chunk[c].persisted_size <= Len(file')
            /\ \A i \in 1..chunk[c].persisted_size : file'[a + i] = chunk[c].data[i]
        BY <1>0, <1>5, <3>1, <3>2, PersistedExtended
      <4>2. "open" \notin Faults => a = 0
        BY <3>2 DEF PersistedAt
      <4> QED
        BY <3>1, <4>1, <4>2 DEF PersistedAt
    <3> QED
      BY <3>3 DEF Persisted
  <2> QED
    BY <2>1, <2>2
<1>9. \A q \in Publishers : pc'[q] /= "saving"
  <2>1. \A q \in Publishers : q /= p => pc[q] /= "saving"
    <3>1. CASE SaveWhole(p)
      BY <3>1, LockFree DEF SaveWhole
    <3>2. CASE SaveRest(p)
      BY <1>0, <3>2 DEF SaveRest, InStep
    <3> QED
      BY <3>1, <3>2
  <2>2. pc'[p] = "idle" /\ \A q \in Publishers : q /= p => pc'[q] = pc[q]
    BY <1>0 DEF SaveWhole, SaveRest, Return
  <2> QED
    BY <2>1, <2>2
<1>10. ASSUME NEW q \in Publishers PROVE InStep(q)'
  <2>1. chunkOf[q] = chunkOf[p]
    BY DEF OneWritingChunk
  <2> QED
    BY <1>9, <1>n, <2>1 DEF InStep
<1> QED
  BY <1>8, <1>10 DEF MutexInv

\* A save that begins extends the file from where the Chunk believes it to end.
LEMMA SaveBegins ==
    ASSUME OneWritingChunk, MutexInv, NEW p \in Publishers, SaveFirstPart(p), TypeOK'
    PROVE  MutexInv'
<1>0. /\ TypeOK /\ InStep(p) /\ Persisted(chunk[chunkOf[p]])
      /\ chunkOf[p] \in Chunks /\ DOMAIN pc = Publishers /\ DOMAIN written = Publishers
      /\ chunk[chunkOf[p]] \in ChunkType(Byte) /\ file \in Seq(Byte) /\ Len(file) \in Nat
  BY PublisherChunk
<1>1. PICK k \in ChunkType(Byte), d \in Seq(Byte), n \in Nat :
         k = chunk[chunkOf[p]] /\ d = k.data /\ n = k.persisted_size
  BY <1>0 DEF ChunkType
<1>a. PICK at \in Nat : PersistedAt(k, at) /\ Len(file) = at + n
  BY <1>0, <1>1 DEF SaveFirstPart, InStep
<1>2. n <= Len(d) /\ Len(d) \in Nat
  BY <1>1, <1>a DEF PersistedAt
<1>3. /\ Delta(k) \in Seq(Byte) /\ Len(Delta(k)) = Len(d) - n
      /\ \A i \in 1..(Len(d) - n) : Delta(k)[i] = d[n + i]
  BY <1>1, <1>2, DeltaType
<1>4. \A q \in Publishers : pc[q] /= "saving"
  BY <1>0, <1>1, LockFree DEF SaveFirstPart, InStep
<1>5. PICK m \in 1..(Len(d) - n - 1) : /\ file' = file \o SubSeq(Delta(k), 1, m)
                                       /\ written'[p] = m
  BY <1>0, <1>1, <1>3 DEF SaveFirstPart
<1>6. PICK t \in Seq(Byte) : /\ t = SubSeq(Delta(k), 1, m) /\ Len(t) = m
                             /\ \A i \in 1..m : t[i] = d[n + i]
  <2>1. 1 \in Nat /\ 1 >= 1 /\ m \in Int /\ m <= Len(Delta(k)) /\ 1 <= m
    BY <1>2, <1>3
  <2>2. /\ SubSeq(Delta(k), 1, m) \in Seq(Byte)
        /\ Len(SubSeq(Delta(k), 1, m)) = IF 1 <= m THEN m - 1 + 1 ELSE 0
        /\ \A i \in 1..(m - 1 + 1) : SubSeq(Delta(k), 1, m)[i] = Delta(k)[1 + i - 1]
    BY <1>3, <2>1, SubSeqType
  <2>3. \A i \in 1..m : 1 + i - 1 = i /\ i \in 1..(m - 1 + 1) /\ i \in 1..(Len(d) - n)
    BY <1>2
  <2>4. Len(SubSeq(Delta(k), 1, m)) = m
    BY <2>1, <2>2
  <2>5. \A i \in 1..m : SubSeq(Delta(k), 1, m)[i] = d[n + i]
    BY <1>3, <2>2, <2>3
  <2> QED
    BY <2>2, <2>4, <2>5
<1>7. /\ Len(file') = at + n + m /\ m \in Nat /\ m < Len(d) - n
      /\ \A i \in 1..(at + n + m) : file'[i] = IF i <= at + n THEN file[i] ELSE t[i - (at + n)]
  <2>1. /\ Len(file \o t) = Len(file) + Len(t)
        /\ \A i \in 1..(Len(file) + Len(t)) :
              (file \o t)[i] = IF i <= Len(file) THEN file[i] ELSE t[i - Len(file)]
    BY <1>0, ConcatProperties
  <2>2. m \in Nat /\ m < Len(d) - n
    BY <1>2
  <2> QED
    BY <1>a, <1>5, <1>6, <2>1, <2>2
<1>8. ASSUME NEW i \in 1..m PROVE file'[at + n + i] = d[n + i]
  <2>1. at + n + i \in 1..(at + n + m) /\ ~(at + n + i <= at + n) /\ at + n + i - (at + n) = i
    BY <1>7
  <2>2. file'[at + n + i] = t[at + n + i - (at + n)]
    BY <1>7, <2>1
  <2>3. t[i] = d[n + i]
    BY <1>6
  <2> QED
    BY <2>1, <2>2, <2>3
<1>9. /\ pc'[p] = "saving" /\ \A q \in Publishers : q /= p => pc'[q] = pc[q]
      /\ UNCHANGED chunk
  BY <1>0 DEF SaveFirstPart
<1>10. \A q \in Publishers : pc'[q] = "saving" => q = p
  BY <1>4, <1>9
<1>11. ASSUME NEW c \in Chunks PROVE Persisted(chunk[c])'
  <2>1. chunk'[c] = chunk[c] /\ chunk[c] \in ChunkType(Byte) /\ Persisted(chunk[c])
    BY <1>0, <1>9 DEF MutexInv, TypeOK
  <2>2. file' = file \o t
    BY <1>5, <1>6
  <2>3. PICK a \in Nat : PersistedAt(chunk[c], a)
    BY <2>1 DEF Persisted
  <2>4. PersistedAt(chunk[c], a)'
    <3>1. PICK j \in ChunkType(Byte) : j = chunk[c] /\ j = chunk'[c]
      BY <2>1
    <3>2. PersistedAt(j, a)
      BY <2>3, <3>1
    <3>3. /\ j.persisted_size <= Len(j.data) /\ a + j.persisted_size <= Len(file')
          /\ \A i \in 1..j.persisted_size : file'[a + i] = j.data[i]
      BY <1>0, <1>6, <2>2, <3>2, PersistedExtended
    <3> QED
      BY <3>1, <3>2, <3>3 DEF PersistedAt
  <2> QED
    BY <2>4 DEF Persisted
<1>12. ASSUME NEW q \in Publishers PROVE InStep(q)'
  <2>1. chunkOf[q] = chunkOf[p]
    BY DEF OneWritingChunk
  <2>2. Locked(chunkOf[q])'
    BY <1>9, <2>1 DEF Locked
  <2>3. chunk'[chunkOf[q]].data = d /\ chunk'[chunkOf[q]].persisted_size = n
    BY <1>1, <1>9, <2>1
  <2>a. PersistedAt(chunk[chunkOf[q]], at)'
    <3>1. file' = file \o t /\ chunk'[chunkOf[q]] = k
      BY <1>1, <1>5, <1>6, <1>9, <2>1
    <3> QED
      BY <1>0, <1>a, <3>1, PersistedExtended DEF PersistedAt
  <2>4. CASE q = p
    BY <1>5, <1>7, <1>8, <1>10, <2>2, <2>3, <2>4, <2>a DEF InStep
  <2>5. CASE q /= p
    BY <1>10, <2>2, <2>5 DEF InStep
  <2> QED
    BY <2>4, <2>5
<1> QED
  BY <1>11, <1>12 DEF MutexInv

\* Every step of a publisher.
LEMMA PublishMutex ==
    ASSUME OneWritingChunk, WritesSucceed, MutexInv, NEW p \in Publishers,
           \/ \E es \in Batches[p] : BeginPublish(p, es)
           \/ Flush(p) \/ GetTopicSize(p)
           \/ PublishStep(p)
           \/ AppendFails(p) \/ SaveFails(p)
    PROVE  MutexInv'
<1>0. /\ TypeOK /\ DOMAIN pc = Publishers /\ DOMAIN written = Publishers
      /\ p \in Publishers \cup Consumers /\ event[p] \in Seq(Byte)
  BY PublisherChunk DEF TypeOK
<1>1. TypeOK'
  BY <1>0, PublishType
<1>2. ASSUME NEW es \in Batches[p], BeginPublish(p, es) PROVE MutexInv'
  <2>1. /\ ~Locked(chunkOf[p]) /\ UNCHANGED <<file, written>>
        /\ \A q \in Publishers : pc'[q] = "saving" <=> pc[q] = "saving"
        /\ Loads(p) \/ chunk' = chunk
    BY <1>0, <1>2 DEF BeginPublish, GetTopic
  <2> QED
    BY <1>0, <1>1, <2>1, ChunkLoaded, ChunksUntouched
<1>3. CASE GetTopicSize(p)
  BY <1>0, <1>1, <1>3, ChunkLoaded DEF GetTopicSize
<1>4. CASE AppendHeader(p)
  <2>1. PICK h \in Seq(Byte) : h = EncodeSize(Len(event[p]))
    BY <1>0, EncodeSizeType
  <2>2. /\ ~Locked(chunkOf[p]) /\ UNCHANGED <<file, written>>
        /\ \A q \in Publishers : pc'[q] = "saving" <=> pc[q] = "saving"
        /\ chunk' = [chunk EXCEPT ![chunkOf[p]] = ChunkAppend(chunk[chunkOf[p]], h)]
    BY <1>0, <1>4, <2>1 DEF AppendHeader
  <2> QED
    BY <1>1, <2>2, ChunkAppended
<1>5. CASE AppendPayload(p)
  <2>1. /\ ~Locked(chunkOf[p]) /\ UNCHANGED <<file, written>>
        /\ \A q \in Publishers : pc'[q] = "saving" <=> pc[q] = "saving"
        /\ chunk' = [chunk EXCEPT ![chunkOf[p]] = ChunkAppend(chunk[chunkOf[p]], event[p])]
    BY <1>0, <1>5 DEF AppendPayload
  <2> QED
    BY <1>0, <1>1, <2>1, ChunkAppended
<1>6. CASE NextElement(p) \/ RefuseElement(p) \/ AppendFails(p) \/ Flush(p)
  <2>1. /\ UNCHANGED <<file, chunk, written>>
        /\ \A q \in Publishers : pc'[q] = "saving" <=> pc[q] = "saving"
    BY <1>0, <1>6 DEF NextElement, RefuseElement, AppendFails, Flush, Return
  <2> QED
    BY <1>1, <2>1, ChunksUntouched
<1>7. CASE SaveWhole(p) \/ SaveRest(p)
  BY <1>1, <1>7, SaveEnds
<1>8. CASE SaveFirstPart(p)
  BY <1>1, <1>8, SaveBegins
<1>9. ~SaveFails(p)
  BY DEF SaveFails, Fault, WritesSucceed
<1> QED
  BY <1>2, <1>3, <1>4, <1>5, <1>6, <1>7, <1>8, <1>9 DEF PublishStep

\* Every step of a consumer, on a Chunk of its own or on the publishers'.
LEMMA ConsumeMutex ==
    ASSUME MutexInv, NEW c \in Consumers, ConsumeStep(c) \/ ConsumeFails(c)
    PROVE  MutexInv'
<1>1. TypeOK /\ TypeOK' /\ c \in Publishers \cup Consumers
  BY ConsumeType DEF MutexInv
<1>2. UNCHANGED <<file, written, pc>>
  BY DEF ConsumeStep, ConsumeFails, Position, BeginConsume, NothingToRead, Reload, ReadHeader,
         NoPacketThere, ReadPayload, PayloadGone, AckPacket, Discard
<1> QED
  BY <1>1, <1>2, ConsumerOnlyLoads, ChunksUntouched, ChunkLoaded

\* A restart loads every Chunk.
LEMMA RestartMutex == MutexInv /\ Restart => MutexInv'
<1> SUFFICES ASSUME MutexInv, Restart PROVE MutexInv'
  OBVIOUS
<1>1. TypeOK' /\ file \in Seq(Byte) /\ Len(file) \in Nat
  BY RestartType DEF MutexInv, TypeOK
<1>2. /\ file' = file /\ \A p \in Publishers : pc'[p] = "idle"
      /\ \A k \in Chunks : chunk'[k] = ChunkLoad(file)
  BY DEF Restart
<1>3. \A k \in Chunks : PersistedAt(chunk[k], 0)' /\ Len(file') = 0 + chunk'[k].persisted_size
  BY <1>1, <1>2 DEF PersistedAt, ChunkLoad
<1>4. ASSUME NEW p \in Publishers PROVE InStep(p)'
  BY <1>2, <1>3, TopicStoreAssumption DEF InStep
<1>5. \A k \in Chunks : Persisted(chunk[k])'
  BY <1>3 DEF Persisted
<1> QED
  BY <1>1, <1>4, <1>5 DEF MutexInv

\* At the start every Chunk is the file.
LEMMA InitMutex == Init => MutexInv
<1> SUFFICES ASSUME Init PROVE MutexInv
  OBVIOUS
<1>1. TypeOK /\ Len(Prologue) \in Nat
  BY InitType DEF Prologue
<1>2. /\ file = Prologue /\ \A p \in Publishers : pc[p] = "idle"
      /\ \A k \in Chunks : chunk[k] = ChunkLoad(Prologue)
  BY DEF Init
<1>3. \A k \in Chunks : PersistedAt(chunk[k], 0) /\ Len(file) = 0 + chunk[k].persisted_size
  BY <1>1, <1>2 DEF PersistedAt, ChunkLoad
<1>4. ASSUME NEW p \in Publishers PROVE InStep(p)
  BY <1>2, <1>3, TopicStoreAssumption DEF InStep
<1>5. \A k \in Chunks : Persisted(chunk[k])
  BY <1>3 DEF Persisted
<1> QED
  BY <1>1, <1>4, <1>5 DEF MutexInv

-----------------------------------------------------------------------------
(* The theorem *)

\* When all publish through one Chunk and writes do not fail, what every Chunk counts as
\* persisted lies in the file in one piece, however many threads append, save in two parts,
\* reload (a load that cannot open the file included), run out of memory or die: the mutex
\* keeps a Chunk synced with the disk.  It lies at the beginning when every load can open
\* the file.
THEOREM ChunksAreSyncedWithDisk ==
    ASSUME OneWritingChunk, WritesSucceed
    PROVE  Spec => []PersistedIsOnDisk
<1>1. Init => MutexInv
  BY InitMutex
<1>2. MutexInv /\ [Next]_vars => MutexInv'
  <2> SUFFICES ASSUME MutexInv, [Next]_vars PROVE MutexInv'
    OBVIOUS
  <2>1. ASSUME NEW p \in Publishers,
               \/ \E es \in Batches[p] : BeginPublish(p, es)
               \/ Flush(p) \/ GetTopicSize(p)
               \/ PublishStep(p)
               \/ AppendFails(p) \/ SaveFails(p)
        PROVE  MutexInv'
    BY <2>1, PublishMutex
  <2>2. ASSUME NEW c \in Consumers, ConsumeStep(c) \/ ConsumeFails(c) PROVE MutexInv'
    BY <2>2, ConsumeMutex
  <2>3. CASE Restart
    BY <2>3, RestartMutex
  <2>4. CASE UNCHANGED vars
    <3>1. TypeOK'
      BY <2>4, NextType DEF MutexInv
    <3> QED
      BY <2>4, <3>1, ChunksUntouched DEF vars
  <2> QED
    BY <2>1, <2>2, <2>3, <2>4 DEF Next
<1>3. MutexInv => PersistedIsOnDisk
  BY PersistedHeld DEF MutexInv, PersistedIsOnDisk
<1> QED
  BY <1>1, <1>2, <1>3, PTL DEF Spec
=============================================================================
