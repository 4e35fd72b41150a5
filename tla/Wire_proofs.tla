----------------------------- MODULE Wire_proofs -----------------------------
(***************************************************************************)
(* Lemmas about the operators of Wire and Chunk, for the modules that prove *)
(* theorems about what is built from them.                                 *)
(***************************************************************************)
EXTENDS Wire, Chunk, SequenceTheorems, WellFoundedInduction, TLAPS

-----------------------------------------------------------------------------
(* Induction over sets of numbers *)

\* The library's induction theorems are about operators; these are about sets.
Smaller == {pair \in Nat \X Nat : pair[1] < pair[2]}

\* There is no endless descent.
LEMMA SmallerIsWellFounded == IsWellFoundedOn(Smaller, Nat)
BY NatLessThanWellFounded DEF OpToRel, Smaller

\* A set of natural numbers has a least one.
LEMMA LeastNumber ==
    ASSUME NEW S \in SUBSET Nat, S /= {}
    PROVE  \E m \in S : \A k \in S : m <= k
<1>1. PICK m \in S : \A k \in S : <<k, m>> \notin Smaller
  BY SmallerIsWellFounded, WFMin
<1>2. \A k \in S : k \in Nat /\ ~(k < m)
  BY <1>1 DEF Smaller
<1>3. m \in Nat
  OBVIOUS
<1>4. \A k \in S : m <= k
  BY <1>2, <1>3
<1> QED
  BY <1>4

\* A set that contains 0, and with a number the next, contains them all.
LEMMA SetInduction ==
    ASSUME NEW S, 0 \in S, \A n \in Nat : n \in S => n + 1 \in S
    PROVE  Nat \subseteq S
<1> SUFFICES ASSUME NEW B, B = Nat \ S, B /= {} PROVE FALSE
  OBVIOUS
<1>1. PICK m \in B : \A k \in B : m <= k
  BY LeastNumber
<1> QED
  BY <1>1

-----------------------------------------------------------------------------
(* Lemmas about sequences and chunks *)

\* A SubSeq that ends within the sequence takes its elements from it.
LEMMA SubSeqType ==
    ASSUME NEW S, NEW s \in Seq(S), NEW m \in Nat, m >= 1,
           NEW n \in Int, n <= Len(s)
    PROVE  /\ SubSeq(s, m, n) \in Seq(S)
           /\ Len(SubSeq(s, m, n)) = IF m <= n THEN n - m + 1 ELSE 0
           /\ \A i \in 1..(n - m + 1) : SubSeq(s, m, n)[i] = s[m + i - 1]
<1>1. \A i \in m..n : s[i] \in S
  OBVIOUS
<1>2. m \in Int
  OBVIOUS
<1> QED
  BY <1>1, <1>2, SubSeqProperties

\* Loading, appending to and syncing a chunk gives a chunk.
LEMMA ChunkOperationsType ==
    ASSUME NEW k \in ChunkType(Byte), NEW bytes \in Seq(Byte)
    PROVE  /\ ChunkLoad(bytes) \in ChunkType(Byte)
           /\ ChunkAppend(k, bytes) \in ChunkType(Byte)
           /\ Synced(k) \in ChunkType(Byte)
<1>1. k.data \o bytes \in Seq(Byte)
  BY ConcatProperties DEF ChunkType
<1>2. Len(bytes) \in Nat /\ Len(k.data) \in Nat
  BY DEF ChunkType
<1> QED
  BY <1>1, <1>2 DEF ChunkType, ChunkLoad, ChunkAppend, Synced

\* What is behind the first p elements of a sequence.
LEMMA TailType ==
    ASSUME NEW s \in Seq(Byte), NEW p \in Nat
    PROVE  /\ SubSeq(s, p + 1, Len(s)) \in Seq(Byte)
           /\ Len(SubSeq(s, p + 1, Len(s))) = IF p <= Len(s) THEN Len(s) - p ELSE 0
           /\ \A i \in 1..(Len(s) - p) : SubSeq(s, p + 1, Len(s))[i] = s[p + i]
<1>1. p + 1 \in Nat /\ p + 1 >= 1 /\ Len(s) \in Int
  OBVIOUS
<1>2. /\ SubSeq(s, p + 1, Len(s)) \in Seq(Byte)
      /\ Len(SubSeq(s, p + 1, Len(s))) = IF p + 1 <= Len(s) THEN Len(s) - (p + 1) + 1 ELSE 0
      /\ \A i \in 1..(Len(s) - (p + 1) + 1) : SubSeq(s, p + 1, Len(s))[i] = s[p + 1 + i - 1]
  BY <1>1, SubSeqType
<1>3. \A i \in 1..(Len(s) - p) : p + 1 + i - 1 = p + i /\ i \in 1..(Len(s) - (p + 1) + 1)
  OBVIOUS
<1> QED
  BY <1>2, <1>3

\* The delta is the part of the data behind persisted_size.
LEMMA DeltaType ==
    ASSUME NEW k \in ChunkType(Byte)
    PROVE  /\ Delta(k) \in Seq(Byte)
           /\ Len(Delta(k)) = IF k.persisted_size <= Len(k.data)
                              THEN Len(k.data) - k.persisted_size ELSE 0
           /\ \A i \in 1..(Len(k.data) - k.persisted_size) :
                 Delta(k)[i] = k.data[k.persisted_size + i]
<1>1. k.data \in Seq(Byte) /\ k.persisted_size \in Nat
  BY DEF ChunkType
<1> QED
  BY <1>1, TailType DEF Delta

\* The header is four bytes.
LEMMA EncodeSizeType ==
    ASSUME NEW n \in Nat
    PROVE  EncodeSize(n) \in Seq(Byte) /\ Len(EncodeSize(n)) = HeaderSize
<1>1. /\ n % 256 \in Byte /\ (n \div 256) % 256 \in Byte
      /\ (n \div 65536) % 256 \in Byte /\ (n \div 16777216) % 256 \in Byte
  BY DEF Byte
<1> QED
  BY <1>1 DEF EncodeSize, HeaderSize

\* For the lengths the code accepts, decoding gives back what was encoded, wherever in
\* the data the header stands.
LEMMA DecodeEncode ==
    ASSUME NEW n \in Nat, n < 16777216, NEW data, NEW at \in Nat,
           \A i \in 1..HeaderSize : data[at + i] = EncodeSize(n)[i]
    PROVE  DecodeSize(data, at) = n
<1> DEFINE a == n % 256
           b == (n \div 256) % 256
           c == (n \div 65536) % 256
<1>1. n = a + 256 * b + 65536 * c
  OBVIOUS
<1>2. (n \div 16777216) % 256 = 0
  OBVIOUS
<1>3. data[at + 1] = a /\ data[at + 2] = b /\ data[at + 3] = c /\ data[at + 4] = 0
  BY <1>2 DEF EncodeSize, HeaderSize
<1> QED
  BY <1>1, <1>3 DEF DecodeSize

\* Encoding gives back the bytes that were decoded.
LEMMA EncodeDecode ==
    ASSUME NEW a \in Byte, NEW b \in Byte, NEW c \in Byte, NEW d \in Byte,
           NEW n \in Nat, n = a + 256 * b + 65536 * c + 16777216 * d, n < 16777216
    PROVE  EncodeSize(n) = <<a, b, c, d>>
<1>1. a \in 0..255 /\ b \in 0..255 /\ c \in 0..255 /\ d \in 0..255
  BY DEF Byte
<1>2. d = 0
  BY <1>1
<1>3. n % 256 = a /\ n \div 256 = b + 256 * c
  BY <1>1, <1>2
<1>4. n \div 65536 = c /\ n \div 16777216 = 0
  BY <1>1, <1>2
<1>5. (b + 256 * c) % 256 = b /\ c % 256 = c /\ 0 % 256 = 0
  BY <1>1
<1> QED
  BY <1>2, <1>3, <1>4, <1>5 DEF EncodeSize

\* Four natural numbers at an offset make one.
LEMMA DecodeOfNats ==
    ASSUME NEW s, NEW at, s[at + 1] \in Nat, s[at + 2] \in Nat,
           s[at + 3] \in Nat, s[at + 4] \in Nat
    PROVE  DecodeSize(s, at) \in Nat
BY DEF DecodeSize

\* The four bytes at an offset are a natural number.
LEMMA DecodeSizeType ==
    ASSUME NEW s \in Seq(Byte), NEW at \in Nat, at + HeaderSize <= Len(s)
    PROVE  DecodeSize(s, at) \in Nat
<1>1. Len(s) \in Nat /\ \A i \in 1..Len(s) : s[i] \in Byte
  OBVIOUS
<1>2. /\ at + 1 \in 1..Len(s) /\ at + 2 \in 1..Len(s)
      /\ at + 3 \in 1..Len(s) /\ at + 4 \in 1..Len(s)
  BY <1>1 DEF HeaderSize
<1>3. \A b \in Byte : b \in Nat
  BY DEF Byte
<1>4. s[at + 1] \in Nat /\ s[at + 2] \in Nat /\ s[at + 3] \in Nat /\ s[at + 4] \in Nat
  BY <1>1, <1>2, <1>3
<1> QED
  BY <1>4, DecodeOfNats

\* A frame is its header followed by the event.
LEMMA FrameType ==
    ASSUME NEW e \in Seq(Byte)
    PROVE  /\ Frame(e) \in Seq(Byte)
           /\ Len(Frame(e)) = HeaderSize + Len(e)
           /\ \A i \in 1..HeaderSize : Frame(e)[i] = EncodeSize(Len(e))[i]
           /\ \A i \in 1..Len(e) : Frame(e)[HeaderSize + i] = e[i]
<1>1. EncodeSize(Len(e)) \in Seq(Byte) /\ Len(EncodeSize(Len(e))) = HeaderSize
  BY EncodeSizeType
<1>2. HeaderSize \in Nat /\ Len(e) \in Nat
  BY DEF HeaderSize
<1> QED
  BY <1>1, <1>2, ConcatProperties DEF Frame

\* What a byte sequence holds, a longer one that begins with it holds.
LEMMA HoldsAtExtended ==
    ASSUME NEW s \in Seq(Byte), NEW t \in Seq(Byte), NEW at \in Int, NEW b \in Seq(Byte),
           HoldsAt(s, at, b)
    PROVE  HoldsAt(s \o t, at, b)
<1>1. /\ Len(s \o t) = Len(s) + Len(t)
      /\ \A i \in 1..Len(s) : (s \o t)[i] = s[i]
  BY ConcatProperties
<1>2. \A i \in 1..Len(b) : at + i \in 1..Len(s)
  BY DEF HoldsAt
<1> QED
  BY <1>1, <1>2 DEF HoldsAt

\* What d holds behind its first n elements, g holds at the same distance from its end, if g
\* ends with those elements.
LEMMA HoldsAtMoved ==
    ASSUME NEW d \in Seq(Byte), NEW n \in Nat, NEW u \in Nat, n + u = Len(d),
           NEW a \in Int, a >= n, NEW b \in Seq(Byte), HoldsAt(d, a, b),
           NEW g \in Seq(Byte), Len(g) >= u,
           \A i \in 1..u : g[Len(g) - u + i] = d[n + i]
    PROVE  HoldsAt(g, a + (Len(g) - Len(d)), b)
<1>1. Len(b) \in Nat /\ Len(d) \in Nat /\ Len(g) \in Nat
  OBVIOUS
<1>2. a + Len(b) <= Len(d)
  BY DEF HoldsAt
<1>3. ASSUME NEW i \in 1..Len(b) PROVE g[a + (Len(g) - Len(d)) + i] = b[i]
  <2>1. PICK j \in Int : j = a - n + i
    OBVIOUS
  <2>2. j \in 1..u
    BY <1>1, <1>2, <2>1
  <2>3. g[Len(g) - u + j] = d[n + j]
    BY <2>2
  <2>4. Len(g) - u + j = a + (Len(g) - Len(d)) + i /\ n + j = a + i
    BY <1>1, <2>1
  <2>5. d[a + i] = b[i]
    BY DEF HoldsAt
  <2>6. g[a + (Len(g) - Len(d)) + i] = d[a + i]
    BY <2>3, <2>4
  <2> QED
    BY <2>5, <2>6
<1>4. a + (Len(g) - Len(d)) >= 0 /\ a + (Len(g) - Len(d)) + Len(b) <= Len(g)
  BY <1>1, <1>2
<1> QED
  BY <1>3, <1>4 DEF HoldsAt

\* A concatenation holds its second part behind the first.
LEMMA HoldsAtEnd ==
    ASSUME NEW s \in Seq(Byte), NEW b \in Seq(Byte)
    PROVE  HoldsAt(s \o b, Len(s \o b) - Len(b), b)
<1>1. /\ Len(s \o b) = Len(s) + Len(b)
      /\ \A i \in 1..(Len(s) + Len(b)) : (s \o b)[i] = IF i <= Len(s) THEN s[i] ELSE b[i - Len(s)]
  BY ConcatProperties
<1>2. Len(s) \in Nat /\ Len(b) \in Nat /\ Len(s \o b) - Len(b) = Len(s)
  BY <1>1
<1>3. ASSUME NEW i \in 1..Len(b) PROVE (s \o b)[Len(s) + i] = b[i]
  <2>1. Len(s) + i \in 1..(Len(s) + Len(b)) /\ ~(Len(s) + i <= Len(s)) /\ Len(s) + i - Len(s) = i
    BY <1>2
  <2> QED
    BY <1>1, <2>1
<1> QED
  BY <1>1, <1>2, <1>3 DEF HoldsAt

\* The lengths whose fourth byte is zero.
ThreeBytes == {n \in Nat : n < 16777216}

\* The four bytes that announce a packet and the packet's bytes are a frame.
LEMMA FrameRead ==
    ASSUME NEW d \in Seq(Byte), NEW at \in Nat, NEW p \in Seq(Byte),
           Len(p) \in ThreeBytes, Len(p) = DecodeSize(d, at), at + HeaderSize + Len(p) <= Len(d),
           \A i \in 1..Len(p) : p[i] = d[at + HeaderSize + i]
    PROVE  HoldsAt(d, at, Frame(p))
<1> USE DEF HeaderSize
<1>1. PICK n \in Nat : n = Len(p)
  OBVIOUS
<1>2. PICK l \in Nat : l = Len(d)
  OBVIOUS
<1>3. PICK f \in Seq(Byte) : f = Frame(p)
  <2>1. Frame(p) \in Seq(Byte)
    BY FrameType
  <2> QED  BY <2>1
<1>4. /\ Len(f) = HeaderSize + n
      /\ \A i \in 1..HeaderSize : f[i] = EncodeSize(n)[i]
      /\ \A i \in 1..n : f[HeaderSize + i] = p[i]
  <2>1. /\ Len(Frame(p)) = HeaderSize + Len(p)
        /\ \A i \in 1..HeaderSize : Frame(p)[i] = EncodeSize(Len(p))[i]
        /\ \A i \in 1..Len(p) : Frame(p)[HeaderSize + i] = p[i]
    BY FrameType
  <2> QED  BY <1>1, <1>3, <2>1, Zenon
<1>5. EncodeSize(n) = <<d[at + 1], d[at + 2], d[at + 3], d[at + 4]>>
  <2>1. /\ at + 1 \in 1..Len(d) /\ at + 2 \in 1..Len(d)
        /\ at + 3 \in 1..Len(d) /\ at + 4 \in 1..Len(d)
    BY <1>1, <1>2
  <2>2. /\ d[at + 1] \in Byte /\ d[at + 2] \in Byte
        /\ d[at + 3] \in Byte /\ d[at + 4] \in Byte
    BY <2>1
  <2>3. n = d[at + 1] + 256 * d[at + 2] + 65536 * d[at + 3] + 16777216 * d[at + 4]
    BY <1>1 DEF DecodeSize
  <2>4. n < 16777216
    BY <1>1 DEF ThreeBytes
  <2>5. PICK b1 \in Byte, b2 \in Byte, b3 \in Byte, b4 \in Byte :
            b1 = d[at + 1] /\ b2 = d[at + 2] /\ b3 = d[at + 3] /\ b4 = d[at + 4]
    BY <2>2
  <2>6. n = b1 + 256 * b2 + 65536 * b3 + 16777216 * b4
    BY <2>3, <2>5
  <2>7. EncodeSize(n) = <<b1, b2, b3, b4>>
    BY <2>4, <2>6, EncodeDecode
  <2> QED  BY <2>5, <2>7
<1>6. \A i \in 1..HeaderSize : d[at + i] = f[i]
  <2>1. /\ EncodeSize(n)[1] = d[at + 1] /\ EncodeSize(n)[2] = d[at + 2]
        /\ EncodeSize(n)[3] = d[at + 3] /\ EncodeSize(n)[4] = d[at + 4]
    BY <1>5
  <2>2. f[1] = d[at + 1] /\ f[2] = d[at + 2] /\ f[3] = d[at + 3] /\ f[4] = d[at + 4]
    BY <1>4, <2>1
  <2>3. \A i \in 1..HeaderSize : i = 1 \/ i = 2 \/ i = 3 \/ i = 4
    OBVIOUS
  <2> QED  BY <2>2, <2>3
<1>7. \A i \in 1..n : d[at + HeaderSize + i] = f[HeaderSize + i]
  BY <1>1, <1>4
<1>8. ASSUME NEW i \in 1..Len(f) PROVE d[at + i] = f[i]
  <2>1. CASE i <= HeaderSize
    <3>1. i \in 1..HeaderSize
      BY <1>4, <2>1
    <3> QED  BY <1>6, <3>1
  <2>2. CASE i > HeaderSize
    <3>1. PICK k \in 1..n : k = i - HeaderSize
      BY <1>1, <1>4, <2>2
    <3>2. at + HeaderSize + k = at + i /\ HeaderSize + k = i
      BY <3>1
    <3> QED  BY <1>7, <3>2
  <2> QED  BY <1>1, <1>4, <2>1, <2>2
<1>9. at >= 0 /\ at + Len(f) <= Len(d)
  BY <1>1, <1>2, <1>4
<1> QED  BY <1>3, <1>8, <1>9 DEF HoldsAt
=============================================================================
