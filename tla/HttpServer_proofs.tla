-------------------------- MODULE HttpServer_proofs --------------------------
(***************************************************************************)
(* Proofs about Buffer and about HttpServer, which reads from one.         *)
(*                                                                         *)
(* A Buffer keeps its indices in order, no assertion of append() fails, it *)
(* grows no more than its user makes it, and it implements ByteQueue.      *)
(*                                                                         *)
(* However requests are cut into reads, HttpServer answers them as they    *)
(* were sent.  The proof follows what has not been parsed, in the buffer   *)
(* and on the way: it is the text from the next request on, or from inside *)
(* its headers or their end, or it is junk whose first line is refused.    *)
(***************************************************************************)
EXTENDS HttpServer, Buffer, SequenceLemmas, FiniteSetTheorems

-----------------------------------------------------------------------------
(* Buffer.                                                                 *)

(* What WellFormed says of each field of a Buffer. *)
LEMMA Fields ==
    ASSUME NEW b, WellFormed(b)
    PROVE  /\ kCheapPrepend \in Nat
           /\ b.size \in Nat /\ b.readerIndex_ \in Nat /\ b.writerIndex_ \in Nat
           /\ b.buffer_ \in [0 .. b.size - 1 -> Byte]
           /\ kCheapPrepend <= b.readerIndex_
           /\ b.readerIndex_ <= b.writerIndex_ /\ b.writerIndex_ <= b.size
<1>1. kCheapPrepend \in Nat
  BY BufferAssumption DEF BufferAssumption
<1>2. QED
  BY <1>1 DEF WellFormed

(* A Buffer with these fields is well formed. *)
LEMMA MadeWellFormed ==
    ASSUME NEW c, NEW bytes, NEW n, NEW r, NEW w, c = Made(bytes, n, r, w),
           n \in Nat, r \in Nat, w \in Nat, bytes \in [0 .. n - 1 -> Byte],
           kCheapPrepend <= r, r <= w, w <= n
    PROVE  /\ WellFormed(c)
           /\ c.buffer_ = bytes /\ c.size = n
           /\ c.readerIndex_ = r /\ c.writerIndex_ = w
           /\ readableBytes(c) = w - r
           /\ writableBytes(c) = n - w
BY DEF WellFormed, Made, readableBytes, writableBytes

(* The readable bytes of a Buffer are a sequence of bytes. *)
LEMMA ContentsSeq ==
    ASSUME NEW b, WellFormed(b)
    PROVE  /\ Contents(b) \in Seq(Byte)
           /\ readableBytes(b) \in Nat
           /\ Len(Contents(b)) = readableBytes(b)
           /\ \A i \in 1 .. readableBytes(b) :
                 Contents(b)[i] = b.buffer_[b.readerIndex_ + i - 1]
<1>1. readableBytes(b) \in Nat
  BY Fields DEF readableBytes
<1>2. \A i \in 1 .. readableBytes(b) : b.buffer_[b.readerIndex_ + i - 1] \in Byte
  <2>1. TAKE i \in 1 .. readableBytes(b)
  <2>2. b.readerIndex_ + i - 1 \in 0 .. b.size - 1
    BY <2>1, Fields DEF readableBytes
  <2>3. QED
    BY <2>2, Fields
<1>3. Contents(b) \in [1 .. readableBytes(b) -> Byte]
  BY <1>2 DEF Contents
<1>4. Contents(b) \in Seq(Byte)
  BY <1>1, <1>3, SeqDef
<1>5. Len(Contents(b)) = readableBytes(b)
  BY <1>1, <1>3, <1>4, LenProperties
<1>6. QED
  BY <1>1, <1>4, <1>5 DEF Contents

(* The Contents of a Buffer are s when its readable bytes are those of s. *)
LEMMA ContentsAre ==
    ASSUME NEW b, WellFormed(b), NEW s \in Seq(Byte), Len(s) = readableBytes(b),
           \A i \in 1 .. Len(s) : b.buffer_[b.readerIndex_ + i - 1] = s[i]
    PROVE  Contents(b) = s
BY ContentsSeq, SeqEqual

(* retrieve() keeps a buffer well formed and drops its first len bytes. *)
LEMMA RetrieveDrops ==
    ASSUME NEW b, WellFormed(b), NEW len \in Nat, len <= readableBytes(b)
    PROVE  /\ WellFormed(retrieve(b, len))
           /\ retrieve(b, len).size = b.size
           /\ readableBytes(retrieve(b, len)) = readableBytes(b) - len
           /\ Contents(retrieve(b, len))
                = SubSeq(Contents(b), len + 1, Len(Contents(b)))
<1> DEFINE c == retrieve(b, len)
           s == SubSeq(Contents(b), len + 1, Len(Contents(b)))
<1>1. /\ WellFormed(c) /\ c.buffer_ = b.buffer_ /\ c.size = b.size
      /\ readableBytes(c) = readableBytes(b) - len
      /\ len < readableBytes(b) => c.readerIndex_ = b.readerIndex_ + len
  <2>1. CASE len < readableBytes(b)
    <3> DEFINE r == b.readerIndex_ + len
    <3>1. c = Made(b.buffer_, b.size, r, b.writerIndex_)
      BY <2>1 DEF retrieve
    <3>2. r \in Nat /\ kCheapPrepend <= r /\ r <= b.writerIndex_
      BY <2>1, Fields DEF readableBytes
    <3>3. /\ WellFormed(c) /\ c.buffer_ = b.buffer_ /\ c.size = b.size
          /\ readableBytes(c) = b.writerIndex_ - r /\ c.readerIndex_ = r
      <4> HIDE DEF r, c
      <4>1. /\ b.size \in Nat /\ b.writerIndex_ \in Nat /\ b.writerIndex_ <= b.size
            /\ b.buffer_ \in [0 .. b.size - 1 -> Byte]
        BY Fields
      <4>2. QED
        BY <3>1, <3>2, <4>1, MadeWellFormed
    <3>4. readableBytes(c) = readableBytes(b) - len
      BY <3>3, Fields DEF readableBytes
    <3>5. QED
      BY <3>3, <3>4
  <2>2. CASE ~ (len < readableBytes(b))
    <3>1. c = Made(b.buffer_, b.size, kCheapPrepend, kCheapPrepend)
      BY <2>2 DEF retrieve, retrieveAll
    <3>2. kCheapPrepend \in Nat /\ kCheapPrepend <= b.size
      BY Fields
    <3>3. /\ WellFormed(c) /\ c.buffer_ = b.buffer_ /\ c.size = b.size
          /\ readableBytes(c) = kCheapPrepend - kCheapPrepend
      BY <3>1, <3>2, Fields, MadeWellFormed
    <3>4. readableBytes(c) = readableBytes(b) - len
      BY <2>2, <3>2, <3>3, ContentsSeq
    <3>5. QED
      BY <2>2, <3>3, <3>4
  <2>3. QED
    BY <2>1, <2>2
<1>2. \A i \in len + 1 .. Len(Contents(b)) : Contents(b)[i] \in Byte
  BY ContentsSeq, ElementOfSeq
<1>3. /\ s \in Seq(Byte) /\ Len(s) = readableBytes(b) - len
      /\ \A i \in 1 .. readableBytes(b) - len : s[i] = Contents(b)[len + i]
  <2>1. len + 1 \in Int /\ Len(Contents(b)) \in Int
    BY ContentsSeq
  <2>2. /\ s \in Seq(Byte)
        /\ Len(s) = (IF len + 1 <= Len(Contents(b))
                     THEN Len(Contents(b)) - (len + 1) + 1 ELSE 0)
        /\ \A i \in 1 .. Len(Contents(b)) - (len + 1) + 1 :
              s[i] = Contents(b)[len + 1 + i - 1]
    BY <1>2, <2>1, SubSeqProperties
  <2>3. /\ Len(Contents(b)) = readableBytes(b) /\ readableBytes(b) \in Nat
        /\ Len(Contents(b)) - (len + 1) + 1 = readableBytes(b) - len
    BY ContentsSeq
  <2>4. Len(s) = readableBytes(b) - len
    BY <2>2, <2>3
  <2>5. ASSUME NEW i \in 1 .. readableBytes(b) - len
        PROVE  s[i] = Contents(b)[len + i]
    <3>1. len + 1 + i - 1 = len + i /\ i \in 1 .. Len(Contents(b)) - (len + 1) + 1
      BY <2>3
    <3>2. QED
      BY <2>2, <3>1
  <2>6. QED
    BY <2>2, <2>4, <2>5
<1>4. \A i \in 1 .. Len(s) : c.buffer_[c.readerIndex_ + i - 1] = s[i]
  <2>1. TAKE i \in 1 .. Len(s)
  <2>2. readableBytes(b) \in Nat /\ len < readableBytes(b)
    BY <1>3, <2>1, ContentsSeq
  <2>3. c.readerIndex_ + i - 1 = b.readerIndex_ + (len + i) - 1
    <3>1. c.readerIndex_ = b.readerIndex_ + len
      BY <1>1, <2>2
    <3>2. b.readerIndex_ \in Nat
      BY Fields
    <3>3. i \in Nat
      BY <2>1, <1>3
    <3> HIDE DEF c, s
    <3>4. QED
      BY <3>1, <3>2, <3>3
  <2>4. len + i \in 1 .. readableBytes(b)
    BY <1>3, <2>1, <2>2
  <2>5. Contents(b)[len + i] = b.buffer_[b.readerIndex_ + (len + i) - 1]
    BY <2>4, ContentsSeq
  <2>6. QED
    BY <1>1, <1>3, <2>1, <2>3, <2>5
<1>5. Contents(c) = s
  BY <1>1, <1>3, <1>4, ContentsAre
<1>6. QED
  BY <1>1, <1>5

(* resize() to more room keeps what is readable. *)
LEMMA ResizeKeeps ==
    ASSUME NEW b, WellFormed(b), NEW n \in Nat, b.size <= n
    PROVE  /\ WellFormed(resize(b, n))
           /\ resize(b, n).size = n
           /\ writableBytes(resize(b, n)) = n - b.writerIndex_
           /\ Contents(resize(b, n)) = Contents(b)
<1> DEFINE bytes == [i \in 0 .. n - 1 |-> IF i < b.size THEN b.buffer_[i] ELSE Zero]
           c == resize(b, n)
<1>1. bytes \in [0 .. n - 1 -> Byte]
  <2>1. Zero \in Byte
    BY BufferAssumption DEF BufferAssumption
  <2>2. QED
    BY <2>1, Fields
<1>2. c = Made(bytes, n, b.readerIndex_, b.writerIndex_)
  BY DEF resize
<1>3. /\ WellFormed(c) /\ c.buffer_ = bytes /\ c.size = n
      /\ c.readerIndex_ = b.readerIndex_
      /\ readableBytes(c) = b.writerIndex_ - b.readerIndex_
      /\ writableBytes(c) = n - b.writerIndex_
  <2> HIDE DEF bytes
  <2>1. /\ b.readerIndex_ \in Nat /\ b.writerIndex_ \in Nat
        /\ kCheapPrepend <= b.readerIndex_ /\ b.readerIndex_ <= b.writerIndex_
        /\ b.writerIndex_ <= n
    BY Fields
  <2>2. QED
    BY <1>1, <1>2, <2>1, MadeWellFormed
<1>4. \A i \in 1 .. Len(Contents(b)) : c.buffer_[c.readerIndex_ + i - 1] = Contents(b)[i]
  <2>1. TAKE i \in 1 .. Len(Contents(b))
  <2>2. /\ i \in 1 .. readableBytes(b)
        /\ Contents(b)[i] = b.buffer_[b.readerIndex_ + i - 1]
    BY <2>1, ContentsSeq
  <2>3. b.readerIndex_ + i - 1 \in 0 .. b.size - 1
    BY <2>2, Fields DEF readableBytes
  <2>4. bytes[b.readerIndex_ + i - 1] = b.buffer_[b.readerIndex_ + i - 1]
    BY <2>3, Fields
  <2>5. QED
    BY <1>3, <2>2, <2>4
<1>5. Contents(c) = Contents(b)
  <2>1. Len(Contents(b)) = readableBytes(c)
    BY <1>3, ContentsSeq DEF readableBytes
  <2>2. QED
    BY <1>3, <1>4, <2>1, ContentsSeq, ContentsAre
<1>6. QED
  BY <1>3, <1>5

(* Moving the readable bytes to the front keeps them, and leaves all the
   room behind them. *)
LEMMA MoveToFrontKeeps ==
    ASSUME NEW b, WellFormed(b)
    PROVE  /\ WellFormed(MoveToFront(b))
           /\ MoveToFront(b).size = b.size
           /\ writableBytes(MoveToFront(b))
                = b.size - kCheapPrepend - readableBytes(b)
           /\ Contents(MoveToFront(b)) = Contents(b)
<1> DEFINE n == readableBytes(b)
           w == kCheapPrepend + n
           c == MoveToFront(b)
<1>1. /\ b.size \in Nat /\ kCheapPrepend \in Nat /\ b.readerIndex_ \in Nat
      /\ n \in Nat /\ w \in Nat /\ kCheapPrepend <= w /\ w <= b.size
      /\ b.readerIndex_ + n <= b.size
      /\ b.buffer_ \in [0 .. b.size - 1 -> Byte]
  BY Fields DEF readableBytes
<1> HIDE DEF n
<1>2. Moved(b) \in [0 .. b.size - 1 -> Byte]
  <2>1. ASSUME NEW i \in 0 .. b.size - 1
        PROVE  Moved(b)[i] \in Byte
    <3>1. CASE i \in kCheapPrepend .. w - 1
      <4>1. b.readerIndex_ + i - kCheapPrepend \in 0 .. b.size - 1
        BY <1>1, <3>1
      <4>2. Moved(b)[i] = b.buffer_[b.readerIndex_ + i - kCheapPrepend]
        BY <1>1, <2>1, <3>1 DEF Moved, n
      <4>3. QED
        BY <1>1, <4>1, <4>2
    <3>2. CASE i \notin kCheapPrepend .. w - 1
      <4>1. Moved(b)[i] = b.buffer_[i]
        BY <1>1, <2>1, <3>2 DEF Moved, n
      <4>2. QED
        BY <1>1, <4>1
    <3>3. QED
      BY <3>1, <3>2
  <2>2. QED
    BY <2>1 DEF Moved
<1>3. c = Made(Moved(b), b.size, kCheapPrepend, w)
  BY DEF MoveToFront, n
<1>4. /\ WellFormed(c) /\ c.buffer_ = Moved(b) /\ c.size = b.size
      /\ c.readerIndex_ = kCheapPrepend
      /\ readableBytes(c) = w - kCheapPrepend
      /\ writableBytes(c) = b.size - w
  <2> HIDE DEF c, w
  <2>1. kCheapPrepend <= kCheapPrepend
    BY <1>1
  <2>2. QED
    BY <1>1, <1>2, <1>3, <2>1, MadeWellFormed
<1>5. Contents(b) \in Seq(Byte) /\ Len(Contents(b)) = n
  BY ContentsSeq DEF n
<1>6. \A i \in 1 .. Len(Contents(b)) : c.buffer_[c.readerIndex_ + i - 1] = Contents(b)[i]
  <2>1. TAKE i \in 1 .. Len(Contents(b))
  <2>2. i \in 1 .. n
    BY <1>5, <2>1
  <2>3. Contents(b)[i] = b.buffer_[b.readerIndex_ + i - 1]
    BY <2>2, ContentsSeq DEF n
  <2> DEFINE j == kCheapPrepend + i - 1
  <2>4. /\ j \in kCheapPrepend .. w - 1
        /\ j \in 0 .. b.size - 1
        /\ b.readerIndex_ + j - kCheapPrepend = b.readerIndex_ + i - 1
    BY <1>1, <2>2
  <2> HIDE DEF j
  <2>5. Moved(b)[j] = b.buffer_[b.readerIndex_ + j - kCheapPrepend]
    BY <1>1, <2>4 DEF Moved, n
  <2>6. QED
    BY <1>4, <2>3, <2>4, <2>5 DEF j
<1>7. Contents(c) = Contents(b)
  <2>1. readableBytes(c) = n
    BY <1>1, <1>4
  <2>2. QED
    BY <1>4, <1>5, <1>6, <2>1, ContentsAre
<1>8. writableBytes(c) = b.size - kCheapPrepend - n
  BY <1>1, <1>4
<1>9. QED
  BY <1>4, <1>7, <1>8 DEF n

(* Writing data where there is room for it puts it behind what is readable. *)
LEMMA WriteAppends ==
    ASSUME NEW b, WellFormed(b), NEW data \in Seq(Byte),
           Len(data) <= writableBytes(b)
    PROVE  /\ WellFormed(Write(b, data))
           /\ Write(b, data).size = b.size
           /\ writableBytes(Write(b, data)) = writableBytes(b) - Len(data)
           /\ Contents(Write(b, data)) = Contents(b) \o data
<1> DEFINE k == Len(data)
           n == readableBytes(b)
           m == b.size
           r == b.readerIndex_
           p == b.writerIndex_
           w == p + k
           c == Write(b, data)
           s == Contents(b) \o data
<1>1. k \in Nat /\ \A i \in 1 .. k : data[i] \in Byte
  BY LenProperties, ElementOfSeq
<1>2. /\ m \in Nat /\ r \in Nat /\ p \in Nat /\ n \in Nat /\ w \in Nat
      /\ p - r = n /\ kCheapPrepend <= r /\ r <= w /\ w <= m
  <2>1. m \in Nat /\ r \in Nat /\ p \in Nat /\ kCheapPrepend \in Nat
    BY Fields
  <2>2. kCheapPrepend <= r /\ r <= p /\ p <= m
    BY Fields
  <2>3. k <= m - p /\ n = p - r
    BY DEF writableBytes, readableBytes
  <2> HIDE DEF k, n, m, r, p
  <2>4. QED
    BY <1>1, <2>1, <2>2, <2>3
<1>3. b.buffer_ \in [0 .. m - 1 -> Byte] /\ m - w = writableBytes(b) - k
  BY <1>1, Fields DEF writableBytes
<1> HIDE DEF k, n, m, r, p
<1>4. \A i \in 0 .. m - 1 :
         Overwritten(b, data)[i] = IF i \in p .. w - 1 THEN data[i - p + 1] ELSE b.buffer_[i]
  <2>1. TAKE i \in 0 .. m - 1
  <2>2. CASE i \in p .. w - 1
    BY <1>2, <2>1, <2>2 DEF Overwritten, k, m, p
  <2>3. CASE i \notin p .. w - 1
    BY <1>2, <2>1, <2>3 DEF Overwritten, k, m, p
  <2>4. QED
    BY <2>2, <2>3
<1>5. Overwritten(b, data) \in [0 .. m - 1 -> Byte]
  <2>1. ASSUME NEW i \in 0 .. m - 1, i \in p .. w - 1
        PROVE  data[i - p + 1] \in Byte
    <3>1. i - p + 1 \in 1 .. k
      BY <1>1, <1>2, <2>1
    <3>2. QED
      BY <1>1, <3>1
  <2>2. \A i \in 0 .. m - 1 : Overwritten(b, data)[i] \in Byte
    BY <1>3, <1>4, <2>1
  <2>3. QED
    BY <2>2 DEF Overwritten, m
<1>6. c = Made(Overwritten(b, data), m, r, w)
  BY DEF Write, k, m, r, p
<1>7. /\ WellFormed(c) /\ c.buffer_ = Overwritten(b, data) /\ c.size = m
      /\ c.readerIndex_ = r
      /\ readableBytes(c) = w - r
      /\ writableBytes(c) = m - w
  <2> HIDE DEF c, w
  <2>1. QED
    BY <1>2, <1>5, <1>6, MadeWellFormed
<1>8. /\ s \in Seq(Byte) /\ Len(s) = n + k
      /\ \A i \in 1 .. n + k : s[i] = IF i <= n THEN Contents(b)[i] ELSE data[i - n]
  <2>1. Contents(b) \in Seq(Byte) /\ Len(Contents(b)) = n
    BY ContentsSeq DEF n
  <2>2. /\ s \in Seq(Byte) /\ Len(s) = Len(Contents(b)) + Len(data)
        /\ \A i \in 1 .. Len(Contents(b)) + Len(data) :
              s[i] = IF i <= Len(Contents(b)) THEN Contents(b)[i]
                                              ELSE data[i - Len(Contents(b))]
    BY <2>1, ConcatProperties
  <2>3. QED
    BY <2>1, <2>2 DEF k
<1>9. \A i \in 1 .. Len(s) : c.buffer_[c.readerIndex_ + i - 1] = s[i]
  <2>1. TAKE i \in 1 .. Len(s)
  <2> DEFINE j == r + i - 1
  <2>2. i \in 1 .. n + k
    BY <1>8, <2>1
  <2>3. c.buffer_[c.readerIndex_ + i - 1] = Overwritten(b, data)[j]
    BY <1>7
  <2>4. CASE i <= n
    <3>1. i \in 1 .. n /\ j \in 0 .. m - 1 /\ j \notin p .. w - 1
      BY <1>1, <1>2, <2>2, <2>4
    <3>2. Overwritten(b, data)[j] = b.buffer_[j]
      BY <1>4, <3>1
    <3>3. Contents(b)[i] = b.buffer_[j]
      BY <3>1, ContentsSeq DEF n, r
    <3>4. s[i] = Contents(b)[i]
      BY <1>8, <2>2, <2>4
    <3>5. QED
      BY <2>3, <3>2, <3>3, <3>4
  <2>5. CASE ~ (i <= n)
    <3>1. j \in 0 .. m - 1 /\ j \in p .. w - 1 /\ j - p + 1 = i - n
      BY <1>1, <1>2, <2>2, <2>5
    <3>2. Overwritten(b, data)[j] = data[j - p + 1]
      BY <1>4, <3>1
    <3>3. s[i] = data[i - n]
      BY <1>8, <2>2, <2>5
    <3>4. QED
      BY <2>3, <3>1, <3>2, <3>3
  <2>6. QED
    BY <2>4, <2>5
<1>10. Contents(c) = s
  <2>1. n + k = w - r
    BY <1>1, <1>2
  <2>2. Len(s) = readableBytes(c)
    BY <1>7, <1>8, <2>1
  <2>3. QED
    BY <1>7, <1>8, <1>9, <2>2, ContentsAre
<1>11. QED
  BY <1>3, <1>7, <1>10 DEF k, m

(* What a buffer may grow to when len bytes are appended to it. *)
Grown(b, len) == IF writableBytes(b) < len /\ TooSmall(b, len)
                 THEN b.writerIndex_ + len ELSE b.size

(* ensureWritableBytes() makes room for len bytes and keeps what is readable;
   the assertions of lines 44 and 109 hold. *)
LEMMA EnsureMakesRoom ==
    ASSUME NEW b, WellFormed(b), NEW len \in Nat
    PROVE  LET c == ensureWritableBytes(b, len) IN
           /\ WellFormed(c)
           /\ writableBytes(c) >= len
           /\ Contents(c) = Contents(b)
           /\ c.size = Grown(b, len)
           /\ writableBytes(b) < len /\ ~TooSmall(b, len)
                 => kCheapPrepend < b.readerIndex_
<1> DEFINE c == ensureWritableBytes(b, len)
<1>1. CASE ~ (writableBytes(b) < len)
  <2>1. c = b
    BY <1>1 DEF ensureWritableBytes
  <2>2. writableBytes(b) >= len
    BY <1>1, Fields DEF writableBytes
  <2>3. QED
    BY <1>1, <2>1, <2>2 DEF Grown
<1>2. CASE writableBytes(b) < len /\ TooSmall(b, len)
  <2>1. c = resize(b, b.writerIndex_ + len)
    BY <1>2 DEF ensureWritableBytes, makeSpace
  <2>2. /\ b.writerIndex_ + len \in Nat /\ b.size <= b.writerIndex_ + len
        /\ b.writerIndex_ + len - b.writerIndex_ = len
    BY <1>2, Fields DEF writableBytes
  <2>3. /\ WellFormed(c) /\ c.size = b.writerIndex_ + len
        /\ writableBytes(c) = len /\ Contents(c) = Contents(b)
    <3> DEFINE n == b.writerIndex_ + len
    <3>1. c = resize(b, n)
      BY <2>1
    <3>2. n \in Nat /\ b.size <= n
      BY <2>2
    <3>4. n - b.writerIndex_ = len
      BY Fields
    <3> HIDE DEF n, c
    <3>3. /\ WellFormed(c) /\ c.size = n
          /\ writableBytes(c) = len /\ Contents(c) = Contents(b)
      BY <3>1, <3>2, <3>4, ResizeKeeps
    <3>5. QED
      BY <3>3 DEF n
  <2>4. QED
    BY <1>2, <2>3 DEF Grown
<1>3. CASE writableBytes(b) < len /\ ~ TooSmall(b, len)
  <2>1. c = MoveToFront(b)
    BY <1>3 DEF ensureWritableBytes, makeSpace
  <2>2. /\ WellFormed(c) /\ c.size = b.size /\ Contents(c) = Contents(b)
        /\ writableBytes(c) = b.size - kCheapPrepend - readableBytes(b)
    BY <2>1, MoveToFrontKeeps
  <2>3. b.size - kCheapPrepend - readableBytes(b) >= len
    BY <1>3, Fields DEF TooSmall, writableBytes, prependableBytes, readableBytes
  <2>4. kCheapPrepend < b.readerIndex_
    BY <1>3, Fields DEF TooSmall, writableBytes, prependableBytes
  <2>5. c.size = Grown(b, len)
    BY <1>3, <2>2 DEF Grown
  <2>6. QED
    BY <2>2, <2>3, <2>4, <2>5
<1>4. QED
  BY <1>1, <1>2, <1>3

(* append() puts data behind what is readable. *)
LEMMA AppendAppends ==
    ASSUME NEW b, WellFormed(b), NEW data \in Seq(Byte)
    PROVE  /\ WellFormed(append(b, data))
           /\ append(b, data).size = Grown(b, Len(data))
           /\ Contents(append(b, data)) = Contents(b) \o data
<1> DEFINE c == ensureWritableBytes(b, Len(data))
<1>1. Len(data) \in Nat
  BY LenProperties
<1>2. /\ WellFormed(c) /\ writableBytes(c) >= Len(data)
      /\ Contents(c) = Contents(b) /\ c.size = Grown(b, Len(data))
  BY <1>1, EnsureMakesRoom
<1>3. Len(data) <= writableBytes(c)
  BY <1>1, <1>2, Fields DEF writableBytes
<1> HIDE DEF c
<1>4. /\ WellFormed(Write(c, data)) /\ Write(c, data).size = c.size
      /\ Contents(Write(c, data)) = Contents(c) \o data
  BY <1>2, <1>3, WriteAppends
<1>5. append(b, data) = Write(c, data)
  BY DEF append, c
<1>6. QED
  BY <1>2, <1>4, <1>5

(* The two halves of data that readv() fills make data again. *)
LEMMA SplitData ==
    ASSUME NEW data \in Seq(Byte), NEW n \in Nat, n < Len(data)
    PROVE  /\ SubSeq(data, 1, n) \in Seq(Byte) /\ Len(SubSeq(data, 1, n)) = n
           /\ SubSeq(data, n + 1, Len(data)) \in Seq(Byte)
           /\ Len(SubSeq(data, n + 1, Len(data))) = Len(data) - n
           /\ SubSeq(data, 1, n) \o SubSeq(data, n + 1, Len(data)) = data
<1> DEFINE k == Len(data)
           s == SubSeq(data, 1, n)
           t == SubSeq(data, n + 1, k)
<1>1. k \in Nat /\ \A i \in 1 .. k : data[i] \in Byte
  BY LenProperties, ElementOfSeq
<1>2. n < k
  OBVIOUS
<1> HIDE DEF k
<1>3. s \in Seq(Byte) /\ Len(s) = n
  <2>1. \A i \in 1 .. n : data[i] \in Byte
    BY <1>1, <1>2
  <2>2. /\ s \in Seq(Byte) /\ Len(s) = IF 1 <= n THEN n - 1 + 1 ELSE 0
    BY <2>1, SubSeqProperties
  <2>3. QED
    BY <2>2
<1>4. t \in Seq(Byte) /\ Len(t) = k - n
  <2>1. \A i \in n + 1 .. k : data[i] \in Byte
    BY <1>1, <1>2
  <2>2. /\ t \in Seq(Byte) /\ Len(t) = IF n + 1 <= k THEN k - (n + 1) + 1 ELSE 0
    <3>1. n + 1 \in Int /\ k \in Int
      BY <1>1
    <3>2. QED
      BY <2>1, <3>1, SubSeqProperties
  <2>3. QED
    BY <1>1, <1>2, <2>2
<1>5. s \o t = data
  <2>1. /\ 1 \in 1 .. Len(data) + 1 /\ n \in 1 - 1 .. Len(data)
        /\ Len(data) \in n .. Len(data)
    BY <1>1, <1>2 DEF k
  <2>2. s \o t = SubSeq(data, 1, Len(data))
    BY <2>1, ConcatAdjacentSubSeq DEF k
  <2>3. QED
    BY <2>2, SubSeqFull
<1>6. QED
  BY <1>3, <1>4, <1>5 DEF k

(* Data behind data behind the contents. *)
LEMMA Regroup ==
    ASSUME NEW u \in Seq(Byte), NEW s \in Seq(Byte), NEW t \in Seq(Byte)
    PROVE  (u \o s) \o t = u \o (s \o t)
BY ConcatAssociative

(* Growing happens only while what is readable and what is added do not fit
   in less: Grown stays within twice a bound on both together. *)
LEMMA GrownBounded ==
    ASSUME NEW b, WellFormed(b), NEW len \in Nat,
           readableBytes(b) + len <= MaxReadable
    PROVE  \/ Grown(b, len) = b.size
           \/ Grown(b, len) <= kCheapPrepend + 2 * MaxReadable
<1>1. MaxReadable \in Nat
  BY BufferAssumption DEF BufferAssumption
<1>2. CASE writableBytes(b) < len /\ TooSmall(b, len)
  <2> DEFINE m == b.size
             r == b.readerIndex_
             p == b.writerIndex_
  <2>1. /\ m \in Nat /\ r \in Nat /\ p \in Nat /\ kCheapPrepend \in Nat
        /\ r <= p /\ p <= m
    BY Fields
  <2>2. (m - p) + r < len + kCheapPrepend
    BY <1>2 DEF TooSmall, writableBytes, prependableBytes
  <2>3. (p - r) + len <= MaxReadable
    BY DEF readableBytes
  <2>4. Grown(b, len) = p + len
    BY <1>2 DEF Grown
  <2> HIDE DEF m, r, p
  <2>5. p + len <= kCheapPrepend + 2 * MaxReadable
    BY <1>1, <2>1, <2>2, <2>3
  <2>6. QED
    BY <2>4, <2>5
<1>3. CASE ~ (writableBytes(b) < len /\ TooSmall(b, len))
  BY <1>3 DEF Grown
<1>4. QED
  BY <1>2, <1>3

(* readFd() puts what it read behind what was readable, whether it fitted or
   went through extrabuf. *)
LEMMA ReadFdAppends ==
    ASSUME NEW b, WellFormed(b), NEW data \in Seq(Byte),
           readableBytes(b) + Len(data) <= MaxReadable
    PROVE  /\ WellFormed(readFd(b, data))
           /\ Contents(readFd(b, data)) = Contents(b) \o data
           /\ \/ readFd(b, data).size = b.size
              \/ readFd(b, data).size <= kCheapPrepend + 2 * MaxReadable
<1> DEFINE n == writableBytes(b)
<1>1. n \in Nat /\ Len(data) \in Nat
  BY Fields, LenProperties DEF writableBytes
<1>2. CASE Len(data) <= n
  <2>1. readFd(b, data) = Write(b, data)
    BY <1>2 DEF readFd
  <2>2. QED
    BY <1>2, <2>1, WriteAppends
<1>3. CASE ~ (Len(data) <= n)
  <2> DEFINE s == SubSeq(data, 1, n)
             t == SubSeq(data, n + 1, Len(data))
             c == Write(b, s)
  <2>1. n < Len(data)
    BY <1>1, <1>3
  <2>2. readFd(b, data) = append(c, t)
    BY <1>3 DEF readFd
  <2> HIDE DEF n
  <2>3. /\ s \in Seq(Byte) /\ t \in Seq(Byte) /\ s \o t = data
        /\ Len(s) = n /\ Len(t) = Len(data) - n
    BY <1>1, <2>1, SplitData
  <2> HIDE DEF s, t
  <2>4. Len(s) <= writableBytes(b)
    BY <1>1, <2>3 DEF n
  <2>5. /\ WellFormed(c) /\ c.size = b.size /\ Contents(c) = Contents(b) \o s
    BY <2>3, <2>4, WriteAppends
  <2> HIDE DEF c
  <2>6. /\ WellFormed(append(c, t)) /\ append(c, t).size = Grown(c, Len(t))
        /\ Contents(append(c, t)) = Contents(c) \o t
    BY <2>3, <2>5, AppendAppends
  <2>7. (Contents(b) \o s) \o t = Contents(b) \o (s \o t)
    <3>1. Contents(b) \in Seq(Byte)
      BY ContentsSeq
    <3>2. s \in Seq(Byte) /\ t \in Seq(Byte)
      BY <2>3
    <3>3. QED
      BY <3>1, <3>2, Regroup, Zenon
  <2>8. readableBytes(c) + Len(t) <= MaxReadable
    <3>1. /\ Contents(b) \in Seq(Byte) /\ Len(Contents(b)) = readableBytes(b)
          /\ readableBytes(b) \in Nat
      BY ContentsSeq
    <3>2. Len(Contents(c)) = readableBytes(c)
      BY <2>5, ContentsSeq
    <3>3. Len(Contents(b) \o s) = Len(Contents(b)) + Len(s)
      BY <2>3, <3>1, ConcatProperties
    <3>4. readableBytes(c) + Len(t) = readableBytes(b) + Len(data)
      BY <1>1, <2>3, <2>5, <3>1, <3>2, <3>3
    <3>5. QED
      BY <3>4
  <2>9. Len(t) \in Nat
    BY <2>3, LenProperties
  <2>10. \/ Grown(c, Len(t)) = c.size
         \/ Grown(c, Len(t)) <= kCheapPrepend + 2 * MaxReadable
    BY <2>5, <2>8, <2>9, GrownBounded
  <2>11. QED
    BY <2>2, <2>3, <2>5, <2>6, <2>7, <2>10
<1>4. QED
  BY <1>2, <1>3

-----------------------------------------------------------------------------
(* BufferInv with the bound its user keeps, which GrowthBounded rests on. *)
BufferIInv ==
    /\ BufferInv
    /\ readableBytes(buffer) <= MaxReadable
    /\ GrowthBounded

(* A new buffer is well formed and empty (the constructor's assertions). *)
LEMMA BufferInitInv ==
    ASSUME BufferInit
    PROVE  BufferIInv /\ Contents(buffer) = <<>>
<1> DEFINE m == kCheapPrepend + initialSize
<1>1. /\ kCheapPrepend \in Nat /\ initialSize \in Nat /\ MaxReadable \in Nat
      /\ Zero \in Byte
  BY BufferAssumption DEF BufferAssumption
<1>2. m \in Nat /\ kCheapPrepend <= kCheapPrepend /\ kCheapPrepend <= m
  BY <1>1
<1>3. EmptyOf(m) \in [0 .. m - 1 -> Byte]
  BY <1>1 DEF EmptyOf
<1>4. buffer = Made(EmptyOf(m), m, kCheapPrepend, kCheapPrepend)
  BY DEF BufferInit
<1>5. /\ WellFormed(buffer) /\ buffer.size = m
      /\ readableBytes(buffer) = kCheapPrepend - kCheapPrepend
  <2> HIDE DEF m
  <2>1. QED
    BY <1>1, <1>2, <1>3, <1>4, MadeWellFormed
<1>6. readableBytes(buffer) = 0
  BY <1>1, <1>5
<1>7. Contents(buffer) = <<>>
  <2>1. Contents(buffer) \in Seq(Byte) /\ Len(Contents(buffer)) = 0
    BY <1>5, <1>6, ContentsSeq
  <2>2. QED
    BY <2>1, EmptySeq
<1>8. QED
  BY <1>1, <1>5, <1>6, <1>7 DEF BufferIInv, BufferInv, GrowthBounded

(* What a step does to the contents: it puts or takes, and BufferIInv is kept. *)
LEMMA BufferStep ==
    ASSUME BufferIInv, BufferNext
    PROVE  BufferIInv' /\ Queue!Next
<1>1. /\ WellFormed(buffer) /\ readableBytes(buffer) <= MaxReadable
      /\ MaxReadable \in Nat /\ kCheapPrepend \in Nat /\ initialSize \in Nat
      /\ Contents(buffer) \in Seq(Byte)
      /\ Len(Contents(buffer)) = readableBytes(buffer)
      /\ readableBytes(buffer) \in Nat
  BY BufferAssumption, ContentsSeq DEF BufferAssumption, BufferIInv, BufferInv
<1>2. ASSUME NEW data \in Data,
             readableBytes(buffer) + Len(data) <= MaxReadable,
             WellFormed(buffer'),
             Contents(buffer)' = Contents(buffer) \o data,
             \/ buffer.size' = buffer.size
             \/ buffer.size' <= kCheapPrepend + 2 * MaxReadable
      PROVE  BufferIInv' /\ Queue!Next
  <2>1. data \in Seq(Byte)
    BY BufferAssumption DEF BufferAssumption
  <2>2. Len(Contents(buffer)') = readableBytes(buffer) + Len(data)
    BY <1>1, <1>2, <2>1, ConcatProperties
  <2>3. Len(Contents(buffer)') = readableBytes(buffer)'
    BY <1>2, ContentsSeq DEF Contents, readableBytes
  <2>4. GrowthBounded'
    BY <1>2 DEF BufferIInv, GrowthBounded
  <2>5. BufferIInv'
    BY <1>2, <2>2, <2>3, <2>4 DEF BufferIInv, BufferInv, WellFormed
  <2>6. Queue!Next
    BY <1>2 DEF Queue!Next, Queue!Put
  <2>7. QED
    BY <2>5, <2>6
<1>3. ASSUME NEW data \in Data, Append_(data)
      PROVE  BufferIInv' /\ Queue!Next
  <2>1. data \in Seq(Byte) /\ Len(data) \in Nat
    BY BufferAssumption, LenProperties DEF BufferAssumption
  <2>2. /\ readableBytes(buffer) + Len(data) <= MaxReadable
        /\ buffer' = append(buffer, data)
    BY <1>3 DEF Append_
  <2>3. /\ WellFormed(buffer') /\ buffer'.size = Grown(buffer, Len(data))
        /\ Contents(buffer') = Contents(buffer) \o data
    BY <1>1, <2>1, <2>2, AppendAppends
  <2>4. \/ buffer'.size = buffer.size
        \/ buffer'.size <= kCheapPrepend + 2 * MaxReadable
    BY <1>1, <2>1, <2>2, <2>3, GrownBounded
  <2>5. QED
    BY <1>2, <2>2, <2>3, <2>4
<1>4. ASSUME NEW data \in Data, ReadFd(data)
      PROVE  BufferIInv' /\ Queue!Next
  <2>1. data \in Seq(Byte)
    BY BufferAssumption DEF BufferAssumption
  <2>2. /\ readableBytes(buffer) + Len(data) <= MaxReadable
        /\ buffer' = readFd(buffer, data)
    BY <1>4 DEF ReadFd
  <2>3. /\ WellFormed(buffer') /\ Contents(buffer') = Contents(buffer) \o data
        /\ \/ buffer'.size = buffer.size
           \/ buffer'.size <= kCheapPrepend + 2 * MaxReadable
    BY <1>1, <2>1, <2>2, ReadFdAppends
  <2>4. QED
    BY <1>2, <2>2, <2>3
<1>5. ASSUME NEW len \in 0 .. MaxReadable, Retrieve(len)
      PROVE  BufferIInv' /\ Queue!Next
  <2>1. len \in Nat /\ len <= readableBytes(buffer) /\ buffer' = retrieve(buffer, len)
    BY <1>1, <1>5 DEF Retrieve
  <2>2. /\ WellFormed(buffer') /\ buffer'.size = buffer.size
        /\ Contents(buffer')
             = SubSeq(Contents(buffer), len + 1, Len(Contents(buffer)))
        /\ readableBytes(buffer') = readableBytes(buffer) - len
    BY <1>1, <2>1, RetrieveDrops
  <2>3. readableBytes(buffer') <= MaxReadable
    BY <1>1, <2>1, <2>2
  <2>4. GrowthBounded'
    BY <2>2 DEF BufferIInv, GrowthBounded
  <2>5. BufferIInv'
    BY <2>2, <2>3, <2>4 DEF BufferIInv, BufferInv, readableBytes, WellFormed
  <2>6. Queue!Take(len)
    BY <2>2 DEF Queue!Take, Contents, readableBytes
  <2>7. len \in 0 .. Len(Contents(buffer))
    BY <1>1, <2>1
  <2>8. Queue!Next
    BY <2>6, <2>7 DEF Queue!Next
  <2>9. QED
    BY <2>5, <2>8
<1>6. QED
  BY <1>3, <1>4, <1>5 DEF BufferNext

(* BufferIInv holds in every state. *)
LEMMA BufferIInvHolds == BufferSpec => []BufferIInv
<1>1. BufferIInv /\ [BufferNext]_buffer => BufferIInv'
  <2>1. BufferIInv /\ UNCHANGED buffer => BufferIInv'
    BY DEF BufferIInv, BufferInv, WellFormed, GrowthBounded, readableBytes
  <2>2. QED
    BY <2>1, BufferStep
<1>2. QED
  BY <1>1, BufferInitInv, PTL DEF BufferSpec

(* The indices stay in order and inside the buffer whatever is appended,
   read and retrieved (Buffer.cpp lines 13-20, 62-89 and 104-117). *)
THEOREM BufferInvHolds == BufferSpec => []BufferInv
<1>1. BufferIInv => BufferInv
  BY DEF BufferIInv
<1>2. QED
  BY <1>1, BufferIInvHolds, PTL

(* No assertion of ensureWritableBytes() and makeSpace() ever fails (Buffer.cpp
   lines 44 and 109). *)
THEOREM AssertionsNeverFail == BufferSpec => []AssertionsHold
<1>1. BufferIInv => AssertionsHold
  <2>1. SUFFICES ASSUME BufferIInv, NEW data \in Data
        PROVE  LET len == Len(data) IN
               /\ writableBytes(buffer) < len /\ ~TooSmall(buffer, len)
                     => kCheapPrepend < buffer.readerIndex_
               /\ writableBytes(ensureWritableBytes(buffer, len)) >= len
    BY DEF AssertionsHold
  <2>2. Len(data) \in Nat
    BY BufferAssumption, LenProperties DEF BufferAssumption
  <2>3. WellFormed(buffer)
    BY <2>1 DEF BufferIInv, BufferInv
  <2>4. QED
    BY <2>2, <2>3, EnsureMakesRoom
<1>2. QED
  BY <1>1, BufferIInvHolds, PTL

(* A user that leaves at most MaxReadable bytes never makes the buffer grow
   past twice that (Buffer.cpp line 106). *)
THEOREM GrowthIsBounded == BufferSpec => []GrowthBounded
<1>1. BufferIInv => GrowthBounded
  BY DEF BufferIInv
<1>2. QED
  BY <1>1, BufferIInvHolds, PTL

(* A Buffer implements ByteQueue: the bytes come out as they went in. *)
THEOREM BufferImplementsByteQueue == BufferSpec => BytesInOrder
<1>1. BufferInit => Queue!Init
  BY BufferInitInv DEF Queue!Init
<1>2. BufferIInv /\ [BufferNext]_buffer => [Queue!Next]_(Contents(buffer))
  <2>1. UNCHANGED buffer => UNCHANGED Contents(buffer)
    BY DEF Contents, readableBytes
  <2>2. QED
    BY <2>1, BufferStep
<1>3. QED
  BY <1>1, <1>2, BufferIInvHolds, PTL DEF BufferSpec, BytesInOrder, Queue!Spec

-----------------------------------------------------------------------------
(* HttpServer: what its proof is about.                                    *)

Text == Seq(Word)

(* The join of two texts, under a name so that a proof need not look into it. *)
Cat(a, b) == a \o b

LineEnd == <<CR, LF>>

(* The requests as they are sent, and the text from the k-th on. *)
Encoded   == [i \in DOMAIN script |-> Encode(script[i])]
Coming(k) == FlattenSeq(SubSeq(Encoded, k, Len(script)))

(* The header lines of r, and the text of r behind the first j of them. *)
HeaderLines(r) ==
    [i \in DOMAIN r.headers |->
        HeaderLine(r.headers[i][1], r.headers[i][2]) \o LineEnd]
Headers(r, j) == FlattenSeq(SubSeq(HeaderLines(r), j + 1, Len(r.headers)))
Behind(r, j)  == Cat(Headers(r, j), Cat(LineEnd, r.body))

(* What has not been parsed. *)
Left == Cat(inputBuffer_, unread)

(* The first line of text, if it has one, is no request line. *)
Junk(text) == ~LooksLikeRequest(text)

(* request has what r says up to its j-th header line. *)
PartOf(request, r, j) ==
    /\ request = [method |-> r.method, path |-> <<r.path>>, query |-> r.query,
                  version |-> r.version, headers |-> request.headers]
    /\ request.headers = [f \in DOMAIN request.headers |-> request.headers[f]]
    /\ DOMAIN request.headers = {<<r.headers[i][1]>> : i \in 1 .. j}
    /\ \A i \in 1 .. j : request.headers[<<r.headers[i][1]>>] = <<r.headers[i][2]>>

(* The number of the request that is answered next. *)
turn == Len(answers) + 1

(* No text was left over before it. *)
Clean == ~dropped /\ \A r \in Earlier(turn) : r.body = <<>>

Starting == pc \in {"idle", "parse"} /\ (pc = "parse" => state_ = "kExpectRequestLine")

AtRequest == Starting /\ Clean /\ turn <= Len(script) + 1 /\ Left = Coming(turn)

InRequest == Clean /\ turn <= Len(script) /\ Good(script[turn])

InHeaders ==
    /\ pc = "parse" /\ state_ = "kExpectHeaders" /\ InRequest
    /\ \E j \in 0 .. Len(script[turn].headers) :
          /\ PartOf(request_, script[turn], j)
          /\ Left = Cat(Behind(script[turn], j), Coming(turn + 1))

AtEnd ==
    /\ pc = "onRequest" /\ InRequest
    /\ request_ = Read(script[turn])
    /\ Left = Cat(script[turn].body, Coming(turn + 1))

AtJunk == Starting /\ ~Clean /\ Junk(Left)

(* The connection may be answering what was sent as a body. *)
Astray == \E r \in Earlier(turn) : LooksLikeRequest(r.body)

HttpTypes ==
    /\ script \in Seq(Request) /\ httpCallback_ \in {"default", "page"}
    /\ connState \in {"kConnected", "kDisconnecting"}
    /\ \E Answer : answers \in Seq(Answer) /\ wire \in Seq(Answer)
    /\ dropped \in BOOLEAN

Parsing == /\ inputBuffer_ \in Text /\ unread \in Text
           /\ AtRequest \/ InHeaders \/ AtEnd \/ AtJunk

ParseInv == connState = "kConnected" => Parsing \/ Astray

-----------------------------------------------------------------------------
(* Text, and the places that the parser looks for.                         *)

(* A word is in the first sequence or in the second. *)
LEMMA JoinedWords ==
  ASSUME NEW a \in Text, NEW b \in Text
  PROVE  /\ a \o b \in Text /\ Len(a \o b) = Len(a) + Len(b)
         /\ \A i \in 1 .. Len(a) : (a \o b)[i] = a[i]
         /\ \A i \in 1 .. Len(b) : (a \o b)[Len(a) + i] = b[i]
<1> QED
  BY ConcatProperties DEF Text

(* A part of a text. *)
LEMMA PartWords ==
  ASSUME NEW t \in Text, NEW m \in Nat, NEW n \in Nat, 1 <= m, m <= n + 1, n <= Len(t)
  PROVE  /\ SubSeq(t, m, n) \in Text /\ Len(SubSeq(t, m, n)) = n - m + 1
         /\ \A i \in 1 .. n - m + 1 : SubSeq(t, m, n)[i] = t[m + i - 1]
<1> QED
  BY DEF Text

(* Texts with the same words are the same. *)
LEMMA SameText ==
  ASSUME NEW a \in Text, NEW b \in Text, Len(a) = Len(b),
         \A i \in 1 .. Len(a) : a[i] = b[i]
  PROVE  a = b
<1> QED
  BY SeqEqual DEF Text

(* The first place of a word. *)
LEMMA LeastIs ==
  ASSUME NEW S \in SUBSET Nat, NEW m \in S, \A n \in S : m <= n
  PROVE  Min(S) = m
<1> DEFINE x == Min(S)
<1>1. x \in S /\ \A n \in S : x <= n
  BY DEF Min
<1>2. x \in Nat /\ m \in Nat
  BY <1>1
<1> HIDE DEF x
<1>3. x = m
  BY <1>1, <1>2
<1> QED
  BY <1>3 DEF x

(* So is the greatest. *)
LEMMA GreatestIs ==
  ASSUME NEW S \in SUBSET Nat, NEW m \in S, \A n \in S : m >= n
  PROVE  Max(S) = m
<1> DEFINE x == Max(S)
<1>1. x \in S /\ \A n \in S : x >= n
  BY DEF Max
<1>2. x \in Nat /\ m \in Nat
  BY <1>1
<1> HIDE DEF x
<1>3. x = m
  BY <1>1, <1>2
<1> QED
  BY <1>3 DEF x

(* A set of numbers has a least element. *)
LEMMA HasLeast ==
  ASSUME NEW S \in SUBSET Nat, S # {}
  PROVE  Min(S) \in S /\ \A n \in S : Min(S) <= n
<1> DEFINE R == OpToRel(<, Nat)
<1>1. IsWellFoundedOn(R, Nat)
  BY NatLessThanWellFounded
<1>2. \A i, j \in Nat : i < j => <<i, j>> \in R
  BY DEF OpToRel
<1> HIDE DEF R
<1>3. PICK m \in S : \A n \in S : ~(<<n, m>> \in R)
  BY <1>1, WFMin
<1>4. ASSUME NEW n \in S PROVE m <= n
  <2>1. n \in Nat /\ m \in Nat /\ ~(n < m)
    BY <1>2, <1>3, Zenon
  <2> QED
    BY <2>1
<1> QED
  BY <1>4 DEF Min

(* findCRLF(). *)
IsLineEnd(text, i) == i + 1 <= Len(text) /\ text[i] = CR /\ text[i + 1] = LF

(* findCRLF() finds the first line end, ... *)
LEMMA FindCRLFFinds ==
  ASSUME NEW t \in Text, FindCRLF(t) # 0
  PROVE  /\ FindCRLF(t) \in 1 .. Len(t) - 1 /\ IsLineEnd(t, FindCRLF(t))
         /\ \A i \in 1 .. FindCRLF(t) - 1 : ~IsLineEnd(t, i)
<1> DEFINE crlfs == {i \in 1..(Len(t) - 1) : t[i] = CR /\ t[i + 1] = LF}
<1>1. Len(t) \in Nat
  BY DEF Text
<1>2. crlfs # {} /\ FindCRLF(t) = Min(crlfs)
  BY DEF FindCRLF
<1>3. crlfs \in SUBSET Nat
  OBVIOUS
<1>4. FindCRLF(t) \in crlfs /\ \A n \in crlfs : FindCRLF(t) <= n
  <2> HIDE DEF crlfs
  <2> QED
    BY <1>2, <1>3, HasLeast
<1>5. FindCRLF(t) \in 1 .. Len(t) - 1
  BY <1>4
<1> HIDE DEF FindCRLF
<1>6. ASSUME NEW i \in 1 .. FindCRLF(t) - 1 PROVE ~IsLineEnd(t, i)
  <2>1. i \notin crlfs
    BY <1>4, <1>5
  <2> QED
    BY <1>1, <1>5, <2>1 DEF IsLineEnd
<1> QED
  BY <1>1, <1>4, <1>5, <1>6 DEF IsLineEnd

(* ... and the first line end is what it finds. *)
LEMMA FindCRLFIs ==
  ASSUME NEW t \in Text, NEW c \in 1 .. Len(t) - 1, IsLineEnd(t, c),
         \A i \in 1 .. c - 1 : ~IsLineEnd(t, i)
  PROVE  FindCRLF(t) = c
<1> DEFINE crlfs == {i \in 1..(Len(t) - 1) : t[i] = CR /\ t[i + 1] = LF}
<1>1. Len(t) \in Nat
  BY DEF Text
<1>2. c \in crlfs
  BY DEF IsLineEnd
<1>3. \A n \in crlfs : c <= n
  BY <1>1 DEF IsLineEnd
<1>4. crlfs \in SUBSET Nat
  OBVIOUS
<1>5. Min(crlfs) = c
  <2> HIDE DEF crlfs
  <2> QED
    BY <1>2, <1>3, <1>4, LeastIs
<1> QED
  BY <1>2, <1>5 DEF FindCRLF

(* A line end in the first of two texts is where it was when they are joined. *)
LEMMA SameLineEnd ==
  ASSUME NEW a \in Text, NEW b \in Text, FindCRLF(a) # 0
  PROVE  /\ FindCRLF(a \o b) = FindCRLF(a)
         /\ Before(a \o b, FindCRLF(a)) = Before(a, FindCRLF(a))
<1> DEFINE c == FindCRLF(a)
           t == a \o b
<1>1. /\ c \in 1 .. Len(a) - 1 /\ IsLineEnd(a, c)
      /\ \A i \in 1 .. c - 1 : ~IsLineEnd(a, i)
  BY FindCRLFFinds
<1>2. /\ t \in Text /\ Len(t) = Len(a) + Len(b)
      /\ \A i \in 1 .. Len(a) : t[i] = a[i]
  BY JoinedWords
<1>3. Len(a) \in Nat /\ Len(b) \in Nat
  BY DEF Text
<1> HIDE DEF c, t
<1>4. \A i \in 1 .. c : IsLineEnd(t, i) <=> IsLineEnd(a, i)
  BY <1>1, <1>2, <1>3 DEF IsLineEnd
<1>5. FindCRLF(t) = c
  BY <1>1, <1>2, <1>3, <1>4, FindCRLFIs
<1>6. /\ Before(a, c) \in Text /\ Len(Before(a, c)) = c - 1
      /\ \A i \in 1 .. c - 1 : Before(a, c)[i] = a[i]
  <2>1. c - 1 \in Nat /\ 1 <= c - 1 + 1 /\ c - 1 <= Len(a) /\ c - 1 - 1 + 1 = c - 1
    BY <1>1, <1>3
  <2> QED
    BY <1>1, <2>1, PartWords DEF Before
<1>7. /\ Before(t, c) \in Text /\ Len(Before(t, c)) = c - 1
      /\ \A i \in 1 .. c - 1 : Before(t, c)[i] = t[i]
  <2>1. c - 1 \in Nat /\ 1 <= c - 1 + 1 /\ c - 1 <= Len(t) /\ c - 1 - 1 + 1 = c - 1
    BY <1>1, <1>2, <1>3
  <2> QED
    BY <1>1, <1>2, <2>1, PartWords DEF Before
<1>8. \A i \in 1 .. c - 1 : Before(t, c)[i] = Before(a, c)[i]
  BY <1>1, <1>2, <1>3, <1>6, <1>7
<1>9. Before(t, c) = Before(a, c)
  BY <1>6, <1>7, <1>8, SameText
<1> QED
  BY <1>5, <1>9 DEF c, t

(* No line ends in text, also if LF comes behind it. *)
OneLine(text) == \A i \in 1 .. Len(text) : text[i] = CR => i < Len(text) /\ text[i + 1] # LF

(* The first line of a text that begins with a line. *)
LEMMA FirstLine ==
  ASSUME NEW line \in Text, NEW rest \in Text, OneLine(line)
  PROVE  LET t == Cat(line, Cat(LineEnd, rest))
         IN  /\ t \in Text /\ FindCRLF(t) = Len(line) + 1
             /\ Before(t, Len(line) + 1) = line /\ From(t, Len(line) + 3) = rest
<1> DEFINE crlf == <<CR, LF>>
           u == crlf \o rest
           t == line \o u
<1>1. /\ crlf \in Text /\ Len(crlf) = 2 /\ crlf[1] = CR /\ crlf[2] = LF
  BY HttpServerAssumption DEF Text
<1>2. Len(line) \in Nat /\ Len(rest) \in Nat
  BY DEF Text
<1> HIDE DEF crlf
<1>3. /\ u \in Text /\ Len(u) = 2 + Len(rest)
      /\ u[1] = CR /\ u[2] = LF /\ \A i \in 1 .. Len(rest) : u[2 + i] = rest[i]
  <2>1. /\ u \in Text /\ Len(u) = Len(crlf) + Len(rest)
        /\ \A i \in 1 .. Len(crlf) : u[i] = crlf[i]
        /\ \A i \in 1 .. Len(rest) : u[Len(crlf) + i] = rest[i]
    BY <1>1, JoinedWords
  <2> QED
    BY <1>1, <2>1
<1> HIDE DEF u
<1>4. /\ t \in Text /\ Len(t) = Len(line) + (2 + Len(rest))
      /\ \A i \in 1 .. Len(line) : t[i] = line[i]
      /\ \A i \in 1 .. 2 + Len(rest) : t[Len(line) + i] = u[i]
  <2>1. /\ t \in Text /\ Len(t) = Len(line) + Len(u)
        /\ \A i \in 1 .. Len(line) : t[i] = line[i]
        /\ \A i \in 1 .. Len(u) : t[Len(line) + i] = u[i]
    BY <1>3, JoinedWords
  <2> QED
    BY <1>3, <2>1
<1> HIDE DEF t
<1>5. t[Len(line) + 1] = CR /\ t[Len(line) + 2] = LF
  BY <1>2, <1>3, <1>4
<1>6. FindCRLF(t) = Len(line) + 1
  <2>1. Len(line) + 1 \in 1 .. Len(t) - 1
    BY <1>2, <1>4
  <2>2. IsLineEnd(t, Len(line) + 1)
    BY <1>2, <1>4, <1>5 DEF IsLineEnd
  <2>3. ASSUME NEW i \in 1 .. Len(line) PROVE ~IsLineEnd(t, i)
    <3>1. CASE line[i] # CR
      BY <1>4, <3>1 DEF IsLineEnd
    <3>2. CASE line[i] = CR
      <4>1. i < Len(line) /\ line[i + 1] # LF
        BY <3>2 DEF OneLine
      <4>2. t[i + 1] = line[i + 1]
        BY <1>2, <1>4, <4>1
      <4> QED
        BY <4>1, <4>2 DEF IsLineEnd
    <3> QED
      BY <3>1, <3>2
  <2>4. (Len(line) + 1) - 1 = Len(line)
    BY <1>2
  <2> QED
    BY <1>4, <2>1, <2>2, <2>3, <2>4, FindCRLFIs
<1>7. Before(t, Len(line) + 1) = line
  <2>1. SubSeq(t, 1, Len(line)) = line
    <3> DEFINE p == SubSeq(t, 1, Len(line))
    <3>1. 1 <= Len(line) + 1 /\ Len(line) <= Len(t)
      BY <1>2, <1>4
    <3>2. /\ p \in Text /\ Len(p) = Len(line) - 1 + 1
          /\ \A i \in 1 .. Len(line) - 1 + 1 : p[i] = t[1 + i - 1]
      BY <1>2, <1>4, <3>1, PartWords
    <3> HIDE DEF p
    <3>3. Len(p) = Len(line) /\ \A i \in 1 .. Len(p) : p[i] = line[i]
      BY <1>2, <1>4, <3>2
    <3> QED
      BY <3>2, <3>3, SameText DEF p
  <2>2. (Len(line) + 1) - 1 = Len(line)
    BY <1>2
  <2> QED
    BY <2>1, <2>2 DEF Before
<1>8. From(t, Len(line) + 3) = rest
  <2> DEFINE m == Len(line) + 3
             n == Len(t)
  <2>1. m \in Nat /\ n \in Nat /\ 1 <= m /\ m <= n + 1 /\ n - m + 1 = Len(rest)
        /\ \A i \in Nat : m + i - 1 = Len(line) + (2 + i)
    BY <1>2, <1>4
  <2>2. m = Len(line) + 3 /\ n = Len(t)
    OBVIOUS
  <2> HIDE DEF m, n
  <2> DEFINE p == SubSeq(t, m, n)
  <2>3. /\ p \in Text /\ Len(p) = n - m + 1
        /\ \A i \in 1 .. n - m + 1 : p[i] = t[m + i - 1]
    BY <1>4, <2>1, <2>2, PartWords
  <2> HIDE DEF p
  <2>4. ASSUME NEW i \in 1 .. Len(p) PROVE p[i] = rest[i]
    <3>1. i \in 1 .. Len(rest) /\ m + i - 1 = Len(line) + (2 + i) /\ 2 + i \in 1 .. 2 + Len(rest)
      BY <1>2, <2>1, <2>3
    <3>2. p[i] = t[Len(line) + (2 + i)]
      BY <2>1, <2>3, <3>1
    <3> QED
      BY <1>3, <1>4, <3>1, <3>2
  <2>5. p = rest
    BY <2>1, <2>3, <2>4, SameText
  <2> QED
    BY <2>2, <2>5 DEF p, From
<1> QED
  BY <1>4, <1>6, <1>7, <1>8 DEF crlf, u, t, Cat, LineEnd

(* The first text of two gives the first part of the joined one. *)
LEMMA FromJoined ==
  ASSUME NEW a \in Text, NEW b \in Text, NEW m \in 1 .. Len(a) + 1
  PROVE  From(a, m) \in Text /\ From(a \o b, m) = From(a, m) \o b
<1> DEFINE t == a \o b
           f == SubSeq(a, m, Len(a))
           g == SubSeq(t, m, Len(t))
           h == f \o b
<1>1. Len(a) \in Nat /\ Len(b) \in Nat
  BY DEF Text
<1>2. /\ t \in Text /\ Len(t) = Len(a) + Len(b)
      /\ \A i \in 1 .. Len(a) : t[i] = a[i]
      /\ \A i \in 1 .. Len(b) : t[Len(a) + i] = b[i]
  BY JoinedWords
<1>3. /\ f \in Text /\ Len(f) = Len(a) - m + 1
      /\ \A i \in 1 .. Len(a) - m + 1 : f[i] = a[m + i - 1]
  BY <1>1, PartWords
<1> HIDE DEF t, f
<1>4. /\ g \in Text /\ Len(g) = Len(t) - m + 1
      /\ \A i \in 1 .. Len(t) - m + 1 : g[i] = t[m + i - 1]
  <2>1. Len(t) \in Nat /\ m <= Len(t) + 1
    BY <1>1, <1>2
  <2> QED
    BY <1>1, <1>2, <2>1, PartWords
<1>5. /\ h \in Text /\ Len(h) = Len(f) + Len(b)
      /\ \A i \in 1 .. Len(f) : h[i] = f[i]
      /\ \A i \in 1 .. Len(b) : h[Len(f) + i] = b[i]
  BY <1>3, JoinedWords
<1> HIDE DEF g, h
<1>6. ASSUME NEW i \in 1 .. Len(g) PROVE g[i] = h[i]
  <2>1. i \in 1 .. Len(t) - m + 1 /\ g[i] = t[m + i - 1]
    BY <1>1, <1>2, <1>4
  <2>2. CASE i <= Len(f)
    <3>1. i \in 1 .. Len(f) /\ i \in 1 .. Len(a) - m + 1 /\ m + i - 1 \in 1 .. Len(a)
      BY <1>1, <1>3, <2>1, <2>2
    <3> QED
      BY <1>2, <1>3, <1>5, <2>1, <3>1
  <2>3. CASE i > Len(f)
    <3> DEFINE j == i - Len(f)
    <3>1. j \in 1 .. Len(b) /\ m + i - 1 = Len(a) + j /\ i = Len(f) + j
      BY <1>1, <1>2, <1>3, <2>1, <2>3
    <3> HIDE DEF j
    <3> QED
      BY <1>2, <1>5, <2>1, <3>1
  <2> QED
    BY <1>1, <1>3, <2>1, <2>2, <2>3
<1>7. g = h
  BY <1>1, <1>2, <1>3, <1>4, <1>5, <1>6, SameText
<1> QED
  BY <1>3, <1>7 DEF From, f, g, h, t

(* A text is what is before a place of it and what is from there on. *)
LEMMA TwoParts ==
  ASSUME NEW t \in Text, NEW n \in 0 .. Len(t)
  PROVE  /\ SubSeq(t, 1, n) \in Text /\ From(t, n + 1) \in Text
         /\ Cat(SubSeq(t, 1, n), From(t, n + 1)) = t
<1> DEFINE f == SubSeq(t, 1, n)
           g == SubSeq(t, n + 1, Len(t))
           h == f \o g
<1>1. Len(t) \in Nat /\ n \in Nat
  BY DEF Text
<1>2. f \in Text /\ Len(f) = n /\ \A i \in 1 .. n : f[i] = t[i]
  <2>1. /\ f \in Text /\ Len(f) = n - 1 + 1
        /\ \A i \in 1 .. n - 1 + 1 : f[i] = t[1 + i - 1]
    BY <1>1, PartWords
  <2> HIDE DEF f
  <2> QED
    BY <1>1, <2>1
<1>3. /\ g \in Text /\ Len(g) = Len(t) - n
      /\ \A i \in 1 .. Len(t) - n : g[i] = t[n + i]
  <2> DEFINE m == n + 1
  <2>1. m \in Nat /\ 1 <= m /\ m <= Len(t) + 1 /\ m = n + 1
    BY <1>1
  <2> HIDE DEF m
  <2>2. /\ SubSeq(t, m, Len(t)) \in Text /\ Len(SubSeq(t, m, Len(t))) = Len(t) - m + 1
        /\ \A i \in 1 .. Len(t) - m + 1 : SubSeq(t, m, Len(t))[i] = t[m + i - 1]
    BY <1>1, <2>1, PartWords
  <2>3. Len(t) - m + 1 = Len(t) - n /\ \A i \in Nat : m + i - 1 = n + i
    BY <1>1, <2>1
  <2> DEFINE l == Len(t) - n
  <2>4. l \in Nat /\ \A i \in 1 .. l : i \in Nat
    BY <1>1
  <2> HIDE DEF l
  <2>5. g = SubSeq(t, m, Len(t))
    BY <2>1
  <2>6. \A i \in 1 .. l : g[i] = t[m + i - 1]
    BY <2>2, <2>3, <2>5 DEF l
  <2>7. \A i \in 1 .. l : g[i] = t[n + i]
    BY <2>3, <2>4, <2>6
  <2> QED
    BY <2>2, <2>3, <2>5, <2>7 DEF l
<1> HIDE DEF f, g
<1>4. /\ h \in Text /\ Len(h) = Len(f) + Len(g)
      /\ \A i \in 1 .. Len(f) : h[i] = f[i]
      /\ \A i \in 1 .. Len(g) : h[Len(f) + i] = g[i]
  BY <1>2, <1>3, JoinedWords
<1> HIDE DEF h
<1>5. ASSUME NEW i \in 1 .. Len(t) PROVE h[i] = t[i]
  <2>1. CASE i <= n
    BY <1>1, <1>2, <1>4, <2>1
  <2>2. CASE i > n
    <3> DEFINE j == i - n
    <3>1. j \in 1 .. Len(t) - n /\ i = n + j
      BY <1>1, <2>2
    <3> HIDE DEF j
    <3> QED
      BY <1>2, <1>3, <1>4, <3>1
  <2> QED
    BY <1>1, <2>1, <2>2
<1>6. h = t
  BY <1>1, <1>2, <1>3, <1>4, <1>5, SameText
<1> QED
  BY <1>2, <1>3, <1>6 DEF f, g, h, From, Cat

(* What parseRequest() does with a line of the text that comes: it finds the end
   of the line as soon as it is in the buffer, takes the line and leaves the rest. *)
LEMMA CutLine ==
  ASSUME NEW a \in Text, NEW b \in Text, NEW line \in Text, NEW rest \in Text,
         \A i \in 1 .. Len(line) : line[i] # CR,
         Cat(a, b) = Cat(line, Cat(LineEnd, rest)), FindCRLF(a) # 0
  PROVE  /\ Before(a, FindCRLF(a)) = line
         /\ From(a, FindCRLF(a) + 2) \in Text
         /\ Cat(From(a, FindCRLF(a) + 2), b) = rest
<1> DEFINE t == Cat(line, Cat(LineEnd, rest))
           c == FindCRLF(a)
           n == Len(line)
<1>1. Len(a) \in Nat /\ n \in Nat
  BY DEF Text
<1>2. FindCRLF(t) = n + 1 /\ Before(t, n + 1) = line /\ From(t, n + 3) = rest
  BY FirstLine DEF OneLine
<1>4. c \in 1 .. Len(a) - 1
  BY FindCRLFFinds
<1> DEFINE u == Cat(a, b)
<1>3. u = t
  OBVIOUS
<1>5. FindCRLF(u) = c /\ Before(u, c) = Before(a, c)
  BY SameLineEnd DEF Cat
<1> HIDE DEF u, t, c, n
<1>6. c = n + 1 /\ c + 2 = n + 3 /\ c + 2 \in 1 .. Len(a) + 1
  BY <1>1, <1>2, <1>3, <1>4, <1>5
<1>7. From(a, c + 2) \in Text /\ From(u, c + 2) = From(a, c + 2) \o b
  BY <1>6, FromJoined DEF u, Cat
<1>8. Before(a, c) = line
  BY <1>2, <1>3, <1>5, <1>6
<1>9. From(a, c + 2) \o b = rest
  BY <1>2, <1>3, <1>6, <1>7
<1> QED
  BY <1>7, <1>8, <1>9 DEF c, Cat

(* std::find() finds the first place, or none. *)
LEMMA FindFinds ==
  ASSUME NEW t \in Text, NEW w, NEW i \in Nat \ {0}, Find(t, w, i) # 0
  PROVE  /\ Find(t, w, i) \in i .. Len(t) /\ t[Find(t, w, i)] = w
         /\ \A j \in i .. Find(t, w, i) - 1 : t[j] # w
<1> DEFINE places == {j \in i .. Len(t) : t[j] = w}
<1>1. Len(t) \in Nat
  BY DEF Text
<1>2. places # {} /\ Find(t, w, i) = Min(places)
  BY DEF Find
<1>3. places \in SUBSET Nat
  BY <1>1
<1>4. Find(t, w, i) \in places /\ \A n \in places : Find(t, w, i) <= n
  <2> HIDE DEF places
  <2> QED
    BY <1>2, <1>3, HasLeast
<1> HIDE DEF Find
<1>5. ASSUME NEW j \in i .. Find(t, w, i) - 1 PROVE t[j] # w
  <2>1. j \notin places
    BY <1>4
  <2>2. j \in i .. Len(t)
    BY <1>1, <1>4
  <2> QED
    BY <2>1, <2>2
<1> QED
  BY <1>4, <1>5

(* The first place of a word is what find() returns, ... *)
LEMMA FindIs ==
  ASSUME NEW t \in Text, NEW w, NEW i \in Nat \ {0}, NEW m \in i .. Len(t), t[m] = w,
         \A j \in i .. m - 1 : t[j] # w
  PROVE  Find(t, w, i) = m
<1> DEFINE places == {j \in i .. Len(t) : t[j] = w}
<1>1. Len(t) \in Nat
  BY DEF Text
<1>2. m \in places /\ \A n \in places : m <= n
  BY <1>1
<1>3. places \in SUBSET Nat
  BY <1>1
<1>4. Min(places) = m
  <2> HIDE DEF places
  <2> QED
    BY <1>2, <1>3, LeastIs
<1> QED
  BY <1>2, <1>4 DEF Find

(* ... and a word that is nowhere is not found. *)
LEMMA FindNone ==
  ASSUME NEW t \in Text, NEW w, NEW i \in Nat \ {0}, \A j \in i .. Len(t) : t[j] # w
  PROVE  Find(t, w, i) = 0
<1> QED
  BY DEF Find

(* The words of a request that can be sent. *)
LEMMA RequestParts ==
  ASSUME NEW r \in Request
  PROVE  /\ r.method \in Token /\ r.path \in Token /\ r.path # "?"
         /\ r.query \in Seq(Token) /\ r.version \in Token
         /\ r.headers \in Seq((Token \ {":"}) \X Token)
         /\ r.body \in Seq(Word)
         /\ r.query # <<>> => r.query[1] = "?"
         /\ \A i, j \in DOMAIN r.headers : r.headers[i][1] = r.headers[j][1] => i = j
<1> QED
  BY DEF Request

(* The words of a request line, by their place. *)
LEMMA RequestLineIs ==
  ASSUME NEW r \in Request
  PROVE  LET line == RequestLine(r)
             n    == Len(r.query)
         IN  /\ line \in Text /\ n \in Nat /\ Len(line) = n + 6
             /\ line[1] = r.method /\ line[2] = SP /\ line[3] = r.path
             /\ \A i \in 1 .. n : line[i + 3] = r.query[i]
             /\ line[n + 4] = SP /\ line[n + 5] = "HTTP/1." /\ line[n + 6] = r.version
<1> DEFINE a == <<r.method, SP, r.path>>
           q == r.query
           b == <<SP, "HTTP/1.", r.version>>
           u == a \o q
           t == u \o b
           n == Len(q)
<1>1. /\ a \in Text /\ Len(a) = 3 /\ a[1] = r.method /\ a[2] = SP /\ a[3] = r.path
  <2>1. r.method \in Word /\ r.path \in Word /\ SP \in Word
    BY RequestParts, HttpServerAssumption DEF Token
  <2> QED
    BY <2>1 DEF Text
<1>2. /\ b \in Text /\ Len(b) = 3 /\ b[1] = SP /\ b[2] = "HTTP/1." /\ b[3] = r.version
  <2>1. r.version \in Word /\ SP \in Word /\ "HTTP/1." \in Word
    BY RequestParts, HttpServerAssumption DEF Token
  <2> QED
    BY <2>1 DEF Text
<1>3. q \in Text /\ n \in Nat
  <2>1. q \in Seq(Token)
    BY RequestParts
  <2> QED
    BY <2>1 DEF Token, Text
<1>4. t = RequestLine(r)
  BY DEF RequestLine
<1> HIDE DEF a, b, q
<1>5. /\ u \in Text /\ Len(u) = Len(a) + Len(q)
      /\ \A i \in 1 .. Len(a) : u[i] = a[i]
      /\ \A i \in 1 .. Len(q) : u[Len(a) + i] = q[i]
  BY <1>1, <1>3, JoinedWords
<1> HIDE DEF u
<1>6. /\ t \in Text /\ Len(t) = Len(u) + Len(b)
      /\ \A i \in 1 .. Len(u) : t[i] = u[i]
      /\ \A i \in 1 .. Len(b) : t[Len(u) + i] = b[i]
  BY <1>2, <1>5, JoinedWords
<1> HIDE DEF t, n
<1>7. n = Len(q)
  BY DEF n
<1>8. Len(u) = n + 3 /\ Len(t) = n + 6
  BY <1>1, <1>2, <1>3, <1>5, <1>6, <1>7
<1>9. t[1] = r.method /\ t[2] = SP /\ t[3] = r.path
  BY <1>1, <1>3, <1>5, <1>6, <1>8
<1>10. \A i \in 1 .. n : t[i + 3] = q[i]
  BY <1>1, <1>3, <1>5, <1>6, <1>7, <1>8
<1>11. t[n + 4] = SP /\ t[n + 5] = "HTTP/1." /\ t[n + 6] = r.version
  BY <1>2, <1>3, <1>6, <1>8
<1> QED
  BY <1>3, <1>4, <1>6, <1>8, <1>9, <1>10, <1>11 DEF q, n

(* Only its two spaces are spaces, and no word of it ends a line. *)
LEMMA RequestLineSpaces ==
  ASSUME NEW r \in Request
  PROVE  LET line == RequestLine(r)
         IN  /\ \A i \in 1 .. Len(line) : line[i] # CR
             /\ \A i \in 1 .. Len(line) :
                   line[i] = SP <=> (i = 2 \/ i = Len(r.query) + 4)
<1> DEFINE t == RequestLine(r)
           q == r.query
           n == Len(q)
<1>1. /\ t \in Text /\ n \in Nat /\ Len(t) = n + 6
      /\ t[1] = r.method /\ t[2] = SP /\ t[3] = r.path
      /\ \A i \in 1 .. n : t[i + 3] = q[i]
      /\ t[n + 4] = SP /\ t[n + 5] = "HTTP/1." /\ t[n + 6] = r.version
  BY RequestLineIs
<1>2. /\ r.method \in Token /\ r.path \in Token /\ q \in Seq(Token) /\ r.version \in Token
  BY RequestParts
<1>3. "HTTP/1." \notin {CR, LF, SP} /\ SP # CR
  BY DEF CR, LF, SP
<1>4. \A i \in 1 .. n : q[i] \in Token
  BY <1>2
<1> HIDE DEF t, q, n
<1>5. ASSUME NEW i \in 1 .. Len(t)
      PROVE  t[i] # CR /\ (t[i] = SP <=> (i = 2 \/ i = n + 4))
  <2>1. CASE i \in {1, 2, 3, n + 4, n + 5, n + 6}
    BY <1>1, <1>2, <1>3, <2>1 DEF Token
  <2>2. CASE i \in 4 .. n + 3
    <3>1. i - 3 \in 1 .. n /\ (i - 3) + 3 = i /\ i # 2 /\ i # n + 4
      BY <1>1, <2>2
    <3>2. t[i] = q[i - 3]
      BY <1>1, <3>1
    <3>3. q[i - 3] \in Token
      BY <1>4, <3>1
    <3> QED
      BY <3>1, <3>2, <3>3 DEF Token
  <2> QED
    BY <1>1, <2>1, <2>2
<1> QED
  BY <1>5 DEF t, q, n

(* The two spaces that processRequestLine() finds in a request line. *)
LEMMA SpacesFound ==
  ASSUME NEW r \in Request
  PROVE  /\ Find(RequestLine(r), SP, 1) = 2
         /\ Find(RequestLine(r), SP, 3) = Len(r.query) + 4
<1> DEFINE t == RequestLine(r)
           n == Len(r.query)
<1>1. t \in Text /\ n \in Nat /\ Len(t) = n + 6
  BY RequestLineIs
<1>2. \A i \in 1 .. Len(t) : t[i] = SP <=> (i = 2 \/ i = n + 4)
  BY RequestLineSpaces
<1> HIDE DEF t, n
<1>3. Find(t, SP, 1) = 2
  <2>1. 2 \in 1 .. Len(t) /\ t[2] = SP /\ \A j \in 1 .. 2 - 1 : t[j] # SP
    BY <1>1, <1>2
  <2> QED
    BY <1>1, <2>1, FindIs
<1>4. Find(t, SP, 3) = n + 4
  <2> DEFINE m == n + 4
  <2>1. m \in 3 .. Len(t) /\ t[m] = SP /\ \A j \in 3 .. m - 1 : t[j] # SP
    BY <1>1, <1>2
  <2> HIDE DEF m
  <2>2. Find(t, SP, 3) = m
    BY <1>1, <2>1, FindIs
  <2> QED
    BY <2>2 DEF m
<1> QED
  BY <1>3, <1>4 DEF t, n

(* The question mark, if there is one, or the space ends the path. *)
LEMMA PathEnd ==
  ASSUME NEW r \in Request
  PROVE  LET q == Find(Before(RequestLine(r), Len(r.query) + 4), "?", 3)
         IN  (IF q = 0 THEN Len(r.query) + 4 ELSE q) = 4
<1> DEFINE t == RequestLine(r)
           n == Len(r.query)
           p == SubSeq(t, 1, n + 3)
<1>1. /\ t \in Text /\ n \in Nat /\ Len(t) = n + 6
      /\ t[3] = r.path /\ \A i \in 1 .. n : t[i + 3] = r.query[i]
  BY RequestLineIs
<1>2. r.path # "?" /\ r.query \in Seq(Token) /\ (r.query # <<>> => r.query[1] = "?")
  BY RequestParts
<1>3. Before(t, n + 4) = p
  <2>1. (n + 4) - 1 = n + 3
    BY <1>1
  <2> QED
    BY <2>1 DEF Before
<1>4. n = 0 \/ (n >= 1 /\ r.query[1] = "?")
  BY <1>1, <1>2
<1> HIDE DEF t, n
<1>5. p \in Text /\ Len(p) = n + 3 /\ \A i \in 1 .. n + 3 : p[i] = t[i]
  <2> DEFINE l == n + 3
  <2>1. l \in Nat /\ 1 <= l + 1 /\ l <= Len(t) /\ l - 1 + 1 = l /\ \A i \in 1 .. l : 1 + i - 1 = i
    BY <1>1
  <2>2. p = SubSeq(t, 1, l)
    OBVIOUS
  <2> HIDE DEF l, p
  <2>3. /\ SubSeq(t, 1, l) \in Text /\ Len(SubSeq(t, 1, l)) = l - 1 + 1
        /\ \A i \in 1 .. l - 1 + 1 : SubSeq(t, 1, l)[i] = t[1 + i - 1]
    BY <1>1, <2>1, PartWords
  <2>4. p \in Text /\ Len(p) = l /\ \A i \in 1 .. l : p[i] = t[i]
    BY <2>1, <2>2, <2>3
  <2> QED
    BY <2>4 DEF l
<1> HIDE DEF p
<1>6. CASE n = 0
  <2>1. \A j \in 3 .. Len(p) : p[j] # "?"
    BY <1>1, <1>2, <1>5, <1>6
  <2>2. Find(p, "?", 3) = 0
    BY <1>5, <2>1, FindNone
  <2> QED
    BY <1>3, <1>6, <2>2 DEF t, n
<1>7. CASE n # 0
  <2>1. n >= 1 /\ r.query[1] = "?" /\ 1 \in 1 .. n
    BY <1>1, <1>4, <1>7
  <2>2. t[4] = "?"
    BY <1>1, <2>1
  <2>3. 4 \in 3 .. Len(p) /\ p[4] = "?" /\ \A j \in 3 .. 4 - 1 : p[j] # "?"
    BY <1>1, <1>2, <1>5, <2>1, <2>2
  <2>4. Find(p, "?", 3) = 4
    BY <1>5, <2>3, FindIs
  <2> QED
    BY <1>3, <2>4 DEF t, n
<1> QED
  BY <1>6, <1>7

(* What the request line of r says, with the headers h. *)
Told(r, h) == [method |-> r.method, path |-> <<r.path>>, query |-> r.query,
               version |-> r.version, headers |-> h]

(* One and two words of a text. *)
LEMMA OneWord ==
  ASSUME NEW t \in Text, NEW i \in 1 .. Len(t)
  PROVE  SubSeq(t, i, i) = <<t[i]>>
<1> DEFINE a == SubSeq(t, i, i)
           b == <<t[i]>>
<1>1. Len(t) \in Nat /\ t[i] \in Word
  BY DEF Text
<1>2. b \in Text /\ Len(b) = 1 /\ b[1] = t[i]
  BY <1>1 DEF Text
<1>3. a \in Text /\ Len(a) = i - i + 1 /\ \A k \in 1 .. i - i + 1 : a[k] = t[i + k - 1]
  BY <1>1, PartWords
<1> HIDE DEF a, b
<1>4. Len(a) = Len(b) /\ \A k \in 1 .. Len(a) : a[k] = b[k]
  BY <1>1, <1>2, <1>3
<1>5. a = b
  BY <1>2, <1>3, <1>4, SameText
<1> QED
  BY <1>5 DEF a, b

(* The same for two words. *)
LEMMA TwoWords ==
  ASSUME NEW t \in Text, NEW i \in 1 .. Len(t) - 1
  PROVE  SubSeq(t, i, i + 1) = <<t[i], t[i + 1]>>
<1> DEFINE j == i + 1
           a == SubSeq(t, i, j)
           b == <<t[i], t[j]>>
<1>1. Len(t) \in Nat /\ t[i] \in Word /\ t[j] \in Word /\ j = i + 1
  BY DEF Text
<1> HIDE DEF j
<1>2. b \in Text /\ Len(b) = 2 /\ b[1] = t[i] /\ b[2] = t[j]
  BY <1>1 DEF Text
<1>3. a \in Text /\ Len(a) = j - i + 1 /\ \A k \in 1 .. j - i + 1 : a[k] = t[i + k - 1]
  BY <1>1, PartWords
<1> HIDE DEF a, b
<1>4. Len(a) = Len(b) /\ \A k \in 1 .. Len(a) : a[k] = b[k]
  BY <1>1, <1>2, <1>3
<1>5. a = b
  BY <1>2, <1>3, <1>4, SameText
<1> QED
  BY <1>5 DEF a, b, j

(* The parts of the line. *)
LEMMA LineParts ==
  ASSUME NEW r \in Request
  PROVE  LET t == RequestLine(r)
             n == Len(r.query)
         IN  /\ Before(t, 2) = <<r.method>> /\ SubSeq(t, 3, 3) = <<r.path>>
             /\ SubSeq(t, 4, n + 3) = r.query
             /\ From(t, n + 5) = <<"HTTP/1.", r.version>>
<1> DEFINE t == RequestLine(r)
           q == r.query
           n == Len(q)
<1>1. /\ t \in Text /\ n \in Nat /\ Len(t) = n + 6
      /\ t[1] = r.method /\ t[2] = SP /\ t[3] = r.path
      /\ \A i \in 1 .. n : t[i + 3] = q[i]
      /\ t[n + 4] = SP /\ t[n + 5] = "HTTP/1." /\ t[n + 6] = r.version
  BY RequestLineIs
<1>2. q \in Text
  BY RequestParts DEF Token, Text
<1>3. q \in Seq(Word) /\ t \in Seq(Word)
  BY <1>1, <1>2 DEF Text
<1> HIDE DEF t, q
<1>4. SubSeq(t, 1, 1) = <<t[1]>> /\ SubSeq(t, 3, 3) = <<t[3]>>
  <2>1. 1 \in 1 .. Len(t) /\ 3 \in 1 .. Len(t)
    BY <1>1
  <2> QED
    BY <1>1, <2>1, OneWord
<1>5. SubSeq(t, 4, n + 3) = q
  <2> DEFINE l == n + 3
             p == SubSeq(t, 4, l)
  <2>1. l \in Nat /\ 4 <= l + 1 /\ l <= Len(t) /\ l - 4 + 1 = n /\ \A i \in 1 .. n : 4 + i - 1 = i + 3
    BY <1>1
  <2> HIDE DEF l
  <2>2. p \in Text /\ Len(p) = l - 4 + 1 /\ \A i \in 1 .. l - 4 + 1 : p[i] = t[4 + i - 1]
    BY <1>1, <2>1, PartWords
  <2> HIDE DEF p
  <2>3. Len(p) = n /\ \A i \in 1 .. n : p[i] = q[i]
    BY <1>1, <2>1, <2>2
  <2>4. p = q
    BY <1>2, <2>2, <2>3, SameText
  <2> QED
    BY <2>4 DEF p, l
<1>6. From(t, n + 5) = <<t[n + 5], t[n + 6]>>
  <2> DEFINE m == n + 5
  <2>1. m \in 1 .. Len(t) - 1 /\ m + 1 = n + 6
    BY <1>1
  <2> HIDE DEF m
  <2>2. SubSeq(t, m, m + 1) = <<t[m], t[m + 1]>>
    BY <1>1, <2>1, TwoWords
  <2> QED
    BY <1>1, <2>1, <2>2 DEF From, m
<1>7. Before(t, 2) = SubSeq(t, 1, 1)
  BY DEF Before
<1> QED
  BY <1>1, <1>4, <1>5, <1>6, <1>7 DEF t, q

(* processRequestLine() accepts the line of a request if it may, and gets of it
   what it says. *)
LEMMA RequestLineParsed ==
  ASSUME NEW r \in Request
  PROVE  ProcessRequestLine(RequestLine(r)) =
           IF Good(r) THEN Told(r, <<>>) ELSE NoRequest
<1> DEFINE t == RequestLine(r)
           n == Len(r.query)
<1>1. n \in Nat /\ t[1] = r.method
  BY RequestLineIs
<1>2. Find(t, SP, 1) = 2 /\ Find(t, SP, 2 + 1) = n + 4
  BY SpacesFound
<1>3. (IF Find(Before(t, n + 4), "?", 2 + 1) = 0 THEN n + 4
       ELSE Find(Before(t, n + 4), "?", 2 + 1)) = 4
  BY PathEnd
<1>4. /\ Before(t, 2) = <<r.method>> /\ SubSeq(t, 3, 3) = <<r.path>>
      /\ SubSeq(t, 4, n + 3) = r.query
      /\ From(t, n + 5) = <<"HTTP/1.", r.version>>
  BY LineParts
<1> HIDE DEF t, n
<1>5. From(t, n + 4 + 1) = <<"HTTP/1.", r.version>> /\ SubSeq(t, 2 + 1, 4 - 1) = <<r.path>>
      /\ SubSeq(t, 4, n + 4 - 1) = r.query /\ n + 4 # 0
  <2>1. n + 4 + 1 = n + 5 /\ n + 4 - 1 = n + 3 /\ n + 4 # 0
    BY <1>1
  <2> QED
    BY <1>4, <2>1
<1>6. Before(t, 2) = <<r.method>>
  BY <1>4
<1>7. (\E m \in Methods : Before(t, 2) = <<m>>) <=> r.method \in Methods
  BY <1>6
<1>8. (\E v \in {"0", "1"} : From(t, n + 4 + 1) = <<"HTTP/1.", v>>) <=> r.version \in {"0", "1"}
  BY <1>5
<1>9. CASE Good(r)
  <2> DEFINE space    == Find(t, SP, 1)
             space2   == Find(t, SP, space + 1)
             question == Find(Before(t, space2), "?", space + 1)
             pathEnd  == IF question = 0 THEN space2 ELSE question
             version  == From(t, space2 + 1)
             succeed  == /\ space # 0
                         /\ \E m \in Methods : Before(t, space) = <<m>>
                         /\ space2 # 0
                         /\ \E v \in {"0", "1"} : version = <<"HTTP/1.", v>>
  <2>1. ProcessRequestLine(t) =
          IF succeed
          THEN [NoRequest EXCEPT !.method = t[1],
                                 !.path = SubSeq(t, space + 1, pathEnd - 1),
                                 !.query = SubSeq(t, pathEnd, space2 - 1),
                                 !.version = version[2]]
          ELSE NoRequest
    BY DEF ProcessRequestLine
  <2>2. space = 2 /\ space2 = n + 4
    BY <1>2
  <2>3. version = <<"HTTP/1.", r.version>> /\ version[2] = r.version
    BY <1>5, <2>2
  <2>4. pathEnd = 4
    BY <1>3, <2>2
  <2>5. succeed
    <3>1. \E m \in Methods : Before(t, space) = <<m>>
      BY <1>7, <1>9, <2>2 DEF Good
    <3>2. \E v \in {"0", "1"} : version = <<"HTTP/1.", v>>
      BY <1>9, <2>3 DEF Good
    <3> QED
      BY <1>5, <2>2, <3>1, <3>2
  <2> HIDE DEF space, space2, pathEnd, version, succeed
  <2>6. SubSeq(t, space + 1, pathEnd - 1) = <<r.path>> /\ SubSeq(t, pathEnd, space2 - 1) = r.query
    <3>1. space + 1 = 3 /\ pathEnd - 1 = 3 /\ space2 - 1 = n + 3
      BY <1>1, <2>2, <2>4
    <3> QED
      BY <1>4, <2>4, <3>1
  <2>7. ProcessRequestLine(t) = Told(r, <<>>)
    BY <1>1, <2>1, <2>3, <2>5, <2>6 DEF Told, NoRequest
  <2> QED
    BY <1>9, <2>7 DEF t
<1>10. CASE ~Good(r)
  <2>1. ProcessRequestLine(t) = NoRequest
    BY <1>2, <1>7, <1>8, <1>10 DEF ProcessRequestLine, Good
  <2> QED
    BY <1>10, <2>1 DEF t
<1> QED
  BY <1>9, <1>10

(* A word that is there is found. *)
LEMMA SomeFound ==
  ASSUME NEW t \in Text, NEW w, NEW i \in Nat \ {0}, \E j \in i .. Len(t) : t[j] = w
  PROVE  Find(t, w, i) # 0
<1> DEFINE places == {j \in i .. Len(t) : t[j] = w}
<1>1. Len(t) \in Nat
  BY DEF Text
<1>2. places \in SUBSET Nat /\ places # {} /\ 0 \notin places
  BY <1>1
<1>3. Min(places) \in places
  <2> HIDE DEF places
  <2> QED
    BY <1>2, HasLeast
<1> QED
  BY <1>2, <1>3 DEF Find

(* A line is no request line if it does not begin with one word and a space, or
   if more than two words follow its second space. *)
LEMMA NotRequestLine ==
  ASSUME NEW t, \/ Len(Before(t, Find(t, SP, 1))) # 1
                \/ Len(From(t, Find(t, SP, Find(t, SP, 1) + 1) + 1)) # 2
  PROVE  ProcessRequestLine(t) = NoRequest
<1> DEFINE b == Before(t, Find(t, SP, 1))
           v == From(t, Find(t, SP, Find(t, SP, 1) + 1) + 1)
<1>1. (\E m \in Methods : b = <<m>>) => Len(b) = 1
  OBVIOUS
<1>2. (\E x \in {"0", "1"} : v = <<"HTTP/1.", x>>) => Len(v) = 2
  OBVIOUS
<1>3. ~((\E m \in Methods : b = <<m>>) /\ (\E x \in {"0", "1"} : v = <<"HTTP/1.", x>>))
  BY <1>1, <1>2
<1> QED
  BY <1>3 DEF ProcessRequestLine

(* What is before a place, and from it on. *)
LEMMA PartLengths ==
  ASSUME NEW t \in Text, NEW i \in 1 .. Len(t)
  PROVE  Len(Before(t, i)) = i - 1 /\ Len(From(t, i + 1)) = Len(t) - i
<1>1. Len(t) \in Nat
  BY DEF Text
<1> DEFINE m == i - 1
           n == i + 1
<1>2. /\ m \in Nat /\ 1 <= m + 1 /\ m <= Len(t) /\ m - 1 + 1 = m
      /\ n \in Nat /\ 1 <= n /\ n <= Len(t) + 1 /\ Len(t) - n + 1 = Len(t) - i
  BY <1>1
<1> HIDE DEF m, n
<1>3. Len(SubSeq(t, 1, m)) = m /\ Len(SubSeq(t, n, Len(t))) = Len(t) - i
  BY <1>1, <1>2, PartWords
<1> QED
  BY <1>3 DEF Before, From, m, n

(* Neither a header line nor the empty line is a request line. *)
LEMMA HeaderLineIs ==
  ASSUME NEW f \in Token \ {":"}, NEW v \in Token
  PROVE  LET t == HeaderLine(f, v)
         IN  /\ t \in Text /\ Len(t) = 5
             /\ t[1] = f /\ t[2] = ":" /\ t[3] = SP /\ t[4] = v /\ t[5] = SP
             /\ \A i \in 1 .. Len(t) : t[i] # CR
<1>1. f \in Word /\ v \in Word /\ ":" \in Word /\ SP \in Word
  BY HttpServerAssumption DEF Token
<1>2. f # CR /\ v # CR /\ ":" # CR /\ SP # CR
  BY DEF Token, CR, SP
<1> QED
  BY <1>1, <1>2 DEF HeaderLine, Text

(* A header line is no request line, ... *)
LEMMA HeaderLineRefused ==
  ASSUME NEW f \in Token \ {":"}, NEW v \in Token
  PROVE  ProcessRequestLine(HeaderLine(f, v)) = NoRequest
<1> DEFINE t == HeaderLine(f, v)
<1>1. t \in Text /\ Len(t) = 5 /\ t[1] = f /\ t[2] = ":" /\ t[3] = SP
  BY HeaderLineIs
<1>2. f # SP /\ ":" # SP
  BY DEF Token, SP
<1> HIDE DEF t
<1>3. 3 \in 1 .. Len(t) /\ \A j \in 1 .. 3 - 1 : t[j] # SP
  BY <1>1, <1>2
<1>4. Find(t, SP, 1) = 3
  BY <1>1, <1>3, FindIs
<1>5. Len(Before(t, 3)) = 3 - 1
  BY <1>1, <1>3, PartLengths
<1>6. Len(Before(t, Find(t, SP, 1))) # 1
  BY <1>4, <1>5
<1> QED
  BY <1>6, NotRequestLine DEF t

(* ... nor is the empty line, which ends the headers. *)
LEMMA EmptyLineRefused == ProcessRequestLine(<<>>) = NoRequest
<1>1. <<>> \in Text /\ Len(<<>>) = 0
  BY DEF Text
<1>2. Find(<<>>, SP, 1) = 0
  BY <1>1, FindNone
<1> QED
  BY <1>2 DEF ProcessRequestLine

(* Behind other text on its line a request line is none any more: what then is
   between the first two spaces, or behind them, is too long. *)
LEMMA BehindTextRefused ==
  ASSUME NEW r \in Request, NEW body \in Text, body # <<>>
  PROVE  ProcessRequestLine(body \o RequestLine(r)) = NoRequest
<1> DEFINE l == RequestLine(r)
           n == Len(r.query)
           b == Len(body)
           t == body \o l
<1>1. l \in Text /\ n \in Nat /\ Len(l) = n + 6
  BY RequestLineIs
<1>2. \A i \in 1 .. Len(l) : l[i] = SP <=> (i = 2 \/ i = n + 4)
  BY RequestLineSpaces
<1>3. b \in Nat \ {0}
  BY DEF Text
<1>4. /\ t \in Text /\ Len(t) = b + Len(l)
      /\ \A i \in 1 .. Len(l) : t[b + i] = l[i]
  BY <1>1, JoinedWords
<1> HIDE DEF l, n, b, t
<1>5. t[b + 2] = SP /\ b + 2 \in 1 .. Len(t)
  BY <1>1, <1>2, <1>3, <1>4
<1> DEFINE space == Find(t, SP, 1)
           space2 == Find(t, SP, space + 1)
<1>6. space \in 1 .. b + 2 /\ t[space] = SP
  <2>1. space # 0
    <3>1. Len(t) \in Nat
      BY <1>4 DEF Text
    <3>2. \E j \in 1 .. Len(t) : t[j] = SP
      BY <1>5
    <3> QED
      BY <1>4, <3>2, SomeFound
  <2>2. space \in 1 .. Len(t) /\ t[space] = SP /\ \A j \in 1 .. space - 1 : t[j] # SP
    BY <1>4, <2>1, FindFinds
  <2> HIDE DEF space
  <2> QED
    BY <1>3, <1>5, <2>2
<1>7. CASE Len(Before(t, space)) # 1
  BY <1>7, NotRequestLine DEF t, l
<1>8. CASE Len(Before(t, space)) = 1
  <2>1. space = 2
    <3>1. Len(Before(t, space)) = space - 1
      <4>1. space \in 1 .. Len(t)
        BY <1>1, <1>3, <1>4, <1>6
      <4> HIDE DEF space
      <4> QED
        BY <1>4, <4>1, PartLengths
    <3>2. space - 1 = 1
      BY <1>8, <3>1
    <3>3. space \in Nat
      BY <1>3, <1>6
    <3> HIDE DEF space
    <3> QED
      BY <3>2, <3>3
  <2>2. space2 \in 3 .. b + 2
    <3>1. space + 1 = 3
      BY <2>1
    <3>2. b + 2 \in 3 .. Len(t)
      BY <1>3, <1>5
    <3>3. Find(t, SP, 3) # 0
      BY <1>4, <1>5, <3>2, SomeFound
    <3>4. Find(t, SP, 3) \in 3 .. Len(t) /\ \A j \in 3 .. Find(t, SP, 3) - 1 : t[j] # SP
      BY <1>4, <3>3, FindFinds
    <3>5. space2 = Find(t, SP, 3)
      BY <3>1
    <3> HIDE DEF space2, space
    <3> QED
      BY <1>3, <1>5, <3>2, <3>4, <3>5
  <2>3. Len(From(t, space2 + 1)) = Len(t) - space2
    <3>1. space2 \in 1 .. Len(t)
      BY <1>1, <1>3, <1>4, <2>2
    <3> HIDE DEF space2
    <3> QED
      BY <1>4, <3>1, PartLengths
  <2>4. Len(From(t, space2 + 1)) # 2
    <3> HIDE DEF space2
    <3>1. Len(t) - space2 # 2
      BY <1>1, <1>3, <1>4, <2>2
    <3> QED
      BY <2>3, <3>1
  <2> QED
    BY <2>4, NotRequestLine DEF t, l
<1> QED
  BY <1>7, <1>8

(* addHeader() gets the field and the value without the spaces around it. *)
LEMMA ColonFound ==
  ASSUME NEW f \in Token \ {":"}, NEW v \in Token
  PROVE  Find(HeaderLine(f, v), ":", 1) = 2
<1> DEFINE t == HeaderLine(f, v)
<1>1. t \in Text /\ Len(t) = 5 /\ t[1] = f /\ t[2] = ":"
  BY HeaderLineIs
<1> HIDE DEF t
<1>2. 2 \in 1 .. Len(t) /\ \A j \in 1 .. 2 - 1 : t[j] # ":"
  BY <1>1
<1>3. Find(t, ":", 1) = 2
  BY <1>1, <1>2, FindIs
<1> QED
  BY <1>3 DEF t

(* The empty line has no colon. *)
LEMMA NoColon == Find(<<>>, ":", 1) = 0
<1>1. <<>> \in Text /\ Len(<<>>) = 0
  BY DEF Text
<1> QED
  BY <1>1, FindNone

(* The spaces around a value are taken away. *)
LEMMA Trimmed ==
  ASSUME NEW v \in Token
  PROVE  TrimRight(TrimLeft(<<SP, v, SP>>)) = <<v>>
<1> DEFINE a == <<SP, v, SP>>
           b == <<v, SP>>
<1>1. v # SP /\ v \in Word /\ SP \in Word
  BY HttpServerAssumption DEF Token
<1>2. /\ a \in Text /\ Len(a) = 3 /\ a[1] = SP /\ a[2] = v /\ a[3] = SP
      /\ b \in Text /\ Len(b) = 2 /\ b[1] = v /\ b[2] = SP
  BY <1>1 DEF Text
<1> HIDE DEF a
<1>3. Inked(a) = {2}
  BY <1>1, <1>2 DEF Inked
<1>4. Min({2}) = 2 /\ Max({1}) = 1
  BY LeastIs, GreatestIs
<1>5. TrimLeft(a) = b
  <2>1. SubSeq(a, 2, 2 + 1) = <<a[2], a[2 + 1]>>
    BY <1>2, TwoWords
  <2>2. From(a, 2) = b
    BY <1>2, <2>1 DEF From
  <2> QED
    BY <1>3, <1>4, <2>2 DEF TrimLeft
<1>6. Inked(b) = {1}
  <2> HIDE DEF b
  <2> QED
    BY <1>1, <1>2 DEF Inked
<1>7. TrimRight(b) = <<v>>
  <2> HIDE DEF b
  <2>1. 1 \in 1 .. Len(b)
    BY <1>2
  <2>2. SubSeq(b, 1, 1) = <<b[1]>>
    BY <1>2, <2>1, OneWord
  <2> QED
    BY <1>2, <1>4, <1>6, <2>2 DEF TrimRight
<1> QED
  BY <1>5, <1>7 DEF a

(* What addHeader() makes of a header line. *)
LEMMA HeaderAdded ==
  ASSUME NEW f \in Token \ {":"}, NEW v \in Token, NEW request
  PROVE  AddHeader(request, HeaderLine(f, v)) =
           [request EXCEPT !.headers = With(@, <<f>>, <<v>>)]
<1> DEFINE t == HeaderLine(f, v)
<1>1. /\ t \in Text /\ Len(t) = 5 /\ t[1] = f /\ t[3] = SP /\ t[4] = v /\ t[5] = SP
  BY HeaderLineIs
<1>2. Find(t, ":", 1) = 2
  BY ColonFound
<1> HIDE DEF t
<1>3. Before(t, 2) = <<f>>
  <2>1. SubSeq(t, 1, 1) = <<t[1]>>
    BY <1>1, OneWord
  <2> QED
    BY <1>1, <2>1 DEF Before
<1>4. From(t, 3) = <<SP, v, SP>>
  <2> DEFINE a == SubSeq(t, 3, 5)
             b == <<SP, v, SP>>
  <2>1. /\ a \in Text /\ Len(a) = 5 - 3 + 1
        /\ \A i \in 1 .. 5 - 3 + 1 : a[i] = t[3 + i - 1]
    <3>1. \A m, n \in Nat : 1 <= m /\ m <= n + 1 /\ n <= Len(t) =>
            /\ SubSeq(t, m, n) \in Text /\ Len(SubSeq(t, m, n)) = n - m + 1
            /\ \A i \in 1 .. n - m + 1 : SubSeq(t, m, n)[i] = t[m + i - 1]
      BY <1>1, PartWords
    <3>2. 3 \in Nat /\ 5 \in Nat /\ 1 <= 3 /\ 3 <= 5 + 1 /\ 5 <= Len(t)
      BY <1>1
    <3> HIDE DEF a
    <3>3. /\ SubSeq(t, 3, 5) \in Text /\ Len(SubSeq(t, 3, 5)) = 5 - 3 + 1
          /\ \A i \in 1 .. 5 - 3 + 1 : SubSeq(t, 3, 5)[i] = t[3 + i - 1]
      BY <3>1, <3>2
    <3> QED
      BY <3>3 DEF a
  <2>2. b \in Text /\ Len(b) = 3 /\ b[1] = SP /\ b[2] = v /\ b[3] = SP
    BY HttpServerAssumption DEF Text, Token
  <2> HIDE DEF a, b
  <2>3. Len(a) = 3 /\ a[1] = t[3] /\ a[2] = t[4] /\ a[3] = t[5]
    BY <2>1
  <2>4. \A i \in 1 .. Len(a) : a[i] = b[i]
    BY <1>1, <2>2, <2>3
  <2>5. a = b
    BY <2>1, <2>2, <2>3, <2>4, SameText
  <2> QED
    BY <1>1, <2>5 DEF From, a, b
<1>5. From(t, 2 + 1) = <<SP, v, SP>>
  BY <1>4
<1>6. TrimRight(TrimLeft(From(t, Find(t, ":", 1) + 1))) = <<v>>
  BY <1>2, <1>5, Trimmed
<1>7. AddHeader(request, t) = [request EXCEPT !.headers = With(@, <<f>>, <<v>>)]
  BY <1>2, <1>3, <1>6 DEF AddHeader
<1> QED
  BY <1>7 DEF t

(* A part of a sequence. *)
LEMMA PartElements ==
  ASSUME NEW S, NEW s \in Seq(S), NEW m \in Nat, NEW n \in Nat,
         1 <= m, m <= n + 1, n <= Len(s)
  PROVE  /\ SubSeq(s, m, n) \in Seq(S) /\ Len(SubSeq(s, m, n)) = n - m + 1
         /\ \A i \in 1 .. n - m + 1 : SubSeq(s, m, n)[i] = s[m + i - 1]
<1> QED
  OBVIOUS

(* A sequence from a place on, of any sequences: the first of them is joined in front of the others. *)
LEMMA FlattenFrom ==
  ASSUME NEW T, NEW s \in Seq(Seq(T)), NEW k \in 1 .. Len(s)
  PROVE  FlattenSeq(SubSeq(s, k, Len(s))) = s[k] \o FlattenSeq(SubSeq(s, k + 1, Len(s)))
<1> DEFINE n == Len(s)
           a == SubSeq(s, k, n)
           b == SubSeq(s, k + 1, n)
           c == <<s[k]>> \o b
<1>1. n \in Nat /\ s[k] \in Seq(T)
  BY ElementOfSeq
<1>2. /\ a \in Seq(Seq(T)) /\ Len(a) = n - k + 1
      /\ \A i \in 1 .. n - k + 1 : a[i] = s[k + i - 1]
  BY <1>1, PartElements
<1>3. /\ b \in Seq(Seq(T)) /\ Len(b) = n - k
      /\ \A i \in 1 .. n - k : b[i] = s[k + i]
  <2> DEFINE m == k + 1
  <2>1. m \in Nat /\ 1 <= m /\ m <= n + 1 /\ n - m + 1 = n - k
        /\ \A i \in 1 .. n - k : m + i - 1 = k + i
    BY <1>1
  <2> HIDE DEF m, n
  <2>2. /\ SubSeq(s, m, n) \in Seq(Seq(T)) /\ Len(SubSeq(s, m, n)) = n - m + 1
        /\ \A i \in 1 .. n - m + 1 : SubSeq(s, m, n)[i] = s[m + i - 1]
    <3>1. n <= Len(s)
      BY <1>1 DEF n
    <3> QED
      BY <1>1, <2>1, <3>1, PartElements
  <2> QED
    BY <1>1, <2>1, <2>2 DEF m
<1> HIDE DEF a, b
<1>4. /\ <<s[k]>> \in Seq(Seq(T)) /\ Len(<<s[k]>>) = 1 /\ <<s[k]>>[1] = s[k]
  BY <1>1
<1>5. /\ c \in Seq(Seq(T)) /\ Len(c) = 1 + Len(b)
      /\ c[1] = s[k] /\ \A i \in 1 .. Len(b) : c[1 + i] = b[i]
  <2> DEFINE d == <<s[k]>>
  <2>1. d \in Seq(Seq(T)) /\ Len(d) = 1 /\ d[1] = s[k]
    BY <1>4
  <2> HIDE DEF d
  <2>2. /\ d \o b \in Seq(Seq(T)) /\ Len(d \o b) = Len(d) + Len(b)
        /\ \A i \in 1 .. Len(d) + Len(b) :
              (d \o b)[i] = IF i <= Len(d) THEN d[i] ELSE b[i - Len(d)]
    BY <1>3, <2>1, ConcatProperties
  <2>3. c = d \o b
    BY DEF d
  <2>4. Len(b) \in Nat
    BY <1>1, <1>3
  <2> HIDE DEF c
  <2>5. \A i \in 1 .. Len(b) : 1 + i \in 1 .. 1 + Len(b) /\ ~(1 + i <= 1) /\ 1 + i - 1 = i
    BY <2>4
  <2>6. 1 \in 1 .. 1 + Len(b)
    BY <2>4
  <2> DEFINE x == d \o b
  <2>7. /\ x \in Seq(Seq(T)) /\ Len(x) = 1 + Len(b)
        /\ \A i \in 1 .. 1 + Len(b) : x[i] = IF i <= 1 THEN d[i] ELSE b[i - 1]
    BY <2>1, <2>2
  <2> HIDE DEF x
  <2>8. x[1] = s[k]
    BY <2>1, <2>6, <2>7
  <2>9. \A i \in 1 .. Len(b) : x[1 + i] = b[i]
    BY <2>5, <2>7
  <2>10. c = x
    BY <2>3 DEF x
  <2> QED
    BY <2>7, <2>8, <2>9, <2>10
<1>6. FlattenSeq(c) = s[k] \o FlattenSeq(b)
  BY <1>1, <1>3, FlattenCons
<1> HIDE DEF c, n
<1>7. ASSUME NEW i \in 1 .. Len(a) PROVE a[i] = c[i]
  <2>1. CASE i = 1
    BY <1>1, <1>2, <1>5, <2>1
  <2>2. CASE i # 1
    <3> DEFINE j == i - 1
    <3>1. j \in 1 .. n - k /\ i = 1 + j /\ k + i - 1 = k + j /\ i \in 1 .. n - k + 1
      BY <1>1, <1>2, <2>2
    <3> HIDE DEF j
    <3> QED
      BY <1>2, <1>3, <1>5, <3>1
  <2> QED
    BY <2>1, <2>2
<1>8. Len(a) = Len(c)
  BY <1>1, <1>2, <1>3, <1>5
<1>9. a = c
  BY <1>2, <1>5, <1>7, <1>8, SeqEqual
<1> QED
  BY <1>6, <1>9 DEF a, b, n

(* Joins of texts are regrouped with this. *)
LEMMA CatAssociates ==
  /\ \A a, b \in Text : Cat(a, b) \in Text
  /\ \A a, b, c \in Text : Cat(Cat(a, b), c) = Cat(a, Cat(b, c))
  /\ \A a \in Text : Cat(<<>>, a) = a
<1>1. \A a, b \in Text : Cat(a, b) \in Text
  BY JoinedWords DEF Cat
<1>2. ASSUME NEW a \in Text, NEW b \in Text, NEW c \in Text
      PROVE  Cat(Cat(a, b), c) = Cat(a, Cat(b, c))
  BY ConcatAssociative DEF Cat, Text
<1>3. \A a \in Text : Cat(<<>>, a) = a
  BY ConcatEmptySeq DEF Cat, Text
<1> QED
  BY <1>1, <1>2, <1>3

(* CR and LF are words. *)
LEMMA LineEndIsText == LineEnd \in Text
<1> QED
  BY HttpServerAssumption DEF LineEnd, Text

(* The header lines of a request and what is behind some of them are text. *)
LEMMA HeaderLinesAre ==
  ASSUME NEW r \in Request
  PROVE  /\ HeaderLines(r) \in Seq(Text) /\ Len(HeaderLines(r)) = Len(r.headers)
         /\ \A i \in 1 .. Len(r.headers) :
               /\ r.headers[i][1] \in Token \ {":"} /\ r.headers[i][2] \in Token
               /\ HeaderLine(r.headers[i][1], r.headers[i][2]) \in Text
               /\ HeaderLines(r)[i] =
                    Cat(HeaderLine(r.headers[i][1], r.headers[i][2]), LineEnd)
<1> DEFINE n == Len(r.headers)
<1>1. r.headers \in Seq((Token \ {":"}) \X Token)
  BY RequestParts
<1>2. n \in Nat /\ DOMAIN r.headers = 1 .. n
  BY <1>1
<1>3. ASSUME NEW i \in 1 .. n
      PROVE  /\ r.headers[i][1] \in Token \ {":"} /\ r.headers[i][2] \in Token
             /\ HeaderLine(r.headers[i][1], r.headers[i][2]) \in Text
             /\ Cat(HeaderLine(r.headers[i][1], r.headers[i][2]), LineEnd) \in Text
  <2>1. r.headers[i] \in (Token \ {":"}) \X Token
    BY <1>1, ElementOfSeq
  <2>2. r.headers[i][1] \in Token \ {":"} /\ r.headers[i][2] \in Token
    BY <2>1
  <2>3. HeaderLine(r.headers[i][1], r.headers[i][2]) \in Text
    BY <2>2, HeaderLineIs
  <2>4. Cat(HeaderLine(r.headers[i][1], r.headers[i][2]), LineEnd) \in Text
    BY <2>3, LineEndIsText, CatAssociates
  <2> QED
    BY <2>2, <2>3, <2>4
<1>4. HeaderLines(r) = [i \in 1 .. n |-> Cat(HeaderLine(r.headers[i][1], r.headers[i][2]), LineEnd)]
  BY <1>2 DEF HeaderLines, Cat
<1>5. HeaderLines(r) \in [1 .. n -> Text]
  BY <1>3, <1>4
<1>6. HeaderLines(r) \in Seq(Text) /\ Len(HeaderLines(r)) = n
  BY <1>2, <1>5
<1> QED
  BY <1>3, <1>4, <1>6

(* What is behind a header line is text. *)
LEMMA HeadersAreText ==
  ASSUME NEW r \in Request, NEW j \in 0 .. Len(r.headers)
  PROVE  Headers(r, j) \in Text /\ r.body \in Text /\ Behind(r, j) \in Text
<1> DEFINE s == HeaderLines(r)
           m == j + 1
           p == SubSeq(s, m, Len(s))
<1>1. s \in Seq(Text) /\ Len(s) = Len(r.headers)
  BY HeaderLinesAre
<1>2. m \in Nat /\ Len(s) \in Nat /\ 1 <= m /\ m <= Len(s) + 1
  BY <1>1
<1> HIDE DEF s, m
<1>3. p \in Seq(Text)
  BY <1>1, <1>2, PartElements
<1>4. FlattenSeq(p) \in Seq(Word)
  <2> HIDE DEF p
  <2>1. p \in Seq(Seq(Word))
    BY <1>3 DEF Text
  <2> QED
    BY <2>1, FlattenIsSeq
<1>5. FlattenSeq(p) = Headers(r, j)
  BY <1>1 DEF Headers, s, m
<1>6. r.body \in Text
  BY RequestParts DEF Text
<1>7. Headers(r, j) \in Text
  BY <1>4, <1>5 DEF Text
<1>8. Cat(LineEnd, r.body) \in Text
  BY <1>6, LineEndIsText, CatAssociates
<1>9. Behind(r, j) \in Text
  BY <1>7, <1>8, CatAssociates DEF Behind
<1> QED
  BY <1>6, <1>7, <1>9

(* Behind j header lines, with any text behind the request, stands the next of them ... *)
LEMMA NextHeader ==
  ASSUME NEW r \in Request, NEW j \in 1 .. Len(r.headers), NEW x \in Text
  PROVE  Cat(Behind(r, j - 1), x) =
           Cat(HeaderLine(r.headers[j][1], r.headers[j][2]),
               Cat(LineEnd, Cat(Behind(r, j), x)))
<1> DEFINE s == HeaderLines(r)
           l == HeaderLine(r.headers[j][1], r.headers[j][2])
           h == Headers(r, j)
           b == Cat(LineEnd, r.body)
<1>1. /\ s \in Seq(Text) /\ Len(s) = Len(r.headers) /\ l \in Text /\ s[j] = Cat(l, LineEnd)
  BY HeaderLinesAre
<1>2. FlattenSeq(SubSeq(s, j, Len(s))) = Cat(s[j], FlattenSeq(SubSeq(s, j + 1, Len(s))))
  <2>1. s \in Seq(Seq(Word)) /\ j \in 1 .. Len(s)
    BY <1>1 DEF Text
  <2> HIDE DEF s
  <2> QED
    BY <2>1, FlattenFrom DEF Cat
<1>3. j - 1 + 1 = j
  OBVIOUS
<1>4. Headers(r, j - 1) = Cat(Cat(l, LineEnd), h)
  <2> HIDE DEF s, l
  <2>1. Headers(r, j - 1) = FlattenSeq(SubSeq(s, j, Len(s)))
    BY <1>1, <1>3 DEF Headers, s
  <2>2. h = FlattenSeq(SubSeq(s, j + 1, Len(s)))
    BY <1>1 DEF Headers, s
  <2> HIDE DEF h
  <2> QED
    BY <1>1, <1>2, <2>1, <2>2
<1>5. h \in Text /\ r.body \in Text /\ LineEnd \in Text
  BY HeadersAreText, LineEndIsText
<1>6. b \in Text
  BY <1>5, CatAssociates
<1>7. Behind(r, j - 1) = Cat(Cat(Cat(l, LineEnd), h), b) /\ Behind(r, j) = Cat(h, b)
  BY <1>4 DEF Behind
<1> HIDE DEF l, h, b
<1>8. Cat(l, LineEnd) \in Text /\ Cat(h, b) \in Text /\ Cat(Cat(h, b), x) \in Text
  BY <1>1, <1>5, <1>6, CatAssociates
<1>9. Cat(Cat(Cat(l, LineEnd), h), b) = Cat(Cat(l, LineEnd), Cat(h, b))
  BY <1>5, <1>6, <1>8, CatAssociates
<1>10. Cat(Cat(Cat(l, LineEnd), Cat(h, b)), x) = Cat(Cat(l, LineEnd), Cat(Cat(h, b), x))
  BY <1>8, CatAssociates
<1>11. Cat(Cat(l, LineEnd), Cat(Cat(h, b), x)) = Cat(l, Cat(LineEnd, Cat(Cat(h, b), x)))
  BY <1>1, <1>5, <1>8, CatAssociates
<1> QED
  BY <1>7, <1>9, <1>10, <1>11 DEF l

(* ... and behind all of them the empty line. *)
LEMMA LastHeader ==
  ASSUME NEW r \in Request, NEW x \in Text
  PROVE  Cat(Behind(r, Len(r.headers)), x) = Cat(<<>>, Cat(LineEnd, Cat(r.body, x)))
<1> DEFINE s == HeaderLines(r)
           n == Len(r.headers)
<1>1. s \in Seq(Text) /\ Len(s) = n /\ n \in Nat
  BY HeaderLinesAre
<1>2. SubSeq(s, n + 1, n) = <<>>
  BY <1>1
<1>3. Headers(r, n) = <<>>
  BY <1>2, FlattenEmpty DEF Headers
<1>4. r.body \in Text /\ LineEnd \in Text
  BY <1>1, HeadersAreText, LineEndIsText
<1>5. Behind(r, n) = Cat(LineEnd, r.body)
  BY <1>3, <1>4, CatAssociates DEF Behind
<1>6. Cat(r.body, x) \in Text /\ Cat(LineEnd, Cat(r.body, x)) \in Text
  BY <1>4, CatAssociates
<1>7. Cat(Cat(LineEnd, r.body), x) = Cat(LineEnd, Cat(r.body, x))
  BY <1>4, CatAssociates
<1> QED
  BY <1>5, <1>6, <1>7, CatAssociates

(* A request is its line and what is behind it. *)
LEMMA EncodeIs ==
  ASSUME NEW r \in Request
  PROVE  /\ Encode(r) = Cat(RequestLine(r), Cat(LineEnd, Behind(r, 0)))
         /\ Encode(r) \in Text /\ RequestLine(r) \in Text
<1> DEFINE l == RequestLine(r)
           e == LineEnd
           h == Headers(r, 0)
           s == HeaderLines(r)
           b == r.body
<1>1. l \in Text /\ e \in Text
  BY RequestLineIs, LineEndIsText
<1>2. s \in Seq(Text) /\ Len(s) = Len(r.headers) /\ Len(s) \in Nat
  BY HeaderLinesAre
<1>3. h \in Text /\ b \in Text
  <2>1. 0 \in 0 .. Len(r.headers)
    BY <1>2
  <2> QED
    BY <2>1, HeadersAreText
<1>4. SubSeq(s, 0 + 1, Len(r.headers)) = s
  <2> HIDE DEF s
  <2>1. SubSeq(s, 1, Len(s)) = s
    BY <1>2
  <2> QED
    BY <1>2, <2>1
<1>5. h = FlattenSeq(s)
  BY <1>4 DEF Headers
<1>6. Encode(r) = Cat(Cat(Cat(Cat(l, e), FlattenSeq(s)), e), b)
  BY DEF Encode, HeaderLines, Cat, LineEnd
<1>7. Behind(r, 0) = Cat(h, Cat(e, b))
  BY DEF Behind
<1> HIDE DEF l, e, h, s, b
<1>8. Cat(l, e) \in Text /\ Cat(Cat(l, e), h) \in Text /\ Cat(e, b) \in Text
  BY <1>1, <1>3, CatAssociates
<1>9. Cat(Cat(Cat(Cat(l, e), h), e), b) = Cat(Cat(Cat(l, e), h), Cat(e, b))
  BY <1>1, <1>3, <1>8, CatAssociates
<1>10. Cat(Cat(Cat(l, e), h), Cat(e, b)) = Cat(Cat(l, e), Cat(h, Cat(e, b)))
  BY <1>3, <1>8, CatAssociates
<1>11. Cat(h, Cat(e, b)) \in Text /\ Cat(e, Cat(h, Cat(e, b))) \in Text
  BY <1>1, <1>3, <1>8, CatAssociates
<1>12. Cat(Cat(l, e), Cat(h, Cat(e, b))) = Cat(l, Cat(e, Cat(h, Cat(e, b))))
  BY <1>1, <1>11, CatAssociates
<1>13. Cat(l, Cat(e, Cat(h, Cat(e, b)))) \in Text
  BY <1>1, <1>11, CatAssociates
<1> QED
  BY <1>1, <1>5, <1>6, <1>7, <1>9, <1>10, <1>12, <1>13 DEF l, e

(* What the peer sends from a request on. *)
LEMMA ComingIs ==
  ASSUME script \in Seq(Request), NEW k \in 1 .. Len(script) + 1
  PROVE  /\ Coming(k) \in Text
         /\ k = Len(script) + 1 => Coming(k) = <<>>
         /\ k <= Len(script) =>
              Coming(k) = Cat(RequestLine(script[k]),
                              Cat(LineEnd, Cat(Behind(script[k], 0), Coming(k + 1))))
<1> DEFINE n == Len(script)
           s == Encoded
<1>1. n \in Nat /\ DOMAIN script = 1 .. n /\ \A i \in 1 .. n : script[i] \in Request
  BY ElementOfSeq
<1>2. s \in Seq(Text) /\ Len(s) = n /\ \A i \in 1 .. n : s[i] = Encode(script[i])
  <2>1. s = [i \in 1 .. n |-> Encode(script[i])]
    BY <1>1 DEF Encoded
  <2>2. \A i \in 1 .. n : Encode(script[i]) \in Text
    BY <1>1, EncodeIs
  <2>3. s \in [1 .. n -> Text]
    BY <2>1, <2>2
  <2> QED
    BY <1>1, <2>1, <2>3
<1>3. s \in Seq(Seq(Word))
  BY <1>2 DEF Text
<1> HIDE DEF s, n
<1>4. Coming(k) = FlattenSeq(SubSeq(s, k, n)) /\ Coming(k + 1) = FlattenSeq(SubSeq(s, k + 1, n))
  BY DEF Coming, s, n
<1>5. k \in 1 .. n + 1
  BY DEF n
<1>6. \A i \in 1 .. n + 1 : FlattenSeq(SubSeq(s, i, n)) \in Text
  <2> SUFFICES ASSUME NEW i \in 1 .. n + 1 PROVE FlattenSeq(SubSeq(s, i, n)) \in Text
    OBVIOUS
  <2>1. SubSeq(s, i, n) \in Seq(Seq(Word))
    BY <1>1, <1>2, <1>3, PartElements
  <2> QED
    BY <2>1, FlattenIsSeq DEF Text
<1>7. CASE k = n + 1
  <2>1. SubSeq(s, n + 1, n) = <<>>
    BY <1>1, <1>2
  <2>2. Coming(k) = <<>>
    BY <1>4, <1>7, <2>1, FlattenEmpty
  <2>3. ~(k <= n)
    BY <1>1, <1>7
  <2> QED
    BY <1>4, <1>5, <1>6, <2>2, <2>3 DEF n
<1>8. CASE k # n + 1
  <2>1. k \in 1 .. n /\ k + 1 \in 1 .. n + 1
    BY <1>1, <1>5, <1>8
  <2> DEFINE r == script[k]
             l == RequestLine(r)
             e == LineEnd
             b == Behind(r, 0)
             c == Coming(k + 1)
  <2>2. FlattenSeq(SubSeq(s, k, Len(s))) = Cat(s[k], FlattenSeq(SubSeq(s, k + 1, Len(s))))
    <3>1. k \in 1 .. Len(s)
      BY <1>2, <2>1
    <3> QED
      BY <1>3, <3>1, FlattenFrom DEF Cat
  <2>3. r \in Request
    BY <1>1, <2>1
  <2>4. 0 \in 0 .. Len(r.headers)
    BY <2>3, HeaderLinesAre
  <2>5. /\ l \in Text /\ e \in Text /\ b \in Text /\ s[k] = Cat(l, Cat(e, b))
    BY <1>2, <2>1, <2>3, <2>4, EncodeIs, LineEndIsText, HeadersAreText
  <2>6. c \in Text
    BY <1>4, <1>6, <2>1
  <2>7. Coming(k) = Cat(s[k], c)
    BY <1>2, <1>4, <2>2
  <2> HIDE DEF r, l, e, b, c
  <2>8. Cat(e, b) \in Text /\ Cat(Cat(e, b), c) = Cat(e, Cat(b, c))
    BY <2>5, <2>6, CatAssociates
  <2>9. Cat(Cat(l, Cat(e, b)), c) = Cat(l, Cat(Cat(e, b), c))
    BY <2>5, <2>6, <2>8, CatAssociates
  <2>10. Coming(k) = Cat(l, Cat(e, Cat(b, c)))
    BY <2>5, <2>7, <2>8, <2>9
  <2> QED
    BY <1>4, <1>5, <1>6, <1>8, <2>10 DEF r, l, e, b, c, n
<1> QED
  BY <1>7, <1>8

(* Where findCRLF() finds nothing there is no line end. *)
LEMMA NoLineEnd ==
  ASSUME NEW t \in Text, FindCRLF(t) = 0, NEW i \in 1 .. Len(t)
  PROVE  ~IsLineEnd(t, i)
<1> DEFINE crlfs == {n \in 1..(Len(t) - 1) : t[n] = CR /\ t[n + 1] = LF}
<1>1. Len(t) \in Nat
  BY DEF Text
<1>2. crlfs = {}
  <2> SUFFICES ASSUME crlfs # {} PROVE FALSE
    OBVIOUS
  <2>1. crlfs \in SUBSET Nat /\ 0 \notin crlfs
    BY <1>1
  <2>2. Min(crlfs) = 0
    BY DEF FindCRLF
  <2> HIDE DEF crlfs
  <2> QED
    BY <2>1, <2>2, HasLeast
<1>3. i \notin crlfs
  BY <1>2
<1> QED
  BY <1>1, <1>3 DEF IsLineEnd

(* Text whose first line is refused. *)
LEMMA RefusedFirst ==
  ASSUME NEW line \in Text, NEW rest \in Text, OneLine(line),
         ProcessRequestLine(line) = NoRequest
  PROVE  Junk(Cat(line, Cat(LineEnd, rest)))
<1>1. LET t == Cat(line, Cat(LineEnd, rest))
      IN  t \in Text /\ FindCRLF(t) = Len(line) + 1 /\ Before(t, Len(line) + 1) = line
  BY FirstLine
<1> QED
  BY <1>1 DEF Junk, LooksLikeRequest

(* So is what is left of the headers of a request, from wherever one starts, ... *)
LEMMA HeadersAreJunk ==
  ASSUME NEW r \in Request, NEW j \in 0 .. Len(r.headers), NEW x \in Text
  PROVE  Junk(Cat(Behind(r, j), x))
<1> DEFINE n == Len(r.headers)
<1>1. n \in Nat
  BY HeaderLinesAre
<1>2. CASE j = n
  <2>1. Cat(Behind(r, j), x) = Cat(<<>>, Cat(LineEnd, Cat(r.body, x)))
    BY <1>2, LastHeader
  <2>2. r.body \in Text
    BY HeadersAreText
  <2>3. Cat(r.body, x) \in Text
    BY <2>2, CatAssociates
  <2>4. <<>> \in Text /\ \A i \in 1 .. Len(<<>>) : <<>>[i] # CR
    BY DEF Text
  <2>5. Junk(Cat(<<>>, Cat(LineEnd, Cat(r.body, x))))
    BY <2>3, <2>4, EmptyLineRefused, RefusedFirst DEF OneLine
  <2> QED
    BY <2>1, <2>5
<1>3. CASE j # n
  <2> DEFINE k == j + 1
             f == r.headers[k][1]
             v == r.headers[k][2]
  <2>1. k \in 1 .. n /\ k \in 0 .. n /\ k - 1 = j
    BY <1>1, <1>3
  <2>2. f \in Token \ {":"} /\ v \in Token
    BY <2>1, HeaderLinesAre
  <2>3. Behind(r, k) \in Text
    BY <2>1, HeadersAreText
  <2>4. Cat(Behind(r, k - 1), x) = Cat(HeaderLine(f, v), Cat(LineEnd, Cat(Behind(r, k), x)))
    BY <2>1, NextHeader
  <2> HIDE DEF f, v, k
  <2>5. Cat(Behind(r, k), x) \in Text
    BY <2>3, CatAssociates
  <2>6. HeaderLine(f, v) \in Text /\ \A i \in 1 .. Len(HeaderLine(f, v)) : HeaderLine(f, v)[i] # CR
    BY <2>2, HeaderLineIs
  <2>7. ProcessRequestLine(HeaderLine(f, v)) = NoRequest
    BY <2>2, HeaderLineRefused
  <2>8. Junk(Cat(HeaderLine(f, v), Cat(LineEnd, Cat(Behind(r, k), x))))
    BY <2>5, <2>6, <2>7, RefusedFirst DEF OneLine
  <2> QED
    BY <2>1, <2>4, <2>8
<1> QED
  BY <1>2, <1>3

(* ... and a body that was left and does not look like a request, with the line of
   the next request behind it. *)
LEMMA BodyIsJunk ==
  ASSUME script \in Seq(Request), NEW k \in 1 .. Len(script) + 1,
         NEW body \in Text, body # <<>>, Junk(body)
  PROVE  Junk(Cat(body, Coming(k)))
<1>1. CASE FindCRLF(body) # 0
  <2>1. Coming(k) \in Text
    BY ComingIs
  <2>2. /\ FindCRLF(Cat(body, Coming(k))) = FindCRLF(body)
        /\ Before(Cat(body, Coming(k)), FindCRLF(body)) = Before(body, FindCRLF(body))
    BY <1>1, <2>1, SameLineEnd DEF Cat
  <2> QED
    BY <2>2 DEF Junk, LooksLikeRequest
<1>2. CASE FindCRLF(body) = 0 /\ k = Len(script) + 1
  <2>1. Coming(k) = <<>>
    BY <1>2, ComingIs
  <2>2. Cat(body, <<>>) = body
    BY ConcatEmptySeq DEF Cat, Text
  <2> QED
    BY <2>1, <2>2
<1>3. CASE FindCRLF(body) = 0 /\ k # Len(script) + 1
  <2> DEFINE r == script[k]
             l == RequestLine(r)
             x == Cat(Behind(r, 0), Coming(k + 1))
             t == Cat(body, l)
  <2>1. k \in 1 .. Len(script) /\ k <= Len(script) /\ k + 1 \in 1 .. Len(script) + 1
    BY <1>3
  <2>2. r \in Request
    BY <2>1, ElementOfSeq
  <2>3. Coming(k) = Cat(l, Cat(LineEnd, x))
    BY <2>1, ComingIs
  <2>4. 0 \in 0 .. Len(r.headers)
    BY <2>2, HeaderLinesAre
  <2>5. Behind(r, 0) \in Text /\ Coming(k + 1) \in Text
    BY <2>1, <2>2, <2>4, HeadersAreText, ComingIs
  <2>6. x \in Text
    BY <2>5, CatAssociates
  <2>7. l \in Text /\ (\A i \in 1 .. Len(l) : l[i] # CR) /\ Len(l) >= 1 /\ l[1] # LF
    <3>1. Len(l) = Len(r.query) + 6 /\ Len(r.query) \in Nat /\ l \in Text /\ l[1] = r.method
      BY <2>2, RequestLineIs
    <3>2. r.method # LF
      BY <2>2, RequestParts DEF Token
    <3> HIDE DEF l
    <3>3. Len(l) >= 1
      BY <3>1
    <3> QED
      BY <2>2, <3>1, <3>2, <3>3, RequestLineSpaces DEF l
  <2>8. ProcessRequestLine(t) = NoRequest
    BY <2>2, BehindTextRefused DEF Cat
  <2> HIDE DEF r, l, x
  <2>9. t \in Text /\ OneLine(t)
    <3>1. /\ t \in Text /\ Len(t) = Len(body) + Len(l)
          /\ \A i \in 1 .. Len(body) : t[i] = body[i]
          /\ \A i \in 1 .. Len(l) : t[Len(body) + i] = l[i]
      BY <2>7, JoinedWords DEF Cat
    <3>2. Len(body) \in Nat /\ Len(l) \in Nat
      BY <2>7 DEF Text
    <3> HIDE DEF t
    <3>3. ASSUME NEW i \in 1 .. Len(t), t[i] = CR
          PROVE  i < Len(t) /\ t[i + 1] # LF
      <4>1. i <= Len(body)
        <5> SUFFICES ASSUME i > Len(body) PROVE FALSE
          BY <3>1, <3>2
        <5> DEFINE j == i - Len(body)
        <5>1. j \in 1 .. Len(l) /\ i = Len(body) + j
          BY <3>1, <3>2
        <5> HIDE DEF j
        <5> QED
          BY <2>7, <3>1, <3>3, <5>1
      <4>2. CASE i < Len(body)
        <5>1. ~IsLineEnd(body, i) /\ body[i] = CR /\ i + 1 \in 1 .. Len(body)
          BY <1>3, <3>1, <3>2, <3>3, <4>2, NoLineEnd
        <5>2. t[i + 1] = body[i + 1] /\ body[i + 1] # LF
          BY <3>1, <3>2, <5>1 DEF IsLineEnd
        <5> QED
          BY <2>7, <3>1, <3>2, <4>2, <5>2
      <4>3. CASE i = Len(body)
        <5>1. t[Len(body) + 1] = l[1]
          BY <2>7, <3>1, <3>2
        <5> QED
          BY <2>7, <3>1, <3>2, <4>3, <5>1
      <4> QED
        BY <3>2, <4>1, <4>2, <4>3
    <3> QED
      BY <3>1, <3>3 DEF OneLine
  <2>10. Junk(Cat(t, Cat(LineEnd, x)))
    <3> HIDE DEF t
    <3> QED
      BY <2>6, <2>8, <2>9, RefusedFirst
  <2>11. Cat(t, Cat(LineEnd, x)) = Cat(body, Cat(l, Cat(LineEnd, x)))
    <3>1. Cat(LineEnd, x) \in Text
      BY <2>6, LineEndIsText, CatAssociates
    <3> QED
      BY <2>7, <3>1, CatAssociates
  <2> QED
    BY <2>3, <2>10, <2>11
<1> QED
  BY <1>1, <1>2, <1>3

(* A refused first line is refused as soon as it is in the buffer. *)
LEMMA JunkRefused ==
  ASSUME NEW a \in Text, NEW b \in Text, Junk(Cat(a, b)), FindCRLF(a) # 0
  PROVE  ProcessRequestLine(Before(a, FindCRLF(a))) = NoRequest
<1>1. /\ FindCRLF(Cat(a, b)) = FindCRLF(a)
      /\ Before(Cat(a, b), FindCRLF(a)) = Before(a, FindCRLF(a))
  BY SameLineEnd DEF Cat
<1> QED
  BY <1>1 DEF Junk, LooksLikeRequest

-----------------------------------------------------------------------------
(* The request that the context builds up.                                 *)

(* The request line alone is what r says without its headers. *)
LEMMA NoHeaderYet ==
  ASSUME NEW r \in Request
  PROVE  PartOf(Told(r, <<>>), r, 0)
<1>1. DOMAIN <<>> = {} /\ <<>> = [f \in DOMAIN <<>> |-> <<>>[f]]
  OBVIOUS
<1>2. Told(r, <<>>).headers = <<>>
  BY DEF Told
<1>3. {<<r.headers[i][1]>> : i \in 1 .. 0} = {} /\ 1 .. 0 = {}
  OBVIOUS
<1> QED
  BY <1>1, <1>2, <1>3 DEF PartOf, Told

(* A header line read is one more of what r says, ... *)
LEMMA OneMoreHeader ==
  ASSUME NEW r \in Request, NEW j \in 1 .. Len(r.headers), NEW request,
         PartOf(request, r, j - 1)
  PROVE  PartOf(AddHeader(request, HeaderLine(r.headers[j][1], r.headers[j][2])), r, j)
<1> DEFINE g == request.headers
           f == r.headers[j][1]
           v == r.headers[j][2]
           h == With(g, <<f>>, <<v>>)
           fields == {<<r.headers[i][1]>> : i \in 1 .. j - 1}
<1>1. /\ request = Told(r, g)
      /\ g = [x \in DOMAIN g |-> g[x]]
      /\ DOMAIN g = fields
      /\ \A i \in 1 .. j - 1 : g[<<r.headers[i][1]>>] = <<r.headers[i][2]>>
  BY DEF PartOf, Told
<1>2. f \in Token \ {":"} /\ v \in Token
  BY HeaderLinesAre
<1>3. /\ r.headers \in Seq((Token \ {":"}) \X Token)
      /\ \A i, k \in DOMAIN r.headers : r.headers[i][1] = r.headers[k][1] => i = k
  BY RequestParts
<1>4. Len(r.headers) \in Nat /\ DOMAIN r.headers = 1 .. Len(r.headers)
  BY <1>3
<1>5. AddHeader(request, HeaderLine(f, v)) = [request EXCEPT !.headers = h]
  BY <1>2, HeaderAdded
<1>6. [request EXCEPT !.headers = h] = Told(r, h)
  <2> HIDE DEF g, h
  <2> QED
    BY <1>1 DEF Told
<1>7. h = [x \in fields \cup {<<f>>} |-> IF x = <<f>> THEN <<v>> ELSE g[x]]
  <2>1. DOMAIN g = fields
    BY <1>1
  <2> HIDE DEF g, fields, f, v
  <2> QED
    BY <2>1 DEF With
<1>8. fields \cup {<<f>>} = {<<r.headers[i][1]>> : i \in 1 .. j}
  BY <1>4
<1>9. ASSUME NEW i \in 1 .. j PROVE h[<<r.headers[i][1]>>] = <<r.headers[i][2]>>
  <2>1. CASE i = j
    <3>1. <<f>> \in fields \cup {<<f>>}
      OBVIOUS
    <3> HIDE DEF h, fields
    <3> QED
      BY <1>7, <2>1, <3>1
  <2>2. CASE i # j
    <3>1. i \in 1 .. j - 1 /\ r.headers[i][1] # f
      <4>1. i \in 1 .. j - 1 /\ i \in DOMAIN r.headers /\ j \in DOMAIN r.headers
        BY <1>4, <2>2
      <4> QED
        BY <1>3, <2>2, <4>1
    <3>2. <<r.headers[i][1]>> \in fields /\ <<r.headers[i][1]>> # <<f>>
      BY <3>1
    <3> HIDE DEF h, fields, f, v, g
    <3> QED
      BY <1>1, <1>7, <3>1, <3>2
  <2> QED
    BY <2>1, <2>2
<1>10. DOMAIN h = {<<r.headers[i][1]>> : i \in 1 .. j} /\ h = [x \in DOMAIN h |-> h[x]]
  <2> HIDE DEF h, fields, f, v, g
  <2> QED
    BY <1>7, <1>8
<1>11. Told(r, h).headers = h
  BY DEF Told
<1> HIDE DEF h, f, v
<1>12. PartOf(Told(r, h), r, j)
  BY <1>9, <1>10, <1>11 DEF PartOf, Told
<1> QED
  BY <1>5, <1>6, <1>12 DEF f, v

(* ... and with all of them it is r, as the answer tells it. *)
LEMMA AllHeaders ==
  ASSUME NEW r \in Request, NEW request, PartOf(request, r, Len(r.headers))
  PROVE  request = Read(r)
<1> DEFINE g == request.headers
           n == Len(r.headers)
           fields == {<<r.headers[i][1]>> : i \in DOMAIN r.headers}
           Value(f) == LET i == CHOOSE i \in DOMAIN r.headers : <<r.headers[i][1]>> = f
                       IN  <<r.headers[i][2]>>
           val == [f \in fields |-> Value(f)]
<1>1. /\ r.headers \in Seq((Token \ {":"}) \X Token)
      /\ \A i, k \in DOMAIN r.headers : r.headers[i][1] = r.headers[k][1] => i = k
  BY RequestParts
<1>2. n \in Nat /\ DOMAIN r.headers = 1 .. n
  BY <1>1
<1>3. /\ request = Told(r, g) /\ g = [x \in DOMAIN g |-> g[x]]
      /\ DOMAIN g = {<<r.headers[i][1]>> : i \in 1 .. n}
      /\ \A i \in 1 .. n : g[<<r.headers[i][1]>>] = <<r.headers[i][2]>>
  BY DEF PartOf, Told
<1>4. DOMAIN g = fields
  BY <1>2, <1>3
<1>5. ASSUME NEW f \in fields PROVE g[f] = val[f]
  <2> DEFINE P(i) == <<r.headers[i][1]>> = f
             c == CHOOSE i \in DOMAIN r.headers : P(i)
  <2>1. \E i \in DOMAIN r.headers : P(i)
    OBVIOUS
  <2>2. c \in DOMAIN r.headers /\ P(c)
    <3> HIDE DEF P
    <3> QED
      BY <2>1
  <2>3. val[f] = <<r.headers[c][2]>>
    OBVIOUS
  <2>4. g[<<r.headers[c][1]>>] = <<r.headers[c][2]>>
    <3> HIDE DEF c, g
    <3> QED
      BY <1>2, <1>3, <2>2
  <2> QED
    BY <2>2, <2>3, <2>4
<1>6. val = [f \in fields |-> val[f]]
  <2> HIDE DEF Value, fields
  <2> QED
    OBVIOUS
<1>7. g = val
  <2> HIDE DEF val, fields, g
  <2> QED
    BY <1>3, <1>4, <1>5, <1>6
<1>8. Read(r) = Told(r, val)
  BY DEF Read, Told
<1> QED
  BY <1>3, <1>7, <1>8

(* onRequest() closes after the requests that are not to persist. *)
LEMMA ClosesRight ==
  ASSUME NEW r \in Request, Good(r)
  PROVE  WantsClose(Read(r)) <=> ~Persistent(r)
<1> DEFINE g == Read(r).headers
           n == Len(r.headers)
           asked == {r.headers[i][2] : i \in {j \in DOMAIN r.headers : r.headers[j][1] = "Connection"}}
           get == GetHeader(Read(r), "Connection")
<1>1. /\ r.headers \in Seq((Token \ {":"}) \X Token)
      /\ \A i, k \in DOMAIN r.headers : r.headers[i][1] = r.headers[k][1] => i = k
  BY RequestParts
<1>2. r.version \in {"0", "1"} /\ Read(r).version = r.version
  BY DEF Good, Read
<1>3. DOMAIN g = {<<r.headers[i][1]>> : i \in DOMAIN r.headers}
  BY DEF Read
<1>4. ASSUME NEW i \in DOMAIN r.headers
      PROVE  g[<<r.headers[i][1]>>] = <<r.headers[i][2]>>
  <2> DEFINE f == <<r.headers[i][1]>>
             P(k) == <<r.headers[k][1]>> = f
             c == CHOOSE k \in DOMAIN r.headers : P(k)
  <2>1. P(i)
    OBVIOUS
  <2>2. c \in DOMAIN r.headers /\ P(c)
    <3> HIDE DEF P
    <3> QED
      BY <2>1
  <2>3. g[f] = <<r.headers[c][2]>>
    BY DEF Read
  <2>4. c = i
    BY <1>1, <2>2
  <2> QED
    BY <2>3, <2>4
<1>5. asked = IF get = <<>> THEN {} ELSE {get[1]}
  <2>1. CASE \E i \in DOMAIN r.headers : r.headers[i][1] = "Connection"
    <3>1. PICK i \in DOMAIN r.headers : r.headers[i][1] = "Connection"
      BY <2>1
    <3>2. {j \in DOMAIN r.headers : r.headers[j][1] = "Connection"} = {i}
      BY <1>1, <3>1
    <3>3. asked = {r.headers[i][2]}
      BY <3>2
    <3>4. <<"Connection">> \in DOMAIN g /\ g[<<"Connection">>] = <<r.headers[i][2]>>
      BY <1>3, <1>4, <3>1
    <3>5. get = <<r.headers[i][2]>>
      BY <3>4 DEF GetHeader
    <3>6. get # <<>> /\ get[1] = r.headers[i][2]
      BY <3>5
    <3> HIDE DEF get, asked
    <3> QED
      BY <3>3, <3>6
  <2>2. CASE ~\E i \in DOMAIN r.headers : r.headers[i][1] = "Connection"
    <3>1. <<"Connection">> \notin DOMAIN g
      BY <1>3, <2>2
    <3>2. get = <<>>
      BY <3>1 DEF GetHeader
    <3>3. asked = {}
      BY <2>2
    <3> QED
      BY <3>2, <3>3
  <2> QED
    BY <2>1, <2>2
<1>6. get = <<>> \/ get = <<get[1]>>
  <2>1. CASE <<"Connection">> \in DOMAIN g
    <3>1. PICK i \in DOMAIN r.headers : <<r.headers[i][1]>> = <<"Connection">>
      BY <1>3, <2>1
    <3>2. get = <<r.headers[i][2]>>
      BY <1>4, <2>1, <3>1 DEF GetHeader
    <3> QED
      BY <3>2
  <2>2. CASE <<"Connection">> \notin DOMAIN g
    BY <2>2 DEF GetHeader
  <2> QED
    BY <2>1, <2>2
<1>7. Persistent(r) <=> IF r.version = "1" THEN "close" \notin asked ELSE "Keep-Alive" \in asked
  BY DEF Persistent
<1>8. WantsClose(Read(r)) <=> \/ get = <<"close">>
                              \/ r.version = "0" /\ get # <<"Keep-Alive">>
  BY <1>2 DEF WantsClose
<1>9. (get = <<"close">> <=> "close" \in asked) /\ (get = <<"Keep-Alive">> <=> "Keep-Alive" \in asked)
  <2> HIDE DEF get, asked
  <2> QED
    BY <1>5, <1>6
<1>10. ~("close" \in asked /\ "Keep-Alive" \in asked)
  <2> HIDE DEF get, asked
  <2> QED
    BY <1>5
<1> HIDE DEF get, asked
<1> QED
  BY <1>2, <1>7, <1>8, <1>9, <1>10

(* The inductive invariant: AnswersRight rests on what has not been parsed. *)
HttpInv == HttpTypes /\ AnswersRight /\ EveryAnswerEnds /\ ParseInv

(* What follows when no answer is given ... *)
LEMMA NoMoreAnswers ==
  ASSUME HttpTypes, AnswersRight, EveryAnswerEnds, UNCHANGED <<peer, answers, wire>>,
         dropped' \in BOOLEAN, dropped => dropped',
         \/ connState' = connState
         \/ connState = "kDisconnecting" /\ connState' = "kDisconnecting"
  PROVE  HttpTypes' /\ AnswersRight' /\ EveryAnswerEnds'
<1>1. HttpTypes'
  BY DEF HttpTypes, peer
<1>2. AnswersRight'
  <2>1. /\ script' = script /\ \A r : Expected(r)' = Expected(r)
        /\ \A k : Earlier(k)' = Earlier(k)
    BY DEF peer, Expected, Earlier
  <2>2. Len(wire') = Len(answers')
    BY DEF AnswersRight
  <2> SUFFICES ASSUME NEW n \in 1 .. Len(answers)
               PROVE  /\ (~dropped' /\ \A r \in Earlier(n) : r.body = <<>>) =>
                           n <= Len(script) /\ answers[n] = Expected(script[n])
                      /\ (\A r \in Earlier(n) : ~LooksLikeRequest(r.body)) =>
                           \/ answers[n] = BadRequest
                           \/ \E m \in 1 .. Len(script) : answers[n] = Expected(script[m])
                      /\ wire[n] = IF answers[n] = BadRequest THEN BadRequest ELSE Unwritten
    BY <2>1, <2>2 DEF AnswersRight
  <2> QED
    BY DEF AnswersRight
<1>3. EveryAnswerEnds'
  BY DEF EveryAnswerEnds
<1> QED
  BY <1>1, <1>2, <1>3

(* ... and when one is. *)
LEMMA OneMoreAnswer ==
  ASSUME HttpTypes, AnswersRight, EveryAnswerEnds, connState = "kConnected",
         NEW answer, answers' = Append(answers, answer),
         wire' = Append(wire, IF answer = BadRequest THEN BadRequest ELSE Unwritten),
         UNCHANGED <<peer, dropped>>,
         \/ Astray
         \/ answer = BadRequest \/ \E m \in 1 .. Len(script) : answer = Expected(script[m]),
         Clean => turn <= Len(script) /\ answer = Expected(script[turn]),
         IF answer.contentLength THEN connState' = connState ELSE connState' = "kDisconnecting"
  PROVE  HttpTypes' /\ AnswersRight' /\ EveryAnswerEnds'
<1> DEFINE n == Len(answers)
           bytes == IF answer = BadRequest THEN BadRequest ELSE Unwritten
<1>0. PICK Answer : answers \in Seq(Answer) /\ wire \in Seq(Answer)
  BY DEF HttpTypes
<1>1. /\ n \in Nat /\ turn = n + 1 /\ Len(answers') = n + 1 /\ answers'[n + 1] = answer
      /\ \A i \in 1 .. n : answers'[i] = answers[i]
  BY <1>0 DEF turn
<1>2. /\ Len(wire) = n /\ Len(wire') = n + 1 /\ wire'[n + 1] = bytes
      /\ \A i \in 1 .. n : wire'[i] = wire[i]
  <2>1. Len(wire) = n
    BY DEF AnswersRight
  <2> HIDE DEF n, bytes
  <2> QED
    BY <1>0, <1>1, <2>1 DEF bytes
<1>3. connState' \in {"kConnected", "kDisconnecting"}
  OBVIOUS
<1>4. HttpTypes'
  <2> DEFINE More == Answer \cup {answer, bytes}
  <2>1. answers' \in Seq(More) /\ wire' \in Seq(More)
    <3>1. answers \in Seq(More) /\ wire \in Seq(More)
      BY <1>0
    <3>2. answer \in More /\ bytes \in More
      OBVIOUS
    <3> HIDE DEF More, bytes
    <3> QED
      BY <3>1, <3>2 DEF bytes
  <2> QED
    BY <1>3, <2>1 DEF HttpTypes, peer
<1> HIDE DEF n, bytes
<1>5. AnswersRight'
  <2>0. /\ script' = script /\ \A r : Expected(r)' = Expected(r)
        /\ \A k : Earlier(k)' = Earlier(k)
    BY DEF peer, Expected, Earlier
  <2> SUFFICES ASSUME NEW i \in 1 .. n + 1
               PROVE  /\ (~dropped /\ \A r \in Earlier(i) : r.body = <<>>) =>
                           i <= Len(script) /\ answers'[i] = Expected(script[i])
                      /\ (\A r \in Earlier(i) : ~LooksLikeRequest(r.body)) =>
                           \/ answers'[i] = BadRequest
                           \/ \E m \in 1 .. Len(script) : answers'[i] = Expected(script[m])
                      /\ wire'[i] = IF answers'[i] = BadRequest THEN BadRequest ELSE Unwritten
    BY <1>1, <1>2, <2>0 DEF AnswersRight
  <2>1. CASE i = n + 1
    BY <1>1, <1>2, <2>1 DEF Clean, Astray, bytes
  <2>2. CASE i # n + 1
    <3>1. i \in 1 .. n
      BY <1>1, <2>2
    <3> QED
      BY <1>1, <1>2, <3>1 DEF AnswersRight, n
  <2> QED
    BY <2>1, <2>2
<1>6. EveryAnswerEnds'
  <2> SUFFICES ASSUME NEW i \in 1 .. n + 1
               PROVE  \/ answers'[i].contentLength
                      \/ i = n + 1 /\ connState' = "kDisconnecting"
    BY <1>1 DEF EveryAnswerEnds
  <2>1. CASE i = n + 1
    BY <1>1, <2>1
  <2>2. CASE i # n + 1
    <3>1. i \in 1 .. n
      BY <1>1, <2>2
    <3>2. answers[i].contentLength
      BY <3>1 DEF EveryAnswerEnds, n
    <3> QED
      BY <1>1, <3>1, <3>2
  <2> QED
    BY <2>1, <2>2
<1> QED
  BY <1>4, <1>5, <1>6

(* While the connection is being shut down nothing is sent. *)
LEMMA ClosingStep == HttpInv /\ connState = "kDisconnecting" /\ Next => HttpInv'
<1> SUFFICES ASSUME HttpInv, connState = "kDisconnecting", Next
             PROVE  HttpInv'
  OBVIOUS
<1>1. /\ UNCHANGED <<peer, answers, wire>> /\ connState' = "kDisconnecting"
      /\ (dropped' = dropped \/ dropped' = (dropped \/ state_ = "kExpectHeaders"))
  <2>1. CASE \E n \in 1 .. Len(unread) : HandleRead(n)
    BY <2>1 DEF HandleRead
  <2>2. CASE ParseRequestLine
    BY <2>2 DEF ParseRequestLine, ReturnIncomplete, ReturnBad, SendText, Send, Shutdown
  <2>3. CASE ParseHeader
    BY <2>3 DEF ParseHeader, ReturnIncomplete
  <2>4. CASE OnRequest
    BY <2>4 DEF OnRequest, SendBuffer, Send, Shutdown
  <2> QED
    BY <2>1, <2>2, <2>3, <2>4 DEF Next, OnMessage
<1>2. dropped' \in BOOLEAN /\ (dropped => dropped')
  BY <1>1 DEF HttpInv, HttpTypes
<1>3. HttpTypes' /\ AnswersRight' /\ EveryAnswerEnds'
  BY <1>1, <1>2, NoMoreAnswers DEF HttpInv
<1>4. ParseInv'
  BY <1>1 DEF ParseInv
<1> QED
  BY <1>3, <1>4 DEF HttpInv

(* At the start there is the text of all requests. *)
LEMMA HttpInitInv == Init => HttpInv
<1> SUFFICES ASSUME Init
             PROVE  HttpInv
  OBVIOUS
<1>1. script \in Seq(Request)
  BY HttpServerAssumption DEF Init
<1>2. HttpTypes
  <2>1. /\ httpCallback_ \in {"default", "page"} /\ connState = "kConnected"
        /\ answers = <<>> /\ wire = <<>> /\ dropped = FALSE
    BY DEF Init
  <2>2. answers \in Seq({}) /\ wire \in Seq({})
    BY <2>1
  <2> QED
    BY <1>1, <2>1, <2>2 DEF HttpTypes
<1>3. AnswersRight /\ EveryAnswerEnds
  BY DEF Init, AnswersRight, EveryAnswerEnds
<1>4. Len(script) \in Nat /\ turn = 1 /\ Clean
  BY <1>1 DEF Init, turn, Clean, Earlier
<1>5. Encoded = [i \in 1 .. Len(script) |-> Encode(script[i])]
  BY <1>1 DEF Encoded
<1>6. Encoded \in Seq(Text) /\ Len(Encoded) = Len(script)
  <2>1. \A i \in 1 .. Len(script) : Encode(script[i]) \in Text
    BY <1>1, EncodeIs
  <2> HIDE DEF Encoded
  <2> QED
    BY <1>4, <1>5, <2>1
<1>7. SubSeq(Encoded, 1, Len(script)) = Encoded
  <2> HIDE DEF Encoded
  <2> QED
    BY <1>6, <1>4
<1>8. unread = Coming(1)
  BY <1>7 DEF Init, Coming, Encoded
<1>9. Coming(1) \in Text
  BY <1>1, <1>4, ComingIs
<1>10. inputBuffer_ = <<>> /\ inputBuffer_ \in Text
  BY DEF Init, Text
<1>11. Left = Coming(turn)
  BY <1>4, <1>8, <1>9, <1>10, CatAssociates DEF Left
<1>12. Starting
  BY DEF Starting, Init
<1>13. AtRequest
  BY <1>4, <1>11, <1>12 DEF AtRequest
<1>14. ParseInv
  BY <1>8, <1>9, <1>10, <1>13 DEF ParseInv, Parsing
<1> QED
  BY <1>2, <1>3, <1>14 DEF HttpInv

(* What follows when the parser's place may change and nothing else. *)
LEMMA SamePlace ==
  ASSUME HttpInv, UNCHANGED <<peer, answers, wire, dropped>>
  PROVE  /\ turn' = turn /\ Clean' = Clean /\ InRequest' = InRequest
         /\ \A k : Coming(k)' = Coming(k)
<1>1. turn' = turn
  BY DEF turn
<1>2. Clean' = Clean
  BY <1>1 DEF Clean, Earlier, peer
<1>3. InRequest' = InRequest
  BY <1>1, <1>2 DEF InRequest, peer
<1>4. \A k : Coming(k)' = Coming(k)
  BY DEF Coming, Encoded, peer
<1> QED
  BY <1>1, <1>2, <1>3, <1>4

(* A read moves text from the one side to the other. *)
LEMMA ReadStep ==
  ASSUME HttpInv, connState = "kConnected", Parsing,
         NEW n \in 1 .. Len(unread), HandleRead(n)
  PROVE  HttpInv'
<1>2. AtRequest \/ AtJunk
  BY DEF Parsing, InHeaders, AtEnd, HandleRead
<1> DEFINE a == SubSeq(unread, 1, n)
           b == From(unread, n + 1)
<1>3. /\ inputBuffer_ \in Text /\ unread \in Text /\ Len(unread) \in Nat
      /\ n \in 0 .. Len(unread)
  BY DEF Parsing, Text
<1>4. a \in Text /\ b \in Text /\ Cat(a, b) = unread
  BY <1>3, TwoParts
<1>5. inputBuffer_' = Cat(inputBuffer_, a) /\ unread' = b
  BY DEF HandleRead, Cat
<1> HIDE DEF a, b
<1>6. inputBuffer_' \in Text /\ unread' \in Text /\ Left' = Left
  <2>1. Cat(inputBuffer_, a) \in Text
    BY <1>3, <1>4, CatAssociates
  <2>2. Cat(Cat(inputBuffer_, a), b) = Cat(inputBuffer_, Cat(a, b))
    BY <1>3, <1>4, CatAssociates
  <2> QED
    BY <1>4, <1>5, <2>1, <2>2 DEF Left
<1>7. UNCHANGED <<peer, answers, wire, dropped>> /\ connState' = connState
      /\ pc' = "parse" /\ state_' = "kExpectRequestLine"
  BY DEF HandleRead
<1>8. HttpTypes' /\ AnswersRight' /\ EveryAnswerEnds'
  BY <1>7, NoMoreAnswers DEF HttpInv, HttpTypes
<1>9. Starting' /\ turn' = turn /\ Clean' = Clean /\ Coming(turn)' = Coming(turn)
  BY <1>7, SamePlace DEF Starting
<1>10. AtRequest => AtRequest'
  BY <1>6, <1>7, <1>9 DEF AtRequest, peer
<1>11. AtJunk => AtJunk'
  BY <1>6, <1>9 DEF AtJunk
<1> QED
  BY <1>2, <1>6, <1>8, <1>10, <1>11 DEF HttpInv, ParseInv, Parsing

(* The connection is shut down behind a 400. *)
LEMMA BadStep ==
  ASSUME HttpInv, connState = "kConnected", ReturnBad, UNCHANGED peer,
         Clean => turn <= Len(script) /\ Expected(script[turn]) = BadRequest
  PROVE  HttpInv'
<1>1. /\ answers' = Append(answers, BadRequest) /\ wire' = Append(wire, BadRequest)
      /\ connState' = "kDisconnecting" /\ UNCHANGED dropped
  BY DEF ReturnBad, SendText, Send, Shutdown
<1>2. ~BadRequest.contentLength
  BY DEF BadRequest
<1>3. HttpTypes' /\ AnswersRight' /\ EveryAnswerEnds'
  BY <1>1, <1>2, OneMoreAnswer DEF HttpInv
<1> QED
  BY <1>1, <1>3 DEF HttpInv, ParseInv

(* A request line is that of the next request, or is refused; junk is always
   refused. *)
LEMMA RequestLineStep ==
  ASSUME HttpInv, connState = "kConnected", Parsing, ParseRequestLine
  PROVE  HttpInv'
<1> DEFINE crlf == FindCRLF(inputBuffer_)
<1>1. Parsing /\ inputBuffer_ \in Text /\ unread \in Text
  BY DEF Parsing
<1>2. AtRequest \/ AtJunk
  BY <1>1 DEF Parsing, InHeaders, AtEnd, ParseRequestLine
<1>3. CASE crlf = 0
  <2>1. /\ UNCHANGED <<peer, answers, wire, dropped, connState, inputBuffer_, unread>>
        /\ pc' = "idle"
    BY <1>3 DEF ParseRequestLine, ReturnIncomplete, HttpInv, HttpTypes
  <2>2. HttpTypes' /\ AnswersRight' /\ EveryAnswerEnds'
    BY <2>1, NoMoreAnswers DEF HttpInv, HttpTypes
  <2>3. Starting' /\ turn' = turn /\ Clean' = Clean /\ Coming(turn)' = Coming(turn)
        /\ Left' = Left
    BY <2>1, SamePlace DEF Starting, Left
  <2>4. AtRequest => AtRequest'
    BY <2>1, <2>3 DEF AtRequest, peer
  <2>5. AtJunk => AtJunk'
    BY <2>3 DEF AtJunk
  <2> QED
    BY <1>1, <1>2, <2>1, <2>2, <2>4, <2>5 DEF HttpInv, ParseInv, Parsing
<1>4. CASE crlf # 0
  <2> DEFINE line    == Before(inputBuffer_, crlf)
             request == ProcessRequestLine(line)
  <2>1. /\ request = NoRequest => ReturnBad
        /\ request # NoRequest => /\ request_' = request /\ inputBuffer_' = Rest(crlf)
                                  /\ state_' = "kExpectHeaders"
                                  /\ UNCHANGED <<connState, pc, answers, wire, dropped>>
        /\ pc = "parse" /\ UNCHANGED <<peer, unread>>
    BY <1>4 DEF ParseRequestLine, AfterRequestLine
  <2>2. CASE AtJunk
    <3>1. request = NoRequest
      BY <1>1, <1>4, <2>2, JunkRefused DEF AtJunk, Left
    <3> QED
      BY <2>1, <2>2, <3>1, BadStep DEF AtJunk
  <2>3. CASE AtRequest
    <3> DEFINE r    == script[turn]
               rest == Cat(Behind(r, 0), Coming(turn + 1))
    <3>1. script \in Seq(Request) /\ turn \in 1 .. Len(script) + 1 /\ Len(script) \in Nat
      BY <2>3 DEF HttpInv, HttpTypes, AtRequest, turn
    <3>2. turn <= Len(script)
      <4> SUFFICES ASSUME turn = Len(script) + 1
                   PROVE  FALSE
        BY <3>1
      <4>1. Coming(turn) = <<>>
        BY <3>1, ComingIs
      <4>2. inputBuffer_ \o unread = <<>>
        BY <2>3, <4>1 DEF AtRequest, Left, Cat
      <4>3. Len(inputBuffer_) = 0
        <5>1. Len(inputBuffer_ \o unread) = Len(inputBuffer_) + Len(unread)
          BY <1>1, JoinedWords
        <5>2. Len(inputBuffer_) \in Nat /\ Len(unread) \in Nat
          BY <1>1 DEF Text
        <5> QED
          BY <4>2, <5>1, <5>2
      <4>4. crlf \in 1 .. Len(inputBuffer_) - 1
        BY <1>1, <1>4, FindCRLFFinds
      <4> QED
        BY <4>3, <4>4
    <3>3. r \in Request
      BY <3>1, <3>2
    <3>4. Coming(turn) = Cat(RequestLine(r), Cat(LineEnd, rest))
      BY <3>1, <3>2, ComingIs
    <3>5. Len(r.headers) \in Nat /\ 0 \in 0 .. Len(r.headers)
      <4>1. Len(r.headers) \in Nat
        BY <3>3, HeaderLinesAre
      <4> QED
        BY <4>1
    <3>6. rest \in Text /\ RequestLine(r) \in Text
      <4>1. Behind(r, 0) \in Text /\ RequestLine(r) \in Text
        BY <3>3, <3>5, HeadersAreText, EncodeIs
      <4>2. Coming(turn + 1) \in Text
        <5>1. turn + 1 \in 1 .. Len(script) + 1
          BY <3>1, <3>2
        <5> QED
          BY <3>1, <5>1, ComingIs
      <4> QED
        BY <4>1, <4>2, CatAssociates
    <3>7. \A i \in 1 .. Len(RequestLine(r)) : RequestLine(r)[i] # CR
      BY <3>3, RequestLineSpaces
    <3>8. Cat(inputBuffer_, unread) = Cat(RequestLine(r), Cat(LineEnd, rest))
      BY <2>3, <3>4 DEF AtRequest, Left
    <3> HIDE DEF rest
    <3>9. /\ line = RequestLine(r) /\ Rest(crlf) \in Text /\ Cat(Rest(crlf), unread) = rest
      BY <1>1, <1>4, <3>6, <3>7, <3>8, CutLine DEF Rest
    <3>10. request = IF Good(r) THEN Told(r, <<>>) ELSE NoRequest
      BY <3>3, <3>9, RequestLineParsed
    <3>11. CASE ~Good(r)
      <4>1. Expected(r) = BadRequest
        BY <3>11 DEF Expected
      <4> QED
        BY <2>1, <3>2, <3>10, <3>11, <4>1, BadStep
    <3>12. CASE Good(r)
      <4>1. Told(r, <<>>) # NoRequest
        <5>1. Told(r, <<>>).method = r.method /\ NoRequest.method = "invalid"
          BY DEF Told, NoRequest
        <5>2. r.method # "invalid"
          BY <3>12 DEF Good, Methods
        <5> QED
          BY <5>1, <5>2
      <4>2. /\ request_' = Told(r, <<>>) /\ inputBuffer_' = Rest(crlf)
            /\ pc' = "parse" /\ state_' = "kExpectHeaders"
            /\ UNCHANGED <<peer, unread, connState, answers, wire, dropped>>
        BY <2>1, <3>10, <3>12, <4>1
      <4>3. HttpTypes' /\ AnswersRight' /\ EveryAnswerEnds'
        BY <4>2, NoMoreAnswers DEF HttpInv, HttpTypes
      <4>4. turn' = turn /\ script' = script /\ InRequest' = InRequest
            /\ Coming(turn + 1)' = Coming(turn + 1)
        BY <4>2, SamePlace DEF peer
      <4>5. InRequest
        BY <2>3, <3>2, <3>12 DEF InRequest, AtRequest
      <4>6. PartOf(request_', r, 0)
        BY <3>3, <4>2, NoHeaderYet
      <4>7. Left' = Cat(Behind(r, 0), Coming(turn + 1))
        BY <3>9, <4>2 DEF Left, rest
      <4>8. inputBuffer_' \in Text /\ unread' \in Text
        BY <1>1, <3>9, <4>2
      <4>9. InHeaders'
        BY <3>5, <4>2, <4>4, <4>5, <4>6, <4>7 DEF InHeaders
      <4> QED
        BY <4>3, <4>8, <4>9 DEF HttpInv, ParseInv, Parsing
    <3> QED
      BY <3>11, <3>12
  <2> QED
    BY <1>2, <2>2, <2>3
<1> QED
  BY <1>3, <1>4

(* The line after a request line, or after a header line, is the next header
   line or the empty one; without one, what is left is junk. *)
LEMMA HeaderStep ==
  ASSUME HttpInv, connState = "kConnected", Parsing, ParseHeader
  PROVE  HttpInv'
<1> DEFINE crlf == FindCRLF(inputBuffer_)
           r    == script[turn]
           n    == Len(r.headers)
           next == Coming(turn + 1)
<1>1. Parsing /\ inputBuffer_ \in Text /\ unread \in Text
  BY DEF Parsing
<1>2. InHeaders
  BY <1>1 DEF Parsing, AtRequest, AtEnd, AtJunk, Starting, ParseHeader
<1>3. script \in Seq(Request) /\ turn \in 1 .. Len(script) /\ Len(script) \in Nat
  BY <1>2 DEF InHeaders, InRequest, HttpInv, HttpTypes, turn
<1>4. r \in Request /\ n \in Nat /\ next \in Text
  <2>1. r \in Request
    BY <1>3
  <2>2. turn + 1 \in 1 .. Len(script) + 1
    BY <1>3
  <2>3. n \in Nat
    BY <2>1, HeaderLinesAre
  <2>4. next \in Text
    BY <1>3, <2>2, ComingIs
  <2> QED
    BY <2>1, <2>3, <2>4
<1>5. PICK j \in 0 .. n : PartOf(request_, r, j) /\ Left = Cat(Behind(r, j), next)
  BY <1>2 DEF InHeaders
<1>6. CASE crlf = 0
  <2>1. /\ UNCHANGED <<peer, answers, wire, connState, inputBuffer_, unread, state_>>
        /\ pc' = "idle" /\ dropped' = TRUE
    BY <1>6 DEF ParseHeader, ReturnIncomplete, context, HttpInv, HttpTypes
  <2>2. HttpTypes' /\ AnswersRight' /\ EveryAnswerEnds'
    BY <2>1, NoMoreAnswers DEF HttpInv
  <2>3. Starting' /\ ~Clean' /\ Left' = Left
    BY <2>1 DEF Starting, Clean, Left
  <2>4. Junk(Left)
    BY <1>4, <1>5, HeadersAreJunk
  <2>5. AtJunk'
    BY <2>3, <2>4 DEF AtJunk
  <2> QED
    BY <1>1, <2>1, <2>2, <2>5 DEF HttpInv, ParseInv, Parsing
<1>7. CASE crlf # 0
  <2> DEFINE line  == Before(inputBuffer_, crlf)
             colon == Find(line, ":", 1)
  <2>1. /\ inputBuffer_' = Rest(crlf) /\ UNCHANGED <<peer, unread, connState, answers, wire, dropped>>
        /\ colon # 0 => /\ request_' = AddHeader(request_, line)
                        /\ pc' = "parse" /\ state_' = "kExpectHeaders"
        /\ colon = 0 => pc' = "onRequest" /\ request_' = request_
    BY <1>7 DEF ParseHeader
  <2>2. HttpTypes' /\ AnswersRight' /\ EveryAnswerEnds'
    BY <2>1, NoMoreAnswers DEF HttpInv, HttpTypes
  <2>3. turn' = turn /\ script' = script /\ InRequest' = InRequest
        /\ Coming(turn + 1)' = Coming(turn + 1)
    BY <2>1, SamePlace DEF peer
  <2>4. InRequest
    BY <1>2 DEF InHeaders
  <2>5. CASE j = n
    <3>1. Cat(inputBuffer_, unread) = Cat(<<>>, Cat(LineEnd, Cat(r.body, next)))
      BY <1>4, <1>5, <2>5, LastHeader DEF Left
    <3>2. Cat(r.body, next) \in Text
      <4>1. r.body \in Text
        BY <1>4, <1>5, HeadersAreText
      <4> QED
        BY <1>4, <4>1, CatAssociates
    <3>3. <<>> \in Text /\ \A i \in 1 .. Len(<<>>) : <<>>[i] # CR
      BY DEF Text
    <3>4. /\ line = <<>> /\ Rest(crlf) \in Text
          /\ Cat(Rest(crlf), unread) = Cat(r.body, next)
      BY <1>1, <1>7, <3>1, <3>2, <3>3, CutLine DEF Rest
    <3>5. pc' = "onRequest" /\ request_' = Read(r)
      BY <1>4, <1>5, <2>1, <2>5, <3>4, NoColon, AllHeaders
    <3>6. AtEnd'
      BY <2>1, <2>3, <2>4, <3>4, <3>5 DEF AtEnd, Left
    <3> QED
      BY <1>1, <2>1, <2>2, <3>4, <3>6 DEF HttpInv, ParseInv, Parsing
  <2>6. CASE j # n
    <3> DEFINE k == j + 1
               f == r.headers[k][1]
               v == r.headers[k][2]
    <3>1. k \in 1 .. n /\ k \in 0 .. n /\ k - 1 = j
      BY <1>4, <2>6
    <3>2. f \in Token \ {":"} /\ v \in Token
      BY <1>4, <3>1, HeaderLinesAre
    <3>3. Cat(inputBuffer_, unread) =
            Cat(HeaderLine(f, v), Cat(LineEnd, Cat(Behind(r, k), next)))
      BY <1>4, <1>5, <3>1, NextHeader DEF Left
    <3>4. PartOf(AddHeader(request_, HeaderLine(f, v)), r, k)
      BY <1>4, <1>5, <3>1, OneMoreHeader
    <3>5. Cat(Behind(r, k), next) \in Text
      <4>1. Behind(r, k) \in Text
        BY <1>4, <3>1, HeadersAreText
      <4> QED
        BY <1>4, <4>1, CatAssociates
    <3> HIDE DEF f, v, k
    <3>6. HeaderLine(f, v) \in Text
          /\ \A i \in 1 .. Len(HeaderLine(f, v)) : HeaderLine(f, v)[i] # CR
      BY <3>2, HeaderLineIs
    <3>7. /\ line = HeaderLine(f, v) /\ Rest(crlf) \in Text
          /\ Cat(Rest(crlf), unread) = Cat(Behind(r, k), next)
      BY <1>1, <1>7, <3>3, <3>5, <3>6, CutLine DEF Rest
    <3>8. colon # 0
      BY <3>2, <3>7, ColonFound
    <3>9. /\ PartOf(request_', r, k) /\ pc' = "parse" /\ state_' = "kExpectHeaders"
          /\ Left' = Cat(Behind(r, k), next)
      BY <2>1, <3>4, <3>7, <3>8 DEF Left
    <3>10. InHeaders'
      BY <2>3, <2>4, <3>1, <3>9 DEF InHeaders
    <3> QED
      BY <1>1, <2>1, <2>2, <3>7, <3>10 DEF HttpInv, ParseInv, Parsing
  <2> QED
    BY <2>5, <2>6
<1> QED
  BY <1>6, <1>7

(* The answer to a request that was read as it was sent. *)
LEMMA ResponseIs ==
  ASSUME NEW r \in Request, Good(r), httpCallback_ \in {"default", "page"}
  PROVE  AppendToBuffer(Response(Read(r), WantsClose(Read(r)))) = Expected(r)
<1>1. Persistent(r) \in BOOLEAN
  <2>1. CASE r.version = "1"
    BY <2>1 DEF Persistent
  <2>2. CASE r.version # "1"
    BY <2>2 DEF Persistent
  <2> QED
    BY <2>1, <2>2
<1>2. (WantsClose(Read(r)) <=> ~Persistent(r)) /\ WantsClose(Read(r)) \in BOOLEAN
  BY ClosesRight DEF WantsClose
<1>3. (~WantsClose(Read(r))) = Persistent(r)
  BY <1>1, <1>2
<1> QED
  BY <1>3 DEF Response, AppendToBuffer, Expected

(* What OnRequest does to a connection that is not being shut down. *)
LEMMA Answered ==
  ASSUME HttpInv, connState = "kConnected", OnRequest,
         NEW answer, answer = AppendToBuffer(Response(request_, WantsClose(request_)))
  PROVE  /\ answers' = Append(answers, answer)
         /\ wire' = Append(wire, IF answer = BadRequest THEN BadRequest ELSE Unwritten)
         /\ IF answer.contentLength THEN connState' = connState
                                    ELSE connState' = "kDisconnecting"
         /\ UNCHANGED <<peer, unread, inputBuffer_, dropped>>
         /\ pc' = "idle"
<1> DEFINE response == Response(request_, WantsClose(request_))
<1>1. /\ answers' = Append(answers, answer) /\ wire' = Append(wire, Unwritten)
      /\ IF response.close THEN connState' = "kDisconnecting" ELSE connState' = connState
      /\ UNCHANGED <<peer, unread, inputBuffer_, dropped>>
      /\ pc' = "idle"
  BY DEF OnRequest, SendBuffer, Send, Shutdown
<1>2. answer.status \in {200, 404} /\ (answer.contentLength <=> ~response.close)
  BY DEF AppendToBuffer, Response
<1>3. answer # BadRequest
  BY <1>2 DEF BadRequest
<1> HIDE DEF response
<1> QED
  BY <1>1, <1>2, <1>3

(* An answer, and with it the turn of the next request; a body that was left in
   the buffer makes junk of the text. *)
LEMMA OnRequestStep ==
  ASSUME HttpInv, connState = "kConnected", Parsing, OnRequest
  PROVE  HttpInv'
<1> DEFINE r    == script[turn]
           next == Coming(turn + 1)
           e    == Expected(r)
<1>1. Parsing /\ inputBuffer_ \in Text /\ unread \in Text
  BY DEF Parsing
<1>2. AtEnd
  BY <1>1 DEF Parsing, AtRequest, InHeaders, AtJunk, Starting, OnRequest
<1>3. script \in Seq(Request) /\ turn \in 1 .. Len(script) /\ Len(script) \in Nat
      /\ httpCallback_ \in {"default", "page"}
  BY <1>2 DEF AtEnd, InRequest, HttpInv, HttpTypes, turn
<1>4. r \in Request /\ Good(r) /\ Clean
  BY <1>2, <1>3 DEF AtEnd, InRequest
<1>5. AppendToBuffer(Response(request_, WantsClose(request_))) = e
  BY <1>2, <1>3, <1>4, ResponseIs DEF AtEnd
<1> HIDE DEF e
<1>6. /\ answers' = Append(answers, e)
      /\ wire' = Append(wire, IF e = BadRequest THEN BadRequest ELSE Unwritten)
      /\ IF e.contentLength THEN connState' = connState ELSE connState' = "kDisconnecting"
      /\ UNCHANGED <<peer, unread, inputBuffer_, dropped>>
      /\ pc' = "idle"
  BY <1>5, Answered
<1>7. HttpTypes' /\ AnswersRight' /\ EveryAnswerEnds'
  BY <1>3, <1>6, OneMoreAnswer DEF HttpInv, e
<1>8. turn' = turn + 1 /\ Left' = Left /\ script' = script
  <2>1. PICK Answer : answers \in Seq(Answer)
    BY DEF HttpInv, HttpTypes
  <2>2. Len(answers') = Len(answers) + 1
    BY <1>6, <2>1
  <2> QED
    BY <1>6, <2>2 DEF turn, Left, peer
<1>9. Coming(turn)' = next
  BY <1>8 DEF Coming, Encoded
<1>10. Left = Cat(r.body, next)
  BY <1>2 DEF AtEnd
<1>11. next \in Text
  <2>1. turn + 1 \in 1 .. Len(script) + 1
    BY <1>3
  <2> QED
    BY <1>3, <2>1, ComingIs
<1>12. /\ Clean' <=> r.body = <<>>
       /\ LooksLikeRequest(r.body) => Astray'
  <2>1. Earlier(turn)' = Earlier(turn) \cup {r}
    BY <1>3, <1>8 DEF Earlier
  <2> QED
    BY <1>4, <1>6, <2>1 DEF Clean, Astray
<1>13. Starting'
  BY <1>6 DEF Starting
<1>14. CASE r.body = <<>>
  <2>1. Left' = Coming(turn)'
    BY <1>8, <1>9, <1>10, <1>11, <1>14, CatAssociates
  <2>2. turn' <= Len(script') + 1
    BY <1>3, <1>8
  <2>3. AtRequest'
    BY <1>12, <1>13, <1>14, <2>1, <2>2 DEF AtRequest
  <2> QED
    BY <1>1, <1>6, <1>7, <2>3 DEF HttpInv, ParseInv, Parsing
<1>15. CASE LooksLikeRequest(r.body)
  BY <1>7, <1>12, <1>15 DEF HttpInv, ParseInv
<1>16. CASE r.body # <<>> /\ ~LooksLikeRequest(r.body)
  <2>1. r.body \in Text /\ Junk(r.body)
    BY <1>4, <1>16, RequestParts DEF Text, Junk
  <2>2. turn + 1 \in 1 .. Len(script) + 1
    BY <1>3
  <2>3. Junk(Left')
    BY <1>3, <1>8, <1>10, <1>16, <2>1, <2>2, BodyIsJunk
  <2>4. AtJunk'
    BY <1>12, <1>13, <1>16, <2>3 DEF AtJunk
  <2> QED
    BY <1>1, <1>6, <1>7, <2>4 DEF HttpInv, ParseInv, Parsing
<1> QED
  BY <1>14, <1>15, <1>16

(* Once the connection may be answering a body, nothing is known of the text. *)
LEMMA AstrayStep ==
  ASSUME HttpInv, connState = "kConnected", Astray, Next
  PROVE  HttpInv'
<1>1. ~Clean
  <2>1. FindCRLF(<<>>) = 0
    BY DEF FindCRLF
  <2> QED
    BY <2>1 DEF Clean, Astray, LooksLikeRequest
<1>2. ASSUME UNCHANGED <<peer, answers>> PROVE Astray'
  <2>1. Earlier(turn)' = Earlier(turn)
    BY <1>2 DEF Earlier, turn, peer
  <2> QED
    BY <2>1 DEF Astray
<1>3. ASSUME /\ UNCHANGED <<peer, answers, wire, connState>>
             /\ dropped' \in BOOLEAN /\ (dropped => dropped')
      PROVE  HttpInv'
  BY <1>2, <1>3, NoMoreAnswers DEF HttpInv, ParseInv
<1>4. dropped \in BOOLEAN
  BY DEF HttpInv, HttpTypes
<1>5. CASE \E n \in 1 .. Len(unread) : HandleRead(n)
  BY <1>3, <1>4, <1>5 DEF HandleRead
<1>6. CASE ParseRequestLine
  <2>1. CASE ReturnBad /\ UNCHANGED peer
    BY <1>1, <2>1, BadStep
  <2>2. CASE ~ReturnBad
    BY <1>3, <1>4, <1>6, <2>2 DEF ParseRequestLine, ReturnIncomplete
  <2> QED
    BY <1>6, <2>1, <2>2 DEF ParseRequestLine
<1>7. CASE ParseHeader
  BY <1>3, <1>4, <1>7 DEF ParseHeader, ReturnIncomplete
<1>8. CASE OnRequest
  <2> DEFINE answer == AppendToBuffer(Response(request_, WantsClose(request_)))
  <2>1. /\ answers' = Append(answers, answer)
        /\ wire' = Append(wire, IF answer = BadRequest THEN BadRequest ELSE Unwritten)
        /\ IF answer.contentLength THEN connState' = connState
                                   ELSE connState' = "kDisconnecting"
        /\ UNCHANGED <<peer, dropped>>
    BY <1>8, Answered
  <2> HIDE DEF answer
  <2>2. HttpTypes' /\ AnswersRight' /\ EveryAnswerEnds'
    BY <1>1, <2>1, OneMoreAnswer DEF HttpInv
  <2>3. PICK Answer : answers \in Seq(Answer)
    BY DEF HttpInv, HttpTypes
  <2>4. turn' = turn + 1 /\ turn \in Nat
    BY <2>1, <2>3 DEF turn
  <2>5. Earlier(turn) \subseteq Earlier(turn)'
    <3>1. Len(script) \in Nat /\ script' = script
      BY <2>1 DEF HttpInv, HttpTypes, peer
    <3> QED
      BY <2>4, <3>1 DEF Earlier
  <2>6. Astray'
    BY <2>5 DEF Astray
  <2> QED
    BY <2>2, <2>6 DEF HttpInv, ParseInv
<1> QED
  BY <1>5, <1>6, <1>7, <1>8 DEF Next, OnMessage

(* A stuttering step. *)
LEMMA HttpStutter == HttpInv /\ UNCHANGED vars => HttpInv'
<1> SUFFICES ASSUME HttpInv, UNCHANGED vars
             PROVE  HttpInv'
  OBVIOUS
<1>1. /\ UNCHANGED <<peer, answers, wire, dropped, connState, inputBuffer_, unread>>
      /\ UNCHANGED <<pc, state_, request_, script>>
  BY DEF vars, context, peer
<1>2. HttpTypes' /\ AnswersRight' /\ EveryAnswerEnds'
  BY <1>1, NoMoreAnswers DEF HttpInv, HttpTypes
<1>3. /\ turn' = turn /\ Clean' = Clean /\ InRequest' = InRequest
      /\ Coming(turn)' = Coming(turn) /\ Coming(turn + 1)' = Coming(turn + 1)
      /\ Left' = Left /\ Starting' = Starting
  BY <1>1, SamePlace DEF Left, Starting
<1>4. AtRequest => AtRequest'
  BY <1>1, <1>3 DEF AtRequest
<1>5. InHeaders => InHeaders'
  BY <1>1, <1>3 DEF InHeaders
<1>6. AtEnd => AtEnd'
  BY <1>1, <1>3 DEF AtEnd
<1>7. AtJunk => AtJunk'
  BY <1>3 DEF AtJunk
<1>8. Parsing => Parsing'
  BY <1>1, <1>4, <1>5, <1>6, <1>7 DEF Parsing
<1>9. Astray => Astray'
  BY <1>1, <1>3 DEF Astray, Earlier
<1> QED
  BY <1>1, <1>2, <1>8, <1>9 DEF HttpInv, ParseInv

(* However the requests are cut into reads, an onMessage() of a connection that
   is not being shut down starts at a request, or at text that it refuses, or an
   earlier body begins like a request (HttpServer.cpp line 39, HttpContext.cpp
   lines 35-73). *)
THEOREM HttpInvHolds == Spec => []HttpInv
<1>1. HttpInv /\ [Next]_vars => HttpInv'
  <2> SUFFICES ASSUME HttpInv, [Next]_vars
               PROVE  HttpInv'
    OBVIOUS
  <2>1. CASE UNCHANGED vars
    BY <2>1, HttpStutter
  <2>2. CASE Next /\ connState = "kDisconnecting"
    BY <2>2, ClosingStep
  <2>3. CASE Next /\ connState = "kConnected" /\ Astray
    BY <2>3, AstrayStep
  <2>5. CASE Next /\ connState = "kConnected" /\ Parsing
    <3>1. CASE \E n \in 1 .. Len(unread) : HandleRead(n)
      BY <2>5, <3>1, ReadStep
    <3>2. CASE ParseRequestLine
      BY <2>5, <3>2, RequestLineStep
    <3>3. CASE ParseHeader
      BY <2>5, <3>3, HeaderStep
    <3>4. CASE OnRequest
      BY <2>5, <3>4, OnRequestStep
    <3> QED
      BY <2>5, <3>1, <3>2, <3>3, <3>4 DEF Next, OnMessage
  <2>4. connState = "kDisconnecting" \/ (connState = "kConnected" /\ (Astray \/ Parsing))
    BY DEF HttpInv, HttpTypes, ParseInv
  <2> QED
    BY <2>1, <2>2, <2>3, <2>4, <2>5
<1> QED
  BY <1>1, HttpInitInv, PTL DEF Spec

(* What is given to send() is right for any requests and bodies, however they are
   cut into reads: in order until something is left over, and to one of the
   requests or a 400 until a body looks like a request (HttpServer.cpp lines
   38-63). *)
THEOREM AnswersRightHolds == Spec => []AnswersRight
<1>1. HttpInv => AnswersRight
  BY DEF HttpInv
<1> QED
  BY <1>1, HttpInvHolds, PTL

(* From the answers that are given to send() the peer could tell where each ends
   (HttpServer.cpp lines 42-43 and 59-62, HttpResponse.cpp lines 14-20). *)
THEOREM EveryAnswerEndsHolds == Spec => []EveryAnswerEnds
<1>1. HttpInv => EveryAnswerEnds
  BY DEF HttpInv
<1> QED
  BY <1>1, HttpInvHolds, PTL
=============================================================================
