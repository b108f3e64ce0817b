------------------------------- MODULE Buffer -------------------------------
(***************************************************************************)
(* Buffer (net/Buffer.h, net/Buffer.cpp): a vector of bytes with a read    *)
(* and a write index, made room for by moving the readable bytes to the    *)
(* front or by growing, and filled from a socket through a second buffer   *)
(* on the stack.  A Buffer is used by one thread at a time.                *)
(*                                                                         *)
(* Sizes are unbounded here: size_t is not overflowed by any real input.   *)
(***************************************************************************)
EXTENDS Integers, Sequences

CONSTANTS
    Byte,
    Zero,           \* the byte that resize() and the constructor fill with
    Data,           \* the byte sequences appended or received at a time
    kCheapPrepend,
    initialSize,
    ExtraSize,      \* the size of extrabuf in readFd()
    MaxReadable     \* bound: the most bytes its user leaves in the buffer

ASSUME BufferAssumption ==
    /\ Zero \in Byte
    /\ Data \subseteq Seq(Byte)
    /\ kCheapPrepend \in Nat /\ initialSize \in Nat
    /\ ExtraSize \in Nat /\ MaxReadable \in Nat

VARIABLE buffer   \* its fields: buffer_, readerIndex_ and writerIndex_;
                  \* buffer_ is numbered from 0 to size - 1

(* The Buffer of the given fields. *)
Made(bytes, n, r, w) ==
    [buffer_ |-> bytes, size |-> n, readerIndex_ |-> r, writerIndex_ |-> w]

EmptyOf(n) == [i \in 0 .. n - 1 |-> Zero]

BufferInit == buffer = Made(EmptyOf(kCheapPrepend + initialSize),
                            kCheapPrepend + initialSize, kCheapPrepend, kCheapPrepend)

readableBytes(b) == b.writerIndex_ - b.readerIndex_
writableBytes(b) == b.size - b.writerIndex_
prependableBytes(b) == b.readerIndex_

-----------------------------------------------------------------------------
(* retrieve(), append() and readFd() as functions of the buffer.           *)

retrieveAll(b) == Made(b.buffer_, b.size, kCheapPrepend, kCheapPrepend)

(* Its caller passes no more than there is (assert, line 14). *)
retrieve(b, len) ==
    IF len < readableBytes(b)
    THEN Made(b.buffer_, b.size, b.readerIndex_ + len, b.writerIndex_)
    ELSE retrieveAll(b)

resize(b, n) ==
    Made([i \in 0 .. n - 1 |-> IF i < b.size THEN b.buffer_[i] ELSE Zero],
         n, b.readerIndex_, b.writerIndex_)

(* A faulty MoveToFront: the indices move, the bytes stay. *)
MoveIndices(b) ==
    Made(b.buffer_, b.size, kCheapPrepend, kCheapPrepend + readableBytes(b))

(* std::copy() of the readable bytes to the front. *)
Moved(b) ==
    [i \in 0 .. b.size - 1 |->
        IF i \in kCheapPrepend .. kCheapPrepend + readableBytes(b) - 1
        THEN b.buffer_[b.readerIndex_ + i - kCheapPrepend]
        ELSE b.buffer_[i]]

MoveToFront(b) ==
    Made(Moved(b), b.size, kCheapPrepend, kCheapPrepend + readableBytes(b))

(* Faulty variants of TooSmall: the prepended space counts as free; the bytes
   are never moved, the buffer always grows. *)
TooSmallWithPrepend(b, len) == writableBytes(b) + prependableBytes(b) < len
NeverMoved(b, len) == TRUE

TooSmall(b, len) == writableBytes(b) + prependableBytes(b) < len + kCheapPrepend

makeSpace(b, len) == IF TooSmall(b, len) THEN resize(b, b.writerIndex_ + len)
                                         ELSE MoveToFront(b)

ensureWritableBytes(b, len) ==
    IF writableBytes(b) < len THEN makeSpace(b, len) ELSE b

(* std::copy() of data to beginWrite(). *)
Overwritten(b, data) ==
    [i \in 0 .. b.size - 1 |->
        IF i \in b.writerIndex_ .. b.writerIndex_ + Len(data) - 1
        THEN data[i - b.writerIndex_ + 1]
        ELSE b.buffer_[i]]

Write(b, data) == Made(Overwritten(b, data), b.size,
                       b.readerIndex_, b.writerIndex_ + Len(data))

append(b, data) == Write(ensureWritableBytes(b, Len(data)), data)

(* readv(): beginWrite() is filled first, the rest of data is in extrabuf. *)
readFd(b, data) ==
    LET n == writableBytes(b)
    IN  IF Len(data) <= n
        THEN Write(b, data)
        ELSE append(Write(b, SubSeq(data, 1, n)), SubSeq(data, n + 1, Len(data)))

(* The most readv() can take: extrabuf is offered when it is the larger. *)
ReadLimit(b) == IF writableBytes(b) < ExtraSize
                THEN writableBytes(b) + ExtraSize ELSE writableBytes(b)

-----------------------------------------------------------------------------
(* What the user of the buffer does.                                       *)

Append_(data) ==
    /\ readableBytes(buffer) + Len(data) <= MaxReadable
    /\ buffer' = append(buffer, data)

(* retrieve(), retrieveUntil(), retrieveAsString(), and writeFd() with len the
   number of bytes the kernel took. *)
Retrieve(len) ==
    /\ len <= readableBytes(buffer)
    /\ buffer' = retrieve(buffer, len)

(* The data the socket has; none of it when it fails or is at its end. *)
ReadFd(data) ==
    /\ Len(data) <= ReadLimit(buffer)
    /\ readableBytes(buffer) + Len(data) <= MaxReadable
    /\ buffer' = readFd(buffer, data)

BufferNext ==
    \/ \E data \in Data : Append_(data) \/ ReadFd(data)
    \/ \E len \in 0 .. MaxReadable : Retrieve(len)

BufferSpec == BufferInit /\ [][BufferNext]_buffer

-----------------------------------------------------------------------------
(* Properties.                                                             *)

(* A buffer whose indices are in order and inside it. *)
WellFormed(b) ==
    /\ b = Made(b.buffer_, b.size, b.readerIndex_, b.writerIndex_)
    /\ {b.size, b.readerIndex_, b.writerIndex_} \subseteq Nat
    /\ b.buffer_ \in [0 .. b.size - 1 -> Byte]
    /\ kCheapPrepend <= b.readerIndex_
    /\ b.readerIndex_ <= b.writerIndex_
    /\ b.writerIndex_ <= b.size

(* The indices stay in order and inside the buffer, and the prepended bytes
   free, whatever is appended, read and retrieved (Buffer.cpp lines 13-20,
   62-89 and 104-117). *)
BufferInv == WellFormed(buffer)

(* No assertion of the buffer fails for any next append(): makeSpace() line 109
   finds something retrieved when it moves the readable bytes, and
   ensureWritableBytes() line 44 the room it asked for. *)
AssertionsHold ==
    \A data \in Data :
        LET len == Len(data) IN
        /\ writableBytes(buffer) < len /\ ~TooSmall(buffer, len)
              => kCheapPrepend < buffer.readerIndex_
        /\ writableBytes(ensureWritableBytes(buffer, len)) >= len

(* The buffer does not grow for ever under a user that keeps up: it stays
   within twice the most the user leaves in it (makeSpace() line 106 prefers
   moving to growing). *)
GrowthBounded ==
    \/ buffer.size = kCheapPrepend + initialSize
    \/ buffer.size <= kCheapPrepend + 2 * MaxReadable

(* The readable bytes. *)
Contents(b) == [i \in 1 .. readableBytes(b) |-> b.buffer_[b.readerIndex_ + i - 1]]

(* Buffer implements ByteQueue. *)
Queue == INSTANCE ByteQueue WITH queue <- Contents(buffer)
BytesInOrder == Queue!Spec
=============================================================================
