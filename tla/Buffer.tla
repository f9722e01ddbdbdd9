-------------------------------- MODULE Buffer --------------------------------
(***************************************************************************)
(* network::Buffer (network/include/network/Buffer.h, network/src/Buffer.  *)
(* cc): a vector of bytes with a reader and a writer index.  Its content   *)
(* lies between them; space for more comes from the end of the vector,     *)
(* from moving the content to the front, or from a larger vector.          *)
(*                                                                         *)
(* A Buffer is a record, its members are functions of it.  The caller's    *)
(* obligations (what an assert demands of an argument) are guards.         *)
(***************************************************************************)
EXTENDS Integers, Sequences

CONSTANTS
    Byte,
    Zero,             \* what resize() fills with
    kCheapPrepend,    \* 8 in the code
    kInitialSize,     \* 4096 in the code
    ExtraSize,        \* sizeof extrabuf in readFd, 1 MiB in the code
    MaxLen,           \* bound: bytes in one call
    MaxReadable       \* bound: bytes held

ASSUME ZeroAssumption == Zero \in Byte
ASSUME SizeAssumption ==
    /\ kCheapPrepend \in Nat /\ kInitialSize \in Nat /\ ExtraSize \in Nat
    /\ MaxLen \in Nat /\ MaxReadable \in Nat

VARIABLE buf

(* The arguments of a call.                                                *)
Data == UNION {[1..n -> Byte] : n \in 0..MaxLen}
-----------------------------------------------------------------------------
Buf(v, r, w) == [buffer_ |-> v, readerIndex_ |-> r, writerIndex_ |-> w]

NewBuffer ==
    Buf([i \in 1..(kCheapPrepend + kInitialSize) |-> Zero], kCheapPrepend, kCheapPrepend)

readableBytes(b) == b.writerIndex_ - b.readerIndex_
writableBytes(b) == Len(b.buffer_) - b.writerIndex_
prependableBytes(b) == b.readerIndex_

(* std::copy of data to the positions after `at'.                          *)
Overwrite(v, at, data) ==
    [i \in 1..Len(v) |-> IF at < i /\ i <= at + Len(data) THEN data[i - at] ELSE v[i]]

Resize(v, n) == [i \in 1..n |-> IF i <= Len(v) THEN v[i] ELSE Zero]

retrieveAll(b) == Buf(b.buffer_, kCheapPrepend, kCheapPrepend)

(* retrieve(len), len <= readableBytes().                                  *)
retrieve(b, len) ==
    IF len < readableBytes(b)
    THEN Buf(b.buffer_, b.readerIndex_ + len, b.writerIndex_)
    ELSE retrieveAll(b)

grow(b, len) == Buf(Resize(b.buffer_, b.writerIndex_ + len), b.readerIndex_, b.writerIndex_)

(* std::copy of the content to just behind the reserved space.             *)
moveToFront(b) ==
    Buf(Overwrite(b.buffer_, kCheapPrepend,
                  SubSeq(b.buffer_, b.readerIndex_ + 1, b.writerIndex_)),
        kCheapPrepend,
        kCheapPrepend + readableBytes(b))

\* Mutant: the vector always grows.
makeSpaceGrows(b, len) == grow(b, len)

\* Mutant: the space reserved in front is counted as free.
makeSpaceShort(b, len) ==
    IF writableBytes(b) + prependableBytes(b) < len THEN grow(b, len) ELSE moveToFront(b)

(* makeSpace(len), called when writableBytes() < len.                      *)
makeSpace(b, len) ==
    IF writableBytes(b) + prependableBytes(b) < len + kCheapPrepend
    THEN grow(b, len)
    ELSE moveToFront(b)

ensureWritableBytes(b, len) ==
    IF writableBytes(b) < len THEN makeSpace(b, len) ELSE b

(* data at beginWrite(), then hasWritten().                                *)
write(b, data) ==
    Buf(Overwrite(b.buffer_, b.writerIndex_, data),
        b.readerIndex_, b.writerIndex_ + Len(data))

append(b, data) == write(ensureWritableBytes(b, Len(data)), data)

(* prepend(data), Len(data) <= prependableBytes().                         *)
prepend(b, data) ==
    Buf(Overwrite(b.buffer_, b.readerIndex_ - Len(data), data),
        b.readerIndex_ - Len(data), b.writerIndex_)

unwrite(b, len) == Buf(b.buffer_, b.readerIndex_, b.writerIndex_ - len)

\* Mutant: what went into extrabuf is appended without what filled the buffer.
readFdForgets(b, data) ==
    IF Len(data) <= writableBytes(b) THEN write(b, data)
    ELSE append(b, SubSeq(data, writableBytes(b) + 1, Len(data)))

(* readFd: readv fills the writable space and, if that is smaller than     *)
(* extrabuf, extrabuf too, whose bytes are then appended.                  *)
readFd(b, data) ==
    LET writable == writableBytes(b)
    IN  IF Len(data) <= writable THEN write(b, data)
        ELSE append(write(b, SubSeq(data, 1, writable)),
                    SubSeq(data, writable + 1, Len(data)))

readFdLimit(b) ==
    writableBytes(b) + (IF writableBytes(b) < ExtraSize THEN ExtraSize ELSE 0)
-----------------------------------------------------------------------------
Init == buf = NewBuffer

(* append, and the appendInt family.                                       *)
Append_ ==
    \E data \in Data : /\ readableBytes(buf) + Len(data) <= MaxReadable
                       /\ buf' = append(buf, data)

(* A caller that writes at beginWrite() itself.                            *)
HasWritten ==
    \E data \in Data : /\ readableBytes(buf) + Len(data) <= MaxReadable
                       /\ Len(data) <= writableBytes(buf)
                       /\ buf' = write(buf, data)

EnsureWritable == \E len \in 0..MaxLen : buf' = ensureWritableBytes(buf, len)

(* retrieve, retrieveAsString and the readInt family.                      *)
Retrieve == \E len \in 0..readableBytes(buf) : buf' = retrieve(buf, len)

(* prepend, and the prependInt family.                                     *)
Prepend ==
    \E data \in Data : /\ readableBytes(buf) + Len(data) <= MaxReadable
                       /\ Len(data) <= prependableBytes(buf)
                       /\ buf' = prepend(buf, data)

Unwrite == \E len \in 0..readableBytes(buf) : buf' = unwrite(buf, len)

ReadFd ==
    \E data \in Data : /\ readableBytes(buf) + Len(data) <= MaxReadable
                       /\ Len(data) <= readFdLimit(buf)
                       /\ buf' = readFd(buf, data)

Next ==
    \/ Append_
    \/ HasWritten
    \/ EnsureWritable
    \/ Retrieve
    \/ Prepend
    \/ Unwrite
    \/ ReadFd

Spec == Init /\ [][Next]_buf
-----------------------------------------------------------------------------
(* Type correctness.                                                       *)
TypeOK == buf \in [buffer_ : Seq(Byte), readerIndex_ : Nat, writerIndex_ : Nat]

(* The picture in Buffer.h: 0 <= readerIndex <= writerIndex <= size.       *)
IndexesOrdered ==
    /\ 0 <= buf.readerIndex_
    /\ buf.readerIndex_ <= buf.writerIndex_
    /\ buf.writerIndex_ <= Len(buf.buffer_)

(* The vector never shrinks, but neither does it creep: however calls      *)
(* alternate, it stays within what it started with or what one call on top *)
(* of the bytes held can need.                                             *)
SizeBounded ==
    \/ Len(buf.buffer_) <= kCheapPrepend + kInitialSize
    \/ Len(buf.buffer_) <= kCheapPrepend + MaxReadable + 2 * MaxLen

(* The bytes a reader sees from peek() on.                                 *)
Content(b) == SubSeq(b.buffer_, b.readerIndex_ + 1, b.writerIndex_)

(* The Buffer is a queue of bytes.  In every state it can reach, a call    *)
(* changes what a reader will see by what the caller passes or takes and   *)
(* by nothing else: no byte is lost, repeated, reordered or changed when   *)
(* the content is moved, the vector resized, or a read spills into         *)
(* extrabuf.                                                               *)
AppendLaw ==
    \A data \in Data : Content(append(buf, data)) = Content(buf) \o data

ReadFdLaw ==
    \A data \in Data :
        Len(data) <= readFdLimit(buf) => Content(readFd(buf, data)) = Content(buf) \o data

EnsureLaw ==
    \A len \in 0..MaxLen :
        /\ Content(ensureWritableBytes(buf, len)) = Content(buf)
        /\ writableBytes(ensureWritableBytes(buf, len)) >= len

RetrieveLaw ==
    \A len \in 0..readableBytes(buf) :
        SubSeq(Content(buf), 1, len) \o Content(retrieve(buf, len)) = Content(buf)

PrependLaw ==
    \A data \in Data :
        Len(data) <= prependableBytes(buf) =>
            Content(prepend(buf, data)) = data \o Content(buf)

UnwriteLaw ==
    \A len \in 0..readableBytes(buf) :
        Content(unwrite(buf, len)) = SubSeq(Content(buf), 1, readableBytes(buf) - len)

(* All of the above.                                                       *)
ByteQueue ==
    AppendLaw /\ ReadFdLaw /\ EnsureLaw /\ RetrieveLaw /\ PrependLaw /\ UnwriteLaw
=============================================================================
