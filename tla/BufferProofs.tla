---------------------------- MODULE BufferProofs ----------------------------
(***************************************************************************)
(* Proofs about Buffer for any set of bytes, any sizes and any bounds: the *)
(* indexes stay ordered, the vector stays bounded, and every call treats   *)
(* the content as a queue of bytes.                                        *)
(***************************************************************************)
EXTENDS Buffer, SequenceTheorems, TLAPS

-----------------------------------------------------------------------------
(* Slices of a vector: what lies behind position r up to position w.       *)
Slice(v, r, w) == SubSeq(v, r + 1, w)

(* A function on 1..n is a sequence of length n.                           *)
LEMMA FunctionIsSeq ==
    ASSUME NEW S, NEW n \in Nat, NEW f \in [1..n -> S]
    PROVE  f \in Seq(S) /\ Len(f) = n
OBVIOUS

(* The arguments of calls are byte sequences of bounded length.            *)
LEMMA DataIsSeq ==
    ASSUME NEW data \in Data
    PROVE  data \in Seq(Byte) /\ Len(data) \in 0..MaxLen
<1>1. PICK n \in 0..MaxLen : data \in [1..n -> Byte]
    BY DEF Data
<1>2. n \in Nat
    BY <1>1, SizeAssumption
<1> QED
    BY <1>1, <1>2, FunctionIsSeq

(* The length and the bytes of a slice.                                    *)
LEMMA SliceProperties ==
    ASSUME NEW v \in Seq(Byte), NEW r \in Nat, NEW w \in Nat, r <= w, w <= Len(v)
    PROVE  /\ Slice(v, r, w) \in Seq(Byte)
           /\ Len(Slice(v, r, w)) = w - r
           /\ \A i \in 1..(w - r) : Slice(v, r, w)[i] = v[r + i]
<1>1. \A i \in (r + 1)..w : v[i] \in Byte
    BY ElementOfSeq
<1>2. /\ SubSeq(v, r + 1, w) \in Seq(Byte)
      /\ Len(SubSeq(v, r + 1, w)) = IF r + 1 <= w THEN w - (r + 1) + 1 ELSE 0
      /\ \A i \in 1..(w - (r + 1) + 1) : SubSeq(v, r + 1, w)[i] = v[(r + 1) + i - 1]
    <2> DEFINE m == r + 1
    <2>1. m \in Int /\ w \in Int /\ \A i \in m..w : v[i] \in Byte
        BY <1>1
    <2> HIDE DEF m
    <2> QED
        BY <2>1, SubSeqProperties DEF m
<1>3. w - (r + 1) + 1 = w - r /\ \A i \in 1..(w - r) : (r + 1) + i - 1 = r + i
    OBVIOUS
<1> QED
    BY <1>2, <1>3 DEF Slice

(* A sequence with that length and these bytes is the slice.               *)
LEMMA SliceIs ==
    ASSUME NEW v \in Seq(Byte), NEW r \in Nat, NEW w \in Nat, r <= w, w <= Len(v),
           NEW s \in Seq(Byte), Len(s) = w - r,
           \A i \in 1..(w - r) : s[i] = v[r + i]
    PROVE  Slice(v, r, w) = s
<1> DEFINE t == Slice(v, r, w)
<1>1. t \in Seq(Byte) /\ Len(t) = Len(s) /\ \A i \in 1..(w - r) : t[i] = s[i]
    BY SliceProperties
<1> HIDE DEF t
<1>2. t = s
    BY <1>1, SeqEqual
<1> QED
    BY <1>2 DEF t

-----------------------------------------------------------------------------
(* std::copy into the vector and resize().                                 *)
LEMMA OverwriteProperties ==
    ASSUME NEW v \in Seq(Byte), NEW at \in Nat, NEW data \in Seq(Byte)
    PROVE  /\ Overwrite(v, at, data) \in Seq(Byte)
           /\ Len(Overwrite(v, at, data)) = Len(v)
           /\ \A i \in 1..Len(v) : Overwrite(v, at, data)[i] =
                  IF at < i /\ i <= at + Len(data) THEN data[i - at] ELSE v[i]
<1>1. Len(v) \in Nat /\ Len(data) \in Nat
    OBVIOUS
<1>2. \A i \in 1..Len(v) : v[i] \in Byte
    BY ElementOfSeq
<1>3. \A i \in 1..Len(v) : at < i /\ i <= at + Len(data) => data[i - at] \in Byte
    BY <1>1, ElementOfSeq
<1>4. Overwrite(v, at, data) \in [1..Len(v) -> Byte]
    BY <1>2, <1>3 DEF Overwrite
<1> QED
    BY <1>1, <1>4, FunctionIsSeq DEF Overwrite

(* resize() keeps the old bytes and adds zeros.                           *)
LEMMA ResizeProperties ==
    ASSUME NEW v \in Seq(Byte), NEW n \in Nat
    PROVE  /\ Resize(v, n) \in Seq(Byte)
           /\ Len(Resize(v, n)) = n
           /\ \A i \in 1..n : i <= Len(v) => Resize(v, n)[i] = v[i]
<1>1. \A i \in 1..Len(v) : v[i] \in Byte
    BY ElementOfSeq
<1>2. Resize(v, n) \in [1..n -> Byte]
    BY <1>1, ZeroAssumption DEF Resize
<1> QED
    BY <1>2, FunctionIsSeq DEF Resize

(* Bytes copied to the end of a slice extend it.                           *)
LEMMA OverwriteBehind ==
    ASSUME NEW v \in Seq(Byte), NEW r \in Nat, NEW w \in Nat, r <= w,
           NEW data \in Seq(Byte), w + Len(data) <= Len(v)
    PROVE  Slice(Overwrite(v, w, data), r, w + Len(data)) = Slice(v, r, w) \o data
<1> DEFINE u == Overwrite(v, w, data)
           s == Slice(v, r, w)
           t == s \o data
           n == Len(data)
<1>1. /\ n \in Nat /\ Len(v) \in Nat /\ w + n \in Nat
      /\ w <= Len(v) /\ r <= w + n /\ w + n <= Len(v)
    OBVIOUS
<1>2. /\ u \in Seq(Byte) /\ Len(u) = Len(v)
      /\ \A i \in 1..Len(v) : u[i] = IF w < i /\ i <= w + n THEN data[i - w] ELSE v[i]
    BY OverwriteProperties
<1>3. s \in Seq(Byte) /\ Len(s) = w - r /\ \A i \in 1..(w - r) : s[i] = v[r + i]
    BY <1>1, SliceProperties
<1>4. /\ t \in Seq(Byte) /\ Len(t) = Len(s) + n
      /\ \A i \in 1..(Len(s) + n) : t[i] = IF i <= Len(s) THEN s[i] ELSE data[i - Len(s)]
    <2> HIDE DEF s
    <2> QED
        BY <1>3, ConcatProperties
<1>5. Len(t) = (w + n) - r
    BY <1>1, <1>3, <1>4
<1>6. \A i \in 1..((w + n) - r) : t[i] = u[r + i]
    <2> TAKE i \in 1..((w + n) - r)
    <2>1. /\ r + i \in 1..Len(v) /\ i \in 1..(Len(s) + n)
          /\ i <= w - r <=> ~(w < r + i)
          /\ r + i <= w + n /\ (r + i) - w = i - (w - r)
        BY <1>1, <1>3
    <2> HIDE DEF s, t, u, n
    <2>2. CASE i <= w - r
        <3>1. t[i] = s[i] /\ s[i] = v[r + i] /\ u[r + i] = v[r + i]
            BY <1>2, <1>3, <1>4, <2>1, <2>2
        <3> QED
            BY <3>1
    <2>3. CASE ~(i <= w - r)
        <3>1. t[i] = data[i - (w - r)] /\ u[r + i] = data[(r + i) - w]
            BY <1>2, <1>3, <1>4, <2>1, <2>3
        <3> QED
            BY <3>1, <2>1
    <2> QED
        BY <2>2, <2>3
<1>7. Slice(u, r, w + n) = t
    <2> HIDE DEF s, t, u, n
    <2> QED
        BY <1>1, <1>2, <1>4, <1>5, <1>6, SliceIs
<1> QED
    BY <1>7

(* Bytes copied in front of a slice extend it to the front.                *)
LEMMA OverwriteBefore ==
    ASSUME NEW v \in Seq(Byte), NEW r \in Nat, NEW w \in Nat, r <= w, w <= Len(v),
           NEW data \in Seq(Byte), Len(data) <= r
    PROVE  Slice(Overwrite(v, r - Len(data), data), r - Len(data), w) =
               data \o Slice(v, r, w)
<1> DEFINE n == Len(data)
           q == r - n
           u == Overwrite(v, q, data)
           s == Slice(v, r, w)
           t == data \o s
<1>1. /\ n \in Nat /\ Len(v) \in Nat /\ q \in Nat /\ q <= w
      /\ q + n = r /\ w - q = n + (w - r)
    OBVIOUS
<1>2. /\ u \in Seq(Byte) /\ Len(u) = Len(v)
      /\ \A i \in 1..Len(v) : u[i] = IF q < i /\ i <= q + n THEN data[i - q] ELSE v[i]
    <2> HIDE DEF q
    <2> QED
        BY <1>1, OverwriteProperties
<1>3. s \in Seq(Byte) /\ Len(s) = w - r /\ \A i \in 1..(w - r) : s[i] = v[r + i]
    BY <1>1, SliceProperties
<1>4. /\ t \in Seq(Byte) /\ Len(t) = n + Len(s)
      /\ \A i \in 1..(n + Len(s)) : t[i] = IF i <= n THEN data[i] ELSE s[i - n]
    <2> HIDE DEF s
    <2> QED
        BY <1>3, ConcatProperties
<1>5. Len(t) = w - q
    BY <1>1, <1>3, <1>4
<1>6. \A i \in 1..(w - q) : t[i] = u[q + i]
    <2> TAKE i \in 1..(w - q)
    <2>1. /\ i \in 1..(n + Len(s)) /\ q + i \in 1..Len(v) /\ q < q + i
          /\ i <= n <=> q + i <= q + n
          /\ (q + i) - q = i
          /\ ~(i <= n) => i - n \in 1..(w - r) /\ r + (i - n) = q + i
        BY <1>1, <1>3
    <2> HIDE DEF s, t, u, n, q
    <2>2. CASE i <= n
        <3>1. t[i] = data[i] /\ u[q + i] = data[(q + i) - q]
            BY <1>2, <1>4, <2>1, <2>2
        <3> QED
            BY <3>1, <2>1
    <2>3. CASE ~(i <= n)
        <3>1. t[i] = s[i - n] /\ u[q + i] = v[q + i]
            BY <1>2, <1>4, <2>1, <2>3
        <3>2. s[i - n] = v[r + (i - n)]
            BY <1>3, <2>1, <2>3
        <3> QED
            BY <3>1, <3>2, <2>1, <2>3
    <2> QED
        BY <2>2, <2>3
<1>7. Slice(u, q, w) = t
    <2> HIDE DEF s, t, u, n, q
    <2> QED
        BY <1>1, <1>2, <1>4, <1>5, <1>6, SliceIs
<1> QED
    BY <1>7

(* resize() leaves the bytes below the writer index alone.                 *)
LEMMA ResizeSlice ==
    ASSUME NEW v \in Seq(Byte), NEW r \in Nat, NEW w \in Nat, r <= w, w <= Len(v),
           NEW n \in Nat, w <= n
    PROVE  Slice(Resize(v, n), r, w) = Slice(v, r, w)
<1> DEFINE u == Resize(v, n)
           s == Slice(v, r, w)
<1>1. u \in Seq(Byte) /\ Len(u) = n /\ \A i \in 1..n : i <= Len(v) => u[i] = v[i]
    BY ResizeProperties
<1>2. s \in Seq(Byte) /\ Len(s) = w - r /\ \A i \in 1..(w - r) : s[i] = v[r + i]
    BY SliceProperties
<1>3. \A i \in 1..(w - r) : s[i] = u[r + i]
    <2> TAKE i \in 1..(w - r)
    <2>1. r + i \in 1..n /\ r + i <= Len(v)
        OBVIOUS
    <2> HIDE DEF s, u
    <2> QED
        BY <1>1, <1>2, <2>1
<1>4. Slice(u, r, w) = s
    <2> HIDE DEF s, u
    <2> QED
        BY <1>1, <1>2, <1>3, SliceIs
<1> QED
    BY <1>4

(* A copied sequence is found where it was put.                            *)
LEMMA OverwriteFound ==
    ASSUME NEW v \in Seq(Byte), NEW at \in Nat, NEW data \in Seq(Byte),
           at + Len(data) <= Len(v)
    PROVE  Slice(Overwrite(v, at, data), at, at + Len(data)) = data
<1> DEFINE u == Overwrite(v, at, data)
           n == Len(data)
<1>1. /\ n \in Nat /\ Len(v) \in Nat /\ at + n \in Nat /\ at <= at + n
      /\ (at + n) - at = n /\ at + n <= Len(v)
    OBVIOUS
<1>2. /\ u \in Seq(Byte) /\ Len(u) = Len(v)
      /\ \A i \in 1..Len(v) : u[i] = IF at < i /\ i <= at + n THEN data[i - at] ELSE v[i]
    BY OverwriteProperties
<1>3. \A i \in 1..((at + n) - at) : data[i] = u[at + i]
    <2> TAKE i \in 1..((at + n) - at)
    <2>1. at + i \in 1..Len(v) /\ at < at + i /\ at + i <= at + n /\ (at + i) - at = i
        BY <1>1
    <2> HIDE DEF u, n
    <2>2. u[at + i] = data[(at + i) - at]
        BY <1>2, <2>1
    <2> QED
        BY <2>1, <2>2
<1>4. Slice(u, at, at + n) = data
    <2>1. Len(data) = (at + n) - at
        BY <1>1
    <2> HIDE DEF u, n
    <2> QED
        BY <1>1, <1>2, <1>3, <2>1, SliceIs
<1> QED
    BY <1>4

(* A slice is cut in two at any place inside it.                           *)
LEMMA SliceCut ==
    ASSUME NEW v \in Seq(Byte), NEW r \in Nat, NEW w \in Nat, r <= w, w <= Len(v),
           NEW n \in 0..(w - r)
    PROVE  /\ SubSeq(Slice(v, r, w), 1, n) = Slice(v, r, r + n)
           /\ Slice(v, r, r + n) \o Slice(v, r + n, w) = Slice(v, r, w)
<1> DEFINE s == Slice(v, r, w)
           t == SubSeq(s, 1, n)
           k == r + n
<1>1. n \in Nat /\ k \in Nat /\ r <= k /\ k <= w /\ k - r = n /\ k <= Len(v)
    OBVIOUS
<1>2. s \in Seq(Byte) /\ Len(s) = w - r /\ \A i \in 1..(w - r) : s[i] = v[r + i]
    BY SliceProperties
<1>3. /\ t \in Seq(Byte) /\ Len(t) = n
      /\ \A i \in 1..n : t[i] = s[i]
    <2>1. \A i \in 1..n : s[i] \in Byte
        BY <1>1, <1>2, ElementOfSeq
    <2> HIDE DEF s
    <2>2. /\ SubSeq(s, 1, n) \in Seq(Byte)
          /\ Len(SubSeq(s, 1, n)) = IF 1 <= n THEN n - 1 + 1 ELSE 0
          /\ \A i \in 1..(n - 1 + 1) : SubSeq(s, 1, n)[i] = s[1 + i - 1]
        BY <2>1, <1>1, SubSeqProperties
    <2> QED
        BY <2>2, <1>1
<1>4. \A i \in 1..(k - r) : t[i] = v[r + i]
    <2> TAKE i \in 1..(k - r)
    <2>1. i \in 1..n /\ i \in 1..(w - r)
        BY <1>1
    <2> HIDE DEF s, t, k
    <2>2. t[i] = s[i] /\ s[i] = v[r + i]
        BY <1>2, <1>3, <2>1
    <2> QED
        BY <2>2
<1>5. Slice(v, r, k) = t
    <2>1. t \in Seq(Byte) /\ Len(t) = k - r
        BY <1>1, <1>3
    <2> HIDE DEF s, t, k
    <2> QED
        BY <1>1, <1>4, <2>1, SliceIs
<1>6. Slice(v, r, k) \o Slice(v, k, w) = Slice(v, r, w)
    <2>1. r + 1 \in 1..(Len(v) + 1) /\ k \in (r + 1 - 1)..Len(v) /\ w \in k..Len(v)
        BY <1>1
    <2> DEFINE m == r + 1
    <2> HIDE DEF k, m
    <2>2. SubSeq(v, m, k) \o SubSeq(v, k + 1, w) = SubSeq(v, m, w)
        BY <2>1, ConcatAdjacentSubSeq DEF m
    <2> QED
        BY <2>2 DEF Slice, m
<1> QED
    BY <1>5, <1>6
-----------------------------------------------------------------------------
(* The members of Buffer.                                                  *)

(* A Buffer object whose indexes are ordered.                              *)
Buffers ==
    {b \in [buffer_ : Seq(Byte), readerIndex_ : Nat, writerIndex_ : Nat] :
        /\ b.readerIndex_ <= b.writerIndex_ /\ b.writerIndex_ <= Len(b.buffer_)
        /\ kCheapPrepend <= Len(b.buffer_)}

(* Buf(v, r, w) with ordered indexes is one, and its members are these.    *)
LEMMA BufIsBuffer ==
    ASSUME NEW v \in Seq(Byte), NEW r \in Nat, NEW w \in Nat, r <= w, w <= Len(v),
           kCheapPrepend <= Len(v)
    PROVE  /\ Buf(v, r, w) \in Buffers
           /\ Buf(v, r, w).buffer_ = v
           /\ Buf(v, r, w).readerIndex_ = r
           /\ Buf(v, r, w).writerIndex_ = w
           /\ Content(Buf(v, r, w)) = Slice(v, r, w)
           /\ readableBytes(Buf(v, r, w)) = w - r
           /\ writableBytes(Buf(v, r, w)) = Len(v) - w
BY DEF Buf, Buffers, Content, Slice, readableBytes, writableBytes

(* Every Buffer object is one of that form.                                *)
LEMMA BufferIsBuf ==
    ASSUME NEW b \in Buffers
    PROVE  \E v \in Seq(Byte), r \in Nat, w \in Nat :
               /\ r <= w /\ w <= Len(v) /\ kCheapPrepend <= Len(v)
               /\ v = b.buffer_ /\ r = b.readerIndex_ /\ w = b.writerIndex_
               /\ Content(b) = Slice(v, r, w)
               /\ readableBytes(b) = w - r
               /\ writableBytes(b) = Len(v) - w
               /\ prependableBytes(b) = r
BY DEF Buffers, Content, Slice, readableBytes, writableBytes, prependableBytes

(* write: data that fits goes behind the content.                          *)
LEMMA WriteProperties ==
    ASSUME NEW b \in Buffers, NEW data \in Seq(Byte), Len(data) <= writableBytes(b)
    PROVE  /\ write(b, data) \in Buffers
           /\ Content(write(b, data)) = Content(b) \o data
           /\ readableBytes(write(b, data)) = readableBytes(b) + Len(data)
           /\ Len(write(b, data).buffer_) = Len(b.buffer_)
<1>1. PICK v \in Seq(Byte), r \in Nat, w \in Nat :
               /\ r <= w /\ w <= Len(v) /\ kCheapPrepend <= Len(v)
               /\ v = b.buffer_ /\ r = b.readerIndex_ /\ w = b.writerIndex_
               /\ Content(b) = Slice(v, r, w)
               /\ readableBytes(b) = w - r
               /\ writableBytes(b) = Len(v) - w
    BY BufferIsBuf
<1> DEFINE n == Len(data)
           u == Overwrite(v, w, data)
<1>a. r <= w /\ w <= Len(v) /\ kCheapPrepend <= Len(v) /\ Len(data) <= Len(v) - w
    BY <1>1
<1>2. n \in Nat /\ w + n \in Nat /\ r <= w + n /\ w + n <= Len(v)
    BY <1>a
<1>3. u \in Seq(Byte) /\ Len(u) = Len(v)
    BY OverwriteProperties
<1>4. write(b, data) = Buf(u, r, w + n)
    BY <1>1 DEF write
<1>5. Slice(u, r, w + n) = Slice(v, r, w) \o data
    BY <1>a, <1>2, OverwriteBehind
<1> HIDE DEF u, n
<1>6. /\ Buf(u, r, w + n) \in Buffers
      /\ Buf(u, r, w + n).buffer_ = u
      /\ Content(Buf(u, r, w + n)) = Slice(u, r, w + n)
      /\ readableBytes(Buf(u, r, w + n)) = (w + n) - r
    BY <1>a, <1>2, <1>3, BufIsBuffer
<1>7. (w + n) - r = (w - r) + n
    BY <1>2
<1>8. Len(b.buffer_) = Len(v)
    BY <1>1
<1> QED
    BY <1>1, <1>3, <1>4, <1>5, <1>6, <1>7, <1>8 DEF n

(* ensureWritableBytes: room for len bytes, the content as it was; a       *)
(* vector that grows is no larger than twice len more than the content.    *)
LEMMA EnsureProperties ==
    ASSUME NEW b \in Buffers, NEW len \in Nat
    PROVE  /\ ensureWritableBytes(b, len) \in Buffers
           /\ Content(ensureWritableBytes(b, len)) = Content(b)
           /\ readableBytes(ensureWritableBytes(b, len)) = readableBytes(b)
           /\ writableBytes(ensureWritableBytes(b, len)) >= len
           /\ \/ Len(ensureWritableBytes(b, len).buffer_) = Len(b.buffer_)
              \/ Len(ensureWritableBytes(b, len).buffer_)
                     <= kCheapPrepend + readableBytes(b) + 2 * len
<1>1. PICK v \in Seq(Byte), r \in Nat, w \in Nat :
               /\ r <= w /\ w <= Len(v) /\ kCheapPrepend <= Len(v)
               /\ v = b.buffer_ /\ r = b.readerIndex_ /\ w = b.writerIndex_
               /\ Content(b) = Slice(v, r, w)
               /\ readableBytes(b) = w - r
               /\ writableBytes(b) = Len(v) - w
               /\ prependableBytes(b) = r
    BY BufferIsBuf
<1>a. r <= w /\ w <= Len(v) /\ kCheapPrepend <= Len(v)
    BY <1>1
<1>2. Len(v) \in Nat /\ kCheapPrepend \in Nat
    BY SizeAssumption
<1>3. CASE Len(v) - w >= len
    <2>1. ensureWritableBytes(b, len) = b
        BY <1>1, <1>2, <1>3 DEF ensureWritableBytes
    <2> QED
        BY <1>1, <1>3, <2>1
<1>4. CASE Len(v) - w < len /\ (Len(v) - w) + r < len + kCheapPrepend
    <2> DEFINE u == Resize(v, w + len)
    <2>1. ensureWritableBytes(b, len) = Buf(u, r, w)
        BY <1>1, <1>4 DEF ensureWritableBytes, makeSpace, grow
    <2>2. w + len \in Nat /\ w <= w + len /\ kCheapPrepend <= w + len
        BY <1>a, <1>2, <1>4
    <2>3. u \in Seq(Byte) /\ Len(u) = w + len /\ Slice(u, r, w) = Slice(v, r, w)
        BY <1>a, <2>2, ResizeProperties, ResizeSlice
    <2> HIDE DEF u
    <2>6. u \in Seq(Byte) /\ w <= Len(u) /\ kCheapPrepend <= Len(u)
        BY <2>2, <2>3
    <2>4. /\ Buf(u, r, w) \in Buffers
          /\ Buf(u, r, w).buffer_ = u
          /\ Content(Buf(u, r, w)) = Slice(u, r, w)
          /\ readableBytes(Buf(u, r, w)) = w - r
          /\ writableBytes(Buf(u, r, w)) = Len(u) - w
        BY <1>a, <2>6, BufIsBuffer
    <2>5. w + len <= kCheapPrepend + (w - r) + 2 * len /\ (w + len) - w >= len
        BY <1>a, <1>2, <1>4
    <2> QED
        BY <1>1, <2>1, <2>3, <2>4, <2>5
<1>5. CASE Len(v) - w < len /\ ~((Len(v) - w) + r < len + kCheapPrepend)
    <2> DEFINE s == Slice(v, r, w)
               k == kCheapPrepend
               u == Overwrite(v, k, s)
    <2>1. ensureWritableBytes(b, len) = Buf(u, k, k + (w - r))
        BY <1>1, <1>5 DEF ensureWritableBytes, makeSpace, moveToFront, Slice
    <2>2. /\ k \in Nat /\ w - r \in Nat /\ k + (w - r) \in Nat /\ k <= k + (w - r)
          /\ k + (w - r) <= Len(v)
          /\ (k + (w - r)) - k = w - r
          /\ Len(v) - (k + (w - r)) >= len
        BY <1>a, <1>2, <1>5
    <2>3. s \in Seq(Byte) /\ Len(s) = w - r
        BY <1>a, SliceProperties
    <2> HIDE DEF s, k
    <2>4. u \in Seq(Byte) /\ Len(u) = Len(v)
        BY <2>2, <2>3, OverwriteProperties
    <2>5. Slice(u, k, k + Len(s)) = s
        BY <2>2, <2>3, OverwriteFound
    <2> HIDE DEF u
    <2> DEFINE e == k + (w - r)
    <2>6. /\ Buf(u, k, e) \in Buffers
          /\ Buf(u, k, e).buffer_ = u
          /\ Content(Buf(u, k, e)) = Slice(u, k, e)
          /\ readableBytes(Buf(u, k, e)) = e - k
          /\ writableBytes(Buf(u, k, e)) = Len(u) - e
        <3>1. e \in Nat /\ k <= e /\ e <= Len(u)
            BY <2>2, <2>4
        <3> HIDE DEF e
        <3> QED
            BY <1>a, <2>2, <2>4, <3>1, BufIsBuffer
    <2> QED
        BY <1>1, <2>1, <2>2, <2>3, <2>4, <2>5, <2>6 DEF s
<1> QED
    BY <1>1, <1>2, <1>3, <1>4, <1>5

(* append: data goes behind the content, whatever room there was.          *)
LEMMA AppendBytes ==
    ASSUME NEW b \in Buffers, NEW data \in Seq(Byte)
    PROVE  /\ append(b, data) \in Buffers
           /\ Content(append(b, data)) = Content(b) \o data
           /\ readableBytes(append(b, data)) = readableBytes(b) + Len(data)
           /\ \/ Len(append(b, data).buffer_) = Len(b.buffer_)
              \/ Len(append(b, data).buffer_)
                     <= kCheapPrepend + readableBytes(b) + 2 * Len(data)
<1> DEFINE n == Len(data)
           e == ensureWritableBytes(b, n)
<1>1. n \in Nat
    OBVIOUS
<1>2. /\ e \in Buffers /\ Content(e) = Content(b)
      /\ readableBytes(e) = readableBytes(b) /\ writableBytes(e) >= n
      /\ \/ Len(e.buffer_) = Len(b.buffer_)
         \/ Len(e.buffer_) <= kCheapPrepend + readableBytes(b) + 2 * n
    BY <1>1, EnsureProperties
<1>3. n <= writableBytes(e)
    <2>1. writableBytes(e) \in Int
        <3> HIDE DEF e
        <3> QED
            BY <1>2 DEF Buffers, writableBytes
    <2> QED
        BY <1>1, <1>2, <2>1
<1>4. append(b, data) = write(e, data)
    BY DEF append
<1> HIDE DEF e
<1>5. /\ write(e, data) \in Buffers
      /\ Content(write(e, data)) = Content(e) \o data
      /\ readableBytes(write(e, data)) = readableBytes(e) + Len(data)
      /\ Len(write(e, data).buffer_) = Len(e.buffer_)
    BY <1>2, <1>3, WriteProperties
<1> QED
    BY <1>2, <1>4, <1>5

(* retrieve: the first len bytes of the content go, the rest stays.        *)
LEMMA RetrieveBytes ==
    ASSUME NEW b \in Buffers, NEW len \in 0..readableBytes(b)
    PROVE  /\ retrieve(b, len) \in Buffers
           /\ SubSeq(Content(b), 1, len) \o Content(retrieve(b, len)) = Content(b)
           /\ readableBytes(retrieve(b, len)) = readableBytes(b) - len
           /\ Len(retrieve(b, len).buffer_) = Len(b.buffer_)
<1>1. PICK v \in Seq(Byte), r \in Nat, w \in Nat :
               /\ r <= w /\ w <= Len(v) /\ kCheapPrepend <= Len(v)
               /\ v = b.buffer_ /\ r = b.readerIndex_ /\ w = b.writerIndex_
               /\ Content(b) = Slice(v, r, w)
               /\ readableBytes(b) = w - r
               /\ prependableBytes(b) = r
    BY BufferIsBuf
<1>a. r <= w /\ w <= Len(v) /\ kCheapPrepend <= Len(v)
    BY <1>1
<1>2. len \in 0..(w - r)
    BY <1>1
<1>3. /\ SubSeq(Slice(v, r, w), 1, len) = Slice(v, r, r + len)
      /\ Slice(v, r, r + len) \o Slice(v, r + len, w) = Slice(v, r, w)
    BY <1>a, <1>2, SliceCut
<1>4. CASE len < w - r
    <2> DEFINE q == r + len
    <2>1. retrieve(b, len) = Buf(v, q, w)
        BY <1>1, <1>4 DEF retrieve
    <2>2. q \in Nat /\ q <= w /\ w - q = (w - r) - len
        BY <1>a, <1>2
    <2> HIDE DEF q
    <2>3. /\ Buf(v, q, w) \in Buffers
          /\ Buf(v, q, w).buffer_ = v
          /\ Content(Buf(v, q, w)) = Slice(v, q, w)
          /\ readableBytes(Buf(v, q, w)) = w - q
        BY <1>a, <2>2, BufIsBuffer
    <2> QED
        BY <1>1, <1>3, <2>1, <2>2, <2>3 DEF q
<1>5. CASE len = w - r
    <2> DEFINE k == kCheapPrepend
    <2>1. retrieve(b, len) = Buf(v, k, k)
        <3>1. ~(len < readableBytes(b))
            BY <1>1, <1>2, <1>5
        <3> QED
            BY <1>1, <3>1 DEF retrieve, retrieveAll
    <2>2. k \in Nat /\ k <= k /\ k <= Len(v) /\ k - k = (w - r) - len /\ r + len = w
        BY <1>a, <1>2, <1>5, SizeAssumption
    <2> HIDE DEF k
    <2>3. /\ Buf(v, k, k) \in Buffers
          /\ Buf(v, k, k).buffer_ = v
          /\ Content(Buf(v, k, k)) = Slice(v, k, k)
          /\ readableBytes(Buf(v, k, k)) = k - k
        BY <1>a, <2>2, BufIsBuffer
    <2>4. Slice(v, k, k) = <<>>
        <3>1. k + 1 \in Int /\ k \in Int /\ k < k + 1
            BY <2>2
        <3> QED
            BY <3>1, SubSeqEmpty DEF Slice
    <2>5. Slice(v, r, w) \o <<>> = Slice(v, r, w)
        BY <1>a, SliceProperties, ConcatEmptySeq
    <2> QED
        BY <1>1, <1>3, <2>1, <2>2, <2>3, <2>4, <2>5
<1> QED
    BY <1>a, <1>2, <1>4, <1>5

(* prepend: data that fits goes in front of the content.                   *)
LEMMA PrependBytes ==
    ASSUME NEW b \in Buffers, NEW data \in Seq(Byte), Len(data) <= prependableBytes(b)
    PROVE  /\ prepend(b, data) \in Buffers
           /\ Content(prepend(b, data)) = data \o Content(b)
           /\ readableBytes(prepend(b, data)) = readableBytes(b) + Len(data)
           /\ Len(prepend(b, data).buffer_) = Len(b.buffer_)
<1>1. PICK v \in Seq(Byte), r \in Nat, w \in Nat :
               /\ r <= w /\ w <= Len(v) /\ kCheapPrepend <= Len(v)
               /\ v = b.buffer_ /\ r = b.readerIndex_ /\ w = b.writerIndex_
               /\ Content(b) = Slice(v, r, w)
               /\ readableBytes(b) = w - r
               /\ prependableBytes(b) = r
    BY BufferIsBuf
<1>a. r <= w /\ w <= Len(v) /\ kCheapPrepend <= Len(v)
    BY <1>1
<1> DEFINE n == Len(data)
           q == r - n
           u == Overwrite(v, q, data)
<1>2. n \in Nat /\ n <= r
    BY <1>1
<1>3. q \in Nat /\ q <= w /\ w - q = (w - r) + n
    BY <1>a, <1>2
<1>4. prepend(b, data) = Buf(u, q, w)
    BY <1>1 DEF prepend
<1>5. Slice(u, q, w) = data \o Slice(v, r, w)
    BY <1>a, <1>2, OverwriteBefore
<1>6. u \in Seq(Byte) /\ Len(u) = Len(v)
    <2> HIDE DEF q
    <2> QED
        BY <1>3, OverwriteProperties
<1> HIDE DEF u, q, n
<1>7. /\ Buf(u, q, w) \in Buffers
      /\ Buf(u, q, w).buffer_ = u
      /\ Content(Buf(u, q, w)) = Slice(u, q, w)
      /\ readableBytes(Buf(u, q, w)) = w - q
    BY <1>a, <1>3, <1>6, BufIsBuffer
<1> QED
    BY <1>1, <1>3, <1>4, <1>5, <1>6, <1>7 DEF n

(* unwrite: the last len bytes of the content go.                          *)
LEMMA UnwriteBytes ==
    ASSUME NEW b \in Buffers, NEW len \in 0..readableBytes(b)
    PROVE  /\ unwrite(b, len) \in Buffers
           /\ Content(unwrite(b, len)) = SubSeq(Content(b), 1, readableBytes(b) - len)
           /\ readableBytes(unwrite(b, len)) = readableBytes(b) - len
           /\ Len(unwrite(b, len).buffer_) = Len(b.buffer_)
<1>1. PICK v \in Seq(Byte), r \in Nat, w \in Nat :
               /\ r <= w /\ w <= Len(v) /\ kCheapPrepend <= Len(v)
               /\ v = b.buffer_ /\ r = b.readerIndex_ /\ w = b.writerIndex_
               /\ Content(b) = Slice(v, r, w)
               /\ readableBytes(b) = w - r
               /\ prependableBytes(b) = r
    BY BufferIsBuf
<1>a. r <= w /\ w <= Len(v) /\ kCheapPrepend <= Len(v)
    BY <1>1
<1> DEFINE n == (w - r) - len
           e == w - len
<1>2. len \in 0..(w - r)
    BY <1>1
<1>3. /\ n \in 0..(w - r) /\ e \in Nat /\ r <= e /\ e <= Len(v)
      /\ r + n = e /\ e - r = n
    BY <1>a, <1>2
<1>4. unwrite(b, len) = Buf(v, r, e)
    BY <1>1 DEF unwrite
<1>5. n = readableBytes(b) - len
    BY <1>1
<1> HIDE DEF n, e
<1>6. SubSeq(Slice(v, r, w), 1, n) = Slice(v, r, r + n)
    BY <1>a, <1>3, SliceCut
<1>7. /\ Buf(v, r, e) \in Buffers
      /\ Buf(v, r, e).buffer_ = v
      /\ Content(Buf(v, r, e)) = Slice(v, r, e)
      /\ readableBytes(Buf(v, r, e)) = e - r
    BY <1>a, <1>3, BufIsBuffer
<1> QED
    BY <1>1, <1>3, <1>4, <1>5, <1>6, <1>7

(* readFd: what readv delivered goes behind the content, in two pieces if  *)
(* it did not fit.                                                         *)
LEMMA ReadFdBytes ==
    ASSUME NEW b \in Buffers, NEW data \in Seq(Byte)
    PROVE  /\ readFd(b, data) \in Buffers
           /\ Content(readFd(b, data)) = Content(b) \o data
           /\ readableBytes(readFd(b, data)) = readableBytes(b) + Len(data)
           /\ \/ Len(readFd(b, data).buffer_) = Len(b.buffer_)
              \/ Len(readFd(b, data).buffer_)
                     <= kCheapPrepend + readableBytes(b) + 2 * Len(data)
<1> DEFINE n == Len(data)
           k == writableBytes(b)
<1>1. n \in Nat /\ k \in Nat /\ readableBytes(b) \in Nat /\ kCheapPrepend \in Nat
      /\ Len(b.buffer_) \in Nat
    <2>1. k \in Nat /\ readableBytes(b) \in Nat /\ Len(b.buffer_) \in Nat
        BY DEF Buffers, writableBytes, readableBytes
    <2> QED
        BY <2>1, SizeAssumption
<1>2. CASE n <= k
    <2>1. readFd(b, data) = write(b, data)
        BY <1>2 DEF readFd
    <2> QED
        BY <1>1, <1>2, <2>1, WriteProperties
<1>3. CASE n > k
    <2> DEFINE p == SubSeq(data, 1, k)
               q == SubSeq(data, k + 1, n)
               c == write(b, p)
    <2>1. readFd(b, data) = append(c, q)
        BY <1>1, <1>3 DEF readFd
    <2>2. /\ p \in Seq(Byte) /\ Len(p) = k
          /\ q \in Seq(Byte) /\ Len(q) = n - k
          /\ p \o q = data
        <3>1. \A i \in 1..n : data[i] \in Byte
            BY ElementOfSeq
        <3>2. 0 <= k /\ k <= n /\ 0 \in Nat /\ n \in Nat /\ n <= Len(data) /\ k <= Len(data)
            BY <1>1, <1>3
        <3>3. Slice(data, 0, k) = p /\ Slice(data, k, n) = q
            BY DEF Slice
        <3>4. /\ Slice(data, 0, k) \in Seq(Byte) /\ Len(Slice(data, 0, k)) = k - 0
            <4> HIDE DEF k, n
            <4> QED
                BY <1>1, <3>2, SliceProperties
        <3>5. /\ Slice(data, k, n) \in Seq(Byte) /\ Len(Slice(data, k, n)) = n - k
            <4> HIDE DEF k, n
            <4> QED
                BY <1>1, <3>2, SliceProperties
        <3>6. Slice(data, 0, k) \o Slice(data, k, n) = Slice(data, 0, n)
            <4> DEFINE z == 0
            <4>1. z \in Nat /\ z <= n /\ k \in 0..(n - z) /\ z + k = k
                BY <3>2, <1>1
            <4> HIDE DEF k, n, z
            <4>2. Slice(data, z, z + k) \o Slice(data, z + k, n) = Slice(data, z, n)
                BY <4>1, <3>2, SliceCut
            <4> QED
                BY <4>1, <4>2 DEF z
        <3>7. Slice(data, 0, n) = data
            BY SubSeqFull DEF Slice
        <3>8. k - 0 = k
            BY <1>1
        <3> QED
            BY <3>3, <3>4, <3>5, <3>6, <3>7, <3>8
    <2>3. /\ c \in Buffers /\ Content(c) = Content(b) \o p
          /\ readableBytes(c) = readableBytes(b) + k
          /\ Len(c.buffer_) = Len(b.buffer_)
        <3>1. Len(p) <= writableBytes(b)
            BY <1>1, <2>2
        <3> HIDE DEF p, q
        <3> QED
            BY <2>2, <3>1, WriteProperties
    <2> HIDE DEF c, p, q
    <2>4. /\ append(c, q) \in Buffers
          /\ Content(append(c, q)) = Content(c) \o q
          /\ readableBytes(append(c, q)) = readableBytes(c) + Len(q)
          /\ \/ Len(append(c, q).buffer_) = Len(c.buffer_)
             \/ Len(append(c, q).buffer_)
                    <= kCheapPrepend + readableBytes(c) + 2 * Len(q)
        BY <2>2, <2>3, AppendBytes
    <2>5. (Content(b) \o p) \o q = Content(b) \o (p \o q)
        <3> DEFINE s == Content(b)
        <3>1. s \in Seq(Byte)
            BY BufferIsBuf, SliceProperties
        <3>2. p \in Seq(Byte) /\ q \in Seq(Byte)
            BY <2>2
        <3> HIDE DEF s
        <3>3. (s \o p) \o q = s \o (p \o q)
            BY <3>1, <3>2, ConcatAssociative
        <3> QED
            BY <3>3 DEF s
    <2>6. (readableBytes(b) + k) + (n - k) = readableBytes(b) + n
        BY <1>1
    <2>7. kCheapPrepend + (readableBytes(b) + k) + 2 * (n - k)
              <= kCheapPrepend + readableBytes(b) + 2 * n
        BY <1>1
    <2>8. Len(append(c, q).buffer_) \in Nat
        BY <2>4 DEF Buffers
    <2>9. \/ Len(append(c, q).buffer_) = Len(b.buffer_)
          \/ Len(append(c, q).buffer_) <= kCheapPrepend + readableBytes(b) + 2 * n
        <3>1. CASE Len(append(c, q).buffer_) = Len(c.buffer_)
            BY <2>3, <3>1
        <3>2. CASE Len(append(c, q).buffer_)
                       <= kCheapPrepend + readableBytes(c) + 2 * Len(q)
            <4>1. Len(append(c, q).buffer_)
                      <= kCheapPrepend + (readableBytes(b) + k) + 2 * (n - k)
                BY <2>2, <2>3, <3>2
            <4> QED
                BY <1>1, <2>7, <2>8, <4>1
        <3> QED
            BY <2>4, <3>1, <3>2
    <2> QED
        BY <2>1, <2>2, <2>3, <2>4, <2>5, <2>6, <2>9
<1> QED
    BY <1>1, <1>2, <1>3
-----------------------------------------------------------------------------
(* The inductive invariant: the indexes alone do not bound the vector, the *)
(* number of bytes held does.                                              *)
BufferInv ==
    /\ buf \in Buffers
    /\ readableBytes(buf) <= MaxReadable
    /\ SizeBounded

(* The numbers an invariant step computes with.                            *)
LEMMA BufferNumbers ==
    ASSUME NEW b \in Buffers
    PROVE  readableBytes(b) \in Nat /\ Len(b.buffer_) \in Nat
BY DEF Buffers, readableBytes

(* A call that adds n bytes, makes room for m or takes some away keeps the *)
(* invariant.                                                              *)
LEMMA CallKeepsInv ==
    ASSUME BufferInv, buf' \in Buffers, NEW m \in 0..MaxLen,
           readableBytes(buf') <= MaxReadable,
           \/ Len(buf'.buffer_) = Len(buf.buffer_)
           \/ Len(buf'.buffer_) <= kCheapPrepend + readableBytes(buf) + 2 * m
    PROVE  BufferInv'
<1>1. readableBytes(buf) \in Nat /\ Len(buf.buffer_) \in Nat /\ Len(buf'.buffer_) \in Nat
    BY BufferNumbers DEF BufferInv
<1>2. m <= MaxLen /\ m \in Nat /\ MaxLen \in Nat /\ MaxReadable \in Nat
      /\ kCheapPrepend \in Nat /\ kInitialSize \in Nat
    BY SizeAssumption
<1>3. CASE Len(buf'.buffer_) = Len(buf.buffer_)
    BY <1>3 DEF BufferInv, SizeBounded, readableBytes
<1>4. CASE Len(buf'.buffer_) <= kCheapPrepend + readableBytes(buf) + 2 * m
    <2>1. Len(buf'.buffer_) <= kCheapPrepend + MaxReadable + 2 * MaxLen
        <3>1. readableBytes(buf) <= MaxReadable
            BY DEF BufferInv
        <3> QED
            BY <1>1, <1>2, <1>4, <3>1
    <2> QED
        BY <2>1 DEF BufferInv, SizeBounded, readableBytes
<1> QED
    BY <1>3, <1>4

(* The constructor establishes the invariant.                              *)
LEMMA InitInv == Init => BufferInv
<1> SUFFICES ASSUME Init PROVE BufferInv
    OBVIOUS
<1> DEFINE k == kCheapPrepend
           v == [i \in 1..(k + kInitialSize) |-> Zero]
<1>1. k \in Nat /\ k + kInitialSize \in Nat /\ k <= k + kInitialSize /\ MaxReadable \in Nat
    BY SizeAssumption
<1>2. v \in [1..(k + kInitialSize) -> Byte]
    BY ZeroAssumption
<1>3. v \in Seq(Byte) /\ Len(v) = k + kInitialSize
    <2> DEFINE n == k + kInitialSize
    <2>1. n \in Nat /\ v \in [1..n -> Byte]
        BY <1>1, <1>2
    <2> HIDE DEF n, v
    <2>2. v \in Seq(Byte) /\ Len(v) = n
        BY <2>1, FunctionIsSeq
    <2> QED
        BY <2>2 DEF n
<1>4. buf = Buf(v, k, k)
    BY DEF Init, NewBuffer
<1> HIDE DEF v
<1>5. k <= k /\ k <= Len(v)
    BY <1>1, <1>3
<1>6. buf \in Buffers /\ buf.buffer_ = v /\ readableBytes(buf) = k - k
    BY <1>1, <1>3, <1>4, <1>5, BufIsBuffer
<1>7. readableBytes(buf) <= MaxReadable
    BY <1>1, <1>6
<1>8. SizeBounded
    BY <1>1, <1>3, <1>6 DEF SizeBounded
<1> QED
    BY <1>6, <1>7, <1>8 DEF BufferInv

(* Every call of the interface preserves it.                               *)
LEMMA NextInv == BufferInv /\ [Next]_buf => BufferInv'
<1> SUFFICES ASSUME BufferInv, [Next]_buf PROVE BufferInv'
    OBVIOUS
<1>1. /\ buf \in Buffers /\ readableBytes(buf) <= MaxReadable
      /\ readableBytes(buf) \in Nat /\ MaxReadable \in Nat /\ MaxLen \in Nat
    BY BufferNumbers, SizeAssumption DEF BufferInv
<1>2. CASE Append_
    <2>1. PICK data \in Data : /\ readableBytes(buf) + Len(data) <= MaxReadable
                               /\ buf' = append(buf, data)
        BY <1>2 DEF Append_
    <2>2. data \in Seq(Byte) /\ Len(data) \in 0..MaxLen
        BY DataIsSeq
    <2> QED
        BY <1>1, <2>1, <2>2, AppendBytes, CallKeepsInv
<1>3. CASE HasWritten
    <2>1. PICK data \in Data : /\ readableBytes(buf) + Len(data) <= MaxReadable
                               /\ Len(data) <= writableBytes(buf)
                               /\ buf' = write(buf, data)
        BY <1>3 DEF HasWritten
    <2>2. data \in Seq(Byte) /\ Len(data) \in 0..MaxLen
        BY DataIsSeq
    <2> QED
        BY <1>1, <2>1, <2>2, WriteProperties, CallKeepsInv
<1>4. CASE EnsureWritable
    <2>1. PICK len \in 0..MaxLen : buf' = ensureWritableBytes(buf, len)
        BY <1>4 DEF EnsureWritable
    <2>2. len \in Nat
        BY <1>1
    <2> QED
        BY <1>1, <2>1, <2>2, EnsureProperties, CallKeepsInv
<1>5. CASE Retrieve
    <2>1. PICK len \in 0..readableBytes(buf) : buf' = retrieve(buf, len)
        BY <1>5 DEF Retrieve
    <2>2. /\ buf' \in Buffers
          /\ readableBytes(buf') = readableBytes(buf) - len
          /\ Len(buf'.buffer_) = Len(buf.buffer_)
        BY <1>1, <2>1, RetrieveBytes
    <2>3. readableBytes(buf') <= MaxReadable /\ 0 \in 0..MaxLen
        BY <1>1, <2>2
    <2> QED
        BY <2>2, <2>3, CallKeepsInv
<1>6. CASE Prepend
    <2>1. PICK data \in Data : /\ readableBytes(buf) + Len(data) <= MaxReadable
                               /\ Len(data) <= prependableBytes(buf)
                               /\ buf' = prepend(buf, data)
        BY <1>6 DEF Prepend
    <2>2. data \in Seq(Byte) /\ Len(data) \in 0..MaxLen
        BY DataIsSeq
    <2> QED
        BY <1>1, <2>1, <2>2, PrependBytes, CallKeepsInv
<1>7. CASE Unwrite
    <2>1. PICK len \in 0..readableBytes(buf) : buf' = unwrite(buf, len)
        BY <1>7 DEF Unwrite
    <2>2. /\ buf' \in Buffers
          /\ readableBytes(buf') = readableBytes(buf) - len
          /\ Len(buf'.buffer_) = Len(buf.buffer_)
        BY <1>1, <2>1, UnwriteBytes
    <2>3. readableBytes(buf') <= MaxReadable /\ 0 \in 0..MaxLen
        BY <1>1, <2>2
    <2> QED
        BY <2>2, <2>3, CallKeepsInv
<1>8. CASE ReadFd
    <2>1. PICK data \in Data : /\ readableBytes(buf) + Len(data) <= MaxReadable
                               /\ buf' = readFd(buf, data)
        BY <1>8 DEF ReadFd
    <2>2. data \in Seq(Byte) /\ Len(data) \in 0..MaxLen
        BY DataIsSeq
    <2> QED
        BY <1>1, <2>1, <2>2, ReadFdBytes, CallKeepsInv
<1>9. CASE UNCHANGED buf
    BY <1>9 DEF BufferInv, SizeBounded, readableBytes
<1> QED
    BY <1>2, <1>3, <1>4, <1>5, <1>6, <1>7, <1>8, <1>9 DEF Next

(* In a state of the invariant every call obeys the queue.                 *)
LEMMA InvImpliesQueue == BufferInv => TypeOK /\ IndexesOrdered /\ SizeBounded /\ ByteQueue
<1> SUFFICES ASSUME BufferInv PROVE TypeOK /\ IndexesOrdered /\ SizeBounded /\ ByteQueue
    OBVIOUS
<1>1. buf \in Buffers
    BY DEF BufferInv
<1>2. TypeOK /\ IndexesOrdered /\ SizeBounded
    BY <1>1 DEF TypeOK, IndexesOrdered, BufferInv, Buffers
<1>3. AppendLaw
    BY <1>1, DataIsSeq, AppendBytes DEF AppendLaw
<1>4. ReadFdLaw
    BY <1>1, DataIsSeq, ReadFdBytes DEF ReadFdLaw
<1>5. EnsureLaw
    <2>1. \A len \in 0..MaxLen : len \in Nat
        BY SizeAssumption
    <2> QED
        BY <1>1, <2>1, EnsureProperties DEF EnsureLaw
<1>6. RetrieveLaw
    BY <1>1, RetrieveBytes DEF RetrieveLaw
<1>7. PrependLaw
    BY <1>1, DataIsSeq, PrependBytes DEF PrependLaw
<1>8. UnwriteLaw
    BY <1>1, UnwriteBytes DEF UnwriteLaw
<1> QED
    BY <1>2, <1>3, <1>4, <1>5, <1>6, <1>7, <1>8 DEF ByteQueue
-----------------------------------------------------------------------------
(* The three regions of the picture in Buffer.h never overlap or leave the *)
(* vector, for every sequence of calls.                                    *)
THEOREM IndexesStayOrdered == Spec => []IndexesOrdered
<1>1. BufferInv /\ [Next]_buf => BufferInv'
    BY NextInv
<1>2. BufferInv => IndexesOrdered
    BY InvImpliesQueue
<1> QED
    BY InitInv, <1>1, <1>2, PTL DEF Spec

(* The vector's size is bounded by the bytes held and the largest call.    *)
THEOREM SizeStaysBounded == Spec => []SizeBounded
<1>1. BufferInv => SizeBounded
    BY InvImpliesQueue
<1> QED
    BY InitInv, NextInv, <1>1, PTL DEF Spec

(* Every call on every reachable Buffer treats the content as a queue of   *)
(* bytes: append and readFd add at the end, retrieve takes from the front, *)
(* prepend puts back, and none of them touches another byte.               *)
THEOREM BytesPreserved == Spec => []ByteQueue
<1>1. BufferInv => ByteQueue
    BY InvImpliesQueue
<1> QED
    BY InitInv, NextInv, <1>1, PTL DEF Spec
=============================================================================
