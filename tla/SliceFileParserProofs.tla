----------------------- MODULE SliceFileParserProofs -----------------------
(***************************************************************************)
(* Proofs about SliceFileParser, for every trace, every size of the        *)
(* message buffer and of the socket buffer, and every way recv may cut up  *)
(* the stream.                                                             *)
(***************************************************************************)
EXTENDS SliceFileParser, DataLemmas

-----------------------------------------------------------------------------
(* Ring buffers.                                                           *)

Index == 0 .. BufSize - 1
Ring == [buf : [Index -> Slice], in : Index, out : Index]

\* The bytes between two indices of a buffer.
Count(in, out) == (in - out) % BufSize
Bytes(buf, in, out) == [k \in 1 .. Count(in, out) |-> buf[(out + k - 1) % BufSize]]

\* The buffer after n bytes of s have been written from index at on.
Written(buf, s, at, n) ==
  [i \in Index |-> IF i \in at .. at + n - 1 THEN s[i - at + 1] ELSE buf[i]]

\* The sizes of the buffers.
LEMMA Sizes == BufSize \in Nat /\ BufSize > 1 /\ MsgSize \in Nat /\ MsgSize > 1
  BY ParserAssumption

\* Indices wrap at most once.
LEMMA Wrap ==
    ASSUME NEW x \in Int
    PROVE  /\ x \in Index => x % BufSize = x
           /\ x \in BufSize .. 2 * BufSize - 1 => x % BufSize = x - BufSize
           /\ 0 <= x + BufSize /\ x < 0 => x % BufSize = x + BufSize
           /\ x % BufSize \in Index
  BY Sizes DEF Index

\* An index less than two turns of the ring away wraps by a subtraction.
LEMMA WrapOnce ==
    ASSUME NEW x \in 0 .. 2 * BufSize - 1
    PROVE  x % BufSize \in Index /\ x % BufSize = IF x < BufSize THEN x ELSE x - BufSize
<1>1. x < BufSize => x % BufSize = x /\ x \in Index
  BY Sizes DEF Index
<1>2. x >= BufSize => x % BufSize = x - BufSize /\ x - BufSize \in Index
  BY Sizes DEF Index
<1> QED
  BY <1>1, <1>2, Sizes

\* How many bytes there are between two indices.
LEMMA CountCases ==
    ASSUME NEW in \in Index, NEW out \in Index
    PROVE  /\ in >= out => Count(in, out) = in - out
           /\ in < out => Count(in, out) = in - out + BufSize
           /\ Count(in, out) \in Index /\ Count(in, out) \in Nat
<1>1. /\ in \in Int /\ out \in Int /\ in - out \in Int
      /\ 0 <= in /\ in < BufSize /\ 0 <= out /\ out < BufSize
  BY Sizes DEF Index
<1>2. /\ in - out \in Index => (in - out) % BufSize = in - out
      /\ 0 <= in - out + BufSize /\ in - out < 0 => (in - out) % BufSize = in - out + BufSize
      /\ (in - out) % BufSize \in Index
  BY <1>1, Wrap
<1> QED
  BY <1>1, <1>2, Sizes DEF Count, Index

\* The bytes between two indices are a sequence of slices.
LEMMA BytesType ==
    ASSUME NEW buf \in [Index -> Slice], NEW in \in Index, NEW out \in Index
    PROVE  /\ Bytes(buf, in, out) \in Seq(Slice)
           /\ Len(Bytes(buf, in, out)) = Count(in, out)
           /\ \A k \in 1 .. Count(in, out) :
                Bytes(buf, in, out)[k] = buf[(out + k - 1) % BufSize]
<1>1. Count(in, out) \in Nat
  BY CountCases
<1>2. \A k \in 1 .. Count(in, out) : out + k - 1 \in Int
  BY <1>1, Sizes DEF Index
<1>3. \A k \in 1 .. Count(in, out) : (out + k - 1) % BufSize \in Index
  BY <1>2, Wrap
<1> QED
  BY <1>1, <1>3 DEF Bytes

\* Bytes written behind the last one, into free room that does not wrap, are
\* added to the ones there, which stay as they are.
LEMMA WriteBehind ==
    ASSUME NEW buf \in [Index -> Slice], NEW in \in Index, NEW out \in Index,
           NEW s \in Seq(Slice), NEW n \in 0 .. Len(s),
           in + n <= BufSize, n + Count(in, out) < BufSize
    PROVE  /\ Written(buf, s, in, n) \in [Index -> Slice] /\ (in + n) % BufSize \in Index
           /\ Bytes(Written(buf, s, in, n), (in + n) % BufSize, out)
                = Bytes(buf, in, out) \o SubSeq(s, 1, n)
<1> DEFINE w == Written(buf, s, in, n)
           e == (in + n) % BufSize
           c == Count(in, out)
<1>1. /\ BufSize \in Nat /\ BufSize > 1 /\ n \in Nat /\ in \in Nat /\ out \in Nat
      /\ Len(s) \in Nat /\ in < BufSize /\ out < BufSize
  BY Sizes, LenProperties DEF Index
<1>2. w \in [Index -> Slice]
  <2>1. \A i \in Index : i \in in .. in + n - 1 => i - in + 1 \in 1 .. Len(s)
    BY <1>1 DEF Index
  <2> QED
    BY <2>1, ElementOfSeq DEF Written
<1>3. e \in Index /\ e = IF in + n = BufSize THEN 0 ELSE in + n
  <2>1. in + n \in Int /\ 0 <= in + n /\ in + n <= BufSize
    BY <1>1
  <2>2. PICK x \in Int : x = in + n
    BY <2>1
  <2>3. e = x % BufSize
    BY <2>2
  <2>4. /\ x % BufSize \in Index
        /\ x \in Index => x % BufSize = x
        /\ x \in BufSize .. 2 * BufSize - 1 => x % BufSize = x - BufSize
    BY Wrap
  <2> HIDE DEF e
  <2>5. /\ e \in Index
        /\ x \in Index => e = x
        /\ x \in BufSize .. 2 * BufSize - 1 => e = x - BufSize
    BY <2>3, <2>4, Zenon
  <2> QED
    BY <1>1, <2>1, <2>2, <2>5 DEF Index
<1>4. Count(e, out) = c + n /\ c \in Nat
  <2>1. /\ in >= out => c = in - out
        /\ in < out => c = in - out + BufSize
        /\ c \in Index
    BY CountCases
  <2>2. /\ e >= out => Count(e, out) = e - out
        /\ e < out => Count(e, out) = e - out + BufSize
    BY <1>3, CountCases
  <2>3. n + c < BufSize
    OBVIOUS
  <2> HIDE DEF c, e
  <2> QED
    BY <1>1, <1>3, <2>1, <2>2, <2>3 DEF Index
<1>5. SubSeq(s, 1, n) \in Seq(Slice) /\ Len(SubSeq(s, 1, n)) = n
         /\ \A k \in 1 .. n : SubSeq(s, 1, n)[k] = s[k]
  BY <1>1
<1>6. \A k \in 1 .. c + n : Bytes(w, e, out)[k] = (Bytes(buf, in, out) \o SubSeq(s, 1, n))[k]
  <2> SUFFICES ASSUME NEW k \in 1 .. c + n
               PROVE  Bytes(w, e, out)[k] = (Bytes(buf, in, out) \o SubSeq(s, 1, n))[k]
    OBVIOUS
  <2>1. Bytes(w, e, out)[k] = w[(out + k - 1) % BufSize]
    <3>1. \A j \in 1 .. Count(e, out) : Bytes(w, e, out)[j] = w[(out + j - 1) % BufSize]
      BY <1>2, <1>3, BytesType, Zenon
    <3> HIDE DEF w, e
    <3> QED
      BY <1>4, <3>1
  <2> DEFINE x == (out + k - 1) % BufSize
  <2>2. x \in Index /\ x = IF out + k - 1 < BufSize THEN out + k - 1 ELSE out + k - 1 - BufSize
    <3> DEFINE y == out + k - 1
    <3>1. y \in 0 .. 2 * BufSize - 1
      BY <1>1, <1>4
    <3> HIDE DEF y
    <3>2. y % BufSize \in Index /\ y % BufSize = IF y < BufSize THEN y ELSE y - BufSize
      BY <3>1, WrapOnce
    <3>3. x = y % BufSize
      BY DEF y
    <3>4. y = out + k - 1
      BY DEF y
    <3> HIDE DEF x
    <3>5. k \in Int /\ y \in Int
      BY <1>1, <1>4, <3>1
    <3> QED
      BY <1>1, <3>2, <3>3, <3>4, <3>5
  <2>3. w[x] = IF x \in in .. in + n - 1 THEN s[x - in + 1] ELSE buf[x]
    BY <2>2 DEF Written
  <2> HIDE DEF x, w, e
  <2>4. Bytes(buf, in, out) \in Seq(Slice) /\ Len(Bytes(buf, in, out)) = c
    BY BytesType
  <2>5. /\ in >= out => c = in - out
        /\ in < out => c = in - out + BufSize
        /\ n + c < BufSize
    BY CountCases
  <2> HIDE DEF c
  <2>6. CASE k <= c
    <3>1. x \notin in .. in + n - 1
      BY <1>1, <1>4, <2>2, <2>5, <2>6
    <3>2. Bytes(buf, in, out)[k] = buf[x]
      BY <1>4, <2>6, BytesType DEF x, c
    <3>3. (Bytes(buf, in, out) \o SubSeq(s, 1, n))[k] = Bytes(buf, in, out)[k]
      BY <1>4, <1>5, <2>4, <2>6, ConcatProperties
    <3> QED
      BY <2>1, <2>3, <3>1, <3>2, <3>3 DEF x
  <2>7. CASE k > c
    <3>1. x \in in .. in + n - 1 /\ x - in + 1 = k - c
      BY <1>1, <1>4, <2>2, <2>5, <2>7
    <3>2. k - c \in 1 .. n
      BY <1>1, <1>4, <2>7
    <3>3. (Bytes(buf, in, out) \o SubSeq(s, 1, n))[k] = SubSeq(s, 1, n)[k - c]
      BY <1>4, <1>5, <2>4, <3>2, ConcatProperties
    <3>4. SubSeq(s, 1, n)[k - c] = s[k - c]
      BY <1>5, <3>2
    <3> QED
      BY <2>1, <2>3, <3>1, <3>3, <3>4 DEF x
  <2> QED
    <3>1. k \in Int /\ c \in Int
      BY <1>1, <1>4
    <3>2. k <= c \/ k > c
      BY <3>1
    <3> QED
      BY <2>6, <2>7, <3>2, Zenon
<1>7. Bytes(w, e, out) \in Seq(Slice) /\ Len(Bytes(w, e, out)) = c + n
  BY <1>2, <1>3, <1>4, BytesType
<1>8. /\ Bytes(buf, in, out) \o SubSeq(s, 1, n) \in Seq(Slice)
      /\ Len(Bytes(buf, in, out) \o SubSeq(s, 1, n)) = c + n
  <2>1. Bytes(buf, in, out) \in Seq(Slice) /\ Len(Bytes(buf, in, out)) = c
    BY BytesType
  <2> QED
    BY <1>5, <2>1, ConcatProperties
<1> HIDE DEF w, e, c
<1>9. Bytes(w, e, out) = Bytes(buf, in, out) \o SubSeq(s, 1, n)
  BY <1>6, <1>7, <1>8, SeqEqual
<1> QED
  BY <1>2, <1>3, <1>9 DEF w, e

\* One recv: some of the bytes under way are written from an index on.
LEMMA ReceivedOutcome ==
    ASSUME NEW r, r.buf \in [Index -> Slice], NEW s \in Seq(Slice), NEW at \in Index, NEW room \in Int,
           NEW v \in Received(r, s, at, room)
    PROVE  /\ v.n \in 0 .. Len(s) /\ (v.n = 0 \/ v.n <= room)
           /\ v.buf = Written(r.buf, s, at, v.n)
           /\ v.s = SubSeq(s, v.n + 1, Len(s))
<1>1. DOMAIN r.buf = Index
  OBVIOUS
<1>2. PICK n \in {0} \cup {k \in 1 .. Len(s) : k <= room} :
         v = [buf |-> [i \in DOMAIN r.buf |-> IF i \in at .. at + n - 1 THEN s[i - at + 1] ELSE r.buf[i]],
              n |-> n, s |-> SubSeq(s, n + 1, Len(s))]
  BY DEF Received
<1>3. v.n = n /\ v.s = SubSeq(s, n + 1, Len(s)) /\ v.buf = Written(r.buf, s, at, n)
  BY <1>1, <1>2 DEF Written
<1>4. n \in 0 .. Len(s) /\ (n = 0 \/ n <= room)
  BY <1>2, LenProperties
<1> QED
  BY <1>3, <1>4

\* Concatenation of slices.
LEMMA Regroup ==
    \A a, b, c \in Seq(Slice) : (a \o b) \o c = a \o (b \o c) /\ a \o b \in Seq(Slice)
  BY ConcatAssociative, ConcatProperties

\* n bytes of s are in the buffer, and the rest of s is behind them.
Stored(buf, in, out, s, n) ==
    /\ Written(buf, s, in, n) \in [Index -> Slice] /\ SubSeq(s, n + 1, Len(s)) \in Seq(Slice)
    /\ (in + n) % BufSize \in Index
    /\ Bytes(Written(buf, s, in, n), (in + n) % BufSize, out) \o SubSeq(s, n + 1, Len(s))
         = Bytes(buf, in, out) \o s

\* One recv into free room that does not wrap loses nothing: what is in the
\* buffer and what is under way together stay the same.
LEMMA ReceiveBehind ==
    ASSUME NEW buf \in [Index -> Slice], NEW in \in Index, NEW out \in Index,
           NEW s \in Seq(Slice), NEW n \in 0 .. Len(s),
           in + n <= BufSize, n + Count(in, out) < BufSize
    PROVE  Stored(buf, in, out, s, n)
<1> DEFINE e == (in + n) % BufSize
           w == Written(buf, s, in, n)
           front == SubSeq(s, 1, n)
           rest == SubSeq(s, n + 1, Len(s))
<1>1. w \in [Index -> Slice] /\ e \in Index /\ Bytes(w, e, out) = Bytes(buf, in, out) \o front
  BY WriteBehind
<1>2. front \in Seq(Slice) /\ rest \in Seq(Slice) /\ front \o rest = s
  BY SplitAt
<1>3. Bytes(buf, in, out) \in Seq(Slice)
  BY BytesType
<1> HIDE DEF e, w, front, rest
<1>4. (Bytes(buf, in, out) \o front) \o rest = Bytes(buf, in, out) \o (front \o rest)
  BY <1>2, <1>3, Regroup
<1>5. Bytes(w, e, out) \o rest = Bytes(buf, in, out) \o s
  BY <1>1, <1>2, <1>4, Zenon
<1> QED
  BY <1>1, <1>2, <1>5, Zenon DEF e, w, front, rest, Stored

\* The same for the second recv, at the start of the buffer, when the first
\* one has filled its end.
LEMMA ReceiveAtStart ==
    ASSUME NEW buf \in [Index -> Slice], NEW out \in Index, out > 0,
           NEW s \in Seq(Slice), NEW n \in 0 .. Len(s), n <= out - 1
    PROVE  /\ Written(buf, s, 0, n) \in [Index -> Slice] /\ SubSeq(s, n + 1, Len(s)) \in Seq(Slice)
           /\ n \in Index
           /\ Bytes(Written(buf, s, 0, n), n, out) \o SubSeq(s, n + 1, Len(s))
                = Bytes(buf, 0, out) \o s
<1>1. BufSize \in Nat /\ out \in Nat /\ out < BufSize /\ n \in Nat /\ 0 \in Index /\ 0 \in Int /\ 0 \in Nat
  BY Sizes, LenProperties DEF Index
<1>2. Count(0, out) = BufSize - out
  <2>1. 0 < out => Count(0, out) = 0 - out + BufSize
    BY <1>1, CountCases
  <2> QED
    BY <1>1, <2>1
<1>3. (0 + n) % BufSize = n
  BY <1>1
<1>4. 0 + n <= BufSize /\ n + Count(0, out) < BufSize
  BY <1>1, <1>2
<1>5. /\ Written(buf, s, 0, n) \in [Index -> Slice] /\ SubSeq(s, n + 1, Len(s)) \in Seq(Slice)
      /\ (0 + n) % BufSize \in Index
      /\ Bytes(Written(buf, s, 0, n), (0 + n) % BufSize, out) \o SubSeq(s, n + 1, Len(s))
           = Bytes(buf, 0, out) \o s
  <2>1. PICK z \in Index : z = 0
    BY <1>1
  <2>2. z + n <= BufSize /\ n + Count(z, out) < BufSize /\ z \in Int
    BY <1>1, <1>4, <2>1, Zenon
  <2>3. Stored(buf, z, out, s, n)
    BY <2>2, ReceiveBehind
  <2> QED
    BY <2>1, <2>3, Zenon DEF Stored
<1> QED
  BY <1>3, <1>5, Zenon

\* bufferSWT loses, repeats and reorders nothing, wherever the indices are.
LEMMA BufferKeepsStream ==
    ASSUME NEW r \in Ring, NEW s \in Seq(Slice), NEW u \in bufferSWT(r, s)
    PROVE  /\ u.r \in Ring /\ u.s \in Seq(Slice)
           /\ Bytes(u.r.buf, u.r.in, u.r.out) \o u.s = Bytes(r.buf, r.in, r.out) \o s
<1>1. PICK b \in [Index -> Slice], in \in Index, out \in Index : b = r.buf /\ in = r.in /\ out = r.out
  BY DEF Ring
<1>2. /\ in \in Nat /\ in < BufSize /\ out \in Nat /\ out < BufSize
      /\ BufSize - 1 \in Int /\ 0 \in Index /\ BufSize \in Nat
  BY Sizes DEF Index
<1> DEFINE Kept(c, i, s2) == /\ u.r = [buf |-> c, in |-> i, out |-> out] /\ u.s = s2
                             /\ c \in [Index -> Slice] /\ i \in Index /\ s2 \in Seq(Slice)
                             /\ Bytes(c, i, out) \o s2 = Bytes(b, in, out) \o s
<1>3. ASSUME NEW c, NEW i, NEW s2, Kept(c, i, s2)
      PROVE  /\ u.r \in Ring /\ u.s \in Seq(Slice)
             /\ Bytes(u.r.buf, u.r.in, u.r.out) \o u.s = Bytes(r.buf, r.in, r.out) \o s
  <2>1. u.r.buf = c /\ u.r.in = i /\ u.r.out = out /\ u.r \in Ring
    BY <1>3 DEF Ring
  <2>2. Bytes(u.r.buf, u.r.in, u.r.out) \o u.s = Bytes(b, in, out) \o s
    BY <1>3, <2>1, Zenon
  <2> QED
    BY <1>1, <1>3, <2>1, <2>2, Zenon
<1>4. CASE in = out
  <2>1. PICK v \in Received(r, s, 0, BufSize - 1) :
           u = IF v.n = 0 THEN [r |-> r, s |-> s] ELSE Filled(r, v, v.n, 0)
    BY <1>1, <1>4 DEF bufferSWT
  <2>2. CASE v.n = 0
    BY <2>1, <2>2
  <2>3. CASE v.n # 0
    <3>1. u.r = [buf |-> v.buf, in |-> v.n, out |-> 0] /\ u.s = v.s
      BY <2>1, <2>3 DEF Filled
    <3>2. PICK n \in 0 .. Len(s) : n = v.n /\ n <= BufSize - 1
      BY <1>1, <1>2, <2>3, ReceivedOutcome, LenProperties
    <3>a. v.buf = Written(b, s, 0, n) /\ v.s = SubSeq(s, n + 1, Len(s))
      BY <1>1, <1>2, <3>2, ReceivedOutcome
    <3>3. Count(0, 0) = 0 /\ Count(in, out) = 0
      BY <1>2, <1>4, CountCases
    <3>4. (0 + n) % BufSize = n
      BY <1>2, <3>2
    <3>5. 0 + n <= BufSize /\ n + Count(0, 0) < BufSize
      BY <1>2, <3>2, <3>3
    <3>6. /\ v.buf \in [Index -> Slice] /\ v.s \in Seq(Slice) /\ (0 + n) % BufSize \in Index
          /\ Bytes(v.buf, (0 + n) % BufSize, 0) \o v.s = Bytes(b, 0, 0) \o s
      <4>1. /\ Written(b, s, 0, n) \in [Index -> Slice] /\ SubSeq(s, n + 1, Len(s)) \in Seq(Slice)
            /\ (0 + n) % BufSize \in Index
            /\ Bytes(Written(b, s, 0, n), (0 + n) % BufSize, 0) \o SubSeq(s, n + 1, Len(s))
                 = Bytes(b, 0, 0) \o s
        <5>1. Stored(b, 0, 0, s, n)
          BY <1>2, <3>5, ReceiveBehind
        <5> QED
          BY <5>1, Zenon DEF Stored
      <4> QED
        BY <3>a, <4>1, Zenon
    <3>7. Bytes(b, 0, 0) = Bytes(b, in, out)
      BY <3>3 DEF Bytes
    <3>8. /\ v.buf \in [Index -> Slice] /\ v.s \in Seq(Slice) /\ n \in Index
          /\ Bytes(v.buf, n, 0) \o v.s = Bytes(b, in, out) \o s
      BY <1>1, <3>4, <3>6, <3>7, Zenon
    <3>9. u.r.buf = v.buf /\ u.r.in = n /\ u.r.out = 0 /\ u.r \in Ring
      BY <1>2, <3>1, <3>2, <3>8 DEF Ring
    <3>10. Bytes(u.r.buf, u.r.in, u.r.out) \o u.s = Bytes(b, in, out) \o s
      BY <3>1, <3>8, <3>9, Zenon
    <3> QED
      BY <1>1, <3>1, <3>8, <3>9, <3>10, Zenon
  <2> QED
    BY <2>2, <2>3
<1>5. CASE in # out
  <2>1. PICK v \in Received(r, s, in, Room(r)) :
           u \in IF in > out /\ in + v.n >= BufSize
                 THEN {Filled(r, w, w.n, out) : w \in Received(v, v.s, 0, out - 1)}
                 ELSE {Filled(r, v, in + v.n, out)}
    BY <1>1, <1>5 DEF bufferSWT
  <2>2. PICK room \in Int : /\ room = Room(r)
                            /\ in < out => room = out - in - 1
                            /\ ~(in < out) => room = BufSize - in - (IF out = 0 THEN 1 ELSE 0)
    BY <1>1, <1>2 DEF Room
  <2>3. PICK n \in 0 .. Len(s) : n = v.n /\ (n = 0 \/ n <= room)
    BY <1>1, <2>1, <2>2, ReceivedOutcome, LenProperties
  <2>a. v.buf = Written(b, s, in, n) /\ v.s = SubSeq(s, n + 1, Len(s))
    BY <1>1, <2>2, <2>3, ReceivedOutcome
  <2>n. n \in Nat
    BY <2>3, LenProperties
  <2>4. /\ in >= out => Count(in, out) = in - out
        /\ in < out => Count(in, out) = in - out + BufSize
    BY CountCases
  <2>5. /\ in + n <= BufSize /\ n + Count(in, out) < BufSize
        /\ in + n >= BufSize => in > out /\ in + n = BufSize /\ out > 0
    BY <1>2, <1>5, <2>2, <2>3, <2>4, <2>n
  <2>6. /\ v.buf \in [Index -> Slice] /\ v.s \in Seq(Slice) /\ (in + n) % BufSize \in Index
        /\ Bytes(v.buf, (in + n) % BufSize, out) \o v.s = Bytes(b, in, out) \o s
    <3>1. /\ Written(b, s, in, n) \in [Index -> Slice] /\ SubSeq(s, n + 1, Len(s)) \in Seq(Slice)
          /\ (in + n) % BufSize \in Index
          /\ Bytes(Written(b, s, in, n), (in + n) % BufSize, out) \o SubSeq(s, n + 1, Len(s))
               = Bytes(b, in, out) \o s
      <4>1. Stored(b, in, out, s, n)
        BY <1>2, <2>5, <2>n, ReceiveBehind
      <4> QED
        BY <4>1, Zenon DEF Stored
    <3> QED
      BY <2>a, <3>1, Zenon
  <2>7. CASE in + n < BufSize
    <3>1. (in + n) % BufSize = in + n
      BY <1>2, <2>7, <2>n
    <3>2. u = Filled(r, v, in + n, out)
      BY <1>2, <2>1, <2>3, <2>7, <2>n
    <3>3. u.r = [buf |-> v.buf, in |-> in + n, out |-> out] /\ u.s = v.s
      BY <3>2 DEF Filled
    <3>4. Kept(v.buf, in + n, v.s)
      BY <2>6, <3>1, <3>3, Zenon
    <3> QED
      BY <1>3, <3>4, Zenon
  <2>8. CASE in + n >= BufSize
    <3>1. (in + n) % BufSize = 0
      BY <1>2, <2>5, <2>8
    <3>2. PICK w \in Received(v, v.s, 0, out - 1) : u = Filled(r, w, w.n, out)
      BY <2>1, <2>3, <2>5, <2>8
    <3>3. PICK b2 \in [Index -> Slice], s2 \in Seq(Slice), room2 \in Int :
             b2 = v.buf /\ s2 = v.s /\ room2 = out - 1
      BY <1>2, <2>6
    <3>4. v.buf \in [Index -> Slice] /\ w \in Received(v, s2, 0, room2)
      BY <3>2, <3>3, Zenon
    <3>5. PICK m \in 0 .. Len(s2) : /\ m = w.n /\ (m = 0 \/ m <= room2)
                                    /\ w.buf = Written(v.buf, s2, 0, m)
                                    /\ w.s = SubSeq(s2, m + 1, Len(s2))
      <4>1. PICK z \in Index : z = 0
        BY <1>2
      <4>2. w \in Received(v, s2, z, room2)
        BY <3>4, <4>1, Zenon
      <4>3. /\ w.n \in 0 .. Len(s2) /\ (w.n = 0 \/ w.n <= room2)
            /\ w.buf = Written(v.buf, s2, z, w.n)
            /\ w.s = SubSeq(s2, w.n + 1, Len(s2))
        BY <3>4, <4>2, ReceivedOutcome
      <4> QED
        BY <4>1, <4>3, Zenon
    <3>6. m <= out - 1
      BY <1>2, <2>5, <2>8, <3>3, <3>5
    <3>7. /\ Written(b2, s2, 0, m) \in [Index -> Slice] /\ SubSeq(s2, m + 1, Len(s2)) \in Seq(Slice)
          /\ m \in Index
          /\ Bytes(Written(b2, s2, 0, m), m, out) \o SubSeq(s2, m + 1, Len(s2)) = Bytes(b2, 0, out) \o s2
      BY <2>5, <2>8, <3>6, ReceiveAtStart
    <3>a. u.r = [buf |-> w.buf, in |-> m, out |-> out] /\ u.s = w.s
      BY <3>2, <3>5 DEF Filled
    <3>8. Kept(w.buf, m, w.s)
      BY <2>6, <3>1, <3>3, <3>5, <3>7, <3>a, Zenon
    <3> QED
      BY <1>3, <3>8, Zenon
  <2> QED
    <3>1. in + n < BufSize \/ in + n >= BufSize
      BY <1>2, <2>n
    <3> QED
      BY <2>7, <2>8, <3>1, Zenon
<1> QED
  BY <1>4, <1>5

\* Taking the byte at bufferOutIndex.
LEMMA TakeOut ==
    ASSUME NEW buf \in [Index -> Slice], NEW in \in Index, NEW out \in Index, in # out
    PROVE  /\ buf[out] \in Slice /\ (out + 1) % BufSize \in Index
           /\ Bytes(buf, in, out) = <<buf[out]>> \o Bytes(buf, in, (out + 1) % BufSize)
<1> DEFINE e == (out + 1) % BufSize
           c == Count(in, e)
           left == Bytes(buf, in, out)
           right == <<buf[out]>> \o Bytes(buf, in, e)
<1>1. /\ BufSize \in Nat /\ BufSize > 1 /\ in \in Nat /\ in < BufSize /\ out \in Nat /\ out < BufSize
  BY Sizes DEF Index
<1>2. e \in Index /\ e \in Nat /\ e = IF out + 1 = BufSize THEN 0 ELSE out + 1
  <2>1. out + 1 \in 0 .. 2 * BufSize - 1
    BY <1>1
  <2>2. e \in Index /\ e = IF out + 1 < BufSize THEN out + 1 ELSE out + 1 - BufSize
    BY <1>1, <2>1 DEF Index
  <2> HIDE DEF e
  <2> QED
    BY <1>1, <2>2 DEF Index
<1> HIDE DEF e
<1>3. c \in Nat /\ Count(in, out) = c + 1
  <2>1. /\ in >= out => Count(in, out) = in - out
        /\ in < out => Count(in, out) = in - out + BufSize
    BY CountCases
  <2>2. /\ in >= e => c = in - e
        /\ in < e => c = in - e + BufSize
        /\ c \in Nat
    BY <1>2, CountCases
  <2> HIDE DEF c
  <2> QED
    BY <1>1, <1>2, <2>1, <2>2
<1>4. buf[out] \in Slice
  OBVIOUS
<1>5. /\ left \in Seq(Slice) /\ Len(left) = c + 1
      /\ \A k \in 1 .. c + 1 : left[k] = buf[(out + k - 1) % BufSize]
  BY <1>3, BytesType
<1>6. /\ Bytes(buf, in, e) \in Seq(Slice) /\ Len(Bytes(buf, in, e)) = c
      /\ \A k \in 1 .. c : Bytes(buf, in, e)[k] = buf[(e + k - 1) % BufSize]
  BY <1>2, BytesType
<1>7. c <= BufSize - 1
  <2>1. c \in Index
    BY <1>2, CountCases
  <2> QED
    BY <1>1, <2>1 DEF Index
<1> HIDE DEF c
<1>8. /\ right \in Seq(Slice) /\ Len(right) = c + 1
      /\ \A k \in 1 .. c + 1 : right[k] = IF k <= 1 THEN buf[out] ELSE Bytes(buf, in, e)[k - 1]
  <2> DEFINE t == Bytes(buf, in, e)
  <2>1. t \in Seq(Slice) /\ Len(t) = c
    BY <1>6
  <2> HIDE DEF t
  <2>2. <<buf[out]>> \in Seq(Slice) /\ Len(<<buf[out]>>) = 1 /\ <<buf[out]>>[1] = buf[out]
    BY <1>4
  <2>3. /\ <<buf[out]>> \o t \in Seq(Slice) /\ Len(<<buf[out]>> \o t) = 1 + c
        /\ \A k \in 1 .. 1 + c : (<<buf[out]>> \o t)[k] = IF k <= 1 THEN <<buf[out]>>[k] ELSE t[k - 1]
    BY <2>1, <2>2, ConcatProperties
  <2>4. \A k \in 1 .. c + 1 : k <= 1 => k = 1
    BY <1>3
  <2>5. 1 + c = c + 1
    BY <1>3
  <2> QED
    BY <2>2, <2>3, <2>4, <2>5 DEF t
<1>9. \A k \in 1 .. c + 1 : left[k] = right[k]
  <2> SUFFICES ASSUME NEW k \in 1 .. c + 1 PROVE left[k] = right[k]
    OBVIOUS
  <2> HIDE DEF left, right
  <2>1. left[k] = buf[(out + k - 1) % BufSize]
    BY <1>5
  <2>2. CASE k = 1
    <3>1. out + k - 1 = out /\ out % BufSize = out
      BY <1>1, <2>2
    <3>2. right[k] = buf[out]
      BY <1>3, <1>8, <2>2
    <3> QED
      BY <2>1, <3>1, <3>2, Zenon
  <2>3. CASE k > 1
    <3>1. k - 1 \in 1 .. c /\ k \in Nat
      BY <1>3, <2>3
    <3>2. right[k] = Bytes(buf, in, e)[k - 1]
      BY <1>3, <1>8, <2>3, <3>1
    <3>3. Bytes(buf, in, e)[k - 1] = buf[(e + (k - 1) - 1) % BufSize]
      BY <1>6, <3>1
    <3>4. (e + (k - 1) - 1) % BufSize = (out + k - 1) % BufSize
      <4>1. CASE out + 1 < BufSize
        BY <1>1, <1>2, <3>1, <4>1
      <4>2. CASE out + 1 = BufSize
        <5> DEFINE y == k - 2
        <5>1. y \in 0 .. BufSize - 1 /\ e + (k - 1) - 1 = y /\ out + k - 1 = y + BufSize
          BY <1>1, <1>2, <1>3, <1>7, <2>3, <4>2
        <5> HIDE DEF y
        <5>2. y % BufSize = y /\ (y + BufSize) % BufSize = y
          BY <1>1, <5>1
        <5> QED
          BY <5>1, <5>2, Zenon
      <4> QED
        BY <1>1, <4>1, <4>2
    <3> QED
      BY <2>1, <3>2, <3>3, <3>4, Zenon
  <2> QED
    BY <1>3, <2>2, <2>3
<1> HIDE DEF left, right
<1>10. left = right
  BY <1>3, <1>5, <1>8, <1>9, SeqEqual
<1> QED
  BY <1>2, <1>4, <1>10 DEF left, right, e

\* Taking the first element off what is left of a sequence.
LEMMA NextElement ==
    ASSUME NEW w \in Seq(Slice), NEW t \in 0 .. Len(w), NEW b \in Slice, NEW rest \in Seq(Slice),
           <<b>> \o rest = SubSeq(w, t + 1, Len(w))
    PROVE  t + 1 \in 0 .. Len(w) /\ rest = SubSeq(w, (t + 1) + 1, Len(w))
<1>1. Len(w) \in Nat
  BY LenProperties
<1>2. Len(SubSeq(w, t + 1, Len(w))) = Len(w) - t
  BY SplitAt
<1>3. <<b>> \in Seq(Slice) /\ Len(<<b>>) = 1
  OBVIOUS
<1>4. Len(<<b>> \o rest) = 1 + Len(rest) /\ Len(rest) \in Nat
  BY <1>3, ConcatProperties, LenProperties
<1>5. t + 1 \in 1 .. Len(w) /\ Len(w) \in t + 1 .. Len(w)
  BY <1>1, <1>2, <1>4
<1>6. SubSeq(w, t + 1, Len(w)) = <<w[t + 1]>> \o SubSeq(w, (t + 1) + 1, Len(w))
  BY <1>5, SubSeqRecursiveFirst, Zenon
<1> DEFINE c == w[t + 1]
           r2 == SubSeq(w, (t + 1) + 1, Len(w))
<1>7. c \in Slice /\ r2 \in Seq(Slice)
  BY <1>1, <1>5, ElementOfSeq, SplitAt
<1> HIDE DEF c, r2
<1>8. <<b>> \o rest = <<c>> \o r2
  BY <1>6 DEF c, r2
<1>9. Tail(<<b>> \o rest) = rest /\ Tail(<<c>> \o r2) = r2
  BY <1>7
<1> QED
  BY <1>5, <1>8, <1>9 DEF r2

\* The buffer with another bufferOutIndex.
LEMMA RingOut ==
    ASSUME NEW r \in Ring, NEW q, q = [r EXCEPT !.out = (@ + 1) % BufSize],
           (r.out + 1) % BufSize \in Index
    PROVE  q \in Ring /\ q.buf = r.buf /\ q.in = r.in /\ q.out = (r.out + 1) % BufSize
<1>1. DOMAIN r = {"buf", "in", "out"} /\ r.buf \in [Index -> Slice] /\ r.in \in Index /\ r.out \in Index
  BY DEF Ring
<1>2. q = [x \in DOMAIN r |-> IF x = "out" THEN (r.out + 1) % BufSize ELSE r[x]]
  BY Zenon
<1>3. q.buf = r.buf /\ q.in = r.in /\ q.out = (r.out + 1) % BufSize
  BY <1>1, <1>2
<1>4. q = [buf |-> r.buf, in |-> r.in, out |-> (r.out + 1) % BufSize]
  BY <1>1, <1>2
<1> QED
  BY <1>1, <1>3, <1>4 DEF Ring

-----------------------------------------------------------------------------
(* The stream.                                                             *)

\* What is in the socket buffer and what has not been read or received.
Stream(r, s) == Bytes(r.buf, r.in, r.out) \o s

StreamType ==
    /\ socket \in BOOLEAN /\ wire \in Seq(Slice) /\ input \in Seq(Slice) /\ ring \in Ring
    /\ taken \in 0 .. Len(wire)

\* A file does not use the socket buffer.
FileSkipsBuffer == ~socket => ring.in = ring.out

StreamInv ==
    /\ StreamType
    /\ FileSkipsBuffer
    /\ Stream(ring, input) = SubSeq(wire, taken + 1, Len(wire))

\* The stream is what BufferHoldsStream speaks of.
LEMMA StreamIsBuffer == Stream(ring, input) = RingBytes \o input
  BY DEF Stream, RingBytes, Bytes, Count

\* Nothing between equal indices.
LEMMA EmptyBuffer ==
    ASSUME NEW r \in Ring, NEW s \in Seq(Slice), r.in = r.out
    PROVE  Stream(r, s) = s
<1>1. r.buf \in [Index -> Slice] /\ r.in \in Index /\ r.out \in Index
  BY DEF Ring
<1>2. r.in \in Int
  BY <1>1, Sizes DEF Index
<1>3. Count(r.in, r.out) = 0
  BY <1>1, <1>2, CountCases
<1>4. Bytes(r.buf, r.in, r.out) = << >>
  BY <1>3 DEF Bytes
<1>5. << >> \o s = s
  BY ConcatEmptySeq
<1> QED
  BY <1>4, <1>5 DEF Stream

\* The next byte is the first of the stream, and taking it leaves the others.
LEMMA NextByteOfStream ==
    ASSUME StreamType, FileSkipsBuffer, NEW u \in NextByte
    PROVE  /\ u.b \in Slice /\ u.ring \in Ring /\ u.input \in Seq(Slice)
           /\ ~socket => u.ring = ring
           /\ Stream(u.ring, u.input) \in Seq(Slice)
           /\ <<u.b>> \o Stream(u.ring, u.input) = Stream(ring, input)
<1>1. ring \in Ring /\ input \in Seq(Slice) /\ socket \in BOOLEAN
  BY DEF StreamType
<1>2. CASE socket
  <2>1. PICK v \in bufferSWT(ring, input) :
           /\ v.r.in # v.r.out
           /\ u = [b |-> v.r.buf[v.r.out], ring |-> [v.r EXCEPT !.out = (@ + 1) % BufSize], input |-> v.s]
    BY <1>2, Zenon DEF NextByte
  <2>2. /\ u.b = v.r.buf[v.r.out] /\ u.input = v.s
        /\ u.ring = [v.r EXCEPT !.out = (@ + 1) % BufSize]
    BY <2>1, Zenon
  <2>3. v.r \in Ring /\ v.s \in Seq(Slice) /\ Stream(v.r, v.s) = Stream(ring, input)
    BY <1>1, BufferKeepsStream DEF Stream
  <2>4. PICK r \in Ring : r = v.r
    BY <2>3
  <2>5. PICK buf \in [Index -> Slice], in \in Index, out \in Index :
           buf = r.buf /\ in = r.in /\ out = r.out /\ in # out
    BY <2>1, <2>4 DEF Ring
  <2>6. /\ buf[out] \in Slice /\ (out + 1) % BufSize \in Index
        /\ Bytes(buf, in, out) = <<buf[out]>> \o Bytes(buf, in, (out + 1) % BufSize)
    BY <2>5, TakeOut
  <2>7. /\ u.ring \in Ring /\ u.ring.buf = buf /\ u.ring.in = in
        /\ u.ring.out = (out + 1) % BufSize
    <3>1. u.ring = [r EXCEPT !.out = (@ + 1) % BufSize]
      BY <2>2, <2>4, Zenon
    <3>2. (r.out + 1) % BufSize \in Index
      BY <2>5, <2>6, Zenon
    <3>3. u.ring \in Ring /\ u.ring.buf = r.buf /\ u.ring.in = r.in /\ u.ring.out = (r.out + 1) % BufSize
      BY <3>1, <3>2, RingOut, Zenon
    <3> QED
      BY <2>5, <3>3, Zenon
  <2> DEFINE tail == Bytes(buf, in, (out + 1) % BufSize)
             b == buf[out]
             s == v.s
  <2>8. tail \in Seq(Slice) /\ <<b>> \in Seq(Slice) /\ s \in Seq(Slice)
    BY <2>3, <2>6, BytesType
  <2>9. Stream(u.ring, u.input) = tail \o s /\ Stream(v.r, v.s) = Bytes(buf, in, out) \o s /\ u.b = b
    BY <2>2, <2>4, <2>5, <2>7, Zenon DEF Stream
  <2>10. Bytes(buf, in, out) = <<b>> \o tail
    BY <2>6
  <2> HIDE DEF tail, b, s
  <2>11. (<<b>> \o tail) \o s = <<b>> \o (tail \o s) /\ tail \o s \in Seq(Slice)
    BY <2>8, Regroup
  <2>12. <<u.b>> \o Stream(u.ring, u.input) = Stream(ring, input)
    BY <2>3, <2>9, <2>10, <2>11, Zenon
  <2> QED
    BY <1>2, <2>2, <2>3, <2>6, <2>7, <2>9, <2>11, <2>12, Zenon DEF b
<1>3. CASE ~socket
  <2>1. input # << >> /\ u = [b |-> Head(input), ring |-> ring, input |-> Tail(input)]
    BY <1>3 DEF NextByte
  <2>2. u.b = Head(input) /\ u.ring = ring /\ u.input = Tail(input)
    BY <2>1
  <2>3. Head(input) \in Slice /\ Tail(input) \in Seq(Slice)
    BY <1>1, <2>1, HeadTailProperties
  <2>4. Stream(ring, input) = input /\ Stream(ring, Tail(input)) = Tail(input)
    BY <1>1, <1>3, <2>3, EmptyBuffer DEF FileSkipsBuffer
  <2>5. <<Head(input)>> \o Tail(input) = input
    BY <1>1, <2>1
  <2> QED
    BY <1>1, <2>2, <2>3, <2>4, <2>5, Zenon
<1> QED
  BY <1>1, <1>2, <1>3

\* Taking the next byte.
LEMMA TakeKeepsStream ==
    ASSUME StreamInv, NEW u \in NextByte, Take(u)
    PROVE  StreamInv' /\ u.b \in Slice
<1>1. /\ u.b \in Slice /\ u.ring \in Ring /\ u.input \in Seq(Slice)
      /\ ~socket => u.ring = ring
      /\ Stream(u.ring, u.input) \in Seq(Slice)
      /\ <<u.b>> \o Stream(u.ring, u.input) = Stream(ring, input)
  BY NextByteOfStream DEF StreamInv
<1>2. /\ ring' = u.ring /\ input' = u.input /\ taken' = taken + 1
      /\ socket' = socket /\ wire' = wire
  BY DEF Take
<1>3. wire \in Seq(Slice) /\ taken \in 0 .. Len(wire) /\ socket \in BOOLEAN
  BY DEF StreamInv, StreamType
<1> DEFINE rest == Stream(u.ring, u.input)
<1>4. <<u.b>> \o rest = SubSeq(wire, taken + 1, Len(wire)) /\ rest \in Seq(Slice)
  BY <1>1 DEF StreamInv
<1> HIDE DEF rest
<1>5. taken + 1 \in 0 .. Len(wire) /\ rest = SubSeq(wire, (taken + 1) + 1, Len(wire))
  BY <1>1, <1>3, <1>4, NextElement
<1>6. StreamType'
  BY <1>1, <1>2, <1>3, <1>5 DEF StreamType, Slice
<1>7. FileSkipsBuffer'
  BY <1>1, <1>2 DEF StreamInv, FileSkipsBuffer
<1>8. Stream(ring', input') = SubSeq(wire', taken' + 1, Len(wire'))
  BY <1>2, <1>5, Zenon DEF rest
<1> QED
  BY <1>1, <1>6, <1>7, <1>8 DEF StreamInv, Stream, Bytes, Count

\* Filling the buffer.
LEMMA FillKeepsStream ==
    ASSUME StreamInv, socket, NEW u \in bufferSWT(ring, input), ring' = u.r, input' = u.s,
           UNCHANGED <<socket, wire, taken>>
    PROVE  StreamInv'
<1>1. ring \in Ring /\ input \in Seq(Slice)
  BY DEF StreamInv, StreamType
<1>2. u.r \in Ring /\ u.s \in Seq(Slice) /\ Stream(u.r, u.s) = Stream(ring, input)
  BY <1>1, BufferKeepsStream DEF Stream
<1>3. StreamType' /\ FileSkipsBuffer'
  BY <1>2 DEF StreamInv, StreamType, FileSkipsBuffer, Slice
<1>4. Stream(ring', input') = SubSeq(wire', taken' + 1, Len(wire'))
  BY <1>2 DEF StreamInv
<1> QED
  BY <1>3, <1>4 DEF StreamInv, Stream, Bytes, Count

\* At the start everything is still in the file or under way.
LEMMA StreamInit == Init => StreamInv
<1> SUFFICES ASSUME Init PROVE StreamInv
  OBVIOUS
<1>1. socket \in BOOLEAN /\ wire \in Seq(Slice)
  BY ParserAssumption DEF Init
<1>2. ring \in Ring /\ ring.in = 0 /\ ring.out = 0
  <2>1. Blank \in Slice
    BY DEF Blank, Slice
  <2>2. [i \in 0 .. BufSize - 1 |-> Blank] \in [Index -> Slice] /\ 0 \in Index
    BY <2>1, Sizes DEF Index
  <2> QED
    BY <2>2 DEF Init, Ring
<1>3. input = wire /\ taken = 0
  BY DEF Init
<1>4. Len(wire) \in Nat
  BY <1>1, LenProperties
<1>5. StreamType /\ FileSkipsBuffer
  BY <1>1, <1>2, <1>3, <1>4 DEF StreamType, FileSkipsBuffer
<1>6. Stream(ring, input) = wire
  BY <1>1, <1>2, <1>3, EmptyBuffer
<1>7. SubSeq(wire, taken + 1, Len(wire)) = wire
  BY <1>1, <1>3, SubSeqFull
<1> QED
  BY <1>5, <1>6, <1>7 DEF StreamInv

\* Every step keeps the stream.
LEMMA StreamStep ==
    ASSUME StreamInv, [Next]_vars
    PROVE  StreamInv'
<1>1. ASSUME UNCHANGED <<socket, wire, input, ring, taken>>
      PROVE  StreamInv'
  BY <1>1 DEF StreamInv, StreamType, FileSkipsBuffer, Stream, Bytes, Count, Ring, Index, Slice
<1>2. CASE UNCHANGED vars
  BY <1>1, <1>2 DEF vars
<1>3. CASE readNextTraceMsg
  BY <1>1, <1>3 DEF readNextTraceMsg
<1>4. CASE getNumBytesInSWTQ
  BY <1>1, <1>4, FillKeepsStream DEF getNumBytesInSWTQ
<1>5. CASE Skip
  BY <1>5, TakeKeepsStream DEF Skip
<1>6. CASE FirstSlice
  BY <1>6, TakeKeepsStream DEF FirstSlice
<1>7. CASE NextSlice
  BY <1>7, TakeKeepsStream DEF NextSlice
<1>8. CASE LastSlice
  BY <1>8, TakeKeepsStream DEF LastSlice
<1>9. CASE Overflow
  BY <1>1, <1>9 DEF Overflow
<1>10. CASE NoData
  BY <1>10, FillKeepsStream DEF NoData
<1>11. CASE EndOfFile
  BY <1>1, <1>11 DEF EndOfFile
<1>12. CASE ReadFails
  BY <1>1, <1>12 DEF ReadFails
<1> QED
  BY <1>2, <1>3, <1>4, <1>5, <1>6, <1>7, <1>8, <1>9, <1>10, <1>11, <1>12 DEF Next

\* bufferSWT neither overwrites a byte that has not been read, nor drops,
\* repeats or reorders one, for every size of the socket buffer, every stream
\* and every way recv cuts it up.
THEOREM BufferHoldsStreamHolds == Spec => []BufferHoldsStream
<1>1. Init => StreamInv
  BY StreamInit
<1>2. StreamInv /\ [Next]_vars => StreamInv'
  BY StreamStep
<1>3. StreamInv => BufferHoldsStream
  BY StreamIsBuffer DEF StreamInv, BufferHoldsStream
<1> QED
  BY <1>1, <1>2, <1>3, PTL DEF Spec

-----------------------------------------------------------------------------
(* Return codes.                                                           *)

\* A cursor with a return code; parseField and parseTimestamp keep it one.
HasCode(s) == "rc" \in DOMAIN s /\ s["rc"] \in Codes

Kinds == {"fixed", "var", "varif", "check"}

\* Setting the code, and leaving it alone.
LEMMA CodeSet ==
    ASSUME NEW s, HasCode(s), NEW code \in Codes
    PROVE  HasCode(Failed(s, code))
<1>1. "rc" \in DOMAIN s
  BY DEF HasCode
<1>2. DOMAIN [s EXCEPT !.rc = code] = DOMAIN s /\ [s EXCEPT !.rc = code]["rc"] = code
  BY <1>1, Zenon
<1> QED
  BY <1>1, <1>2, Zenon DEF HasCode, Failed

\* Moving the cursor and storing fields leaves its code alone.
LEMMA CodeKept ==
    ASSUME NEW s, HasCode(s), NEW bit, NEW eom, NEW f
    PROVE  HasCode([s EXCEPT !.bit = bit, !.eom = eom, !.f = f])
<1>1. "rc" \in DOMAIN s /\ "rc" # "bit" /\ "rc" # "eom" /\ "rc" # "f"
  BY DEF HasCode
<1> DEFINE s1 == [s EXCEPT !.bit = bit]
           s2 == [s1 EXCEPT !.eom = eom]
           s3 == [s2 EXCEPT !.f = f]
<1>2. DOMAIN s1 = DOMAIN s /\ s1["rc"] = s["rc"]
  BY <1>1, Zenon
<1> HIDE DEF s1
<1>3. DOMAIN s2 = DOMAIN s1 /\ s2["rc"] = s1["rc"]
  BY <1>1, <1>2, Zenon
<1> HIDE DEF s2
<1>4. DOMAIN s3 = DOMAIN s2 /\ s3["rc"] = s2["rc"]
  BY <1>1, <1>2, <1>3, Zenon
<1>5. HasCode(s3)
  BY <1>1, <1>2, <1>3, <1>4, Zenon DEF HasCode
<1> QED
  BY <1>5, Zenon DEF s1, s2, s3

\* The parse functions of fields return a code.
LEMMA FixedFieldCode ==
    ASSUME NEW m, NEW s, HasCode(s), NEW name, NEW width
    PROVE  HasCode(parseFixedField(m, s, name, width))
<1>1. "EOM" \in Codes
  BY DEF Codes
<1>2. HasCode(Failed(s, "EOM"))
  BY <1>1, CodeSet
<1> QED
  BY <1>2, CodeKept, Zenon DEF parseFixedField

\* A field of variable width: its codes are those of the parse functions.
LEMMA VarFieldCode ==
    ASSUME NEW m, NEW s, HasCode(s), NEW name, NEW ub
    PROVE  HasCode(parseVarField(m, s, name, ub))
<1>1. "EOM" \in Codes /\ "ERR" \in Codes
  BY DEF Codes
<1>2. HasCode(Failed(s, "EOM")) /\ HasCode(Failed(s, "ERR"))
  BY <1>1, CodeSet
<1> DEFINE i    == s.bit \div 6
           b    == s.bit % 6
           last == CHOOSE j \in i .. Len(m) - 1 :
                     /\ m[j + 1].mseo # "NORMAL"
                     /\ \A k \in i .. j - 1 : m[k + 1].mseo = "NORMAL"
           w    == 6 * (last - i + 1) - b
           v    == IF w - 6 >= ValBits THEN ub ELSE (DataOf(m, i, last) \div 2^b) % 2^ValBits
           done == [s EXCEPT !.bit = @ + w, !.eom = @ \/ m[last + 1].mseo = "END",
                             !.f = Append(@, <<name, v>>)]
<1>3. parseVarField(m, s, name, ub) =
        IF i >= Len(m) THEN Failed(s, "EOM")
        ELSE IF w > ValBits /\ m[last + 1].data >= 16 THEN Failed(s, "ERR")
        ELSE done
  BY Zenon DEF parseVarField
<1> HIDE DEF i, b, last, w, v
<1>4. HasCode(done)
  BY CodeKept, Zenon
<1> HIDE DEF done
<1> QED
  BY <1>2, <1>3, <1>4, Zenon

\* The same for a field of any kind of a layout.
LEMMA FieldCode ==
    ASSUME NEW m, NEW s, HasCode(s), NEW fld, fld.kind \in Kinds, NEW ub
    PROVE  HasCode(parseField(m, s, fld, ub))
<1>1. "ERR" \in Codes
  BY DEF Codes
<1>2. HasCode(Failed(s, "ERR"))
  BY <1>1, CodeSet
<1>3. HasCode(parseFixedField(m, s, fld.name, fld.width))
  BY FixedFieldCode
<1>4. HasCode(parseVarField(m, s, fld.name, ub))
  BY VarFieldCode
<1>5. CASE s.rc # "OK"
  BY <1>5, Zenon DEF parseField
<1>6. CASE s.rc = "OK" /\ fld.kind = "fixed"
  BY <1>3, <1>6 DEF parseField
<1>7. CASE s.rc = "OK" /\ fld.kind = "var"
  BY <1>4, <1>7 DEF parseField
<1>8. CASE s.rc = "OK" /\ fld.kind = "varif"
  BY <1>4, <1>8 DEF parseField
<1>9. CASE s.rc = "OK" /\ fld.kind = "check"
  BY <1>2, <1>9 DEF parseField
<1> QED
  BY <1>5, <1>6, <1>7, <1>8, <1>9 DEF Kinds

\* The same for the optional time stamp at the end of a message.
LEMMA TimestampCode ==
    ASSUME NEW m, NEW s, HasCode(s), NEW ub
    PROVE  HasCode(parseTimestamp(m, s, ub))
<1> DEFINE t == parseVarField(m, s, "timestamp", ub)
<1>1. HasCode(t)
  BY VarFieldCode
<1>2. "BM" \in Codes
  BY DEF Codes
<1> HIDE DEF t
<1>3. HasCode(Failed(t, "BM"))
  BY <1>1, <1>2, CodeSet
<1> QED
  BY <1>1, <1>3, Zenon DEF parseTimestamp, t

\* Every field of a layout is of a kind that parseField knows.
Names == {"tcode", "src", "cksrc", "ckdf", "addr", "ckdata1", "b_type", "i_cnt", "history", "sync",
          "rCode", "rData", "evcode", "cdf", "etype", "pad", "pid", "data", "idTag"}

FieldSpec ==
    [kind : {"fixed"}, name : Names, width : Nat] \cup [kind : {"var"}, name : Names]
      \cup [kind : {"varif"}, name : Names, sel : Names, in : SUBSET Nat]
      \cup [kind : {"check"}, name : Names, in : SUBSET Nat]

\* A field of a layout has one of the kinds parseField tells apart.
LEMMA FieldSpecKinds == \A f \in FieldSpec : f.kind \in Kinds
  BY DEF FieldSpec, Kinds

\* Every parse function has a well-formed layout.
LEMMA LayoutsTyped == \A t \in DOMAIN Layouts : Layouts[t] \in Seq(FieldSpec)
<1>1. /\ {0, 1} \in SUBSET Nat /\ {1} \in SUBSET Nat /\ {0, 1, 8, 9} \in SUBSET Nat
      /\ 2 \in Nat /\ 4 \in Nat
  OBVIOUS
<1>2. parseICT \in Seq(FieldSpec) /\ parseICTWS \in Seq(FieldSpec)
  BY <1>1 DEF FieldSpec, Names, Fixed, Var, VarIf, Check, parseICT, parseICTWS
<1>3. parseIndirectHistory \in Seq(FieldSpec) /\ parseIndirectHistoryWS \in Seq(FieldSpec)
  BY <1>1 DEF FieldSpec, Names, Fixed, Var, VarIf, Check, parseIndirectHistory, parseIndirectHistoryWS
<1>4. parseResourceFull \in Seq(FieldSpec) /\ parseCorrelation \in Seq(FieldSpec)
  BY <1>1 DEF FieldSpec, Names, Fixed, Var, VarIf, Check, parseResourceFull, parseCorrelation
<1>5. parseDirectBranch \in Seq(FieldSpec) /\ parseDirectBranchWS \in Seq(FieldSpec)
  BY <1>1 DEF FieldSpec, Names, Fixed, Var, VarIf, Check, parseDirectBranch, parseDirectBranchWS
<1>6. parseIndirectBranch \in Seq(FieldSpec) /\ parseIndirectBranchWS \in Seq(FieldSpec)
  BY <1>1 DEF FieldSpec, Names, Fixed, Var, VarIf, Check, parseIndirectBranch, parseIndirectBranchWS
<1>7. parseSync \in Seq(FieldSpec) /\ parseError \in Seq(FieldSpec)
  BY <1>1 DEF FieldSpec, Names, Fixed, Var, VarIf, Check, parseSync, parseError
<1>8. /\ parseOwnershipTrace \in Seq(FieldSpec) /\ parseAuxAccessWrite \in Seq(FieldSpec)
      /\ parseDataAcquisition \in Seq(FieldSpec)
  BY <1>1 DEF FieldSpec, Names, Fixed, Var, VarIf, Check, parseOwnershipTrace, parseAuxAccessWrite, parseDataAcquisition
<1> QED
  BY <1>2, <1>3, <1>4, <1>5, <1>6, <1>7, <1>8 DEF Layouts

\* So every field of the layout of a supported message has a known kind.
LEMMA LayoutKinds ==
    ASSUME NEW m, Supported(m)
    PROVE  /\ Layout(m) \in Seq(FieldSpec)
           /\ \A k \in 1 .. Len(Layout(m)) : Layout(m)[k].kind \in Kinds
<1> DEFINE a == <<Fixed("tcode", 6)>>
           b == IF SrcBits > 0 THEN <<Fixed("src", SrcBits)>> ELSE << >>
           c == Layouts[m[1].data]
<1>1. a \in Seq(FieldSpec) /\ b \in Seq(FieldSpec)
  <2>1. 6 \in Nat /\ SrcBits \in Nat
    BY SlicesAssumption
  <2>2. Fixed("tcode", 6) \in FieldSpec /\ Fixed("src", SrcBits) \in FieldSpec
    BY <2>1 DEF FieldSpec, Names, Fixed
  <2> QED
    BY <2>2
<1>2. c \in Seq(FieldSpec)
  BY LayoutsTyped DEF Supported
<1>3. Layout(m) = a \o b \o c
  BY Zenon DEF Layout
<1> HIDE DEF a, b, c
<1>4. a \o b \in Seq(FieldSpec)
  BY <1>1, ConcatProperties
<1>5. Layout(m) \in Seq(FieldSpec)
  BY <1>2, <1>3, <1>4, ConcatProperties
<1> QED
  BY <1>5, ElementOfSeq, FieldSpecKinds

\* The cursor after field k, from the one before it, and a function that
\* holds the cursors after the first n fields.
After(m, ub, c, k) == CHOOSE r \in {parseField(m, s, Layout(m)[k], ub) : s \in {c[k - 1]}} : TRUE
AreCursors(m, ub, n, c) ==
    c = [k \in 0 .. n |-> IF k = 0 THEN StartOf ELSE After(m, ub, c, k)]

\* The cursor after a field is what parseField makes of the one before.
LEMMA AfterIsParse ==
    ASSUME NEW m, NEW ub, NEW c, NEW k
    PROVE  After(m, ub, c, k) = parseField(m, c[k - 1], Layout(m)[k], ub)
<1>1. {parseField(m, s, Layout(m)[k], ub) : s \in {c[k - 1]}} = {parseField(m, c[k - 1], Layout(m)[k], ub)}
  BY Zenon
<1> DEFINE x == parseField(m, c[k - 1], Layout(m)[k], ub)
<1>2. After(m, ub, c, k) = CHOOSE r \in {x} : TRUE
  BY <1>1, Zenon DEF After
<1> HIDE DEF x
<1>3. (CHOOSE r \in {x} : TRUE) = x
  OBVIOUS
<1> QED
  BY <1>2, <1>3, Zenon DEF x

\* There is such a function for every n.
LEMMA CursorsExist ==
    ASSUME NEW m, NEW ub, NEW n \in Nat
    PROVE  \E c : AreCursors(m, ub, n, c)
<1> DEFINE T == {x \in Nat : ~ \E c : AreCursors(m, ub, x, c)}
<1> SUFFICES ASSUME T # {} PROVE FALSE
  OBVIOUS
<1>1. PICK x \in T : \A y \in T : x <= y
  BY LeastNatural
<1>2. x \in Nat /\ ~ \E c : AreCursors(m, ub, x, c)
  OBVIOUS
<1>3. CASE x = 0
  <2> DEFINE g == [k \in 0 .. 0 |-> StartOf]
  <2>1. g = [k \in 0 .. 0 |-> IF k = 0 THEN StartOf ELSE After(m, ub, g, k)]
    <3>1. \A k \in 0 .. 0 : k = 0
      OBVIOUS
    <3> QED
      BY <3>1, Zenon
  <2>2. AreCursors(m, ub, 0, g)
    BY <2>1, Zenon DEF AreCursors
  <2> QED
    BY <1>2, <1>3, <2>2, Zenon
<1>4. CASE x # 0
  <2>1. x - 1 \in Nat /\ x - 1 \notin T
    BY <1>1, <1>2, <1>4
  <2>2. PICK f : AreCursors(m, ub, x - 1, f)
    BY <2>1, Zenon
  <2> DEFINE g == [k \in 0 .. x |-> IF k = x THEN After(m, ub, f, x) ELSE f[k]]
  <2>3. /\ \A k \in 0 .. x : g[k] = IF k = x THEN After(m, ub, f, x) ELSE f[k]
        /\ DOMAIN g = 0 .. x
    BY Zenon
  <2>4. \A k \in 0 .. x - 1 : f[k] = IF k = 0 THEN StartOf ELSE After(m, ub, f, k)
    BY <2>2, Zenon DEF AreCursors
  <2> HIDE DEF g
  <2>5. ASSUME NEW k \in 0 .. x
        PROVE  g[k] = IF k = 0 THEN StartOf ELSE After(m, ub, g, k)
    <3>1. CASE k = 0
      <4>1. 0 \in 0 .. x - 1 /\ 0 \in 0 .. x /\ 0 # x
        BY <1>2, <1>4
      <4> QED
        BY <2>3, <2>4, <3>1, <4>1, Zenon
    <3>2. CASE k # 0
      <4>1. k - 1 \in 0 .. x /\ k - 1 # x
        BY <1>2, <3>2
      <4>2. g[k - 1] = f[k - 1]
        BY <2>3, <4>1, Zenon
      <4>3. After(m, ub, g, k) = After(m, ub, f, k)
        BY <4>2, AfterIsParse, Zenon
      <4>4. k = x \/ k \in 0 .. x - 1
        BY <1>2
      <4>5. g[k] = After(m, ub, f, k)
        BY <2>3, <2>4, <3>2, <4>4, Zenon
      <4> QED
        BY <3>2, <4>3, <4>5, Zenon
    <3> QED
      BY <3>1, <3>2
  <2>6. g = [k \in 0 .. x |-> g[k]]
    BY Zenon DEF g
  <2>7. AreCursors(m, ub, x, g)
    BY <2>5, <2>6, Zenon DEF AreCursors
  <2> QED
    BY <1>2, <2>7, Zenon
<1> QED
  BY <1>3, <1>4

\* Cursors is one, and all its cursors have a code.
LEMMA CursorsAre ==
    ASSUME NEW m, NEW ub, Len(Layout(m)) \in Nat
    PROVE  AreCursors(m, ub, Len(Layout(m)), Cursors(m, ub))
<1>1. \E c : AreCursors(m, ub, Len(Layout(m)), c)
  BY CursorsExist
<1>2. Cursors(m, ub) = CHOOSE c : AreCursors(m, ub, Len(Layout(m)), c)
  BY Zenon DEF Cursors, AreCursors, After
<1> QED
  BY <1>1, <1>2, Zenon

\* After the last field the cursor has a code of the parse functions.
LEMMA CursorsCode ==
    ASSUME NEW m, Supported(m), NEW ub
    PROVE  HasCode(Cursors(m, ub)[Len(Layout(m))])
<1> DEFINE c == Cursors(m, ub)
           n == Len(Layout(m))
           T == {k \in 0 .. n : ~ HasCode(c[k])}
<1>1. n \in Nat /\ \A k \in 1 .. n : Layout(m)[k].kind \in Kinds
  BY LayoutKinds, LenProperties
<1>2. AreCursors(m, ub, n, c)
  BY <1>1, CursorsAre
<1> HIDE DEF c, n
<1>3. \A k \in 0 .. n : c[k] = IF k = 0 THEN StartOf ELSE After(m, ub, c, k)
  BY <1>2, Zenon DEF AreCursors
<1>4. HasCode(StartOf)
  BY DEF StartOf, HasCode, Codes
<1>5. ASSUME T # {} PROVE FALSE
  <2>1. T \subseteq Nat
    BY <1>1
  <2>2. PICK x \in T : \A y \in T : x <= y
    BY <1>5, <2>1, LeastNatural
  <2>3. x \in 0 .. n /\ ~ HasCode(c[x]) /\ x # 0
    BY <1>3, <1>4
  <2>4. x - 1 \in 0 .. n /\ x \in 1 .. n /\ ~(x <= x - 1)
    BY <1>1, <2>3
  <2>5. HasCode(c[x - 1])
    BY <2>2, <2>4, Zenon
  <2>6. c[x] = parseField(m, c[x - 1], Layout(m)[x], ub)
    BY <1>3, <2>3, AfterIsParse, Zenon
  <2>7. HasCode(parseField(m, c[x - 1], Layout(m)[x], ub))
    BY <1>1, <2>4, <2>5, FieldCode, Zenon
  <2> QED
    BY <2>3, <2>6, <2>7, Zenon
<1>6. n \in 0 .. n
  BY <1>1
<1>7. HasCode(c[n])
  BY <1>5, <1>6, Zenon
<1> QED
  BY <1>7 DEF c, n

\* A parsed message has a code.
LEMMA MessageCode ==
    ASSUME NEW m, NEW ub
    PROVE  parseMessage(m, ub).rc \in Codes
<1>1. HasCode(StartOf) /\ "ERR" \in Codes
  BY DEF StartOf, HasCode, Codes
<1>2. HasCode(Failed(StartOf, "ERR"))
  BY <1>1, CodeSet
<1>3. CASE Supported(m)
  <2>1. HasCode(parseTimestamp(m, Cursors(m, ub)[Len(Layout(m))], ub))
    BY <1>3, CursorsCode, TimestampCode
  <2> QED
    BY <1>3, <2>1, Zenon DEF parseMessage, HasCode
<1>4. CASE ~Supported(m)
  BY <1>2, <1>4, Zenon DEF parseMessage, HasCode
<1> QED
  BY <1>3, <1>4

-----------------------------------------------------------------------------
(* The message buffer and the codes.                                       *)

MsgInv ==
    /\ msg \in Seq(Slice) /\ Len(msg) <= MsgSize
    /\ status \in Codes /\ rc \in Codes /\ reading \in BOOLEAN

\* The message buffer is empty at the start.
LEMMA MsgInit == Init => MsgInv
<1>1. << >> \in Seq(Slice) /\ Len(<< >>) = 0
  BY EmptySeq
<1>2. "OK" \in Codes
  BY DEF Codes
<1>3. Init => msg = << >> /\ status = "OK" /\ rc = "OK"
  BY DEF Init
<1>4. Init => reading \in BOOLEAN
  BY Zenon DEF Init
<1> QED
  BY <1>1, <1>2, <1>3, <1>4, Sizes DEF MsgInv

\* No step writes behind the end of the message buffer, or leaves a code
\* that is none.
LEMMA MsgStep ==
    ASSUME StreamInv, MsgInv, [Next]_vars
    PROVE  MsgInv'
<1>1. /\ << >> \in Seq(Slice) /\ Len(<< >>) = 0 /\ Len(<< >>) <= MsgSize
      /\ MsgSize \in Nat /\ MsgSize > 1
  BY EmptySeq, Sizes
<1>2. {"OK", "EOF", "BM", "ERR"} \subseteq Codes
  BY DEF Codes
<1>3. msg \in Seq(Slice) /\ Len(msg) <= MsgSize /\ status \in Codes /\ rc \in Codes /\ reading \in BOOLEAN
  BY DEF MsgInv
<1>4. ASSUME NEW m \in Seq(Slice), Len(m) <= MsgSize, msg' = m,
             status' \in Codes, rc' \in Codes, reading' \in BOOLEAN
      PROVE  MsgInv'
  BY <1>4 DEF MsgInv, Slice, Codes
<1>5. ASSUME NEW m \in Seq(Slice), Len(m) < MsgSize, NEW b \in Slice
      PROVE  Append(m, b) \in Seq(Slice) /\ Len(Append(m, b)) <= MsgSize
  BY <1>1, <1>5, AppendProperties, LenProperties
<1>6. CASE UNCHANGED vars
  BY <1>3, <1>4, <1>6 DEF vars
<1>7. CASE readNextTraceMsg
  BY <1>2, <1>3, <1>4, <1>7 DEF readNextTraceMsg, Return
<1>8. CASE getNumBytesInSWTQ
  BY <1>2, <1>3, <1>4, <1>8 DEF getNumBytesInSWTQ
<1>9. CASE Skip
  BY <1>3, <1>4, <1>9 DEF Skip
<1>10. CASE FirstSlice
  <2>1. PICK u \in NextByte : Take(u) /\ msg' = <<u.b>>
    BY <1>10 DEF FirstSlice
  <2>2. u.b \in Slice
    BY <2>1, TakeKeepsStream
  <2>3. <<u.b>> \in Seq(Slice) /\ Len(<<u.b>>) <= MsgSize
    BY <1>1, <2>2
  <2> QED
    BY <1>3, <1>4, <1>10, <2>1, <2>3 DEF FirstSlice
<1>11. CASE NextSlice
  <2>1. PICK u \in NextByte : Take(u) /\ msg' = Append(msg, u.b)
    BY <1>11 DEF NextSlice
  <2>2. u.b \in Slice
    BY <2>1, TakeKeepsStream
  <2>3. Append(msg, u.b) \in Seq(Slice) /\ Len(Append(msg, u.b)) <= MsgSize
    BY <1>3, <1>5, <1>11, <2>2 DEF NextSlice
  <2> QED
    BY <1>3, <1>4, <1>11, <2>1, <2>3 DEF NextSlice
<1>12. CASE LastSlice
  <2>1. \E u \in NextByte : \E p \in {parseMessage(Append(msg, u.b), ub) : ub \in Garbage} :
           /\ status' = IF Supported(msg) THEN p.rc ELSE "OK"
           /\ Return(IF p.rc = "OK" THEN "OK" ELSE "BM")
    BY <1>12 DEF LastSlice
  <2>2. PICK p : /\ p.rc \in Codes
                 /\ status' = IF Supported(msg) THEN p.rc ELSE "OK"
                 /\ Return(IF p.rc = "OK" THEN "OK" ELSE "BM")
    BY <2>1, MessageCode
  <2>3. status' \in Codes /\ rc' \in Codes /\ reading' \in BOOLEAN
    BY <1>2, <2>2 DEF Return
  <2> QED
    BY <1>1, <1>4, <1>12, <2>3 DEF LastSlice
<1>13. CASE Overflow
  BY <1>1, <1>2, <1>4, <1>13 DEF Overflow, Return
<1>14. CASE NoData
  BY <1>2, <1>3, <1>4, <1>14 DEF NoData, Return
<1>15. CASE EndOfFile
  BY <1>2, <1>3, <1>4, <1>15 DEF EndOfFile, Return
<1>16. CASE ReadFails
  BY <1>2, <1>3, <1>4, <1>16 DEF ReadFails, Return
<1> QED
  BY <1>6, <1>7, <1>8, <1>9, <1>10, <1>11, <1>12, <1>13, <1>14, <1>15, <1>16 DEF Next

\* The message buffer never holds more than MsgSize slices, the indices stay
\* inside the socket buffer, and a call returns one of the codes.
THEOREM ParserTypeCorrect == Spec => []TypeOK
<1>1. Init => StreamInv /\ MsgInv
  BY StreamInit, MsgInit
<1>2. StreamInv /\ MsgInv /\ [Next]_vars => StreamInv' /\ MsgInv'
  BY StreamStep, MsgStep
<1>3. StreamInv /\ MsgInv => TypeOK
  BY DEF StreamInv, StreamType, MsgInv, TypeOK, Ring, Index
<1> QED
  BY <1>1, <1>2, <1>3, PTL DEF Spec
=============================================================================
