--------------------------- MODULE ITCPrintProofs ---------------------------
(***************************************************************************)
(* Proofs about ITCPrint.  For any cores, size of the buffer, writes and   *)
(* limits of the caller: indices stay inside the buffer, pointers inside   *)
(* the nodes allocated, and only a no-load string overruns the buffer.     *)
(* For a target and a caller LikeMain: what is read has the text that was  *)
(* written and the times of its writes, as the list holds what is unread.  *)
(***************************************************************************)
EXTENDS ITCPrint, DataLemmas

-----------------------------------------------------------------------------
(* The inductive invariants.                                               *)

Index == 0..(BuffSize - 1)
Mem == [Index -> Chars]
Text == Seq(Chars)
Buffer == [mem: Mem, in: Index, room: Int, msgs: Nat, done: BOOLEAN, accepted: Text]

\* The pointers of a list of n nodes lead to nodes of it.
Cells(n) == [next: 0..n, prev: 0..n, terminated: BOOLEAN, startTime: Nat, endTime: Nat]
Heap(h) == Len(h) \in Nat /\ h \in [1..Len(h) -> Cells(Len(h))]

TypeInv == TypeOK /\ Heap(heap)

\* Node n has the times of a line.
Stamped(h, n, l) == h[n].startTime = l.start /\ h[n].endTime = l.end /\ l.start # 0

\* What a list may be that begins with node n, k messages being complete, ls not
\* read and cur in progress: empty, one message in progress, one complete one, or two.
NoNode(n, ls, cur, k) == n = 0 /\ ls = <<>> /\ cur = NoLine /\ k = 0
Alone(h, n) == n \in DOMAIN h /\ h[n].next = n /\ h[n].prev = n
InProgress(h, n, ls, cur, k) ==
    Alone(h, n) /\ ~h[n].terminated /\ ls = <<>> /\ k = 0 /\ Stamped(h, n, cur)
OneDone(h, n, ls, cur, k) ==
    /\ Alone(h, n) /\ h[n].terminated /\ Len(ls) = 1 /\ k = 1 /\ cur = NoLine
    /\ Stamped(h, n, ls[1])
TwoDone(h, n, ls, cur, k) ==
    LET o == h[n].prev
    IN  /\ n \in DOMAIN h /\ o \in DOMAIN h /\ o # n
        /\ h[n].next = o /\ h[o].next = n /\ h[o].prev = n
        /\ h[n].terminated /\ h[o].terminated
        /\ Len(ls) = 2 /\ k = 2 /\ cur = NoLine
        /\ Stamped(h, o, ls[1]) /\ Stamped(h, n, ls[2])
Shape(h, n, ls, cur, k) ==
    \/ NoNode(n, ls, cur, k)        \/ InProgress(h, n, ls, cur, k)
    \/ OneDone(h, n, ls, cur, k)    \/ TwoDone(h, n, ls, cur, k)

\* The nodes of a list that begins with n.
Held(h, n) == IF n = 0 THEN {} ELSE {n, h[n].prev}

\* F are the nodes of a free list that begins with f: each has its own successor.
Free(h, f, F) ==
    /\ F \subseteq DOMAIN h /\ f \in F \cup {0}
    /\ \A x \in F : h[x].next \in F \cup {0}
    /\ \A x \in F : h[x].next # 0 => h[x].next # f
    /\ \A x, y \in F : h[x].next = h[y].next /\ h[x].next # 0 => x = y

\* Lists have their shapes and share no node with each other or the free list.
ListsInv ==
    /\ \A c \in Cores : Shape(heap, tsList[c], lines[c], current[c], numMsgs[c])
    /\ \A c, d \in Cores : c # d => Held(heap, tsList[c]) \cap Held(heap, tsList[d]) = {}
    /\ \E F : Free(heap, freeList, F) /\ \A c \in Cores : Held(heap, tsList[c]) \cap F = {}

\* The i-th place of the ring from out.
Slot(out, i) == IF out + i >= BuffSize THEN out + i - BuffSize ELSE out + i

\* A ring holds s between its indices.
Rings(mem, out, in, s) ==
    /\ Len(s) < BuffSize /\ in = Slot(out, Len(s))
    /\ \A i \in 1..Len(s) : mem[Slot(out, i - 1)] = s[i]

Clean(t) == \A i \in 1..Len(t) : t[i] # Nul

\* The text of what is not read, with its terminators, when it has one of the shapes.
Kept(ls, cur) ==
    CASE Len(ls) = 0 -> cur.text
      [] Len(ls) = 1 -> Append(ls[1].text, Nul)
      [] OTHER       -> Append(ls[1].text, Nul) \o Append(ls[2].text, Nul)

\* The ring of a core that was not overrun holds what is not read.
RingOf(mem, out, in, ls, cur) ==
    /\ Rings(mem, out, in, Kept(ls, cur))
    /\ \A i \in DOMAIN ls : Clean(ls[i].text)
    /\ Clean(cur.text)
    /\ cur.text # <<>> => mem[in] = Nul
RingsInv ==
    \A c \in Cores : ~overrun[c] => RingOf(pbuff[c], pbo[c], pbi[c], lines[c], current[c])

-----------------------------------------------------------------------------
(* The buffer of a core during a call.                                     *)

\* A buffer with at least this much room, which may be negative.
Roomy(b, low) == b \in Buffer /\ b.room >= low

\* The next index is an index.
LEMMA AdvanceType == \A i \in Index : Advance(i) \in Index
  BY ITCPrintAssumption DEF Advance, Index

\* Put stores a character and takes one from the room.
LEMMA PutType ==
    ASSUME NEW b \in Buffer, NEW ch \in Chars
    PROVE  /\ Put(b, ch) \in Buffer /\ Put(b, ch).room = b.room - 1
           /\ Put(b, ch).msgs = b.msgs /\ Put(b, ch).accepted = b.accepted
<1>1. Advance(b.in) \in Index
  BY AdvanceType DEF Buffer
<1>2. [b.mem EXCEPT ![b.in] = ch] \in Mem
  BY DEF Buffer, Mem
<1>3. Put(b, ch) = [b EXCEPT !.mem = [b.mem EXCEPT ![b.in] = ch], !.in = Advance(b.in), !.room = b.room - 1]
  BY DEF Put, Buffer
<1>4. b.room - 1 \in Int
  BY DEF Buffer
<1> QED
  BY <1>1, <1>2, <1>3, <1>4 DEF Buffer

\* A message more, and its end.
LEMMA DoneType ==
    ASSUME NEW b \in Buffer
    PROVE  LET d == [b EXCEPT !.msgs = @ + 1, !.done = TRUE]
           IN  /\ d \in Buffer /\ d.room = b.room /\ d.msgs = b.msgs + 1 /\ d.done
               /\ d.accepted = b.accepted /\ d.mem = b.mem /\ d.in = b.in
<1>1. b.msgs + 1 \in Nat
  BY DEF Buffer
<1> QED
  BY <1>1 DEF Buffer

\* A character of a write to the print channel leaves no less than nothing.
LEMMA PutCharType ==
    ASSUME NEW low \in Int, low <= 0, NEW b, Roomy(b, low), NEW ch \in Chars
    PROVE  Roomy(PutChar(b, ch), low)
<1> DEFINE p == Put(b, ch)
           s == [p EXCEPT !.accepted = IF ch = Nul THEN @ ELSE Append(@, ch)]
           r == Put(s, Nul)
<1>1. CASE b.room < 2
  BY <1>1 DEF PutChar
<1>2. CASE ~(b.room < 2)
  <2>1. p \in Buffer /\ p.room = b.room - 1 /\ b.room \in Int
    BY PutType DEF Roomy, Buffer
  <2> HIDE DEF p
  <2>2. (IF ch = Nul THEN p.accepted ELSE Append(p.accepted, ch)) \in Text
    <3>1. p.accepted \in Text
      BY <2>1 DEF Buffer
    <3> QED
      BY <3>1, AppendProperties DEF Text
  <2>3. s \in Buffer /\ s.room = b.room - 1
    BY <2>1, <2>2 DEF Buffer
  <2> HIDE DEF s
  <2>4. r \in Buffer /\ r.room = b.room - 2
    <3>1. Nul \in Chars
      BY ITCPrintAssumption
    <3>2. r \in Buffer /\ r.room = s.room - 1
      BY <2>3, <3>1, PutType
    <3> QED
      BY <2>1, <2>3, <3>2
  <2> HIDE DEF r
  <2> DEFINE sd == [s EXCEPT !.msgs = @ + 1, !.done = TRUE]
             rd == [r EXCEPT !.msgs = @ + 1, !.done = TRUE]
  <2>5. sd \in Buffer /\ sd.room = s.room /\ rd \in Buffer /\ rd.room = r.room
    BY <2>3, <2>4, DoneType
  <2>6. PutChar(b, ch) = IF ch = Nul THEN sd ELSE IF ch = Eol THEN rd ELSE s
    BY <1>2 DEF PutChar, p, s, r, Nul, Eol
  <2> HIDE DEF sd, rd
  <2> QED
    BY <1>2, <2>1, <2>3, <2>4, <2>5, <2>6 DEF Roomy
<1> QED
  BY <1>1, <1>2

\* A character of a no-load string leaves room for its terminator if there was.
LEMMA PutNlsCharType ==
    ASSUME NEW low \in Int, low <= 1, NEW b, Roomy(b, low), NEW ch \in Chars
    PROVE  Roomy(PutNlsChar(b, ch), low)
<1> DEFINE p == Put(b, ch)
           s == [p EXCEPT !.accepted = Append(@, ch)]
<1>1. CASE b.room < 2
  BY <1>1 DEF PutNlsChar
<1>2. CASE ~(b.room < 2)
  <2>1. p \in Buffer /\ p.room = b.room - 1 /\ b.room \in Int
    BY PutType DEF Roomy, Buffer
  <2>2. PutNlsChar(b, ch) = s
    BY <1>2 DEF PutNlsChar
  <2> HIDE DEF p
  <2>3. Append(p.accepted, ch) \in Text
    <3>1. p.accepted \in Text
      BY <2>1 DEF Buffer
    <3> QED
      BY <3>1, AppendProperties DEF Text
  <2>4. s \in Buffer /\ s.room = b.room - 1
    BY <2>1, <2>3 DEF Buffer
  <2> HIDE DEF s
  <2> QED
    BY <1>2, <2>1, <2>2, <2>4 DEF Roomy
<1> QED
  BY <1>1, <1>2

\* What PutWord goes through: PutChar for each character.
LEMMA PutWordSteps ==
    ASSUME NEW b \in Buffer, NEW w \in Text
    PROVE  \E f \in [0..Len(w) -> Buffer] :
              /\ f[0] = b /\ f[Len(w)] = PutWord(b, w)
              /\ \A k \in 1..Len(w) : f[k] = PutChar(f[k - 1], w[k])
<1> DEFINE n == Len(w)
           g == [k \in 1..n |-> [x \in Buffer |-> PutChar(x, w[k])]]
           Is(f) == f = [i \in 0..n |-> IF i = 0 THEN b ELSE PutChar(f[i - 1], w[i])]
<1>1. n \in Nat /\ w \in [1..n -> Chars]
  BY LenProperties DEF Text
<1>2. \A k \in 1..n : \A x \in Buffer : PutChar(x, w[k]) \in Buffer
  <2> TAKE k \in 1..n
  <2> TAKE x \in Buffer
  <2>1. w[k] \in Chars
    BY <1>1
  <2>2. x.room \in Int
    BY DEF Buffer
  <2>3. PICK low \in Int : low <= 0 /\ low <= x.room
    BY <2>2
  <2>4. Roomy(x, low)
    BY <2>2, <2>3 DEF Roomy
  <2>5. Roomy(PutChar(x, w[k]), low)
    BY <2>1, <2>3, <2>4, PutCharType
  <2> QED
    BY <2>5 DEF Roomy
<1>3. Steps(g, 0, n, Buffer)
  BY <1>1, <1>2 DEF Steps
<1>4. PICK f : f \in [0..n -> Buffer] /\ f[0] = b /\ Follows(f, g, 0, n)
  BY <1>3, Recursion
<1>5. \A k \in 1..n : f[k] = PutChar(f[k - 1], w[k])
  <2> TAKE k \in 1..n
  <2>1. f[k - 1] \in Buffer /\ k \in 0 + 1..n
    BY <1>1, <1>4
  <2> QED
    BY <1>4, <2>1 DEF Follows
<1>6. Is(f)
  <2>1. f = [i \in 0..n |-> f[i]]
    BY <1>4
  <2>2. \A i \in 0..n : f[i] = IF i = 0 THEN b ELSE PutChar(f[i - 1], w[i])
    BY <1>1, <1>4, <1>5
  <2> QED
    BY <2>1, <2>2, Zenon
<1> DEFINE put == CHOOSE h : Is(h)
<1>7. Is(put)
  BY <1>6
<1>8. PutWord(b, w) = put[n]
  BY DEF PutWord
<1> HIDE DEF put, n
<1>9. put[0] = b /\ \A k \in 1..n : put[k] = PutChar(put[k - 1], w[k])
  <2>1. \A i \in 0..n : put[i] = IF i = 0 THEN b ELSE PutChar(put[i - 1], w[i])
    BY <1>7, Zenon
  <2>2. 0 \in 0..n /\ \A k \in 1..n : k \in 0..n /\ k # 0
    BY <1>1
  <2> QED
    BY <2>1, <2>2, Zenon
<1>10. put \in [0..n -> Buffer]
  <2> DEFINE T == {k \in 0..n : put[k] \notin Buffer}
  <2> SUFFICES ASSUME T # {} PROVE FALSE
    BY <1>7, Zenon
  <2>1. PICK k \in T : \A y \in T : k <= y
    <3>1. T \subseteq Nat
      OBVIOUS
    <3> HIDE DEF T
    <3> QED
      BY <3>1, LeastNatural
  <2>2. k \in 1..n
    BY <1>9
  <2>3. k - 1 \in 0..n /\ k - 1 \notin T
    BY <1>1, <2>1, <2>2
  <2>4. put[k - 1] \in Buffer
    BY <2>3
  <2>5. put[k] \in Buffer
    BY <1>2, <1>9, <2>2, <2>4
  <2> QED
    BY <2>5
<1> QED
  BY <1>8, <1>9, <1>10 DEF n

\* What PutNls goes through: PutNlsChar for each character.
LEMMA PutNlsSteps ==
    ASSUME NEW b \in Buffer, NEW w \in Text
    PROVE  \E f \in [0..Len(w) -> Buffer] :
              /\ f[0] = b /\ f[Len(w)] = PutNls(b, w)
              /\ \A k \in 1..Len(w) : f[k] = PutNlsChar(f[k - 1], w[k])
<1> DEFINE n == Len(w)
           g == [k \in 1..n |-> [x \in Buffer |-> PutNlsChar(x, w[k])]]
           Is(f) == f = [i \in 0..n |-> IF i = 0 THEN b ELSE PutNlsChar(f[i - 1], w[i])]
<1>1. n \in Nat /\ w \in [1..n -> Chars]
  BY LenProperties DEF Text
<1>2. \A k \in 1..n : \A x \in Buffer : PutNlsChar(x, w[k]) \in Buffer
  <2> TAKE k \in 1..n
  <2> TAKE x \in Buffer
  <2>1. w[k] \in Chars
    BY <1>1
  <2>2. x.room \in Int
    BY DEF Buffer
  <2>3. PICK low \in Int : low <= 1 /\ low <= x.room
    BY <2>2
  <2>4. Roomy(x, low)
    BY <2>2, <2>3 DEF Roomy
  <2>5. Roomy(PutNlsChar(x, w[k]), low)
    BY <2>1, <2>3, <2>4, PutNlsCharType
  <2> QED
    BY <2>5 DEF Roomy
<1>3. Steps(g, 0, n, Buffer)
  BY <1>1, <1>2 DEF Steps
<1>4. PICK f : f \in [0..n -> Buffer] /\ f[0] = b /\ Follows(f, g, 0, n)
  BY <1>3, Recursion
<1>5. \A k \in 1..n : f[k] = PutNlsChar(f[k - 1], w[k])
  <2> TAKE k \in 1..n
  <2>1. f[k - 1] \in Buffer /\ k \in 0 + 1..n
    BY <1>1, <1>4
  <2> QED
    BY <1>4, <2>1 DEF Follows
<1>6. Is(f)
  <2>1. f = [i \in 0..n |-> f[i]]
    BY <1>4
  <2>2. \A i \in 0..n : f[i] = IF i = 0 THEN b ELSE PutNlsChar(f[i - 1], w[i])
    BY <1>1, <1>4, <1>5
  <2> QED
    BY <2>1, <2>2, Zenon
<1> DEFINE put == CHOOSE h : Is(h)
<1>7. Is(put)
  BY <1>6
<1>8. PutNls(b, w) = put[n]
  BY DEF PutNls
<1> HIDE DEF put, n
<1>9. put[0] = b /\ \A k \in 1..n : put[k] = PutNlsChar(put[k - 1], w[k])
  <2>1. \A i \in 0..n : put[i] = IF i = 0 THEN b ELSE PutNlsChar(put[i - 1], w[i])
    BY <1>7, Zenon
  <2>2. 0 \in 0..n /\ \A k \in 1..n : k \in 0..n /\ k # 0
    BY <1>1
  <2> QED
    BY <2>1, <2>2, Zenon
<1>10. put \in [0..n -> Buffer]
  <2> DEFINE T == {k \in 0..n : put[k] \notin Buffer}
  <2> SUFFICES ASSUME T # {} PROVE FALSE
    BY <1>7, Zenon
  <2>1. PICK k \in T : \A y \in T : k <= y
    <3>1. T \subseteq Nat
      OBVIOUS
    <3> HIDE DEF T
    <3> QED
      BY <3>1, LeastNatural
  <2>2. k \in 1..n
    BY <1>9
  <2>3. k - 1 \in 0..n /\ k - 1 \notin T
    BY <1>1, <2>1, <2>2
  <2>4. put[k - 1] \in Buffer
    BY <2>3
  <2>5. put[k] \in Buffer
    BY <1>2, <1>9, <2>2, <2>4
  <2> QED
    BY <2>5
<1> QED
  BY <1>8, <1>9, <1>10 DEF n

\* A write to the print channel never takes more than the room there is.
LEMMA PutWordRoomy ==
    ASSUME NEW b \in Buffer, b.room >= 0, NEW w \in Text
    PROVE  PutWord(b, w) \in Buffer /\ PutWord(b, w).room >= 0
<1>1. PICK f \in [0..Len(w) -> Buffer] :
              /\ f[0] = b /\ f[Len(w)] = PutWord(b, w)
              /\ \A k \in 1..Len(w) : f[k] = PutChar(f[k - 1], w[k])
  BY PutWordSteps
<1>2. Len(w) \in Nat /\ w \in [1..Len(w) -> Chars]
  BY LenProperties DEF Text
<1> DEFINE T == {k \in 0..Len(w) : ~ Roomy(f[k], 0)}
<1>3. T = {}
  <2> SUFFICES ASSUME T # {} PROVE FALSE
    OBVIOUS
  <2>1. PICK k \in T : \A y \in T : k <= y
    <3>1. T \subseteq Nat
      OBVIOUS
    <3> HIDE DEF T
    <3> QED
      BY <3>1, LeastNatural
  <2>2. k \in 1..Len(w)
    BY <1>1 DEF Roomy
  <2>3. k - 1 \in 0..Len(w) /\ k - 1 \notin T
    BY <1>2, <2>1, <2>2
  <2>4. Roomy(f[k - 1], 0)
    BY <2>3
  <2>5. w[k] \in Chars
    BY <1>2, <2>2
  <2>6. Roomy(PutChar(f[k - 1], w[k]), 0)
    BY <2>4, <2>5, PutCharType
  <2>7. Roomy(f[k], 0)
    BY <1>1, <2>2, <2>6
  <2> QED
    BY <2>7
<1>4. Len(w) \in 0..Len(w)
  BY <1>2
<1>5. Roomy(f[Len(w)], 0)
  BY <1>3, <1>4
<1> QED
  BY <1>1, <1>5 DEF Roomy

\* A no-load string leaves room for its terminator if there was any.
LEMMA PutNlsRoomy ==
    ASSUME NEW b \in Buffer, NEW w \in Text
    PROVE  PutNls(b, w) \in Buffer /\ (b.room >= 1 => PutNls(b, w).room >= 1)
<1>1. PICK f \in [0..Len(w) -> Buffer] :
              /\ f[0] = b /\ f[Len(w)] = PutNls(b, w)
              /\ \A k \in 1..Len(w) : f[k] = PutNlsChar(f[k - 1], w[k])
  BY PutNlsSteps
<1>2. Len(w) \in Nat /\ w \in [1..Len(w) -> Chars]
  BY LenProperties DEF Text
<1>3. ASSUME b.room >= 1 PROVE f[Len(w)].room >= 1
  <2> DEFINE T == {k \in 0..Len(w) : ~ Roomy(f[k], 1)}
  <2>1. T = {}
    <3> SUFFICES ASSUME T # {} PROVE FALSE
      OBVIOUS
    <3>1. PICK k \in T : \A y \in T : k <= y
      <4>1. T \subseteq Nat
        OBVIOUS
      <4> HIDE DEF T
      <4> QED
        BY <4>1, LeastNatural
    <3>2. k \in 1..Len(w)
      BY <1>1, <1>3 DEF Roomy
    <3>3. k - 1 \in 0..Len(w) /\ k - 1 \notin T
      BY <1>2, <3>1, <3>2
    <3>4. Roomy(f[k - 1], 1)
      BY <3>3
    <3>5. w[k] \in Chars
      BY <1>2, <3>2
    <3>6. Roomy(PutNlsChar(f[k - 1], w[k]), 1)
      BY <3>4, <3>5, PutNlsCharType
    <3>7. Roomy(f[k], 1)
      BY <1>1, <3>2, <3>6
    <3> QED
      BY <3>7
  <2>2. Len(w) \in 0..Len(w)
    BY <1>2
  <2> QED
    BY <2>1, <2>2 DEF Roomy
<1>4. f[Len(w)] \in Buffer
  BY <1>1, <1>2
<1> QED
  BY <1>1, <1>3, <1>4

\* There is room for less than the buffer.
LEMMA RoomBetweenType ==
    ASSUME NEW in \in Index, NEW out \in Index
    PROVE  RoomBetween(in, out) \in 0..(BuffSize - 1)
<1>1. BuffSize \in Nat \ {0}
  BY ITCPrintAssumption
<1> QED
  BY <1>1 DEF RoomBetween, Index

\* The buffer of a core, as a call begins.
LEMMA BufferOfType ==
    ASSUME TypeOK, NEW c \in Cores
    PROVE  /\ BufferOf(c) \in Buffer /\ BufferOf(c).room = roomInITCPrintQ(c)
           /\ roomInITCPrintQ(c) \in 0..(BuffSize - 1)
<1>1. pbi[c] \in Index /\ pbo[c] \in Index /\ pbuff[c] \in Mem /\ numMsgs[c] \in Nat
  BY DEF TypeOK, Index, Mem
<1>2. roomInITCPrintQ(c) \in 0..(BuffSize - 1)
  BY <1>1, RoomBetweenType DEF roomInITCPrintQ
<1>3. <<>> \in Text
  BY DEF Text
<1>4. roomInITCPrintQ(c) \in Int
  BY <1>2
<1> QED
  BY <1>1, <1>2, <1>3, <1>4 DEF BufferOf, Buffer

-----------------------------------------------------------------------------
(* Nodes.                                                                  *)

\* A node is replaced.
LEMMA HeapSet ==
    ASSUME NEW h, Heap(h), NEW i \in 1..Len(h), NEW x \in Cells(Len(h))
    PROVE  LET g == [h EXCEPT ![i] = x]
           IN  /\ Heap(g) /\ Len(g) = Len(h) /\ g[i] = x
               /\ \A j \in 1..Len(h) : j # i => g[j] = h[j]
<1> DEFINE g == [h EXCEPT ![i] = x]
           n == Len(h)
<1>1. n \in Nat /\ h \in [1..n -> Cells(n)]
  BY DEF Heap
<1>2. g \in [1..n -> Cells(n)] /\ g[i] = x /\ \A j \in 1..n : j # i => g[j] = h[j]
  BY <1>1
<1> HIDE DEF g, n
<1>3. g \in Seq(Cells(n)) /\ Len(g) = n
  <2>1. g \in Seq(Cells(n))
    BY <1>1, <1>2, SeqDef
  <2>2. DOMAIN g = 1..n
    BY <1>2
  <2> QED
    BY <1>1, <2>1, <2>2, LenProperties
<1>4. Heap(g)
  BY <1>1, <1>2, <1>3 DEF Heap
<1> QED
  BY <1>2, <1>3, <1>4 DEF g, n

\* A node is added.
LEMMA HeapAdd ==
    ASSUME NEW h, Heap(h), NEW x \in Cells(Len(h) + 1)
    PROVE  LET g == Append(h, x)
           IN  /\ Heap(g) /\ Len(g) = Len(h) + 1 /\ g[Len(h) + 1] = x
               /\ \A j \in 1..Len(h) : g[j] = h[j]
<1> DEFINE g == Append(h, x)
           n == Len(h)
<1>1. n \in Nat /\ h \in [1..n -> Cells(n)]
  BY DEF Heap
<1>2. Cells(n) \subseteq Cells(n + 1)
  BY <1>1 DEF Cells
<1>3. h \in [1..n -> Cells(n + 1)]
  BY <1>1, <1>2
<1>4. h \in Seq(Cells(n + 1))
  BY <1>1, <1>3, SeqDef
<1> HIDE DEF n
<1>5. /\ g \in Seq(Cells(n + 1)) /\ Len(g) = n + 1 /\ g[n + 1] = x
      /\ \A j \in 1..n : g[j] = h[j]
  BY <1>4, AppendProperties DEF n
<1> HIDE DEF g
<1>6. Heap(g)
  <2>1. g \in [1..n + 1 -> Cells(n + 1)]
    BY <1>5, LenProperties
  <2> QED
    BY <1>1, <1>5, <2>1 DEF Heap
<1> QED
  BY <1>5, <1>6 DEF g, n

\* A change of one node that keeps its type, whichever fields it sets.
LEMMA CellType ==
    ASSUME NEW n \in Nat, NEW x \in Cells(n), NEW p \in 0..n, NEW t \in BOOLEAN, NEW s \in Nat,
           NEW e \in Nat
    PROVE  /\ [x EXCEPT !.next = p] \in Cells(n)
           /\ [x EXCEPT !.prev = p] \in Cells(n)
           /\ [x EXCEPT !.terminated = t] \in Cells(n)
           /\ [x EXCEPT !.startTime = s] \in Cells(n)
           /\ [x EXCEPT !.endTime = e] \in Cells(n)
  BY DEF Cells

\* The node that is allocated: the first free one, or a new one.
LEMMA AllocIs ==
    ASSUME TypeInv
    PROVE  LET al == AllocTsList
           IN  /\ Heap(al.heap) /\ Len(al.heap) >= Len(heap)
               /\ al.node \in 1..Len(al.heap) /\ al.free \in 0..Len(al.heap)
               /\ \A j \in 1..Len(heap) : al.heap[j] = heap[j]
               /\ freeList # 0 => /\ al.node = freeList /\ al.free = heap[freeList].next
                                  /\ Len(al.heap) = Len(heap)
               /\ freeList = 0 => al.node = Len(heap) + 1 /\ al.free = 0
<1> DEFINE n == Len(heap)
           x == [next |-> 0, prev |-> 0, terminated |-> FALSE, startTime |-> 0, endTime |-> 0]
<1>1. n \in Nat /\ heap \in [1..n -> Cells(n)] /\ freeList \in 0..n
  BY DEF TypeInv, TypeOK, Heap
<1>2. CASE freeList # 0
  <2>1. AllocTsList = [heap |-> heap, free |-> heap[freeList].next, node |-> freeList]
    BY <1>2 DEF AllocTsList
  <2>2. heap[freeList] \in Cells(n)
    BY <1>1, <1>2
  <2>3. heap[freeList].next \in 0..n
    BY <2>2 DEF Cells
  <2> QED
    BY <1>1, <1>2, <2>1, <2>3 DEF TypeInv
<1>3. CASE freeList = 0
  <2>1. AllocTsList = [heap |-> Append(heap, x), free |-> 0, node |-> n + 1]
    BY <1>3 DEF AllocTsList
  <2>2. x \in Cells(n + 1)
    BY <1>1 DEF Cells
  <2> HIDE DEF x
  <2>3. /\ Heap(Append(heap, x)) /\ Len(Append(heap, x)) = n + 1
        /\ \A j \in 1..n : Append(heap, x)[j] = heap[j]
    BY <2>2, HeapAdd DEF TypeInv
  <2> QED
    BY <1>1, <1>3, <2>1, <2>3
<1> QED
  BY <1>2, <1>3

\* Linking a node keeps pointers inside.
LEMMA LinkType ==
    ASSUME NEW h, Heap(h), NEW n \in 1..Len(h), NEW tlp \in 0..Len(h)
    PROVE  LET g == LinkTsList(h, n, tlp).heap
           IN  Heap(g) /\ Len(g) = Len(h)
<1>1. Len(h) \in Nat /\ h \in [1..Len(h) -> Cells(Len(h))]
  BY DEF Heap
<1>0. \A x \in Cells(Len(h)) : x.prev \in 0..Len(h)
  BY DEF Cells
<1>2. CASE tlp = 0
  <2> DEFINE x == [h[n] EXCEPT !.next = n]
             y == [x EXCEPT !.prev = n]
  <2>1. n \in 0..Len(h) /\ h[n] \in Cells(Len(h))
    BY <1>1
  <2>2. x \in Cells(Len(h))
    BY <1>1, <2>1, CellType
  <2> HIDE DEF x
  <2>3. y \in Cells(Len(h))
    BY <1>1, <2>1, <2>2, CellType
  <2> HIDE DEF y
  <2>4. [h EXCEPT ![n].next = n, ![n].prev = n] = [h EXCEPT ![n] = y]
    BY <1>1 DEF x, y
  <2>5. LinkTsList(h, n, tlp).heap = [h EXCEPT ![n] = y]
    BY <1>2, <2>4 DEF LinkTsList
  <2> QED
    BY <2>3, <2>5, HeapSet
<1>3. CASE tlp # 0
  <2> DEFINE h1 == [h EXCEPT ![n].next = tlp]
             h2 == [h1 EXCEPT ![n].prev = h1[tlp].prev]
             h3 == [h2 EXCEPT ![tlp].prev = n]
             p  == h3[n].prev
             h4 == [h3 EXCEPT ![p].next = n]
  <2>0. tlp \in 1..Len(h) /\ n \in 0..Len(h)
    BY <1>1, <1>3
  <2>1. Heap(h1) /\ Len(h1) = Len(h)
    <3>1. [h[n] EXCEPT !.next = tlp] \in Cells(Len(h))
      BY <1>1, CellType
    <3> QED
      BY <3>1, HeapSet
  <2> HIDE DEF h1
  <2>2. Heap(h2) /\ Len(h2) = Len(h)
    <3>1. h1[n] \in Cells(Len(h1)) /\ h1[tlp] \in Cells(Len(h1))
      BY <2>0, <2>1 DEF Heap
    <3>2. [h1[n] EXCEPT !.prev = h1[tlp].prev] \in Cells(Len(h1))
      BY <1>0, <1>1, <2>1, <3>1, CellType
    <3> QED
      BY <2>1, <3>2, HeapSet
  <2> HIDE DEF h2
  <2>3. Heap(h3) /\ Len(h3) = Len(h)
    <3>1. h2[tlp] \in Cells(Len(h2))
      BY <2>0, <2>2 DEF Heap
    <3>2. [h2[tlp] EXCEPT !.prev = n] \in Cells(Len(h2))
      BY <1>1, <2>0, <2>2, <3>1, CellType
    <3> QED
      BY <2>0, <2>2, <3>2, HeapSet
  <2> HIDE DEF h3
  <2>4. p \in 0..Len(h)
    <3>1. h3[n] \in Cells(Len(h))
      BY <2>3 DEF Heap
    <3> QED
      BY <1>0, <3>1
  <2>5. ASSUME p # 0 PROVE Heap(h4) /\ Len(h4) = Len(h)
    <3>1. p \in 1..Len(h)
      BY <1>1, <2>4, <2>5
    <3>2. h3[p] \in Cells(Len(h3))
      BY <2>3, <3>1 DEF Heap
    <3>3. [h3[p] EXCEPT !.next = n] \in Cells(Len(h3))
      BY <1>1, <2>0, <2>3, <3>2, CellType
    <3> QED
      BY <2>3, <3>1, <3>3, HeapSet
  <2>6. LinkTsList(h, n, tlp) = IF p = 0 THEN [heap |-> h3, ok |-> FALSE]
                                ELSE [heap |-> h4, ok |-> TRUE]
    BY <1>3 DEF LinkTsList, h1, h2, h3
  <2> HIDE DEF p, h4
  <2> QED
    BY <2>3, <2>5, <2>6
<1> QED
  BY <1>2, <1>3

\* The times and the end of a message, written into its node.
Marked(h, n, t, s, e) ==
    [h EXCEPT ![n] = [h[n] EXCEPT !.terminated = t, !.startTime = s, !.endTime = e]]
IsMarked(g, h, n, t, s, e) ==
    /\ Heap(g) /\ Len(g) = Len(h) /\ g[n].next = h[n].next /\ g[n].prev = h[n].prev
    /\ g[n].terminated = t /\ g[n].startTime = s /\ g[n].endTime = e
    /\ \A j \in 1..Len(h) : j # n => g[j] = h[j]
LEMMA MarkedIs ==
    ASSUME NEW h, Heap(h), NEW n \in 1..Len(h), NEW t \in BOOLEAN, NEW s \in Nat, NEW e \in Nat
    PROVE  IsMarked(Marked(h, n, t, s, e), h, n, t, s, e)
<1> DEFINE x == [h[n] EXCEPT !.terminated = t]
           y == [x EXCEPT !.startTime = s]
           z == [y EXCEPT !.endTime = e]
<1>1. Len(h) \in Nat /\ h[n] \in Cells(Len(h))
  BY DEF Heap
<1>2. x \in Cells(Len(h))
  BY <1>1 DEF Cells
<1> HIDE DEF x
<1>3. y \in Cells(Len(h))
  BY <1>2 DEF Cells
<1> HIDE DEF y
<1>4. z \in Cells(Len(h))
  BY <1>3 DEF Cells
<1> HIDE DEF z
<1>5. [h[n] EXCEPT !.terminated = t, !.startTime = s, !.endTime = e] = z
  BY <1>1 DEF x, y, z, Cells
<1>6. Marked(h, n, t, s, e) = [h EXCEPT ![n] = z]
  BY <1>5 DEF Marked
<1>7. /\ Heap([h EXCEPT ![n] = z]) /\ Len([h EXCEPT ![n] = z]) = Len(h)
      /\ [h EXCEPT ![n] = z][n] = z
      /\ \A j \in 1..Len(h) : j # n => [h EXCEPT ![n] = z][j] = h[j]
  BY <1>4, HeapSet
<1>8. z.next = h[n].next /\ z.prev = h[n].prev /\ z.terminated = t /\ z.startTime = s /\ z.endTime = e
  BY <1>1 DEF x, y, z, Cells
<1> QED
  BY <1>6, <1>7, <1>8, Zenon DEF IsMarked

\* Unlinking a node keeps pointers inside, and frees it.
LEMMA UnlinkType ==
    ASSUME TypeInv, NEW c \in Cores, tsList[c] # 0, NEW tsl \in 1..Len(heap), UnlinkTsList(c, tsl)
    PROVE  /\ Heap(heap') /\ Len(heap') = Len(heap) /\ freeList' = tsl
           /\ tsList' \in [Cores -> 0..Len(heap)]
<1> DEFINE N    == Len(heap)
           new  == tsList[c]
           only == heap[tsl].next = tsl
           h1   == IF only THEN heap ELSE [heap EXCEPT ![new].prev = heap[tsl].prev]
           h2   == IF ~only /\ h1[new].next = tsl
                   THEN [h1 EXCEPT ![new].next = h1[tsl].next] ELSE h1
           h3   == [h2 EXCEPT ![tsl].next = freeList]
           h4   == [h3 EXCEPT ![tsl].prev = 0]
<1>1. /\ N \in Nat /\ heap \in [1..N -> Cells(N)] /\ freeList \in 0..N /\ 0 \in 0..N
      /\ tsList \in [Cores -> 0..N] /\ Heap(heap)
  BY DEF TypeInv, TypeOK, Heap
<1>2. new \in 1..N
  BY <1>1
<1> HIDE DEF new
<1>3. \A x \in Cells(N) : x.next \in 0..N /\ x.prev \in 0..N
  BY DEF Cells
<1>4. Heap(h1) /\ Len(h1) = N
  <2>1. heap[tsl] \in Cells(N) /\ heap[new] \in Cells(N)
    BY <1>1, <1>2
  <2>2. PICK x \in Cells(N) : x = [heap[new] EXCEPT !.prev = heap[tsl].prev]
    BY <1>1, <1>3, <2>1, CellType
  <2>3. PICK i, h : i = new /\ h = heap /\ i \in 1..Len(h) /\ Heap(h) /\ x \in Cells(Len(h))
    BY <1>1, <1>2
  <2>4. Heap([h EXCEPT ![i] = x]) /\ Len([h EXCEPT ![i] = x]) = Len(h)
    BY <2>3, HeapSet
  <2> QED
    BY <1>1, <2>2, <2>3, <2>4
<1> HIDE DEF h1, only
<1>5. Heap(h2) /\ Len(h2) = N
  <2>1. h1[tsl] \in Cells(N) /\ h1[new] \in Cells(N)
    BY <1>2, <1>4 DEF Heap
  <2>2. [h1[new] EXCEPT !.next = h1[tsl].next] \in Cells(N)
    BY <1>1, <1>3, <2>1, CellType
  <2>3. Heap([h1 EXCEPT ![new].next = h1[tsl].next]) /\ Len([h1 EXCEPT ![new].next = h1[tsl].next]) = N
    BY <1>2, <1>4, <2>2, HeapSet
  <2> QED
    BY <1>4, <2>3
<1> HIDE DEF h2
<1>6. Heap(h3) /\ Len(h3) = N
  <2>1. h2[tsl] \in Cells(N)
    BY <1>5 DEF Heap
  <2>2. [h2[tsl] EXCEPT !.next = freeList] \in Cells(N)
    BY <1>1, <2>1, CellType
  <2> QED
    BY <1>5, <2>2, HeapSet
<1> HIDE DEF h3
<1>7. Heap(h4) /\ Len(h4) = N
  <2>1. h3[tsl] \in Cells(N)
    BY <1>6 DEF Heap
  <2>2. [h3[tsl] EXCEPT !.prev = 0] \in Cells(N)
    BY <1>1, <2>1, CellType
  <2> QED
    BY <1>6, <2>2, HeapSet
<1>8. heap' = h4 /\ freeList' = tsl /\ tsList' = IF only THEN [tsList EXCEPT ![c] = 0] ELSE tsList
  BY DEF UnlinkTsList, h1, h2, h3, only, new
<1> HIDE DEF h4
<1> QED
  BY <1>1, <1>7, <1>8

\* Text is what the buffer holds, up to a terminator or the limit.
LEMMA TextFromType ==
    ASSUME TypeOK, NEW c \in Cores, NEW n \in Nat
    PROVE  TextFrom(c, n) \in Text /\ Len(TextFrom(c, n)) \in 0..n
<1> DEFINE ch(i) == pbuff[c][(pbo[c] + i) % BuffSize]
           T == {i \in 0..n : i = n \/ ch(i) = Nul}
           len == Min(T)
<1>1. len \in 0..n
  <2>1. T \subseteq Nat /\ T # {} /\ T \subseteq 0..n
    <3>1. n \in T
      OBVIOUS
    <3> QED
      BY <3>1
  <2> HIDE DEF T
  <2>2. Min(T) \in T
    BY <2>1, MinIsLeast
  <2> QED
    BY <2>1, <2>2
<1>2. pbo[c] \in Nat /\ pbuff[c] \in [0..(BuffSize - 1) -> Chars] /\ BuffSize \in Nat \ {0}
  BY ITCPrintAssumption DEF TypeOK
<1>3. \A i \in Nat : (pbo[c] + i) % BuffSize \in 0..(BuffSize - 1)
  BY <1>2
<1>4. \A i \in 1..len : i - 1 \in Nat
  BY <1>1
<1>5. \A i \in 1..len : ch(i - 1) \in Chars
  BY <1>2, <1>3, <1>4
<1>6. TextFrom(c, n) = [i \in 1..len |-> ch(i - 1)]
  BY DEF TextFrom
<1> HIDE DEF len, ch
<1>7. TextFrom(c, n) \in [1..len -> Chars]
  BY <1>5, <1>6
<1>8. TextFrom(c, n) \in Text
  BY <1>1, <1>7, SeqDef DEF Text
<1>9. Len(TextFrom(c, n)) = len
  <2>1. DOMAIN TextFrom(c, n) = 1..len
    BY <1>7
  <2> QED
    BY <1>1, <1>8, <2>1, LenProperties DEF Text
<1> QED
  BY <1>1, <1>8, <1>9

-----------------------------------------------------------------------------
(* Types.                                                                  *)

\* In the beginning there are no nodes.
LEMMA InitType == Init => TypeInv
<1> SUFFICES ASSUME Init PROVE TypeInv
  OBVIOUS
<1>1. BuffSize \in Nat \ {0} /\ MaxWrites \in Nat /\ Nul \in Chars
  BY ITCPrintAssumption
<1>2. NoLine \in Line
  BY DEF NoLine, Line
<1>3. Len(heap) = 0 /\ heap = <<>>
  BY DEF Init
<1>4. Heap(heap)
  <2>1. heap \in [1..0 -> Cells(0)]
    BY <1>3, SMT
  <2> QED
    BY <1>3, <2>1 DEF Heap
<1>5. TypeOK
  <2>1. lines \in [Cores -> Seq(Line)] /\ current \in [Cores -> Line]
    BY <1>2 DEF Init
  <2>2. lastRead \in [got: Line, expected: Line]
    BY <1>2 DEF Init
  <2>3. \A i \in DOMAIN heap : heap[i] \in Node
    BY <1>3
  <2>4. pbuff \in [Cores -> [0..(BuffSize - 1) -> Chars]]
    BY <1>1 DEF Init
  <2>5. /\ pbi \in [Cores -> 0..(BuffSize - 1)] /\ pbo \in [Cores -> 0..(BuffSize - 1)]
        /\ numMsgs \in [Cores -> Nat] /\ tsList \in [Cores -> 0..Len(heap)]
    BY <1>1, <1>3 DEF Init
  <2>6. freeList \in 0..Len(heap) /\ time \in 1..(MaxWrites + 1)
    BY <1>1, <1>3 DEF Init
  <2>7. crashed \in BOOLEAN /\ overrun \in [Cores -> BOOLEAN]
    BY DEF Init
  <2> QED
    BY <2>1, <2>2, <2>3, <2>4, <2>5, <2>6, <2>7, Zenon DEF TypeOK
<1> QED
  BY <1>4, <1>5 DEF TypeInv

\* What TypeInv is made of, after a step.
LEMMA TypeAfter ==
    ASSUME Heap(heap'),
           pbuff' \in [Cores -> Mem], pbi' \in [Cores -> Index], pbo' \in [Cores -> Index],
           numMsgs' \in [Cores -> Nat], tsList' \in [Cores -> 0..Len(heap')],
           freeList' \in 0..Len(heap'), time' \in 1..(MaxWrites + 1), crashed' \in BOOLEAN,
           lines' \in [Cores -> Seq(Line)], current' \in [Cores -> Line],
           lastRead' \in [got: Line, expected: Line], overrun' \in [Cores -> BOOLEAN]
    PROVE  TypeInv'
<1>1. \A i \in DOMAIN heap' : heap'[i] \in Node
  <2>1. \A n \in Nat : Cells(n) \subseteq Node
    BY DEF Cells, Node
  <2> QED
    BY <2>1 DEF Heap
<1>2. TypeOK'
  BY <1>1, Zenon DEF TypeOK, Mem, Index
<1>3. Heap(heap)'
  BY DEF Heap
<1> QED
  BY <1>2, <1>3 DEF TypeInv

\* A step that leaves the buffers and lists alone.
LEMMA TypeSame ==
    ASSUME TypeInv, UNCHANGED itc, time' \in 1..(MaxWrites + 1), crashed' \in BOOLEAN,
           UNCHANGED <<lines, current, overrun, lastRead>>
    PROVE  TypeInv'
<1>1. /\ pbuff' = pbuff /\ pbi' = pbi /\ pbo' = pbo /\ numMsgs' = numMsgs
      /\ tsList' = tsList /\ heap' = heap /\ freeList' = freeList
      /\ lines' = lines /\ current' = current /\ lastRead' = lastRead /\ overrun' = overrun
  BY DEF itc
<1>2. TypeOK /\ Heap(heap)
  BY DEF TypeInv
<1>3. TypeOK'
  BY <1>1, <1>2, Zenon DEF TypeOK
<1>4. Heap(heap)'
  BY <1>1, <1>2, Zenon DEF Heap
<1> QED
  BY <1>3, <1>4, Zenon DEF TypeInv

\* The node a write works on, and the heap with it in its list.
Fresh(c) == tsList[c] = 0 \/ heap[tsList[c]].terminated
Working(c) == IF Fresh(c) THEN AllocTsList ELSE [heap |-> heap, free |-> freeList, node |-> tsList[c]]
Linked(c) == IF Fresh(c) THEN LinkTsList(Working(c).heap, Working(c).node, tsList[c])
             ELSE [heap |-> heap, ok |-> TRUE]

LEMMA LinkedType ==
    ASSUME TypeInv, NEW c \in Cores
    PROVE  /\ Heap(Linked(c).heap) /\ Working(c).node \in 1..Len(Linked(c).heap)
           /\ Working(c).free \in 0..Len(Linked(c).heap) /\ Len(heap) <= Len(Linked(c).heap)
<1> DEFINE al == AllocTsList
<1>1. Len(heap) \in Nat /\ tsList[c] \in 0..Len(heap) /\ freeList \in 0..Len(heap) /\ Heap(heap)
  BY DEF TypeInv, TypeOK, Heap
<1>2. CASE Fresh(c)
  <2>1. /\ Heap(al.heap) /\ Len(al.heap) >= Len(heap)
        /\ al.node \in 1..Len(al.heap) /\ al.free \in 0..Len(al.heap)
    BY AllocIs
  <2>2. Working(c) = al /\ Linked(c) = LinkTsList(al.heap, al.node, tsList[c])
    BY <1>2 DEF Working, Linked
  <2> HIDE DEF al
  <2>3. Len(al.heap) \in Nat
    BY <2>1 DEF Heap
  <2>4. tsList[c] \in 0..Len(al.heap)
    BY <1>1, <2>1, <2>3
  <2>5. /\ Heap(LinkTsList(al.heap, al.node, tsList[c]).heap)
        /\ Len(LinkTsList(al.heap, al.node, tsList[c]).heap) = Len(al.heap)
    BY <2>1, <2>4, LinkType
  <2> QED
    BY <2>1, <2>2, <2>5
<1>3. CASE ~Fresh(c)
  <2>1. tsList[c] # 0
    BY <1>3 DEF Fresh
  <2> QED
    BY <1>1, <1>3, <2>1 DEF Working, Linked
<1> QED
  BY <1>2, <1>3

\* What a write to the print channel does that leaves buffer b: s is its line's time.
Wrote(c, w, b, s) ==
    /\ b = PutWord(BufferOf(c), w) /\ b.room >= 0
    /\ s = IF Fresh(c) THEN time ELSE current[c].start
    /\ heap' = Marked(Linked(c).heap, Working(c).node, b.done,
                      IF Fresh(c) THEN time ELSE heap[tsList[c]].startTime, time)
    /\ freeList' = Working(c).free
    /\ tsList' = [tsList EXCEPT ![c] = Working(c).node]
    /\ pbuff' = [pbuff EXCEPT ![c] = [b.mem EXCEPT ![b.in] = Nul]]
    /\ pbi' = [pbi EXCEPT ![c] = b.in] /\ pbo' = pbo
    /\ numMsgs' = [numMsgs EXCEPT ![c] = b.msgs]
    /\ LET line == [text |-> current[c].text \o b.accepted, start |-> s, end |-> time]
       IN  /\ lines' = IF b.done THEN [lines EXCEPT ![c] = Append(@, line)] ELSE lines
           /\ current' = [current EXCEPT ![c] = IF b.done THEN NoLine ELSE line]
    /\ overrun' = overrun /\ crashed' = crashed
LEMMA PrintWordIs ==
    ASSUME TypeInv, NEW c \in Cores, NEW w \in Words, PrintWord(c, w), Linked(c).ok
    PROVE  \E b \in Buffer, s \in Nat : Wrote(c, w, b, s)
<1> DEFINE b == PutWord(BufferOf(c), w)
           s == IF Fresh(c) THEN time ELSE current[c].start
           line == [text |-> current[c].text \o b.accepted, start |-> s, end |-> time]
           n == Working(c).node
           h == Linked(c).heap
           m == [b EXCEPT !.mem[b.in] = Nul]
<1>1. BufferOf(c) \in Buffer /\ BufferOf(c).room >= 0
  BY BufferOfType DEF TypeInv
<1>2. w \in Text
  BY ITCPrintAssumption DEF Text
<1>3. b \in Buffer /\ b.room >= 0
  BY <1>1, <1>2, PutWordRoomy
<1>4. /\ freeList' = Working(c).free
      /\ heap' = [h EXCEPT ![n].terminated = b.done,
                           ![n].startTime = IF Fresh(c) THEN time ELSE @,
                           ![n].endTime = time]
      /\ tsList' = [tsList EXCEPT ![c] = n]
      /\ StoreBuffer(c, m)
      /\ lines' = IF b.done THEN [lines EXCEPT ![c] = Append(@, line)] ELSE lines
      /\ current' = [current EXCEPT ![c] = IF b.done THEN NoLine ELSE line]
      /\ Overrun(c, b.room < 0)
      /\ UNCHANGED crashed
  BY Zenon DEF PrintWord, Linked, Working, Fresh
<1> HIDE DEF b
<1>5. /\ pbuff' = [pbuff EXCEPT ![c] = [b.mem EXCEPT ![b.in] = Nul]]
      /\ pbi' = [pbi EXCEPT ![c] = b.in] /\ pbo' = pbo
      /\ numMsgs' = [numMsgs EXCEPT ![c] = b.msgs]
  BY <1>3, <1>4 DEF StoreBuffer, Buffer
<1>6. overrun' = overrun
  <2>1. overrun' = [overrun EXCEPT ![c] = overrun[c]] /\ overrun \in [Cores -> BOOLEAN]
    <3>1. ~ (b.room < 0)
      BY <1>3 DEF Buffer
    <3> QED
      BY <1>4, <3>1 DEF Overrun, TypeInv, TypeOK
  <2> QED
    BY <2>1
<1>7. s \in Nat
  <2>1. current[c] \in Line /\ time \in Nat
    BY DEF TypeInv, TypeOK
  <2> QED
    BY <2>1 DEF Line
<1>8. heap' = Marked(h, n, b.done, IF Fresh(c) THEN time ELSE heap[tsList[c]].startTime, time)
  <2>1. Heap(h) /\ n \in 1..Len(h)
    BY LinkedType
  <2>2. ~Fresh(c) => h = heap /\ n = tsList[c]
    BY DEF Linked, Working
  <2> HIDE DEF h, n
  <2>3. h \in [1..Len(h) -> Cells(Len(h))]
    BY <2>1 DEF Heap
  <2>4. heap' = [h EXCEPT ![n].terminated = b.done,
                           ![n].startTime = IF Fresh(c) THEN time ELSE h[n].startTime,
                           ![n].endTime = time]
    BY <1>4, <2>1, <2>3
  <2>5. heap' = Marked(h, n, b.done, IF Fresh(c) THEN time ELSE h[n].startTime, time)
    BY <2>1, <2>3, <2>4 DEF Marked
  <2> QED
    BY <2>2, <2>5
<1> HIDE DEF s
<1> QED
  BY <1>3, <1>4, <1>5, <1>6, <1>7, <1>8 DEF b, s, Wrote

\* The heap after a write to the print channel.
LEMMA WroteHeap ==
    ASSUME TypeInv, NEW c \in Cores, NEW w, NEW b \in Buffer, NEW s, Wrote(c, w, b, s)
    PROVE  IsMarked(heap', Linked(c).heap, Working(c).node, b.done,
                    IF Fresh(c) THEN time ELSE heap[tsList[c]].startTime, time)
<1> DEFINE h == Linked(c).heap
           n == Working(c).node
           st == IF Fresh(c) THEN time ELSE heap[tsList[c]].startTime
<1>1. heap' = Marked(h, n, b.done, st, time)
  BY DEF Wrote
<1>2. Heap(h) /\ n \in 1..Len(h)
  BY LinkedType
<1> HIDE DEF h, n
<1>3. TypeOK /\ Heap(heap) /\ time \in Nat /\ Len(heap) \in Nat
  BY DEF TypeInv, TypeOK, Heap
<1>4. st \in Nat
  <2>1. ~Fresh(c) => heap[tsList[c]] \in Cells(Len(heap))
    BY <1>3 DEF Fresh, Heap, TypeOK
  <2> QED
    BY <1>3, <2>1 DEF Cells
<1> HIDE DEF st
<1>5. b.done \in BOOLEAN
  BY DEF Buffer
<1>6. PICK g, i, t, f, e : g = h /\ i = n /\ t = b.done /\ f = st /\ e = time
  OBVIOUS
<1>7. Heap(g) /\ i \in 1..Len(g) /\ t \in BOOLEAN /\ f \in Nat /\ e \in Nat
  BY <1>2, <1>3, <1>4, <1>5, <1>6
<1>8. IsMarked(Marked(g, i, t, f, e), g, i, t, f, e)
  BY <1>7, MarkedIs, Zenon
<1>9. IsMarked(heap', h, n, b.done, st, time)
  BY <1>1, <1>6, <1>8, Zenon
<1> QED
  BY <1>9 DEF h, n, st

\* A write to the print channel keeps the types.
LEMMA PrintWordType ==
    ASSUME TypeInv, NEW c \in Cores, NEW w \in Words, PrintWord(c, w),
           time' \in 1..(MaxWrites + 1), UNCHANGED lastRead
    PROVE  TypeInv'
<1>1. CASE ~Linked(c).ok
  <2>1. crashed' = TRUE /\ UNCHANGED <<itc, lines, current, overrun>>
    BY <1>1, Zenon DEF PrintWord, Linked, Working, Fresh
  <2> QED
    BY <2>1, TypeSame
<1>2. CASE Linked(c).ok
  <2> DEFINE h == Linked(c).heap
             n == Working(c).node
  <2>0. PICK b \in Buffer, s \in Nat : Wrote(c, w, b, s)
    BY <1>2, PrintWordIs
  <2>1. /\ freeList' = Working(c).free
        /\ tsList' = [tsList EXCEPT ![c] = n]
        /\ pbuff' = [pbuff EXCEPT ![c] = [b.mem EXCEPT ![b.in] = Nul]]
        /\ pbi' = [pbi EXCEPT ![c] = b.in] /\ pbo' = pbo
        /\ numMsgs' = [numMsgs EXCEPT ![c] = b.msgs]
        /\ overrun' = overrun /\ crashed' = crashed
    BY <2>0 DEF Wrote
  <2>2. Heap(h) /\ n \in 1..Len(h) /\ Working(c).free \in 0..Len(h) /\ Len(heap) <= Len(h)
    BY LinkedType
  <2> HIDE DEF h, n
  <2>3. /\ TypeOK /\ Heap(heap) /\ time \in Nat /\ Len(heap) \in Nat
    BY DEF TypeInv, TypeOK, Heap
  <2>5. b.done \in BOOLEAN /\ b.mem \in Mem /\ b.in \in Index /\ b.msgs \in Nat /\ b.accepted \in Text
    BY DEF Buffer
  <2>6. Heap(heap') /\ Len(heap') = Len(h)
    BY <2>0, WroteHeap DEF IsMarked, h
  <2>7. Nul \in Chars
    BY ITCPrintAssumption
  <2>8. [b.mem EXCEPT ![b.in] = Nul] \in Mem
    BY <2>5, <2>7 DEF Mem
  <2>9. pbuff' \in [Cores -> Mem] /\ pbi' \in [Cores -> Index] /\ pbo' \in [Cores -> Index]
    BY <2>1, <2>3, <2>5, <2>8 DEF TypeOK, Mem, Index
  <2>10. numMsgs' \in [Cores -> Nat] /\ crashed' \in BOOLEAN /\ overrun' \in [Cores -> BOOLEAN]
    BY <2>1, <2>3, <2>5 DEF TypeOK
  <2>11. tsList' \in [Cores -> 0..Len(heap')] /\ freeList' \in 0..Len(heap')
    BY <2>1, <2>2, <2>3, <2>6 DEF TypeOK, Heap
  <2> DEFINE line == [text |-> current[c].text \o b.accepted, start |-> s, end |-> time]
  <2>12. line \in Line /\ NoLine \in Line
    <3>1. current[c].text \in Text
      BY <2>3 DEF TypeOK, Line, Text
    <3>2. current[c].text \o b.accepted \in Text
      BY <2>5, <3>1, ConcatProperties DEF Text
    <3> QED
      BY <2>3, <3>2 DEF Line, NoLine, Text
  <2>13. lines' = (IF b.done THEN [lines EXCEPT ![c] = Append(@, line)] ELSE lines)
         /\ current' = [current EXCEPT ![c] = IF b.done THEN NoLine ELSE line]
    BY <2>0 DEF Wrote
  <2> HIDE DEF line
  <2>14. lines' \in [Cores -> Seq(Line)] /\ current' \in [Cores -> Line]
    <3>1. lines[c] \in Seq(Line)
      BY <2>3 DEF TypeOK
    <3>2. Append(lines[c], line) \in Seq(Line)
      BY <2>12, <3>1, AppendProperties
    <3> QED
      BY <2>3, <2>12, <2>13, <3>2 DEF TypeOK
  <2>15. lastRead' \in [got: Line, expected: Line]
    BY <2>3 DEF TypeOK
  <2> QED
    BY <2>6, <2>9, <2>10, <2>11, <2>14, <2>15, TypeAfter
<1> QED
  BY <1>1, <1>2

\* The parts of a no-load string: whether it ends a message, the buffer then, the
\* buffer with the room there is by its indices, and the list.
Ending(c) == tsList[c] # 0 /\ ~heap[tsList[c]].terminated
Ended(c) == IF Ending(c) THEN [Put(BufferOf(c), Nul) EXCEPT !.msgs = @ + 1] ELSE BufferOf(c)
Roomed(c) == [Ended(c) EXCEPT !.room = RoomBetween(Ended(c).in, pbo[c])]
NlsText(c, t) == PutNls(Roomed(c), t)
NlsHeap(c) == IF Ending(c) THEN [AllocTsList.heap EXCEPT ![tsList[c]].terminated = TRUE]
              ELSE AllocTsList.heap
NlsLinked(c) == LinkTsList(NlsHeap(c), AllocTsList.node, tsList[c])
NlsDone(c) == IF Ending(c) THEN Append(lines[c], current[c]) ELSE lines[c]

\* The buffer types of a no-load string.
LEMMA NlsBufferType ==
    ASSUME TypeInv, NEW c \in Cores, NEW t \in Text
    PROVE  /\ Ended(c) \in Buffer /\ Roomed(c) \in Buffer /\ NlsText(c, t) \in Buffer
           /\ Ended(c).msgs = numMsgs[c] + (IF Ending(c) THEN 1 ELSE 0)
           /\ Ended(c).room = roomInITCPrintQ(c) - (IF Ending(c) THEN 1 ELSE 0)
           /\ Roomed(c).room = RoomBetween(Ended(c).in, pbo[c])
           /\ Roomed(c).mem = Ended(c).mem /\ Roomed(c).in = Ended(c).in
           /\ Roomed(c).msgs = Ended(c).msgs /\ Roomed(c).accepted = <<>>
<1>1. /\ BufferOf(c) \in Buffer /\ BufferOf(c).room = roomInITCPrintQ(c)
      /\ roomInITCPrintQ(c) \in 0..(BuffSize - 1)
  BY BufferOfType DEF TypeInv
<1>2. Nul \in Chars
  BY ITCPrintAssumption
<1>3. BufferOf(c).msgs = numMsgs[c] /\ BufferOf(c).accepted = <<>>
  BY DEF BufferOf
<1> DEFINE p == Put(BufferOf(c), Nul)
           q == [p EXCEPT !.msgs = @ + 1]
<1>4. p \in Buffer /\ p.room = BufferOf(c).room - 1 /\ p.msgs = numMsgs[c] /\ p.accepted = <<>>
  BY <1>1, <1>2, <1>3, PutType
<1> HIDE DEF p
<1>5. q \in Buffer /\ q.room = p.room /\ q.msgs = p.msgs + 1 /\ q.accepted = p.accepted
  <2>1. p.msgs + 1 \in Nat
    BY <1>4 DEF Buffer
  <2> QED
    BY <1>4, <2>1 DEF Buffer
<1>6. numMsgs[c] \in Nat
  BY <1>1, <1>3 DEF Buffer
<1>7. /\ Ended(c) \in Buffer /\ Ended(c).accepted = <<>>
      /\ Ended(c).msgs = numMsgs[c] + (IF Ending(c) THEN 1 ELSE 0)
      /\ Ended(c).room = roomInITCPrintQ(c) - (IF Ending(c) THEN 1 ELSE 0)
  <2>1. CASE Ending(c)
    <3>1. Ended(c) = q
      BY <2>1 DEF Ended, p
    <3> HIDE DEF q
    <3> QED
      BY <1>1, <1>4, <1>5, <2>1, <3>1
  <2>2. CASE ~Ending(c)
    <3>1. Ended(c) = BufferOf(c)
      BY <2>2 DEF Ended
    <3> QED
      BY <1>1, <1>3, <1>6, <2>2, <3>1
  <2> QED
    BY <2>1, <2>2
<1>8. RoomBetween(Ended(c).in, pbo[c]) \in Int
  <2>1. Ended(c).in \in Index /\ pbo[c] \in Index
    BY <1>7 DEF Buffer, TypeInv, TypeOK, Index
  <2>2. RoomBetween(Ended(c).in, pbo[c]) \in 0..(BuffSize - 1)
    BY <2>1, RoomBetweenType
  <2> QED
    BY <2>2
<1>9. /\ Roomed(c) \in Buffer
      /\ Roomed(c).room = RoomBetween(Ended(c).in, pbo[c])
      /\ Roomed(c).mem = Ended(c).mem /\ Roomed(c).in = Ended(c).in
      /\ Roomed(c).msgs = Ended(c).msgs /\ Roomed(c).accepted = <<>>
  <2>1. PICK e, r : /\ e = Ended(c) /\ r = RoomBetween(Ended(c).in, pbo[c])
                    /\ r \in Int /\ e \in Buffer /\ e.accepted = <<>>
    BY <1>7, <1>8
  <2>2. Roomed(c) = [e EXCEPT !.room = r]
    BY <2>1 DEF Roomed
  <2>3. [e EXCEPT !.room = r] \in Buffer
    BY <2>1 DEF Buffer
  <2> QED
    BY <2>1, <2>2, <2>3 DEF Buffer
<1>10. NlsText(c, t) \in Buffer
  BY <1>9, PutNlsRoomy DEF NlsText
<1> QED
  BY <1>7, <1>9, <1>10

\* The heap of a no-load string before its node is linked.
LEMMA NlsHeapIs ==
    ASSUME TypeInv, NEW c \in Cores
    PROVE  /\ Heap(NlsHeap(c)) /\ Len(NlsHeap(c)) = Len(AllocTsList.heap)
           /\ AllocTsList.node \in 1..Len(NlsHeap(c)) /\ AllocTsList.free \in 0..Len(NlsHeap(c))
           /\ Len(heap) <= Len(NlsHeap(c)) /\ tsList[c] \in 0..Len(NlsHeap(c))
           /\ \A j \in 1..Len(heap) : j # tsList[c] => NlsHeap(c)[j] = heap[j]
           /\ ~Ending(c) => \A j \in 1..Len(heap) : NlsHeap(c)[j] = heap[j]
           /\ Ending(c) => NlsHeap(c)[tsList[c]] = [heap[tsList[c]] EXCEPT !.terminated = TRUE]
<1> DEFINE al == AllocTsList
           tlp == tsList[c]
           x == [al.heap[tlp] EXCEPT !.terminated = TRUE]
<1>1. /\ Heap(al.heap) /\ Len(al.heap) >= Len(heap)
      /\ al.node \in 1..Len(al.heap) /\ al.free \in 0..Len(al.heap)
      /\ \A j \in 1..Len(heap) : al.heap[j] = heap[j]
  BY AllocIs
<1> HIDE DEF al
<1>2. Len(heap) \in Nat /\ tlp \in 0..Len(heap) /\ Len(al.heap) \in Nat
  BY <1>1 DEF TypeInv, TypeOK, Heap
<1>3. tlp \in 0..Len(al.heap)
  BY <1>1, <1>2
<1>4. CASE Ending(c)
  <2>1. tlp \in 1..Len(heap) /\ tlp \in 1..Len(al.heap)
    BY <1>1, <1>2, <1>4 DEF Ending
  <2>2. x \in Cells(Len(al.heap))
    <3>1. al.heap[tlp] \in Cells(Len(al.heap))
      BY <1>1, <2>1 DEF Heap
    <3> QED
      BY <3>1 DEF Cells
  <2>3. NlsHeap(c) = [al.heap EXCEPT ![tlp] = x]
    BY <1>4 DEF NlsHeap, al
  <2>4. x = [heap[tlp] EXCEPT !.terminated = TRUE]
    BY <1>1, <2>1
  <2> HIDE DEF x, tlp
  <2>5. PICK g, i, y : g = al.heap /\ i = tlp /\ y = x
    OBVIOUS
  <2>6. Heap(g) /\ i \in 1..Len(g) /\ y \in Cells(Len(g))
    BY <1>1, <2>1, <2>2, <2>5
  <2>7. /\ Heap([g EXCEPT ![i] = y]) /\ Len([g EXCEPT ![i] = y]) = Len(g)
        /\ [g EXCEPT ![i] = y][i] = y
        /\ \A j \in 1..Len(g) : j # i => [g EXCEPT ![i] = y][j] = g[j]
    BY <2>6, HeapSet
  <2>8. /\ Heap(NlsHeap(c)) /\ Len(NlsHeap(c)) = Len(al.heap) /\ NlsHeap(c)[tlp] = x
        /\ \A j \in 1..Len(al.heap) : j # tlp => NlsHeap(c)[j] = al.heap[j]
    BY <2>3, <2>5, <2>7, Zenon
  <2>9. \A j \in 1..Len(heap) : j # tlp => NlsHeap(c)[j] = heap[j]
    BY <1>1, <1>2, <2>8
  <2> QED
    BY <1>1, <1>3, <1>4, <2>4, <2>8, <2>9 DEF al, tlp
<1>5. CASE ~Ending(c)
  <2>1. NlsHeap(c) = al.heap
    BY <1>5 DEF NlsHeap, al
  <2> QED
    BY <1>1, <1>3, <1>5, <2>1 DEF al
<1> QED
  BY <1>4, <1>5

\* What a no-load string does that leaves buffer b.
Sent(c, t, b) ==
    /\ b = [Put(NlsText(c, t), Nul) EXCEPT !.msgs = @ + 1]
    /\ heap' = Marked(NlsLinked(c).heap, AllocTsList.node, TRUE, time, time)
    /\ freeList' = AllocTsList.free
    /\ tsList' = [tsList EXCEPT ![c] = AllocTsList.node]
    /\ pbuff' = [pbuff EXCEPT ![c] = b.mem]
    /\ pbi' = [pbi EXCEPT ![c] = b.in] /\ pbo' = pbo
    /\ numMsgs' = [numMsgs EXCEPT ![c] = b.msgs]
    /\ lines' = [lines EXCEPT ![c] =
           Append(NlsDone(c), [text |-> b.accepted, start |-> time, end |-> time])]
    /\ current' = [current EXCEPT ![c] = NoLine]
    /\ overrun' = [overrun EXCEPT ![c] = overrun[c] \/ (Ended(c).room < 0 \/ b.room < 0)]
    /\ crashed' = crashed
LEMMA NlsPrintIs ==
    ASSUME TypeInv, NEW c \in Cores, NEW t \in NlsTexts, NlsPrint(c, t), NlsLinked(c).ok
    PROVE  \E b \in Buffer : Sent(c, t, b)
<1> DEFINE b == [Put(NlsText(c, t), Nul) EXCEPT !.msgs = @ + 1]
           n == AllocTsList.node
           h == NlsLinked(c).heap
<1>1. t \in Text /\ Nul \in Chars
  BY ITCPrintAssumption DEF Text
<1>2. b \in Buffer
  <2>1. Put(NlsText(c, t), Nul) \in Buffer
    BY <1>1, NlsBufferType, PutType
  <2>2. Put(NlsText(c, t), Nul).msgs + 1 \in Nat
    BY <2>1 DEF Buffer
  <2> QED
    BY <2>1, <2>2 DEF Buffer
<1>3. /\ freeList' = AllocTsList.free
      /\ heap' = [h EXCEPT ![n].terminated = TRUE, ![n].startTime = time, ![n].endTime = time]
      /\ tsList' = [tsList EXCEPT ![c] = n]
      /\ StoreBuffer(c, b)
      /\ lines' = [lines EXCEPT ![c] =
             Append(NlsDone(c), [text |-> b.accepted, start |-> time, end |-> time])]
      /\ current' = [current EXCEPT ![c] = NoLine]
      /\ Overrun(c, Ended(c).room < 0 \/ b.room < 0)
      /\ UNCHANGED crashed
  BY Zenon DEF NlsPrint, NlsLinked, NlsHeap, NlsDone, NlsText, Roomed, Ended, Ending
<1>4. heap' = Marked(h, n, TRUE, time, time)
  <2>1. Heap(NlsHeap(c)) /\ AllocTsList.node \in 1..Len(NlsHeap(c)) /\ tsList[c] \in 0..Len(NlsHeap(c))
    BY NlsHeapIs
  <2>2. Heap(h) /\ Len(h) = Len(NlsHeap(c))
    BY <2>1, LinkType DEF NlsLinked
  <2>3. n \in 1..Len(h) /\ h \in [1..Len(h) -> Cells(Len(h))]
    BY <2>1, <2>2 DEF Heap
  <2> HIDE DEF h, n
  <2> QED
    BY <1>3, <2>3 DEF Marked
<1> HIDE DEF h, n
<1>5. Sent(c, t, b)
  <2>1. overrun' = [overrun EXCEPT ![c] = overrun[c] \/ (Ended(c).room < 0 \/ b.room < 0)]
    BY <1>3, Zenon DEF Overrun
  <2> HIDE DEF b
  <2> QED
    BY <1>3, <1>4, <2>1 DEF Sent, StoreBuffer, b, n, h
<1> QED
  BY <1>2, <1>5

\* The heap after a no-load string.
LEMMA SentHeap ==
    ASSUME TypeInv, NEW c \in Cores, NEW w, NEW b, Sent(c, w, b)
    PROVE  /\ IsMarked(heap', NlsLinked(c).heap, AllocTsList.node, TRUE, time, time)
           /\ Heap(NlsLinked(c).heap) /\ Len(NlsLinked(c).heap) = Len(NlsHeap(c))
<1>1. Heap(NlsHeap(c)) /\ AllocTsList.node \in 1..Len(NlsHeap(c)) /\ tsList[c] \in 0..Len(NlsHeap(c))
  BY NlsHeapIs
<1>2. Heap(NlsLinked(c).heap) /\ Len(NlsLinked(c).heap) = Len(NlsHeap(c))
  BY <1>1, LinkType DEF NlsLinked
<1>3. time \in Nat
  BY DEF TypeInv, TypeOK
<1>4. PICK g, i, t, e : g = NlsLinked(c).heap /\ i = AllocTsList.node /\ t = TRUE /\ e = time
  OBVIOUS
<1>5. Heap(g) /\ i \in 1..Len(g) /\ t \in BOOLEAN /\ e \in Nat
  BY <1>1, <1>2, <1>3, <1>4
<1>6. IsMarked(Marked(g, i, t, e, e), g, i, t, e, e)
  BY <1>5, MarkedIs, Zenon
<1>7. heap' = Marked(g, i, t, e, e)
  BY <1>4, Zenon DEF Sent
<1>8. IsMarked(heap', NlsLinked(c).heap, AllocTsList.node, TRUE, time, time)
  BY <1>4, <1>6, <1>7, Zenon
<1> QED
  BY <1>2, <1>8

\* A no-load string keeps the types.
LEMMA NlsPrintType ==
    ASSUME TypeInv, NEW c \in Cores, NEW t \in NlsTexts, NlsPrint(c, t),
           time' \in 1..(MaxWrites + 1), UNCHANGED lastRead
    PROVE  TypeInv'
<1>1. CASE ~NlsLinked(c).ok
  <2>1. crashed' = TRUE /\ UNCHANGED <<itc, lines, current, overrun>>
    BY <1>1, Zenon DEF NlsPrint, NlsLinked, NlsHeap, Ending
  <2> QED
    BY <2>1, TypeSame
<1>2. CASE NlsLinked(c).ok
  <2>1. PICK b \in Buffer : Sent(c, t, b)
    BY <1>2, NlsPrintIs
  <2>2. /\ Heap(heap') /\ Len(heap') = Len(NlsHeap(c))
    BY <2>1, SentHeap DEF IsMarked
  <2>3. /\ AllocTsList.node \in 1..Len(NlsHeap(c)) /\ AllocTsList.free \in 0..Len(NlsHeap(c))
        /\ Len(heap) <= Len(NlsHeap(c))
    BY NlsHeapIs
  <2>4. TypeOK /\ time \in Nat /\ Len(heap) \in Nat /\ Len(NlsHeap(c)) \in Nat
    BY NlsHeapIs DEF TypeInv, TypeOK, Heap
  <2>5. b.mem \in Mem /\ b.in \in Index /\ b.msgs \in Nat /\ b.accepted \in Text
    BY DEF Buffer
  <2>6. pbuff' \in [Cores -> Mem] /\ pbi' \in [Cores -> Index] /\ pbo' \in [Cores -> Index]
    BY <2>1, <2>4, <2>5 DEF Sent, TypeOK, Mem, Index
  <2>7. numMsgs' \in [Cores -> Nat] /\ crashed' \in BOOLEAN
    BY <2>1, <2>4, <2>5 DEF Sent, TypeOK
  <2>8. overrun' \in [Cores -> BOOLEAN]
    BY <2>1, <2>4, Zenon DEF Sent, TypeOK
  <2>9. tsList' \in [Cores -> 0..Len(heap')] /\ freeList' \in 0..Len(heap')
    <3>1. tsList' = [tsList EXCEPT ![c] = AllocTsList.node] /\ freeList' = AllocTsList.free
      BY <2>1 DEF Sent
    <3>2. tsList \in [Cores -> 0..Len(heap)]
      BY <2>4 DEF TypeOK
    <3> QED
      BY <2>2, <2>3, <2>4, <3>1, <3>2
  <2> DEFINE line == [text |-> b.accepted, start |-> time, end |-> time]
  <2>10. line \in Line /\ NoLine \in Line
    BY <2>4, <2>5 DEF Line, NoLine, Text
  <2>11. lines' = [lines EXCEPT ![c] = Append(NlsDone(c), line)] /\ current' = [current EXCEPT ![c] = NoLine]
    BY <2>1 DEF Sent
  <2> HIDE DEF line
  <2>12. lines' \in [Cores -> Seq(Line)] /\ current' \in [Cores -> Line]
    <3>1. lines[c] \in Seq(Line) /\ current[c] \in Line
      BY <2>4 DEF TypeOK
    <3>2. NlsDone(c) \in Seq(Line)
      BY <3>1, AppendProperties DEF NlsDone
    <3>3. Append(NlsDone(c), line) \in Seq(Line)
      BY <2>10, <3>2, AppendProperties
    <3> QED
      BY <2>4, <2>10, <2>11, <3>3 DEF TypeOK
  <2>13. lastRead' \in [got: Line, expected: Line]
    BY <2>4 DEF TypeOK
  <2> QED
    BY <2>2, <2>6, <2>7, <2>8, <2>9, <2>12, <2>13, TypeAfter
<1> QED
  BY <1>1, <1>2

\* The node that is read is one of the list.
LEMMA TerminatedType ==
    ASSUME TypeInv, NEW c \in Cores, TerminatedTsList(c) # 0
    PROVE  TerminatedTsList(c) \in 1..Len(heap) /\ tsList[c] # 0 /\ tsList[c] \in 1..Len(heap)
<1>1. Len(heap) \in Nat /\ tsList[c] \in 0..Len(heap) /\ heap \in [1..Len(heap) -> Cells(Len(heap))]
  BY DEF TypeInv, TypeOK, Heap
<1>2. tsList[c] # 0
  BY DEF TerminatedTsList
<1>3. heap[tsList[c]] \in Cells(Len(heap))
  BY <1>1, <1>2
<1>4. heap[tsList[c]].prev \in 0..Len(heap)
  BY <1>3 DEF Cells
<1>5. TerminatedTsList(c) = heap[tsList[c]].prev
  BY <1>2 DEF TerminatedTsList
<1> QED
  BY <1>1, <1>2, <1>4, <1>5

\* The times of a node are times.
LEMMA NodeTimes ==
    ASSUME TypeInv, NEW i \in 1..Len(heap)
    PROVE  heap[i].startTime \in Nat /\ heap[i].endTime \in Nat
<1>1. heap[i] \in Cells(Len(heap))
  BY DEF TypeInv, Heap
<1> QED
  BY <1>1 DEF Cells

\* Reading a message keeps the types.
LEMMA GetPrintType ==
    ASSUME TypeInv, NEW c \in Cores, NEW limit \in Nat, GetPrint(c, limit),
           UNCHANGED <<time, overrun>>
    PROVE  TypeInv'
<1> DEFINE tsl == TerminatedTsList(c)
           text == TextFrom(c, limit)
<1>0. TypeOK /\ time' \in 1..(MaxWrites + 1) /\ crashed' \in BOOLEAN /\ overrun' \in [Cores -> BOOLEAN]
  <2>1. crashed' \in BOOLEAN
    <3>1. crashed' = NoOldest(c)
      BY DEF GetPrint
    <3> QED
      BY <3>1 DEF NoOldest
  <2> QED
    BY <2>1 DEF TypeInv, TypeOK
<1>1. CASE NoOldest(c) \/ tsl = 0
  <2>1. UNCHANGED <<itc, lines, lastRead, current>>
    BY <1>1 DEF GetPrint
  <2> QED
    BY <1>0, <2>1, TypeSame
<1>2. CASE ~NoOldest(c) /\ tsl # 0
  <2>1. tsl \in 1..Len(heap) /\ tsList[c] # 0
    BY <1>2, TerminatedType
  <2>2. text \in Text /\ Len(text) \in Nat
    BY TextFromType DEF TypeInv
  <2>3. /\ UnlinkTsList(c, tsl)
        /\ numMsgs' = [numMsgs EXCEPT ![c] = @ - 1] /\ numMsgs[c] > 0
        /\ pbo' = [pbo EXCEPT ![c] = (@ + Len(text) + 1) % BuffSize]
        /\ lastRead' = [got |-> [text |-> text, start |-> heap[tsl].startTime,
                                 end |-> heap[tsl].endTime],
                        expected |-> IF lines[c] = <<>> THEN NoLine ELSE Head(lines[c])]
        /\ lines' = IF lines[c] = <<>> THEN lines ELSE [lines EXCEPT ![c] = Tail(@)]
        /\ UNCHANGED <<pbuff, pbi, current>>
    BY <1>2 DEF GetPrint
  <2> HIDE DEF tsl, text
  <2>4. /\ Heap(heap') /\ Len(heap') = Len(heap) /\ freeList' = tsl
        /\ tsList' \in [Cores -> 0..Len(heap)]
    BY <2>1, <2>3, UnlinkType
  <2>5. tsList' \in [Cores -> 0..Len(heap')] /\ freeList' \in 0..Len(heap')
    BY <2>1, <2>4
  <2>6. numMsgs' \in [Cores -> Nat]
    BY <1>0, <2>3 DEF TypeOK
  <2>7. pbo' \in [Cores -> Index]
    <3>1. BuffSize \in Nat \ {0} /\ pbo[c] \in Nat
      BY <1>0, ITCPrintAssumption DEF TypeOK
    <3>2. (pbo[c] + Len(text) + 1) % BuffSize \in Index
      BY <2>2, <3>1 DEF Index
    <3> QED
      BY <1>0, <2>3, <3>2 DEF TypeOK, Index
  <2>8. pbuff' \in [Cores -> Mem] /\ pbi' \in [Cores -> Index] /\ current' \in [Cores -> Line]
    BY <1>0, <2>3 DEF TypeOK, Index, Mem
  <2>9. NoLine \in Line /\ lines[c] \in Seq(Line)
    <3>1. NoLine \in Line
      BY DEF NoLine, Line
    <3> QED
      BY <1>0, <3>1 DEF TypeOK
  <2>10. lines[c] # <<>> => Head(lines[c]) \in Line /\ Tail(lines[c]) \in Seq(Line)
    BY <2>9, HeadTailProperties
  <2>11. lines' \in [Cores -> Seq(Line)]
    BY <1>0, <2>3, <2>10 DEF TypeOK
  <2>12. lastRead' \in [got: Line, expected: Line]
    <3>1. heap[tsl].startTime \in Nat /\ heap[tsl].endTime \in Nat
      BY <2>1, NodeTimes
    <3>2. [text |-> text, start |-> heap[tsl].startTime, end |-> heap[tsl].endTime] \in Line
      BY <2>2, <3>1 DEF Line, Text
    <3>3. (IF lines[c] = <<>> THEN NoLine ELSE Head(lines[c])) \in Line
      BY <2>9, <2>10
    <3> QED
      BY <2>3, <3>2, <3>3
  <2> QED
    BY <1>0, <2>4, <2>5, <2>6, <2>7, <2>8, <2>11, <2>12, TypeAfter
<1> QED
  BY <1>1, <1>2

\* Flushing keeps the types.
LEMMA FlushPrintType ==
    ASSUME TypeInv, NEW c \in Cores, NEW limit \in Nat, FlushPrint(c, limit),
           UNCHANGED <<time, overrun>>
    PROVE  TypeInv'
<1> DEFINE tsl == tsList[c]
           text == TextFrom(c, limit)
<1>0. /\ TypeOK /\ time' \in 1..(MaxWrites + 1) /\ crashed' \in BOOLEAN
      /\ overrun' \in [Cores -> BOOLEAN] /\ Len(heap) \in Nat
  <2>1. crashed' = crashed
    BY DEF FlushPrint
  <2> QED
    BY <2>1 DEF TypeInv, TypeOK, Heap
<1>1. CASE tsl = 0
  <2>1. UNCHANGED <<itc, lines, lastRead, current>>
    BY <1>1 DEF FlushPrint
  <2> QED
    BY <1>0, <2>1, TypeSame
<1>2. CASE tsl # 0
  <2>1. tsl \in 1..Len(heap)
    BY <1>0, <1>2 DEF TypeOK
  <2>2. text \in Text /\ Len(text) \in Nat
    BY TextFromType DEF TypeInv
  <2>3. /\ UnlinkTsList(c, tsl)
        /\ \/ UNCHANGED <<pbo, current, lastRead>>
           \/ /\ pbo' = [pbo EXCEPT ![c] = (@ + Len(text)) % BuffSize]
              /\ lastRead' = [got |-> [text |-> text, start |-> heap[tsl].startTime,
                                       end |-> heap[tsl].endTime],
                              expected |-> current[c]]
              /\ current' = [current EXCEPT ![c] = NoLine]
        /\ UNCHANGED <<pbuff, pbi, numMsgs, lines>>
    BY <1>2 DEF FlushPrint
  <2>4. /\ Heap(heap') /\ Len(heap') = Len(heap) /\ freeList' = tsl
        /\ tsList' \in [Cores -> 0..Len(heap)]
    BY <1>2, <2>1, <2>3, UnlinkType
  <2>5. tsList' \in [Cores -> 0..Len(heap')] /\ freeList' \in 0..Len(heap')
    BY <2>1, <2>4
  <2>6. NoLine \in Line /\ current[c] \in Line
    BY <1>0 DEF NoLine, Line, TypeOK
  <2>7. heap[tsl].startTime \in Nat /\ heap[tsl].endTime \in Nat
    BY <2>1, NodeTimes
  <2> HIDE DEF tsl, text
  <2>8. [text |-> text, start |-> heap[tsl].startTime, end |-> heap[tsl].endTime] \in Line
    BY <2>2, <2>7 DEF Line, Text
  <2>9. pbo' \in [Cores -> Index]
    <3>1. BuffSize \in Nat \ {0} /\ pbo[c] \in Nat
      BY <1>0, ITCPrintAssumption DEF TypeOK
    <3>2. (pbo[c] + Len(text)) % BuffSize \in Index
      BY <2>2, <3>1 DEF Index
    <3> QED
      BY <1>0, <2>3, <3>2 DEF TypeOK, Index
  <2>10. pbuff' \in [Cores -> Mem] /\ pbi' \in [Cores -> Index] /\ numMsgs' \in [Cores -> Nat]
    BY <1>0, <2>3 DEF TypeOK, Index, Mem
  <2>11. lines' \in [Cores -> Seq(Line)] /\ current' \in [Cores -> Line]
    BY <1>0, <2>3, <2>6 DEF TypeOK
  <2>12. lastRead' \in [got: Line, expected: Line]
    BY <1>0, <2>3, <2>6, <2>8 DEF TypeOK
  <2> QED
    BY <1>0, <2>4, <2>5, <2>9, <2>10, <2>11, <2>12, TypeAfter
<1> QED
  BY <1>1, <1>2

\* The limits of a read are lengths.
LEMMA LimitType == \A limit \in {BuffSize} \cup {n - 1 : n \in DstLens} : limit \in Nat
  BY ITCPrintAssumption

\* Every step keeps the types.
LEMMA NextType == TypeInv /\ [Next]_vars => TypeInv'
<1> SUFFICES ASSUME TypeInv, [Next]_vars PROVE TypeInv'
  OBVIOUS
<1>1. CASE Write
  <2>1. time' \in 1..(MaxWrites + 1)
    BY <1>1, ITCPrintAssumption DEF Write, TypeInv, TypeOK
  <2>2. PICK c \in Cores : \/ \E w \in Words : PrintWord(c, w)
                           \/ \E t \in NlsTexts : NlsPrint(c, t)
    BY <1>1 DEF Write
  <2>3. UNCHANGED lastRead
    BY <1>1 DEF Write
  <2> QED
    BY <2>1, <2>2, <2>3, PrintWordType, NlsPrintType
<1>2. CASE Read
  <2>1. PICK c \in Cores, limit \in {BuffSize} \cup {n - 1 : n \in DstLens} :
               GetPrint(c, limit) \/ FlushPrint(c, limit)
    BY <1>2 DEF Read
  <2>2. limit \in Nat /\ UNCHANGED <<time, overrun>>
    BY <1>2, LimitType DEF Read
  <2> QED
    BY <2>1, <2>2, GetPrintType, FlushPrintType
<1>3. CASE UNCHANGED vars
  <2>1. UNCHANGED itc /\ UNCHANGED <<lines, current, overrun, lastRead>> /\ time' = time /\ crashed' = crashed
    BY <1>3 DEF vars
  <2>2. time' \in 1..(MaxWrites + 1) /\ crashed' \in BOOLEAN
    BY <2>1 DEF TypeInv, TypeOK
  <2> QED
    BY <2>1, <2>2, TypeSame
<1> QED
  BY <1>1, <1>2, <1>3 DEF Next

\* Every variable of the text decoder has its type: indices stay inside the buffers
\* and pointers lead to nodes that were allocated.
THEOREM ITCPrintTypeCorrect == Spec => []TypeOK
<1>1. TypeInv => TypeOK
  BY DEF TypeInv
<1> QED
  BY <1>1, InitType, NextType, PTL DEF Spec

-----------------------------------------------------------------------------
(* Overruns.                                                               *)

\* A character takes one from the room by the indices too, if there is any.
LEMMA RoomLess ==
    ASSUME NEW in \in Index, NEW out \in Index, RoomBetween(in, out) >= 1
    PROVE  RoomBetween(Advance(in), out) = RoomBetween(in, out) - 1
<1>1. BuffSize \in Nat \ {0}
  BY ITCPrintAssumption
<1> QED
  BY <1>1 DEF RoomBetween, Advance, Index

\* With room for a terminator the room counted is the room by the indices.
LEMMA RoomedIs ==
    ASSUME TypeInv, NEW c \in Cores, Ended(c).room >= 0
    PROVE  Roomed(c).room = Ended(c).room
<1>1. pbi[c] \in Index /\ pbo[c] \in Index
  BY DEF TypeInv, TypeOK, Index
<1>2. /\ Ended(c).room = roomInITCPrintQ(c) - (IF Ending(c) THEN 1 ELSE 0)
      /\ Roomed(c).room = RoomBetween(Ended(c).in, pbo[c])
  <2>1. <<>> \in Text
    BY DEF Text
  <2> QED
    BY <2>1, NlsBufferType
<1>3. roomInITCPrintQ(c) = RoomBetween(pbi[c], pbo[c]) /\ roomInITCPrintQ(c) \in Int
  BY BufferOfType DEF roomInITCPrintQ, TypeInv
<1>4. CASE Ending(c)
  <2>1. Ended(c).in = Advance(pbi[c])
    BY <1>4 DEF Ended, Put, BufferOf
  <2> QED
    BY <1>1, <1>2, <1>3, <1>4, <2>1, RoomLess
<1>5. CASE ~Ending(c)
  <2>1. Ended(c).in = pbi[c]
    BY <1>5 DEF Ended, BufferOf
  <2> QED
    BY <1>2, <1>3, <1>5, <2>1
<1> QED
  BY <1>4, <1>5

\* Only a no-load string overruns the buffer, without room for two characters, and it
\* makes a line.
LEMMA OverrunStep ==
    ASSUME TypeInv, [Next]_vars, NEW c \in Cores, overrun'[c], ~overrun[c]
    PROVE  roomInITCPrintQ(c) < 2 /\ Len(lines'[c]) > Len(lines[c])
<1>1. PICK d \in Cores, t \in NlsTexts : NlsPrint(d, t)
  <2>1. CASE Write
    <3>1. PICK d \in Cores : \/ \E w \in Words : PrintWord(d, w)
                             \/ \E t \in NlsTexts : NlsPrint(d, t)
      BY <2>1 DEF Write
    <3>2. ASSUME NEW w \in Words, PrintWord(d, w) PROVE FALSE
      <4>1. overrun' = overrun
        <5>1. CASE Linked(d).ok
          <6>1. \E b \in Buffer, s \in Nat : Wrote(d, w, b, s)
            BY <3>2, <5>1, PrintWordIs
          <6> QED
            BY <6>1 DEF Wrote
        <5>2. CASE ~Linked(d).ok
          BY <3>2, <5>2, Zenon DEF PrintWord, Linked, Working, Fresh
        <5> QED
          BY <5>1, <5>2
      <4> QED
        BY <4>1
    <3> QED
      BY <3>1, <3>2
  <2>2. CASE Read
    BY <2>2 DEF Read
  <2>3. CASE UNCHANGED vars
    BY <2>3 DEF vars
  <2> QED
    BY <2>1, <2>2, <2>3 DEF Next
<1>2. NlsLinked(d).ok
  <2> SUFFICES ASSUME ~NlsLinked(d).ok PROVE FALSE
    OBVIOUS
  <2>1. overrun' = overrun
    BY <1>1, Zenon DEF NlsPrint, NlsLinked, NlsHeap, Ending
  <2> QED
    BY <2>1
<1>3. PICK b \in Buffer : Sent(d, t, b)
  BY <1>1, <1>2, NlsPrintIs
<1>4. d = c /\ (Ended(c).room < 0 \/ b.room < 0)
  <2>1. overrun \in [Cores -> BOOLEAN]
    BY DEF TypeInv, TypeOK
  <2>2. overrun' = [overrun EXCEPT ![d] = overrun[d] \/ (Ended(d).room < 0 \/ b.room < 0)]
    BY <1>3 DEF Sent
  <2> QED
    BY <2>1, <2>2, Zenon
<1>5. /\ Ended(c) \in Buffer /\ Roomed(c) \in Buffer /\ t \in Text /\ NlsText(c, t) \in Buffer
      /\ Ended(c).room = roomInITCPrintQ(c) - (IF Ending(c) THEN 1 ELSE 0)
  <2>1. t \in Text
    BY ITCPrintAssumption DEF Text
  <2> QED
    BY <2>1, NlsBufferType
<1>6. b.room = NlsText(c, t).room - 1
  <2>1. Nul \in Chars
    BY ITCPrintAssumption
  <2>2. Put(NlsText(c, t), Nul) \in Buffer /\ Put(NlsText(c, t), Nul).room = NlsText(c, t).room - 1
    BY <1>5, <2>1, PutType
  <2>3. b = [Put(NlsText(c, t), Nul) EXCEPT !.msgs = @ + 1]
    BY <1>3, <1>4 DEF Sent
  <2> QED
    BY <2>2, <2>3 DEF Buffer
<1>7. roomInITCPrintQ(c) < 2
  <2>0. roomInITCPrintQ(c) \in Int
    BY BufferOfType DEF TypeInv
  <2> SUFFICES ASSUME roomInITCPrintQ(c) >= 2 PROVE FALSE
    BY <2>0
  <2>1. Ended(c).room >= 1
    BY <1>5, <2>0
  <2>2. Roomed(c).room >= 1
    <3>1. Ended(c).room >= 0
      BY <1>5, <2>1 DEF Buffer
    <3> QED
      BY <2>1, <3>1, RoomedIs
  <2>3. NlsText(c, t).room >= 1
    BY <1>5, <2>2, PutNlsRoomy DEF NlsText
  <2>4. Ended(c).room \in Int /\ NlsText(c, t).room \in Int
    BY <1>5 DEF Buffer
  <2> QED
    BY <1>4, <1>6, <2>1, <2>3, <2>4
<1>8. Len(lines'[c]) > Len(lines[c])
  <2> DEFINE line == [text |-> b.accepted, start |-> time, end |-> time]
  <2>1. lines \in [Cores -> Seq(Line)] /\ current[c] \in Line
    BY DEF TypeInv, TypeOK
  <2>2. lines'[c] = Append(NlsDone(c), line)
    BY <1>3, <1>4, <2>1 DEF Sent
  <2> HIDE DEF line
  <2>3. IsSequence(lines[c]) /\ Len(lines[c]) \in Nat
    BY <2>1, LenProperties DEF IsSequence
  <2>4. IsSequence(NlsDone(c)) /\ Len(NlsDone(c)) >= Len(lines[c]) /\ Len(NlsDone(c)) \in Nat
    <3>1. /\ IsSequence(Append(lines[c], current[c]))
          /\ Len(Append(lines[c], current[c])) = Len(lines[c]) + 1
      BY <2>3, AppendToSeq
    <3> QED
      BY <2>3, <3>1 DEF NlsDone
  <2>5. Len(Append(NlsDone(c), line)) = Len(NlsDone(c)) + 1
    BY <2>4, AppendToSeq
  <2> QED
    BY <2>2, <2>3, <2>4, <2>5
<1> QED
  BY <1>7, <1>8

\* Only a no-load string overruns what has not been read: print() checks the room for
\* every character but the terminators of a no-load string.
THEOREM OverrunOnlyByNlsHolds == Spec => OverrunOnlyByNls
<1>1. TypeInv /\ [Next]_vars
      => [\A c \in Cores : overrun'[c] /\ ~overrun[c] =>
             roomInITCPrintQ(c) < 2 /\ Len(lines'[c]) > Len(lines[c])]_vars
  BY OverrunStep
<1> QED
  BY <1>1, InitType, NextType, PTL DEF Spec, OverrunOnlyByNls

-----------------------------------------------------------------------------
(* The lists.                                                              *)

\* A list is made of nodes.
LEMMA HeldNodes ==
    ASSUME NEW h, NEW n, NEW ls, NEW cur, NEW k, Shape(h, n, ls, cur, k)
    PROVE  Held(h, n) \subseteq DOMAIN h
  BY DEF Shape, NoNode, InProgress, OneDone, TwoDone, Alone, Held

\* A list stays as it is if its nodes do.
LEMMA ShapeFrame ==
    ASSUME NEW h, NEW g, NEW n, NEW ls, NEW cur, NEW k, Shape(h, n, ls, cur, k),
           0 \notin DOMAIN h, \A j \in Held(h, n) : j \in DOMAIN g /\ g[j] = h[j]
    PROVE  Shape(g, n, ls, cur, k) /\ Held(g, n) = Held(h, n)
<1>1. CASE NoNode(n, ls, cur, k)
  BY <1>1 DEF Shape, NoNode, Held
<1>2. CASE ~NoNode(n, ls, cur, k)
  <2>1. n \in DOMAIN h
    BY <1>2 DEF Shape, InProgress, OneDone, TwoDone, Alone
  <2>3. CASE n # 0
    <3>1. n \in DOMAIN g /\ g[n] = h[n] /\ h[n].prev \in DOMAIN g /\ g[h[n].prev] = h[h[n].prev]
      BY <2>3 DEF Held
    <3>2. Held(g, n) = Held(h, n)
      BY <2>3, <3>1, Zenon DEF Held
    <3>3. InProgress(h, n, ls, cur, k) => InProgress(g, n, ls, cur, k)
      BY <3>1, Zenon DEF InProgress, Alone, Stamped
    <3>4. OneDone(h, n, ls, cur, k) => OneDone(g, n, ls, cur, k)
      BY <3>1, Zenon DEF OneDone, Alone, Stamped
    <3>5. TwoDone(h, n, ls, cur, k) => TwoDone(g, n, ls, cur, k)
      BY <3>1, Zenon DEF TwoDone, Stamped
    <3> QED
      BY <1>2, <3>2, <3>3, <3>4, <3>5 DEF Shape
  <2> QED
    BY <2>1, <2>3
<1> QED
  BY <1>1, <1>2

\* How a write gets the node n it works on: from the free list, a new one, or its own.
Allocated(c, n) ==
    \/ n = freeList /\ n # 0 /\ freeList' = heap[n].next
    \/ freeList = 0 /\ freeList' = 0 /\ n = Len(heap) + 1
    \/ n = tsList[c] /\ n # 0 /\ freeList' = freeList

\* A write to core c touches the nodes of its list, and n, and nothing else.
LEMMA ListsAfterWrite ==
    ASSUME TypeInv, ListsInv, NEW c \in Cores, NEW n, Allocated(c, n),
           Heap(heap'), Len(heap) <= Len(heap'),
           \A j \in 1..Len(heap) : j \notin Held(heap, tsList[c]) \cup {n} => heap'[j] = heap[j],
           tsList' = [tsList EXCEPT ![c] = n],
           \A d \in Cores : d # c => /\ lines'[d] = lines[d] /\ current'[d] = current[d]
                                     /\ numMsgs'[d] = numMsgs[d],
           Held(heap', n) \subseteq Held(heap, tsList[c]) \cup {n},
           Shape(heap', n, lines'[c], current'[c], numMsgs'[c])
    PROVE  ListsInv'
<1> DEFINE H(d) == Held(heap, tsList[d])
           G(d) == Held(heap', tsList'[d])
<1>1. /\ Len(heap) \in Nat /\ DOMAIN heap = 1..Len(heap) /\ DOMAIN heap' = 1..Len(heap')
      /\ Len(heap') \in Nat /\ tsList \in [Cores -> 0..Len(heap)]
  BY DEF TypeInv, TypeOK, Heap
<1>2. PICK F : Free(heap, freeList, F) /\ \A d \in Cores : H(d) \cap F = {}
  BY DEF ListsInv
<1>3. \A d \in Cores : H(d) \subseteq 1..Len(heap)
  <2> TAKE d \in Cores
  <2>1. Shape(heap, tsList[d], lines[d], current[d], numMsgs[d])
    BY DEF ListsInv
  <2> QED
    BY <1>1, <2>1, HeldNodes
<1>4. \A d, e \in Cores : d # e => H(d) \cap H(e) = {}
  BY DEF ListsInv
<1>5. n \in F \/ n = Len(heap) + 1 \/ n \in H(c)
  BY <1>2 DEF Allocated, Free, Held
<1>6. \A d \in Cores : d # c => n \notin H(d)
  BY <1>1, <1>2, <1>3, <1>4, <1>5
<1> HIDE DEF H
<1>7. \A d \in Cores : d # c => \A j \in H(d) : j \in 1..Len(heap') /\ heap'[j] = heap[j]
  <2> SUFFICES ASSUME NEW d \in Cores, d # c, NEW j \in H(d)
               PROVE  j \in 1..Len(heap') /\ heap'[j] = heap[j]
    OBVIOUS
  <2>1. j \in 1..Len(heap) /\ j # n /\ j \notin H(c)
    BY <1>3, <1>4, <1>6
  <2>2. j \in 1..Len(heap')
    BY <1>1, <2>1
  <2>3. j \notin Held(heap, tsList[c]) \cup {n}
    BY <2>1 DEF H
  <2> QED
    BY <2>1, <2>2, <2>3
<1>8. tsList'[c] = n /\ \A d \in Cores : d # c => tsList'[d] = tsList[d]
  BY <1>1
<1>9. \A d \in Cores : d # c => /\ Shape(heap', tsList'[d], lines'[d], current'[d], numMsgs'[d])
                                /\ G(d) = H(d)
  <2> SUFFICES ASSUME NEW d \in Cores, d # c
               PROVE  /\ Shape(heap', tsList'[d], lines'[d], current'[d], numMsgs'[d])
                      /\ G(d) = H(d)
    OBVIOUS
  <2>1. Shape(heap, tsList[d], lines[d], current[d], numMsgs[d])
    BY DEF ListsInv
  <2>2. PICK h, g, m, ls, cur, k : /\ h = heap /\ g = heap' /\ m = tsList[d] /\ ls = lines[d]
                                    /\ cur = current[d] /\ k = numMsgs[d]
    OBVIOUS
  <2>3. Shape(h, m, ls, cur, k)
    BY <2>1, <2>2
  <2>4. 0 \notin DOMAIN h /\ \A j \in Held(h, m) : j \in DOMAIN g /\ g[j] = h[j]
    BY <1>1, <1>7, <2>2 DEF H
  <2>5. Shape(g, m, ls, cur, k)
    BY <2>3, <2>4, ShapeFrame
  <2>6. Held(g, m) = Held(h, m)
    BY <2>3, <2>4, ShapeFrame
  <2> QED
    BY <1>8, <2>2, <2>5, <2>6 DEF H
<1>10. G(c) \subseteq H(c) \cup {n}
  BY <1>8 DEF H
<1>11. \A d, e \in Cores : d # e => G(d) \cap G(e) = {}
  <2> SUFFICES ASSUME NEW d \in Cores, NEW e \in Cores, d # e
               PROVE  G(d) \cap G(e) = {}
    OBVIOUS
  <2>1. CASE d # c /\ e # c
    BY <1>4, <1>9, <2>1
  <2>2. CASE d = c
    BY <1>4, <1>6, <1>9, <1>10, <2>2
  <2>3. CASE e = c
    BY <1>4, <1>6, <1>9, <1>10, <2>3
  <2> QED
    BY <2>1, <2>2, <2>3
<1> HIDE DEF G
<1>12. Free(heap', freeList', F \ {n})
  <2>1. \A x \in F : x \in 1..Len(heap) /\ x \notin H(c) /\ x # 0
    BY <1>1, <1>2 DEF Free
  <2>2. \A x \in F \ {n} : x \in 1..Len(heap') /\ heap'[x] = heap[x]
    BY <1>1, <2>1 DEF H
  <2>3. F \ {n} \subseteq DOMAIN heap'
    BY <1>1, <2>2
  <2>4. freeList' \in (F \ {n}) \cup {0}
    BY <1>1, <1>2, <1>3, <1>5, <2>1 DEF Free, Allocated, H, Held
  <2>5. \A x \in F \ {n} : heap'[x].next \in (F \ {n}) \cup {0}
    <3> SUFFICES ASSUME NEW x \in F \ {n} PROVE heap[x].next \in (F \ {n}) \cup {0}
      BY <2>2
    <3>1. heap[x].next \in F \cup {0} /\ (heap[x].next # 0 => heap[x].next # freeList)
      BY <1>2 DEF Free
    <3>2. n = freeList \/ n \notin F
      <4>1. n = Len(heap) + 1 => n \notin F
        BY <1>1, <2>1
      <4>2. n \in H(c) => n \notin F
        BY <2>1
      <4>3. n = tsList[c] /\ n # 0 => n \in H(c)
        BY DEF H, Held
      <4> QED
        BY <4>1, <4>2, <4>3 DEF Allocated
    <3> QED
      BY <3>1, <3>2
  <2>6. \A x \in F \ {n} : heap'[x].next # 0 => heap'[x].next # freeList'
    <3> SUFFICES ASSUME NEW x \in F \ {n}, heap[x].next # 0 PROVE heap[x].next # freeList'
      BY <2>2
    <3>1. CASE n = freeList /\ n # 0 /\ freeList' = heap[n].next
      <4>1. n \in F
        BY <1>2, <3>1 DEF Free
      <4> QED
        BY <1>2, <3>1, <4>1 DEF Free
    <3>2. CASE freeList' = 0
      BY <3>2
    <3>3. CASE freeList' = freeList
      BY <1>2, <3>3 DEF Free
    <3> QED
      BY <3>1, <3>2, <3>3 DEF Allocated
  <2>7. \A x, y \in F \ {n} : heap'[x].next = heap'[y].next /\ heap'[x].next # 0 => x = y
    BY <1>2, <2>2 DEF Free
  <2> QED
    BY <2>3, <2>4, <2>5, <2>6, <2>7 DEF Free
<1>13. \A d \in Cores : G(d) \cap (F \ {n}) = {}
  BY <1>2, <1>9, <1>10
<1>14. \A d \in Cores : Shape(heap', tsList'[d], lines'[d], current'[d], numMsgs'[d])
  BY <1>8, <1>9
<1> QED
  BY <1>11, <1>12, <1>13, <1>14 DEF ListsInv, G

\* A read from core c frees a node of its list, and touches no other list.
LEMMA ListsAfterRead ==
    ASSUME TypeInv, ListsInv, NEW c \in Cores, NEW tsl \in Held(heap, tsList[c]), NEW m,
           Heap(heap'), Len(heap') = Len(heap), freeList' = tsl, heap'[tsl].next = freeList,
           \A j \in 1..Len(heap) : j \notin Held(heap, tsList[c]) => heap'[j] = heap[j],
           tsList' = [tsList EXCEPT ![c] = m],
           \A d \in Cores : d # c => /\ lines'[d] = lines[d] /\ current'[d] = current[d]
                                     /\ numMsgs'[d] = numMsgs[d],
           Held(heap', m) \subseteq Held(heap, tsList[c]) \ {tsl},
           Shape(heap', m, lines'[c], current'[c], numMsgs'[c])
    PROVE  ListsInv'
<1> DEFINE H(d) == Held(heap, tsList[d])
           G(d) == Held(heap', tsList'[d])
<1>1. /\ Len(heap) \in Nat /\ DOMAIN heap = 1..Len(heap) /\ DOMAIN heap' = 1..Len(heap')
      /\ Len(heap') \in Nat /\ tsList \in [Cores -> 0..Len(heap)]
  BY DEF TypeInv, TypeOK, Heap
<1>2. PICK F : Free(heap, freeList, F) /\ \A d \in Cores : H(d) \cap F = {}
  BY DEF ListsInv
<1>3. \A d \in Cores : H(d) \subseteq 1..Len(heap)
  <2> TAKE d \in Cores
  <2>1. Shape(heap, tsList[d], lines[d], current[d], numMsgs[d])
    BY DEF ListsInv
  <2> QED
    BY <1>1, <2>1, HeldNodes
<1>4. \A d, e \in Cores : d # e => H(d) \cap H(e) = {}
  BY DEF ListsInv
<1>5. tsl \in H(c)
  OBVIOUS
<1>6. tsl \notin F /\ \A d \in Cores : d # c => tsl \notin H(d)
  BY <1>2, <1>4, <1>5
<1> HIDE DEF H
<1>7. \A d \in Cores : d # c => \A j \in H(d) : j \in 1..Len(heap') /\ heap'[j] = heap[j]
  <2> SUFFICES ASSUME NEW d \in Cores, d # c, NEW j \in H(d)
               PROVE  j \in 1..Len(heap') /\ heap'[j] = heap[j]
    OBVIOUS
  <2>1. j \in 1..Len(heap) /\ j \notin H(c)
    BY <1>3, <1>4
  <2>2. j \notin Held(heap, tsList[c])
    BY <2>1 DEF H
  <2> QED
    BY <2>1, <2>2
<1>8. tsList'[c] = m /\ \A d \in Cores : d # c => tsList'[d] = tsList[d]
  BY <1>1
<1>9. \A d \in Cores : d # c => /\ Shape(heap', tsList'[d], lines'[d], current'[d], numMsgs'[d])
                                /\ G(d) = H(d)
  <2> SUFFICES ASSUME NEW d \in Cores, d # c
               PROVE  /\ Shape(heap', tsList'[d], lines'[d], current'[d], numMsgs'[d])
                      /\ G(d) = H(d)
    OBVIOUS
  <2>1. Shape(heap, tsList[d], lines[d], current[d], numMsgs[d])
    BY DEF ListsInv
  <2>2. PICK h, g, o, ls, cur, k : /\ h = heap /\ g = heap' /\ o = tsList[d] /\ ls = lines[d]
                                    /\ cur = current[d] /\ k = numMsgs[d]
    OBVIOUS
  <2>3. Shape(h, o, ls, cur, k)
    BY <2>1, <2>2
  <2>4. 0 \notin DOMAIN h /\ \A j \in Held(h, o) : j \in DOMAIN g /\ g[j] = h[j]
    BY <1>1, <1>7, <2>2 DEF H
  <2>5. Shape(g, o, ls, cur, k)
    BY <2>3, <2>4, ShapeFrame
  <2>6. Held(g, o) = Held(h, o)
    BY <2>3, <2>4, ShapeFrame
  <2> QED
    BY <1>8, <2>2, <2>5, <2>6 DEF H
<1>10. G(c) \subseteq H(c) \ {tsl}
  BY <1>8 DEF H
<1>11. \A d, e \in Cores : d # e => G(d) \cap G(e) = {}
  <2> SUFFICES ASSUME NEW d \in Cores, NEW e \in Cores, d # e
               PROVE  G(d) \cap G(e) = {}
    OBVIOUS
  <2>1. CASE d # c /\ e # c
    BY <1>4, <1>9, <2>1
  <2>2. CASE d = c
    BY <1>4, <1>9, <1>10, <2>2
  <2>3. CASE e = c
    BY <1>4, <1>9, <1>10, <2>3
  <2> QED
    BY <2>1, <2>2, <2>3
<1> HIDE DEF G
<1>12. Free(heap', freeList', F \cup {tsl})
  <2>1. \A x \in F : x \in 1..Len(heap) /\ x \notin H(c) /\ x # tsl
    BY <1>1, <1>2, <1>6 DEF Free
  <2>2. \A x \in F : heap'[x] = heap[x]
    BY <2>1 DEF H
  <2>3. F \cup {tsl} \subseteq DOMAIN heap'
    BY <1>1, <1>3, <1>5, <2>1
  <2>4. freeList \in F \cup {0} /\ tsl \notin F /\ tsl # 0
    BY <1>1, <1>2, <1>3, <1>5, <1>6 DEF Free
  <2>5. \A x \in F \cup {tsl} : heap'[x].next \in F \cup {0}
    BY <1>2, <2>2, <2>4 DEF Free
  <2>6. \A x \in F \cup {tsl} : heap'[x].next # 0 => heap'[x].next # tsl
    BY <2>4, <2>5
  <2>7. \A x, y \in F \cup {tsl} : heap'[x].next = heap'[y].next /\ heap'[x].next # 0 => x = y
    <3> SUFFICES ASSUME NEW x \in F \cup {tsl}, NEW y \in F \cup {tsl},
                        heap'[x].next = heap'[y].next, heap'[x].next # 0
                 PROVE  x = y
      OBVIOUS
    <3>1. CASE x \in F /\ y \in F
      BY <1>2, <2>2, <3>1 DEF Free
    <3>2. CASE x = tsl /\ y \in F
      BY <1>2, <2>2, <3>2 DEF Free
    <3>3. CASE y = tsl /\ x \in F
      BY <1>2, <2>2, <3>3 DEF Free
    <3> QED
      BY <3>1, <3>2, <3>3
  <2> QED
    BY <2>3, <2>4, <2>5, <2>6, <2>7 DEF Free
<1>13. \A d \in Cores : G(d) \cap (F \cup {tsl}) = {}
  BY <1>2, <1>6, <1>9, <1>10
<1>14. \A d \in Cores : Shape(heap', tsList'[d], lines'[d], current'[d], numMsgs'[d])
  BY <1>8, <1>9
<1> QED
  BY <1>11, <1>12, <1>13, <1>14 DEF ListsInv, G

\* The first node of a list points to itself.
LEMMA LinkFirst ==
    ASSUME NEW h, Heap(h), NEW n \in 1..Len(h)
    PROVE  LET g == LinkTsList(h, n, 0)
           IN  /\ g.ok /\ g.heap[n].next = n /\ g.heap[n].prev = n
               /\ \A j \in 1..Len(h) : j # n => g.heap[j] = h[j]
<1>1. h \in [1..Len(h) -> Cells(Len(h))]
  BY DEF Heap
<1>2. h[n] \in Cells(Len(h))
  BY <1>1
<1>3. LinkTsList(h, n, 0) = [heap |-> [h EXCEPT ![n].next = n, ![n].prev = n], ok |-> TRUE]
  BY DEF LinkTsList
<1> DEFINE g == [h EXCEPT ![n].next = n, ![n].prev = n]
<1>4. g[n].next = n /\ g[n].prev = n /\ \A j \in 1..Len(h) : j # n => g[j] = h[j]
  BY <1>1, <1>2 DEF Cells
<1> HIDE DEF g
<1>5. LinkTsList(h, n, 0) = [heap |-> g, ok |-> TRUE]
  BY <1>3 DEF g
<1>6. LinkTsList(h, n, 0).heap = g
  BY <1>5
<1>7. LinkTsList(h, n, 0).ok
  BY <1>5
<1> QED
  BY <1>4, <1>6, <1>7, Zenon

\* The second node and the first point to each other.
Paired(g, h, n, tlp) ==
    /\ g.ok /\ g.heap[n].next = tlp /\ g.heap[n].prev = tlp
    /\ g.heap[tlp] = [h[tlp] EXCEPT !.prev = n, !.next = n]
    /\ \A j \in 1..Len(h) : j # n /\ j # tlp => g.heap[j] = h[j]
LEMMA LinkSecond ==
    ASSUME NEW h, Heap(h), NEW n \in 1..Len(h), NEW tlp \in 1..Len(h), tlp # n, h[tlp].prev = tlp
    PROVE  Paired(LinkTsList(h, n, tlp), h, n, tlp)
<1> DEFINE h1 == [h EXCEPT ![n].next = tlp]
           h2 == [h1 EXCEPT ![n].prev = h1[tlp].prev]
           h3 == [h2 EXCEPT ![tlp].prev = n]
           p  == h3[n].prev
           h4 == [h3 EXCEPT ![p].next = n]
<1>0. Len(h) \in Nat /\ h \in [1..Len(h) -> Cells(Len(h))] /\ tlp # 0
  BY DEF Heap
<1>1. h[n] \in Cells(Len(h)) /\ h[tlp] \in Cells(Len(h))
  BY <1>0
<1>2. /\ DOMAIN h1 = 1..Len(h) /\ h1[n] = [h[n] EXCEPT !.next = tlp]
      /\ \A j \in 1..Len(h) : j # n => h1[j] = h[j]
  BY <1>0
<1>3. h1[tlp].prev = tlp
  BY <1>2
<1> HIDE DEF h1
<1>4. /\ DOMAIN h2 = 1..Len(h) /\ h2[n] = [h1[n] EXCEPT !.prev = tlp]
      /\ \A j \in 1..Len(h) : j # n => h2[j] = h[j]
  BY <1>2, <1>3
<1> HIDE DEF h2
<1>5. h2[n].next = tlp /\ h2[n].prev = tlp
  BY <1>1, <1>2, <1>4 DEF Cells
<1>6. /\ DOMAIN h3 = 1..Len(h) /\ h3[tlp] = [h[tlp] EXCEPT !.prev = n] /\ h3[n] = h2[n]
      /\ \A j \in 1..Len(h) : j # n /\ j # tlp => h3[j] = h[j]
  BY <1>4
<1> HIDE DEF h3
<1>7. p = tlp
  BY <1>5, <1>6
<1> HIDE DEF p
<1>8. /\ h4[tlp] = [[h[tlp] EXCEPT !.prev = n] EXCEPT !.next = n] /\ h4[n] = h2[n]
      /\ \A j \in 1..Len(h) : j # n /\ j # tlp => h4[j] = h[j]
  BY <1>6, <1>7
<1> HIDE DEF h4
<1>9. LinkTsList(h, n, tlp) = IF p = 0 THEN [heap |-> h3, ok |-> FALSE]
                              ELSE [heap |-> h4, ok |-> TRUE]
  BY <1>0 DEF LinkTsList, h1, h2, h3, h4, p
<1>10. LinkTsList(h, n, tlp) = [heap |-> h4, ok |-> TRUE]
  BY <1>0, <1>7, <1>9
<1>11. h4[tlp] = [h[tlp] EXCEPT !.prev = n, !.next = n]
  BY <1>1, <1>8 DEF Cells
<1> QED
  BY <1>5, <1>8, <1>10, <1>11 DEF Paired

-----------------------------------------------------------------------------
(* The ring.                                                               *)

\* The buffer of a call holds s, and its room is what s leaves.
Keeps(b, out, s) == b.room = BuffSize - 1 - Len(s) /\ Rings(b.mem, out, b.in, s)

\* Places of the ring are indices, and different for different distances.
LEMMA SlotType ==
    ASSUME NEW out \in Index, NEW i \in 0..BuffSize
    PROVE  /\ Slot(out, i) \in Index
           /\ i < BuffSize => \A j \in 0..(BuffSize - 1) : Slot(out, j) = Slot(out, i) => j = i
<1>1. BuffSize \in Nat \ {0}
  BY ITCPrintAssumption
<1> QED
  BY <1>1 DEF Slot, Index

\* The place after a place.
LEMMA SlotNext ==
    ASSUME NEW out \in Index, NEW i \in 0..(BuffSize - 1)
    PROVE  Advance(Slot(out, i)) = Slot(out, i + 1)
<1>1. BuffSize \in Nat \ {0}
  BY ITCPrintAssumption
<1> QED
  BY <1>1 DEF Slot, Index, Advance

\* Distances add up.
LEMMA SlotSum ==
    ASSUME NEW out \in Index, NEW i \in 0..BuffSize, NEW j \in 0..BuffSize, i + j <= BuffSize
    PROVE  Slot(Slot(out, i), j) = Slot(out, i + j)
<1>1. BuffSize \in Nat \ {0}
  BY ITCPrintAssumption
<1> QED
  BY <1>1 DEF Slot, Index

\* Places are remainders.
LEMMA SlotMod ==
    ASSUME NEW out \in Index, NEW i \in 0..BuffSize
    PROVE  (out + i) % BuffSize = Slot(out, i)
<1>1. BuffSize \in Nat \ {0}
  BY ITCPrintAssumption
<1>2. CASE out + i >= BuffSize
  <2>1. out + i - BuffSize \in 0..(BuffSize - 1) /\ out + i = BuffSize * 1 + (out + i - BuffSize)
    BY <1>1, <1>2 DEF Index
  <2>2. (BuffSize * 1 + (out + i - BuffSize)) % BuffSize = out + i - BuffSize
    BY <1>1, <2>1, BlockIs
  <2> QED
    BY <1>2, <2>1, <2>2 DEF Slot
<1>3. CASE ~(out + i >= BuffSize)
  <2>1. out + i \in 0..(BuffSize - 1) /\ out + i = BuffSize * 0 + (out + i)
    BY <1>1, <1>3 DEF Index
  <2>2. (BuffSize * 0 + (out + i)) % BuffSize = out + i
    BY <1>1, <2>1, BlockIs
  <2> QED
    BY <1>3, <2>1, <2>2 DEF Slot
<1> QED
  BY <1>2, <1>3

\* The room by the indices is what s leaves.
LEMMA RingRoom ==
    ASSUME NEW mem, NEW out \in Index, NEW in, NEW s \in Text, Rings(mem, out, in, s)
    PROVE  RoomBetween(in, out) = BuffSize - 1 - Len(s)
<1>1. BuffSize \in Nat \ {0} /\ Len(s) \in Nat /\ Len(s) < BuffSize /\ in = Slot(out, Len(s))
  BY ITCPrintAssumption, LenProperties DEF Rings, Text
<1> QED
  BY <1>1 DEF RoomBetween, Slot, Index

\* Writing behind what a ring holds does not change it.
LEMMA RingBehind ==
    ASSUME NEW mem \in Mem, NEW out \in Index, NEW in, NEW s \in Text, Rings(mem, out, in, s),
           NEW ch \in Chars
    PROVE  Rings([mem EXCEPT ![in] = ch], out, in, s) /\ [mem EXCEPT ![in] = ch][in] = ch
<1>1. BuffSize \in Nat \ {0} /\ Len(s) \in Nat /\ Len(s) < BuffSize /\ in = Slot(out, Len(s))
  BY ITCPrintAssumption, LenProperties DEF Rings, Text
<1>2. in \in Index
  BY <1>1, SlotType
<1> DEFINE m == [mem EXCEPT ![in] = ch]
<1>3. m[in] = ch /\ \A x \in Index : x # in => m[x] = mem[x]
  BY <1>2 DEF Mem
<1> HIDE DEF m
<1>4. ASSUME NEW i \in 1..Len(s) PROVE m[Slot(out, i - 1)] = s[i]
  <2>1. i - 1 \in 0..BuffSize /\ i - 1 \in 0..(BuffSize - 1) /\ i - 1 # Len(s)
    BY <1>1
  <2>2. Slot(out, i - 1) \in Index
    BY <2>1, SlotType
  <2>3. Slot(out, i - 1) # in
    <3>1. Len(s) \in 0..BuffSize
      BY <1>1
    <3>2. \A j \in 0..(BuffSize - 1) : Slot(out, j) = Slot(out, Len(s)) => j = Len(s)
      BY <1>1, <3>1, SlotType
    <3> QED
      BY <1>1, <2>1, <3>2
  <2>4. mem[Slot(out, i - 1)] = s[i]
    BY DEF Rings
  <2> QED
    BY <1>3, <2>2, <2>3, <2>4
<1> QED
  BY <1>1, <1>3, <1>4 DEF Rings, m

\* A character with room for it is added to what a buffer keeps.
LEMMA PutKeeps ==
    ASSUME NEW b \in Buffer, NEW out \in Index, NEW s \in Text, Keeps(b, out, s), b.room >= 1,
           NEW ch \in Chars
    PROVE  Keeps(Put(b, ch), out, Append(s, ch))
<1> DEFINE m == [b.mem EXCEPT ![b.in] = ch]
           t == Append(s, ch)
           n == Len(s)
<1>1. /\ b.mem \in Mem /\ b.in \in Index /\ b.room \in Int
  BY DEF Buffer
<1>2. BuffSize \in Nat \ {0} /\ n \in Nat /\ n + 1 < BuffSize /\ b.in = Slot(out, n)
  BY <1>1, ITCPrintAssumption, LenProperties DEF Keeps, Rings, Text
<1>3. t \in Text /\ Len(t) = n + 1 /\ t[n + 1] = ch /\ \A i \in 1..n : t[i] = s[i]
  BY AppendProperties DEF Text
<1> HIDE DEF t
<1>4. Rings(m, out, b.in, s) /\ m[b.in] = ch
  BY <1>1, RingBehind DEF Keeps
<1> HIDE DEF m
<1>5. /\ Put(b, ch).mem = m /\ Put(b, ch).in = Advance(b.in) /\ Put(b, ch).room = b.room - 1
  BY DEF Put, m, Buffer
<1>6. Advance(b.in) = Slot(out, n + 1)
  <2>1. n \in 0..(BuffSize - 1)
    BY <1>2
  <2> QED
    BY <1>2, <2>1, SlotNext
<1>7. ASSUME NEW i \in 1..(n + 1) PROVE m[Slot(out, i - 1)] = t[i]
  <2>1. CASE i = n + 1
    <3>1. i - 1 = n
      BY <1>2, <2>1
    <3> QED
      BY <1>2, <1>3, <1>4, <2>1, <3>1
  <2>2. CASE i # n + 1
    <3>1. i \in 1..n
      BY <1>2, <2>2
    <3> QED
      BY <1>3, <1>4, <3>1 DEF Rings
  <2> QED
    BY <2>1, <2>2
<1>8. Rings(m, out, Advance(b.in), t)
  BY <1>2, <1>3, <1>6, <1>7 DEF Rings
<1>9. b.room - 1 = BuffSize - 1 - Len(t)
  BY <1>2, <1>3 DEF Keeps
<1> QED
  BY <1>5, <1>8, <1>9 DEF Keeps, t

\* A buffer that keeps what was there and the text accepted since, none of it a terminator.
Accepts(b, out, s) == Clean(b.accepted) /\ Keeps(b, out, s \o b.accepted)

\* Appending a character that is no terminator.
LEMMA CleanAppend ==
    ASSUME NEW t \in Text, Clean(t), NEW ch \in Chars, ch # Nul
    PROVE  Clean(Append(t, ch))
<1>1. Len(t) \in Nat /\ Len(Append(t, ch)) = Len(t) + 1 /\ Append(t, ch)[Len(t) + 1] = ch
  BY AppendProperties, LenProperties DEF Text
<1>2. \A i \in 1..Len(t) : Append(t, ch)[i] = t[i]
  BY AppendProperties DEF Text
<1>3. \A i \in 1..(Len(t) + 1) : i \in 1..Len(t) \/ i = Len(t) + 1
  BY <1>1
<1> QED
  BY <1>1, <1>2, <1>3 DEF Clean

\* What is kept and a text that is longer by a character.
LEMMA KeptAppend ==
    ASSUME NEW s \in Text, NEW t \in Text, NEW ch
    PROVE  s \o Append(t, ch) = Append(s \o t, ch) /\ s \o t \in Text
<1>1. IsSequence(s) /\ IsSequence(t)
  BY DEF IsSequence, Text
<1>2. s \o Append(t, ch) = Append(s \o t, ch)
  BY <1>1, ConcatAppend
<1>3. s \o t \in Text
  BY ConcatProperties DEF Text
<1> QED
  BY <1>2, <1>3

\* A character that is stored and accepted.
Stored(r, b, ch, out, s) ==
    /\ r \in Buffer /\ r.room = b.room - 1 /\ r.done = b.done /\ r.msgs = b.msgs
    /\ r.accepted = Append(b.accepted, ch)
    /\ Accepts(b, out, s) => Keeps(r, out, s \o r.accepted)
LEMMA StoreAccepts ==
    ASSUME NEW b \in Buffer, NEW out \in Index, NEW s \in Text, NEW ch \in Chars, b.room >= 2, NEW r,
           r = [Put(b, ch) EXCEPT !.accepted = Append(@, ch)]
    PROVE  Stored(r, b, ch, out, s)
<1> DEFINE p == Put(b, ch)
<1>1. /\ p \in Buffer /\ p.room = b.room - 1 /\ p.msgs = b.msgs /\ p.accepted = b.accepted
  BY PutType
<1>2. p.done = b.done
  BY DEF Put, Buffer
<1>3. Accepts(b, out, s) => Keeps(p, out, Append(s \o b.accepted, ch))
  <2> SUFFICES ASSUME Accepts(b, out, s) PROVE Keeps(p, out, Append(s \o b.accepted, ch))
    OBVIOUS
  <2>1. b.accepted \in Text /\ b.room \in Int
    BY DEF Buffer
  <2>2. PICK x \in Text : x = s \o b.accepted
    BY <2>1, KeptAppend
  <2>3. Keeps(b, out, x) /\ b.room >= 1
    BY <2>1, <2>2 DEF Accepts
  <2>4. Keeps(p, out, Append(x, ch))
    BY <2>3, PutKeeps
  <2> QED
    BY <2>2, <2>4
<1> HIDE DEF p
<1>4. r = [p EXCEPT !.accepted = Append(p.accepted, ch)]
  BY DEF p
<1>5. p.accepted \in Text /\ Append(p.accepted, ch) \in Text
  <2>1. p.accepted \in Text
    BY <1>1 DEF Buffer
  <2> QED
    BY <2>1, AppendProperties DEF Text
<1>6. /\ r \in Buffer /\ r.room = p.room /\ r.done = p.done /\ r.msgs = p.msgs
      /\ r.accepted = Append(p.accepted, ch) /\ r.mem = p.mem /\ r.in = p.in
  BY <1>1, <1>4, <1>5 DEF Buffer
<1>7. s \o Append(b.accepted, ch) = Append(s \o b.accepted, ch)
  BY <1>1, <1>5, KeptAppend
<1>8. Accepts(b, out, s) => Keeps(r, out, s \o r.accepted)
  BY <1>1, <1>3, <1>6, <1>7 DEF Keeps
<1> QED
  BY <1>1, <1>2, <1>6, <1>8 DEF Stored

\* A character of a write that is no terminator.
LEMMA PutPlain ==
    ASSUME NEW b \in Buffer, NEW out \in Index, NEW s \in Text, NEW ch \in Chars, ch # Nul, ch # Eol
    PROVE  /\ PutChar(b, ch).done = b.done /\ PutChar(b, ch).msgs = b.msgs
           /\ Accepts(b, out, s) => Accepts(PutChar(b, ch), out, s)
<1>0. b.room \in Int /\ b.accepted \in Text
  BY DEF Buffer
<1>1. CASE b.room < 2
  <2>1. PutChar(b, ch) = b
    BY <1>1 DEF PutChar
  <2> QED
    BY <2>1
<1>2. CASE b.room >= 2
  <2>0. PICK r : r = [Put(b, ch) EXCEPT !.accepted = Append(@, ch)]
    OBVIOUS
  <2>1. PutChar(b, ch) = r
    BY <1>0, <1>2, <2>0 DEF PutChar
  <2>4. Stored(r, b, ch, out, s)
    BY <1>2, <2>0, StoreAccepts
  <2>2. /\ r.done = b.done /\ r.msgs = b.msgs /\ r.accepted = Append(b.accepted, ch)
        /\ Accepts(b, out, s) => Keeps(r, out, s \o r.accepted)
    BY <2>4 DEF Stored
  <2>3. Accepts(b, out, s) => Clean(r.accepted)
    BY <1>0, <2>2, CleanAppend DEF Accepts
  <2> QED
    BY <2>1, <2>2, <2>3 DEF Accepts
<1> QED
  BY <1>0, <1>1, <1>2

\* What a buffer keeps after a message that may have ended.
Closed(b, out, s) ==
    Clean(b.accepted) /\ Keeps(b, out, IF b.done THEN Append(s \o b.accepted, Nul) ELSE s \o b.accepted)

\* A terminator, which ends the message if it is stored.
LEMMA PutLast ==
    ASSUME NEW b \in Buffer, NEW out \in Index, NEW s \in Text, NEW ch \in {Nul, Eol}, ~b.done
    PROVE  /\ \/ PutChar(b, ch).done /\ PutChar(b, ch).msgs = b.msgs + 1
              \/ ~PutChar(b, ch).done /\ PutChar(b, ch).msgs = b.msgs
           /\ Accepts(b, out, s) => Closed(PutChar(b, ch), out, s)
<1>0. b.room \in Int /\ b.accepted \in Text /\ Nul \in Chars /\ Eol \in Chars /\ Nul # Eol
  BY ITCPrintAssumption DEF Buffer, Nul, Eol
<1>1. CASE b.room < 2
  <2>1. PutChar(b, ch) = b
    BY <1>1 DEF PutChar
  <2> QED
    BY <2>1 DEF Accepts, Closed
<1>2. CASE b.room >= 2 /\ ch = Nul
  <2> DEFINE p == Put(b, Nul)
             q == [p EXCEPT !.accepted = p.accepted]
             d == [q EXCEPT !.msgs = @ + 1, !.done = TRUE]
  <2>1. p \in Buffer /\ p.room = b.room - 1 /\ p.msgs = b.msgs /\ p.accepted = b.accepted
    BY <1>0, PutType
  <2>2. q = p
    BY <2>1 DEF Buffer
  <2>3. PutChar(b, ch) = d
    BY <1>0, <1>2 DEF PutChar
  <2>4. Accepts(b, out, s) => Keeps(p, out, Append(s \o b.accepted, Nul))
    <3> SUFFICES ASSUME Accepts(b, out, s) PROVE Keeps(p, out, Append(s \o b.accepted, Nul))
      OBVIOUS
    <3>1. PICK x \in Text : x = s \o b.accepted
      BY <1>0, KeptAppend
    <3>2. Keeps(b, out, x) /\ b.room >= 1
      BY <1>0, <1>2, <3>1 DEF Accepts
    <3>3. Keeps(p, out, Append(x, Nul))
      BY <1>0, <3>2, PutKeeps
    <3> QED
      BY <3>1, <3>3
  <2> HIDE DEF p, q
  <2>5. /\ d.room = p.room /\ d.msgs = p.msgs + 1 /\ d.done
        /\ d.accepted = p.accepted /\ d.mem = p.mem /\ d.in = p.in
    BY <2>1, <2>2, DoneType
  <2> HIDE DEF d
  <2> QED
    BY <2>1, <2>3, <2>4, <2>5 DEF Accepts, Closed, Keeps
<1>3. CASE b.room >= 2 /\ ch = Eol
  <2>0. PICK r : r = [Put(b, Eol) EXCEPT !.accepted = Append(@, Eol)]
    OBVIOUS
  <2> DEFINE p == Put(r, Nul)
             d == [p EXCEPT !.msgs = @ + 1, !.done = TRUE]
  <2>1. PutChar(b, ch) = d
    BY <1>0, <1>3, <2>0 DEF PutChar, Nul, Eol
  <2>7. Stored(r, b, Eol, out, s)
    BY <1>0, <1>3, <2>0, StoreAccepts
  <2>2. /\ r \in Buffer /\ r.room = b.room - 1 /\ r.msgs = b.msgs /\ r.accepted = Append(b.accepted, Eol)
        /\ Accepts(b, out, s) => Keeps(r, out, s \o r.accepted)
    BY <2>7 DEF Stored
  <2>3. p \in Buffer /\ p.room = r.room - 1 /\ p.msgs = r.msgs /\ p.accepted = r.accepted
    BY <1>0, <2>2, PutType
  <2>4. Accepts(b, out, s) => Clean(r.accepted)
    BY <1>0, <2>2, CleanAppend DEF Accepts
  <2>5. Accepts(b, out, s) => Keeps(p, out, Append(s \o r.accepted, Nul))
    <3> SUFFICES ASSUME Accepts(b, out, s) PROVE Keeps(p, out, Append(s \o r.accepted, Nul))
      OBVIOUS
    <3>0. r.accepted \in Text
      BY <2>2 DEF Buffer
    <3>1. PICK x \in Text : x = s \o r.accepted
      BY <3>0, KeptAppend
    <3>2. Keeps(r, out, x) /\ r.room >= 1
      BY <1>0, <1>3, <2>2, <3>1
    <3>3. Keeps(p, out, Append(x, Nul))
      BY <1>0, <2>2, <3>2, PutKeeps
    <3> QED
      BY <3>1, <3>3
  <2> HIDE DEF p
  <2>6. /\ d.room = p.room /\ d.msgs = p.msgs + 1 /\ d.done
        /\ d.accepted = p.accepted /\ d.mem = p.mem /\ d.in = p.in
    BY <2>3, DoneType
  <2> HIDE DEF d
  <2> QED
    BY <2>1, <2>2, <2>3, <2>4, <2>5, <2>6 DEF Accepts, Closed, Keeps
<1> QED
  BY <1>0, <1>1, <1>2, <1>3

\* A write with a terminator only at its end: it ends a message at most once, and the
\* buffer keeps what it took.
WriteEnds(r, b, out, s) ==
    /\ \/ r.done /\ r.msgs = b.msgs + 1
       \/ ~r.done /\ r.msgs = b.msgs
    /\ Accepts(b, out, s) => Closed(r, out, s)
LEMMA PutWordEnds ==
    ASSUME NEW b \in Buffer, ~b.done, NEW w \in Text, NEW out \in Index, NEW s \in Text,
           \A i \in 1..(Len(w) - 1) : w[i] \notin {Nul, Eol}
    PROVE  WriteEnds(PutWord(b, w), b, out, s)
<1>1. PICK f \in [0..Len(w) -> Buffer] :
              /\ f[0] = b /\ f[Len(w)] = PutWord(b, w)
              /\ \A k \in 1..Len(w) : f[k] = PutChar(f[k - 1], w[k])
  BY PutWordSteps
<1>2. Len(w) \in Nat /\ w \in [1..Len(w) -> Chars]
  BY LenProperties DEF Text
<1> DEFINE P(x) == ~x.done /\ x.msgs = b.msgs /\ (Accepts(b, out, s) => Accepts(x, out, s))
           T == {k \in 0..(Len(w) - 1) : ~P(f[k])}
<1>3. T = {}
  <2> SUFFICES ASSUME T # {} PROVE FALSE
    OBVIOUS
  <2>1. PICK k \in T : \A y \in T : k <= y
    <3>1. T \subseteq Nat
      OBVIOUS
    <3> HIDE DEF T
    <3> QED
      BY <3>1, LeastNatural
  <2>2. k \in 0..(Len(w) - 1) /\ ~P(f[k])
    OBVIOUS
  <2>3. k # 0
    BY <1>1, <2>2
  <2>4. /\ k \in 1..Len(w) /\ k \in 1..(Len(w) - 1)
        /\ k - 1 \in 0..(Len(w) - 1) /\ k - 1 \in 0..Len(w) /\ ~(k <= k - 1)
    BY <1>2, <2>2, <2>3
  <2>5. k - 1 \notin T
    BY <2>1, <2>4
  <2>6. P(f[k - 1])
    BY <2>4, <2>5
  <2>7. PICK x \in Buffer, ch \in Chars : x = f[k - 1] /\ ch = w[k]
    BY <1>1, <1>2, <2>4
  <2>8. ch # Nul /\ ch # Eol
    BY <2>4, <2>7
  <2>9. /\ PutChar(x, ch).done = x.done /\ PutChar(x, ch).msgs = x.msgs
        /\ Accepts(x, out, s) => Accepts(PutChar(x, ch), out, s)
    BY <2>8, PutPlain
  <2>10. f[k] = PutChar(x, ch)
    BY <1>1, <2>4, <2>7
  <2> HIDE DEF T
  <2> QED
    BY <2>2, <2>6, <2>7, <2>9, <2>10
<1>4. CASE Len(w) = 0
  <2>1. PutWord(b, w) = b
    BY <1>1, <1>4
  <2> QED
    BY <2>1 DEF WriteEnds, Accepts, Closed
<1>5. CASE Len(w) # 0
  <2>1. Len(w) - 1 \in 0..(Len(w) - 1) /\ Len(w) - 1 \in 0..Len(w) /\ Len(w) \in 1..Len(w)
    BY <1>2, <1>5
  <2>2. P(f[Len(w) - 1])
    BY <1>3, <2>1
  <2>3. PICK x \in Buffer, ch \in Chars : x = f[Len(w) - 1] /\ ch = w[Len(w)]
    BY <1>1, <1>2, <2>1
  <2>4. PutWord(b, w) = PutChar(x, ch)
    BY <1>1, <2>1, <2>3
  <2>5. P(x)
    BY <2>2, <2>3
  <2>6. CASE ch \in {Nul, Eol}
    <3>1. /\ \/ PutChar(x, ch).done /\ PutChar(x, ch).msgs = x.msgs + 1
             \/ ~PutChar(x, ch).done /\ PutChar(x, ch).msgs = x.msgs
          /\ Accepts(x, out, s) => Closed(PutChar(x, ch), out, s)
      BY <2>5, <2>6, PutLast
    <3> QED
      BY <2>4, <2>5, <3>1 DEF WriteEnds
  <2>7. CASE ch \notin {Nul, Eol}
    <3>1. /\ PutChar(x, ch).done = x.done /\ PutChar(x, ch).msgs = x.msgs
          /\ Accepts(x, out, s) => Accepts(PutChar(x, ch), out, s)
      BY <2>7, PutPlain
    <3> QED
      BY <2>4, <2>5, <3>1 DEF WriteEnds, Accepts, Closed
  <2> QED
    BY <2>6, <2>7
<1> QED
  BY <1>4, <1>5

\* A character of a no-load string.
LEMMA PutNlsPlain ==
    ASSUME NEW b \in Buffer, NEW out \in Index, NEW s \in Text, NEW ch \in Chars, ch # Nul
    PROVE  /\ PutNlsChar(b, ch).msgs = b.msgs
           /\ Accepts(b, out, s) => Accepts(PutNlsChar(b, ch), out, s)
<1>0. b.room \in Int /\ b.accepted \in Text
  BY DEF Buffer
<1>1. CASE b.room < 2
  <2>1. PutNlsChar(b, ch) = b
    BY <1>1 DEF PutNlsChar
  <2> QED
    BY <2>1
<1>2. CASE b.room >= 2
  <2>0. PICK r : r = [Put(b, ch) EXCEPT !.accepted = Append(@, ch)]
    OBVIOUS
  <2>1. PutNlsChar(b, ch) = r
    BY <1>0, <1>2, <2>0 DEF PutNlsChar
  <2>2. Stored(r, b, ch, out, s)
    BY <1>2, <2>0, StoreAccepts
  <2>3. Accepts(b, out, s) => Clean(r.accepted)
    BY <1>0, <2>2, CleanAppend DEF Accepts, Stored
  <2> QED
    BY <2>1, <2>2, <2>3 DEF Accepts, Stored
<1> QED
  BY <1>0, <1>1, <1>2

\* A no-load string, which has no terminator of its own.
LEMMA PutNlsKeeps ==
    ASSUME NEW b \in Buffer, NEW w \in Text, NEW out \in Index, NEW s \in Text, Clean(w)
    PROVE  /\ PutNls(b, w).msgs = b.msgs
           /\ Accepts(b, out, s) => Accepts(PutNls(b, w), out, s)
<1>1. PICK f \in [0..Len(w) -> Buffer] :
              /\ f[0] = b /\ f[Len(w)] = PutNls(b, w)
              /\ \A k \in 1..Len(w) : f[k] = PutNlsChar(f[k - 1], w[k])
  BY PutNlsSteps
<1>2. Len(w) \in Nat /\ w \in [1..Len(w) -> Chars]
  BY LenProperties DEF Text
<1> DEFINE P(x) == x.msgs = b.msgs /\ (Accepts(b, out, s) => Accepts(x, out, s))
           T == {k \in 0..Len(w) : ~P(f[k])}
<1>3. T = {}
  <2> SUFFICES ASSUME T # {} PROVE FALSE
    OBVIOUS
  <2>1. PICK k \in T : \A y \in T : k <= y
    <3>1. T \subseteq Nat
      OBVIOUS
    <3> HIDE DEF T
    <3> QED
      BY <3>1, LeastNatural
  <2>2. k \in 0..Len(w) /\ ~P(f[k])
    OBVIOUS
  <2>3. k # 0
    BY <1>1, <2>2
  <2>4. k \in 1..Len(w) /\ k - 1 \in 0..Len(w) /\ ~(k <= k - 1)
    BY <1>2, <2>2, <2>3
  <2>5. k - 1 \notin T
    BY <2>1, <2>4
  <2>6. P(f[k - 1])
    BY <2>4, <2>5
  <2>7. PICK x \in Buffer, ch \in Chars : x = f[k - 1] /\ ch = w[k]
    BY <1>1, <1>2, <2>4
  <2>8. ch # Nul
    BY <2>4, <2>7 DEF Clean
  <2>9. /\ PutNlsChar(x, ch).msgs = x.msgs
        /\ Accepts(x, out, s) => Accepts(PutNlsChar(x, ch), out, s)
    BY <2>8, PutNlsPlain
  <2>10. f[k] = PutNlsChar(x, ch)
    BY <1>1, <2>4, <2>7
  <2> HIDE DEF T
  <2> QED
    BY <2>2, <2>6, <2>7, <2>9, <2>10
<1>4. Len(w) \in 0..Len(w)
  BY <1>2
<1> QED
  BY <1>1, <1>3, <1>4

-----------------------------------------------------------------------------
(* The actions keep the lists.                                             *)

\* Without a complete message a list is empty, or its node is in progress.
LEMMA IdleShape ==
    ASSUME ListsInv, NEW c \in Cores, numMsgs[c] = 0
    PROVE  \/ NoNode(tsList[c], lines[c], current[c], 0)
           \/ InProgress(heap, tsList[c], lines[c], current[c], 0)
<1>1. Shape(heap, tsList[c], lines[c], current[c], numMsgs[c])
  BY DEF ListsInv
<1> QED
  BY <1>1 DEF Shape, OneDone, TwoDone

\* A list with one line more.
LEMMA OneLine ==
    ASSUME NEW l
    PROVE  Len(Append(<<>>, l)) = 1 /\ Append(<<>>, l)[1] = l
<1>1. IsSequence(<<>>) /\ Len(<<>>) = 0
  BY EmptyIsSeq
<1> QED
  BY <1>1, AppendToSeq

\* The heap after a write to the print channel of a core with no complete message: its
\* node is alone in its list, and has the times of the line.
Written(c, b, s) ==
    LET n == Working(c).node
    IN  /\ Linked(c).ok /\ Allocated(c, n)
        /\ Heap(heap') /\ Len(heap) <= Len(heap') /\ Alone(heap', n) /\ n # 0
        /\ heap'[n].terminated = b.done /\ heap'[n].startTime = s /\ heap'[n].endTime = time
        /\ s # 0
        /\ \A j \in 1..Len(heap) : j # n => heap'[j] = heap[j]
LEMMA WordLinked ==
    ASSUME TypeInv, ListsInv, NEW c \in Cores, numMsgs[c] = 0
    PROVE  Linked(c).ok
<1>1. CASE tsList[c] = 0
  <2>1. Fresh(c) /\ Linked(c) = LinkTsList(AllocTsList.heap, AllocTsList.node, 0)
    BY <1>1 DEF Fresh, Linked, Working
  <2>2. PICK h, n : h = AllocTsList.heap /\ n = AllocTsList.node
    OBVIOUS
  <2>3. Heap(h) /\ n \in 1..Len(h)
    BY <2>2, AllocIs
  <2>4. LinkTsList(h, n, 0).ok
    BY <2>3, LinkFirst
  <2> QED
    BY <2>1, <2>2, <2>4
<1>2. CASE tsList[c] # 0
  <2>1. ~Fresh(c)
    BY <1>2, IdleShape DEF NoNode, InProgress, Fresh
  <2>2. Linked(c) = [heap |-> heap, ok |-> TRUE]
    BY <2>1 DEF Linked
  <2> QED
    BY <2>2
<1> QED
  BY <1>1, <1>2

LEMMA WordWritten ==
    ASSUME TypeInv, ListsInv, NEW c \in Cores, numMsgs[c] = 0, NEW w, NEW b \in Buffer, NEW s,
           Wrote(c, w, b, s)
    PROVE  Written(c, b, s)
<1> DEFINE n == Working(c).node
           h == Linked(c).heap
<1>1. Linked(c).ok
  BY WordLinked
<1>2. Heap(h) /\ n \in 1..Len(h) /\ Len(heap) <= Len(h)
  BY LinkedType
<1>3. IsMarked(heap', h, n, b.done, IF Fresh(c) THEN time ELSE heap[tsList[c]].startTime, time)
  BY WroteHeap
<1>4. /\ s = IF Fresh(c) THEN time ELSE current[c].start
      /\ freeList' = Working(c).free
  BY DEF Wrote
<1>5. Len(heap) \in Nat /\ time \in Nat /\ time # 0 /\ DOMAIN heap = 1..Len(heap)
  BY DEF TypeInv, TypeOK, Heap
<1>6. CASE tsList[c] = 0
  <2>1. Fresh(c) /\ h = LinkTsList(AllocTsList.heap, AllocTsList.node, 0).heap /\ Working(c) = AllocTsList
    BY <1>6 DEF Fresh, Linked, Working
  <2>2. PICK g, m : g = AllocTsList.heap /\ m = AllocTsList.node
    OBVIOUS
  <2>3. /\ Heap(g) /\ m \in 1..Len(g) /\ Len(g) >= Len(heap) /\ \A j \in 1..Len(heap) : g[j] = heap[j]
    BY <2>2, AllocIs
  <2>4. /\ freeList # 0 => m = freeList /\ AllocTsList.free = heap[freeList].next
        /\ freeList = 0 => m = Len(heap) + 1 /\ AllocTsList.free = 0
    BY <2>2, AllocIs
  <2>5. LET l == LinkTsList(g, m, 0).heap
        IN  l[m].next = m /\ l[m].prev = m /\ \A j \in 1..Len(g) : j # m => l[j] = g[j]
    BY <2>3, LinkFirst
  <2>6. n = m
    BY <2>1, <2>2
  <2>7. h[n].next = n /\ h[n].prev = n /\ \A j \in 1..Len(g) : j # n => h[j] = g[j]
    BY <2>1, <2>2, <2>5, <2>6, Zenon
  <2>8. Len(g) \in Nat /\ Len(h) \in Nat
    BY <1>2, <2>3 DEF Heap
  <2>9. \A j \in 1..Len(heap) : j # n => h[j] = heap[j]
    BY <1>5, <2>3, <2>7, <2>8
  <2>10. Allocated(c, n)
    BY <1>4, <2>1, <2>2, <2>3, <2>4, <2>6 DEF Allocated
  <2> HIDE DEF n, h
  <2>11. /\ Heap(heap') /\ Len(heap') = Len(h) /\ heap'[n].next = h[n].next /\ heap'[n].prev = h[n].prev
         /\ heap'[n].terminated = b.done /\ heap'[n].startTime = time /\ heap'[n].endTime = time
         /\ \A j \in 1..Len(h) : j # n => heap'[j] = h[j]
    BY <1>3, <2>1 DEF IsMarked
  <2>12. \A j \in 1..Len(heap) : j # n => heap'[j] = heap[j]
    BY <1>2, <1>5, <2>8, <2>9, <2>11
  <2>13. Alone(heap', n) /\ n # 0
    <3>1. DOMAIN heap' = 1..Len(heap')
      BY <2>11 DEF Heap
    <3> QED
      BY <1>2, <2>7, <2>11, <3>1 DEF Alone
  <2>14. s = time
    BY <1>4, <2>1
  <2> QED
    BY <1>1, <1>2, <1>5, <2>10, <2>11, <2>12, <2>13, <2>14 DEF Written, n
<1>7. CASE tsList[c] # 0
  <2>1. InProgress(heap, tsList[c], lines[c], current[c], 0)
    BY <1>7, IdleShape DEF NoNode
  <2>2. ~Fresh(c)
    BY <1>7, <2>1 DEF InProgress, Fresh
  <2>3. h = heap /\ n = tsList[c] /\ Working(c).free = freeList
    BY <2>2 DEF Linked, Working
  <2>4. Alone(heap, n) /\ heap[n].startTime = current[c].start /\ current[c].start # 0
    BY <2>1, <2>3 DEF InProgress, Stamped
  <2>5. s = current[c].start
    BY <1>4, <2>2
  <2>6. Allocated(c, n)
    BY <1>4, <1>7, <2>3 DEF Allocated
  <2> HIDE DEF n, h
  <2>7. /\ Heap(heap') /\ Len(heap') = Len(heap)
        /\ heap'[n].next = heap[n].next /\ heap'[n].prev = heap[n].prev
        /\ heap'[n].terminated = b.done /\ heap'[n].startTime = heap[n].startTime /\ heap'[n].endTime = time
        /\ \A j \in 1..Len(heap) : j # n => heap'[j] = heap[j]
    BY <1>3, <2>2, <2>3 DEF IsMarked
  <2>8. Alone(heap', n) /\ n # 0
    <3>1. DOMAIN heap' = 1..Len(heap')
      BY <2>7 DEF Heap
    <3> QED
      BY <1>7, <1>2, <2>3, <2>4, <2>7, <3>1 DEF Alone
  <2> QED
    BY <1>1, <1>5, <2>4, <2>5, <2>6, <2>7, <2>8 DEF Written, n
<1> QED
  BY <1>6, <1>7

\* What is true of the words of a target LikeMain.
LEMMA PlainWord ==
    ASSUME LikeMain, NEW w \in Words
    PROVE  w \in Text /\ \A i \in 1..(Len(w) - 1) : w[i] \notin {Nul, Eol}
  BY ITCPrintAssumption DEF LikeMain, Text

\* The buffer at the beginning of a call.
LEMMA BufferStart ==
    ASSUME TypeInv, NEW c \in Cores
    PROVE  /\ BufferOf(c) \in Buffer /\ ~BufferOf(c).done /\ BufferOf(c).msgs = numMsgs[c]
           /\ BufferOf(c).accepted = <<>> /\ BufferOf(c).mem = pbuff[c] /\ BufferOf(c).in = pbi[c]
           /\ BufferOf(c).room = RoomBetween(pbi[c], pbo[c])
<1>1. BufferOf(c) \in Buffer
  BY BufferOfType DEF TypeInv
<1> QED
  BY <1>1 DEF BufferOf, roomInITCPrintQ

\* A write to the print channel keeps the lists.
LEMMA PrintWordLists ==
    ASSUME TypeInv, ListsInv, LikeMain, NEW c \in Cores, numMsgs[c] = 0, NEW w \in Words, PrintWord(c, w)
    PROVE  ListsInv'
<1>1. PICK b \in Buffer, s \in Nat : Wrote(c, w, b, s)
  BY WordLinked, PrintWordIs
<1>2. PICK n : n = Working(c).node
  OBVIOUS
<1>3. /\ Allocated(c, n) /\ Heap(heap') /\ Len(heap) <= Len(heap') /\ Alone(heap', n) /\ n # 0
      /\ heap'[n].terminated = b.done /\ heap'[n].startTime = s /\ heap'[n].endTime = time
      /\ s # 0 /\ \A j \in 1..Len(heap) : j # n => heap'[j] = heap[j]
  BY <1>1, <1>2, WordWritten DEF Written
<1> DEFINE line == [text |-> current[c].text \o b.accepted, start |-> s, end |-> time]
<1>4. /\ tsList' = [tsList EXCEPT ![c] = n]
      /\ numMsgs' = [numMsgs EXCEPT ![c] = b.msgs]
      /\ lines' = IF b.done THEN [lines EXCEPT ![c] = Append(lines[c], line)] ELSE lines
      /\ current' = [current EXCEPT ![c] = IF b.done THEN NoLine ELSE line]
  BY <1>1, <1>2 DEF Wrote
<1>5. \/ b.done /\ b.msgs = 1
      \/ ~b.done /\ b.msgs = 0
  <2>1. PICK a \in Buffer : a = BufferOf(c)
    BY BufferStart
  <2>2. ~a.done /\ a.msgs = 0
    BY <2>1, BufferStart
  <2>3. w \in Text /\ \A i \in 1..(Len(w) - 1) : w[i] \notin {Nul, Eol}
    BY PlainWord
  <2>4. <<>> \in Text /\ pbo[c] \in Index
    BY DEF Text, TypeInv, TypeOK, Index
  <2>5. WriteEnds(PutWord(a, w), a, pbo[c], <<>>)
    BY <2>2, <2>3, <2>4, PutWordEnds
  <2>6. b = PutWord(a, w)
    BY <1>1, <2>1 DEF Wrote
  <2> QED
    BY <2>2, <2>5, <2>6 DEF WriteEnds
<1>6. lines[c] = <<>>
  BY IdleShape DEF NoNode, InProgress
<1> HIDE DEF line
<1>7. line.start = s /\ line.end = time
  BY DEF line
<1>8. /\ tsList \in [Cores -> 0..Len(heap)] /\ lines \in [Cores -> Seq(Line)]
      /\ current \in [Cores -> Line] /\ numMsgs \in [Cores -> Nat]
  BY DEF TypeInv, TypeOK
<1>9. \A d \in Cores : d # c => /\ lines'[d] = lines[d] /\ current'[d] = current[d]
                                /\ numMsgs'[d] = numMsgs[d]
  BY <1>4, <1>8
<1>10. Shape(heap', n, lines'[c], current'[c], numMsgs'[c])
  <2>1. CASE b.done
    <3>1. lines'[c] = Append(<<>>, line) /\ current'[c] = NoLine /\ numMsgs'[c] = 1
      BY <1>4, <1>5, <1>6, <1>8, <2>1
    <3>2. Len(lines'[c]) = 1 /\ lines'[c][1] = line
      BY <3>1, OneLine
    <3>3. OneDone(heap', n, lines'[c], current'[c], numMsgs'[c])
      BY <1>3, <1>7, <2>1, <3>1, <3>2 DEF OneDone, Stamped
    <3> QED
      BY <3>3 DEF Shape
  <2>2. CASE ~b.done
    <3>1. lines'[c] = <<>> /\ current'[c] = line /\ numMsgs'[c] = 0
      BY <1>4, <1>5, <1>6, <1>8, <2>2
    <3>3. InProgress(heap', n, lines'[c], current'[c], numMsgs'[c])
      BY <1>3, <1>7, <2>2, <3>1 DEF InProgress, Stamped
    <3> QED
      BY <3>3 DEF Shape
  <2> QED
    BY <2>1, <2>2
<1>11. Held(heap', n) \subseteq Held(heap, tsList[c]) \cup {n}
  BY <1>3 DEF Held, Alone
<1> QED
  BY <1>3, <1>4, <1>9, <1>10, <1>11, ListsAfterWrite

\* A node that is allocated is in no list.
LEMMA NodeApart ==
    ASSUME TypeInv, ListsInv, NEW c \in Cores
    PROVE  AllocTsList.node \notin Held(heap, tsList[c])
<1>1. PICK F : Free(heap, freeList, F) /\ \A d \in Cores : Held(heap, tsList[d]) \cap F = {}
  BY DEF ListsInv
<1>2. Shape(heap, tsList[c], lines[c], current[c], numMsgs[c])
  BY DEF ListsInv
<1>3. Held(heap, tsList[c]) \subseteq DOMAIN heap
  BY <1>2, HeldNodes
<1>4. DOMAIN heap = 1..Len(heap) /\ Len(heap) \in Nat
  BY DEF TypeInv, Heap
<1>5. /\ freeList # 0 => AllocTsList.node = freeList
      /\ freeList = 0 => AllocTsList.node = Len(heap) + 1
  BY AllocIs
<1> QED
  BY <1>1, <1>3, <1>4, <1>5 DEF Free

\* The list with the node of a no-load string: alone, or in front of the message it ended.
Second(h, n, t, s, l) ==
    /\ n \in DOMAIN h /\ t \in DOMAIN h /\ h[n].next = t /\ h[n].prev = t /\ h[t].next = n /\ h[t].prev = n
    /\ h[n].terminated /\ h[t].terminated /\ h[n].startTime = s /\ h[n].endTime = s
    /\ h[t].startTime = l.start /\ h[t].endTime = l.end
First(h, n, s) ==
    Alone(h, n) /\ h[n].terminated /\ h[n].startTime = s /\ h[n].endTime = s
NlsSent(c) ==
    LET n == AllocTsList.node
        t == tsList[c]
    IN  /\ n # 0 /\ n # t /\ Heap(heap') /\ Len(heap) <= Len(heap')
        /\ t = 0 => First(heap', n, time)
        /\ t # 0 => Second(heap', n, t, time, current[c])
        /\ \A j \in 1..Len(heap) : j # n /\ j # t => heap'[j] = heap[j]
LEMMA NlsLinkedOk ==
    ASSUME TypeInv, ListsInv, NEW c \in Cores, numMsgs[c] = 0
    PROVE  NlsLinked(c).ok
<1>1. PICK h, n, t : h = NlsHeap(c) /\ n = AllocTsList.node /\ t = tsList[c]
  OBVIOUS
<1>2. Heap(h) /\ n \in 1..Len(h) /\ t \in 0..Len(h) /\ Len(h) \in Nat
  BY <1>1, NlsHeapIs DEF Heap
<1>3. NlsLinked(c) = LinkTsList(h, n, t)
  BY <1>1 DEF NlsLinked
<1>4. CASE t = 0
  BY <1>2, <1>3, <1>4, LinkFirst
<1>5. CASE t # 0
  <2>1. InProgress(heap, t, lines[c], current[c], 0)
    BY <1>1, <1>5, IdleShape DEF NoNode
  <2>2. Ending(c) /\ heap[t].prev = t /\ t \in DOMAIN heap
    BY <1>1, <1>5, <2>1 DEF Ending, InProgress, Alone
  <2>3. h[t] = [heap[t] EXCEPT !.terminated = TRUE]
    BY <1>1, <2>2, NlsHeapIs
  <2>4. h[t].prev = t
    <3>1. heap[t] \in Cells(Len(heap))
      BY <2>2 DEF TypeInv, Heap
    <3> QED
      BY <2>2, <2>3, <3>1 DEF Cells
  <2>5. t # n
    BY <1>1, <1>5, NodeApart DEF Held
  <2>6. t \in 1..Len(h)
    BY <1>2, <1>5
  <2>7. LinkTsList(h, n, t).ok
    BY <1>2, <2>4, <2>5, <2>6, LinkSecond DEF Paired
  <2> QED
    BY <1>3, <2>7
<1> QED
  BY <1>4, <1>5

LEMMA NlsSentIs ==
    ASSUME TypeInv, ListsInv, NEW c \in Cores, numMsgs[c] = 0, NEW w, NEW b, Sent(c, w, b)
    PROVE  NlsSent(c)
<1>1. PICK h, n, t, g : h = NlsHeap(c) /\ n = AllocTsList.node /\ t = tsList[c] /\ g = NlsLinked(c).heap
  OBVIOUS
<1>2. /\ Heap(h) /\ n \in 1..Len(h) /\ t \in 0..Len(h) /\ Len(h) \in Nat /\ Len(heap) <= Len(h)
      /\ Len(heap) \in Nat
      /\ \A j \in 1..Len(heap) : j # t => h[j] = heap[j]
  BY <1>1, NlsHeapIs DEF Heap, TypeInv
<1>3. g = LinkTsList(h, n, t).heap
  BY <1>1 DEF NlsLinked
<1>4. /\ Heap(heap') /\ Len(heap') = Len(h) /\ heap'[n].next = g[n].next /\ heap'[n].prev = g[n].prev
      /\ heap'[n].terminated /\ heap'[n].startTime = time /\ heap'[n].endTime = time
      /\ \A j \in 1..Len(h) : j # n => heap'[j] = g[j]
  BY <1>1, SentHeap DEF IsMarked
<1>5. DOMAIN heap' = 1..Len(h)
  BY <1>4 DEF Heap
<1>6. CASE t = 0
  <2>1. /\ g[n].next = n /\ g[n].prev = n /\ \A j \in 1..Len(h) : j # n => g[j] = h[j]
    BY <1>2, <1>3, <1>6, LinkFirst
  <2>2. \A j \in 1..Len(heap) : j # n /\ j # t => heap'[j] = heap[j]
    BY <1>2, <1>4, <2>1
  <2>3. First(heap', n, time)
    BY <1>2, <1>4, <1>5, <2>1 DEF First, Alone
  <2> QED
    BY <1>1, <1>2, <1>4, <1>6, <2>2, <2>3 DEF NlsSent
<1>7. CASE t # 0
  <2>1. InProgress(heap, t, lines[c], current[c], 0)
    BY <1>1, <1>7, IdleShape DEF NoNode
  <2>2. Ending(c) /\ heap[t].prev = t /\ t \in DOMAIN heap
    BY <1>1, <1>7, <2>1 DEF Ending, InProgress, Alone
  <2>3. h[t] = [heap[t] EXCEPT !.terminated = TRUE] /\ heap[t] \in Cells(Len(heap))
    BY <1>1, <2>2, NlsHeapIs DEF TypeInv, Heap
  <2>4. t # n
    BY <1>1, <1>7, NodeApart DEF Held
  <2>5. t \in 1..Len(h)
    BY <1>2, <1>7
  <2>6. h[t].prev = t
    BY <2>2, <2>3 DEF Cells
  <2>7. /\ g[n].next = t /\ g[n].prev = t /\ g[t] = [h[t] EXCEPT !.prev = n, !.next = n]
        /\ \A j \in 1..Len(h) : j # n /\ j # t => g[j] = h[j]
    <3>1. Paired(LinkTsList(h, n, t), h, n, t)
      BY <1>2, <2>4, <2>5, <2>6, LinkSecond
    <3> QED
      BY <1>3, <3>1, Zenon DEF Paired
  <2>8. \A j \in 1..Len(heap) : j # n /\ j # t => heap'[j] = heap[j]
    BY <1>2, <1>4, <2>7
  <2>9. heap'[t] = [[heap[t] EXCEPT !.terminated = TRUE] EXCEPT !.prev = n, !.next = n]
    BY <1>4, <2>3, <2>4, <2>5, <2>7
  <2>10. /\ heap'[t].prev = n /\ heap'[t].next = n /\ heap'[t].terminated
         /\ heap'[t].startTime = heap[t].startTime /\ heap'[t].endTime = heap[t].endTime
    BY <2>3, <2>9 DEF Cells
  <2>11. heap[t].startTime = current[c].start /\ heap[t].endTime = current[c].end
    BY <2>1 DEF InProgress, Stamped
  <2>12. Second(heap', n, t, time, current[c])
    BY <1>2, <1>4, <1>5, <2>5, <2>7, <2>10, <2>11 DEF Second
  <2> QED
    BY <1>1, <1>2, <1>4, <1>7, <2>4, <2>8, <2>12 DEF NlsSent
<1> QED
  BY <1>6, <1>7


\* The messages a no-load string adds.
LEMMA NlsCount ==
    ASSUME TypeInv, NEW c \in Cores, NEW w \in NlsTexts, NEW b, Sent(c, w, b)
    PROVE  b.msgs = numMsgs[c] + (IF Ending(c) THEN 2 ELSE 1)
<1>1. w \in Text /\ Clean(w)
  <2>1. w \in Text /\ Nul \notin ToSet(w)
    BY ITCPrintAssumption DEF Text
  <2> QED
    BY <2>1 DEF ToSet, Clean
<1>2. PICK r \in Buffer : r = Roomed(c)
  BY <1>1, NlsBufferType
<1>3. <<>> \in Text /\ pbo[c] \in Index /\ numMsgs[c] \in Nat /\ Nul \in Chars
  BY ITCPrintAssumption DEF Text, TypeInv, TypeOK, Index
<1>4. PutNls(r, w).msgs = r.msgs
  BY <1>1, <1>3, PutNlsKeeps
<1>5. PICK p \in Buffer : p = NlsText(c, w)
  BY <1>1, NlsBufferType
<1>6. p.msgs = r.msgs
  BY <1>2, <1>4, <1>5 DEF NlsText
<1>7. r.msgs = numMsgs[c] + (IF Ending(c) THEN 1 ELSE 0)
  <2>1. Ended(c) \in Buffer /\ Ended(c).msgs = numMsgs[c] + (IF Ending(c) THEN 1 ELSE 0)
    BY <1>1, NlsBufferType
  <2>2. PICK e \in Buffer : e = Ended(c)
    BY <2>1
  <2>3. r = [e EXCEPT !.room = RoomBetween(e.in, pbo[c])]
    BY <1>2, <2>2 DEF Roomed
  <2>4. r.msgs = e.msgs
    BY <2>3 DEF Buffer
  <2> QED
    BY <2>1, <2>2, <2>4
<1>8. PICK q : q = Put(p, Nul)
  OBVIOUS
<1>9. q \in Buffer /\ q.msgs = p.msgs
  BY <1>3, <1>8, PutType
<1>10. b = [q EXCEPT !.msgs = @ + 1]
  BY <1>5, <1>8 DEF Sent
<1>11. b.msgs = q.msgs + 1
  BY <1>9, <1>10 DEF Buffer
<1> QED
  BY <1>3, <1>6, <1>7, <1>9, <1>11

\* A list with two lines.
LEMMA TwoLines ==
    ASSUME NEW l, NEW k
    PROVE  LET ls == Append(Append(<<>>, l), k)
           IN  Len(ls) = 2 /\ ls[1] = l /\ ls[2] = k
  OBVIOUS

\* A no-load string keeps the lists.
LEMMA NlsPrintLists ==
    ASSUME TypeInv, ListsInv, NEW c \in Cores, numMsgs[c] = 0, NEW w \in NlsTexts, NlsPrint(c, w)
    PROVE  ListsInv'
<1>1. PICK b \in Buffer : Sent(c, w, b)
  BY NlsLinkedOk, NlsPrintIs
<1>2. PICK n, t : n = AllocTsList.node /\ t = tsList[c]
  OBVIOUS
<1>3. /\ n # 0 /\ n # t /\ Heap(heap') /\ Len(heap) <= Len(heap')
      /\ t = 0 => First(heap', n, time)
      /\ t # 0 => Second(heap', n, t, time, current[c])
      /\ \A j \in 1..Len(heap) : j # n /\ j # t => heap'[j] = heap[j]
  BY <1>1, <1>2, NlsSentIs DEF NlsSent
<1>4. PICK line : line = [text |-> b.accepted, start |-> time, end |-> time]
  OBVIOUS
<1>5. line.start = time /\ line.end = time /\ time # 0
  BY <1>4 DEF TypeInv, TypeOK
<1>6. /\ tsList' = [tsList EXCEPT ![c] = n]
      /\ numMsgs' = [numMsgs EXCEPT ![c] = b.msgs]
      /\ lines' = [lines EXCEPT ![c] = Append(NlsDone(c), line)]
      /\ current' = [current EXCEPT ![c] = NoLine]
      /\ freeList' = AllocTsList.free
  BY <1>1, <1>2, <1>4 DEF Sent
<1>7. b.msgs = IF Ending(c) THEN 2 ELSE 1
  BY <1>1, NlsCount
<1>8. /\ tsList \in [Cores -> 0..Len(heap)] /\ lines \in [Cores -> Seq(Line)]
      /\ current \in [Cores -> Line] /\ numMsgs \in [Cores -> Nat]
  BY DEF TypeInv, TypeOK
<1>9. \A d \in Cores : d # c => /\ lines'[d] = lines[d] /\ current'[d] = current[d]
                                /\ numMsgs'[d] = numMsgs[d]
  BY <1>6, <1>8
<1>10. /\ numMsgs'[c] = b.msgs /\ current'[c] = NoLine
       /\ lines'[c] = Append(NlsDone(c), line) /\ lines[c] = <<>>
  BY <1>6, <1>8, IdleShape DEF NoNode, InProgress
<1>11. Allocated(c, n)
  <2>1. /\ freeList # 0 => n = freeList /\ AllocTsList.free = heap[freeList].next
        /\ freeList = 0 => n = Len(heap) + 1 /\ AllocTsList.free = 0
    BY <1>2, AllocIs
  <2> QED
    BY <1>6, <2>1 DEF Allocated
<1>12. CASE t = 0
  <2>1. ~Ending(c)
    BY <1>2, <1>12 DEF Ending
  <2>2. lines'[c] = Append(<<>>, line) /\ numMsgs'[c] = 1
    BY <1>7, <1>10, <2>1 DEF NlsDone
  <2>3. Len(lines'[c]) = 1 /\ lines'[c][1] = line
    BY <2>2, OneLine
  <2>4. OneDone(heap', n, lines'[c], current'[c], numMsgs'[c])
    BY <1>3, <1>5, <1>10, <1>12, <2>2, <2>3 DEF OneDone, First, Stamped
  <2>5. Shape(heap', n, lines'[c], current'[c], numMsgs'[c])
    BY <2>4 DEF Shape
  <2>6. Held(heap', n) \subseteq Held(heap, tsList[c]) \cup {n}
    BY <1>3, <1>12 DEF Held, Alone, First
  <2>7. \A j \in 1..Len(heap) : j \notin Held(heap, tsList[c]) \cup {n} => heap'[j] = heap[j]
    BY <1>3, <1>12
  <2> QED
    BY <1>3, <1>6, <1>9, <1>11, <2>5, <2>6, <2>7, ListsAfterWrite
<1>13. CASE t # 0
  <2>1. InProgress(heap, t, lines[c], current[c], 0)
    BY <1>2, <1>13, IdleShape DEF NoNode
  <2>2. Ending(c) /\ current[c].start # 0
    BY <1>2, <1>13, <2>1 DEF Ending, InProgress, Stamped
  <2>3. lines'[c] = Append(Append(<<>>, current[c]), line) /\ numMsgs'[c] = 2
    BY <1>7, <1>10, <2>2 DEF NlsDone
  <2>4. Len(lines'[c]) = 2 /\ lines'[c][1] = current[c] /\ lines'[c][2] = line
    BY <2>3, TwoLines
  <2>5. TwoDone(heap', n, lines'[c], current'[c], numMsgs'[c])
    <3>1. Second(heap', n, t, time, current[c])
      BY <1>3, <1>13
    <3>2. Stamped(heap', n, lines'[c][2]) /\ Stamped(heap', t, lines'[c][1]) /\ heap'[n].prev = t
      BY <1>5, <2>2, <2>4, <3>1 DEF Stamped, Second
    <3> QED
      BY <1>3, <1>10, <2>3, <2>4, <3>1, <3>2 DEF TwoDone, Second
  <2>6. Shape(heap', n, lines'[c], current'[c], numMsgs'[c])
    BY <2>5 DEF Shape
  <2>7. t \in Held(heap, tsList[c])
    BY <1>2, <1>13 DEF Held
  <2>8. Held(heap', n) \subseteq Held(heap, tsList[c]) \cup {n}
    BY <1>3, <1>13, <2>7 DEF Held, Second
  <2>9. \A j \in 1..Len(heap) : j \notin Held(heap, tsList[c]) \cup {n} => heap'[j] = heap[j]
    BY <1>3, <2>7
  <2> QED
    BY <1>3, <1>6, <1>9, <1>11, <2>6, <2>8, <2>9, ListsAfterWrite
<1> QED
  BY <1>12, <1>13


\* Unlinking the only node of a list.
LEMMA UnlinkOnly ==
    ASSUME TypeInv, NEW c \in Cores, NEW n, n = tsList[c], Alone(heap, n), UnlinkTsList(c, n)
    PROVE  /\ tsList' = [tsList EXCEPT ![c] = 0] /\ freeList' = n /\ heap'[n].next = freeList
           /\ \A j \in 1..Len(heap) : j # n => heap'[j] = heap[j]
<1>1. /\ Len(heap) \in Nat /\ heap \in [1..Len(heap) -> Cells(Len(heap))] /\ n \in 1..Len(heap)
      /\ heap[n].next = n
  BY DEF TypeInv, Heap, Alone
<1>2. heap[n] \in Cells(Len(heap))
  BY <1>1
<1>3. /\ tsList' = [tsList EXCEPT ![c] = 0] /\ freeList' = n
      /\ heap' = [heap EXCEPT ![n].next = freeList, ![n].prev = 0]
  BY <1>1 DEF UnlinkTsList
<1>4. heap'[n].next = freeList
  BY <1>1, <1>2, <1>3 DEF Cells
<1>5. \A j \in 1..Len(heap) : j # n => heap'[j] = heap[j]
  BY <1>1, <1>3
<1> QED
  BY <1>3, <1>4, <1>5

\* Unlinking the older node of a list of two leaves the newer one alone.
Parted(n, o) ==
    /\ tsList' = tsList /\ freeList' = o /\ heap'[o].next = freeList
    /\ heap'[n].next = n /\ heap'[n].prev = n /\ heap'[n].terminated = heap[n].terminated
    /\ heap'[n].startTime = heap[n].startTime /\ heap'[n].endTime = heap[n].endTime
    /\ \A j \in 1..Len(heap) : j # n /\ j # o => heap'[j] = heap[j]
LEMMA UnlinkOlder ==
    ASSUME TypeInv, NEW c \in Cores, NEW n, NEW o, n = tsList[c], n \in DOMAIN heap, o \in DOMAIN heap,
           o # n, heap[n].next = o, heap[n].prev = o, heap[o].next = n, heap[o].prev = n,
           UnlinkTsList(c, o)
    PROVE  Parted(n, o)
<1> DEFINE h1 == [heap EXCEPT ![n].prev = heap[o].prev]
           h2 == [h1 EXCEPT ![n].next = h1[o].next]
<1>1. /\ Len(heap) \in Nat /\ heap \in [1..Len(heap) -> Cells(Len(heap))]
      /\ n \in 1..Len(heap) /\ o \in 1..Len(heap)
  BY DEF TypeInv, Heap
<1>2. heap[n] \in Cells(Len(heap)) /\ heap[o] \in Cells(Len(heap))
  BY <1>1
<1>3. /\ DOMAIN h1 = 1..Len(heap) /\ h1[n] = [heap[n] EXCEPT !.prev = n]
      /\ \A j \in 1..Len(heap) : j # n => h1[j] = heap[j]
  BY <1>1
<1>4. h1[n].next = o /\ h1[o].next = n
  BY <1>1, <1>2, <1>3 DEF Cells
<1>5. /\ tsList' = tsList /\ freeList' = o
      /\ heap' = [h2 EXCEPT ![o].next = freeList, ![o].prev = 0]
  BY <1>4 DEF UnlinkTsList
<1> HIDE DEF h1
<1>6. /\ DOMAIN h2 = 1..Len(heap) /\ h2[n] = [h1[n] EXCEPT !.next = n]
      /\ \A j \in 1..Len(heap) : j # n => h2[j] = heap[j]
  BY <1>1, <1>3, <1>4
<1> HIDE DEF h2
<1>7. /\ heap'[n] = h2[n] /\ heap'[o] = [heap[o] EXCEPT !.next = freeList, !.prev = 0]
      /\ \A j \in 1..Len(heap) : j # n /\ j # o => heap'[j] = heap[j]
  <2>1. h2[o] = heap[o]
    BY <1>1, <1>6
  <2>2. heap'[n] = h2[n] /\ \A j \in 1..Len(heap) : j # n /\ j # o => heap'[j] = heap[j]
    BY <1>1, <1>5, <1>6
  <2>3. heap'[o] = [h2[o] EXCEPT !.next = freeList, !.prev = 0]
    BY <1>1, <1>5, <1>6
  <2> QED
    BY <2>1, <2>2, <2>3
<1>8. heap'[o].next = freeList
  BY <1>2, <1>7 DEF Cells
<1>9. /\ heap'[n].next = n /\ heap'[n].prev = n /\ heap'[n].terminated = heap[n].terminated
      /\ heap'[n].startTime = heap[n].startTime /\ heap'[n].endTime = heap[n].endTime
  BY <1>2, <1>3, <1>6, <1>7 DEF Cells
<1> QED
  BY <1>5, <1>7, <1>8, <1>9 DEF Parted

\* With a complete message a list has one node or two, all terminated.
LEMMA BusyShape ==
    ASSUME ListsInv, NEW c \in Cores, numMsgs[c] > 0
    PROVE  \/ OneDone(heap, tsList[c], lines[c], current[c], numMsgs[c])
           \/ TwoDone(heap, tsList[c], lines[c], current[c], numMsgs[c])
<1>1. Shape(heap, tsList[c], lines[c], current[c], numMsgs[c])
  BY DEF ListsInv
<1> QED
  BY <1>1 DEF Shape, NoNode, InProgress

\* The node of the oldest message is found.
LEMMA OldestNode ==
    ASSUME TypeInv, ListsInv, NEW c \in Cores, numMsgs[c] > 0
    PROVE  /\ TerminatedTsList(c) = heap[tsList[c]].prev /\ TerminatedTsList(c) # 0
           /\ TerminatedTsList(c) \in Held(heap, tsList[c]) /\ tsList[c] # 0
           /\ Stamped(heap, TerminatedTsList(c), lines[c][1]) /\ lines[c] # <<>>
           /\ ~NoOldest(c)
<1>1. DOMAIN heap = 1..Len(heap) /\ Len(heap) \in Nat
  BY DEF TypeInv, Heap
<1>2. PICK n, o : n = tsList[c] /\ o = heap[n].prev
  OBVIOUS
<1>3. /\ n \in DOMAIN heap /\ o \in DOMAIN heap /\ heap[o].terminated
      /\ Stamped(heap, o, lines[c][1]) /\ Len(lines[c]) # 0
  BY <1>2, BusyShape DEF OneDone, TwoDone, Alone
<1>4. n # 0 /\ o # 0
  BY <1>1, <1>3
<1>5. TerminatedTsList(c) = o
  BY <1>2, <1>3, <1>4 DEF TerminatedTsList
<1> QED
  BY <1>2, <1>3, <1>4, <1>5 DEF Held, NoOldest

\* What reading the oldest message does.
Took(c, limit) ==
    LET tsl  == TerminatedTsList(c)
        text == TextFrom(c, limit)
    IN  /\ UnlinkTsList(c, tsl)
        /\ numMsgs' = [numMsgs EXCEPT ![c] = @ - 1]
        /\ pbo' = [pbo EXCEPT ![c] = (@ + Len(text) + 1) % BuffSize]
        /\ lastRead' = [got |-> [text |-> text, start |-> heap[tsl].startTime,
                                 end |-> heap[tsl].endTime],
                        expected |-> Head(lines[c])]
        /\ lines' = [lines EXCEPT ![c] = Tail(@)]
        /\ UNCHANGED <<pbuff, pbi, current>>
LEMMA GetPrintIs ==
    ASSUME TypeInv, ListsInv, NEW c \in Cores, NEW limit, GetPrint(c, limit)
    PROVE  numMsgs[c] > 0 /\ Took(c, limit)
<1>1. numMsgs[c] > 0
  BY DEF GetPrint
<1>2. TerminatedTsList(c) # 0 /\ lines[c] # <<>> /\ ~NoOldest(c)
  BY <1>1, OldestNode
<1> QED
  BY <1>1, <1>2, Zenon DEF GetPrint, Took

\* What is left when a line is read.
LEMMA TailOfOne ==
    ASSUME NEW S, NEW ls \in Seq(S), Len(ls) = 1
    PROVE  Tail(ls) = <<>>
<1>1. ls # <<>>
  BY EmptySeq
<1>2. Tail(ls) \in Seq(S) /\ Len(Tail(ls)) = 0
  BY <1>1, HeadTailProperties
<1> QED
  BY <1>2, EmptySeq
LEMMA TailOfTwo ==
    ASSUME NEW S, NEW ls \in Seq(S), Len(ls) = 2
    PROVE  Len(Tail(ls)) = 1 /\ Tail(ls)[1] = ls[2]
  BY HeadTailProperties, EmptySeq

\* Reading a message keeps the lists.
LEMMA GetPrintLists ==
    ASSUME TypeInv, ListsInv, NEW c \in Cores, NEW limit \in Nat, GetPrint(c, limit)
    PROVE  ListsInv'
<1>1. numMsgs[c] > 0 /\ Took(c, limit)
  BY GetPrintIs
<1>2. PICK n, o : n = tsList[c] /\ o = TerminatedTsList(c)
  OBVIOUS
<1>3. o = heap[n].prev /\ o # 0 /\ n # 0 /\ o \in Held(heap, tsList[c])
  BY <1>1, <1>2, OldestNode
<1>4. /\ UnlinkTsList(c, o) /\ numMsgs' = [numMsgs EXCEPT ![c] = numMsgs[c] - 1]
      /\ lines' = [lines EXCEPT ![c] = Tail(lines[c])] /\ current' = current
  BY <1>1, <1>2 DEF Took
<1>5. /\ tsList \in [Cores -> 0..Len(heap)] /\ lines \in [Cores -> Seq(Line)]
      /\ numMsgs \in [Cores -> Nat] /\ DOMAIN heap = 1..Len(heap) /\ Len(heap) \in Nat
  BY DEF TypeInv, TypeOK, Heap
<1>6. \A d \in Cores : d # c => /\ lines'[d] = lines[d] /\ current'[d] = current[d]
                                /\ numMsgs'[d] = numMsgs[d]
  BY <1>4, <1>5
<1>7. lines'[c] = Tail(lines[c]) /\ current'[c] = current[c] /\ numMsgs'[c] = numMsgs[c] - 1
  BY <1>4, <1>5
<1>8. o \in 1..Len(heap)
  BY <1>1, <1>2, <1>3, TerminatedType
<1>9. Heap(heap') /\ Len(heap') = Len(heap) /\ freeList' = o
  BY <1>2, <1>3, <1>4, <1>8, UnlinkType
<1>10. DOMAIN heap' = 1..Len(heap)
  BY <1>9 DEF Heap
<1>11. CASE OneDone(heap, tsList[c], lines[c], current[c], numMsgs[c])
  <2>1. Alone(heap, n) /\ o = n
    BY <1>2, <1>3, <1>11 DEF OneDone, Alone
  <2>2. /\ tsList' = [tsList EXCEPT ![c] = 0] /\ heap'[n].next = freeList
        /\ \A j \in 1..Len(heap) : j # n => heap'[j] = heap[j]
    BY <1>2, <1>4, <2>1, UnlinkOnly
  <2>3. Len(lines[c]) = 1 /\ numMsgs[c] = 1 /\ current[c] = NoLine
    BY <1>11 DEF OneDone
  <2>4. Tail(lines[c]) = <<>>
    BY <1>5, <2>3, TailOfOne
  <2>5. Shape(heap', 0, lines'[c], current'[c], numMsgs'[c])
    BY <1>7, <2>3, <2>4 DEF Shape, NoNode
  <2>6. Held(heap', 0) \subseteq Held(heap, tsList[c]) \ {o}
    BY DEF Held
  <2>7. \A j \in 1..Len(heap) : j \notin Held(heap, tsList[c]) => heap'[j] = heap[j]
    BY <1>2, <1>3, <2>1, <2>2
  <2> QED
    BY <1>3, <1>6, <1>9, <2>1, <2>2, <2>5, <2>6, <2>7, ListsAfterRead
<1>12. CASE TwoDone(heap, tsList[c], lines[c], current[c], numMsgs[c])
  <2>1. /\ n \in DOMAIN heap /\ o \in DOMAIN heap /\ o # n
        /\ heap[n].next = o /\ heap[o].next = n /\ heap[o].prev = n /\ heap[n].prev = o
        /\ heap[n].terminated
    BY <1>2, <1>3, <1>12 DEF TwoDone
  <2>2. /\ tsList' = tsList /\ heap'[o].next = freeList
        /\ heap'[n].next = n /\ heap'[n].prev = n /\ heap'[n].terminated = heap[n].terminated
        /\ heap'[n].startTime = heap[n].startTime /\ heap'[n].endTime = heap[n].endTime
        /\ \A j \in 1..Len(heap) : j # n /\ j # o => heap'[j] = heap[j]
    <3>1. Parted(n, o)
      BY <1>2, <1>4, <2>1, UnlinkOlder
    <3> QED
      BY <3>1 DEF Parted
  <2>3. /\ Len(lines[c]) = 2 /\ numMsgs[c] = 2 /\ current[c] = NoLine
        /\ Stamped(heap, n, lines[c][2])
    BY <1>2, <1>12 DEF TwoDone
  <2>4. Len(Tail(lines[c])) = 1 /\ Tail(lines[c])[1] = lines[c][2]
    BY <1>5, <2>3, TailOfTwo
  <2>5. Alone(heap', n)
    BY <1>5, <1>10, <2>1, <2>2 DEF Alone
  <2>6. OneDone(heap', n, lines'[c], current'[c], numMsgs'[c])
    BY <1>7, <2>1, <2>2, <2>3, <2>4, <2>5 DEF OneDone, Stamped
  <2>7. Shape(heap', n, lines'[c], current'[c], numMsgs'[c])
    BY <2>6 DEF Shape
  <2>8. Held(heap, tsList[c]) = {n, o}
    BY <1>2, <1>3 DEF Held
  <2>9. Held(heap', n) \subseteq Held(heap, tsList[c]) \ {o}
    BY <1>3, <2>1, <2>2, <2>8 DEF Held
  <2>10. \A j \in 1..Len(heap) : j \notin Held(heap, tsList[c]) => heap'[j] = heap[j]
    BY <2>2, <2>8
  <2>11. tsList' = [tsList EXCEPT ![c] = n]
    BY <1>2, <1>5, <2>2
  <2>12. heap'[o].next = freeList
    BY <2>2
  <2> QED
    BY <1>3, <1>6, <1>9, <2>7, <2>9, <2>10, <2>11, <2>12, ListsAfterRead
<1> QED
  BY <1>1, <1>11, <1>12, BusyShape

\* What flushing a message in progress does.
Flushed(c, limit) ==
    LET tsl  == tsList[c]
        text == TextFrom(c, limit)
    IN  /\ UnlinkTsList(c, tsl)
        /\ pbo' = [pbo EXCEPT ![c] = (@ + Len(text)) % BuffSize]
        /\ lastRead' = [got |-> [text |-> text, start |-> heap[tsl].startTime,
                                 end |-> heap[tsl].endTime],
                        expected |-> current[c]]
        /\ current' = [current EXCEPT ![c] = NoLine]
        /\ UNCHANGED <<pbuff, pbi, numMsgs, lines>>
LEMMA FlushPrintIs ==
    ASSUME TypeInv, ListsInv, NEW c \in Cores, NEW limit, FlushPrint(c, limit)
    PROVE  \/ UNCHANGED <<itc, current, lastRead, lines>>
           \/ InProgress(heap, tsList[c], lines[c], current[c], 0) /\ numMsgs[c] = 0 /\ Flushed(c, limit)
<1>1. numMsgs[c] = 0
  BY DEF FlushPrint
<1>2. CASE tsList[c] = 0
  BY <1>2, Zenon DEF FlushPrint
<1>3. CASE tsList[c] # 0
  <2>1. InProgress(heap, tsList[c], lines[c], current[c], 0)
    BY <1>1, <1>3, IdleShape DEF NoNode
  <2>2. ~heap[tsList[c]].terminated
    BY <2>1 DEF InProgress
  <2>3. Flushed(c, limit)
    BY <1>3, <2>2, Zenon DEF FlushPrint, Flushed
  <2> QED
    BY <1>1, <2>1, <2>3
<1> QED
  BY <1>2, <1>3

\* Flushing keeps the lists.
LEMMA FlushPrintLists ==
    ASSUME TypeInv, ListsInv, NEW c \in Cores, NEW limit \in Nat, FlushPrint(c, limit)
    PROVE  ListsInv'
<1>1. CASE UNCHANGED <<itc, current, lastRead, lines>>
  <2>1. /\ heap' = heap /\ tsList' = tsList /\ freeList' = freeList /\ numMsgs' = numMsgs
        /\ current' = current /\ lines' = lines
    BY <1>1 DEF itc
  <2> QED
    BY <2>1, Zenon DEF ListsInv
<1>2. CASE InProgress(heap, tsList[c], lines[c], current[c], 0) /\ numMsgs[c] = 0 /\ Flushed(c, limit)
  <2>1. PICK n : n = tsList[c]
    OBVIOUS
  <2>2. /\ tsList \in [Cores -> 0..Len(heap)] /\ DOMAIN heap = 1..Len(heap) /\ Len(heap) \in Nat
        /\ current \in [Cores -> Line]
    BY DEF TypeInv, TypeOK, Heap
  <2>3. Alone(heap, n) /\ n # 0 /\ n \in 1..Len(heap) /\ lines[c] = <<>>
    BY <1>2, <2>1, <2>2 DEF InProgress, Alone
  <2>4. /\ UnlinkTsList(c, n) /\ current' = [current EXCEPT ![c] = NoLine]
        /\ numMsgs' = numMsgs /\ lines' = lines
    BY <1>2, <2>1 DEF Flushed
  <2>5. /\ tsList' = [tsList EXCEPT ![c] = 0] /\ freeList' = n /\ heap'[n].next = freeList
        /\ \A j \in 1..Len(heap) : j # n => heap'[j] = heap[j]
    BY <2>1, <2>3, <2>4, UnlinkOnly
  <2>6. Heap(heap') /\ Len(heap') = Len(heap)
    BY <2>1, <2>3, <2>4, UnlinkType
  <2>7. \A d \in Cores : d # c => /\ lines'[d] = lines[d] /\ current'[d] = current[d]
                                  /\ numMsgs'[d] = numMsgs[d]
    BY <2>2, <2>4
  <2>8. Shape(heap', 0, lines'[c], current'[c], numMsgs'[c])
    BY <1>2, <2>2, <2>3, <2>4 DEF Shape, NoNode
  <2>9. n \in Held(heap, tsList[c]) /\ Held(heap', 0) \subseteq Held(heap, tsList[c]) \ {n}
    BY <2>1, <2>3 DEF Held
  <2>10. \A j \in 1..Len(heap) : j \notin Held(heap, tsList[c]) => heap'[j] = heap[j]
    BY <2>5, <2>9
  <2> QED
    BY <2>5, <2>6, <2>7, <2>8, <2>9, <2>10, ListsAfterRead
<1> QED
  BY <1>1, <1>2, FlushPrintIs

\* At the start lists and free list are empty.
LEMMA InitLists == Init => ListsInv
<1> SUFFICES ASSUME Init PROVE ListsInv
  OBVIOUS
<1>1. \A c \in Cores : tsList[c] = 0 /\ lines[c] = <<>> /\ current[c] = NoLine /\ numMsgs[c] = 0
  BY DEF Init
<1>2. \A c \in Cores : Shape(heap, tsList[c], lines[c], current[c], numMsgs[c])
  BY <1>1 DEF Shape, NoNode
<1>3. \A c \in Cores : Held(heap, tsList[c]) = {}
  BY <1>1 DEF Held
<1>4. Free(heap, freeList, {})
  BY DEF Init, Free
<1> QED
  BY <1>2, <1>3, <1>4 DEF ListsInv

\* Every step keeps the lists.
LEMMA NextLists ==
    ASSUME LikeMain
    PROVE  TypeInv /\ ListsInv /\ [Next]_vars => ListsInv'
<1> SUFFICES ASSUME TypeInv, ListsInv, [Next]_vars PROVE ListsInv'
  OBVIOUS
<1>1. CASE Write
  <2>1. PICK c \in Cores : \/ \E w \in Words : PrintWord(c, w)
                           \/ \E t \in NlsTexts : NlsPrint(c, t)
    BY <1>1 DEF Write
  <2>2. numMsgs[c] = 0
    BY <1>1 DEF Write, LikeMain, getITCPrintMask
  <2>3. CASE \E w \in Words : PrintWord(c, w)
    BY <2>2, <2>3, PrintWordLists
  <2>4. CASE \E t \in NlsTexts : NlsPrint(c, t)
    BY <2>2, <2>4, NlsPrintLists
  <2> QED
    BY <2>1, <2>3, <2>4
<1>2. CASE Read
  <2>1. PICK c \in Cores, limit \in {BuffSize} \cup {n - 1 : n \in DstLens} :
              GetPrint(c, limit) \/ FlushPrint(c, limit)
    BY <1>2 DEF Read
  <2>2. limit \in Nat
    BY LimitType
  <2> QED
    BY <2>1, <2>2, GetPrintLists, FlushPrintLists
<1>3. CASE UNCHANGED vars
  <2>1. /\ heap' = heap /\ tsList' = tsList /\ freeList' = freeList /\ numMsgs' = numMsgs
        /\ current' = current /\ lines' = lines
    BY <1>3 DEF vars, itc
  <2> QED
    BY <2>1, Zenon DEF ListsInv
<1> QED
  BY <1>1, <1>2, <1>3 DEF Next

\* The ends of a sequence.
Ends(s) == Head(s) = s[1] /\ Last(s) = s[Len(s)] /\ s # <<>>
LEMMA EndsOfSeq ==
    ASSUME NEW S, NEW s \in Seq(S), Len(s) > 0
    PROVE  Ends(s)
<1>1. s # <<>>
  BY EmptySeq
<1>2. Head(s) = s[1]
  BY <1>1
<1>3. Last(s) = s[Len(s)]
  BY Zenon DEF Last
<1> QED
  BY <1>1, <1>2, <1>3 DEF Ends

\* A list of one of the shapes holds what is unread.
Holds(h, n, ls, k, u) ==
    /\ k = Len(ls)
    /\ n = 0 <=> u = <<>>
    /\ u # <<>> => /\ h[n].startTime = Last(u).start
                   /\ h[n].prev # 0
                   /\ h[h[n].prev].startTime = Head(u).start
LEMMA ShapeHolds ==
    ASSUME NEW h, NEW n, NEW ls \in Seq(Line), NEW cur, NEW k, Shape(h, n, ls, cur, k), 0 \notin DOMAIN h,
           NEW u, u = ls \o (IF cur.start = 0 THEN <<>> ELSE <<cur>>)
    PROVE  Holds(h, n, ls, k, u)
<1>1. CASE NoNode(n, ls, cur, k)
  <2>1. u = <<>>
    BY <1>1 DEF NoNode, NoLine
  <2> QED
    BY <1>1, <2>1 DEF NoNode, Holds
<1>2. CASE InProgress(h, n, ls, cur, k)
  <2>1. ls = <<>> /\ cur.start # 0 /\ k = 0 /\ n \in DOMAIN h /\ h[n].prev = n /\ h[n].startTime = cur.start
    BY <1>2 DEF InProgress, Stamped, Alone
  <2>2. u = <<cur>>
    BY <2>1
  <2>3. Last(u) = cur /\ Head(u) = cur /\ u # <<>>
    <3>1. u \in Seq({cur}) /\ Len(u) = 1 /\ u[1] = cur
      BY <2>2
    <3>2. PICK S : u \in Seq(S)
      BY <3>1, Zenon
    <3>3. Len(u) > 0
      BY <3>1
    <3>4. Ends(u)
      BY <3>2, <3>3, EndsOfSeq, Zenon
    <3> QED
      BY <3>1, <3>4, Zenon DEF Ends
  <2> QED
    BY <2>1, <2>3 DEF Holds
<1>3. CASE OneDone(h, n, ls, cur, k)
  <2>1. /\ Len(ls) = 1 /\ cur.start = 0 /\ k = 1 /\ n \in DOMAIN h /\ h[n].prev = n
        /\ h[n].startTime = ls[1].start
    BY <1>3 DEF OneDone, Stamped, Alone, NoLine
  <2>2. u = ls
    BY <2>1
  <2>3. Last(u) = ls[1] /\ Head(u) = ls[1] /\ u # <<>>
    BY <2>1, <2>2, EndsOfSeq DEF Ends
  <2> QED
    BY <2>1, <2>3 DEF Holds
<1>4. CASE TwoDone(h, n, ls, cur, k)
  <2>1. /\ Len(ls) = 2 /\ cur.start = 0 /\ k = 2 /\ n \in DOMAIN h /\ h[n].prev \in DOMAIN h
        /\ h[n].startTime = ls[2].start /\ h[h[n].prev].startTime = ls[1].start
    BY <1>4 DEF TwoDone, Stamped, NoLine
  <2>2. u = ls
    BY <2>1
  <2>3. Last(u) = ls[2] /\ Head(u) = ls[1] /\ u # <<>>
    <3>1. Ends(u)
      BY <2>1, <2>2, EndsOfSeq
    <3> QED
      BY <2>1, <2>2, <3>1, Zenon DEF Ends
  <2> QED
    BY <2>1, <2>3 DEF Holds
<1> QED
  BY <1>1, <1>2, <1>3, <1>4 DEF Shape

\* The invariants give the property.
LEMMA ListsHold == TypeInv /\ ListsInv => ListHoldsUnread
<1> SUFFICES ASSUME TypeInv, ListsInv, NEW c \in Cores
             PROVE  /\ numMsgs[c] = Len(lines[c])
                    /\ tsList[c] = 0 <=> Unread(c) = <<>>
                    /\ Unread(c) # <<>> =>
                          /\ heap[tsList[c]].startTime = Last(Unread(c)).start
                          /\ heap[tsList[c]].prev # 0
                          /\ heap[heap[tsList[c]].prev].startTime = Head(Unread(c)).start
  BY DEF ListHoldsUnread
<1>1. Shape(heap, tsList[c], lines[c], current[c], numMsgs[c])
  BY DEF ListsInv
<1>2. lines[c] \in Seq(Line) /\ 0 \notin DOMAIN heap
  BY DEF TypeInv, TypeOK, Heap
<1>3. PICK h, n, ls, cur, k, u : /\ h = heap /\ n = tsList[c] /\ ls = lines[c]
                                 /\ cur = current[c] /\ k = numMsgs[c] /\ u = Unread(c)
  OBVIOUS
<1>4. u = ls \o (IF cur.start = 0 THEN <<>> ELSE <<cur>>)
  BY <1>3 DEF Unread
<1>5. Shape(h, n, ls, cur, k) /\ ls \in Seq(Line) /\ 0 \notin DOMAIN h
  BY <1>1, <1>2, <1>3
<1>6. Holds(h, n, ls, k, u)
  BY <1>4, <1>5, ShapeHolds
<1> QED
  BY <1>3, <1>6, Zenon DEF Holds

\* For a target and a caller LikeMain the list of a core has the unread messages and
\* nothing else, the newest in front and the oldest behind it: the times
\* consumeTerminatedTsList hands out are those of the oldest message.
THEOREM ListHoldsUnreadHolds ==
    ASSUME LikeMain
    PROVE  Spec => []ListHoldsUnread
<1>1. Init => TypeInv /\ ListsInv
  BY InitType, InitLists
<1>2. TypeInv /\ ListsInv /\ [Next]_vars => (TypeInv /\ ListsInv)'
  BY NextType, NextLists
<1>3. TypeInv /\ ListsInv => ListHoldsUnread
  BY ListsHold
<1> QED
  BY <1>1, <1>2, <1>3, PTL DEF Spec

-----------------------------------------------------------------------------
(* The actions keep the rings.                                             *)

\* Two texts without terminators are one.
LEMMA CleanConcat ==
    ASSUME NEW s \in Text, NEW t \in Text, Clean(s), Clean(t)
    PROVE  Clean(s \o t)
<1>1. /\ Len(s) \in Nat /\ Len(t) \in Nat /\ Len(s \o t) = Len(s) + Len(t)
      /\ \A i \in 1..(Len(s) + Len(t)) : (s \o t)[i] = IF i <= Len(s) THEN s[i] ELSE t[i - Len(s)]
  BY ConcatProperties, LenProperties DEF Text
<1>2. ASSUME NEW i \in 1..(Len(s) + Len(t)) PROVE (s \o t)[i] # Nul
  <2>1. CASE i <= Len(s)
    BY <1>1, <2>1 DEF Clean
  <2>2. CASE ~(i <= Len(s))
    <3>1. i - Len(s) \in 1..Len(t)
      BY <1>1, <2>2
    <3> QED
      BY <1>1, <2>2, <3>1 DEF Clean
  <2> QED
    BY <2>1, <2>2
<1> QED
  BY <1>1, <1>2 DEF Clean

\* The empty text.
LEMMA CleanEmpty == <<>> \in Text /\ Clean(<<>>) /\ Len(<<>>) = 0
<1>1. <<>> \in Text /\ Len(<<>>) = 0
  BY EmptySeq DEF Text
<1> QED
  BY <1>1 DEF Clean

\* What is behind the first part of what a ring holds.
LEMMA RingDrop ==
    ASSUME NEW mem, NEW out \in Index, NEW in, NEW s \in Text, NEW r \in Text, Rings(mem, out, in, s \o r)
    PROVE  /\ Rings(mem, Slot(out, Len(s)), in, r) /\ Len(s) + Len(r) < BuffSize
           /\ \A i \in 1..Len(s) : mem[Slot(out, i - 1)] = s[i]
<1> DEFINE n == Len(s)
           k == Len(r)
<1>1. /\ n \in Nat /\ k \in Nat /\ Len(s \o r) = n + k
      /\ \A i \in 1..(n + k) : (s \o r)[i] = IF i <= n THEN s[i] ELSE r[i - n]
  BY ConcatProperties, LenProperties DEF Text
<1>2. /\ n + k < BuffSize /\ BuffSize \in Nat /\ in = Slot(out, n + k)
      /\ \A i \in 1..(n + k) : mem[Slot(out, i - 1)] = (s \o r)[i]
  BY <1>1, ITCPrintAssumption DEF Rings
<1> HIDE DEF n, k
<1>3. Slot(Slot(out, n), k) = in
  <2>1. n \in 0..BuffSize /\ k \in 0..BuffSize /\ n + k <= BuffSize
    BY <1>1, <1>2
  <2> QED
    BY <1>2, <2>1, SlotSum
<1>4. ASSUME NEW i \in 1..k PROVE mem[Slot(Slot(out, n), i - 1)] = r[i]
  <2>1. /\ n \in 0..BuffSize /\ i - 1 \in 0..BuffSize /\ n + (i - 1) <= BuffSize
        /\ n + i \in 1..(n + k) /\ ~(n + i <= n) /\ (n + i) - n = i /\ (n + i) - 1 = n + (i - 1)
    BY <1>1, <1>2
  <2>2. Slot(Slot(out, n), i - 1) = Slot(out, n + (i - 1))
    BY <2>1, SlotSum
  <2>3. mem[Slot(out, (n + i) - 1)] = (s \o r)[n + i]
    BY <1>2, <2>1
  <2>4. (s \o r)[n + i] = r[i]
    BY <1>1, <2>1
  <2> QED
    BY <2>1, <2>2, <2>3, <2>4
<1>5. ASSUME NEW i \in 1..n PROVE mem[Slot(out, i - 1)] = s[i]
  <2>1. i \in 1..(n + k) /\ i <= n
    BY <1>1
  <2> QED
    BY <1>1, <1>2, <2>1
<1>6. k < BuffSize
  BY <1>1, <1>2
<1>7. Rings(mem, Slot(out, n), in, r)
  BY <1>3, <1>4, <1>6 DEF Rings, k
<1> QED
  BY <1>2, <1>5, <1>7 DEF n, k

\* A read gives the text up to its terminator, or up to the limit.
LEMMA RingText ==
    ASSUME TypeInv, NEW c \in Cores, NEW t \in Text, Clean(t), NEW n \in Nat, Len(t) <= n, Len(t) < BuffSize,
           \A i \in 1..Len(t) : pbuff[c][Slot(pbo[c], i - 1)] = t[i],
           pbuff[c][Slot(pbo[c], Len(t))] = Nul
    PROVE  TextFrom(c, n) = t
<1> DEFINE ch(i) == pbuff[c][(pbo[c] + i) % BuffSize]
           S == {i \in 0..n : i = n \/ ch(i) = Nul}
           k == Len(t)
<1>1. k \in Nat /\ BuffSize \in Nat /\ pbo[c] \in Index /\ t \in [1..k -> Chars]
  BY ITCPrintAssumption, LenProperties DEF Text, TypeInv, TypeOK, Index
<1>2. \A i \in 0..(BuffSize - 1) : ch(i) = pbuff[c][Slot(pbo[c], i)]
  <2> TAKE i \in 0..(BuffSize - 1)
  <2>1. i \in 0..BuffSize
    BY <1>1
  <2> QED
    BY <1>1, <2>1, SlotMod
<1>3. \A i \in 1..k : ch(i - 1) = t[i]
  <2> TAKE i \in 1..k
  <2>1. i - 1 \in 0..(BuffSize - 1)
    BY <1>1
  <2> QED
    BY <1>2, <2>1
<1>4. ch(k) = Nul
  <2>1. k \in 0..(BuffSize - 1)
    BY <1>1
  <2> QED
    BY <1>2, <2>1
<1> HIDE DEF ch
<1>5. k \in S
  BY <1>1, <1>4
<1>6. \A i \in S : k <= i
  <2> SUFFICES ASSUME NEW i \in S, ~(k <= i) PROVE FALSE
    OBVIOUS
  <2>1. i + 1 \in 1..k /\ (i + 1) - 1 = i /\ i # n
    BY <1>1
  <2>2. ch(i) = t[i + 1]
    BY <1>3, <2>1
  <2>3. ch(i) # Nul
    BY <2>1, <2>2 DEF Clean
  <2> QED
    BY <2>1, <2>3
<1>7. S \subseteq Int
  OBVIOUS
<1> HIDE DEF S
<1>8. Min(S) = k
  <2>1. \A x \in S : (\A y \in S : x <= y) => x = k
    <3> SUFFICES ASSUME NEW x \in S, \A y \in S : x <= y PROVE x = k
      OBVIOUS
    <3>1. x <= k /\ k <= x /\ x \in Int /\ k \in Int
      BY <1>1, <1>5, <1>6, <1>7
    <3> QED
      BY <3>1
  <2> QED
    BY <1>5, <1>6, <2>1 DEF Min
<1>9. TextFrom(c, n) = [i \in 1..k |-> ch(i - 1)]
  BY <1>8, Zenon DEF TextFrom, S, ch
<1>10. [i \in 1..k |-> ch(i - 1)] = t
  BY <1>1, <1>3
<1> QED
  BY <1>9, <1>10

\* Only the ring of core c changes.
LEMMA RingsAfter ==
    ASSUME TypeInv, RingsInv, NEW c \in Cores,
           \A d \in Cores : d # c => /\ pbuff'[d] = pbuff[d] /\ pbo'[d] = pbo[d] /\ pbi'[d] = pbi[d]
                                     /\ lines'[d] = lines[d] /\ current'[d] = current[d]
                                     /\ (overrun[d] => overrun'[d]),
           ~overrun'[c] => RingOf(pbuff'[c], pbo'[c], pbi'[c], lines'[c], current'[c])
    PROVE  RingsInv'
<1> SUFFICES ASSUME NEW d \in Cores, ~overrun'[d]
             PROVE  RingOf(pbuff'[d], pbo'[d], pbi'[d], lines'[d], current'[d])
  BY DEF RingsInv
<1>1. CASE d = c
  BY <1>1
<1>2. CASE d # c
  <2>1. RingOf(pbuff[d], pbo[d], pbi[d], lines[d], current[d])
    BY <1>2 DEF RingsInv
  <2> QED
    BY <1>2, <2>1
<1> QED
  BY <1>1, <1>2

\* What is kept of one line, of two, or of none.
LEMMA KeptNone ==
    ASSUME NEW cur PROVE Kept(<<>>, cur) = cur.text
<1>1. Len(<<>>) = 0
  BY EmptyIsSeq
<1> QED
  BY <1>1 DEF Kept
LEMMA KeptOne ==
    ASSUME NEW ls, Len(ls) = 1, NEW cur PROVE Kept(ls, cur) = Append(ls[1].text, Nul)
  BY DEF Kept
LEMMA KeptTwo ==
    ASSUME NEW ls, Len(ls) = 2, NEW cur
    PROVE  Kept(ls, cur) = Append(ls[1].text, Nul) \o Append(ls[2].text, Nul)
<1>1. Len(ls) # 0 /\ Len(ls) # 1
  OBVIOUS
<1>2. PICK a, b : a = Append(ls[1].text, Nul) \o Append(ls[2].text, Nul) /\ b = Append(ls[1].text, Nul)
  OBVIOUS
<1>3. Kept(ls, cur) = CASE Len(ls) = 0 -> cur.text [] Len(ls) = 1 -> b [] OTHER -> a
  BY <1>2, Zenon DEF Kept
<1> QED
  BY <1>1, <1>2, <1>3

\* The buffer of a core that has no complete message.
LEMMA BufferAccepts ==
    ASSUME TypeInv, ListsInv, NEW c \in Cores, numMsgs[c] = 0,
           RingOf(pbuff[c], pbo[c], pbi[c], lines[c], current[c])
    PROVE  /\ Accepts(BufferOf(c), pbo[c], current[c].text) /\ Clean(current[c].text)
           /\ Keeps(BufferOf(c), pbo[c], current[c].text) /\ current[c].text \in Text
           /\ tsList[c] = 0 => current[c].text = <<>>
<1>1. PICK b \in Buffer : b = BufferOf(c)
  BY BufferStart
<1>2. /\ b.accepted = <<>> /\ b.mem = pbuff[c] /\ b.in = pbi[c]
      /\ b.room = RoomBetween(pbi[c], pbo[c])
  BY <1>1, BufferStart
<1>3. lines[c] = <<>> /\ (tsList[c] = 0 => current[c] = NoLine)
  <2>1. 0 \notin DOMAIN heap
    BY DEF TypeInv, Heap
  <2> QED
    BY <2>1, IdleShape DEF NoNode, InProgress, Alone
<1>4. PICK s \in Text : s = current[c].text
  <2>1. current[c] \in Line
    BY DEF TypeInv, TypeOK
  <2> QED
    BY <2>1 DEF Line, Text
<1>5. Kept(lines[c], current[c]) = s
  BY <1>3, <1>4, KeptNone
<1>6. Rings(pbuff[c], pbo[c], pbi[c], s) /\ Clean(s)
  BY <1>4, <1>5 DEF RingOf
<1>7. pbo[c] \in Index
  BY DEF TypeInv, TypeOK, Index
<1>8. RoomBetween(pbi[c], pbo[c]) = BuffSize - 1 - Len(s)
  BY <1>6, <1>7, RingRoom
<1>9. Keeps(b, pbo[c], s)
  BY <1>2, <1>6, <1>8 DEF Keeps
<1>10. s \o <<>> = s
  BY ConcatEmptySeq DEF Text
<1>11. Accepts(b, pbo[c], s)
  BY <1>2, <1>9, <1>10, CleanEmpty DEF Accepts
<1>12. tsList[c] = 0 => s = <<>>
  BY <1>3, <1>4 DEF NoLine
<1> QED
  BY <1>1, <1>4, <1>6, <1>9, <1>11, <1>12

\* A write to the print channel keeps the rings.
LEMMA PrintWordRings ==
    ASSUME TypeInv, ListsInv, RingsInv, LikeMain, NEW c \in Cores, numMsgs[c] = 0,
           NEW w \in Words, PrintWord(c, w)
    PROVE  RingsInv' /\ overrun' = overrun
<1>1. PICK b \in Buffer, s \in Nat : Wrote(c, w, b, s)
  BY WordLinked, PrintWordIs
<1>2. PICK line : line = [text |-> current[c].text \o b.accepted, start |-> s, end |-> time]
  OBVIOUS
<1>3. /\ pbuff' = [pbuff EXCEPT ![c] = [b.mem EXCEPT ![b.in] = Nul]]
      /\ pbi' = [pbi EXCEPT ![c] = b.in] /\ pbo' = pbo
      /\ lines' = IF b.done THEN [lines EXCEPT ![c] = Append(lines[c], line)] ELSE lines
      /\ current' = [current EXCEPT ![c] = IF b.done THEN NoLine ELSE line]
      /\ overrun' = overrun
  BY <1>1, <1>2 DEF Wrote
<1>4. /\ pbuff \in [Cores -> Mem] /\ pbi \in [Cores -> Index] /\ pbo \in [Cores -> Index]
      /\ lines \in [Cores -> Seq(Line)] /\ current \in [Cores -> Line]
  BY DEF TypeInv, TypeOK, Mem, Index
<1>5. \A d \in Cores : d # c => /\ pbuff'[d] = pbuff[d] /\ pbo'[d] = pbo[d] /\ pbi'[d] = pbi[d]
                                /\ lines'[d] = lines[d] /\ current'[d] = current[d]
                                /\ (overrun[d] => overrun'[d])
  BY <1>3, <1>4
<1>6. ASSUME ~overrun'[c]
      PROVE  RingOf(pbuff'[c], pbo'[c], pbi'[c], lines'[c], current'[c])
  <2>1. RingOf(pbuff[c], pbo[c], pbi[c], lines[c], current[c])
    BY <1>3, <1>6 DEF RingsInv
  <2>2. PICK a \in Buffer, t \in Text, out \in Index :
            a = BufferOf(c) /\ t = current[c].text /\ out = pbo[c]
    <3>1. BufferOf(c) \in Buffer
      BY BufferStart
    <3> QED
      BY <1>4, <2>1, <3>1, BufferAccepts
  <2>3. Accepts(a, out, t) /\ Clean(t)
    BY <2>1, <2>2, BufferAccepts
  <2>4. ~a.done
    BY <2>2, BufferStart
  <2>5. w \in Text /\ \A i \in 1..(Len(w) - 1) : w[i] \notin {Nul, Eol}
    BY PlainWord
  <2>6. WriteEnds(PutWord(a, w), a, out, t)
    BY <2>4, <2>5, PutWordEnds
  <2>7. Closed(b, out, t)
    <3>1. b = PutWord(a, w)
      BY <1>1, <2>2 DEF Wrote
    <3> QED
      BY <2>3, <2>6, <3>1 DEF WriteEnds
  <2>8. PICK m \in Mem, in \in Index, acc \in Text : m = b.mem /\ in = b.in /\ acc = b.accepted
    BY DEF Buffer
  <2>9. PICK x \in Text : x = t \o acc
    BY KeptAppend
  <2>10. Clean(x)
    BY <2>3, <2>7, <2>8, <2>9, CleanConcat DEF Closed
  <2>11. line.text = x
    BY <1>2, <2>2, <2>8, <2>9
  <2>12. Nul \in Chars /\ Append(x, Nul) \in Text
    <3>1. Nul \in Chars
      BY ITCPrintAssumption
    <3> QED
      BY <3>1, AppendProperties DEF Text
  <2>13. /\ pbuff'[c] = [m EXCEPT ![in] = Nul] /\ pbo'[c] = out /\ pbi'[c] = in
    BY <1>3, <1>4, <2>2, <2>8
  <2>14. lines[c] = <<>>
    BY IdleShape DEF NoNode, InProgress
  <2>15. CASE b.done
    <3>1. lines'[c] = Append(<<>>, line) /\ current'[c] = NoLine
      BY <1>3, <1>4, <2>14, <2>15
    <3>2. Len(lines'[c]) = 1 /\ lines'[c][1] = line /\ DOMAIN lines'[c] = {1}
      BY <3>1, OneLine
    <3>3. Kept(lines'[c], current'[c]) = Append(x, Nul)
      BY <2>11, <3>2, KeptOne
    <3>4. Rings(m, out, in, Append(x, Nul))
      BY <2>7, <2>8, <2>9, <2>15 DEF Closed, Keeps
    <3>5. Rings([m EXCEPT ![in] = Nul], out, in, Append(x, Nul))
      BY <2>12, <3>4, RingBehind
    <3>6. current'[c].text = <<>> /\ Clean(<<>>)
      BY <3>1, CleanEmpty DEF NoLine
    <3> QED
      BY <2>10, <2>11, <2>13, <3>2, <3>3, <3>5, <3>6 DEF RingOf
  <2>16. CASE ~b.done
    <3>1. lines'[c] = <<>> /\ current'[c] = line
      BY <1>3, <1>4, <2>14, <2>16
    <3>2. DOMAIN lines'[c] = {}
      BY <3>1
    <3>3. Kept(lines'[c], current'[c]) = x
      BY <2>11, <3>1, KeptNone
    <3>4. Rings(m, out, in, x)
      BY <2>7, <2>8, <2>9, <2>16 DEF Closed, Keeps
    <3>5. Rings([m EXCEPT ![in] = Nul], out, in, x) /\ [m EXCEPT ![in] = Nul][in] = Nul
      BY <2>12, <3>4, RingBehind
    <3> QED
      BY <2>10, <2>11, <2>13, <3>1, <3>2, <3>3, <3>5 DEF RingOf
  <2> QED
    BY <2>15, <2>16
<1> QED
  BY <1>3, <1>5, <1>6, RingsAfter

\* The buffer of a no-load string that does not overrun: it keeps the message it ends,
\* with a terminator, and its own text.
NlsKept(c) == IF Ending(c) THEN Append(current[c].text, Nul) ELSE <<>>
LEMMA NlsAccepts ==
    ASSUME TypeInv, ListsInv, NEW c \in Cores, numMsgs[c] = 0,
           RingOf(pbuff[c], pbo[c], pbi[c], lines[c], current[c]), Ended(c).room >= 0
    PROVE  Accepts(Roomed(c), pbo[c], NlsKept(c)) /\ NlsKept(c) \in Text
<1>1. PICK a \in Buffer, t \in Text, out \in Index :
          a = BufferOf(c) /\ t = current[c].text /\ out = pbo[c]
  <2>1. BufferOf(c) \in Buffer /\ pbo[c] \in Index
    BY BufferStart DEF TypeInv, TypeOK, Index
  <2> QED
    BY <2>1, BufferAccepts
<1>2. Keeps(a, out, t) /\ a.accepted = <<>> /\ (tsList[c] = 0 => t = <<>>)
  BY <1>1, BufferAccepts, BufferStart
<1>3. <<>> \in Text /\ Nul \in Chars
  BY ITCPrintAssumption, CleanEmpty
<1>4. PICK e \in Buffer : e = Ended(c)
  BY <1>3, NlsBufferType
<1>5. NlsKept(c) \in Text /\ Keeps(e, out, NlsKept(c)) /\ e.accepted = <<>>
  <2>1. CASE Ending(c)
    <3>1. PICK p : p = Put(a, Nul)
      OBVIOUS
    <3>2. p \in Buffer /\ p.room = a.room - 1 /\ p.accepted = <<>>
      BY <1>2, <1>3, <3>1, PutType
    <3>3. e = [p EXCEPT !.msgs = @ + 1]
      BY <1>1, <1>4, <2>1, <3>1 DEF Ended
    <3>4. e.room = p.room /\ e.mem = p.mem /\ e.in = p.in /\ e.accepted = p.accepted
      BY <3>2, <3>3 DEF Buffer
    <3>5. a.room >= 1
      <4>1. a.room \in Int /\ e.room >= 0
        BY <1>4 DEF Buffer
      <4> QED
        BY <3>2, <3>4, <4>1
    <3>6. Keeps(p, out, Append(t, Nul))
      BY <1>2, <1>3, <3>1, <3>5, PutKeeps
    <3>7. NlsKept(c) = Append(t, Nul) /\ Append(t, Nul) \in Text
      BY <1>1, <1>3, <2>1, AppendProperties DEF NlsKept, Text
    <3> QED
      BY <3>2, <3>4, <3>6, <3>7 DEF Keeps
  <2>2. CASE ~Ending(c)
    <3>1. tsList[c] = 0
      BY <2>2, IdleShape DEF Ending, NoNode, InProgress
    <3>2. e = a /\ NlsKept(c) = <<>>
      BY <1>1, <1>4, <2>2 DEF Ended, NlsKept
    <3> QED
      BY <1>2, <1>3, <3>1, <3>2
  <2> QED
    BY <2>1, <2>2
<1>6. PICK x \in Text : x = NlsKept(c)
  BY <1>5
<1>7. PICK r \in Buffer : r = Roomed(c)
  BY <1>3, NlsBufferType
<1>8. r.room = e.room
  BY <1>4, <1>7, RoomedIs
<1>9. r.mem = e.mem /\ r.in = e.in /\ r.accepted = e.accepted
  <2>1. r = [e EXCEPT !.room = RoomBetween(e.in, pbo[c])]
    BY <1>4, <1>7 DEF Roomed
  <2> QED
    BY <2>1 DEF Buffer
<1>10. x \o <<>> = x
  BY ConcatEmptySeq DEF Text
<1>11. Accepts(r, out, x)
  BY <1>5, <1>6, <1>8, <1>9, <1>10, CleanEmpty DEF Accepts, Keeps
<1> QED
  BY <1>1, <1>5, <1>6, <1>7, <1>11

\* A no-load string keeps the rings.
LEMMA NlsPrintRings ==
    ASSUME TypeInv, ListsInv, RingsInv, NEW c \in Cores, numMsgs[c] = 0,
           NEW w \in NlsTexts, NlsPrint(c, w)
    PROVE  RingsInv' /\ \A d \in Cores : overrun[d] => overrun'[d]
<1>1. PICK b \in Buffer : Sent(c, w, b)
  BY NlsLinkedOk, NlsPrintIs
<1>2. PICK line : line = [text |-> b.accepted, start |-> time, end |-> time]
  OBVIOUS
<1>3. /\ pbuff' = [pbuff EXCEPT ![c] = b.mem] /\ pbi' = [pbi EXCEPT ![c] = b.in] /\ pbo' = pbo
      /\ lines' = [lines EXCEPT ![c] = Append(NlsDone(c), line)]
      /\ current' = [current EXCEPT ![c] = NoLine]
      /\ overrun' = [overrun EXCEPT ![c] = overrun[c] \/ (Ended(c).room < 0 \/ b.room < 0)]
  BY <1>1, <1>2 DEF Sent
<1>4. /\ pbuff \in [Cores -> Mem] /\ pbi \in [Cores -> Index] /\ pbo \in [Cores -> Index]
      /\ lines \in [Cores -> Seq(Line)] /\ current \in [Cores -> Line] /\ overrun \in [Cores -> BOOLEAN]
  BY DEF TypeInv, TypeOK, Mem, Index
<1>5. overrun'[c] = (overrun[c] \/ (Ended(c).room < 0 \/ b.room < 0))
  BY <1>3, <1>4, Zenon
<1>6. \A d \in Cores : d # c => overrun'[d] = overrun[d]
  BY <1>3, <1>4, Zenon
<1>7. \A d \in Cores : overrun[d] => overrun'[d]
  BY <1>5, <1>6, Zenon
<1>8. \A d \in Cores : d # c => /\ pbuff'[d] = pbuff[d] /\ pbo'[d] = pbo[d] /\ pbi'[d] = pbi[d]
                                /\ lines'[d] = lines[d] /\ current'[d] = current[d]
                                /\ (overrun[d] => overrun'[d])
  BY <1>3, <1>4, <1>7
<1>9. ASSUME ~overrun'[c]
      PROVE  RingOf(pbuff'[c], pbo'[c], pbi'[c], lines'[c], current'[c])
  <2>0. ~overrun[c] /\ ~(Ended(c).room < 0) /\ ~(b.room < 0)
    BY <1>5, <1>9, Zenon
  <2>1. w \in Text /\ Clean(w) /\ <<>> \in Text /\ Nul \in Chars
    <3>1. w \in Text /\ Nul \notin ToSet(w) /\ Nul \in Chars
      BY ITCPrintAssumption DEF Text
    <3>2. Clean(w)
      BY <3>1 DEF ToSet, Clean
    <3> QED
      BY <3>1, <3>2, CleanEmpty
  <2>2. RingOf(pbuff[c], pbo[c], pbi[c], lines[c], current[c])
    BY <2>0 DEF RingsInv
  <2>3. Ended(c).room >= 0
    <3>1. Ended(c) \in Buffer
      BY <2>1, NlsBufferType
    <3>2. Ended(c).room \in Int
      BY <3>1 DEF Buffer
    <3> QED
      BY <2>0, <3>2
  <2>4. PICK r \in Buffer, x \in Text, out \in Index : r = Roomed(c) /\ x = NlsKept(c) /\ out = pbo[c]
    <3>1. Roomed(c) \in Buffer
      BY <2>1, NlsBufferType
    <3> QED
      BY <1>4, <2>2, <2>3, <3>1, NlsAccepts
  <2>5. Accepts(r, out, x)
    BY <2>2, <2>3, <2>4, NlsAccepts
  <2>6. PICK p \in Buffer : p = NlsText(c, w)
    BY <2>1, NlsBufferType
  <2>7. Accepts(p, out, x)
    <3>1. Accepts(PutNls(r, w), out, x)
      BY <2>1, <2>5, PutNlsKeeps
    <3> QED
      BY <2>4, <2>6, <3>1 DEF NlsText
  <2>8. PICK acc \in Text, y \in Text : acc = p.accepted /\ y = x \o acc
    <3>1. p.accepted \in Text
      BY DEF Buffer
    <3> QED
      BY <3>1, KeptAppend
  <2>9. Keeps(p, out, y) /\ Clean(acc)
    BY <2>7, <2>8 DEF Accepts
  <2>10. PICK q : q = Put(p, Nul)
    OBVIOUS
  <2>11. q \in Buffer /\ q.room = p.room - 1 /\ q.accepted = acc
    BY <2>1, <2>8, <2>10, PutType
  <2>12. b = [q EXCEPT !.msgs = @ + 1]
    BY <1>1, <2>6, <2>10 DEF Sent
  <2>13. b.room = q.room /\ b.mem = q.mem /\ b.in = q.in /\ b.accepted = acc
    BY <2>11, <2>12 DEF Buffer
  <2>14. p.room >= 1
    <3>1. p.room \in Int
      BY DEF Buffer
    <3> QED
      BY <2>0, <2>11, <2>13, <3>1
  <2>15. Keeps(q, out, Append(y, Nul))
    BY <2>1, <2>9, <2>10, <2>14, PutKeeps
  <2>16. Rings(b.mem, out, b.in, Append(y, Nul))
    BY <2>13, <2>15 DEF Keeps
  <2>17. pbuff'[c] = b.mem /\ pbo'[c] = out /\ pbi'[c] = b.in /\ current'[c] = NoLine
    BY <1>3, <1>4, <2>4
  <2>18. lines'[c] = Append(NlsDone(c), line) /\ line.text = acc /\ lines[c] = <<>>
    BY <1>2, <1>3, <1>4, <2>13, IdleShape DEF NoNode, InProgress
  <2>19. current'[c].text = <<>> /\ Clean(<<>>)
    BY <2>17, CleanEmpty DEF NoLine
  <2>20. CASE Ending(c)
    <3>1. lines'[c] = Append(Append(<<>>, current[c]), line)
      BY <2>18, <2>20 DEF NlsDone
    <3>2. Len(lines'[c]) = 2 /\ lines'[c][1] = current[c] /\ lines'[c][2] = line
      BY <3>1, TwoLines
    <3>3. DOMAIN lines'[c] = {1, 2}
      BY <3>1
    <3>4. PICK t \in Text : t = current[c].text
      BY <2>2, BufferAccepts
    <3>5. Clean(t) /\ x = Append(t, Nul)
      BY <2>2, <2>4, <2>20, <3>4, BufferAccepts DEF NlsKept
    <3>6. Append(y, Nul) = x \o Append(acc, Nul)
      BY <2>8, KeptAppend
    <3>7. Kept(lines'[c], current'[c]) = Append(lines'[c][1].text, Nul) \o Append(lines'[c][2].text, Nul)
      BY <3>2, KeptTwo
    <3>8. Kept(lines'[c], current'[c]) = Append(y, Nul)
      BY <2>18, <3>2, <3>4, <3>5, <3>6, <3>7, Zenon
    <3>9. \A i \in DOMAIN lines'[c] : Clean(lines'[c][i].text)
      BY <2>9, <2>18, <3>2, <3>3, <3>4, <3>5
    <3> QED
      BY <2>16, <2>17, <2>19, <3>8, <3>9 DEF RingOf
  <2>21. CASE ~Ending(c)
    <3>1. lines'[c] = Append(<<>>, line) /\ x = <<>>
      BY <2>4, <2>18, <2>21 DEF NlsDone, NlsKept
    <3>2. Len(lines'[c]) = 1 /\ lines'[c][1] = line /\ DOMAIN lines'[c] = {1}
      BY <3>1, OneLine
    <3>3. y = acc
      BY <2>8, <3>1, ConcatEmptySeq DEF Text
    <3>4. Kept(lines'[c], current'[c]) = Append(y, Nul)
      BY <2>18, <3>2, <3>3, KeptOne
    <3>5. \A i \in DOMAIN lines'[c] : Clean(lines'[c][i].text)
      BY <2>9, <2>18, <3>2
    <3> QED
      BY <2>16, <2>17, <2>19, <3>4, <3>5 DEF RingOf
  <2> QED
    BY <2>20, <2>21
<1>10. RingsInv'
  BY <1>8, <1>9, RingsAfter
<1> QED
  BY <1>7, <1>10

\* The limits of a caller LikeMain leave room for what a buffer may hold.
LEMMA LimitRoomy ==
    ASSUME LikeMain, NEW limit \in {BuffSize} \cup {n - 1 : n \in DstLens}
    PROVE  limit \in Nat /\ limit >= BuffSize - 1
<1>1. BuffSize \in Nat /\ DstLens \subseteq Nat /\ \A n \in DstLens : n >= BuffSize
  BY ITCPrintAssumption DEF LikeMain
<1>2. limit \in Nat
  BY LimitType
<1> QED
  BY <1>1, <1>2

\* What a ring that holds a complete message holds behind its terminator.
Rest(ls) == IF Len(ls) = 1 THEN <<>> ELSE Append(ls[2].text, Nul)
LEMMA KeptSplit ==
    ASSUME NEW ls \in Seq(Line), Len(ls) \in {1, 2}, NEW cur
    PROVE  /\ Kept(ls, cur) = Append(ls[1].text, Nul) \o Rest(ls) /\ Rest(ls) \in Text
           /\ ls[1].text \in Text /\ Append(ls[1].text, Nul) \in Text
<1>0. Nul \in Chars /\ ls \in [1..Len(ls) -> Line]
  BY ITCPrintAssumption, LenProperties
<1>1. PICK t \in Text : t = ls[1].text
  <2>1. ls[1] \in Line
    BY <1>0
  <2> QED
    BY <2>1 DEF Line, Text
<1>2. Append(t, Nul) \in Text
  BY <1>0, AppendProperties DEF Text
<1>3. CASE Len(ls) = 1
  <2>1. Rest(ls) = <<>> /\ Kept(ls, cur) = Append(t, Nul)
    BY <1>1, <1>3, KeptOne DEF Rest
  <2>2. Append(t, Nul) \o <<>> = Append(t, Nul)
    BY <1>2, ConcatEmptySeq DEF Text
  <2> QED
    BY <1>1, <1>2, <2>1, <2>2, CleanEmpty
<1>4. CASE Len(ls) = 2
  <2>1. PICK u \in Text : u = ls[2].text
    <3>1. ls[2] \in Line
      BY <1>0, <1>4
    <3> QED
      BY <3>1 DEF Line, Text
  <2>2. Append(u, Nul) \in Text
    BY <1>0, AppendProperties DEF Text
  <2>3. Rest(ls) = Append(u, Nul)
    BY <1>4, <2>1 DEF Rest
  <2>4. Kept(ls, cur) = Append(t, Nul) \o Append(u, Nul)
    BY <1>1, <1>4, <2>1, KeptTwo, Zenon
  <2> QED
    BY <1>1, <1>2, <2>2, <2>3, <2>4
<1> QED
  BY <1>3, <1>4

\* The oldest message is read as it was written, and the ring holds the rest.
LEMMA OldestText ==
    ASSUME TypeInv, ListsInv, NEW c \in Cores, numMsgs[c] > 0, NEW limit \in Nat, limit >= BuffSize - 1,
           RingOf(pbuff[c], pbo[c], pbi[c], lines[c], current[c])
    PROVE  /\ TextFrom(c, limit) = lines[c][1].text
           /\ Rings(pbuff[c], (pbo[c] + Len(lines[c][1].text) + 1) % BuffSize, pbi[c], Rest(lines[c]))
<1>1. lines[c] \in Seq(Line) /\ pbo[c] \in Index /\ BuffSize \in Nat \ {0}
  BY ITCPrintAssumption DEF TypeInv, TypeOK, Index
<1>2. Len(lines[c]) \in {1, 2}
  BY BusyShape DEF OneDone, TwoDone
<1>3. PICK t, r, m, out, in :
          t = lines[c][1].text /\ r = Rest(lines[c]) /\ m = pbuff[c] /\ out = pbo[c] /\ in = pbi[c]
  OBVIOUS
<1>4. t \in Text /\ r \in Text /\ out \in Index
  BY <1>1, <1>2, <1>3, KeptSplit
<1>5. PICK a \in Text : a = Append(t, Nul)
  BY <1>1, <1>2, <1>3, KeptSplit
<1>6. Rings(m, out, in, a \o r) /\ Clean(t)
  <2>1. Kept(lines[c], current[c]) = a \o r
    BY <1>1, <1>2, <1>3, <1>5, KeptSplit
  <2>2. 1 \in DOMAIN lines[c]
    BY <1>1, <1>2, LenProperties
  <2> QED
    BY <1>3, <2>1, <2>2 DEF RingOf
<1>7. /\ Rings(m, Slot(out, Len(a)), in, r) /\ Len(a) + Len(r) < BuffSize
      /\ \A i \in 1..Len(a) : m[Slot(out, i - 1)] = a[i]
  BY <1>6, <1>4, RingDrop
<1>8. /\ Len(t) \in Nat /\ Len(r) \in Nat /\ Len(a) = Len(t) + 1 /\ a[Len(t) + 1] = Nul
      /\ \A i \in 1..Len(t) : a[i] = t[i]
  BY <1>5, <1>4, AppendProperties, LenProperties DEF Text
<1>9. \A i \in 1..Len(t) : m[Slot(out, i - 1)] = t[i]
  BY <1>7, <1>8, <1>4
<1>10. m[Slot(out, Len(t))] = Nul
  <2>1. Len(t) + 1 \in 1..Len(a) /\ (Len(t) + 1) - 1 = Len(t)
    BY <1>8
  <2>2. m[Slot(out, (Len(t) + 1) - 1)] = a[Len(t) + 1]
    BY <1>7, <2>1
  <2> QED
    BY <1>8, <2>1, <2>2
<1>11. Len(t) <= limit /\ Len(t) < BuffSize
  BY <1>1, <1>7, <1>8
<1>12. TextFrom(c, limit) = t
  BY <1>3, <1>6, <1>9, <1>10, <1>11, <1>4, RingText
<1>13. (out + Len(t) + 1) % BuffSize = Slot(out, Len(a))
  <2>1. Len(a) \in 0..BuffSize /\ out + Len(t) + 1 = out + Len(a)
    BY <1>1, <1>7, <1>8, <1>4 DEF Index
  <2>2. (out + Len(a)) % BuffSize = Slot(out, Len(a))
    BY <1>4, <2>1, SlotMod
  <2> QED
    BY <2>1, <2>2
<1> QED
  BY <1>3, <1>7, <1>12, <1>13

\* Reading a message keeps the rings, and the message has its text and times.
LEMMA GetPrintRings ==
    ASSUME TypeInv, ListsInv, RingsInv, NEW c \in Cores, NEW limit \in Nat, limit >= BuffSize - 1,
           GetPrint(c, limit), overrun' = overrun
    PROVE  RingsInv' /\ (~overrun[c] => lastRead'.got = lastRead'.expected)
<1>1. numMsgs[c] > 0 /\ Took(c, limit)
  BY GetPrintIs
<1>2. PICK tsl, text : tsl = TerminatedTsList(c) /\ text = TextFrom(c, limit)
  OBVIOUS
<1>3. /\ pbo' = [pbo EXCEPT ![c] = (pbo[c] + Len(text) + 1) % BuffSize]
      /\ lastRead' = [got |-> [text |-> text, start |-> heap[tsl].startTime,
                               end |-> heap[tsl].endTime],
                      expected |-> Head(lines[c])]
      /\ lines' = [lines EXCEPT ![c] = Tail(lines[c])]
      /\ pbuff' = pbuff /\ pbi' = pbi /\ current' = current
  BY <1>1, <1>2 DEF Took
<1>4. /\ pbo \in [Cores -> Index] /\ lines \in [Cores -> Seq(Line)]
  BY DEF TypeInv, TypeOK, Index
<1>5. \A d \in Cores : d # c => /\ pbuff'[d] = pbuff[d] /\ pbo'[d] = pbo[d] /\ pbi'[d] = pbi[d]
                                /\ lines'[d] = lines[d] /\ current'[d] = current[d]
                                /\ (overrun[d] => overrun'[d])
  BY <1>3, <1>4
<1>6. PICK ls \in Seq(Line) : ls = lines[c]
  BY <1>4
<1>7. /\ current[c] = NoLine
      /\ Len(ls) \in {1, 2}
  BY <1>1, <1>6, BusyShape DEF OneDone, TwoDone
<1>8. ASSUME ~overrun[c]
      PROVE  /\ RingOf(pbuff'[c], pbo'[c], pbi'[c], lines'[c], current'[c])
             /\ lastRead'.got = lastRead'.expected
  <2>1. RingOf(pbuff[c], pbo[c], pbi[c], lines[c], current[c])
    BY <1>8 DEF RingsInv
  <2>2. text = ls[1].text
    BY <1>1, <1>2, <1>6, <2>1, OldestText
  <2>3. Rings(pbuff[c], (pbo[c] + Len(text) + 1) % BuffSize, pbi[c], Rest(ls))
    BY <1>1, <1>6, <2>1, <2>2, OldestText
  <2>4. /\ pbuff'[c] = pbuff[c] /\ pbo'[c] = (pbo[c] + Len(text) + 1) % BuffSize /\ pbi'[c] = pbi[c]
        /\ lines'[c] = Tail(ls) /\ current'[c] = NoLine
    BY <1>3, <1>4, <1>6, <1>7
  <2>5. Kept(Tail(ls), NoLine) = Rest(ls) /\ \A i \in DOMAIN Tail(ls) : Clean(Tail(ls)[i].text)
    <3>1. CASE Len(ls) = 1
      <4>1. Tail(ls) = <<>> /\ Rest(ls) = <<>>
        BY <3>1, TailOfOne DEF Rest
      <4>2. Kept(<<>>, NoLine) = <<>>
        BY KeptNone DEF NoLine
      <4>3. DOMAIN <<>> = {}
        OBVIOUS
      <4> QED
        BY <4>1, <4>2, <4>3
    <3>2. CASE Len(ls) = 2
      <4>1. PICK r : r = Tail(ls)
        OBVIOUS
      <4>2. Len(r) = 1 /\ r[1] = ls[2] /\ r \in Seq(Line)
        <5>1. ls # <<>>
          BY <3>2, EmptySeq
        <5> QED
          BY <3>2, <4>1, <5>1, TailOfTwo, HeadTailProperties
      <4>3. Kept(r, NoLine) = Append(ls[2].text, Nul)
        BY <4>2, KeptOne
      <4>4. Rest(ls) = Append(ls[2].text, Nul)
        BY <3>2 DEF Rest
      <4>5. DOMAIN r = {1} /\ 2 \in DOMAIN ls
        BY <3>2, <4>2, LenProperties
      <4>6. Clean(ls[2].text)
        BY <1>6, <2>1, <4>5 DEF RingOf
      <4> QED
        BY <4>1, <4>2, <4>3, <4>4, <4>5, <4>6
    <3> QED
      BY <1>7, <3>1, <3>2
  <2>6. NoLine.text = <<>> /\ Clean(NoLine.text)
    BY CleanEmpty DEF NoLine
  <2>7. RingOf(pbuff'[c], pbo'[c], pbi'[c], lines'[c], current'[c])
    BY <2>3, <2>4, <2>5, <2>6 DEF RingOf
  <2>8. Stamped(heap, tsl, ls[1])
    BY <1>1, <1>2, <1>6, OldestNode
  <2>9. PICK l \in Line : l = ls[1]
    <3>1. ls \in [1..Len(ls) -> Line]
      BY LenProperties
    <3> QED
      BY <1>7, <3>1
  <2>10. Head(ls) = l
    <3>1. Len(ls) > 0
      <4>1. PICK k : k = Len(ls)
        OBVIOUS
      <4>2. k > 0
        BY <1>7, <4>1
      <4> QED
        BY <4>1, <4>2, Zenon
    <3>2. Ends(ls)
      BY <3>1, EndsOfSeq
    <3> QED
      BY <2>9, <3>2, Zenon DEF Ends
  <2>11. lastRead'.got = [text |-> text, start |-> heap[tsl].startTime, end |-> heap[tsl].endTime]
    BY <1>3
  <2>12. lastRead'.expected = l
    BY <1>3, <1>6, <2>10
  <2>13. text = l.text /\ heap[tsl].startTime = l.start /\ heap[tsl].endTime = l.end
    BY <2>2, <2>8, <2>9 DEF Stamped
  <2>14. l = [text |-> l.text, start |-> l.start, end |-> l.end]
    BY DEF Line
  <2>15. lastRead'.got = lastRead'.expected
    BY <2>11, <2>12, <2>13, <2>14
  <2> QED
    BY <2>7, <2>15
<1>9. RingsInv'
  BY <1>5, <1>8, RingsAfter
<1> QED
  BY <1>8, <1>9

\* Flushing keeps the rings, and the message has its text and times.
LEMMA FlushPrintRings ==
    ASSUME TypeInv, ListsInv, RingsInv, NEW c \in Cores, NEW limit \in Nat, limit >= BuffSize - 1,
           FlushPrint(c, limit), overrun' = overrun
    PROVE  RingsInv' /\ (~overrun[c] => lastRead' = lastRead \/ lastRead'.got = lastRead'.expected)
<1>1. CASE UNCHANGED <<itc, current, lastRead, lines>>
  <2>1. /\ pbuff' = pbuff /\ pbi' = pbi /\ pbo' = pbo /\ lines' = lines /\ current' = current
        /\ lastRead' = lastRead
    BY <1>1 DEF itc
  <2>2. RingsInv'
    BY <2>1, Zenon DEF RingsInv
  <2> QED
    BY <2>1, <2>2
<1>2. CASE InProgress(heap, tsList[c], lines[c], current[c], 0) /\ numMsgs[c] = 0 /\ Flushed(c, limit)
  <2>1. PICK tsl, text : tsl = tsList[c] /\ text = TextFrom(c, limit)
    OBVIOUS
  <2>2. /\ pbo' = [pbo EXCEPT ![c] = (pbo[c] + Len(text)) % BuffSize]
        /\ lastRead' = [got |-> [text |-> text, start |-> heap[tsl].startTime,
                                 end |-> heap[tsl].endTime],
                        expected |-> current[c]]
        /\ current' = [current EXCEPT ![c] = NoLine]
        /\ pbuff' = pbuff /\ pbi' = pbi /\ lines' = lines
    BY <1>2, <2>1 DEF Flushed
  <2>3. /\ pbo \in [Cores -> Index] /\ current \in [Cores -> Line] /\ BuffSize \in Nat \ {0}
    BY ITCPrintAssumption DEF TypeInv, TypeOK, Index
  <2>4. \A d \in Cores : d # c => /\ pbuff'[d] = pbuff[d] /\ pbo'[d] = pbo[d] /\ pbi'[d] = pbi[d]
                                  /\ lines'[d] = lines[d] /\ current'[d] = current[d]
                                  /\ (overrun[d] => overrun'[d])
    BY <2>2, <2>3
  <2>5. ASSUME ~overrun[c]
        PROVE  /\ RingOf(pbuff'[c], pbo'[c], pbi'[c], lines'[c], current'[c])
               /\ lastRead'.got = lastRead'.expected
    <3>1. RingOf(pbuff[c], pbo[c], pbi[c], lines[c], current[c])
      BY <2>5 DEF RingsInv
    <3>2. PICK t \in Text : t = current[c].text
      BY <1>2, <3>1, BufferAccepts
    <3>3. lines[c] = <<>> /\ Stamped(heap, tsl, current[c])
      BY <1>2, <2>1 DEF InProgress
    <3>4. Rings(pbuff[c], pbo[c], pbi[c], t) /\ Clean(t) /\ (t # <<>> => pbuff[c][pbi[c]] = Nul)
      BY <3>1, <3>2, <3>3, KeptNone DEF RingOf
    <3>5. /\ Len(t) \in Nat /\ Len(t) < BuffSize /\ pbi[c] = Slot(pbo[c], Len(t))
          /\ \A i \in 1..Len(t) : pbuff[c][Slot(pbo[c], i - 1)] = t[i]
      BY <3>4, LenProperties DEF Rings, Text
    <3>6. t # <<>>
      <4>1. pbo[c] # pbi[c]
        BY DEF FlushPrint
      <4>2. Len(t) = 0 => Slot(pbo[c], Len(t)) = pbo[c]
        BY <2>3 DEF Slot, Index
      <4> QED
        BY <3>5, <4>1, <4>2, CleanEmpty
    <3>7. pbuff[c][Slot(pbo[c], Len(t))] = Nul
      BY <3>4, <3>5, <3>6
    <3>8. Len(t) <= limit
      BY <2>3, <3>5
    <3>9. text = t
      BY <2>1, <3>4, <3>5, <3>7, <3>8, RingText
    <3>10. (pbo[c] + Len(text)) % BuffSize = pbi[c]
      <4>1. Len(t) \in 0..BuffSize
        BY <2>3, <3>5
      <4> QED
        BY <2>3, <3>5, <3>9, <4>1, SlotMod
    <3>11. /\ pbuff'[c] = pbuff[c] /\ pbo'[c] = pbi[c] /\ pbi'[c] = pbi[c]
           /\ lines'[c] = <<>> /\ current'[c] = NoLine
      BY <2>2, <2>3, <3>3, <3>10
    <3>12. RingOf(pbuff'[c], pbo'[c], pbi'[c], lines'[c], current'[c])
      <4>1. Kept(<<>>, NoLine) = <<>> /\ NoLine.text = <<>> /\ Clean(<<>>) /\ Len(<<>>) = 0
        BY KeptNone, CleanEmpty DEF NoLine
      <4>2. pbi[c] \in Index
        BY DEF TypeInv, TypeOK, Index
      <4>3. Slot(pbi[c], 0) = pbi[c]
        BY <2>3, <4>2 DEF Slot, Index
      <4>4. Rings(pbuff[c], pbi[c], pbi[c], <<>>)
        BY <2>3, <4>1, <4>3 DEF Rings
      <4>5. DOMAIN <<>> = {}
        OBVIOUS
      <4> QED
        BY <3>11, <4>1, <4>4, <4>5 DEF RingOf
    <3>13. lastRead'.got = [text |-> text, start |-> heap[tsl].startTime, end |-> heap[tsl].endTime]
      BY <2>2
    <3>14. lastRead'.expected = current[c]
      BY <2>2
    <3>15. PICK l \in Line : l = current[c]
      BY <2>3
    <3>16. text = l.text /\ heap[tsl].startTime = l.start /\ heap[tsl].endTime = l.end
      BY <3>2, <3>3, <3>9, <3>15 DEF Stamped
    <3>17. l = [text |-> l.text, start |-> l.start, end |-> l.end]
      BY DEF Line
    <3>18. lastRead'.got = lastRead'.expected
      BY <3>13, <3>14, <3>15, <3>16, <3>17
    <3> QED
      BY <3>12, <3>18
  <2>6. RingsInv'
    BY <2>4, <2>5, RingsAfter
  <2> QED
    BY <2>5, <2>6
<1> QED
  BY <1>1, <1>2, FlushPrintIs

\* At the start the rings are empty.
LEMMA InitRings == Init => RingsInv
<1> SUFFICES ASSUME Init, NEW c \in Cores
             PROVE  RingOf(pbuff[c], pbo[c], pbi[c], lines[c], current[c])
  BY DEF RingsInv
<1>1. pbo[c] = 0 /\ pbi[c] = 0 /\ lines[c] = <<>> /\ current[c] = NoLine
  BY DEF Init
<1>2. Kept(<<>>, NoLine) = <<>> /\ NoLine.text = <<>> /\ Clean(<<>>) /\ Len(<<>>) = 0
  BY KeptNone, CleanEmpty DEF NoLine
<1>3. BuffSize \in Nat \ {0}
  BY ITCPrintAssumption
<1>4. Slot(0, 0) = 0
  BY <1>3 DEF Slot
<1>5. Rings(pbuff[c], 0, 0, <<>>)
  BY <1>2, <1>3, <1>4 DEF Rings
<1>6. DOMAIN <<>> = {}
  OBVIOUS
<1> QED
  BY <1>1, <1>2, <1>5, <1>6 DEF RingOf

\* Every step keeps the rings, and what is read has its text and times.
LEMMA NextRings ==
    ASSUME LikeMain
    PROVE  TypeInv /\ ListsInv /\ RingsInv /\ MessageMatchesTimes /\ [Next]_vars
              => RingsInv' /\ MessageMatchesTimes'
<1> SUFFICES ASSUME TypeInv, ListsInv, RingsInv, MessageMatchesTimes, [Next]_vars
             PROVE  RingsInv' /\ MessageMatchesTimes'
  OBVIOUS
<1>1. CASE Write
  <2>1. PICK c \in Cores : \/ \E w \in Words : PrintWord(c, w)
                           \/ \E t \in NlsTexts : NlsPrint(c, t)
    BY <1>1 DEF Write
  <2>2. numMsgs[c] = 0 /\ lastRead' = lastRead
    BY <1>1 DEF Write, LikeMain, getITCPrintMask
  <2>3. RingsInv' /\ \A d \in Cores : overrun[d] => overrun'[d]
    <3>1. CASE \E w \in Words : PrintWord(c, w)
      BY <2>2, <3>1, PrintWordRings
    <3>2. CASE \E t \in NlsTexts : NlsPrint(c, t)
      BY <2>2, <3>2, NlsPrintRings
    <3> QED
      BY <2>1, <3>1, <3>2
  <2>4. MessageMatchesTimes'
    BY <2>2, <2>3, Zenon DEF MessageMatchesTimes
  <2> QED
    BY <2>3, <2>4
<1>2. CASE Read
  <2>1. PICK c \in Cores, limit \in {BuffSize} \cup {n - 1 : n \in DstLens} :
              GetPrint(c, limit) \/ FlushPrint(c, limit)
    BY <1>2 DEF Read
  <2>2. limit \in Nat /\ limit >= BuffSize - 1
    BY LimitRoomy
  <2>3. overrun' = overrun
    BY <1>2 DEF Read
  <2>4. RingsInv' /\ (~overrun[c] => lastRead' = lastRead \/ lastRead'.got = lastRead'.expected)
    <3>1. CASE GetPrint(c, limit)
      BY <2>2, <2>3, <3>1, GetPrintRings
    <3>2. CASE FlushPrint(c, limit)
      BY <2>2, <2>3, <3>2, FlushPrintRings
    <3> QED
      BY <2>1, <3>1, <3>2
  <2>5. MessageMatchesTimes'
    BY <2>3, <2>4, Zenon DEF MessageMatchesTimes
  <2> QED
    BY <2>4, <2>5
<1>3. CASE UNCHANGED vars
  <2>1. /\ pbuff' = pbuff /\ pbi' = pbi /\ pbo' = pbo /\ lines' = lines /\ current' = current
        /\ lastRead' = lastRead /\ overrun' = overrun
    BY <1>3 DEF vars, itc
  <2> QED
    BY <2>1, Zenon DEF RingsInv, MessageMatchesTimes
<1> QED
  BY <1>1, <1>2, <1>3 DEF Next

\* For a target and a caller LikeMain, and unless a no-load string has overrun a
\* buffer, every message read has the text that was written and the times of its first
\* and its last write: pbuff and the TsList of a core never get out of step.
THEOREM MessageMatchesTimesHolds ==
    ASSUME LikeMain
    PROVE  Spec => []MessageMatchesTimes
<1> DEFINE Inv == TypeInv /\ ListsInv /\ RingsInv /\ MessageMatchesTimes
<1>1. Init => Inv
  <2>1. Init => MessageMatchesTimes
    BY DEF Init, MessageMatchesTimes
  <2> QED
    BY <2>1, InitType, InitLists, InitRings
<1>2. Inv /\ [Next]_vars => Inv'
  BY NextType, NextLists, NextRings
<1>3. Inv => MessageMatchesTimes
  OBVIOUS
<1> QED
  BY <1>1, <1>2, <1>3, PTL DEF Spec

\* For a target and a caller LikeMain no nullptr is dereferenced: the newest node of a
\* list always points back to a node, which print() follows to link another one and
\* consumeTerminatedTsList to find the oldest.
THEOREM NeverDereferencesNull ==
    ASSUME LikeMain
    PROVE  Spec => []~crashed
<1>1. Init => TypeInv /\ ListsInv /\ ~crashed
  BY InitType, InitLists DEF Init
<1>2. TypeInv /\ ListsInv /\ ~crashed /\ [Next]_vars => (TypeInv /\ ListsInv /\ ~crashed)'
  <2> SUFFICES ASSUME TypeInv, ListsInv, ~crashed, [Next]_vars PROVE ~crashed'
    BY NextType, NextLists
  <2>1. CASE Write
    <3>1. PICK c \in Cores : \/ \E w \in Words : PrintWord(c, w)
                             \/ \E t \in NlsTexts : NlsPrint(c, t)
      BY <2>1 DEF Write
    <3>2. numMsgs[c] = 0
      BY <2>1 DEF Write, LikeMain, getITCPrintMask
    <3>3. ASSUME NEW w \in Words, PrintWord(c, w) PROVE ~crashed'
      <4>1. PICK b \in Buffer, s \in Nat : Wrote(c, w, b, s)
        BY <3>2, <3>3, WordLinked, PrintWordIs
      <4> QED
        BY <4>1 DEF Wrote
    <3>4. ASSUME NEW t \in NlsTexts, NlsPrint(c, t) PROVE ~crashed'
      <4>1. PICK b \in Buffer : Sent(c, t, b)
        BY <3>2, <3>4, NlsLinkedOk, NlsPrintIs
      <4> QED
        BY <4>1 DEF Sent
    <3> QED
      BY <3>1, <3>3, <3>4
  <2>2. CASE Read
    <3>1. PICK c \in Cores, limit \in {BuffSize} \cup {n - 1 : n \in DstLens} :
                 GetPrint(c, limit) \/ FlushPrint(c, limit)
      BY <2>2 DEF Read
    <3>2. ASSUME GetPrint(c, limit) PROVE ~crashed'
      <4>1. numMsgs[c] > 0 /\ crashed' = NoOldest(c)
        BY <3>2 DEF GetPrint
      <4>2. ~NoOldest(c)
        BY <4>1, OldestNode
      <4> QED
        BY <4>1, <4>2
    <3>3. ASSUME FlushPrint(c, limit) PROVE ~crashed'
      BY <3>3 DEF FlushPrint
    <3> QED
      BY <3>1, <3>2, <3>3
  <2>3. CASE UNCHANGED vars
    BY <2>3 DEF vars
  <2> QED
    BY <2>1, <2>2, <2>3 DEF Next
<1> QED
  BY <1>1, <1>2, PTL DEF Spec
=============================================================================
