--------------------------- MODULE CATraceProofs ---------------------------
(***************************************************************************)
(* Proofs about the cycle accurate trace: its types, what its queue holds, *)
(* and that every instruction is given its own cycles.                     *)
(***************************************************************************)
EXTENDS CATrace, DataLemmas

Flag == Pipes \cup VTypes
Entry == [record : SUBSET Flag, cycle : 0 .. Cycles - 1, depth : [VTypes -> Nat]]

(* The number of slots from a up to b.                                     *)
Gap(a, b) == (b - a) % QSize

-----------------------------------------------------------------------------
(* The sizes, and the slots of the ring.                                   *)

\* The sizes are positive.
LEMMA Sizes ==
  /\ WordCycles \in Nat /\ WordCycles > 0 /\ BlockWords \in Nat /\ BlockWords > 0
  /\ QSize \in Nat /\ QSize > 0 /\ Cycles \in Nat
  /\ MaxSkip \in Nat /\ MaxRun \in Nat
  BY CATraceAssumption

\* Indices wrap at most once.
LEMMA Wrap ==
  ASSUME NEW x \in Int
  PROVE  /\ 0 <= x /\ x < QSize => x % QSize = x
         /\ QSize <= x /\ x < 2 * QSize => x % QSize = x - QSize
         /\ 0 <= x + QSize /\ x < 0 => x % QSize = x + QSize
         /\ x % QSize \in Slots
  BY Sizes DEF Slots

\* The slots from one to another.
LEMMA GapIs ==
  ASSUME NEW a \in Slots, NEW b \in Slots
  PROVE  Gap(a, b) \in Slots /\ Gap(a, b) = IF b >= a THEN b - a ELSE b - a + QSize
<1>1. b - a \in Int /\ 0 <= a /\ a < QSize /\ 0 <= b /\ b < QSize /\ a \in Int /\ b \in Int
  BY Sizes DEF Slots
<1>2. /\ 0 <= b - a /\ b - a < QSize => (b - a) % QSize = b - a
      /\ 0 <= b - a + QSize /\ b - a < 0 => (b - a) % QSize = b - a + QSize
      /\ (b - a) % QSize \in Slots
  BY <1>1, Wrap
<1> QED
  BY <1>1, <1>2, Sizes DEF Gap

\* It is a number below the size.
LEMMA GapType ==
  ASSUME NEW a \in Slots, NEW b \in Slots
  PROVE  Gap(a, b) \in Nat /\ Gap(a, b) < QSize
<1>1. Gap(a, b) \in Slots
  BY GapIs
<1> QED
  BY <1>1, Sizes DEF Slots

\* The slot k further on.
LEMMA UpIs ==
  ASSUME NEW s \in Slots, NEW k \in 0 .. QSize
  PROVE  Up(s, k) \in Slots /\ Up(s, k) = IF s + k < QSize THEN s + k ELSE s + k - QSize
<1> DEFINE x == s + k
<1>1. x \in Int /\ 0 <= x /\ x < 2 * QSize /\ s \in Int /\ k \in Int
  BY Sizes DEF Slots
<1>2. Up(s, k) = x % QSize
  BY DEF Up
<1> HIDE DEF x
<1>3. /\ x < QSize => x % QSize = x
      /\ QSize <= x => x % QSize = x - QSize
      /\ x % QSize \in Slots
  BY <1>1, Wrap
<1> QED
  BY <1>1, <1>2, <1>3, Sizes DEF x

\* Going up and measuring the gap undo each other.
LEMMA UpAndGap ==
  ASSUME NEW a \in Slots
  PROVE  /\ \A k \in Slots : Up(a, k) \in Slots /\ Gap(a, Up(a, k)) = k
         /\ \A b \in Slots : Up(a, Gap(a, b)) = b
<1>1. ASSUME NEW k \in Slots
      PROVE  Up(a, k) \in Slots /\ Gap(a, Up(a, k)) = k
  <2>1. k \in 0 .. QSize
    BY Sizes DEF Slots
  <2>2. Up(a, k) \in Slots /\ Up(a, k) = IF a + k < QSize THEN a + k ELSE a + k - QSize
    BY <2>1, UpIs
  <2>3. Gap(a, Up(a, k)) = IF Up(a, k) >= a THEN Up(a, k) - a ELSE Up(a, k) - a + QSize
    BY <2>2, GapIs
  <2> QED
    BY <2>2, <2>3, Sizes DEF Slots
<1>2. ASSUME NEW b \in Slots
      PROVE  Up(a, Gap(a, b)) = b
  <2>1. Gap(a, b) \in Slots /\ Gap(a, b) = IF b >= a THEN b - a ELSE b - a + QSize
    BY GapIs
  <2>2. Gap(a, b) \in 0 .. QSize
    BY <2>1, Sizes DEF Slots
  <2>3. Up(a, Gap(a, b)) = IF a + Gap(a, b) < QSize THEN a + Gap(a, b) ELSE a + Gap(a, b) - QSize
    BY <2>2, UpIs
  <2> QED
    BY <2>1, <2>3, Sizes DEF Slots
<1> QED
  BY <1>1, <1>2

\* Slots at the same gap are the same.
LEMMA GapInjective ==
  ASSUME NEW a \in Slots, NEW b \in Slots, NEW c \in Slots, Gap(a, b) = Gap(a, c)
  PROVE  b = c
<1>1. Up(a, Gap(a, b)) = b /\ Up(a, Gap(a, c)) = c
  BY UpAndGap
<1> QED
  BY <1>1

\* Gaps add up.
LEMMA GapsAdd ==
  ASSUME NEW a \in Slots, NEW b \in Slots, NEW c \in Slots, Gap(a, b) <= Gap(a, c)
  PROVE  Gap(b, c) = Gap(a, c) - Gap(a, b)
<1>1. /\ Gap(a, b) = IF b >= a THEN b - a ELSE b - a + QSize
      /\ Gap(a, c) = IF c >= a THEN c - a ELSE c - a + QSize
      /\ Gap(b, c) = IF c >= b THEN c - b ELSE c - b + QSize
  BY GapIs
<1> QED
  BY <1>1, Sizes DEF Slots

\* SlotsFrom(s) are the slots with a gap from s below that of traceQIn.
LEMMA SlotsAre ==
  ASSUME NEW s \in Slots, traceQIn \in Slots
  PROVE  LET m == Gap(s, traceQIn) IN
         /\ m \in Slots /\ m \in Nat
         /\ DOMAIN SlotsFrom(s) = 1 .. m /\ Len(SlotsFrom(s)) = m /\ IsSequence(SlotsFrom(s))
         /\ \A k \in 1 .. m : /\ SlotsFrom(s)[k] \in Slots /\ SlotsFrom(s)[k] = Up(s, k - 1)
                              /\ Gap(s, SlotsFrom(s)[k]) = k - 1
         /\ \A t \in Slots : Gap(s, t) < m =>
              Gap(s, t) + 1 \in 1 .. m /\ SlotsFrom(s)[Gap(s, t) + 1] = t
<1> DEFINE m == Gap(s, traceQIn)
           f == SlotsFrom(s)
<1>1. m \in Slots /\ m \in Nat
  BY GapIs, Sizes DEF Slots
<1>2. f = [k \in 1 .. m |-> Up(s, k - 1)]
  BY DEF SlotsFrom, Gap
<1> HIDE DEF m, f
<1>3. DOMAIN f = 1 .. m /\ \A k \in 1 .. m : f[k] = Up(s, k - 1)
  BY <1>2
<1>4. f = [k \in 1 .. m |-> f[k]]
  BY <1>2, <1>3
<1>5. IsSequence(f) /\ Len(f) = m
  BY <1>1, <1>4, FunctionIsSeq
<1>6. \A k \in 1 .. m : f[k] \in Slots /\ Gap(s, f[k]) = k - 1
  <2>1. \A k \in 1 .. m : k - 1 \in Slots
    BY <1>1, Sizes DEF Slots
  <2> QED
    BY <1>3, <2>1, UpAndGap
<1>7. ASSUME NEW t \in Slots, Gap(s, t) < m
      PROVE  Gap(s, t) + 1 \in 1 .. m /\ f[Gap(s, t) + 1] = t
  <2>1. Gap(s, t) \in Slots
    BY GapIs
  <2>2. Gap(s, t) + 1 \in 1 .. m /\ (Gap(s, t) + 1) - 1 = Gap(s, t)
    BY <1>1, <1>7, <2>1, Sizes DEF Slots
  <2>3. Up(s, Gap(s, t)) = t
    BY UpAndGap
  <2> QED
    BY <1>3, <2>2, <2>3
<1> QED
  BY <1>1, <1>3, <1>5, <1>6, <1>7 DEF m, f

-----------------------------------------------------------------------------
(* The places of a set of positions.                                       *)

\* Place(K, _) counts K in ascending order.
LEMMA PlaceIs ==
  ASSUME NEW top \in Nat, NEW K, \A j \in K : j \in Int /\ 1 <= j /\ j <= top
  PROVE  LET m == Cardinality(K) IN
         /\ m \in 0 .. top
         /\ \A k \in 1 .. m : Place(K, k) \in K
         /\ \A k, l \in 1 .. m : k < l => Place(K, k) < Place(K, l)
         /\ \A i \in K : \E k \in 1 .. m : Place(K, k) = i
<1> DEFINE B(x) == {j \in K : j <= x}
           R(x) == Cardinality(B(x))
           m == Cardinality(K)
<1>a. \A j \in K : j \in Int /\ 1 <= j /\ j <= top
  OBVIOUS
<1>b. \A x \in Int : \A j : j \in B(x) <=> j \in K /\ j <= x
  OBVIOUS
<1> HIDE DEF B
<1>1. IsFiniteSet(K) /\ m \in Nat /\ m <= top
  <2>1. IsFiniteSet(1 .. top) /\ Cardinality(1 .. top) = top
    BY FS_Interval
  <2>2. K \subseteq 1 .. top
    OBVIOUS
  <2> QED
    BY <2>1, <2>2, FS_Subset, FS_CardinalityType
<1>2. \A x \in Nat : IsFiniteSet(B(x)) /\ R(x) \in Nat /\ R(x) <= m
  <2>1. \A x \in Nat : B(x) \subseteq K
    BY <1>b
  <2> QED
    BY <1>1, <2>1, FS_Subset, FS_CardinalityType
<1>3. \A x, y \in Nat : x <= y => R(x) <= R(y)
  <2>1. \A x, y \in Nat : x <= y => B(x) \subseteq B(y)
    <3> TAKE x, y \in Nat
    <3> HAVE x <= y
    <3>1. \A j : j \in B(x) => j \in B(y)
      BY <1>a, <1>b
    <3> QED
      BY <3>1
  <2> QED
    BY <1>2, <2>1, FS_Subset
<1>4. \A x \in Nat \ {0} : R(x) = IF x \in K THEN R(x - 1) + 1 ELSE R(x - 1)
  <2> TAKE x \in Nat \ {0}
  <2>0. x \in Int /\ x - 1 \in Nat
    OBVIOUS
  <2>1. x \in K => B(x) = B(x - 1) \cup {x}
    <3> HAVE x \in K
    <3>0. \A j \in K : j <= x <=> j <= x - 1 \/ j = x
      BY <1>a, <2>0
    <3>1. \A j : j \in B(x) <=> j \in B(x - 1) \/ j = x
      <4>1. x \in Int /\ x - 1 \in Int
        BY <2>0
      <4> HIDE <2>0
      <4>2. \A j : j \in B(x) <=> j \in K /\ j <= x
        BY <1>b, <4>1
      <4>3. \A j : j \in B(x - 1) <=> j \in K /\ j <= x - 1
        BY <1>b, <4>1
      <4> QED
        BY <3>0, <4>2, <4>3, Zenon
    <3> QED
      BY <3>1
  <2>2. x \notin K => B(x) = B(x - 1)
    <3> HAVE x \notin K
    <3>1. \A j : j \in B(x) <=> j \in B(x - 1)
      BY <1>a, <1>b, <2>0
    <3> QED
      BY <3>1
  <2>3. x \notin B(x - 1) /\ x - 1 \in Nat
    BY <1>b, <2>0
  <2>4. IsFiniteSet(B(x - 1))
    BY <1>2, <2>3
  <2> QED
    BY <2>1, <2>2, <2>3, <2>4, FS_AddElement
<1>5. R(0) = 0 /\ R(top) = m
  <2>1. B(0) = {} /\ B(top) = K
    <3>1. \A j : j \notin B(0) /\ (j \in B(top) <=> j \in K)
      BY <1>a, <1>b
    <3> QED
      BY <3>1
  <2> QED
    BY <2>1, FS_EmptySet
<1> HIDE DEF R
<1>6. ASSUME NEW k \in 1 .. m
      PROVE  \E i \in K : R(i) = k
  <2> DEFINE T == {x \in 1 .. top : R(x) >= k}
  <2>1. T \subseteq Nat /\ T # {}
    <3>1. top \in T
      BY <1>1, <1>5
    <3> QED
      BY <3>1
  <2> HIDE DEF T
  <2>2. PICK x \in T : \A y \in T : x <= y
    BY <2>1, LeastNatural
  <2> USE DEF T
  <2>3. x \in Nat \ {0} /\ R(x) >= k /\ x \in 1 .. top
    OBVIOUS
  <2>4. R(x - 1) < k
    <3>1. CASE x = 1
      BY <1>5, <3>1
    <3>2. CASE x # 1
      <4>1. x - 1 \in 1 .. top /\ x - 1 \notin T
        BY <2>2, <2>3, <3>2
      <4>2. R(x - 1) \in Nat
        <5>1. x - 1 \in Nat
          BY <2>3
        <5> QED
          BY <1>2, <5>1
      <4> QED
        BY <4>1, <4>2
    <3> QED
      BY <3>1, <3>2
  <2>5. R(x) = IF x \in K THEN R(x - 1) + 1 ELSE R(x - 1)
    BY <1>4, <2>3
  <2>6. R(x) \in Nat /\ R(x - 1) \in Nat
    <3>1. x \in Nat /\ x - 1 \in Nat
      BY <2>3
    <3> QED
      BY <1>2, <3>1
  <2> QED
    BY <2>3, <2>4, <2>5, <2>6
<1>7. \A k \in 1 .. m : Place(K, k) \in K /\ R(Place(K, k)) = k
  <2>1. \A i : Cardinality({j \in K : j <= i}) = R(i)
    BY DEF R, B
  <2>2. \A k : Place(K, k) = CHOOSE i \in K : R(i) = k
    BY <2>1, Zenon DEF Place
  <2> QED
    BY <1>6, <2>2, Zenon
<1>8. \A i \in K : i \in Nat /\ i \in Nat \ {0} /\ R(i) \in 1 .. m
  <2>1. \A i \in K : i \in Nat /\ i \in Nat \ {0} /\ i - 1 \in Nat
    BY <1>a
  <2> QED
    <3> TAKE i \in K
    <3>1. i \in Nat /\ i \in Nat \ {0} /\ i - 1 \in Nat
      BY <2>1
    <3>2. R(i) = R(i - 1) + 1 /\ R(i - 1) \in Nat /\ R(i) \in Nat /\ R(i) <= m
      BY <1>2, <1>4, <3>1
    <3> QED
      BY <1>1, <3>1, <3>2
<1>9. \A i, l \in K : i < l => R(i) < R(l)
  <2> TAKE i, l \in K
  <2> HAVE i < l
  <2>1. i \in Nat /\ l \in Nat \ {0} /\ l - 1 \in Nat /\ i <= l - 1
    BY <1>8
  <2>2. R(l) = R(l - 1) + 1 /\ R(i) <= R(l - 1) /\ R(l - 1) \in Nat /\ R(i) \in Nat
    BY <1>2, <1>3, <1>4, <2>1
  <2> QED
    BY <2>2
<1> HIDE DEF m
<1>10. \A k, l \in 1 .. m : k < l => Place(K, k) < Place(K, l)
  <2> TAKE k, l \in 1 .. m
  <2> HAVE k < l
  <2>1. Place(K, k) \in Nat /\ Place(K, l) \in Nat
    BY <1>7, <1>8
  <2>2. Place(K, l) <= Place(K, k) => R(Place(K, l)) <= R(Place(K, k))
    BY <1>3, <2>1
  <2> QED
    BY <1>1, <1>7, <2>1, <2>2
<1>11. ASSUME NEW i \in K
       PROVE  \E k \in 1 .. m : Place(K, k) = i
  <2>1. R(i) \in 1 .. m
    BY <1>8
  <2>2. Place(K, R(i)) \in K /\ R(Place(K, R(i))) = R(i)
    BY <1>7, <2>1
  <2>3. Place(K, R(i)) \in Nat /\ i \in Nat /\ R(i) \in Nat
    <3>1. R(i) \in Nat
      BY <1>1, <2>1
    <3> QED
      BY <1>8, <2>2, <3>1
  <2>4. ~ (Place(K, R(i)) < i) /\ ~ (i < Place(K, R(i)))
    BY <1>9, <2>2, <2>3
  <2> QED
    BY <2>1, <2>3, <2>4
<1> QED
  BY <1>1, <1>7, <1>10, <1>11 DEF m

-----------------------------------------------------------------------------
(* The file: its blocks, its words, their cycles.                          *)

\* A larger factor makes a larger product.
LEMMA ProductsOrdered ==
  ASSUME NEW b \in Nat, NEW u \in Int, NEW v \in Int, u <= v
  PROVE  b * u <= b * v
<1>1. PICK d \in Nat : v = u + d
  <2>1. v - u \in Nat /\ v = u + (v - u)
    OBVIOUS
  <2> QED
    BY <2>1
<1>2. b * v = b * u + b * d
  BY <1>1
<1>3. b * d \in Nat /\ b * u \in Int /\ b * v \in Int
  OBVIOUS
<1> QED
  BY <1>2, <1>3

\* The file has whole blocks behind the rest of an overwritten one.
LEMMA FileIs ==
  ASSUME lead \in 0 .. BlockWords - 1
  PROVE  \E m \in Nat \ {0} :
           /\ Cycles = WordCycles * (BlockWords * m) /\ FileWords = lead + BlockWords * m
           /\ BlockWords * m \in Nat /\ BlockWords <= BlockWords * m
<1>1. PICK m \in 1 .. Cycles : Cycles = m * BlockWords * WordCycles
  BY CATraceAssumption
<1>2. m \in Nat \ {0}
  BY Sizes
<1> DEFINE x == BlockWords * m
<1>3. x \in Nat /\ Cycles = WordCycles * x + 0 /\ Cycles = WordCycles * x
  BY <1>1, <1>2, Sizes
<1>4. BlockWords * 1 <= x
  <2>1. 1 \in Int /\ m \in Int /\ 1 <= m
    BY <1>2
  <2> QED
    BY <2>1, Sizes, ProductsOrdered
<1> HIDE DEF x
<1>5. (WordCycles * x + 0) \div WordCycles = x
  BY <1>3, Sizes, BlockIs
<1>6. FileWords = lead + x
  BY <1>3, <1>5 DEF FileWords
<1>7. BlockWords <= x
  BY <1>4, Sizes
<1> QED
  BY <1>2, <1>3, <1>6, <1>7 DEF x

\* The first word counts as one without a predecessor, so the file is read from it.
LEMMA FirstWordIs ==
  ASSUME lead \in 0 .. BlockWords - 1
  PROVE  FirstWord = 1 /\ FileWords \in Nat /\ BlockWords <= FileWords
<1>1. FileWords \in Nat /\ BlockWords <= FileWords
  BY FileIs, Sizes
<1> DEFINE last(k) == IF k = 1 THEN 0 ELSE Mark(k - 1)
           stop(k) == Mark(k) = 3 \/ last(k) = 0
           P(w) == stop(w) /\ \A k \in 1 .. w - 1 : ~ stop(k)
<1>2. FirstWord = CHOOSE w \in 1 .. FileWords : P(w)
  BY DEF FirstWord
<1>3. stop(1)
  OBVIOUS
<1> HIDE DEF stop
<1>4. 1 \in 1 .. FileWords /\ P(1)
  BY <1>1, <1>3, Sizes
<1>5. \A w \in 1 .. FileWords : P(w) => w = 1
  BY <1>1, <1>3
<1> HIDE DEF P
<1> QED
  BY <1>1, <1>2, <1>4, <1>5

(* The block read last.                                                    *)
InBlocks ==
  /\ lead \in 0 .. BlockWords - 1 /\ blockRecNum \in Nat
  /\ caBufferIndex = BlockWords * (blockRecNum + 1) /\ caBufferIndex <= FileWords

\* The cycles of its words, as they are counted and as they lie in the file.
LEMMA InFile ==
  ASSUME InBlocks, NEW k \in 1 .. BlockWords, NEW j \in 1 .. WordCycles
  PROVE  LET c == BlockStart + (k - 1) * WordCycles + j - 1
             w == caBufferIndex - BlockWords + k
             i == (w - lead - 1) * WordCycles + j - 1
         IN  /\ c \in 0 .. Cycles - 1
             /\ w > lead => i \in 0 .. Cycles - 1
             /\ lead = 0 => w > lead /\ i = c
<1> DEFINE r == blockRecNum
           x == BlockWords * r
           w == caBufferIndex - BlockWords + k
<1>1. PICK m \in Nat \ {0} :
           /\ Cycles = WordCycles * (BlockWords * m) /\ FileWords = lead + BlockWords * m
           /\ BlockWords * m \in Nat /\ BlockWords <= BlockWords * m
  BY FileIs DEF InBlocks
<1>2. /\ r \in Nat /\ x \in Nat /\ caBufferIndex = x + BlockWords /\ w = x + k
      /\ lead \in 0 .. BlockWords - 1 /\ x + BlockWords <= lead + BlockWords * m
  BY <1>1, Sizes DEF InBlocks
<1> DEFINE y == BlockWords * m
<1>3. y \in Nat /\ Cycles = WordCycles * y /\ x + BlockWords <= lead + y
  BY <1>1, <1>2
<1>4. x + BlockWords <= y
  <2>1. BlockWords * r < BlockWords * m
    BY <1>2, <1>3, Sizes
  <2>2. r < m
    BY <1>2, <2>1, Sizes, FactorsOrdered
  <2>3. BlockWords * (r + 1) <= BlockWords * m
    <3>1. r + 1 \in Int /\ m \in Int /\ r + 1 <= m
      BY <1>2, <2>2
    <3> QED
      BY <3>1, Sizes, ProductsOrdered
  <2>4. BlockWords * (r + 1) = x + BlockWords
    BY <1>2, Sizes
  <2> QED
    BY <2>3, <2>4
<1>5. BlockStart = WordCycles * x
  BY <1>2, Sizes DEF BlockStart
<1> HIDE DEF x, y
<1>6. ASSUME NEW u \in Int, 0 <= u, u + 1 <= y
      PROVE  u * WordCycles + j - 1 \in 0 .. Cycles - 1
  <2>1. WordCycles * (u + 1) <= WordCycles * y
    BY <1>3, <1>6, Sizes, ProductsOrdered
  <2>2. WordCycles * (u + 1) = u * WordCycles + WordCycles /\ u * WordCycles \in Int
    BY Sizes
  <2>3. 0 <= u * WordCycles
    <3>1. u \in Nat
      BY <1>6
    <3>2. u * WordCycles \in Nat
      BY <3>1, Sizes
    <3> QED
      BY <3>2
  <2> QED
    BY <1>3, <2>1, <2>2, <2>3, Sizes
<1>7. BlockStart + (k - 1) * WordCycles + j - 1 = (x + k - 1) * WordCycles + j - 1
  BY <1>2, <1>5, Sizes
<1>8. (x + k - 1) * WordCycles + j - 1 \in 0 .. Cycles - 1
  <2>1. x + k - 1 \in Int /\ 0 <= x + k - 1 /\ (x + k - 1) + 1 <= y
    BY <1>2, <1>3, <1>4, Sizes
  <2> QED
    BY <1>6, <2>1
<1>9. w > lead => (w - lead - 1) * WordCycles + j - 1 \in 0 .. Cycles - 1
  <2> HAVE w > lead
  <2>1. w - lead - 1 \in Int /\ 0 <= w - lead - 1 /\ (w - lead - 1) + 1 <= y
    BY <1>2, <1>3, <1>4, Sizes
  <2> QED
    BY <1>6, <2>1
<1>10. lead = 0 => w > lead /\ w - lead - 1 = x + k - 1
  BY <1>2, Sizes
<1> QED
  BY <1>7, <1>8, <1>9, <1>10

\* The words have flags, and without an overwritten block those of their cycles.
LEMMA DataWordIs ==
  ASSUME InBlocks, flags \in [0 .. Cycles - 1 -> SUBSET Flag], NEW k \in 1 .. BlockWords
  PROVE  /\ DataWord(k) \in [1 .. WordCycles -> SUBSET Flag]
         /\ lead = 0 /\ "V0" \in flags[0] =>
              \A j \in 1 .. WordCycles :
                DataWord(k)[j] = flags[BlockStart + (k - 1) * WordCycles + j - 1]
<1> DEFINE w == caBufferIndex - BlockWords + k
           d == WordAt(w)
           i(j) == (w - lead - 1) * WordCycles + j - 1
           c(j) == BlockStart + (k - 1) * WordCycles + j - 1
<1>1. \A j \in 1 .. WordCycles : c(j) \in 0 .. Cycles - 1 /\ (w > lead => i(j) \in 0 .. Cycles - 1)
                                 /\ (lead = 0 => w > lead /\ i(j) = c(j))
  BY InFile
<1>2. w \in Int /\ lead \in Int
  BY Sizes DEF InBlocks
<1>3. d = [j \in 1 .. WordCycles |-> IF w <= lead THEN {} ELSE Recorded(i(j))]
  BY DEF WordAt
<1>4. blockRecNum = 0 /\ k = 1 => c(1) = 0
  BY Sizes DEF BlockStart
<1>10. \A j \in 1 .. WordCycles : c(j) = 0 => blockRecNum = 0 /\ k = 1 /\ j = 1
  <2> DEFINE x == BlockStart
             y == (k - 1) * WordCycles
  <2>1. x \in Nat /\ (blockRecNum # 0 => x >= 1)
    <3>1. blockRecNum \in Nat
      BY DEF InBlocks
    <3>2. CASE blockRecNum = 0
      BY <3>2, Sizes DEF BlockStart
    <3>3. CASE blockRecNum # 0
      <4> DEFINE z == WordCycles * BlockWords
      <4>1. z \in Nat \ {0} /\ BlockStart = z * blockRecNum
        BY <3>1, Sizes DEF BlockStart
      <4>2. z * 1 <= z * blockRecNum
        BY <3>1, <3>3, <4>1, ProductsOrdered
      <4> HIDE DEF z
      <4> QED
        BY <3>1, <4>1, <4>2
    <3> QED
      BY <3>2, <3>3
  <2>2. y \in Nat /\ (k # 1 => y >= 1)
    <3>1. k - 1 \in Nat
      BY Sizes
    <3>2. CASE k = 1
      BY <3>2, Sizes
    <3>3. CASE k # 1
      <4>1. 1 \in Int /\ k - 1 \in Int /\ 1 <= k - 1 /\ WordCycles \in Nat
        BY <3>1, <3>3, Sizes
      <4>2. WordCycles * 1 <= WordCycles * (k - 1)
        BY <4>1, ProductsOrdered
      <4> QED
        BY <4>1, <4>2, Sizes
    <3> QED
      BY <3>2, <3>3
  <2>3. \A j \in 1 .. WordCycles : c(j) = x + y + j - 1
    OBVIOUS
  <2> HIDE DEF x, y, c
  <2> QED
    BY <2>1, <2>2, <2>3, Sizes
<1>11. /\ \A x : Recorded(x) \subseteq flags[x] /\ (x # 0 => Recorded(x) = flags[x])
       /\ Recorded(0) \cup {"V0"} = flags[0] \cup {"V0"}
  BY DEF Recorded
<1> HIDE DEF w, i, c, d
<1>5. /\ d \in [1 .. WordCycles -> SUBSET Flag]
      /\ \A j \in 1 .. WordCycles : lead = 0 => d[j] = Recorded(c(j))
  <2>1. \A j \in 1 .. WordCycles : w > lead => Recorded(i(j)) \in SUBSET Flag
    BY <1>1, <1>11
  <2> QED
    BY <1>1, <1>2, <1>3, <2>1
<1>6. DataWord(k) = IF blockRecNum = 0 /\ k = 1 THEN [d EXCEPT ![1] = @ \cup {"V0"}] ELSE d
  BY DEF DataWord, d, w
<1>7. "V0" \in Flag /\ 1 \in 1 .. WordCycles
  BY Sizes DEF Flag, Pipes
<1>8. DataWord(k) \in [1 .. WordCycles -> SUBSET Flag]
  BY <1>5, <1>6, <1>7
<1>9. ASSUME lead = 0, "V0" \in flags[0], NEW j \in 1 .. WordCycles
      PROVE  DataWord(k)[j] = flags[c(j)]
  <2>1. CASE blockRecNum = 0 /\ k = 1
    <3>1. DataWord(k)[j] = IF j = 1 THEN d[1] \cup {"V0"} ELSE d[j]
      BY <1>5, <1>6, <1>7, <2>1
    <3>2. d[1] \cup {"V0"} = flags[0]
      BY <1>4, <1>5, <1>7, <1>9, <1>11, <2>1
    <3>3. CASE j = 1
      BY <1>4, <2>1, <3>1, <3>2, <3>3
    <3>4. CASE j # 1
      BY <1>5, <1>9, <1>10, <1>11, <3>1, <3>4
    <3> QED
      BY <3>3, <3>4
  <2>2. CASE ~ (blockRecNum = 0 /\ k = 1)
    BY <1>5, <1>6, <1>9, <1>10, <1>11, <2>2
  <2> QED
    BY <2>1, <2>2
<1> QED
  BY <1>8, <1>9 DEF c

-----------------------------------------------------------------------------
(* What addQ and packQ make.                                               *)

(* The entry of cycle j of a word.                                         *)
EntryOf(word, t, j) == [record |-> word[j], cycle |-> t + j - 1, depth |-> NoDepth]

\* Entries has the cycles with flags, in their order.
LEMMA EntriesAre ==
  ASSUME NEW word \in [1 .. WordCycles -> SUBSET Flag], NEW t \in Int,
         \A j \in 1 .. WordCycles : t + j - 1 \in 0 .. Cycles - 1
  PROVE  LET e == Entries(word, t)
             m == Len(e)
         IN  /\ m \in 0 .. WordCycles /\ DOMAIN e = 1 .. m
             /\ \A k \in 1 .. m : e[k] \in Entry /\ e[k].record # {} /\ e[k].depth = NoDepth
             /\ \A k \in 1 .. m : \E j \in 1 .. WordCycles : e[k] = EntryOf(word, t, j)
             /\ \A k, l \in 1 .. m : k < l => e[k].cycle < e[l].cycle
             /\ \A j \in 1 .. WordCycles : word[j] # {} => \E k \in 1 .. m : e[k] = EntryOf(word, t, j)
<1> DEFINE K == {k \in 1 .. WordCycles : word[k] # {}}
           m == Cardinality(K)
           e == Entries(word, t)
<1>1. \A k \in K : k \in Int /\ 1 <= k /\ k <= WordCycles /\ k \in 1 .. WordCycles /\ word[k] # {}
  BY Sizes
<1>2. \A k \in 1 .. WordCycles : word[k] # {} => k \in K
  OBVIOUS
<1>3. e = [k \in 1 .. m |-> [j \in 1 .. WordCycles |-> EntryOf(word, t, j)][Place(K, k)]]
  BY Zenon DEF Entries, At, EntryOf
<1>t. \A j \in 1 .. WordCycles : EntryOf(word, t, j) \in Entry
  <2> TAKE j \in 1 .. WordCycles
  <2>1. NoDepth \in [VTypes -> Nat]
    BY DEF NoDepth
  <2>2. word[j] \in SUBSET Flag /\ t + j - 1 \in 0 .. Cycles - 1
    OBVIOUS
  <2> QED
    BY <2>1, <2>2 DEF EntryOf, Entry
<1> HIDE DEF K, e
<1>4. /\ m \in 0 .. WordCycles
      /\ \A k \in 1 .. m : Place(K, k) \in K
      /\ \A k, l \in 1 .. m : k < l => Place(K, k) < Place(K, l)
      /\ \A i \in K : \E k \in 1 .. m : Place(K, k) = i
  BY <1>1, Sizes, PlaceIs
<1> HIDE DEF m
<1>5. \A k \in 1 .. m : Place(K, k) \in 1 .. WordCycles
  BY <1>1, <1>4
<1>6. DOMAIN e = 1 .. m /\ \A k \in 1 .. m : e[k] = EntryOf(word, t, Place(K, k))
  BY <1>3, <1>5
<1>7. e = [k \in 1 .. m |-> e[k]]
  BY <1>3, <1>6
<1>8. m \in Nat /\ Len(e) = m
  BY <1>4, <1>7, FunctionIsSeq
<1>f. \A j : EntryOf(word, t, j).record = word[j] /\ EntryOf(word, t, j).cycle = t + j - 1
             /\ EntryOf(word, t, j).depth = NoDepth
  BY DEF EntryOf
<1>9. \A k \in 1 .. m : /\ e[k] \in Entry /\ e[k].record # {} /\ e[k].depth = NoDepth
                        /\ e[k].cycle = t + Place(K, k) - 1
  BY <1>1, <1>4, <1>5, <1>6, <1>t, <1>f
<1>10. \A k \in 1 .. m : \E j \in 1 .. WordCycles : e[k] = EntryOf(word, t, j)
  BY <1>5, <1>6, Zenon
<1>11. \A k, l \in 1 .. m : k < l => e[k].cycle < e[l].cycle
  <2> TAKE k, l \in 1 .. m
  <2> HAVE k < l
  <2>1. Place(K, k) \in Int /\ Place(K, l) \in Int /\ Place(K, k) < Place(K, l)
    BY <1>1, <1>4
  <2>2. e[k].cycle = t + Place(K, k) - 1 /\ e[l].cycle = t + Place(K, l) - 1
    BY <1>9
  <2> QED
    BY <2>1, <2>2
<1>12. ASSUME NEW j \in 1 .. WordCycles, word[j] # {}
       PROVE  \E k \in 1 .. m : e[k] = EntryOf(word, t, j)
  <2>1. PICK k \in 1 .. m : Place(K, k) = j
    BY <1>2, <1>4, <1>12
  <2> QED
    BY <1>6, <2>1, Zenon
<1> QED
  BY <1>4, <1>6, <1>8, <1>9, <1>10, <1>11, <1>12 DEF e

(* The slots packQ keeps.                                                  *)
Held == At(SlotsFrom(traceQOut), {k \in DOMAIN SlotsFrom(traceQOut) : Full(SlotsFrom(traceQOut)[k])})

\* They are the full ones up to traceQIn, in their order.
LEMMA HeldAre ==
  ASSUME traceQIn \in Slots, traceQOut \in Slots
  PROVE  LET w == Gap(traceQOut, traceQIn)
             h == Len(Held)
         IN  /\ w \in Nat /\ w < QSize /\ h \in 0 .. w /\ DOMAIN Held = 1 .. h
             /\ Len(SlotsFrom(traceQOut)) = w
             /\ \A k \in 1 .. h :
                  Held[k] \in Slots /\ Full(Held[k]) /\ Gap(traceQOut, Held[k]) < w
             /\ \A k, l \in 1 .. h : k < l => Gap(traceQOut, Held[k]) < Gap(traceQOut, Held[l])
             /\ \A s \in Slots : Full(s) /\ Gap(traceQOut, s) < w => \E k \in 1 .. h : Held[k] = s
<1> DEFINE w == Gap(traceQOut, traceQIn)
           f == SlotsFrom(traceQOut)
           K == {k \in DOMAIN f : Full(f[k])}
           m == Cardinality(K)
<1>1. /\ w \in Slots /\ w \in Nat
      /\ DOMAIN f = 1 .. w /\ Len(f) = w
      /\ \A k \in 1 .. w : f[k] \in Slots /\ Gap(traceQOut, f[k]) = k - 1
      /\ \A t \in Slots : Gap(traceQOut, t) < w =>
              Gap(traceQOut, t) + 1 \in 1 .. w /\ f[Gap(traceQOut, t) + 1] = t
  BY SlotsAre
<1>2. Held = [k \in 1 .. m |-> f[Place(K, k)]]
  BY Zenon DEF Held, At
<1> HIDE DEF w, f
<1>3. \A k \in K : k \in Int /\ 1 <= k /\ k <= w /\ k \in 1 .. w /\ Full(f[k])
  BY <1>1
<1>4. \A k \in 1 .. w : Full(f[k]) => k \in K
  BY <1>1
<1> HIDE DEF K
<1>5. /\ m \in 0 .. w
      /\ \A k \in 1 .. m : Place(K, k) \in K
      /\ \A k, l \in 1 .. m : k < l => Place(K, k) < Place(K, l)
      /\ \A i \in K : \E k \in 1 .. m : Place(K, k) = i
  BY <1>1, <1>3, PlaceIs
<1> HIDE DEF m
<1>6. DOMAIN Held = 1 .. m /\ \A k \in 1 .. m : Held[k] = f[Place(K, k)]
  BY <1>2
<1>7. Held = [k \in 1 .. m |-> Held[k]]
  BY <1>2, <1>6
<1>8. m \in Nat /\ Len(Held) = m
  BY <1>1, <1>5, <1>7, FunctionIsSeq
<1>9. \A k \in 1 .. m : /\ Held[k] \in Slots /\ Full(Held[k])
                        /\ Gap(traceQOut, Held[k]) = Place(K, k) - 1 /\ Place(K, k) \in 1 .. w
  BY <1>1, <1>3, <1>5, <1>6
<1>10. \A k \in 1 .. m : Gap(traceQOut, Held[k]) < w
  BY <1>1, <1>9
<1>11. \A k, l \in 1 .. m : k < l => Gap(traceQOut, Held[k]) < Gap(traceQOut, Held[l])
  BY <1>1, <1>5, <1>9
<1>12. ASSUME NEW s \in Slots, Full(s), Gap(traceQOut, s) < w
       PROVE  \E k \in 1 .. m : Held[k] = s
  <2>1. Gap(traceQOut, s) + 1 \in K /\ f[Gap(traceQOut, s) + 1] = s
    BY <1>1, <1>4, <1>12
  <2>2. PICK k \in 1 .. m : Place(K, k) = Gap(traceQOut, s) + 1
    BY <1>5, <2>1
  <2> QED
    BY <1>6, <2>1, <2>2
<1>13. w < QSize
  BY <1>1, Sizes DEF Slots
<1> QED
  BY <1>1, <1>5, <1>6, <1>8, <1>9, <1>10, <1>11, <1>12, <1>13 DEF w, f

\* packQ puts them together at the front, and leaves no flags in the slots they were in.
LEMMA PackIs ==
  ASSUME q \in [Slots -> Entry], traceQIn \in Slots, traceQOut \in Slots
  PROVE  LET w == Gap(traceQOut, traceQIn)
             h == Len(Held)
         IN  /\ packQ.q \in [Slots -> Entry] /\ packQ.in \in Slots
             /\ packQ.in = IF h < w THEN Up(traceQOut, h + 1) ELSE traceQIn
             /\ \A s \in Slots :
                  /\ Gap(traceQOut, s) < h => packQ.q[s] = q[Held[Gap(traceQOut, s) + 1]]
                  /\ ~ (Gap(traceQOut, s) < h) =>
                       IF \E k \in 1 .. h : Held[k] = s THEN packQ.q[s].record = {} ELSE packQ.q[s] = q[s]
<1> DEFINE w == Gap(traceQOut, traceQIn)
           h == Len(Held)
           in(s) == s \in {Held[j] : j \in DOMAIN Held}
           at(s) == IF Gap(traceQOut, s) + 1 \in DOMAIN Held THEN q[Held[Gap(traceQOut, s) + 1]]
                    ELSE IF in(s) THEN [Empty EXCEPT !.cycle = q[s].cycle] ELSE q[s]
<1>1. /\ w \in Nat /\ w < QSize /\ h \in 0 .. w /\ DOMAIN Held = 1 .. h
      /\ Len(SlotsFrom(traceQOut)) = w
      /\ \A k \in 1 .. h : Held[k] \in Slots
  BY HeldAre
<1>2. packQ.q = [s \in Slots |-> at(s)] /\ packQ.in = IF h < w THEN Up(traceQOut, h + 1) ELSE traceQIn
  BY <1>1 DEF packQ, Held, Gap
<1>3. \A s \in Slots : in(s) <=> \E k \in 1 .. h : Held[k] = s
  BY <1>1
<1> HIDE DEF w, h, in
<1>4. \A s \in Slots : q[s] \in Entry
  OBVIOUS
<1>5. \A s \in Slots : LET x == [Empty EXCEPT !.cycle = q[s].cycle]
                       IN  x \in Entry /\ x.record = {}
  <2> TAKE s \in Slots
  <2>1. PICK e \in Entry : e = q[s]
    BY <1>4
  <2>2. NoDepth \in [VTypes -> Nat]
    BY DEF NoDepth
  <2>3. [Empty EXCEPT !.cycle = e.cycle] = [record |-> {}, cycle |-> e.cycle, depth |-> NoDepth]
    BY DEF Empty
  <2>4. [record |-> {}, cycle |-> e.cycle, depth |-> NoDepth] \in Entry
    BY <2>2 DEF Entry
  <2> QED
    BY <2>1, <2>3, <2>4
<1>6. \A s \in Slots : Gap(traceQOut, s) \in Nat
  BY GapType
<1>7. \A s \in Slots : Gap(traceQOut, s) + 1 \in DOMAIN Held <=> Gap(traceQOut, s) < h
  BY <1>1, <1>6
<1>8. \A s \in Slots : at(s) \in Entry
  BY <1>1, <1>4, <1>5
<1>9. packQ.in \in Slots
  <2>1. h < w => h + 1 \in 0 .. QSize
    BY <1>1, Sizes
  <2> QED
    BY <1>2, <2>1, UpIs
<1>10. \A s \in Slots :
         /\ Gap(traceQOut, s) < h => at(s) = q[Held[Gap(traceQOut, s) + 1]]
         /\ ~ (Gap(traceQOut, s) < h) => IF in(s) THEN at(s).record = {} ELSE at(s) = q[s]
  BY <1>5, <1>7
<1> HIDE DEF at
<1>11. packQ.q \in [Slots -> Entry] /\ \A s \in Slots : packQ.q[s] = at(s)
  BY <1>2, <1>8
<1> QED
  BY <1>2, <1>3, <1>9, <1>10, <1>11 DEF w, h

(* The queue before the entries of a word are added.                       *)
Packed == IF roomQ(traceQIn, traceQOut) < WordCycles THEN packQ ELSE [q |-> q, in |-> traceQIn]

\* addQ gives up, or puts the entries behind the ones there.
LEMMA AddIs ==
  ASSUME q \in [Slots -> Entry], traceQIn \in Slots, traceQOut \in Slots,
         NEW word \in [1 .. WordCycles -> SUBSET Flag], NEW t \in Int,
         \A j \in 1 .. WordCycles : t + j - 1 \in 0 .. Cycles - 1,
         addQ(word, t)
  PROVE  LET e == Entries(word, t)
             i == Packed.in
         IN  /\ Packed.q \in [Slots -> Entry] /\ i \in Slots
             /\ q' \in [Slots -> Entry] /\ traceQIn' \in Slots /\ traceQOut' = traceQOut
             /\ \/ status' = "ERR" /\ q' = q /\ traceQIn' = traceQIn
                \/ /\ status' = status /\ traceQIn' = Up(i, Len(e))
                   /\ Gap(traceQOut, i) + Len(e) < QSize
                   /\ \A s \in Slots :
                        /\ Gap(i, s) < Len(e) => q'[s] = e[Gap(i, s) + 1]
                        /\ ~ (Gap(i, s) < Len(e)) => q'[s] = Packed.q[s]
<1> DEFINE e == Entries(word, t)
           m == Len(e)
           i == Packed.in
           at(s) == IF Gap(i, s) + 1 \in DOMAIN e THEN e[Gap(i, s) + 1] ELSE Packed.q[s]
<1>1. m \in 0 .. WordCycles /\ DOMAIN e = 1 .. m /\ \A k \in 1 .. m : e[k] \in Entry
  BY EntriesAre
<1>2. Packed.q \in [Slots -> Entry] /\ i \in Slots
  <2>1. packQ.q \in [Slots -> Entry] /\ packQ.in \in Slots
    BY PackIs
  <2> QED
    BY <2>1 DEF Packed
<1>3. IF roomQ(i, traceQOut) < WordCycles
        THEN status' = "ERR" /\ UNCHANGED queue
        ELSE /\ q' = [s \in Slots |-> at(s)] /\ traceQIn' = Up(i, m) /\ UNCHANGED <<traceQOut, status>>
  BY DEF addQ, Packed, Gap
<1> HIDE DEF e, m, i
<1>4. \A s \in Slots : Gap(i, s) \in Nat
  BY <1>2, GapType
<1>5. \A s \in Slots : Gap(i, s) + 1 \in DOMAIN e <=> Gap(i, s) < m
  BY <1>1, <1>4
<1>6. \A s \in Slots : at(s) \in Entry
  BY <1>1, <1>2
<1>7. \A s \in Slots : /\ Gap(i, s) < m => at(s) = e[Gap(i, s) + 1]
                       /\ ~ (Gap(i, s) < m) => at(s) = Packed.q[s]
  BY <1>5
<1> HIDE DEF at
<1>8. CASE roomQ(i, traceQOut) < WordCycles
  BY <1>2, <1>3, <1>8 DEF queue, e, m, i
<1>9. CASE ~ (roomQ(i, traceQOut) < WordCycles)
  <2>1. q' = [s \in Slots |-> at(s)] /\ traceQIn' = Up(i, m) /\ traceQOut' = traceQOut /\ status' = status
    BY <1>3, <1>9
  <2>2. Gap(traceQOut, i) + m < QSize
    <3>1. roomQ(i, traceQOut) = IF i = traceQOut THEN QSize - 1 ELSE Gap(i, traceQOut) - 1
      BY DEF roomQ, Gap
    <3>2. /\ Gap(i, traceQOut) = IF traceQOut >= i THEN traceQOut - i ELSE traceQOut - i + QSize
          /\ Gap(traceQOut, i) = IF i >= traceQOut THEN i - traceQOut ELSE i - traceQOut + QSize
      BY <1>2, GapIs
    <3> QED
      BY <1>1, <1>2, <1>9, <3>1, <3>2, Sizes DEF Slots
  <2>3. m \in 0 .. QSize
    <3>1. Gap(traceQOut, i) \in Nat
      BY <1>2, GapType
    <3> QED
      BY <1>1, <2>2, <3>1, Sizes
  <2>4. traceQIn' \in Slots
    BY <1>2, <2>1, <2>3, UpIs
  <2>5. q' \in [Slots -> Entry] /\ \A s \in Slots : q'[s] = at(s)
    BY <1>6, <2>1
  <2> QED
    BY <1>2, <1>7, <2>1, <2>2, <2>4, <2>5 DEF e, m, i
<1> QED
  BY <1>8, <1>9

-----------------------------------------------------------------------------
(* Types.                                                                  *)

TraceT ==
  /\ mode \in {"VECTOR", "INSTRUCTION"} /\ caStart \in 1 .. Len(Path) /\ teStart \in 1 .. Len(Path)
  /\ lead \in 0 .. BlockWords - 1 /\ flags \in [0 .. Cycles - 1 -> SUBSET Flag]
ReaderT ==
  /\ caBufferIndex \in 0 .. FileWords /\ blockRecNum \in Nat
  /\ offset \in Nat /\ (mode = "VECTOR" => offset <= BlockWords)
  /\ IF caBufferIndex = 0 THEN blockRecNum = 0 /\ offset = 0
     ELSE caBufferIndex = BlockWords * (blockRecNum + 1)
QueueT ==
  q \in [Slots -> Entry] /\ traceQIn \in Slots /\ traceQOut \in Slots /\ qStart \in Slots
ControlT ==
  /\ status \in {"OK", "EOF", "ERR"} /\ state \in {"HW", "SYNCCATE", "RUN", "DONE", "ERROR"}
  /\ skipped \in 0 .. MaxSkip /\ syncCount \in 0 .. MaxRun
(* A block is read before anything is looked for in it.                    *)
PhaseT ==
  /\ state = "HW" => caBufferIndex = 0 /\ goals = << >>
  /\ state \in {"SYNCCATE", "RUN"} \/ goals # << >> => caBufferIndex # 0
TypeInv == TraceT /\ ReaderT /\ QueueT /\ ControlT /\ PhaseT

\* The least element of a set of numbers.
LEMMA FirstIs ==
  ASSUME NEW K, K # {}, \A k \in K : k \in Nat
  PROVE  First(K) \in K /\ \A j \in K : First(K) <= j
<1>1. K \subseteq Nat
  OBVIOUS
<1>2. \E k \in K : \A j \in K : k <= j
  BY <1>1, LeastNatural
<1> QED
  BY <1>2 DEF First

\* The goals of an instruction are flags of the vector units.
LEMMA GoalsType ==
  ASSUME NEW type
  PROVE  /\ Goals(type) \in Seq(VTypes) /\ Len(Goals(type)) \in 0 .. 3
         /\ DOMAIN Goals(type) = 1 .. Len(Goals(type))
         /\ \A a \in DOMAIN Goals(type) : Goals(type)[a] \in VTypes
<1>1. \/ Goals(type) = << >>
      \/ Goals(type) = <<"VISTART", "VIARITH">>
      \/ Goals(type) = <<"VISTART", "VILOAD">>
      \/ Goals(type) = <<"VISTART", "VISTORE">>
      \/ Goals(type) = <<"VISTART", "VILOAD", "VISTORE">>
  BY DEF Goals
<1>2. {"VISTART", "VIARITH", "VILOAD", "VISTORE"} = VTypes
  BY DEF VTypes
<1>3. Goals(type) \in Seq(VTypes) /\ Len(Goals(type)) \in 0 .. 3
  <2>1. "VISTART" \in VTypes /\ "VIARITH" \in VTypes /\ "VILOAD" \in VTypes /\ "VISTORE" \in VTypes
    BY <1>2
  <2>2. << >> \in Seq(VTypes) /\ Len(<< >>) = 0
    OBVIOUS
  <2>3. \A a, b \in VTypes : <<a, b>> \in Seq(VTypes) /\ Len(<<a, b>>) = 2
    OBVIOUS
  <2>4. \A a, b, c \in VTypes : <<a, b, c>> \in Seq(VTypes) /\ Len(<<a, b, c>>) = 3
    OBVIOUS
  <2>5. Goals(type) \in Seq(VTypes) /\ (Len(Goals(type)) = 0 \/ Len(Goals(type)) = 2 \/ Len(Goals(type)) = 3)
    BY <1>1, <2>1, <2>2, <2>3, <2>4, Zenon
  <2> QED
    BY <2>5
<1> QED
  BY <1>3

\* A block is read, or the end of the file is.
LEMMA ParseIs ==
  ASSUME TraceT, ReaderT, parseNextCATraceRec
  PROVE  \/ status' = "EOF" /\ UNCHANGED reader
         \/ /\ status' = status /\ offset' = 0 /\ caBufferIndex' \in 0 .. FileWords
            /\ blockRecNum' = IF caBufferIndex = 0 THEN 0 ELSE blockRecNum + 1
            /\ caBufferIndex' # 0 /\ caBufferIndex' = BlockWords * (blockRecNum' + 1)
<1> DEFINE first == IF caBufferIndex = 0 THEN FirstWord ELSE caBufferIndex + 1
<1>1. FirstWord = 1 /\ FileWords \in Nat
  BY FirstWordIs DEF TraceT
<1>2. CASE first + BlockWords - 1 > FileWords
  BY <1>2 DEF parseNextCATraceRec
<1>3. CASE ~ (first + BlockWords - 1 > FileWords)
  <2>1. /\ status' = status /\ offset' = 0 /\ caBufferIndex' = first + BlockWords - 1
        /\ blockRecNum' = IF caBufferIndex = 0 THEN 0 ELSE blockRecNum + 1
    BY <1>3 DEF parseNextCATraceRec
  <2>2. first + BlockWords - 1 \in Int /\ first \in Nat /\ first > 0
    BY <1>1, Sizes DEF ReaderT
  <2>3. CASE caBufferIndex = 0
    <3>1. caBufferIndex' = BlockWords /\ blockRecNum' = 0
      BY <1>1, <2>1, <2>3, Sizes
    <3>2. BlockWords = BlockWords * (0 + 1)
      BY Sizes
    <3> QED
      BY <1>1, <1>3, <2>1, <2>2, <3>1, <3>2, Sizes
  <2>4. CASE caBufferIndex # 0
    <3>1. caBufferIndex' = caBufferIndex + BlockWords /\ blockRecNum' = blockRecNum + 1
      BY <1>1, <2>1, <2>4, Sizes DEF ReaderT
    <3>2. caBufferIndex = BlockWords * (blockRecNum + 1) /\ blockRecNum \in Nat
      BY <2>4 DEF ReaderT
    <3>3. BlockWords * (blockRecNum + 1) + BlockWords = BlockWords * ((blockRecNum + 1) + 1)
      BY <3>2, Sizes
    <3> QED
      BY <1>1, <1>3, <2>1, <2>2, <2>4, <3>1, <3>2, <3>3, Sizes DEF ReaderT
  <2> QED
    BY <2>3, <2>4
<1> QED
  BY <1>2, <1>3

\* A block that was read is one of the file.
LEMMA BlockRead ==
  ASSUME TraceT, ReaderT, caBufferIndex # 0
  PROVE  InBlocks
<1>1. FileWords \in Nat
  BY FirstWordIs DEF TraceT
<1> QED
  BY <1>1 DEF TraceT, ReaderT, InBlocks

\* A step of the reader keeps its types.
LEMMA ParseType ==
  ASSUME TraceT, ReaderT, parseNextCATraceRec, UNCHANGED <<lead, mode>>
  PROVE  ReaderT' /\ (caBufferIndex # 0 => caBufferIndex' # 0) /\ status' \in {"EOF", status}
<1>1. FileWords' = FileWords
  BY DEF FileWords
<1>2. CASE status' = "EOF" /\ UNCHANGED reader
  BY <1>1, <1>2 DEF ReaderT, reader
<1>3. CASE /\ status' = status /\ offset' = 0 /\ caBufferIndex' \in 0 .. FileWords
           /\ blockRecNum' = IF caBufferIndex = 0 THEN 0 ELSE blockRecNum + 1
           /\ caBufferIndex' # 0 /\ caBufferIndex' = BlockWords * (blockRecNum' + 1)
  <2>1. blockRecNum' \in Nat
    BY <1>3 DEF ReaderT
  <2> QED
    BY <1>1, <1>3, <2>1, Sizes DEF ReaderT
<1> QED
  BY <1>2, <1>3, ParseIs

\* The entry that rewind() and packQ leave.
LEMMA EmptyType == Empty \in Entry /\ Empty.record = {} /\ NoDepth \in [VTypes -> Nat]
<1>1. NoDepth \in [VTypes -> Nat]
  BY DEF NoDepth
<1>2. 0 \in 0 .. Cycles - 1
  <2>1. PICK m \in 1 .. Cycles : Cycles = m * BlockWords * WordCycles
    BY CATraceAssumption
  <2> QED
    BY <2>1, Sizes
<1> QED
  BY <1>1, <1>2 DEF Empty, Entry

\* Init satisfies the types.
LEMMA InitTypes == Init => TypeInv
<1> HAVE Init
<1>1. TraceT
  <2>1. CaStarts \subseteq 1 .. Len(Path) /\ TeStarts \subseteq 1 .. Len(Path)
        /\ Modes \subseteq {"VECTOR", "INSTRUCTION"} /\ Leads \subseteq 0 .. BlockWords - 1
    BY CATraceAssumption
  <2>2. flags \in [0 .. Cycles - 1 -> SUBSET Flag]
    BY DEF Init
  <2> QED
    BY <2>1, <2>2 DEF Init, TraceT
<1>2. ReaderT
  <2>1. FileWords \in Nat
    BY <1>1, FirstWordIs DEF TraceT
  <2> QED
    BY <2>1, Sizes DEF Init, ReaderT
<1>3. QueueT
  <2>1. Empty \in Entry
    BY EmptyType
  <2>2. 0 \in Slots
    BY Sizes DEF Slots
  <2> QED
    BY <2>1, <2>2 DEF Init, QueueT
<1>4. ControlT
  BY Sizes DEF Init, ControlT
<1>5. PhaseT
  BY DEF Init, PhaseT
<1> QED
  BY <1>1, <1>2, <1>3, <1>4, <1>5 DEF TypeInv

\* What a step leaves alone keeps its types.
LEMMA Kept ==
  ASSUME TypeInv
  PROVE  /\ UNCHANGED trace => TraceT' /\ FileWords' = FileWords
         /\ UNCHANGED trace /\ UNCHANGED reader => ReaderT'
         /\ UNCHANGED <<queue, qStart>> => QueueT'
         /\ UNCHANGED <<status, state, skipped, syncCount>> => ControlT'
         /\ UNCHANGED <<state, caBufferIndex, goals>> => PhaseT'
<1>1. UNCHANGED trace => TraceT' /\ FileWords' = FileWords
  BY DEF TypeInv, TraceT, trace, FileWords
<1>2. UNCHANGED trace /\ UNCHANGED reader => ReaderT'
  BY <1>1 DEF TypeInv, ReaderT, reader, trace
<1>3. UNCHANGED <<queue, qStart>> => QueueT'
  BY DEF TypeInv, QueueT, queue
<1>4. UNCHANGED <<status, state, skipped, syncCount>> => ControlT'
  BY DEF TypeInv, ControlT
<1>5. UNCHANGED <<state, caBufferIndex, goals>> => PhaseT'
  BY DEF TypeInv, PhaseT
<1> QED
  BY <1>1, <1>2, <1>3, <1>4, <1>5

\* The hardware records flags.
LEMMA ExecuteType == TypeInv /\ Execute => TypeInv'
<1> HAVE TypeInv /\ Execute
<1>1. /\ UNCHANGED <<mode, caStart, teStart, lead, firstSet, state, sync, n, shown>>
      /\ UNCHANGED <<search, queue, reader, status, given, packed>>
  BY DEF Execute, NoCall
<1>2. flags' \in [0 .. Cycles - 1 -> SUBSET Flag]
  <2> DEFINE i == caStart + Cardinality(DOMAIN sched)
  <2>1. PICK p \in Pipes, c \in 0 .. Cycles - 1, v \in VectorEvents(i) :
          flags' = [d \in DOMAIN flags |-> flags[d] \cup FlagsOf(i, [pipe |-> p, at |-> c, v |-> v], d)]
    BY DEF Execute
  <2> DEFINE e == [pipe |-> p, at |-> c, v |-> v]
  <2>2. \A a \in DOMAIN e.v : Goals(TypeAt(i))[a] \in VTypes
    <3>1. DOMAIN v = DOMAIN Goals(TypeAt(i)) \/ DOMAIN v = {}
      <4>1. CASE mode = "VECTOR"
        BY <4>1 DEF VectorEvents
      <4>2. CASE mode # "VECTOR"
        <5>1. v = << >>
          BY <4>2 DEF VectorEvents
        <5> QED
          BY <5>1
      <4> QED
        BY <4>1, <4>2
    <3> QED
      BY <3>1, GoalsType
  <2>3. e.pipe \in Pipes
    OBVIOUS
  <2> HIDE DEF e, i
  <2>4. \A d : FlagsOf(i, e, d) \subseteq Flag
    BY <2>2, <2>3 DEF FlagsOf, Flag
  <2>5. flags \in [0 .. Cycles - 1 -> SUBSET Flag]
    BY DEF TypeInv, TraceT
  <2>6. flags' = [d \in 0 .. Cycles - 1 |-> flags[d] \cup FlagsOf(i, e, d)]
    BY <2>1, <2>5 DEF e, i
  <2>7. \A d \in 0 .. Cycles - 1 : flags[d] \cup FlagsOf(i, e, d) \in SUBSET Flag
    BY <2>4, <2>5
  <2> QED
    BY <2>6, <2>7
<1>3. TraceT'
  BY <1>1, <1>2 DEF TypeInv, TraceT
<1>4. ReaderT'
  BY <1>1 DEF TypeInv, ReaderT, reader, FileWords
<1>5. QueueT' /\ ControlT' /\ PhaseT'
  BY <1>1 DEF TypeInv, QueueT, ControlT, PhaseT, queue, search, reader, sync
<1> QED
  BY <1>3, <1>4, <1>5 DEF TypeInv

\* The file is opened and its first block read.
LEMMA SetFileType == TypeInv /\ setCATraceFile => TypeInv'
<1> HAVE TypeInv /\ setCATraceFile
<1>1. /\ state = "HW" /\ parseNextCATraceRec /\ state' = IF status' = "OK" THEN "SYNCCATE" ELSE "ERROR"
      /\ UNCHANGED <<trace, queue, savedAddr, skipped, syncCount, unaligned, n, search, shown, given, packed>>
  BY DEF setCATraceFile
<1>2. ReaderT' /\ status' \in {"EOF", status}
  BY <1>1, ParseType DEF TypeInv, trace
<1>3. TraceT' /\ QueueT'
  BY <1>1, Kept DEF search
<1>4. ControlT'
  BY <1>1, <1>2 DEF TypeInv, ControlT
<1>5. PhaseT'
  <2>1. goals' = << >> /\ state' # "HW" /\ state' # "RUN"
    BY <1>1 DEF TypeInv, PhaseT, search
  <2>2. state' = "SYNCCATE" => caBufferIndex' # 0
    <3> HAVE state' = "SYNCCATE"
    <3>1. status' = "OK" /\ status' # "EOF"
      BY <1>1
    <3> QED
      BY <1>1, <3>1, ParseIs DEF TypeInv
  <2> QED
    BY <2>1, <2>2 DEF PhaseT
<1> QED
  BY <1>2, <1>3, <1>4, <1>5 DEF TypeInv

\* The steps that only align the two traces.
LEMMA SyncType ==
  TypeInv /\ (SyncMessage \/ SyncSkip \/ SyncFound \/ SyncRewind \/ Instruction \/ Stop) => TypeInv'
<1> SUFFICES ASSUME TypeInv, SyncMessage \/ SyncSkip \/ SyncFound \/ SyncRewind \/ Instruction \/ Stop
             PROVE  TypeInv'
  OBVIOUS
<1>1. UNCHANGED trace
  BY DEF SyncMessage, SyncSkip, SyncFound, SyncRewind, Instruction, Stop
<1>2. CASE SyncMessage \/ SyncFound \/ Stop
  <2>1. /\ UNCHANGED <<search, queue, reader, status, skipped, syncCount>>
        /\ state' \in {"RUN", "DONE", "ERROR"} /\ state \in {"SYNCCATE", "RUN"}
    BY <1>2 DEF SyncMessage, SyncFound, Stop, NoCall, sync
  <2>2. TraceT' /\ ReaderT' /\ QueueT'
    BY <1>1, <2>1, Kept DEF search
  <2>3. ControlT' /\ PhaseT'
    BY <2>1 DEF TypeInv, ControlT, PhaseT, search, reader
  <2> QED
    BY <2>2, <2>3 DEF TypeInv
<1>3. CASE SyncSkip
  <2>1. /\ UNCHANGED <<queue, reader, status, state, syncCount>> /\ state = "SYNCCATE"
        /\ skipped' = skipped + 1 /\ skipped < MaxSkip /\ qStart' = traceQOut
    BY <1>3 DEF SyncSkip, CanSkip, Call
  <2>2. TraceT' /\ ReaderT'
    BY <1>1, <2>1, Kept
  <2>3. QueueT'
    BY <2>1 DEF TypeInv, QueueT, queue
  <2>4. ControlT'
    BY <2>1, Sizes DEF TypeInv, ControlT
  <2>5. PhaseT'
    BY <2>1 DEF TypeInv, PhaseT, reader
  <2> QED
    BY <2>2, <2>3, <2>4, <2>5 DEF TypeInv
<1>4. CASE SyncRewind
  <2>1. /\ caBufferIndex' = FirstWord + BlockWords - 1 /\ blockRecNum' = 0 /\ offset' = 0
        /\ traceQIn' = 0 /\ traceQOut' = 0 /\ q' = q
        /\ syncCount' = MaxRun /\ state' = "RUN" /\ UNCHANGED <<skipped, status, search>>
    BY <1>4 DEF SyncRewind, rewind
  <2>2. TraceT' /\ FileWords' = FileWords
    BY <1>1, Kept
  <2>3. caBufferIndex' = BlockWords /\ BlockWords <= FileWords /\ FileWords \in Nat
    <3>1. FirstWord = 1 /\ FileWords \in Nat /\ BlockWords <= FileWords
      BY FirstWordIs DEF TypeInv, TraceT
    <3> QED
      BY <2>1, <3>1, Sizes
  <2>4. ReaderT'
    <3>1. BlockWords = BlockWords * (0 + 1)
      BY Sizes
    <3> QED
      BY <2>1, <2>2, <2>3, <3>1, Sizes DEF ReaderT
  <2>5. QueueT'
    <3>1. 0 \in Slots
      BY Sizes DEF Slots
    <3> QED
      BY <2>1, <3>1 DEF TypeInv, QueueT, search
  <2>6. ControlT' /\ PhaseT'
    BY <2>1, <2>3, Sizes DEF TypeInv, ControlT, PhaseT
  <2> QED
    BY <2>2, <2>4, <2>5, <2>6 DEF TypeInv
<1>5. CASE Instruction
  <2>1. /\ UNCHANGED <<queue, reader, status, skipped>> /\ state = "RUN"
        /\ state' \in {"RUN", "ERROR"}
        /\ syncCount' = 0 \/ (syncCount # 0 /\ syncCount' = syncCount - 1)
        /\ qStart' \in {qStart, traceQOut}
    BY <1>5 DEF Instruction, Call, Aligned, search
  <2>2. TraceT' /\ ReaderT'
    BY <1>1, <2>1, Kept
  <2>3. QueueT'
    BY <2>1 DEF TypeInv, QueueT, queue
  <2>4. ControlT'
    BY <2>1, Sizes DEF TypeInv, ControlT
  <2>5. PhaseT'
    BY <2>1 DEF TypeInv, PhaseT, reader
  <2> QED
    BY <2>2, <2>3, <2>4, <2>5 DEF TypeInv
<1> QED
  BY <1>2, <1>3, <1>4, <1>5

-----------------------------------------------------------------------------
(* What the searches do.                                                   *)

(* x is the queue c without the flag f in slot s.                          *)
Took(c, x, s, f) ==
  \A t \in Slots : /\ x[t].cycle = c[t].cycle /\ x[t].depth = c[t].depth
                   /\ x[t].record = IF t = s THEN c[t].record \ {f} ELSE c[t].record

\* A flag is taken out of one slot; nothing else of the queue changes.
LEMMA TakeIs ==
  ASSUME NEW c \in [Slots -> Entry], NEW s \in Slots, NEW f, Take(s, f, c)
  PROVE  q' \in [Slots -> Entry] /\ Took(c, q', s, f)
<1> DEFINE x == [c EXCEPT ![s].record = @ \ {f}]
           r == c[s].record \ {f}
           e == [c[s] EXCEPT !.record = r]
<1>1. c[s] \in Entry /\ r \subseteq c[s].record
  OBVIOUS
<1>5. x = [c EXCEPT ![s] = e]
  OBVIOUS
<1>9. r = c[s].record \ {f}
  OBVIOUS
<1> HIDE DEF r
<1>2. e = [record |-> r, cycle |-> c[s].cycle, depth |-> c[s].depth]
  BY <1>1 DEF Entry
<1>3. e \in Entry
  BY <1>1, <1>2 DEF Entry
<1>4. e.record = c[s].record \ {f} /\ e.cycle = c[s].cycle /\ e.depth = c[s].depth
  BY <1>9, <1>2
<1> HIDE DEF e, x
<1>6. x \in [Slots -> Entry] /\ \A t \in Slots : x[t] = IF t = s THEN e ELSE c[t]
  BY <1>3, <1>5
<1>7. \A t \in Slots : /\ x[t].cycle = c[t].cycle /\ x[t].depth = c[t].depth
                       /\ x[t].record = IF t = s THEN c[t].record \ {f} ELSE c[t].record
  BY <1>4, <1>6
<1>8. q' = x
  BY DEF Take, x
<1> QED
  BY <1>6, <1>7, <1>8 DEF Took

(* Counted from a, t comes before b.                                       *)
Earlier(a, t, b) == Gap(a, t) < Gap(a, b)

\* consumeCAPipe finds the first slot with a pipe flag, or none.
LEMMA PipeIs ==
  ASSUME QueueT, consumeCAPipe
  PROVE  \/ /\ \A t \in Slots : Earlier(qStart, t, traceQIn) => q[t].record \cap Pipes = {}
            /\ qStart' = traceQIn /\ UNCHANGED <<q, given, goals, depth0, got>>
         \/ \E s \in Slots, f \in Pipes :
              /\ Earlier(qStart, s, traceQIn) /\ f \in q[s].record
              /\ f = IF "V0" \in q[s].record THEN "V0" ELSE "V1"
              /\ \A t \in Slots : Earlier(qStart, t, s) => q[t].record \cap Pipes = {}
              /\ Take(s, f, q) /\ qStart' = s
              /\ got' = Append(got, [cycle |-> q[s].cycle, depth |-> NoDepth])
<1> DEFINE slots == SlotsFrom(qStart)
           m == Gap(qStart, traceQIn)
           hits == {k \in DOMAIN slots : q[slots[k]].record \cap Pipes # {}}
           s == slots[First(hits)]
           f == IF "V0" \in q[s].record THEN "V0" ELSE "V1"
<1>1. IF hits = {}
        THEN qStart' = traceQIn /\ UNCHANGED <<q, given, goals, depth0, got>>
        ELSE /\ Take(s, f, q) /\ qStart' = s
             /\ got' = Append(got, [cycle |-> q[s].cycle, depth |-> NoDepth])
  BY DEF consumeCAPipe
<1>2. /\ m \in Nat /\ DOMAIN slots = 1 .. m
      /\ \A k \in 1 .. m : slots[k] \in Slots /\ Gap(qStart, slots[k]) = k - 1
      /\ \A t \in Slots : Gap(qStart, t) < m =>
           Gap(qStart, t) + 1 \in 1 .. m /\ slots[Gap(qStart, t) + 1] = t
  BY SlotsAre DEF QueueT
<1> HIDE DEF m, slots, f
<1>3. \A k \in hits : k \in Nat /\ k \in 1 .. m /\ q[slots[k]].record \cap Pipes # {}
  BY <1>2
<1>4. \A t \in Slots : Gap(qStart, t) < m /\ q[t].record \cap Pipes # {} => Gap(qStart, t) + 1 \in hits
  BY <1>2
<1> HIDE DEF hits
<1>5. CASE hits = {}
  BY <1>1, <1>4, <1>5 DEF Earlier, m
<1>6. CASE hits # {}
  <2>1. First(hits) \in hits /\ \A j \in hits : First(hits) <= j
    BY <1>3, <1>6, FirstIs
  <2>2. s \in Slots /\ Gap(qStart, s) = First(hits) - 1 /\ q[s].record \cap Pipes # {} /\ First(hits) \in 1 .. m
    BY <1>2, <1>3, <2>1
  <2> HIDE DEF s
  <2>3. f \in Pipes /\ f \in q[s].record
    BY <2>2 DEF f, Pipes
  <2>4. \A t \in Slots : Earlier(qStart, t, s) => q[t].record \cap Pipes = {}
    <3> TAKE t \in Slots
    <3> HAVE Earlier(qStart, t, s)
    <3>1. Gap(qStart, t) \in Nat /\ Gap(qStart, t) < First(hits) - 1
      BY <2>2, GapType DEF Earlier, QueueT
    <3>2. Gap(qStart, t) < m /\ ~ (First(hits) <= Gap(qStart, t) + 1)
      BY <1>2, <2>2, <3>1
    <3>3. Gap(qStart, t) + 1 \notin hits
      BY <2>1, <3>2
    <3> QED
      BY <1>4, <3>2, <3>3
  <2>5. Earlier(qStart, s, traceQIn)
    BY <1>2, <2>2 DEF Earlier, m
  <2>6. Take(s, f, q) /\ qStart' = s /\ got' = Append(got, [cycle |-> q[s].cycle, depth |-> NoDepth])
    BY <1>1, <1>6
  <2> QED
    BY <2>2, <2>3, <2>4, <2>5, <2>6 DEF f
<1> QED
  BY <1>5, <1>6

(* c is the queue with one more instruction counted for f in the slots      *)
(* from a on, up to and including b.                                        *)
CountedTo(c, f, a, b) ==
  /\ c \in [Slots -> Entry]
  /\ \A t \in Slots :
       /\ c[t].record = q[t].record /\ c[t].cycle = q[t].cycle
       /\ c[t].depth = IF Gap(a, t) <= Gap(a, b) THEN [q[t].depth EXCEPT ![f] = @ + 1] ELSE q[t].depth

\* consumeCAVector finds the first slot with the flag, or none, and counts the
\* slots it passes.
LEMMA VectorIs ==
  ASSUME QueueT, consumeCAVector
  PROVE  LET f == Head(goals)
             d0 == IF depth0 = << >> THEN q[qStart].depth ELSE depth0
         IN  \E b \in Slots : \E c \in [Slots -> Entry] :
               /\ f \in VTypes /\ Earlier(qStart, b, traceQIn) /\ CountedTo(c, f, qStart, b)
               /\ \A t \in Slots : Earlier(qStart, t, b) => f \notin q[t].record
               /\ qStart' = Up(b, 1)
               /\ \/ /\ f \notin q[b].record /\ Gap(qStart, b) + 1 = Gap(qStart, traceQIn)
                     /\ q' = c /\ depth0' = d0 /\ UNCHANGED <<given, goals, got>>
                  \/ /\ f \in q[b].record
                     /\ Take(b, f, c)
                     /\ got' = Append(got, [cycle |-> q[b].cycle, depth |-> [d0 EXCEPT ![f] = @ + 1]])
<1> DEFINE slots == SlotsFrom(qStart)
           f == Head(goals)
           m == Gap(qStart, traceQIn)
           hits == {k \in DOMAIN slots : f \in q[slots[k]].record}
           last == IF hits = {} THEN Len(slots) ELSE First(hits)
           passed == {slots[k] : k \in 1 .. last}
           c == [s \in Slots |-> IF s \in passed THEN [q[s] EXCEPT !.depth[f] = @ + 1] ELSE q[s]]
           d0 == IF depth0 = << >> THEN q[qStart].depth ELSE depth0
           b == slots[last]
<1>1. /\ f \in VTypes /\ qStart # traceQIn /\ qStart' = Up(b, 1)
      /\ IF hits = {}
           THEN q' = c /\ depth0' = d0 /\ UNCHANGED <<given, goals, got>>
           ELSE /\ Take(b, f, c)
                /\ got' = Append(got, [cycle |-> q[b].cycle, depth |-> [d0 EXCEPT ![f] = @ + 1]])
  BY DEF consumeCAVector
<1>2. /\ m \in Nat /\ DOMAIN slots = 1 .. m /\ Len(slots) = m
      /\ \A k \in 1 .. m : slots[k] \in Slots /\ Gap(qStart, slots[k]) = k - 1
      /\ \A t \in Slots : Gap(qStart, t) < m =>
           Gap(qStart, t) + 1 \in 1 .. m /\ slots[Gap(qStart, t) + 1] = t
  BY SlotsAre DEF QueueT
<1>3. m > 0
  <2>1. m = IF traceQIn >= qStart THEN traceQIn - qStart ELSE traceQIn - qStart + QSize
    BY GapIs DEF QueueT
  <2>2. /\ traceQIn \in Int /\ qStart \in Int /\ traceQIn < QSize /\ qStart < QSize
        /\ 0 <= traceQIn /\ 0 <= qStart
    BY Sizes DEF QueueT, Slots
  <2> QED
    BY <1>1, <2>1, <2>2, Sizes
<1> HIDE DEF m, slots, d0, f
<1>4. \A k \in hits : k \in Nat /\ k \in 1 .. m /\ f \in q[slots[k]].record
  BY <1>2
<1>5. \A k \in 1 .. m : f \in q[slots[k]].record => k \in hits
  BY <1>2
<1> HIDE DEF hits
<1>6. hits # {} => First(hits) \in hits /\ \A j \in hits : First(hits) <= j
  BY <1>4, FirstIs
<1>7. last \in 1 .. m /\ \A k \in 1 .. m : k < last => f \notin q[slots[k]].record
  <2>1. CASE hits = {}
    BY <1>2, <1>3, <1>5, <2>1
  <2>2. CASE hits # {}
    <3>1. last \in hits /\ \A j \in hits : last <= j
      BY <1>6, <2>2
    <3>2. last \in 1 .. m /\ last \in Nat
      BY <1>4, <3>1
    <3>3. \A k \in 1 .. m : k < last => k \notin hits
      BY <3>1, <3>2
    <3> QED
      BY <1>5, <3>2, <3>3
  <2> QED
    BY <2>1, <2>2
<1>8. hits = {} => last = m /\ f \notin q[slots[last]].record
  BY <1>2, <1>5, <1>7
<1>9. hits # {} => f \in q[slots[last]].record
  BY <1>4, <1>6
<1> HIDE DEF last
<1>10. b \in Slots /\ Gap(qStart, b) = last - 1
  BY <1>2, <1>7
<1>11. \A t \in Slots : Gap(qStart, t) \in Nat
  BY GapType DEF QueueT
<1>12. \A t \in Slots : t \in passed <=> Gap(qStart, t) <= Gap(qStart, b)
  <2> TAKE t \in Slots
  <2>1. ASSUME t \in passed PROVE Gap(qStart, t) <= Gap(qStart, b)
    <3>1. PICK k \in 1 .. last : t = slots[k]
      BY <2>1
    <3>2. k \in 1 .. m
      BY <1>2, <1>7
    <3>3. Gap(qStart, t) = k - 1
      BY <1>2, <3>1, <3>2
    <3> QED
      BY <1>7, <1>10, <3>3
  <2>2. ASSUME Gap(qStart, t) <= Gap(qStart, b) PROVE t \in passed
    <3>1. Gap(qStart, t) + 1 \in 1 .. last /\ Gap(qStart, t) < m
      BY <1>2, <1>7, <1>10, <1>11, <2>2
    <3>2. slots[Gap(qStart, t) + 1] = t
      BY <1>2, <3>1
    <3> QED
      BY <3>1, <3>2
  <2> QED
    BY <2>1, <2>2
<1> HIDE DEF passed, b
<1>13. CountedTo(c, f, qStart, b)
  <2>1. \A t \in Slots : q[t] \in Entry
    BY DEF QueueT
  <2>2. \A t \in Slots : LET x == [q[t] EXCEPT !.depth[f] = @ + 1]
                         IN  /\ x \in Entry /\ x.record = q[t].record /\ x.cycle = q[t].cycle
                             /\ x.depth = [q[t].depth EXCEPT ![f] = @ + 1]
    <3> TAKE t \in Slots
    <3> DEFINE g == [q[t].depth EXCEPT ![f] = @ + 1]
               x == [q[t] EXCEPT !.depth[f] = @ + 1]
    <3>1. x = [q[t] EXCEPT !.depth = g]
      OBVIOUS
    <3>2. q[t].depth \in [VTypes -> Nat] /\ q[t].record \in SUBSET Flag /\ q[t].cycle \in 0 .. Cycles - 1
      BY <2>1 DEF Entry
    <3>3. g \in [VTypes -> Nat]
      BY <1>1, <3>2
    <3> HIDE DEF g, x
    <3>4. x = [record |-> q[t].record, cycle |-> q[t].cycle, depth |-> g]
      BY <2>1, <3>1 DEF Entry
    <3>5. x \in Entry
      BY <3>2, <3>3, <3>4 DEF Entry
    <3> QED
      BY <3>4, <3>5 DEF g, x
  <2>3. c \in [Slots -> Entry]
    BY <2>1, <2>2
  <2>4. \A t \in Slots : c[t] = IF t \in passed THEN [q[t] EXCEPT !.depth[f] = @ + 1] ELSE q[t]
    OBVIOUS
  <2> HIDE DEF c
  <2>5. \A t \in Slots :
          /\ c[t].record = q[t].record /\ c[t].cycle = q[t].cycle
          /\ c[t].depth = IF t \in passed THEN [q[t].depth EXCEPT ![f] = @ + 1] ELSE q[t].depth
    BY <2>2, <2>4
  <2> QED
    BY <1>12, <2>3, <2>5 DEF CountedTo
<1> HIDE DEF c
<1>20. c \in [Slots -> Entry]
  BY <1>13 DEF CountedTo
<1>14. \A t \in Slots : Earlier(qStart, t, b) => f \notin q[t].record
  <2> TAKE t \in Slots
  <2> HAVE Earlier(qStart, t, b)
  <2>1. Gap(qStart, t) < last - 1 /\ Gap(qStart, t) \in Nat
    BY <1>10, <1>11 DEF Earlier
  <2>2. Gap(qStart, t) < m /\ Gap(qStart, t) + 1 < last
    BY <1>2, <1>7, <2>1
  <2> QED
    BY <1>2, <1>7, <2>2
<1>15. Earlier(qStart, b, traceQIn)
  BY <1>2, <1>7, <1>10 DEF Earlier, m
<1>16. CASE hits = {}
  <2>1. f \notin q[b].record /\ Gap(qStart, b) + 1 = Gap(qStart, traceQIn)
    BY <1>2, <1>8, <1>10, <1>16 DEF b, m
  <2> QED
    BY <1>1, <1>10, <1>13, <1>14, <1>15, <1>16, <1>20, <2>1 DEF f, d0
<1>17. CASE hits # {}
  <2>1. f \in q[b].record
    BY <1>9, <1>17 DEF b
  <2> QED
    BY <1>1, <1>10, <1>13, <1>14, <1>15, <1>17, <1>20, <2>1 DEF f, d0
<1> QED
  BY <1>16, <1>17

\* The next word with flags lies ahead in the block.
LEMMA NextWordIs ==
  ASSUME ReaderT, NextWords # {}
  PROVE  /\ NextWord \in NextWords /\ NextWord \in offset + 1 .. BlockWords
         /\ \A j \in NextWords : NextWord <= j
<1>1. \A k \in NextWords : k \in Nat /\ k \in offset + 1 .. BlockWords
  BY Sizes DEF NextWords, ReaderT
<1>2. NextWord = First(NextWords)
  BY Zenon DEF NextWord, First
<1>3. First(NextWords) \in NextWords /\ \A j \in NextWords : First(NextWords) <= j
  BY <1>1, FirstIs
<1> QED
  BY <1>1, <1>2, <1>3

\* The word that ReadWord reads, with the number of its first cycle.
LEMMA WordRead ==
  ASSUME TypeInv, caBufferIndex # 0, NEW k \in 1 .. BlockWords
  PROVE  LET t == BlockStart + (k - 1) * WordCycles
         IN  /\ DataWord(k) \in [1 .. WordCycles -> SUBSET Flag] /\ t \in Int
             /\ \A j \in 1 .. WordCycles : t + j - 1 \in 0 .. Cycles - 1
<1>1. InBlocks
  BY BlockRead DEF TypeInv
<1>2. DataWord(k) \in [1 .. WordCycles -> SUBSET Flag]
  BY <1>1, DataWordIs DEF TypeInv, TraceT
<1>3. BlockStart + (k - 1) * WordCycles \in Int
  BY Sizes DEF BlockStart, TypeInv, ReaderT
<1>4. \A j \in 1 .. WordCycles : BlockStart + (k - 1) * WordCycles + j - 1 \in 0 .. Cycles - 1
  BY <1>1, InFile
<1> QED
  BY <1>2, <1>3, <1>4

\* A search that goes on is that of a block.
LEMMA BusyBlock ==
  ASSUME TypeInv, Busy
  PROVE  caBufferIndex # 0 /\ state # "HW"
  BY DEF TypeInv, PhaseT, Busy

\* The searches and the reading keep the types.
LEMMA ConsumeType ==
  TypeInv /\ (consumeCAPipe \/ consumeCAVector \/ consumeCAInstruction \/ ReadMore) => TypeInv'
<1> SUFFICES ASSUME TypeInv, consumeCAPipe \/ consumeCAVector \/ consumeCAInstruction \/ ReadMore
             PROVE  TypeInv'
  OBVIOUS
<1>1. UNCHANGED <<trace, state, sync>> /\ Busy
  BY DEF consumeCAPipe, consumeCAVector, consumeCAInstruction, ReadMore
<1>2. caBufferIndex # 0 /\ state # "HW"
  BY <1>1, BusyBlock
<1>3. TraceT' /\ FileWords' = FileWords
  BY <1>1, Kept
<1>4. ASSUME UNCHANGED <<reader, status, traceQIn, traceQOut>>, q' \in [Slots -> Entry], qStart' \in Slots
      PROVE  TypeInv'
  <2>1. ReaderT'
    BY <1>1, <1>4, Kept
  <2>2. QueueT' /\ ControlT'
    BY <1>1, <1>4 DEF TypeInv, QueueT, ControlT, sync
  <2>3. PhaseT'
    BY <1>1, <1>2, <1>4 DEF PhaseT, reader
  <2> QED
    BY <1>3, <2>1, <2>2, <2>3 DEF TypeInv
<1>5. QueueT
  BY DEF TypeInv
<1>6. CASE consumeCAPipe
  <2>1. UNCHANGED <<reader, status, traceQIn, traceQOut>>
    BY <1>6 DEF consumeCAPipe
  <2>2. CASE qStart' = traceQIn /\ UNCHANGED <<q, given, goals, depth0, got>>
    BY <1>4, <1>5, <2>1, <2>2 DEF QueueT
  <2>3. ASSUME NEW s \in Slots, NEW f \in Pipes, Take(s, f, q), qStart' = s
        PROVE  TypeInv'
    <3>2. q' \in [Slots -> Entry]
      BY <1>5, <2>3, TakeIs DEF QueueT
    <3> QED
      BY <1>4, <2>1, <2>3, <3>2
  <2> QED
    BY <1>5, <1>6, <2>2, <2>3, PipeIs
<1>7. CASE consumeCAVector
  <2>1. UNCHANGED <<reader, status, traceQIn, traceQOut>>
    BY <1>7 DEF consumeCAVector
  <2>2. PICK b \in Slots, c \in [Slots -> Entry] :
          /\ qStart' = Up(b, 1)
          /\ q' = c \/ Take(b, Head(goals), c)
    BY <1>5, <1>7, VectorIs
  <2>3. qStart' \in Slots
    <3>1. 1 \in 0 .. QSize
      BY Sizes
    <3> QED
      BY <2>2, <3>1, UpIs
  <2>4. q' \in [Slots -> Entry]
    <3>1. CASE q' = c
      BY <3>1
    <3>2. CASE Take(b, Head(goals), c)
      BY <3>2, TakeIs
    <3> QED
      BY <2>2, <3>1, <3>2
  <2> QED
    BY <1>4, <2>1, <2>3, <2>4
<1>8. ASSUME parseNextCATraceRec, UNCHANGED <<queue, qStart>>
      PROVE  TypeInv'
  <2>1. ReaderT' /\ caBufferIndex' # 0 /\ status' \in {"EOF", status}
    BY <1>1, <1>2, <1>8, ParseType DEF TypeInv, trace
  <2>2. QueueT'
    BY <1>8, Kept
  <2>3. ControlT' /\ PhaseT'
    BY <1>1, <1>2, <2>1 DEF TypeInv, ControlT, PhaseT, sync
  <2> QED
    BY <1>3, <2>1, <2>2, <2>3 DEF TypeInv
<1>9. CASE consumeCAInstruction
  <2>1. CASE NextBits = {}
    BY <1>8, <1>9, <2>1 DEF consumeCAInstruction
  <2>2. CASE NextBits # {}
    <3>1. /\ UNCHANGED <<caBufferIndex, blockRecNum, status, queue, qStart>> /\ offset' = First(NextBits) + 1
          /\ mode = "INSTRUCTION"
      BY <1>9, <2>2 DEF consumeCAInstruction
    <3>2. \A b \in NextBits : b \in Nat
      BY Sizes DEF NextBits, TypeInv, ReaderT
    <3>3. offset' \in Nat
      BY <2>2, <3>1, <3>2, FirstIs
    <3>4. ReaderT'
      BY <1>1, <1>2, <1>3, <3>1, <3>3 DEF TypeInv, ReaderT, trace
    <3>5. QueueT'
      BY <3>1, Kept
    <3>6. ControlT' /\ PhaseT'
      BY <1>1, <1>2, <3>1 DEF TypeInv, ControlT, PhaseT, sync
    <3> QED
      BY <1>3, <3>4, <3>5, <3>6 DEF TypeInv
  <2> QED
    BY <2>1, <2>2
<1>10. CASE ReadMore
  <2>1. CASE NextWords # {} /\ ReadWord
    <3> DEFINE k == NextWord
               t == BlockStart + (k - 1) * WordCycles
    <3>1. k \in offset + 1 .. BlockWords
      BY <2>1, NextWordIs DEF TypeInv
    <3>2. k \in 1 .. BlockWords
      BY <3>1, Sizes DEF TypeInv, ReaderT
    <3>3. /\ offset' = k /\ qStart' = traceQIn /\ addQ(DataWord(k), t)
          /\ UNCHANGED <<caBufferIndex, blockRecNum>>
      BY <2>1 DEF ReadWord
    <3> HIDE DEF k
    <3>4. /\ DataWord(k) \in [1 .. WordCycles -> SUBSET Flag] /\ t \in Int
          /\ \A j \in 1 .. WordCycles : t + j - 1 \in 0 .. Cycles - 1
      BY <1>2, <3>2, WordRead
    <3> HIDE DEF t
    <3>5. q' \in [Slots -> Entry] /\ traceQIn' \in Slots /\ traceQOut' = traceQOut
          /\ status' \in {"ERR", status}
      BY <1>5, <3>3, <3>4, AddIs DEF QueueT
    <3>6. ReaderT'
      BY <1>1, <1>2, <1>3, <3>2, <3>3, Sizes DEF TypeInv, ReaderT, trace
    <3>7. QueueT' /\ ControlT' /\ PhaseT'
      BY <1>1, <1>2, <3>3, <3>5 DEF TypeInv, QueueT, ControlT, PhaseT, sync
    <3> QED
      BY <1>3, <3>6, <3>7 DEF TypeInv
  <2>2. CASE parseNextCATraceRec /\ UNCHANGED <<queue, qStart, packed, depth0>>
    BY <1>8, <2>2
  <2> QED
    BY <1>10, <2>1, <2>2 DEF ReadMore
<1> QED
  BY <1>6, <1>7, <1>9, <1>10

\* Return drops the empty slots at the front: what is left begins with a full
\* slot, or nothing is left.
LEMMA ReturnIs ==
  ASSUME QueueT, Return
  PROVE  /\ traceQOut' \in Slots /\ Gap(traceQOut, traceQOut') <= Gap(traceQOut, traceQIn)
         /\ \A t \in Slots : Gap(traceQOut, t) < Gap(traceQOut, traceQOut') => ~ Full(t)
<1> DEFINE slots == SlotsFrom(traceQOut)
           m == Gap(traceQOut, traceQIn)
           full == {k \in DOMAIN slots : Full(slots[k])}
<1>1. traceQOut' = IF full = {} THEN traceQIn ELSE slots[First(full)]
  BY DEF Return
<1>2. /\ m \in Nat /\ DOMAIN slots = 1 .. m
      /\ \A k \in 1 .. m : slots[k] \in Slots /\ Gap(traceQOut, slots[k]) = k - 1
      /\ \A t \in Slots : Gap(traceQOut, t) < m =>
           Gap(traceQOut, t) + 1 \in 1 .. m /\ slots[Gap(traceQOut, t) + 1] = t
  BY SlotsAre DEF QueueT
<1> HIDE DEF m, slots
<1>3. \A k \in full : k \in Nat /\ k \in 1 .. m
  BY <1>2
<1>4. \A t \in Slots : Gap(traceQOut, t) < m /\ Full(t) => Gap(traceQOut, t) + 1 \in full
  BY <1>2
<1> HIDE DEF full
<1>5. CASE full = {}
  BY <1>1, <1>2, <1>4, <1>5 DEF m, QueueT
<1>6. CASE full # {}
  <2>1. First(full) \in full /\ \A j \in full : First(full) <= j
    BY <1>3, <1>6, FirstIs
  <2>2. traceQOut' \in Slots /\ Gap(traceQOut, traceQOut') = First(full) - 1 /\ First(full) \in 1 .. m
    BY <1>1, <1>2, <1>3, <1>6, <2>1
  <2>3. \A t \in Slots : Gap(traceQOut, t) \in Nat
    BY GapType DEF QueueT
  <2>4. \A t \in Slots : Gap(traceQOut, t) < Gap(traceQOut, traceQOut') => ~ Full(t)
    <3> TAKE t \in Slots
    <3> HAVE Gap(traceQOut, t) < Gap(traceQOut, traceQOut')
    <3>1. Gap(traceQOut, t) < m /\ ~ (First(full) <= Gap(traceQOut, t) + 1)
      BY <1>2, <2>2, <2>3
    <3> QED
      BY <1>4, <2>1, <3>1
  <2> QED
    BY <1>2, <2>2, <2>4 DEF m
<1> QED
  BY <1>5, <1>6

\* The end of consume() keeps the types.
LEMMA ReturnType == TypeInv /\ Return => TypeInv'
<1> SUFFICES ASSUME TypeInv, Return PROVE TypeInv'
  OBVIOUS
<1>1. UNCHANGED <<trace, q, traceQIn, reader, status, state, sync, goals, qStart>>
  BY DEF Return
<1>2. TraceT' /\ ReaderT'
  BY <1>1, Kept
<1>3. traceQOut' \in Slots
  BY ReturnIs DEF TypeInv
<1>4. QueueT' /\ ControlT' /\ PhaseT'
  BY <1>1, <1>3 DEF TypeInv, QueueT, ControlT, PhaseT, sync, reader
<1> QED
  BY <1>2, <1>4 DEF TypeInv

\* Every step keeps the types.
LEMMA NextTypes == TypeInv /\ [Next]_vars => TypeInv'
<1> SUFFICES ASSUME TypeInv, [Next]_vars PROVE TypeInv'
  OBVIOUS
<1>1. CASE UNCHANGED vars
  <2>1. /\ UNCHANGED <<trace, queue, reader>>
        /\ UNCHANGED <<qStart, status, state, skipped, syncCount, goals, caBufferIndex>>
    BY <1>1 DEF vars, search, sync, reader, queue, trace
  <2> QED
    BY <2>1, Kept DEF TypeInv
<1>2. CASE Next
  BY <1>2, ExecuteType, SetFileType, SyncType, ConsumeType, ReturnType DEF Next
<1> QED
  BY <1>1, <1>2

\* TypeOK of the cycle accurate trace: whatever the program, the cycles its events
\* fall in and the order of searching, reading and packing, every index of the
\* circular queue stays inside it and every block read is one of the file.
THEOREM CATraceTypeCorrect == Spec => []TypeOK
<1>1. TypeInv => TypeOK
  BY DEF TypeInv, TraceT, ReaderT, QueueT, ControlT, TypeOK, Entry, Flag
<1> QED
  BY <1>1, InitTypes, NextTypes, PTL DEF Spec

-----------------------------------------------------------------------------
(* What the queue holds.                                                   *)

(* The queue Q, from out up to in, holds the flags F, each with its cycle,  *)
(* in the order of their cycles.                                           *)
Ordered(Q, in, out) ==
  \A s, t \in Slots :
    /\ Earlier(out, s, in) /\ Earlier(out, t, in) /\ Earlier(out, s, t)
    /\ Q[s].record # {} /\ Q[t].record # {}
    => Q[s].cycle < Q[t].cycle
Has(Q, in, out, f, c) == \E s \in Slots : Earlier(out, s, in) /\ f \in Q[s].record /\ c = Q[s].cycle
Holds(Q, in, out, F) ==
  /\ Ordered(Q, in, out)
  /\ \A f, c : <<f, c>> \in F <=> Has(Q, in, out, f, c)
(* Nothing is left in the slots outside the queue.                         *)
InRange(Q, in, out) == \A s \in Slots : Q[s].record # {} => Earlier(out, s, in)

\* packQ keeps what the queue holds, and leaves nothing outside it.
LEMMA PackHolds ==
  ASSUME q \in [Slots -> Entry], traceQIn \in Slots, traceQOut \in Slots,
         NEW F, Holds(q, traceQIn, traceQOut, F)
  PROVE  /\ Holds(packQ.q, packQ.in, traceQOut, F)
         /\ InRange(q, traceQIn, traceQOut) => InRange(packQ.q, packQ.in, traceQOut)
<1> DEFINE w == Gap(traceQOut, traceQIn)
           h == Len(Held)
           P == packQ.q
           i == packQ.in
           g(s) == Gap(traceQOut, s)
<1>1. /\ w \in Nat /\ w < QSize /\ h \in 0 .. w /\ h \in Nat
      /\ \A k \in 1 .. h : Held[k] \in Slots /\ Full(Held[k]) /\ g(Held[k]) < w
      /\ \A k, l \in 1 .. h : k < l => g(Held[k]) < g(Held[l])
      /\ \A s \in Slots : Full(s) /\ g(s) < w => \E k \in 1 .. h : Held[k] = s
  BY HeldAre
<1>2. /\ i \in Slots /\ i = IF h < w THEN Up(traceQOut, h + 1) ELSE traceQIn
      /\ \A s \in Slots :
           /\ g(s) < h => P[s] = q[Held[g(s) + 1]]
           /\ ~ (g(s) < h) =>
                IF \E k \in 1 .. h : Held[k] = s THEN P[s].record = {} ELSE P[s] = q[s]
  BY PackIs
<1>3. \A s \in Slots : g(s) \in Nat
  BY GapType
<1>4. \A s \in Slots : Full(s) <=> q[s].record # {}
  BY DEF Full
<1>5. g(i) = IF h < w THEN h + 1 ELSE w
  <2>1. CASE h < w
    <3>1. h + 1 \in Slots
      BY <1>1, <2>1, Sizes DEF Slots
    <3> QED
      BY <1>2, <2>1, <3>1, UpAndGap
  <2>2. CASE ~ (h < w)
    BY <1>1, <1>2, <2>2
  <2> QED
    BY <2>1, <2>2
<1>9. \A s, t \in Slots :
        g(s) < w /\ g(t) < w /\ g(s) < g(t) /\ q[s].record # {} /\ q[t].record # {} => q[s].cycle < q[t].cycle
  BY DEF Holds, Ordered, Earlier
<1> HIDE DEF w, h, P, i, g
<1>6. \A s \in Slots : g(s) < w /\ P[s].record # {} => g(s) < h
  BY <1>1, <1>2, <1>4
<1>7. \A s \in Slots : (g(s) < h => g(s) < g(i)) /\ (g(s) < g(i) => g(s) < w)
  <2> TAKE s \in Slots
  <2>1. g(s) \in Nat /\ h \in Nat /\ w \in Nat /\ h <= w
    BY <1>1, <1>3
  <2> QED
    BY <1>5, <2>1
<1>8. \A s \in Slots : g(s) < h => g(s) + 1 \in 1 .. h
  BY <1>1, <1>3
<1>10. InRange(q, traceQIn, traceQOut) => InRange(P, i, traceQOut)
  <2> SUFFICES ASSUME NEW s \in Slots, P[s].record # {}, q[s].record # {} => g(s) < w PROVE g(s) < g(i)
    BY DEF InRange, Earlier, g, w
  <2>1. CASE g(s) < h
    BY <1>7, <2>1
  <2>2. CASE ~ (g(s) < h)
    <3>1. P[s] = q[s]
      BY <1>2, <2>2
    <3> QED
      BY <1>6, <2>2, <3>1
  <2> QED
    BY <2>1, <2>2
<1>11. Ordered(P, i, traceQOut)
  <2> SUFFICES ASSUME NEW s \in Slots, NEW t \in Slots, g(s) < g(i), g(t) < g(i), g(s) < g(t),
                      P[s].record # {}, P[t].record # {}
               PROVE  P[s].cycle < P[t].cycle
    BY DEF Ordered, Earlier, g
  <2>1. g(s) < h /\ g(t) < h
    BY <1>6, <1>7
  <2>2. P[s] = q[Held[g(s) + 1]] /\ P[t] = q[Held[g(t) + 1]] /\ g(s) + 1 \in 1 .. h /\ g(t) + 1 \in 1 .. h
    BY <1>2, <1>8, <2>1
  <2>3. g(s) + 1 < g(t) + 1
    BY <1>3
  <2>4. /\ Held[g(s) + 1] \in Slots /\ Held[g(t) + 1] \in Slots
        /\ g(Held[g(s) + 1]) < w /\ g(Held[g(t) + 1]) < w
        /\ q[Held[g(s) + 1]].record # {} /\ q[Held[g(t) + 1]].record # {}
        /\ g(Held[g(s) + 1]) < g(Held[g(t) + 1])
    BY <1>1, <1>4, <2>2, <2>3
  <2> QED
    BY <1>9, <2>2, <2>4
<1>12. ASSUME NEW f, NEW c PROVE Has(P, i, traceQOut, f, c) <=> Has(q, traceQIn, traceQOut, f, c)
  <2>1. ASSUME NEW s \in Slots, g(s) < g(i), f \in P[s].record PROVE \E t \in Slots : g(t) < w /\ q[t] = P[s]
    <3>1. g(s) < h
      BY <1>6, <1>7, <2>1
    <3> QED
      BY <1>1, <1>2, <1>8, <3>1
  <2>2. ASSUME NEW s \in Slots, g(s) < w, f \in q[s].record PROVE \E t \in Slots : g(t) < g(i) /\ P[t] = q[s]
    <3>1. PICK k \in 1 .. h : Held[k] = s
      BY <1>1, <1>4, <2>2
    <3>2. k - 1 \in Slots
      BY <1>1, Sizes DEF Slots
    <3>3. Up(traceQOut, k - 1) \in Slots /\ g(Up(traceQOut, k - 1)) = k - 1
      BY <3>2, UpAndGap DEF g
    <3>4. k - 1 < h /\ (k - 1) + 1 = k
      BY <1>1
    <3> QED
      BY <1>2, <1>7, <3>1, <3>3, <3>4
  <2> QED
    BY <2>1, <2>2 DEF Has, Earlier, g, w
<1> QED
  BY <1>10, <1>11, <1>12 DEF Holds, P, i

\* The slot k on from i, counted from a slot a before it.
LEMMA UpFrom ==
  ASSUME NEW a \in Slots, NEW i \in Slots, NEW k \in Nat, Gap(a, i) + k < QSize
  PROVE  Up(i, k) \in Slots /\ Gap(a, Up(i, k)) = Gap(a, i) + k
<1>1. Gap(a, i) \in Nat
  BY GapType
<1>2. k \in 0 .. QSize
  BY <1>1, Sizes
<1>3. Up(i, k) \in Slots /\ Up(i, k) = IF i + k < QSize THEN i + k ELSE i + k - QSize
  BY <1>2, UpIs
<1>4. Gap(a, i) = IF i >= a THEN i - a ELSE i - a + QSize
  BY GapIs
<1>5. Gap(a, Up(i, k)) = IF Up(i, k) >= a THEN Up(i, k) - a ELSE Up(i, k) - a + QSize
  BY <1>3, GapIs
<1>6. /\ a \in Int /\ i \in Int /\ 0 <= a /\ 0 <= i /\ a < QSize /\ i < QSize /\ QSize \in Int /\ k \in Int
      /\ 0 <= k
  BY Sizes DEF Slots
<1> QED
  BY <1>3, <1>4, <1>5, <1>6

\* The m slots from i on, counted from a.
LEMMA NewSlots ==
  ASSUME NEW a \in Slots, NEW i \in Slots, NEW s \in Slots, NEW m \in Nat, Gap(a, i) + m < QSize
  PROVE  /\ Gap(i, s) < m => Gap(a, s) = Gap(a, i) + Gap(i, s)
         /\ ~ (Gap(i, s) < m) => Gap(a, s) < Gap(a, i) \/ Gap(a, i) + m <= Gap(a, s)
<1>1. /\ Gap(a, i) = IF i >= a THEN i - a ELSE i - a + QSize
      /\ Gap(a, s) = IF s >= a THEN s - a ELSE s - a + QSize
      /\ Gap(i, s) = IF s >= i THEN s - i ELSE s - i + QSize
  BY GapIs
<1>2. /\ a \in Int /\ i \in Int /\ 0 <= a /\ 0 <= i /\ a < QSize /\ i < QSize /\ QSize \in Int
      /\ s \in Int /\ 0 <= s /\ s < QSize /\ m \in Int /\ 0 <= m
  BY Sizes DEF Slots
<1> QED
  BY <1>1, <1>2

\* The slots before s are those before qStart and those the search has passed.
LEMMA Passed ==
  ASSUME NEW a \in Slots, NEW b \in Slots, NEW c \in Slots, Gap(a, b) <= Gap(a, c), NEW s \in Slots
  PROVE  /\ Earlier(b, s, c) => Gap(a, s) = Gap(a, b) + Gap(b, s) /\ Earlier(a, s, c)
         /\ \A t \in Slots : Earlier(b, s, c) /\ Earlier(a, t, s) => Earlier(a, t, b) \/ Earlier(b, t, s)
         /\ Earlier(a, s, c) => Earlier(a, s, b) \/ Earlier(b, s, c)
<1>1. \A x, y \in Slots : Gap(x, y) \in Nat /\ Gap(x, y) < QSize
  BY GapType
<1>2. Gap(b, c) = Gap(a, c) - Gap(a, b)
  BY GapsAdd
<1>3. ASSUME Earlier(b, s, c) PROVE Gap(a, s) = Gap(a, b) + Gap(b, s)
  <2>1. Gap(b, s) < Gap(b, c)
    BY <1>3 DEF Earlier
  <2>2. Gap(b, c) \in Nat /\ Gap(a, c) \in Nat /\ Gap(a, b) \in Nat /\ Gap(a, c) < QSize /\ QSize \in Nat
    BY <1>1, Sizes
  <2>3. Gap(a, b) + Gap(b, c) < QSize
    BY <1>2, <2>2
  <2> QED
    BY <2>1, <2>2, <2>3, NewSlots
<1>4. ASSUME NEW t \in Slots, NEW d \in Slots, Gap(a, b) <= Gap(a, d), Earlier(a, t, d), ~ Earlier(a, t, b) PROVE Earlier(b, t, d)
  <2>1. Gap(a, b) <= Gap(a, t) /\ Gap(a, b) \in Nat /\ Gap(a, t) \in Nat /\ Gap(a, d) \in Nat /\ Gap(a, t) < Gap(a, d)
    BY <1>1, <1>4 DEF Earlier
  <2>2. Gap(b, t) = Gap(a, t) - Gap(a, b)
    BY <2>1, GapsAdd
  <2>3. Gap(b, d) = Gap(a, d) - Gap(a, b)
    BY <1>4, GapsAdd
  <2> QED
    BY <2>1, <2>2, <2>3 DEF Earlier
<1>5. Earlier(b, s, c) => Gap(a, s) = Gap(a, b) + Gap(b, s) /\ Earlier(a, s, c)
  BY <1>1, <1>2, <1>3 DEF Earlier
<1>6. ASSUME NEW t \in Slots, Earlier(b, s, c), Earlier(a, t, s) PROVE Earlier(a, t, b) \/ Earlier(b, t, s)
  <2>1. Gap(a, b) <= Gap(a, s)
    BY <1>1, <1>3, <1>6
  <2> QED
    BY <1>4, <1>6, <2>1
<1>7. Earlier(a, s, c) => Earlier(a, s, b) \/ Earlier(b, s, c)
  BY <1>4
<1> QED
  BY <1>5, <1>6, <1>7

\* What the queue holds before the entries of a word are added.
LEMMA PackedHolds ==
  ASSUME q \in [Slots -> Entry], traceQIn \in Slots, traceQOut \in Slots,
         NEW F, Holds(q, traceQIn, traceQOut, F)
  PROVE  /\ Holds(Packed.q, Packed.in, traceQOut, F)
         /\ InRange(q, traceQIn, traceQOut) => InRange(Packed.q, Packed.in, traceQOut)
<1>1. CASE roomQ(traceQIn, traceQOut) < WordCycles
  <2>1. Packed = packQ
    BY <1>1 DEF Packed
  <2> QED
    BY <2>1, PackHolds
<1>2. CASE ~ (roomQ(traceQIn, traceQOut) < WordCycles)
  <2>1. Packed.q = q /\ Packed.in = traceQIn
    BY <1>2 DEF Packed
  <2> QED
    BY <2>1
<1> QED
  BY <1>1, <1>2

(* G is F with the flags of a word that begins in cycle t.                 *)
AllUnder(F, t) == \A f, c : <<f, c>> \in F => c < t
With(F, G, word, t) ==
  \A f, c : <<f, c>> \in G <=> <<f, c>> \in F \/ \E j \in 1 .. WordCycles : f \in word[j] /\ c = t + j - 1

\* addQ adds the flags of the word to what the queue holds.
LEMMA AddHolds ==
  ASSUME q \in [Slots -> Entry], traceQIn \in Slots, traceQOut \in Slots,
         NEW word \in [1 .. WordCycles -> SUBSET Flag], NEW t \in Int,
         \A j \in 1 .. WordCycles : t + j - 1 \in 0 .. Cycles - 1,
         addQ(word, t), status' # "ERR",
         NEW F, Holds(q, traceQIn, traceQOut, F), AllUnder(F, t),
         NEW G, With(F, G, word, t)
  PROVE  /\ Holds(q', traceQIn', traceQOut', G)
         /\ InRange(q, traceQIn, traceQOut) => InRange(q', traceQIn', traceQOut')
<1> DEFINE e == Entries(word, t)
           m == Len(e)
           i == Packed.in
           R == Packed.q
           g(s) == Gap(traceQOut, s)
           new(s) == Gap(i, s) < m
<1>1. /\ R \in [Slots -> Entry] /\ i \in Slots /\ traceQIn' = Up(i, m) /\ traceQOut' = traceQOut
      /\ g(i) + m < QSize
      /\ \A s \in Slots : (new(s) => q'[s] = e[Gap(i, s) + 1]) /\ (~ new(s) => q'[s] = R[s])
  BY AddIs
<1>2. /\ m \in Nat /\ m \in 0 .. WordCycles
      /\ \A k \in 1 .. m : \E j \in 1 .. WordCycles : e[k] = EntryOf(word, t, j)
      /\ \A k, l \in 1 .. m : k < l => e[k].cycle < e[l].cycle
      /\ \A j \in 1 .. WordCycles : word[j] # {} => \E k \in 1 .. m : e[k] = EntryOf(word, t, j)
  <2>1. m \in 0 .. WordCycles
    BY EntriesAre
  <2>2. m \in Nat
    BY <2>1, Sizes
  <2> QED
    BY <2>1, <2>2, EntriesAre
<1>3. \A j \in 1 .. WordCycles : EntryOf(word, t, j).record = word[j] /\ EntryOf(word, t, j).cycle = t + j - 1
  BY DEF EntryOf
<1>4. Holds(R, i, traceQOut, F)
  BY PackedHolds
<1> HIDE DEF e, m, i, R
<1>5. \A s \in Slots : g(s) \in Nat /\ Gap(i, s) \in Nat
  BY <1>1, GapType
<1>6. \A s \in Slots : new(s) => g(s) = g(i) + Gap(i, s) /\ Gap(i, s) + 1 \in 1 .. m
  <2> TAKE s \in Slots
  <2> HAVE new(s)
  <2>1. g(s) = g(i) + Gap(i, s)
    BY <1>1, <1>2, NewSlots
  <2>2. Gap(i, s) + 1 \in 1 .. m
    BY <1>2, <1>5
  <2> QED
    BY <2>1, <2>2
<1>7. \A s \in Slots : g(s) < g(i) => ~ new(s) /\ g(s) < g(i) + m
  <2> TAKE s \in Slots
  <2> HAVE g(s) < g(i)
  <2> QED
    BY <1>1, <1>2, <1>5, <1>6
<1>8. g(traceQIn') = g(i) + m
  BY <1>1, <1>2, UpFrom
<1>14. \A s \in Slots : ~ new(s) /\ g(s) < g(traceQIn') => g(s) < g(i)
  <2> TAKE s \in Slots
  <2> HAVE ~ new(s) /\ g(s) < g(traceQIn')
  <2>1. g(s) < g(i) \/ g(i) + m <= g(s)
    BY <1>1, <1>2, NewSlots
  <2>2. g(s) \in Nat /\ g(i) \in Nat /\ g(s) < g(i) + m
    BY <1>1, <1>5, <1>8
  <2> QED
    BY <1>2, <2>1, <2>2
<1>9. \A s \in Slots : ~ new(s) /\ g(s) < g(traceQIn') /\ q'[s].record # {} =>
        q'[s] = R[s] /\ g(s) < g(i) /\ q'[s].cycle < t
  <2> TAKE s \in Slots
  <2> HAVE ~ new(s) /\ g(s) < g(traceQIn') /\ q'[s].record # {}
  <2>1. q'[s] = R[s] /\ g(s) < g(i)
    BY <1>1, <1>14
  <2>2. PICK f : f \in R[s].record
    BY <2>1
  <2>3. <<f, R[s].cycle>> \in F
    BY <1>4, <2>1, <2>2 DEF Holds, Has, Earlier
  <2> QED
    BY <2>1, <2>3 DEF AllUnder
<1>10. \A s \in Slots : new(s) => /\ q'[s] = e[Gap(i, s) + 1]
                                  /\ \E j \in 1 .. WordCycles : q'[s].record = word[j] /\ q'[s].cycle = t + j - 1
  <2> TAKE s \in Slots
  <2> HAVE new(s)
  <2>1. q'[s] = e[Gap(i, s) + 1] /\ Gap(i, s) + 1 \in 1 .. m
    BY <1>1, <1>6
  <2>2. PICK j \in 1 .. WordCycles : e[Gap(i, s) + 1] = EntryOf(word, t, j)
    BY <1>2, <2>1
  <2>3. q'[s].record = word[j] /\ q'[s].cycle = t + j - 1
    BY <1>3, <2>1, <2>2
  <2> QED
    BY <2>1, <2>3
<1> HIDE DEF g, new
<1>11. ASSUME InRange(q, traceQIn, traceQOut) PROVE InRange(q', traceQIn', traceQOut)
  <2> SUFFICES ASSUME NEW s \in Slots, q'[s].record # {} PROVE g(s) < g(traceQIn')
    BY DEF InRange, Earlier, g
  <2>4. \A u \in Slots : R[u].record # {} => g(u) < g(i)
    BY <1>11, PackedHolds DEF InRange, Earlier, g, R, i
  <2>1. g(s) \in Nat /\ g(i) \in Nat /\ Gap(i, s) \in Nat
    BY <1>1, <1>5
  <2>2. CASE new(s)
    <3>1. g(s) = g(i) + Gap(i, s) /\ Gap(i, s) + 1 \in 1 .. m
      BY <1>6, <2>2
    <3> QED
      BY <1>2, <1>8, <2>1, <3>1
  <2>3. CASE ~ new(s)
    <3>1. g(s) < g(i)
      BY <1>1, <2>3, <2>4 DEF new
    <3> QED
      BY <1>2, <1>8, <2>1, <3>1
  <2> QED
    BY <2>2, <2>3
<1>12. Ordered(q', traceQIn', traceQOut)
  <2> SUFFICES ASSUME NEW s \in Slots, NEW u \in Slots, q'[s].record # {}, q'[u].record # {}, g(s) < g(u),
                      g(s) < g(traceQIn'), g(u) < g(traceQIn')
               PROVE  q'[s].cycle < q'[u].cycle
    BY DEF Ordered, Earlier, g
  <2>1. g(s) \in Nat /\ g(u) \in Nat /\ g(i) \in Nat /\ Gap(i, s) \in Nat /\ Gap(i, u) \in Nat
    BY <1>1, <1>5
  <2>2. CASE new(s) /\ new(u)
    <3>1. /\ g(s) = g(i) + Gap(i, s) /\ Gap(i, s) + 1 \in 1 .. m
          /\ g(u) = g(i) + Gap(i, u) /\ Gap(i, u) + 1 \in 1 .. m
      BY <1>6, <2>2
    <3>2. Gap(i, s) + 1 < Gap(i, u) + 1
      BY <2>1, <3>1
    <3>3. e[Gap(i, s) + 1].cycle < e[Gap(i, u) + 1].cycle
      BY <1>2, <3>1, <3>2
    <3> QED
      BY <1>10, <2>2, <3>3
  <2>3. CASE ~ new(s) /\ new(u)
    <3>1. q'[s].cycle < t
      BY <1>9, <2>3
    <3>2. PICK j \in 1 .. WordCycles : q'[u].cycle = t + j - 1
      BY <1>10, <2>3
    <3>3. q'[s].cycle \in Int
      <4>1. q'[s] = R[s]
        BY <1>9, <2>3
      <4> QED
        BY <1>1, <4>1 DEF Entry
    <3> QED
      BY <3>1, <3>2, <3>3, Sizes
  <2>4. CASE ~ new(s) /\ ~ new(u)
    <3>1. q'[s] = R[s] /\ q'[u] = R[u] /\ g(s) < g(i) /\ g(u) < g(i)
      BY <1>9, <2>4
    <3> QED
      BY <1>4, <3>1 DEF Holds, Ordered, Earlier, g
  <2>5. CASE new(s) /\ ~ new(u)
    <3>1. g(s) = g(i) + Gap(i, s) /\ g(u) < g(i)
      BY <1>6, <1>9, <2>5
    <3> QED
      BY <2>1, <3>1
  <2> QED
    BY <2>2, <2>3, <2>4, <2>5
<1>13. ASSUME NEW f, NEW c PROVE <<f, c>> \in G <=> Has(q', traceQIn', traceQOut, f, c)
  <2>1. ASSUME <<f, c>> \in F PROVE Has(q', traceQIn', traceQOut, f, c)
    <3>1. PICK s \in Slots : g(s) < g(i) /\ f \in R[s].record /\ c = R[s].cycle
      BY <1>4, <2>1 DEF Holds, Has, Earlier, g
    <3>2. q'[s] = R[s] /\ g(s) < g(traceQIn')
      BY <1>1, <1>7, <1>8, <3>1 DEF new
    <3> QED
      BY <3>1, <3>2 DEF Has, Earlier, g
  <2>2. ASSUME NEW j \in 1 .. WordCycles, f \in word[j], c = t + j - 1 PROVE Has(q', traceQIn', traceQOut, f, c)
    <3>1. PICK k \in 1 .. m : e[k] = EntryOf(word, t, j)
      BY <1>2, <2>2
    <3>2. k - 1 \in Slots
      <4>1. g(i) \in Nat
        BY <1>1, <1>5
      <4>2. g(i) + m < QSize
        BY <1>1 DEF g
      <4> QED
        BY <1>2, <4>1, <4>2, Sizes DEF Slots
    <3>3. Up(i, k - 1) \in Slots /\ Gap(i, Up(i, k - 1)) = k - 1
      BY <1>1, <3>2, UpAndGap
    <3>4. new(Up(i, k - 1)) /\ (k - 1) + 1 = k
      BY <1>2, <3>3 DEF new
    <3>5. q'[Up(i, k - 1)] = EntryOf(word, t, j)
      BY <1>10, <3>1, <3>3, <3>4
    <3>6. g(Up(i, k - 1)) < g(traceQIn')
      <4>1. g(Up(i, k - 1)) = g(i) + (k - 1) /\ g(i) \in Nat
        BY <1>1, <1>5, <1>6, <3>3, <3>4
      <4> QED
        BY <1>2, <1>8, <4>1
    <3> QED
      BY <1>3, <2>2, <3>3, <3>5, <3>6 DEF Has, Earlier, g
  <2>3. ASSUME NEW s \in Slots, g(s) < g(traceQIn'), f \in q'[s].record, c = q'[s].cycle PROVE <<f, c>> \in G
    <3>1. CASE new(s)
      BY <1>10, <2>3, <3>1 DEF With
    <3>2. CASE ~ new(s)
      <4>1. q'[s] = R[s] /\ g(s) < g(i)
        BY <1>9, <2>3, <3>2
      <4>2. <<f, c>> \in F
        BY <1>4, <2>3, <4>1 DEF Holds, Has, Earlier, g
      <4> QED
        BY <4>2 DEF With
    <3> QED
      BY <3>1, <3>2
  <2> QED
    BY <2>1, <2>2, <2>3 DEF Has, With, Earlier, g
<1> QED
  BY <1>1, <1>11, <1>12, <1>13 DEF Holds

(* G is F without the flag f of cycle c.                                   *)
Without(F, G, f, c) == \A d, x : <<d, x>> \in G <=> <<d, x>> \in F /\ ~ (d = f /\ x = c)

\* Taking a flag out takes it out of what the queue holds, and nothing else.
LEMMA TakeHolds ==
  ASSUME NEW Q \in [Slots -> Entry], NEW X, NEW in \in Slots, NEW out \in Slots, NEW F, NEW G,
         Holds(Q, in, out, F), NEW s \in Slots, Earlier(out, s, in), NEW f, f \in Q[s].record,
         Took(Q, X, s, f), Without(F, G, f, Q[s].cycle)
  PROVE  Holds(X, in, out, G) /\ (InRange(Q, in, out) => InRange(X, in, out))
<1> USE DEF Took, Without
<1>1. \A u \in Slots : X[u].record # {} => Q[u].record # {}
  OBVIOUS
<1>2. InRange(Q, in, out) => InRange(X, in, out)
  BY <1>1 DEF InRange
<1>3. Ordered(X, in, out)
  BY <1>1 DEF Holds, Ordered
<1>4. ASSUME NEW u \in Slots, Earlier(out, u, in), f \in Q[u].record, Q[u].cycle = Q[s].cycle PROVE u = s
  <2>1. Gap(out, u) \in Nat /\ Gap(out, s) \in Nat
    BY GapType
  <2>2. Q[s].cycle \in Int
    BY DEF Entry
  <2>3. ~ (Gap(out, u) < Gap(out, s)) /\ ~ (Gap(out, s) < Gap(out, u))
    BY <1>4, <2>2 DEF Holds, Ordered, Earlier
  <2>4. Gap(out, u) = Gap(out, s)
    BY <2>1, <2>3
  <2> QED
    BY <2>4, GapInjective
<1>5. ASSUME NEW d, NEW c PROVE <<d, c>> \in G <=> Has(X, in, out, d, c)
  <2>1. ASSUME <<d, c>> \in G PROVE Has(X, in, out, d, c)
    <3>1. PICK u \in Slots : Earlier(out, u, in) /\ d \in Q[u].record /\ c = Q[u].cycle
      BY <2>1 DEF Holds, Has
    <3>2. d \in X[u].record
      BY <2>1, <3>1
    <3> QED
      BY <3>1, <3>2 DEF Has
  <2>2. ASSUME NEW u \in Slots, Earlier(out, u, in), d \in X[u].record, c = X[u].cycle PROVE <<d, c>> \in G
    <3>1. d \in Q[u].record /\ c = Q[u].cycle /\ ~ (u = s /\ d = f)
      BY <2>2
    <3>2. <<d, c>> \in F
      BY <2>2, <3>1 DEF Holds, Has
    <3> QED
      BY <1>4, <2>2, <3>1, <3>2
  <2> QED
    BY <2>1, <2>2 DEF Has
<1> QED
  BY <1>2, <1>3, <1>5 DEF Holds

\* Counting changes nothing of it.
LEMMA CountHolds ==
  ASSUME NEW Q, NEW X, NEW in, NEW out, NEW F, Holds(Q, in, out, F),
         \A u \in Slots : X[u].cycle = Q[u].cycle /\ X[u].record = Q[u].record
  PROVE  Holds(X, in, out, F) /\ (InRange(Q, in, out) => InRange(X, in, out))
<1>1. Ordered(X, in, out) /\ (InRange(Q, in, out) => InRange(X, in, out))
  BY DEF Holds, InRange, Ordered
<1>2. \A f, c : Has(X, in, out, f, c) <=> Has(Q, in, out, f, c)
  BY DEF Has
<1> QED
  BY <1>1, <1>2 DEF Holds

\* Dropping empty slots at the front changes nothing of it.
LEMMA DropHolds ==
  ASSUME NEW Q, NEW in \in Slots, NEW out \in Slots, NEW o \in Slots, NEW F, Holds(Q, in, out, F),
         Gap(out, o) <= Gap(out, in),
         \A u \in Slots : Gap(out, u) < Gap(out, o) => Q[u].record = {}
  PROVE  Holds(Q, in, o, F) /\ (InRange(Q, in, out) => InRange(Q, in, o))
<1>1. \A u \in Slots : Gap(out, u) \in Nat /\ Gap(o, u) \in Nat
  BY GapType
<1>2. \A u \in Slots : Gap(out, o) <= Gap(out, u) => Gap(o, u) = Gap(out, u) - Gap(out, o)
  BY GapsAdd
<1>3. \A u \in Slots : Q[u].record # {} => Gap(o, u) = Gap(out, u) - Gap(out, o)
  BY <1>1, <1>2
<1>4. \A u \in Slots : Q[u].record # {} => (Earlier(o, u, in) <=> Earlier(out, u, in))
  <2> TAKE u \in Slots
  <2> HAVE Q[u].record # {}
  <2>1. Gap(o, u) = Gap(out, u) - Gap(out, o) /\ Gap(o, in) = Gap(out, in) - Gap(out, o)
    BY <1>2, <1>3
  <2> QED
    BY <1>1, <2>1 DEF Earlier
<1>5. Ordered(Q, in, o)
  <2> SUFFICES ASSUME NEW u \in Slots, NEW v \in Slots, Earlier(o, u, in), Earlier(o, v, in),
                      Q[u].record # {}, Q[v].record # {}, Gap(o, u) < Gap(o, v)
               PROVE  Q[u].cycle < Q[v].cycle
    BY DEF Ordered, Earlier
  <2>1. Gap(out, u) < Gap(out, v)
    BY <1>1, <1>3
  <2>2. Earlier(out, u, in) /\ Earlier(out, v, in)
    BY <1>4
  <2> QED
    BY <2>1, <2>2 DEF Holds, Ordered, Earlier
<1>6. \A f, c : Has(Q, in, o, f, c) <=> Has(Q, in, out, f, c)
  BY <1>4 DEF Has
<1>7. InRange(Q, in, out) => InRange(Q, in, o)
  BY <1>4 DEF InRange
<1> QED
  BY <1>5, <1>6, <1>7 DEF Holds

-----------------------------------------------------------------------------
(* What has been read.                                                     *)

\* FlagsRead has the flags of the cycles read.
LEMMA FlagsReadIs ==
  /\ \A f, c : <<f, c>> \in FlagsRead <=> c \in 0 .. CyclesRead - 1 /\ f \in flags[c]
  /\ \A x \in FlagsRead : \E f, c : x = <<f, c>>
<1> DEFINE D == 0 .. CyclesRead - 1
           P(c) == {<<f, c>> : f \in flags[c]}
<1>1. FlagsRead = UNION {P(c) : c \in D}
  BY DEF FlagsRead
<1> HIDE DEF D
<1>2. \A x : x \in FlagsRead <=> \E c \in D : x \in P(c)
  BY <1>1
<1>3. \A x, c : x \in P(c) <=> \E f \in flags[c] : x = <<f, c>>
  OBVIOUS
<1> HIDE DEF P
<1>4. \A x \in FlagsRead : \E f, c : x = <<f, c>>
  BY <1>2, <1>3
<1>5. \A f, c : <<f, c>> \in FlagsRead <=> c \in D /\ f \in flags[c]
  BY <1>2, <1>3
<1> QED
  BY <1>4, <1>5 DEF D

\* Cycles as words of the block and places in them.
LEMMA CycleInWord ==
  ASSUME NEW B \in Int, NEW a \in Nat, NEW b \in Nat, NEW c \in Int,
         B + a * WordCycles <= c, c < B + b * WordCycles
  PROVE  \E k \in a + 1 .. b, j \in 1 .. WordCycles : c = B + (k - 1) * WordCycles + j - 1
<1> DEFINE x == c - B
           d == x \div WordCycles
           y == WordCycles * d
<1>1. x \in Int /\ d \in Int /\ y \in Int
  BY Sizes
<1>2. y <= x /\ x < y + WordCycles
  BY <1>1, Sizes, InBlock
<1>3. a * WordCycles = WordCycles * a /\ b * WordCycles = WordCycles * b
  BY Sizes
<1>4. WordCycles * (d + 1) = y + WordCycles
  BY <1>1, Sizes
<1>5. WordCycles * a \in Int /\ WordCycles * b \in Int
  BY Sizes
<1>6. WordCycles * a < WordCycles * (d + 1)
  <2> HIDE DEF d, y
  <2> DEFINE u == WordCycles * a
  <2>1. u \in Int /\ B + u <= c
    BY <1>3, <1>5
  <2> HIDE DEF u
  <2>2. u < y + WordCycles
    BY <1>1, <1>2, <2>1, Sizes
  <2> QED
    BY <1>4, <2>2 DEF u
<1>7. WordCycles * d < WordCycles * b
  <2> DEFINE u == WordCycles * b
  <2>1. u \in Int /\ c < B + u
    BY <1>3, <1>5
  <2> HIDE DEF u, y, d
  <2>2. y < u
    BY <1>1, <1>2, <2>1, Sizes
  <2> QED
    BY <2>2 DEF u, y
<1>8. a < d + 1 /\ d < b
  <2>1. d + 1 \in Int
    BY <1>1
  <2>2. a < d + 1
    BY <1>6, <2>1, Sizes, FactorsOrdered
  <2>3. d < b
    BY <1>1, <1>7, Sizes, FactorsOrdered
  <2> QED
    BY <2>2, <2>3
<1>9. ((d + 1) - 1) * WordCycles = y
  BY <1>1, Sizes
<1> HIDE DEF d, y
<1>10. d + 1 \in a + 1 .. b
  BY <1>1, <1>8
<1>11. x - y + 1 \in 1 .. WordCycles /\ c = B + y + (x - y + 1) - 1
  BY <1>1, <1>2, Sizes
<1> HIDE DEF x
<1>12. c = B + ((d + 1) - 1) * WordCycles + (x - y + 1) - 1
  BY <1>9, <1>11
<1> QED
  BY <1>10, <1>11, <1>12

(* The first cycle of word k of the block.                                 *)
WordStart(k) == BlockStart + (k - 1) * WordCycles

\* Words without flags have cycles without flags.
LEMMA UnreadEmpty ==
  ASSUME TypeInv, caBufferIndex # 0, mode = "VECTOR", lead = 0, "V0" \in flags[0],
         NEW k \in Nat, offset <= k, k <= BlockWords, \A w \in offset + 1 .. k : w \notin NextWords
  PROVE  \A c \in Int : CyclesRead <= c /\ c < BlockStart + k * WordCycles => flags[c] = {}
<1> SUFFICES ASSUME NEW c \in Int, CyclesRead <= c, c < BlockStart + k * WordCycles PROVE flags[c] = {}
  OBVIOUS
<1>1. BlockStart \in Int /\ offset \in Nat
  BY Sizes DEF TypeInv, ReaderT, BlockStart
<1>2. PICK w \in offset + 1 .. k, j \in 1 .. WordCycles : c = BlockStart + (w - 1) * WordCycles + j - 1
  BY <1>1, CycleInWord DEF CyclesRead
<1>3. w \in 1 .. BlockWords /\ w \in offset + 1 .. BlockWords
  BY <1>1, Sizes
<1>4. DataWord(w)[j] = {}
  BY <1>2, <1>3 DEF NextWords
<1>5. DataWord(w)[j] = flags[BlockStart + (w - 1) * WordCycles + j - 1]
  BY <1>3, BlockRead, DataWordIs DEF TypeInv, TraceT
<1> QED
  BY <1>2, <1>4, <1>5

(* The first block begins with the flag of the first instruction.          *)
HwInv ==
  /\ state = "HW" => status = "OK" /\ given = {} /\ \A s \in Slots : q[s].record = {}
  /\ DOMAIN sched # {} \/ caBufferIndex # 0 => "V0" \in flags[0]
(* The search goes on inside the queue or at its end.                      *)
Inside == goals # << >> => Gap(traceQOut, qStart) <= Gap(traceQOut, traceQIn)
(* rewind() leaves records outside the queue, packQ lets a search begin    *)
(* there: one alone does no harm.                                          *)
QueueInv ==
  mode = "VECTOR" /\ lead = 0 /\ status # "ERR" /\ ~ (packed /\ rewound) =>
    /\ Holds(q, traceQIn, traceQOut, FlagsRead \ given) /\ given \subseteq FlagsRead
    /\ rewound \/ InRange(q, traceQIn, traceQOut)
    /\ packed \/ Inside

\* An empty queue holds nothing, whatever its records are.
LEMMA EmptyHolds ==
  ASSUME NEW Q, NEW a \in Slots
  PROVE  Holds(Q, a, a, {})
<1>1. \A s \in Slots : ~ Earlier(a, s, a)
  <2> TAKE s \in Slots
  <2>1. Gap(a, a) = 0 /\ Gap(a, s) \in Nat
    <3>1. Gap(a, a) = IF a >= a THEN a - a ELSE a - a + QSize
      BY GapIs
    <3> QED
      BY <3>1, GapType DEF Slots
  <2> QED
    BY <2>1 DEF Earlier
<1>2. Ordered(Q, a, a)
  BY <1>1 DEF Ordered
<1>3. \A f, c : ~ Has(Q, a, a, f, c)
  BY <1>1 DEF Has
<1> QED
  BY <1>2, <1>3 DEF Holds

\* Nothing has been read before the first block.
LEMMA NothingRead ==
  ASSUME TypeInv, blockRecNum = 0, offset = 0
  PROVE  FlagsRead = {} /\ CyclesRead = 0
<1>1. CyclesRead = 0
  BY Sizes DEF CyclesRead, BlockStart
<1>2. \A c : c \notin 0 .. CyclesRead - 1
  BY <1>1
<1>3. \A x : x \notin FlagsRead
  BY <1>2, FlagsReadIs
<1> QED
  BY <1>1, <1>3

\* The beginning.
LEMMA InitQueue == Init => HwInv /\ QueueInv
<1> HAVE Init
<1>1. \A s \in Slots : q[s].record = {}
  BY EmptyType DEF Init
<1>2. HwInv
  BY <1>1 DEF Init, HwInv
<1>3. FlagsRead = {}
  BY InitTypes, NothingRead DEF Init
<1>4. given = {} /\ FlagsRead \ given = {} /\ goals = << >> /\ traceQIn = 0 /\ traceQOut = 0 /\ 0 \in Slots
  BY <1>3, Sizes DEF Init, Slots
<1>5. Holds(q, traceQIn, traceQOut, FlagsRead \ given)
  BY <1>4, EmptyHolds
<1>6. InRange(q, traceQIn, traceQOut) /\ Inside
  BY <1>1, <1>4 DEF InRange, Inside
<1> QED
  BY <1>2, <1>4, <1>5, <1>6 DEF QueueInv

\* The hardware sets the flag V0 in cycle 0 first.
LEMMA NextHw == TypeInv /\ HwInv /\ [Next]_vars => HwInv'
<1> SUFFICES ASSUME TypeInv, HwInv, [Next]_vars PROVE HwInv'
  OBVIOUS
<1>1. CASE Execute
  <2>1. UNCHANGED <<state, queue, status, given, reader>> /\ state = "HW"
    BY <1>1 DEF Execute, NoCall
  <2> DEFINE i == caStart + Cardinality(DOMAIN sched)
  <2>2. PICK p \in Pipes, c \in 0 .. Cycles - 1, v \in VectorEvents(i) :
          /\ LegalEvents(i, [pipe |-> p, at |-> c, v |-> v])
          /\ flags' = [d \in DOMAIN flags |-> flags[d] \cup FlagsOf(i, [pipe |-> p, at |-> c, v |-> v], d)]
    BY <1>1 DEF Execute
  <2> DEFINE e == [pipe |-> p, at |-> c, v |-> v]
  <2>3. 0 \in DOMAIN flags
    BY EmptyType DEF TypeInv, TraceT, Entry, Empty
  <2>4. flags'[0] = flags[0] \cup FlagsOf(i, e, 0)
    BY <2>2, <2>3
  <2>5. CASE DOMAIN sched = {}
    <3>1. i = caStart
      BY <2>5, FS_EmptySet DEF TypeInv, TraceT
    <3>2. LegalEvents(i, e)
      BY <2>2
    <3> HIDE DEF i, e
    <3>3. e.at = 0 /\ e.pipe = "V0"
      BY <3>1, <3>2 DEF LegalEvents
    <3>4. "V0" \in FlagsOf(i, e, 0)
      BY <3>3 DEF FlagsOf
    <3> QED
      BY <2>1, <2>4, <3>4 DEF HwInv, queue
  <2>6. CASE DOMAIN sched # {}
    <3>1. "V0" \in flags'[0]
      BY <2>4, <2>6 DEF HwInv
    <3> QED
      BY <2>1, <3>1 DEF HwInv, queue
  <2> QED
    BY <2>5, <2>6
<1>2. CASE setCATraceFile
  BY <1>2 DEF setCATraceFile, HwInv, trace
<1>3. CASE UNCHANGED vars
  BY <1>3 DEF HwInv, vars, trace, queue, reader
<1>4. ASSUME UNCHANGED trace, state' # "HW", caBufferIndex # 0 PROVE HwInv'
  BY <1>4 DEF HwInv, trace
<1>5. CASE SyncMessage \/ SyncSkip \/ SyncFound \/ SyncRewind \/ Instruction \/ Stop
  <2>1. UNCHANGED trace /\ state \in {"SYNCCATE", "RUN"} /\ state' # "HW"
    BY <1>5 DEF SyncMessage, SyncSkip, SyncFound, SyncRewind, Instruction, Stop
  <2> QED
    BY <1>4, <2>1 DEF TypeInv, PhaseT
<1>6. CASE consumeCAPipe \/ consumeCAVector \/ consumeCAInstruction \/ ReadMore
  <2>1. UNCHANGED trace /\ Busy /\ state' = state
    BY <1>6 DEF consumeCAPipe, consumeCAVector, consumeCAInstruction, ReadMore
  <2> QED
    BY <1>4, <2>1, BusyBlock
<1>7. CASE Return
  BY <1>7 DEF Return, HwInv, trace, reader
<1> QED
  BY <1>1, <1>2, <1>3, <1>5, <1>6, <1>7 DEF Next


\* What the queue holds does not change in a step that reads and gives nothing.
LEMMA SameQueue ==
  ASSUME QueueInv, UNCHANGED <<mode, lead, queue, given, packed, rewound>>, FlagsRead' = FlagsRead,
         status' # "ERR" => status # "ERR", traceQOut \in Slots, traceQIn \in Slots,
         UNCHANGED <<goals, qStart>> \/ qStart' = traceQOut
  PROVE  QueueInv'
<1>1. UNCHANGED <<q, traceQIn, traceQOut>>
  BY DEF queue
<1>2. Inside => Inside'
  <2>1. CASE UNCHANGED <<goals, qStart>>
    BY <1>1, <2>1 DEF Inside, Gap
  <2>2. CASE qStart' = traceQOut
    <3>1. Gap(traceQOut, traceQOut) <= Gap(traceQOut, traceQIn)
      <4>1. Gap(traceQOut, traceQOut) = IF traceQOut >= traceQOut THEN traceQOut - traceQOut
                                        ELSE traceQOut - traceQOut + QSize
        BY GapIs
      <4>2. Gap(traceQOut, traceQOut) = 0 /\ Gap(traceQOut, traceQIn) \in Nat
        BY <4>1, GapType DEF Slots
      <4> QED
        BY <4>2
    <3> QED
      BY <1>1, <2>2, <3>1 DEF Inside, Gap
  <2> QED
    BY <2>1, <2>2
<1>3. InRange(q, traceQIn, traceQOut) => InRange(q', traceQIn', traceQOut')
  BY <1>1
<1>4. ASSUME NEW F, Holds(q, traceQIn, traceQOut, F) PROVE Holds(q', traceQIn', traceQOut', F)
  BY <1>1, <1>4
<1> QED
  BY <1>2, <1>3, <1>4 DEF QueueInv

\* An unchanged file position means the same flags have been read.
LEMMA SameRead ==
  ASSUME UNCHANGED <<flags, reader>>
  PROVE  FlagsRead' = FlagsRead
<1>1. CyclesRead' = CyclesRead
  BY DEF reader, CyclesRead, BlockStart
<1> QED
  BY <1>1 DEF FlagsRead

\* FlagsRead after a step.
LEMMA FlagsReadNext ==
  /\ \A f, c : <<f, c>> \in FlagsRead' <=> c \in 0 .. CyclesRead' - 1 /\ f \in flags'[c]
  /\ \A x \in FlagsRead' : \E f, c : x = <<f, c>>
<1>1. (/\ \A f, c : <<f, c>> \in FlagsRead <=> c \in 0 .. CyclesRead - 1 /\ f \in flags[c]
       /\ \A x \in FlagsRead : \E f, c : x = <<f, c>>)'
  BY FlagsReadIs, PTL
<1> QED
  BY <1>1

\* Reading words without flags reads no flags.
LEMMA NoFlagsRead ==
  ASSUME UNCHANGED flags, CyclesRead \in Int, CyclesRead' \in Int, 0 <= CyclesRead, CyclesRead <= CyclesRead',
         \A c \in Int : CyclesRead <= c /\ c < CyclesRead' => flags[c] = {}
  PROVE  FlagsRead' = FlagsRead
<1>0. PICK a \in Int, b \in Int : a = CyclesRead /\ b = CyclesRead'
  OBVIOUS
<1>1. ASSUME NEW f, NEW c PROVE <<f, c>> \in FlagsRead' <=> <<f, c>> \in FlagsRead
  <2>1. <<f, c>> \in FlagsRead <=> c \in 0 .. a - 1 /\ f \in flags[c]
    BY <1>0, FlagsReadIs, Zenon
  <2>2. <<f, c>> \in FlagsRead' <=> c \in 0 .. b - 1 /\ f \in flags[c]
    <3>1. <<f, c>> \in FlagsRead' <=> c \in 0 .. CyclesRead' - 1 /\ f \in flags'[c]
      BY FlagsReadNext
    <3> QED
      BY <1>0, <3>1, Zenon
  <2>3. /\ 0 <= a /\ a <= b
        /\ \A d \in Int : a <= d /\ d < b => flags[d] = {}
    BY <1>0, Zenon
  <2>4. c \in 0 .. a - 1 => c \in 0 .. b - 1
    BY <2>3
  <2>5. c \in 0 .. b - 1 => c \in 0 .. a - 1 \/ flags[c] = {}
    BY <2>3
  <2> QED
    BY <2>1, <2>2, <2>4, <2>5
<1>2. \A x \in FlagsRead : \E f, c : x = <<f, c>>
  BY FlagsReadIs
<1>3. \A x \in FlagsRead' : \E f, c : x = <<f, c>>
  BY FlagsReadNext
<1>4. \A x : x \in FlagsRead' <=> x \in FlagsRead
  BY <1>1, <1>2, <1>3
<1> QED
  BY <1>4

\* The cycles read are counted in words.
LEMMA CyclesReadType ==
  ASSUME TypeInv
  PROVE  /\ BlockStart \in Nat /\ CyclesRead \in Nat
         /\ CyclesRead = WordStart(offset + 1)
         /\ \A k \in Int : WordStart(k) \in Int
         /\ \A k \in Int : offset + 1 <= k => CyclesRead <= WordStart(k)
<1>1. BlockStart \in Nat
  <2>1. blockRecNum * WordCycles \in Nat
    BY Sizes DEF TypeInv, ReaderT
  <2> QED
    BY <2>1, Sizes DEF BlockStart
<1>2. offset \in Nat /\ offset * WordCycles \in Nat
  BY Sizes DEF TypeInv, ReaderT
<1>3. CyclesRead = WordStart(offset + 1)
  BY <1>1, <1>2 DEF CyclesRead, WordStart
<1>4. \A k \in Int : (k - 1) * WordCycles \in Int
  BY Sizes
<1>5. ASSUME NEW k \in Int, offset + 1 <= k PROVE CyclesRead <= WordStart(k)
  <2>1. WordCycles * offset <= WordCycles * (k - 1)
    BY <1>2, <1>5, Sizes, ProductsOrdered
  <2>2. WordCycles * offset = offset * WordCycles /\ WordCycles * (k - 1) = (k - 1) * WordCycles
    BY <1>2, Sizes
  <2> DEFINE x == offset * WordCycles
             y == (k - 1) * WordCycles
  <2>3. x \in Int /\ y \in Int /\ x <= y
    BY <1>2, <1>4, <2>1, <2>2
  <2>4. CyclesRead = BlockStart + x /\ WordStart(k) = BlockStart + y
    BY DEF CyclesRead, WordStart
  <2> HIDE DEF x, y
  <2> QED
    BY <1>1, <2>3, <2>4
<1>6. CyclesRead \in Nat
  BY <1>1, <1>2 DEF CyclesRead
<1>7. \A k \in Int : WordStart(k) \in Int
  BY <1>1, <1>4 DEF WordStart
<1> QED
  BY <1>1, <1>3, <1>5, <1>6, <1>7

\* A new block is read when the rest of the old one has no flags.
LEMMA ParseRead ==
  ASSUME TypeInv, HwInv, parseNextCATraceRec, UNCHANGED trace, mode = "VECTOR", lead = 0,
         caBufferIndex = 0 \/ NextWords = {}
  PROVE  FlagsRead' = FlagsRead
<1>1. TypeInv /\ ReaderT' /\ flags' = flags
  BY ParseType DEF TypeInv, trace
<1>2. CASE UNCHANGED reader
  BY <1>1, <1>2, SameRead
<1>3. CASE offset' = 0 /\ blockRecNum' = IF caBufferIndex = 0 THEN 0 ELSE blockRecNum + 1
  <2>1. CyclesRead' = blockRecNum' * WordCycles * BlockWords
    <3>1. blockRecNum' \in Nat
      BY <1>3 DEF TypeInv, ReaderT
    <3>2. blockRecNum' * WordCycles * BlockWords \in Int
      BY <3>1, Sizes
    <3> QED
      BY <1>3, <3>2, Sizes DEF CyclesRead, BlockStart
  <2>2. CASE caBufferIndex = 0
    <3>1. CyclesRead = 0
      BY <2>2, NothingRead DEF TypeInv, ReaderT
    <3>2. CyclesRead' = 0
      BY <1>3, <2>1, <2>2, Sizes
    <3> QED
      BY <1>1, <3>1, <3>2, NoFlagsRead
  <2>3. CASE caBufferIndex # 0
    <3>1. CyclesRead' = BlockStart + BlockWords * WordCycles
      <4>1. blockRecNum \in Nat /\ blockRecNum' = blockRecNum + 1
        BY <1>3, <2>3 DEF TypeInv, ReaderT
      <4> QED
        BY <2>1, <4>1, Sizes DEF BlockStart
    <3>2. BlockWords \in Nat /\ offset <= BlockWords /\ offset \in Nat
      BY Sizes DEF TypeInv, ReaderT
    <3>3. "V0" \in flags[0]
      BY <2>3 DEF HwInv
    <3>4. \A c \in Int : CyclesRead <= c /\ c < CyclesRead' => flags[c] = {}
      BY <2>3, <3>1, <3>2, <3>3, UnreadEmpty
    <3>5. CyclesRead \in Int /\ 0 <= CyclesRead /\ BlockStart \in Int
      BY CyclesReadType
    <3>6. CyclesRead <= CyclesRead' /\ CyclesRead' \in Int
      <4>1. CyclesRead <= WordStart(BlockWords + 1) /\ WordStart(BlockWords + 1) \in Int
        BY <3>2, CyclesReadType
      <4>2. WordStart(BlockWords + 1) = BlockStart + BlockWords * WordCycles
        BY <3>2 DEF WordStart
      <4> QED
        BY <3>1, <4>1, <4>2
    <3> QED
      BY <1>1, <3>4, <3>5, <3>6, NoFlagsRead
  <2> QED
    BY <2>2, <2>3
<1> QED
  BY <1>2, <1>3, ParseIs DEF TypeInv

\* A word read adds its flags.
LEMMA WordReadFlags ==
  ASSUME TypeInv, HwInv, caBufferIndex # 0, mode = "VECTOR", lead = 0, UNCHANGED flags,
         NextWords # {}, offset' = NextWord, UNCHANGED <<caBufferIndex, blockRecNum>>
  PROVE  LET t == WordStart(NextWord)
         IN  /\ CyclesRead \in Nat /\ t \in Int /\ CyclesRead <= t /\ CyclesRead' = t + WordCycles
             /\ \A f, c : <<f, c>> \in FlagsRead' <=>
                  <<f, c>> \in FlagsRead \/ \E j \in 1 .. WordCycles : f \in DataWord(NextWord)[j] /\ c = t + j - 1
<1> DEFINE k == NextWord
           t == WordStart(k)
<1>1. k \in offset + 1 .. BlockWords /\ \A j \in NextWords : k <= j
  BY NextWordIs DEF TypeInv
<1> HIDE DEF k
<1>2. k \in Nat /\ k \in 1 .. BlockWords /\ offset + 1 <= k /\ k - 1 \in Nat /\ offset \in Nat
  BY <1>1, Sizes DEF TypeInv, ReaderT
<1>3. CyclesRead \in Nat /\ t \in Int /\ CyclesRead <= t /\ BlockStart \in Int
  BY <1>2, CyclesReadType
<1>4. CyclesRead' = t + WordCycles
  <2>1. CyclesRead' = BlockStart + k * WordCycles
    BY DEF CyclesRead, BlockStart, k
  <2>2. k * WordCycles = (k - 1) * WordCycles + WordCycles /\ (k - 1) * WordCycles \in Int
    BY <1>2, Sizes
  <2> QED
    BY <1>3, <2>1, <2>2, Sizes DEF WordStart
<1>5. \A c \in Int : CyclesRead <= c /\ c < t => flags[c] = {}
  <2>1. "V0" \in flags[0]
    BY DEF HwInv
  <2>2. \A w \in offset + 1 .. k - 1 : w \notin NextWords
    BY <1>1, <1>2
  <2>3. offset <= k - 1 /\ k - 1 <= BlockWords
    BY <1>2, Sizes
  <2>4. \A c \in Int : CyclesRead <= c /\ c < BlockStart + (k - 1) * WordCycles => flags[c] = {}
    BY <1>2, <2>1, <2>2, <2>3, UnreadEmpty
  <2> QED
    BY <2>4 DEF WordStart
<1>6. \A j \in 1 .. WordCycles : DataWord(k)[j] = flags[t + j - 1]
  BY <1>2, BlockRead, DataWordIs DEF TypeInv, TraceT, HwInv, WordStart
<1> HIDE DEF t
<1>7. ASSUME NEW f, NEW c
      PROVE  <<f, c>> \in FlagsRead' <=>
               <<f, c>> \in FlagsRead \/ \E j \in 1 .. WordCycles : f \in DataWord(k)[j] /\ c = t + j - 1
  <2>1. <<f, c>> \in FlagsRead <=> c \in 0 .. CyclesRead - 1 /\ f \in flags[c]
    BY FlagsReadIs
  <2>2. <<f, c>> \in FlagsRead' <=> c \in 0 .. t + WordCycles - 1 /\ f \in flags[c]
    <3>1. <<f, c>> \in FlagsRead' <=> c \in 0 .. CyclesRead' - 1 /\ f \in flags'[c]
      BY FlagsReadNext
    <3>2. flags' = flags
      OBVIOUS
    <3>3. PICK b : b = CyclesRead'
      OBVIOUS
    <3>4. b = t + WordCycles
      BY <1>4, <3>3, Zenon
    <3>5. <<f, c>> \in FlagsRead' <=> c \in 0 .. b - 1 /\ f \in flags[c]
      BY <3>1, <3>2, <3>3, Zenon
    <3>6. b - 1 = t + WordCycles - 1
      BY <1>3, <3>4, Sizes
    <3> QED
      BY <3>5, <3>6, Zenon
  <2>3. (\E j \in 1 .. WordCycles : f \in DataWord(k)[j] /\ c = t + j - 1)
          <=> c \in t .. t + WordCycles - 1 /\ f \in flags[c]
    <3>1. ASSUME NEW j \in 1 .. WordCycles, f \in DataWord(k)[j], c = t + j - 1
          PROVE  c \in t .. t + WordCycles - 1 /\ f \in flags[c]
      <4>1. c \in t .. t + WordCycles - 1
        BY <1>3, <3>1, Sizes
      <4> QED
        BY <1>6, <3>1, <4>1
    <3>2. ASSUME c \in t .. t + WordCycles - 1, f \in flags[c]
          PROVE  \E j \in 1 .. WordCycles : f \in DataWord(k)[j] /\ c = t + j - 1
      <4>1. c - t + 1 \in 1 .. WordCycles /\ c = t + (c - t + 1) - 1
        BY <1>3, <3>2, Sizes
      <4>2. f \in DataWord(k)[c - t + 1]
        BY <1>6, <3>2, <4>1
      <4> QED
        BY <4>1, <4>2
    <3> QED
      BY <3>1, <3>2
  <2>4. /\ c \in 0 .. CyclesRead - 1 => c \in 0 .. t + WordCycles - 1
        /\ c \in t .. t + WordCycles - 1 => c \in 0 .. t + WordCycles - 1
        /\ c \in 0 .. t + WordCycles - 1 =>
             c \in 0 .. CyclesRead - 1 \/ c \in t .. t + WordCycles - 1 \/ flags[c] = {}
    BY <1>3, <1>5, Sizes
  <2> QED
    BY <2>1, <2>2, <2>3, <2>4
<1> QED
  BY <1>3, <1>4, <1>7 DEF t, k


\* A flag the queue holds goes to the instruction.
LEMMA TakeQueue ==
  ASSUME TypeInv, QueueInv, mode = "VECTOR", lead = 0, status # "ERR", ~ (packed /\ rewound),
         NEW c \in [Slots -> Entry], \A u \in Slots : c[u].cycle = q[u].cycle /\ c[u].record = q[u].record,
         NEW s \in Slots, Earlier(traceQOut, s, traceQIn), NEW f, f \in q[s].record, Take(s, f, c),
         UNCHANGED <<trace, reader, traceQIn, traceQOut>>
  PROVE  /\ Holds(q', traceQIn', traceQOut', FlagsRead' \ given') /\ given' \subseteq FlagsRead'
         /\ Took(c, q', s, f)
         /\ InRange(q, traceQIn, traceQOut) => InRange(q', traceQIn', traceQOut')
<1>1. given' = given \cup {<<f, q[s].cycle>>}
  BY DEF Take
<1>2. Took(c, q', s, f)
  BY TakeIs
<1>4. FlagsRead' = FlagsRead
  BY SameRead DEF trace
<1>5. Holds(q, traceQIn, traceQOut, FlagsRead \ given) /\ given \subseteq FlagsRead
  BY DEF QueueInv
<1>6. <<f, q[s].cycle>> \in FlagsRead
  BY <1>5 DEF Holds, Has
<1>7. Without(FlagsRead \ given, FlagsRead' \ given', f, q[s].cycle)
  BY <1>1, <1>4 DEF Without
<1>8. /\ Holds(q', traceQIn, traceQOut, FlagsRead' \ given')
      /\ InRange(q, traceQIn, traceQOut) => InRange(q', traceQIn, traceQOut)
  <2> DEFINE F == FlagsRead \ given
             G == FlagsRead' \ given'
  <2>1. /\ Without(F, G, f, q[s].cycle) /\ Holds(c, traceQIn, traceQOut, F)
        /\ InRange(q, traceQIn, traceQOut) => InRange(c, traceQIn, traceQOut)
    BY <1>5, <1>7, CountHolds
  <2> HIDE DEF F, G
  <2>2. traceQIn \in Slots /\ traceQOut \in Slots /\ f \in c[s].record /\ c[s].cycle = q[s].cycle
    BY DEF TypeInv, QueueT
  <2>3. /\ Holds(q', traceQIn, traceQOut, G)
        /\ InRange(c, traceQIn, traceQOut) => InRange(q', traceQIn, traceQOut)
    BY <1>2, <2>1, <2>2, TakeHolds
  <2> QED
    BY <2>1, <2>3 DEF G
<1> QED
  BY <1>1, <1>2, <1>4, <1>5, <1>6, <1>8

\* What a search meets that holds a flag is inside the queue.
LEMMA MetInside ==
  ASSUME QueueT, QueueInv, mode = "VECTOR", lead = 0, status # "ERR", ~ (packed /\ rewound), goals # << >>,
         NEW s \in Slots, Earlier(qStart, s, traceQIn), ~ packed \/ q[s].record # {}
  PROVE  Earlier(traceQOut, s, traceQIn)
<1>1. traceQIn \in Slots /\ traceQOut \in Slots /\ qStart \in Slots
  BY DEF QueueT
<1>2. CASE packed
  BY <1>2 DEF QueueInv, InRange
<1>3. CASE ~ packed
  <2>1. Gap(traceQOut, qStart) <= Gap(traceQOut, traceQIn)
    BY <1>3 DEF QueueInv, Inside
  <2> QED
    BY <1>1, <2>1, Passed
<1> QED
  BY <1>2, <1>3

\* The searches keep it.
LEMMA SearchQueue == TypeInv /\ QueueInv /\ (consumeCAPipe \/ consumeCAVector) => QueueInv'
<1> SUFFICES ASSUME TypeInv, QueueInv, consumeCAPipe \/ consumeCAVector, mode = "VECTOR", lead = 0,
                    ~ (packed /\ rewound)
             PROVE  QueueInv'
  <2>1. consumeCAPipe \/ consumeCAVector => UNCHANGED <<mode, lead, packed, rewound>>
    BY DEF consumeCAPipe, consumeCAVector, trace, sync
  <2>2. UNCHANGED <<mode, lead, packed, rewound>> /\ ~ (mode = "VECTOR" /\ lead = 0 /\ ~ (packed /\ rewound))
          => QueueInv'
    BY DEF QueueInv
  <2> QED
    BY <2>1, <2>2
<1>1. /\ UNCHANGED <<trace, reader, traceQIn, traceQOut, packed, rewound>> /\ QueueT /\ status # "ERR"
      /\ UNCHANGED <<mode, lead, flags>> /\ goals # << >>
  BY DEF consumeCAPipe, consumeCAVector, TypeInv, Busy, trace, sync
<1>2. FlagsRead' = FlagsRead /\ traceQIn \in Slots /\ traceQOut \in Slots
  BY <1>1, SameRead DEF QueueT
<1>3. /\ Holds(q, traceQIn, traceQOut, FlagsRead \ given) /\ given \subseteq FlagsRead
      /\ rewound \/ InRange(q, traceQIn, traceQOut)
  BY <1>1 DEF QueueInv
<1>4. CASE consumeCAPipe
  <2>1. CASE qStart' = traceQIn /\ UNCHANGED <<q, given>>
    <3>1. Inside'
      <4>1. Gap(traceQOut, traceQIn) \in Nat
        BY <1>2, GapType
      <4>2. Gap(traceQOut, traceQIn) <= Gap(traceQOut, traceQIn)
        BY <4>1
      <4> QED
        BY <1>1, <2>1, <4>2 DEF Inside, Gap
    <3> QED
      BY <1>1, <1>2, <1>3, <2>1, <3>1 DEF QueueInv
  <2>2. ASSUME NEW s \in Slots, NEW f \in Pipes, Earlier(qStart, s, traceQIn), f \in q[s].record, Take(s, f, q),
               qStart' = s
        PROVE  QueueInv'
    <3>1. Earlier(traceQOut, s, traceQIn)
      BY <1>1, <2>2, MetInside
    <3>2. /\ Holds(q', traceQIn', traceQOut', FlagsRead' \ given') /\ given' \subseteq FlagsRead'
          /\ InRange(q, traceQIn, traceQOut) => InRange(q', traceQIn', traceQOut')
      BY <1>1, <2>2, <3>1, TakeQueue DEF QueueT
    <3>3. Inside'
      <4>1. Gap(traceQOut, s) \in Nat /\ Gap(traceQOut, traceQIn) \in Nat
        BY <1>2, GapType
      <4>2. Gap(traceQOut, s) <= Gap(traceQOut, traceQIn)
        BY <3>1, <4>1 DEF Earlier
      <4> QED
        BY <1>1, <2>2, <4>2 DEF Inside, Gap
    <3> QED
      BY <1>1, <1>3, <3>2, <3>3 DEF QueueInv
  <2> QED
    BY <1>1, <1>4, <2>1, <2>2, PipeIs
<1>5. CASE consumeCAVector
  <2> DEFINE f == Head(goals)
  <2>1. PICK b \in Slots, c \in [Slots -> Entry] :
          /\ Earlier(qStart, b, traceQIn) /\ CountedTo(c, f, qStart, b) /\ qStart' = Up(b, 1)
          /\ \/ q' = c /\ UNCHANGED given
             \/ f \in q[b].record /\ Take(b, f, c)
    BY <1>1, <1>5, VectorIs
  <2>2. \A u \in Slots : c[u].cycle = q[u].cycle /\ c[u].record = q[u].record
    BY <2>1 DEF CountedTo
  <2>5. packed \/ Inside'
    <3> SUFFICES ASSUME ~ packed PROVE Inside'
      OBVIOUS
    <3>1. Earlier(traceQOut, b, traceQIn)
      BY <1>1, <2>1, MetInside
    <3>2. /\ Gap(traceQOut, b) \in Nat /\ Gap(traceQOut, traceQIn) \in Nat /\ Gap(traceQOut, traceQIn) < QSize
          /\ QSize \in Nat
      BY <1>2, GapType, Sizes
    <3>3. Gap(traceQOut, b) + 1 < QSize /\ Gap(traceQOut, b) + 1 <= Gap(traceQOut, traceQIn)
      BY <3>1, <3>2 DEF Earlier
    <3>4. Gap(traceQOut, Up(b, 1)) = Gap(traceQOut, b) + 1
      BY <1>2, <3>3, UpFrom
    <3>5. Gap(traceQOut, Up(b, 1)) <= Gap(traceQOut, traceQIn)
      BY <3>3, <3>4
    <3> QED
      BY <1>1, <2>1, <3>5 DEF Inside, Gap
  <2> HIDE DEF f
  <2>3. CASE q' = c /\ UNCHANGED given
    <3>1. /\ Holds(q', traceQIn, traceQOut, FlagsRead \ given)
          /\ InRange(q, traceQIn, traceQOut) => InRange(q', traceQIn, traceQOut)
      BY <1>3, <2>2, <2>3, CountHolds
    <3> QED
      BY <1>1, <1>2, <1>3, <2>3, <2>5, <3>1 DEF QueueInv
  <2>4. CASE f \in q[b].record /\ Take(b, f, c)
    <3>1. Earlier(traceQOut, b, traceQIn)
      BY <1>1, <2>1, <2>4, MetInside
    <3>2. /\ Holds(q', traceQIn', traceQOut', FlagsRead' \ given') /\ given' \subseteq FlagsRead'
          /\ InRange(q, traceQIn, traceQOut) => InRange(q', traceQIn', traceQOut')
      BY <1>1, <2>2, <2>4, <3>1, TakeQueue
    <3> QED
      BY <1>1, <1>3, <2>5, <3>2 DEF QueueInv
  <2> QED
    BY <2>1, <2>3, <2>4
<1> QED
  BY <1>4, <1>5

\* Reading keeps it.
LEMMA ReadQueue == TypeInv /\ HwInv /\ QueueInv /\ ReadMore => QueueInv'
<1> SUFFICES ASSUME TypeInv, HwInv, QueueInv, ReadMore, mode = "VECTOR", lead = 0, ~ (packed /\ rewound)
             PROVE  QueueInv'
  <2>1. ReadMore => UNCHANGED <<mode, lead, rewound>>
    BY DEF ReadMore, trace, sync
  <2>2. ReadMore /\ packed => packed'
    <3>1. ReadWord /\ packed => packed'
      BY Zenon DEF ReadWord
    <3>2. ReadMore => ReadWord \/ packed' = packed
      BY DEF ReadMore
    <3> QED
      BY <3>1, <3>2
  <2>3. UNCHANGED <<mode, lead, rewound>> /\ (packed => packed')
        /\ ~ (mode = "VECTOR" /\ lead = 0 /\ ~ (packed /\ rewound)) => QueueInv'
    BY DEF QueueInv
  <2> QED
    BY <2>1, <2>2, <2>3
<1>1. /\ UNCHANGED <<trace, given>> /\ UNCHANGED <<mode, lead, flags>> /\ Busy /\ status # "ERR"
      /\ caBufferIndex # 0 /\ UNCHANGED <<goals, rewound>>
  BY BusyBlock DEF ReadMore, Busy, trace, sync
<1>2. /\ Holds(q, traceQIn, traceQOut, FlagsRead \ given) /\ given \subseteq FlagsRead
      /\ rewound \/ InRange(q, traceQIn, traceQOut)
  BY <1>1 DEF QueueInv
<1>5. q \in [Slots -> Entry] /\ traceQIn \in Slots /\ traceQOut \in Slots
  BY DEF TypeInv, QueueT
<1>3. CASE NextWords = {} /\ parseNextCATraceRec /\ UNCHANGED <<queue, qStart, packed, depth0>>
  <2>1. FlagsRead' = FlagsRead
    BY <1>1, <1>3, ParseRead
  <2> QED
    BY <1>1, <1>3, <1>5, <2>1, SameQueue
<1>4. CASE NextWords # {} /\ ReadWord
  <2> DEFINE k == NextWord
             t == WordStart(k)
  <2>1. /\ offset' = k /\ addQ(DataWord(k), t) /\ UNCHANGED <<caBufferIndex, blockRecNum>>
    BY <1>4 DEF ReadWord, WordStart
  <2>2. k \in 1 .. BlockWords
    <3>1. k \in offset + 1 .. BlockWords
      BY <1>4, NextWordIs DEF TypeInv
    <3> HIDE DEF k
    <3> QED
      BY <3>1, Sizes DEF TypeInv, ReaderT
  <2>3. /\ CyclesRead \in Nat /\ t \in Int /\ CyclesRead <= t
        /\ \A f, c : <<f, c>> \in FlagsRead' <=>
             <<f, c>> \in FlagsRead \/ \E j \in 1 .. WordCycles : f \in DataWord(k)[j] /\ c = t + j - 1
    BY <1>1, <1>4, <2>1, WordReadFlags
  <2> HIDE DEF k
  <2>4. /\ DataWord(k) \in [1 .. WordCycles -> SUBSET Flag]
        /\ \A j \in 1 .. WordCycles : t + j - 1 \in 0 .. Cycles - 1
    BY <1>1, <2>2, WordRead DEF WordStart
  <2> HIDE DEF t
  <2>5. \A f, c : <<f, c>> \in FlagsRead => c < t
    <3> SUFFICES ASSUME NEW f, NEW c, <<f, c>> \in FlagsRead PROVE c < t
      OBVIOUS
    <3>1. c \in 0 .. CyclesRead - 1
      BY FlagsReadIs
    <3> QED
      BY <2>3, <3>1
  <2>6. \A f, c, j : <<f, c>> \in given /\ j \in 1 .. WordCycles => c # t + j - 1
    <3> SUFFICES ASSUME NEW f, NEW c, NEW j \in 1 .. WordCycles, <<f, c>> \in given PROVE c # t + j - 1
      OBVIOUS
    <3>1. c < t
      BY <1>2, <2>5
    <3> QED
      BY <2>3, <3>1, Sizes
  <2>7. given \subseteq FlagsRead'
    <3> SUFFICES ASSUME NEW x \in given PROVE x \in FlagsRead'
      OBVIOUS
    <3>1. PICK f, c : x = <<f, c>>
      BY <1>2, FlagsReadIs
    <3> QED
      BY <1>2, <2>3, <3>1
  <2>8. CASE status' # "ERR"
    <3> DEFINE F == FlagsRead \ given
               G == FlagsRead' \ given
    <3>1. AllUnder(F, t)
      BY <2>5 DEF AllUnder
    <3>2. With(F, G, DataWord(k), t)
      BY <2>3, <2>6 DEF With
    <3>3. Holds(q, traceQIn, traceQOut, F)
      BY <1>2
    <3> HIDE DEF F, G
    <3>4. /\ Holds(q', traceQIn', traceQOut', G)
          /\ InRange(q, traceQIn, traceQOut) => InRange(q', traceQIn', traceQOut')
      BY <1>5, <2>1, <2>3, <2>4, <2>8, <3>1, <3>2, <3>3, AddHolds
    <3>5. packed' \/ Inside'
      <4> SUFFICES ASSUME ~ packed' PROVE Inside'
        OBVIOUS
      <4> DEFINE m == Len(Entries(DataWord(k), t))
      <4>1. ~ (roomQ(traceQIn, traceQOut) < WordCycles) /\ qStart' = traceQIn
        BY <1>4 DEF ReadWord
      <4>2. Packed.in = traceQIn
        BY <4>1 DEF Packed
      <4>3. m \in 0 .. WordCycles /\ WordCycles \in Nat
        BY <2>3, <2>4, EntriesAre, Sizes
      <4>4. m \in Nat
        BY <4>3
      <4>5. /\ traceQOut' = traceQOut /\ traceQIn' = Up(Packed.in, m)
            /\ Gap(traceQOut, Packed.in) + m < QSize
        BY <1>5, <2>1, <2>3, <2>4, <2>8, AddIs
      <4> HIDE DEF m
      <4>6. Gap(traceQOut, traceQIn') = Gap(traceQOut, traceQIn) + m
        BY <1>5, <4>2, <4>4, <4>5, UpFrom
      <4>7. Gap(traceQOut, traceQIn) \in Nat
        BY <1>5, GapType
      <4>8. Gap(traceQOut, traceQIn) <= Gap(traceQOut, traceQIn')
        BY <4>4, <4>6, <4>7
      <4> QED
        BY <4>1, <4>5, <4>8 DEF Inside, Gap
    <3> QED
      BY <1>1, <1>2, <2>7, <3>4, <3>5 DEF QueueInv, G
  <2>9. CASE status' = "ERR"
    BY <2>9 DEF QueueInv
  <2> QED
    BY <2>8, <2>9
<1> QED
  BY <1>3, <1>4 DEF ReadMore

\* Every step keeps what the queue holds.
LEMMA NextQueue == TypeInv /\ HwInv /\ QueueInv /\ [Next]_vars => QueueInv'
<1> SUFFICES ASSUME TypeInv, HwInv, QueueInv, [Next]_vars PROVE QueueInv'
  OBVIOUS
<1>1. TypeInv' /\ traceQOut \in Slots /\ traceQIn \in Slots
  BY NextTypes DEF TypeInv, QueueT
<1>2. CASE Execute
  <2>1. /\ UNCHANGED <<mode, lead, queue, given, status, packed, rewound, goals, qStart>>
        /\ blockRecNum' = 0 /\ offset' = 0 /\ blockRecNum = 0 /\ offset = 0
    BY <1>2 DEF Execute, NoCall, reader, sync, search, TypeInv, PhaseT, ReaderT
  <2>2. FlagsRead = {}
    BY <2>1, NothingRead
  <2>3. FlagsRead' = {}
    <3>1. (TypeInv /\ blockRecNum = 0 /\ offset = 0 => FlagsRead = {})'
      BY NothingRead, PTL
    <3> QED
      BY <1>1, <2>1, <3>1
  <2> QED
    BY <1>1, <2>1, <2>2, <2>3, SameQueue
<1>3. CASE setCATraceFile
  <2>1. /\ parseNextCATraceRec /\ UNCHANGED <<trace, queue, given>> /\ caBufferIndex = 0 /\ status = "OK"
        /\ UNCHANGED <<mode, lead, packed, rewound, goals, qStart>>
    BY <1>3 DEF setCATraceFile, TypeInv, PhaseT, HwInv, trace, search
  <2>2. CASE mode = "VECTOR" /\ lead = 0
    <3>1. FlagsRead' = FlagsRead
      BY <2>1, <2>2, ParseRead
    <3> QED
      BY <1>1, <2>1, <3>1, SameQueue
  <2>3. CASE ~ (mode = "VECTOR" /\ lead = 0)
    BY <2>1, <2>3 DEF QueueInv
  <2> QED
    BY <2>2, <2>3
<1>4. CASE SyncMessage \/ SyncSkip \/ SyncFound \/ Instruction \/ Stop \/ UNCHANGED vars
  <2>1. /\ UNCHANGED <<trace, queue, reader, given, status, packed, rewound>>
        /\ UNCHANGED <<goals, qStart>> \/ qStart' = traceQOut
    BY <1>4 DEF SyncMessage, SyncSkip, SyncFound, Instruction, Stop, NoCall, vars, sync, search, Call
  <2>2. FlagsRead' = FlagsRead /\ UNCHANGED <<mode, lead>>
    BY <2>1, SameRead DEF trace
  <2> QED
    BY <1>1, <2>1, <2>2, SameQueue
<1>5. CASE SyncRewind
  <2>1. /\ blockRecNum' = 0 /\ offset' = 0 /\ traceQIn' = 0 /\ traceQOut' = 0 /\ given' = {}
        /\ rewound' /\ goals' = << >>
    BY <1>5 DEF SyncRewind, rewind, Idle, search
  <2>2. FlagsRead' = {}
    <3>1. (TypeInv /\ blockRecNum = 0 /\ offset = 0 => FlagsRead = {})'
      BY NothingRead, PTL
    <3> QED
      BY <1>1, <2>1, <3>1
  <2>3. FlagsRead' \ given' = {} /\ given' \subseteq FlagsRead' /\ 0 \in Slots
    BY <2>1, <2>2, Sizes DEF Slots
  <2>4. Holds(q', traceQIn', traceQOut', FlagsRead' \ given')
    BY <2>1, <2>3, EmptyHolds
  <2> QED
    BY <2>1, <2>3, <2>4 DEF QueueInv, Inside
<1>6. CASE consumeCAPipe \/ consumeCAVector
  BY <1>6, SearchQueue
<1>7. CASE consumeCAInstruction
  BY <1>7 DEF consumeCAInstruction, QueueInv, trace
<1>8. CASE ReadMore
  BY <1>8, ReadQueue
<1>9. CASE Return
  <2>1. UNCHANGED <<trace, q, traceQIn, reader, status, given, packed, rewound>> /\ goals' = << >>
    BY <1>9 DEF Return, sync
  <2>2. FlagsRead' = FlagsRead /\ UNCHANGED <<mode, lead>>
    BY <2>1, SameRead DEF trace
  <2>3. /\ QueueT /\ traceQOut' \in Slots /\ Gap(traceQOut, traceQOut') <= Gap(traceQOut, traceQIn)
        /\ \A u \in Slots : Gap(traceQOut, u) < Gap(traceQOut, traceQOut') => q[u].record = {}
    BY <1>9, ReturnIs DEF TypeInv, Full
  <2>4. mode = "VECTOR" /\ lead = 0 /\ status # "ERR" /\ ~ (packed /\ rewound) =>
          /\ Holds(q, traceQIn, traceQOut', FlagsRead \ given) /\ given \subseteq FlagsRead
          /\ rewound \/ InRange(q, traceQIn, traceQOut')
    BY <2>3, DropHolds DEF QueueInv, QueueT
  <2> QED
    BY <2>1, <2>2, <2>4 DEF QueueInv, Inside
<1> QED
  BY <1>2, <1>3, <1>4, <1>5, <1>6, <1>7, <1>8, <1>9 DEF Next

\* What Holds says, in the words of QueueHoldsRest.
LEMMA HoldsRest == TypeInv /\ QueueInv => QueueHoldsRest
<1> SUFFICES ASSUME TypeInv, QueueInv, mode = "VECTOR", lead = 0, caBufferIndex > 0, status # "ERR",
                    ~ (packed /\ rewound)
             PROVE  LET slots == SlotsFrom(traceQOut)
                    IN  /\ UNION {{<<f, q[slots[k]].cycle>> : f \in q[slots[k]].record} : k \in InQueue}
                             = FlagsRead \ given
                        /\ \A j, k \in InQueue : j < k => q[slots[j]].cycle < q[slots[k]].cycle
  BY DEF QueueHoldsRest, RestQueued
<1> DEFINE slots == SlotsFrom(traceQOut)
           m == Gap(traceQOut, traceQIn)
           P(k) == {<<f, q[slots[k]].cycle>> : f \in q[slots[k]].record}
           W == UNION {P(k) : k \in InQueue}
           F == FlagsRead \ given
<1>1. /\ m \in Nat /\ DOMAIN slots = 1 .. m
      /\ \A k \in 1 .. m : slots[k] \in Slots /\ Gap(traceQOut, slots[k]) = k - 1
      /\ \A t \in Slots : Gap(traceQOut, t) < m =>
           Gap(traceQOut, t) + 1 \in 1 .. m /\ slots[Gap(traceQOut, t) + 1] = t
  BY SlotsAre DEF TypeInv, QueueT
<1>2. \A k : k \in InQueue <=> k \in 1 .. m /\ q[slots[k]].record # {}
  BY <1>1 DEF InQueue, Full
<1>3. \A x : x \in W <=> \E k \in InQueue : \E f \in q[slots[k]].record : x = <<f, q[slots[k]].cycle>>
  OBVIOUS
<1>4. /\ \A s, t \in Slots :
           /\ Gap(traceQOut, s) < m /\ Gap(traceQOut, t) < m /\ Gap(traceQOut, s) < Gap(traceQOut, t)
           /\ q[s].record # {} /\ q[t].record # {}
           => q[s].cycle < q[t].cycle
      /\ \A f, c : <<f, c>> \in F <=> \E s \in Slots : Gap(traceQOut, s) < m /\ f \in q[s].record /\ c = q[s].cycle
  BY DEF QueueInv, Holds, Ordered, Has, Earlier
<1>5. \A x \in F : \E f, c : x = <<f, c>>
  BY FlagsReadIs
<1> HIDE DEF slots, m, W, F
<1>6. ASSUME NEW x \in W PROVE x \in F
  <2>1. PICK k \in InQueue : \E f \in q[slots[k]].record : x = <<f, q[slots[k]].cycle>>
    BY <1>3
  <2>2. k \in 1 .. m /\ slots[k] \in Slots /\ Gap(traceQOut, slots[k]) < m
    BY <1>1, <1>2
  <2> QED
    BY <1>4, <2>1, <2>2
<1>7. ASSUME NEW x \in F PROVE x \in W
  <2>1. PICK f, c : x = <<f, c>>
    BY <1>5
  <2>2. PICK s \in Slots : Gap(traceQOut, s) < m /\ f \in q[s].record /\ c = q[s].cycle
    BY <1>4, <2>1
  <2>3. PICK k \in 1 .. m : slots[k] = s
    BY <1>1, <1>4, <2>2
  <2>4. k \in InQueue
    BY <1>2, <2>2, <2>3
  <2> QED
    BY <1>3, <2>1, <2>2, <2>3, <2>4
<1>8. \A j, k \in InQueue : j < k => q[slots[j]].cycle < q[slots[k]].cycle
  <2> TAKE j, k \in InQueue
  <2> HAVE j < k
  <2>1. /\ slots[j] \in Slots /\ slots[k] \in Slots /\ j \in Int /\ k \in Int
        /\ q[slots[j]].record # {} /\ q[slots[k]].record # {}
        /\ Gap(traceQOut, slots[j]) = j - 1 /\ Gap(traceQOut, slots[k]) = k - 1
    <3>1. j \in 1 .. m /\ k \in 1 .. m /\ q[slots[j]].record # {} /\ q[slots[k]].record # {}
      BY <1>2
    <3> QED
      BY <1>1, <3>1
  <2>2. j - 1 < k - 1 /\ j - 1 < m /\ k - 1 < m
    BY <1>1, <1>2, <2>1
  <2> QED
    BY <1>4, <2>1, <2>2
<1> QED
  BY <1>6, <1>7, <1>8 DEF slots, W, F

\* QueueHoldsRest: through the wrap of the indices, the dropping of slots and either
\* packing or rewinding, the circular queue holds the flags read and not given, in the
\* order of their cycles, though rewind() leaves the records of before in its slots.
THEOREM CATraceQueueHoldsRest == Spec => []QueueHoldsRest
  BY InitTypes, InitQueue, NextTypes, NextHw, NextQueue, HoldsRest, PTL DEF Spec

-----------------------------------------------------------------------------
(* The events of the instructions.                                         *)

(* The place of an event among the bits of an instruction trace: V0 comes   *)
(* before V1 of the same cycle.                                            *)
Bit(e) == 2 * e.at + (IF e.pipe = "V0" THEN 0 ELSE 1)
GoalAt(i, a) == Goals(TypeAt(i))[a]

Event(i, e) ==
  /\ e.pipe \in Pipes /\ e.at \in 0 .. Cycles - 1 /\ e.v \in Seq(0 .. Cycles - 1)
  /\ Len(e.v) = IF mode = "VECTOR" THEN Len(Goals(TypeAt(i))) ELSE 0
  /\ \A a \in 1 .. Len(e.v) : e.at <= e.v[a]
  /\ \A a, b \in 1 .. Len(e.v) : a < b => e.v[a] < e.v[b]
(* The event e of instruction i comes before e2 of j.                      *)
InOrder(i, e, j, e2) ==
  /\ Bit(e) < Bit(e2)
  /\ \A a \in 1 .. Len(e.v), b \in 1 .. Len(e2.v) : GoalAt(i, a) = GoalAt(j, b) => e.v[a] < e2.v[b]
(* The flag f of cycle c is one of event e of i.                           *)
FlagOf(i, e, f, c) ==
  \/ f = e.pipe /\ c = e.at
  \/ \E a \in 1 .. Len(e.v) : f = GoalAt(i, a) /\ c = e.v[a]
Executed ==
  /\ \E m \in Nat : DOMAIN sched = caStart .. caStart + m - 1
  /\ \A i \in DOMAIN sched : i \in 1 .. Len(Path) /\ Event(i, sched[i])
  /\ \A i, j \in DOMAIN sched : i < j => InOrder(i, sched[i], j, sched[j])
  /\ \A c \in 0 .. Cycles - 1 : \A f : f \in flags[c] <=> \E i \in DOMAIN sched : FlagOf(i, sched[i], f, c)

\* No flag is looked for twice for an instruction.
LEMMA GoalsDistinct ==
  ASSUME NEW type, NEW a \in 1 .. Len(Goals(type)), NEW b \in 1 .. Len(Goals(type)),
         Goals(type)[a] = Goals(type)[b]
  PROVE  a = b
<1>1. \/ Goals(type) = << >>
      \/ Goals(type) = <<"VISTART", "VIARITH">>
      \/ Goals(type) = <<"VISTART", "VILOAD">>
      \/ Goals(type) = <<"VISTART", "VISTORE">>
      \/ Goals(type) = <<"VISTART", "VILOAD", "VISTORE">>
  BY DEF Goals
<1>2. CASE Goals(type) = << >>
  BY <1>2
<1>3. CASE Goals(type) = <<"VISTART", "VIARITH">>
  BY <1>3
<1>4. CASE Goals(type) = <<"VISTART", "VILOAD">>
  BY <1>4
<1>5. CASE Goals(type) = <<"VISTART", "VISTORE">>
  BY <1>5
<1>6. CASE Goals(type) = <<"VISTART", "VILOAD", "VISTORE">>
  BY <1>6
<1> QED
  BY <1>1, <1>2, <1>3, <1>4, <1>5, <1>6

\* Only vector instructions have any.
LEMMA GoalsOfScalar ==
  ASSUME NEW type, type \notin VectorTypes
  PROVE  Len(Goals(type)) = 0
<1>1. Goals(type) = << >>
  BY DEF Goals, VectorTypes
<1> QED
  BY <1>1

\* Events are ordered by their bits.
LEMMA BitsOrdered ==
  ASSUME NEW e, NEW g, e.pipe \in Pipes, g.pipe \in Pipes, e.at \in Int, g.at \in Int
  PROVE  /\ Bit(e) \in Int /\ (Before(e, g) => Bit(e) < Bit(g))
         /\ (Bit(e) < Bit(g) => e.at <= g.at)
         /\ (Bit(e) < Bit(g) /\ e.at = g.at => e.pipe = "V0" /\ g.pipe = "V1")
         /\ (Bit(e) = Bit(g) => e.at = g.at /\ e.pipe = g.pipe)
  BY DEF Bit, Before, Pipes

\* A legal event has its types and its own events in order.
LEMMA LegalIs ==
  ASSUME TraceT, NEW i \in 1 .. Len(Path), NEW p \in Pipes, NEW c \in 0 .. Cycles - 1, NEW v \in VectorEvents(i),
         LegalEvents(i, [pipe |-> p, at |-> c, v |-> v])
  PROVE  Event(i, [pipe |-> p, at |-> c, v |-> v])
<1> DEFINE G == Goals(TypeAt(i))
           e == [pipe |-> p, at |-> c, v |-> v]
           S == 0 .. Cycles - 1
<1>0. \A x \in S : x \in Int
  OBVIOUS
<1>1. Len(G) \in 0 .. 3 /\ DOMAIN G = 1 .. Len(G)
  BY GoalsType
<1>2. IF mode = "VECTOR" THEN v \in [1 .. Len(G) -> S] ELSE v = << >>
  BY <1>1 DEF VectorEvents
<1>4. \A a \in DOMAIN v : IF a = 1 THEN v[1] >= c ELSE v[a] > v[a - 1]
  BY DEF LegalEvents
<1>5. c \in Int
  OBVIOUS
<1> HIDE DEF S, G
<1>3. \E l \in 0 .. 3 : v \in Seq(S) /\ Len(v) = l /\ l = IF mode = "VECTOR" THEN Len(G) ELSE 0
  <2>1. CASE mode = "VECTOR"
    <3>1. PICK l \in 0 .. 3 : l = Len(G)
      BY <1>1
    <3>2. l \in Nat /\ v \in [1 .. l -> S]
      BY <1>2, <2>1, <3>1
    <3>3. v \in Seq(S) /\ Len(v) = l
      BY <3>2
    <3> QED
      BY <2>1, <3>1, <3>3
  <2>2. CASE mode # "VECTOR"
    <3>1. v = << >>
      BY <1>2, <2>2
    <3>2. v \in Seq(S) /\ Len(v) = 0
      BY <3>1
    <3> QED
      BY <2>2, <3>2
  <2> QED
    BY <2>1, <2>2
<1>6. PICK l \in 0 .. 3 : v \in Seq(S) /\ Len(v) = l /\ l = IF mode = "VECTOR" THEN Len(G) ELSE 0
  BY <1>3
<1>7. DOMAIN v = 1 .. l /\ \A a \in 1 .. l : v[a] \in Int
  <2>1. DOMAIN v = 1 .. l /\ \A a \in 1 .. l : v[a] \in S
    BY <1>6, LenProperties, ElementOfSeq
  <2> QED
    BY <1>0, <2>1
<1>8. /\ \A a \in 1 .. l : c <= v[a]
      /\ \A a, b \in 1 .. l : a < b => v[a] < v[b]
  <2>0. \A a \in 1 .. l : IF a = 1 THEN v[1] >= c ELSE v[a] > v[a - 1]
    BY <1>4, <1>7
  <2>1. l >= 1 => v[1] \in Int /\ v[1] >= c
    <3> HAVE l >= 1
    <3>1. 1 \in 1 .. l
      OBVIOUS
    <3> QED
      BY <1>7, <2>0, <3>1, Zenon
  <2>2. l >= 2 => v[2] \in Int /\ v[2] > v[1]
    <3> HAVE l >= 2
    <3>1. 2 \in 1 .. l /\ 2 - 1 = 1 /\ 2 # 1
      OBVIOUS
    <3>2. v[2] > v[2 - 1]
      BY <2>0, <3>1, Zenon
    <3> QED
      BY <1>7, <3>1, <3>2, Zenon
  <2>3. l >= 3 => v[3] \in Int /\ v[3] > v[2]
    <3> HAVE l >= 3
    <3>1. 3 \in 1 .. l /\ 3 - 1 = 2 /\ 3 # 1
      OBVIOUS
    <3>2. v[3] > v[3 - 1]
      BY <2>0, <3>1, Zenon
    <3> QED
      BY <1>7, <3>1, <3>2, Zenon
  <2>4. \A a \in 1 .. l : a = 1 \/ (a = 2 /\ l >= 2) \/ (a = 3 /\ l >= 3)
    OBVIOUS
  <2> QED
    BY <1>5, <2>1, <2>2, <2>3, <2>4
<1>9. e.pipe = p /\ e.at = c /\ e.v = v
  OBVIOUS
<1> HIDE DEF e
<1> QED
  BY <1>6, <1>8, <1>9 DEF Event, G, e, S

\* Its flags.
LEMMA FlagsOfIs ==
  ASSUME NEW i, NEW e, Event(i, e)
  PROVE  \A f, c : f \in FlagsOf(i, e, c) <=> FlagOf(i, e, f, c)
<1> TAKE f, c
<1>1. DOMAIN e.v = 1 .. Len(e.v)
  BY DEF Event
<1>2. f \in FlagsOf(i, e, c) <=> (e.at = c /\ f = e.pipe) \/ \E a \in DOMAIN e.v : e.v[a] = c /\ f = Goals(TypeAt(i))[a]
  BY DEF FlagsOf
<1> QED
  BY <1>1, <1>2 DEF FlagOf, GoalAt

\* Execute, without the notation for functions.
LEMMA ExecuteIs ==
  ASSUME TypeInv, Executed, Execute
  PROVE  \E i \in 1 .. Len(Path) : \E e :
           /\ \A j \in DOMAIN sched : j < i /\ j \in Int
           /\ DOMAIN sched' = DOMAIN sched \cup {i}
           /\ \E m \in Nat : DOMAIN sched' = caStart .. caStart + m - 1
           /\ sched'[i] = e /\ \A j \in DOMAIN sched : sched'[j] = sched[j]
           /\ Event(i, e) /\ LegalEvents(i, e)
           /\ i = caStart \/ (i # caStart /\ i - 1 \in DOMAIN sched)
           /\ flags' = [d \in 0 .. Cycles - 1 |-> flags[d] \cup FlagsOf(i, e, d)]
<1> DEFINE i == caStart + Cardinality(DOMAIN sched)
<1>1. PICK m \in Nat : DOMAIN sched = caStart .. caStart + m - 1
  BY DEF Executed
<1>2. caStart \in Int /\ caStart >= 1 /\ flags \in [0 .. Cycles - 1 -> SUBSET Flag]
  BY DEF TypeInv, TraceT
<1>3. Cardinality(DOMAIN sched) = m
  <2>1. caStart + m - 1 \in Int
    BY <1>2
  <2>2. Cardinality(caStart .. caStart + m - 1) = IF caStart > caStart + m - 1 THEN 0 ELSE (caStart + m - 1) - caStart + 1
    BY <1>2, <2>1, FS_Interval
  <2> QED
    BY <1>1, <1>2, <2>2
<1>4. i = caStart + m /\ i \in Int
  BY <1>2, <1>3
<1>5. PICK p \in Pipes, c \in 0 .. Cycles - 1, v \in VectorEvents(i) :
        /\ i <= Len(Path) /\ LegalEvents(i, [pipe |-> p, at |-> c, v |-> v])
        /\ sched' = [j \in DOMAIN sched \cup {i} |-> IF j = i THEN [pipe |-> p, at |-> c, v |-> v] ELSE sched[j]]
        /\ flags' = [d \in DOMAIN flags |-> flags[d] \cup FlagsOf(i, [pipe |-> p, at |-> c, v |-> v], d)]
  BY DEF Execute
<1> DEFINE e == [pipe |-> p, at |-> c, v |-> v]
<1> HIDE DEF i
<1>6. i \in 1 .. Len(Path)
  <2>1. Len(Path) \in Nat
    BY CATraceAssumption
  <2> QED
    BY <1>2, <1>4, <1>5, <2>1
<1>7. Event(i, e)
  BY <1>5, <1>6, LegalIs DEF TypeInv
<1>8. LegalEvents(i, e)
  BY <1>5
<1>9. sched' = [j \in DOMAIN sched \cup {i} |-> IF j = i THEN e ELSE sched[j]]
  BY <1>5
<1> HIDE DEF e
<1>11. \A j \in DOMAIN sched : j < i /\ j \in Int
  BY <1>1, <1>2, <1>4
<1>12. DOMAIN sched' = DOMAIN sched \cup {i} /\ sched'[i] = e /\ \A j \in DOMAIN sched : sched'[j] = sched[j]
  <2>1. \A j \in DOMAIN sched : j # i
    BY <1>4, <1>11
  <2> QED
    BY <1>9, <2>1
<1>13. DOMAIN sched' = caStart .. caStart + (m + 1) - 1
  <2>1. \A x : x \in caStart .. caStart + (m + 1) - 1 <=> x \in caStart .. caStart + m - 1 \/ x = i
    BY <1>2, <1>4
  <2> QED
    BY <1>1, <1>12, <2>1
<1>14. i = caStart \/ (i # caStart /\ i - 1 \in DOMAIN sched)
  BY <1>1, <1>2, <1>4
<1>15. flags' = [d \in 0 .. Cycles - 1 |-> flags[d] \cup FlagsOf(i, e, d)]
  BY <1>2, <1>5 DEF e
<1>16. \E k \in Nat : DOMAIN sched' = caStart .. caStart + k - 1
  <2>1. m + 1 \in Nat
    OBVIOUS
  <2> QED
    BY <1>13, <2>1
<1> HIDE DEF i
<1> QED
  BY <1>6, <1>7, <1>8, <1>11, <1>12, <1>14, <1>15, <1>16, Zenon

\* The events are in order, and the flags are theirs.
LEMMA ExecuteExecuted == TypeInv /\ Executed /\ Execute => Executed'
<1> SUFFICES ASSUME TypeInv, Executed, Execute PROVE Executed'
  OBVIOUS
<1>1. mode' = mode /\ caStart' = caStart
  BY DEF Execute
<1>2. PICK i \in 1 .. Len(Path) : \E e :
           /\ \A j \in DOMAIN sched : j < i /\ j \in Int
           /\ DOMAIN sched' = DOMAIN sched \cup {i}
           /\ \E m \in Nat : DOMAIN sched' = caStart .. caStart + m - 1
           /\ sched'[i] = e /\ \A j \in DOMAIN sched : sched'[j] = sched[j]
           /\ Event(i, e) /\ LegalEvents(i, e)
           /\ i = caStart \/ (i # caStart /\ i - 1 \in DOMAIN sched)
           /\ flags' = [d \in 0 .. Cycles - 1 |-> flags[d] \cup FlagsOf(i, e, d)]
  BY ExecuteIs
<1>3. PICK e :
           /\ \A j \in DOMAIN sched : j < i /\ j \in Int
           /\ DOMAIN sched' = DOMAIN sched \cup {i}
           /\ \E m \in Nat : DOMAIN sched' = caStart .. caStart + m - 1
           /\ sched'[i] = e /\ \A j \in DOMAIN sched : sched'[j] = sched[j]
           /\ Event(i, e) /\ LegalEvents(i, e)
           /\ i = caStart \/ (i # caStart /\ i - 1 \in DOMAIN sched)
           /\ flags' = [d \in 0 .. Cycles - 1 |-> flags[d] \cup FlagsOf(i, e, d)]
  BY <1>2
<1>4. \A j, x : Event(j, x)' <=> Event(j, x)
  BY <1>1 DEF Event
<1>5. \A j \in DOMAIN sched : j \in 1 .. Len(Path) /\ Event(j, sched[j])
  BY DEF Executed
<1>6. \A j \in DOMAIN sched' : j \in 1 .. Len(Path) /\ Event(j, sched'[j])
  BY <1>3, <1>5
<1>7. \A j \in DOMAIN sched : InOrder(j, sched[j], i, e)
  <2> TAKE j \in DOMAIN sched
  <2>1. /\ e.pipe \in Pipes /\ e.at \in Int /\ DOMAIN e.v = 1 .. Len(e.v)
        /\ sched[j].pipe \in Pipes /\ sched[j].at \in Int /\ DOMAIN sched[j].v = 1 .. Len(sched[j].v)
    BY <1>3, <1>5 DEF Event
  <2>2. Bit(sched[j]) < Bit(e)
    <3>1. i # caStart /\ i - 1 \in DOMAIN sched
      <4>1. j >= caStart /\ j < i /\ j \in Int
        BY <1>3 DEF TypeInv, TraceT, Executed
      <4>2. caStart \in Int
        BY DEF TypeInv, TraceT
      <4> QED
        BY <1>3, <4>1, <4>2
    <3>2. Before(sched[i - 1], e)
      BY <1>3, <3>1 DEF LegalEvents
    <3>3. sched[i - 1].pipe \in Pipes /\ sched[i - 1].at \in Int
      BY <1>5, <3>1 DEF Event
    <3>4. Bit(sched[i - 1]) < Bit(e) /\ Bit(sched[i - 1]) \in Int /\ Bit(e) \in Int /\ Bit(sched[j]) \in Int
      BY <2>1, <3>2, <3>3, BitsOrdered
    <3>5. CASE j = i - 1
      BY <3>4, <3>5
    <3>6. CASE j # i - 1
      <4>1. j < i - 1
        BY <1>3, <3>6
      <4>2. Bit(sched[j]) < Bit(sched[i - 1])
        BY <3>1, <4>1 DEF Executed, InOrder
      <4> QED
        BY <3>4, <4>2
    <3> QED
      BY <3>5, <3>6
  <2>3. \A a \in 1 .. Len(sched[j].v), b \in 1 .. Len(e.v) : GoalAt(j, a) = GoalAt(i, b) => sched[j].v[a] < e.v[b]
    BY <1>3, <2>1 DEF LegalEvents, SameFlagInOrder, GoalAt
  <2> QED
    BY <2>2, <2>3 DEF InOrder
<1>8. \A j, k \in DOMAIN sched' : j < k => InOrder(j, sched'[j], k, sched'[k])
  <2> TAKE j, k \in DOMAIN sched'
  <2> HAVE j < k
  <2>1. CASE j \in DOMAIN sched /\ k \in DOMAIN sched
    BY <1>3, <2>1 DEF Executed
  <2>2. CASE j \in DOMAIN sched /\ k = i
    BY <1>3, <1>7, <2>2
  <2>3. j # i
    <3>1. k = i \/ (k < i /\ k \in Int)
      BY <1>3
    <3> QED
      BY <3>1
  <2> QED
    BY <1>3, <2>1, <2>2, <2>3
<1>9. ASSUME NEW c \in 0 .. Cycles - 1, NEW f
      PROVE  f \in flags'[c] <=> \E j \in DOMAIN sched' : FlagOf(j, sched'[j], f, c)
  <2>1. flags'[c] = flags[c] \cup FlagsOf(i, e, c)
    BY <1>3
  <2>2. f \in FlagsOf(i, e, c) <=> FlagOf(i, e, f, c)
    BY <1>3, FlagsOfIs
  <2>3. f \in flags[c] <=> \E j \in DOMAIN sched : FlagOf(j, sched[j], f, c)
    BY DEF Executed
  <2> QED
    BY <1>3, <2>1, <2>2, <2>3
<1>10. \E m \in Nat : DOMAIN sched' = caStart' .. caStart' + m - 1
  BY <1>1, <1>3
<1> QED
  BY <1>4, <1>6, <1>8, <1>9, <1>10 DEF Executed, InOrder, Bit, GoalAt, FlagOf, TypeAt

\* No event at the beginning.
LEMMA InitExecuted == Init => Executed
<1> SUFFICES ASSUME Init PROVE Executed
  OBVIOUS
<1>1. DOMAIN sched = {} /\ flags = [c \in 0 .. Cycles - 1 |-> {}]
  BY DEF Init
<1>2. DOMAIN sched = caStart .. caStart + 0 - 1
  <2>1. caStart \in Int
    BY InitTypes DEF TypeInv, TraceT
  <2> QED
    BY <1>1, <2>1
<1>3. \E m \in Nat : DOMAIN sched = caStart .. caStart + m - 1
  BY <1>2
<1> QED
  BY <1>1, <1>3 DEF Executed

\* The hardware makes the events; no other step does.
LEMMA NextExecuted == TypeInv /\ Executed /\ [Next]_vars => Executed'
<1> SUFFICES ASSUME TypeInv, Executed, [Next]_vars PROVE Executed'
  OBVIOUS
<1>1. CASE Execute
  BY <1>1, ExecuteExecuted
<1>2. CASE ~ Execute
  <2>1. UNCHANGED trace
    BY <1>2 DEF Next, vars, setCATraceFile, SyncMessage, SyncSkip, SyncFound, SyncRewind, Instruction,
       consumeCAPipe, consumeCAVector, consumeCAInstruction, ReadMore, Return, Stop
  <2>2. UNCHANGED <<mode, caStart, flags, sched>>
    BY <2>1 DEF trace
  <2>3. \A j, x : Event(j, x)' <=> Event(j, x)
    BY <2>2 DEF Event
  <2>4. /\ \E m \in Nat : DOMAIN sched' = caStart' .. caStart' + m - 1
        /\ \A i \in DOMAIN sched' : i \in 1 .. Len(Path) /\ Event(i, sched'[i])
        /\ \A i, j \in DOMAIN sched' : i < j => InOrder(i, sched'[i], j, sched'[j])
        /\ \A c \in 0 .. Cycles - 1 : \A f : f \in flags'[c] <=> \E i \in DOMAIN sched' : FlagOf(i, sched'[i], f, c)
    BY <2>2, Zenon DEF Executed
  <2> QED
    BY <2>3, <2>4 DEF Executed, InOrder, Bit, GoalAt, FlagOf, TypeAt
<1> QED
  BY <1>1, <1>2

\* An event, and what its flags tell of it.
LEMMA EventIs ==
  ASSUME Executed, NEW i \in DOMAIN sched
  PROVE  /\ i \in Int /\ i \in 1 .. Len(Path) /\ sched[i].pipe \in Pipes /\ sched[i].at \in Int
         /\ sched[i].at \in 0 .. Cycles - 1
         /\ IsSequence(sched[i].v) /\ Len(sched[i].v) \in Nat
         /\ \A a \in 1 .. Len(sched[i].v) : /\ sched[i].v[a] \in Int /\ sched[i].v[a] \in 0 .. Cycles - 1
                                            /\ GoalAt(i, a) \in VTypes
         /\ Bit(sched[i]) \in Int
<1>1. Event(i, sched[i]) /\ i \in 1 .. Len(Path)
  BY DEF Executed
<1>2. /\ sched[i].pipe \in Pipes /\ sched[i].at \in 0 .. Cycles - 1 /\ sched[i].v \in Seq(0 .. Cycles - 1)
      /\ Len(sched[i].v) = IF mode = "VECTOR" THEN Len(Goals(TypeAt(i))) ELSE 0
  BY <1>1 DEF Event
<1> DEFINE v == sched[i].v
           S == 0 .. Cycles - 1
<1>3. \A x \in S : x \in Int
  OBVIOUS
<1>4. v \in Seq(S)
  BY <1>2
<1> HIDE DEF v, S
<1>5. Len(v) \in Nat /\ \A a \in 1 .. Len(v) : v[a] \in S
  BY <1>4, LenProperties, ElementOfSeq
<1>6. IsSequence(v)
  BY <1>4 DEF IsSequence
<1>7. \A a \in 1 .. Len(v) : GoalAt(i, a) \in VTypes
  <2> TAKE a \in 1 .. Len(v)
  <2>1. a \in DOMAIN Goals(TypeAt(i))
    <3>1. CASE mode = "VECTOR"
      BY <1>2, <3>1, GoalsType DEF v
    <3>2. CASE mode # "VECTOR"
      BY <1>2, <3>2 DEF v
    <3> QED
      BY <3>1, <3>2
  <2> QED
    BY <2>1, GoalsType DEF GoalAt
<1>8. sched[i].at \in Int
  BY <1>2, <1>3 DEF S
<1>9. Bit(sched[i]) \in Int
  BY <1>2, <1>8, BitsOrdered
<1> QED
  BY <1>1, <1>2, <1>3, <1>5, <1>6, <1>7, <1>8, <1>9 DEF v, S

\* Pipe flags and vector flags differ.
LEMMA FlagKinds == \A f \in VTypes : f \notin Pipes /\ f # "PIPE"
  BY DEF VTypes, Pipes

\* A pipe flag tells its instruction.
LEMMA PipeUnique ==
  ASSUME Executed, NEW i \in DOMAIN sched, NEW j \in DOMAIN sched,
         sched[i].pipe = sched[j].pipe, sched[i].at = sched[j].at
  PROVE  i = j
<1>1. i \in Int /\ j \in Int
  BY EventIs
<1>2. Bit(sched[i]) = Bit(sched[j]) /\ Bit(sched[i]) \in Int
  BY EventIs DEF Bit
<1>3. ~ (i < j) /\ ~ (j < i)
  BY <1>2 DEF Executed, InOrder
<1> QED
  BY <1>1, <1>3

\* A vector flag tells its instruction and its goal.
LEMMA VectorUnique ==
  ASSUME Executed, NEW i \in DOMAIN sched, NEW j \in DOMAIN sched,
         NEW a \in 1 .. Len(sched[i].v), NEW b \in 1 .. Len(sched[j].v),
         GoalAt(i, a) = GoalAt(j, b), sched[i].v[a] = sched[j].v[b]
  PROVE  i = j /\ a = b
<1>1. i \in Int /\ j \in Int /\ sched[i].v[a] \in Int
  BY EventIs
<1>2. ~ (i < j) /\ ~ (j < i)
  <2>1. ASSUME i < j PROVE FALSE
    <3>1. InOrder(i, sched[i], j, sched[j])
      BY <2>1 DEF Executed
    <3>2. sched[i].v[a] < sched[j].v[b]
      BY <3>1 DEF InOrder
    <3> QED
      BY <1>1, <3>2
  <2>2. ASSUME j < i PROVE FALSE
    <3>1. InOrder(j, sched[j], i, sched[i])
      BY <2>2 DEF Executed
    <3>2. sched[j].v[b] < sched[i].v[a]
      BY <3>1 DEF InOrder
    <3> QED
      BY <1>1, <3>2
  <2> QED
    BY <2>1, <2>2
<1>3. i = j
  BY <1>1, <1>2
<1>4. mode = "VECTOR" /\ Len(sched[i].v) = Len(Goals(TypeAt(i)))
  BY DEF Executed, Event
<1>5. a = b
  BY <1>3, <1>4, GoalsDistinct DEF GoalAt
<1> QED
  BY <1>3, <1>5

-----------------------------------------------------------------------------
(* What a search finds.                                                    *)

(* The flags of all instructions before p have been given, and of p the     *)
(* first l ones, the flag of the pipe counted.                             *)
PipesDone(p, l) ==
  \A i \in DOMAIN sched : <<sched[i].pipe, sched[i].at>> \in given <=> i < p \/ (i = p /\ 0 < l)
VectorsDone(p, l) ==
  \A i \in DOMAIN sched : \A a \in 1 .. Len(sched[i].v) :
    <<GoalAt(i, a), sched[i].v[a]>> \in given <=> i < p \/ (i = p /\ a < l)
NoVectors ==
  \A i \in DOMAIN sched : \A a \in 1 .. Len(sched[i].v) : <<GoalAt(i, a), sched[i].v[a]>> \notin given

Rest == Holds(q, traceQIn, traceQOut, FlagsRead \ given)

\* A flag in the queue is one of an instruction and was not given.
LEMMA HeldFlag ==
  ASSUME TypeInv, Executed, Rest, NEW s \in Slots, Earlier(traceQOut, s, traceQIn), NEW f, f \in q[s].record
  PROVE  /\ \E i \in DOMAIN sched : FlagOf(i, sched[i], f, q[s].cycle)
         /\ <<f, q[s].cycle>> \notin given /\ q[s].cycle \in Int /\ q[s].cycle < CyclesRead
<1>1. <<f, q[s].cycle>> \in FlagsRead \ given
  BY DEF Rest, Holds, Has
<1>2. q[s].cycle \in 0 .. Cycles - 1
  BY DEF TypeInv, QueueT, Entry
<1>3. q[s].cycle \in 0 .. CyclesRead - 1 /\ f \in flags[q[s].cycle]
  BY <1>1, FlagsReadIs
<1>4. CyclesRead \in Int
  BY CyclesReadType
<1>5. q[s].cycle \in Int /\ q[s].cycle < CyclesRead
  BY <1>3, <1>4
<1>6. \E i \in DOMAIN sched : FlagOf(i, sched[i], f, q[s].cycle)
  BY <1>2, <1>3 DEF Executed
<1> QED
  BY <1>1, <1>5, <1>6

\* A flag of a cycle read that was not given is in the queue.
LEMMA HeldAt ==
  ASSUME TypeInv, Executed, Rest, NEW i \in DOMAIN sched, NEW f, NEW c, c < CyclesRead,
         FlagOf(i, sched[i], f, c), <<f, c>> \notin given
  PROVE  \E u \in Slots : Earlier(traceQOut, u, traceQIn) /\ f \in q[u].record /\ c = q[u].cycle
<1>1. c \in 0 .. Cycles - 1
  <2>1. /\ sched[i].at \in 0 .. Cycles - 1
        /\ \A a \in 1 .. Len(sched[i].v) : sched[i].v[a] \in 0 .. Cycles - 1
    BY EventIs
  <2> QED
    BY <2>1 DEF FlagOf
<1>2. f \in flags[c]
  BY <1>1 DEF Executed
<1>3. CyclesRead \in Int
  BY CyclesReadType
<1>4. c \in 0 .. CyclesRead - 1
  BY <1>1, <1>3
<1>5. <<f, c>> \in FlagsRead \ given
  BY <1>2, <1>4, FlagsReadIs
<1> QED
  BY <1>5 DEF Rest, Holds, Has

\* Slots lie in the order of their cycles.
LEMMA CycleOrder ==
  ASSUME TypeInv, Rest, NEW u \in Slots, NEW s \in Slots, q[u].record # {}, q[s].record # {},
         Earlier(traceQOut, u, traceQIn), Earlier(traceQOut, s, traceQIn)
  PROVE  /\ q[u].cycle < q[s].cycle => Earlier(traceQOut, u, s)
         /\ q[u].cycle = q[s].cycle => u = s
         /\ Earlier(traceQOut, u, s) => q[u].cycle < q[s].cycle
<1>1. Gap(traceQOut, u) \in Nat /\ Gap(traceQOut, s) \in Nat
  BY GapType DEF TypeInv, QueueT
<1>2. q[u].cycle \in Int /\ q[s].cycle \in Int
  BY DEF TypeInv, QueueT, Entry
<1>3. /\ Earlier(traceQOut, u, s) => q[u].cycle < q[s].cycle
      /\ Earlier(traceQOut, s, u) => q[s].cycle < q[u].cycle
  BY DEF Rest, Holds, Ordered
<1>4. Gap(traceQOut, u) = Gap(traceQOut, s) => u = s
  BY GapInjective DEF TypeInv, QueueT
<1>5. Earlier(traceQOut, u, s) \/ Earlier(traceQOut, s, u) \/ u = s
  BY <1>1, <1>4 DEF Earlier
<1> QED
  BY <1>2, <1>3, <1>5

\* The instructions recorded have consecutive positions.
LEMMA Consecutive ==
  ASSUME TypeInv, Executed, NEW i \in DOMAIN sched, NEW p \in Int, caStart <= p, p <= i
  PROVE  p \in DOMAIN sched
<1>1. PICK m \in Nat : DOMAIN sched = caStart .. caStart + m - 1
  BY DEF Executed
<1>2. caStart \in Int
  BY DEF TypeInv, TraceT
<1> QED
  BY <1>1, <1>2

\* A flag of a pipe is that of an instruction, a flag of a vector unit one of its goals.
LEMMA FlagOfKind ==
  ASSUME Executed, NEW i \in DOMAIN sched, NEW f, NEW c, FlagOf(i, sched[i], f, c)
  PROVE  /\ f \in Pipes => f = sched[i].pipe /\ c = sched[i].at
         /\ f \in VTypes => \E a \in 1 .. Len(sched[i].v) : f = GoalAt(i, a) /\ c = sched[i].v[a]
<1>1. sched[i].pipe \in Pipes /\ \A a \in 1 .. Len(sched[i].v) : GoalAt(i, a) \in VTypes
  BY EventIs
<1> QED
  BY <1>1, FlagKinds DEF FlagOf

\* The first pipe flag in the queue is that of the first instruction that has not
\* been given one.
LEMMA PipeHit ==
  ASSUME TypeInv, Executed, Rest, NEW p \in Int, caStart <= p, PipesDone(p, 0),
         NEW s \in Slots, Earlier(traceQOut, s, traceQIn), NEW f \in Pipes, f \in q[s].record, f = IF "V0" \in q[s].record THEN "V0" ELSE "V1",
         \A t \in Slots : Earlier(traceQOut, t, s) => q[t].record \cap Pipes = {}
  PROVE  p \in DOMAIN sched /\ f = sched[p].pipe /\ q[s].cycle = sched[p].at
<1> DEFINE c == q[s].cycle
<1>1. PICK i \in DOMAIN sched : FlagOf(i, sched[i], f, c)
  BY HeldFlag
<1>2. <<f, c>> \notin given /\ c \in Int /\ c < CyclesRead /\ CyclesRead \in Int
  BY HeldFlag, CyclesReadType
<1>3. f = sched[i].pipe /\ c = sched[i].at
  BY <1>1, FlagOfKind
<1>4. i \in Int /\ ~ (i < p)
  BY <1>2, <1>3, EventIs DEF PipesDone
<1>5. p \in DOMAIN sched
  BY <1>4, Consecutive
<1>6. CASE i = p
  BY <1>3, <1>5, <1>6
<1>7. CASE i # p
  <2>1. p < i
    BY <1>4, <1>7
  <2> DEFINE d == sched[p].at
             g == sched[p].pipe
  <2>2. Bit(sched[p]) < Bit(sched[i])
    BY <1>5, <2>1 DEF Executed, InOrder
  <2>3. g \in Pipes /\ d \in Int /\ sched[i].pipe \in Pipes /\ sched[i].at \in Int
    BY <1>5, EventIs
  <2>4. d <= c /\ (d = c => g = "V0" /\ f = "V1")
    BY <1>3, <2>2, <2>3, BitsOrdered
  <2>5. <<g, d>> \notin given
    BY <1>5 DEF PipesDone
  <2>6. d < CyclesRead
    BY <1>2, <2>3, <2>4
  <2>7. FlagOf(p, sched[p], g, d)
    BY DEF FlagOf
  <2>8. PICK u \in Slots : Earlier(traceQOut, u, traceQIn) /\ g \in q[u].record /\ d = q[u].cycle
    BY <1>5, <2>5, <2>6, <2>7, HeldAt
  <2>9. ~ Earlier(traceQOut, u, s)
    BY <2>3, <2>8
  <2>10. u = s
    <3>1. q[u].record # {} /\ q[s].record # {}
      BY <2>8
    <3>2. q[u].cycle = q[s].cycle
      BY <1>2, <2>3, <2>4, <2>8, <2>9, <3>1, CycleOrder
    <3> QED
      BY <2>8, <3>1, <3>2, CycleOrder
  <2>11. g = "V0" /\ f = "V1" /\ "V0" \in q[s].record
    BY <2>4, <2>8, <2>10
  <2> QED
    BY <2>11
<1> QED
  BY <1>6, <1>7

\* A flag of a vector unit in the queue is not before that of the instruction that
\* looks for it.
LEMMA NotBefore ==
  ASSUME TypeInv, Executed, Rest, NEW p \in DOMAIN sched, NEW l \in Nat, VectorsDone(p, l),
         NEW a \in 1 .. Len(sched[p].v), l <= a, NEW s \in Slots, Earlier(traceQOut, s, traceQIn),
         GoalAt(p, a) \in q[s].record
  PROVE  sched[p].v[a] <= q[s].cycle
<1> DEFINE f == GoalAt(p, a)
           c == q[s].cycle
<1>1. PICK i \in DOMAIN sched : FlagOf(i, sched[i], f, c)
  BY HeldFlag
<1>2. <<f, c>> \notin given
  BY HeldFlag
<1>3. f \in VTypes
  BY EventIs
<1>4. PICK b \in 1 .. Len(sched[i].v) : f = GoalAt(i, b) /\ c = sched[i].v[b]
  BY <1>1, <1>3, FlagOfKind
<1>5. ~ (i < p)
  BY <1>2, <1>4 DEF VectorsDone
<1>6. i \in Int /\ p \in Int /\ sched[p].v[a] \in Int /\ sched[i].v[b] \in Int
  BY EventIs
<1>7. CASE p < i
  <2>1. InOrder(p, sched[p], i, sched[i])
    BY <1>7 DEF Executed
  <2>2. sched[p].v[a] < sched[i].v[b]
    BY <1>4, <2>1 DEF InOrder
  <2> QED
    BY <1>4, <1>6, <2>2
<1>8. CASE p = i
  <2>1. mode = "VECTOR" /\ Len(sched[p].v) = Len(Goals(TypeAt(p)))
    BY DEF Executed, Event
  <2>2. a = b
    BY <1>4, <1>8, <2>1, GoalsDistinct DEF GoalAt
  <2> QED
    BY <1>4, <1>6, <1>8, <2>2
<1> QED
  BY <1>5, <1>6, <1>7, <1>8

\* The first one in the queue is its own.
LEMMA VectorHit ==
  ASSUME TypeInv, Executed, Rest, NEW p \in DOMAIN sched, NEW a \in 1 .. Len(sched[p].v), VectorsDone(p, a),
         NEW s \in Slots, Earlier(traceQOut, s, traceQIn), GoalAt(p, a) \in q[s].record,
         \A t \in Slots : Earlier(traceQOut, t, s) => GoalAt(p, a) \notin q[t].record
  PROVE  q[s].cycle = sched[p].v[a]
<1> DEFINE f == GoalAt(p, a)
           d == sched[p].v[a]
<1>1. d \in Int /\ p \in Int /\ a \in Nat
  BY EventIs
<1>2. d <= q[s].cycle
  BY <1>1, NotBefore
<1>3. q[s].cycle \in Int /\ q[s].cycle < CyclesRead /\ CyclesRead \in Int
  <2>1. CyclesRead \in Int
    BY CyclesReadType
  <2>2. PICK g : g = f
    OBVIOUS
  <2>3. g \in q[s].record
    BY <2>2
  <2>4. q[s].cycle \in Int /\ q[s].cycle < CyclesRead
    BY <2>3, HeldFlag
  <2> QED
    BY <2>1, <2>4
<1>4. <<f, d>> \notin given
  BY <1>1 DEF VectorsDone
<1>5. FlagOf(p, sched[p], f, d)
  BY DEF FlagOf
<1>6. d < CyclesRead
  BY <1>1, <1>2, <1>3
<1>7. PICK u \in Slots : Earlier(traceQOut, u, traceQIn) /\ f \in q[u].record /\ d = q[u].cycle
  BY <1>4, <1>5, <1>6, HeldAt
<1>8. q[u].record # {} /\ q[s].record # {} /\ ~ Earlier(traceQOut, u, s)
  BY <1>7
<1>9. ~ (q[u].cycle < q[s].cycle)
  BY <1>7, <1>8, CycleOrder
<1> QED
  BY <1>1, <1>2, <1>3, <1>7, <1>9

-----------------------------------------------------------------------------
(* What the call of consume() under way has done.                          *)

(* What it looks for: the pipe, then the goals of a vector instruction.    *)
Wants == IF state = "RUN" /\ mode = "VECTOR" THEN 1 + Len(Goals(TypeAt(n))) ELSE 1
Want(j) == IF j = 1 THEN "PIPE" ELSE GoalAt(n, j - 1)
Calling == goals # << >> \/ got # << >>
GoalsRight ==
  Calling => /\ n <= Len(Path) /\ Len(got) + Len(goals) = Wants
             /\ \A j \in 1 .. Len(goals) : goals[j] = Want(Len(got) + j)

(* The slots before the one where the search goes on hold none.            *)
Clear(g, s) == IF g = "PIPE" THEN q[s].record \cap Pipes = {} ELSE g \notin q[s].record
SearchRight ==
  goals # << >> /\ mode = "VECTOR" =>
    /\ Gap(traceQOut, qStart) <= Gap(traceQOut, traceQIn)
    /\ \A s \in Slots : Earlier(traceQOut, s, qStart) => Clear(goals[1], s)

(* Instruction p is the one that the next flags of the cycle accurate      *)
(* trace belong to.                                                        *)
BitsDone(p, l) ==
  /\ offset <= 2 * WordCycles * BlockWords
  /\ \A i \in DOMAIN sched : Bit(sched[i]) < 2 * BlockStart + offset <=> i < p \/ (i = p /\ 0 < l)
PipesGiven(p) == IF mode = "VECTOR" THEN PipesDone(p, Len(got)) ELSE BitsDone(p, Len(got))
(* What was found are the cycles of event e.                               *)
CyclesOf(e, found) ==
  /\ Len(found) <= 1 + Len(e.v)
  /\ \A j \in 1 .. Len(found) : found[j].cycle = IF j = 1 THEN e.at ELSE e.v[j - 1]
GotRight(p) == got # << >> => p \in DOMAIN sched /\ CyclesOf(sched[p], got)

(* It is run ahead; it is the one traced; the recording has no more; or    *)
(* the instruction trace runs up to it.                                    *)
RunAhead(p) ==
  /\ state = "SYNCCATE" /\ p = caStart + skipped - (IF Calling THEN 1 ELSE 0)
  /\ n = teStart /\ syncCount = 0
  /\ caStart <= teStart => caStart + skipped <= teStart
  /\ NoVectors
Traced(p) == state = "RUN" /\ syncCount = 0 /\ p = n /\ VectorsDone(p, Len(got))
NoMore(p) == state = "RUN" /\ syncCount = 0 /\ (\A i \in DOMAIN sched : i < p) /\ got = << >>
RunUp(p) ==
  /\ state = "RUN" /\ syncCount # 0 /\ p = caStart /\ ~ Calling /\ NoVectors
  /\ caSyncAddr = Path[caStart] /\ teStart <= n /\ caStart # teStart
  /\ teStart < caStart => n <= caStart
Where(p) == caStart <= p /\ (RunAhead(p) \/ Traced(p) \/ NoMore(p) \/ RunUp(p))
Located(p) == Where(p) /\ PipesGiven(p) /\ GotRight(p)

ShownRight ==
  \A k \in DOMAIN shown :
    /\ shown[k].at \in DOMAIN sched /\ IsSequence(shown[k].found)
    /\ Len(shown[k].found) = 1 + Len(sched[shown[k].at].v)
    /\ CyclesOf(sched[shown[k].at], shown[k].found)

Distinct == Alignable /\ ScalarRunAhead
Comparable == lead = 0 /\ Distinct /\ ~ packed
Running == state \in {"SYNCCATE", "RUN"}
Told ==
  /\ ShownRight
  /\ status = "OK" /\ Running => GoalsRight /\ SearchRight /\ \E p \in Int : Located(p)
  /\ status = "OK" /\ ~ Running => ~ Calling
  /\ state = "HW" => shown = << >> /\ skipped = 0 /\ syncCount = 0 /\ n = teStart
OwnInv == Comparable => Told

(* The sequences are sequences.                                            *)
SeqT == n \in Nat /\ n >= 1 /\ IsSequence(goals) /\ IsSequence(got) /\ IsSequence(shown)

-----------------------------------------------------------------------------
\* A sequence is empty or has a first element.
LEMMA HeadAndTail ==
  ASSUME NEW s, IsSequence(s), s # << >>
  PROVE  /\ Len(s) \in Nat /\ Len(s) >= 1 /\ Head(s) = s[1]
         /\ IsSequence(Tail(s)) /\ Len(Tail(s)) = Len(s) - 1
         /\ \A j \in 1 .. Len(s) - 1 : Tail(s)[j] = s[j + 1]
<1>1. PICK S : s \in Seq(S)
  BY DEF IsSequence
<1>2. Len(s) \in Nat /\ Len(s) >= 1 /\ Head(s) = s[1]
  BY <1>1
<1>3. Tail(s) \in Seq(S) /\ Len(Tail(s)) = Len(s) - 1
  BY <1>1
<1>4. \A j \in 1 .. Len(s) - 1 : Tail(s)[j] = s[j + 1]
  BY <1>1
<1> QED
  BY <1>2, <1>3, <1>4 DEF IsSequence

\* What a call sets out to look for.
LEMMA CallIs ==
  ASSUME NEW type, mode \in {"VECTOR", "INSTRUCTION"},
         goals' = IF mode = "VECTOR" THEN <<"PIPE">> \o Goals(type) ELSE <<"PIPE">>
  PROVE  /\ IsSequence(goals') /\ goals' # << >>
         /\ Len(goals') = IF mode = "VECTOR" THEN 1 + Len(Goals(type)) ELSE 1
         /\ goals'[1] = "PIPE"
         /\ \A j \in 2 .. Len(goals') : goals'[j] = Goals(type)[j - 1]
<1> DEFINE G == Goals(type)
           P == <<"PIPE">>
<1>1. IsSequence(P) /\ Len(P) = 1 /\ P[1] = "PIPE"
  <2>1. P \in Seq({"PIPE"})
    OBVIOUS
  <2> QED
    BY <2>1 DEF IsSequence
<1>2. IsSequence(G) /\ Len(G) \in Nat
  BY GoalsType DEF IsSequence
<1> HIDE DEF G, P
<1>3. CASE mode = "VECTOR"
  <2>1. goals' = P \o G
    BY <1>3 DEF G, P
  <2>2. /\ IsSequence(goals') /\ Len(goals') = Len(P) + Len(G)
        /\ \A i \in 1 .. Len(P) : goals'[i] = P[i]
        /\ \A i \in 1 .. Len(G) : goals'[Len(P) + i] = G[i]
    <3>0. IsSequence(P) /\ IsSequence(G)
      BY <1>1, <1>2
    <3>1. IsSequence(P \o G) /\ Len(P \o G) = Len(P) + Len(G)
      BY <3>0, ConcatOfSeqs
    <3>2. \A i \in 1 .. Len(P) : (P \o G)[i] = P[i]
      BY <3>0, ConcatOfSeqs
    <3>3. \A i \in 1 .. Len(G) : (P \o G)[Len(P) + i] = G[i]
      BY <3>0, ConcatOfSeqs
    <3> QED
      BY <2>1, <3>1, <3>2, <3>3, Zenon
  <2>3. goals'[1] = "PIPE" /\ Len(goals') = 1 + Len(G)
    BY <1>1, <2>2
  <2>4. \A j \in 2 .. Len(goals') : goals'[j] = G[j - 1]
    <3> TAKE j \in 2 .. Len(goals')
    <3>1. j - 1 \in 1 .. Len(G) /\ 1 + (j - 1) = j
      BY <1>2, <2>3
    <3> QED
      BY <1>1, <2>2, <3>1
  <2>5. goals' # << >>
    BY <1>2, <2>2, <2>3, EmptyIsSeq
  <2> QED
    BY <1>3, <2>2, <2>3, <2>4, <2>5 DEF G
<1>4. CASE mode # "VECTOR"
  <2>1. goals' = P
    BY <1>4 DEF P
  <2>2. P # << >>
    BY <1>1, EmptyIsSeq
  <2> QED
    BY <1>1, <1>4, <2>1, <2>2
<1> QED
  BY <1>3, <1>4

\* A search takes the first of the goals, or leaves them.
LEMMA InitSeq == Init => SeqT
<1> SUFFICES ASSUME Init PROVE SeqT
  OBVIOUS
<1>1. teStart \in 1 .. Len(Path) /\ n = teStart
  BY InitTypes DEF Init, TypeInv, TraceT
<1>2. goals = << >> /\ got = << >> /\ shown = << >>
  BY DEF Init
<1> QED
  BY <1>1, <1>2, EmptyIsSeq DEF SeqT

LEMMA NextSeq == TypeInv /\ SeqT /\ [Next]_vars => SeqT'
<1> SUFFICES ASSUME TypeInv, SeqT, [Next]_vars PROVE SeqT'
  OBVIOUS
<1> USE DEF SeqT
<1>0. QueueT /\ mode \in {"VECTOR", "INSTRUCTION"}
  BY DEF TypeInv, TraceT
<1>1. CASE UNCHANGED <<n, goals, got, shown>>
  BY <1>1
<1>2. CASE SyncSkip
  <2>1. n' = n /\ shown' = shown /\ got' = << >>
    BY <1>2 DEF SyncSkip, Call
  <2>2. goals' = IF mode = "VECTOR" THEN <<"PIPE">> \o << >> ELSE <<"PIPE">>
    BY <1>2 DEF SyncSkip, Call
  <2>3. Goals("OTHER") = << >>
    BY DEF Goals
  <2>4. goals' = IF mode = "VECTOR" THEN <<"PIPE">> \o Goals("OTHER") ELSE <<"PIPE">>
    BY <2>2, <2>3
  <2>5. IsSequence(goals')
    BY <1>0, <2>4, CallIs
  <2> QED
    BY <2>1, <2>5, EmptyIsSeq
<1>3. CASE Instruction
  <2>1. CASE Aligned /\ Call(Goals(TypeAt(n))) /\ UNCHANGED <<state, n>>
    <3>1. n' = n /\ shown' = shown /\ got' = << >>
      BY <1>3, <2>1 DEF Instruction, Call
    <3>2. goals' = IF mode = "VECTOR" THEN <<"PIPE">> \o Goals(TypeAt(n)) ELSE <<"PIPE">>
      BY <2>1 DEF Call
    <3>3. IsSequence(goals')
      BY <1>0, <3>2, CallIs
    <3> QED
      BY <3>1, <3>3, EmptyIsSeq
  <2>2. CASE ~ Aligned
    BY <1>3, <2>2 DEF Instruction, search
  <2> QED
    BY <1>3, <2>1, <2>2 DEF Instruction
<1>4. CASE consumeCAPipe \/ consumeCAVector \/ consumeCAInstruction
  <2>0. n' = n /\ shown' = shown /\ goals # << >>
    BY <1>4 DEF consumeCAPipe, consumeCAVector, consumeCAInstruction, Busy
  <2>1. UNCHANGED <<goals, got>> \/ (goals' = Tail(goals) /\ \E x : got' = Append(got, x))
    <3>1. CASE consumeCAPipe
      BY <3>1, <1>0, PipeIs DEF Take
    <3>2. CASE consumeCAVector
      BY <3>2, <1>0, VectorIs DEF Take
    <3>3. CASE consumeCAInstruction
      BY <3>3 DEF consumeCAInstruction
    <3> QED
      BY <1>4, <3>1, <3>2, <3>3
  <2>2. CASE UNCHANGED <<goals, got>>
    BY <2>0, <2>2
  <2>3. CASE goals' = Tail(goals) /\ \E x : got' = Append(got, x)
    BY <2>0, <2>3, HeadAndTail, AppendToSeq
  <2> QED
    BY <2>1, <2>2, <2>3
<1>5. CASE Return
  <2>1. goals' = goals /\ got' = << >>
    BY <1>5 DEF Return
  <2>2. (n' = n /\ shown' = shown) \/ (n' = n + 1 /\ \E x : shown' = Append(shown, x))
    BY <1>5 DEF Return
  <2>3. IsSequence(goals') /\ IsSequence(got')
    BY <2>1, EmptyIsSeq
  <2>4. n' \in Nat /\ n' >= 1
    BY <2>2
  <2>5. IsSequence(shown')
    <3>1. CASE shown' = shown
      BY <3>1
    <3>2. ASSUME NEW x, shown' = Append(shown, x) PROVE IsSequence(shown')
      <4>1. IsSequence(Append(shown, x))
        BY AppendToSeq
      <4> QED
        BY <3>2, <4>1
    <3> QED
      BY <2>2, <3>1, <3>2
  <2> QED
    BY <2>3, <2>4, <2>5
<1> QED
  BY <1>1, <1>2, <1>3, <1>4, <1>5 DEF Next, vars, Execute, setCATraceFile, SyncMessage, SyncFound, SyncRewind,
     ReadMore, Stop, NoCall, search

-----------------------------------------------------------------------------
(* The steps of NextInstruction.                                           *)

Ready == TypeInv /\ HwInv /\ QueueInv /\ Executed /\ SeqT /\ Comparable /\ Told

\* Once the traces cannot be compared they stay so.
LEMMA ComparableBefore ==
  ASSUME TypeInv, [Next]_vars, Comparable'
  PROVE  Comparable
<1>1. UNCHANGED <<mode, caStart, teStart, lead>>
  BY DEF Next, vars, trace, Execute, setCATraceFile, SyncMessage, SyncSkip, SyncFound, SyncRewind, Instruction,
     consumeCAPipe, consumeCAVector, consumeCAInstruction, ReadMore, Return, Stop
<1>2. unaligned => unaligned'
  BY DEF Next, vars, sync, Execute, setCATraceFile, SyncMessage, SyncSkip, SyncFound, SyncRewind, Instruction,
     consumeCAPipe, consumeCAVector, consumeCAInstruction, ReadMore, Return, Stop
<1>3. packed => packed'
  BY DEF Next, vars, NoCall, Execute, setCATraceFile, SyncMessage, SyncSkip, SyncFound, SyncRewind, Instruction,
     consumeCAPipe, consumeCAVector, consumeCAInstruction, ReadMore, ReadWord, Return, Stop
<1>4. Distinct' => Distinct
  BY <1>1, <1>2 DEF Distinct, Alignable, ScalarRunAhead, On, TypeAt
<1> QED
  BY <1>1, <1>3, <1>4 DEF Comparable

\* Predicates on the events and what was given.
LEMMA SameEvents ==
  ASSUME UNCHANGED sched, UNCHANGED given
  PROVE  /\ \A p, l : PipesDone(p, l)' <=> PipesDone(p, l)
         /\ \A p, l : VectorsDone(p, l)' <=> VectorsDone(p, l)
         /\ NoVectors' <=> NoVectors
  BY DEF PipesDone, VectorsDone, NoVectors, GoalAt, TypeAt

LEMMA SameShown ==
  ASSUME UNCHANGED <<sched, shown>>, ShownRight
  PROVE  ShownRight'
  BY DEF ShownRight, CyclesOf

\* Nothing is given at the start of the recording.
Started ==
  /\ given = {} => PipesDone(caStart, 0) /\ NoVectors
  /\ NoVectors => VectorsDone(caStart, 0)
  /\ blockRecNum = 0 /\ offset = 0 => BitsDone(caStart, 0)
LEMMA NothingGiven == TypeInv /\ Executed => Started
<1> SUFFICES ASSUME TypeInv, Executed PROVE Started
  OBVIOUS
<1> DEFINE l == 0
<1>0. l = 0
  OBVIOUS
<1> HIDE DEF l
<1>1. \A i \in DOMAIN sched : i \in Int /\ ~ (i < caStart)
  <2>1. PICK m \in Nat : DOMAIN sched = caStart .. caStart + m - 1
    BY DEF Executed
  <2>2. caStart \in Int
    BY DEF TypeInv, TraceT
  <2> QED
    BY <2>1, <2>2
<1>2. given = {} => PipesDone(caStart, l) /\ NoVectors
  BY <1>0, <1>1 DEF PipesDone, NoVectors
<1>3. NoVectors => VectorsDone(caStart, l)
  <2> HAVE NoVectors
  <2>1. ASSUME NEW i \in DOMAIN sched, NEW a \in 1 .. Len(sched[i].v)
        PROVE  <<GoalAt(i, a), sched[i].v[a]>> \in given <=> i < caStart \/ (i = caStart /\ a < l)
    <3>1. ~ (a < l)
      BY <1>0
    <3> QED
      BY <1>1, <3>1 DEF NoVectors
  <2> QED
    BY <2>1 DEF VectorsDone
<1>4. ASSUME blockRecNum = 0, offset = 0 PROVE BitsDone(caStart, l)
  <2>1. BlockStart = 0 /\ WordCycles \in Nat /\ BlockWords \in Nat
    BY <1>4, Sizes DEF BlockStart
  <2>2. 2 * WordCycles * BlockWords \in Nat
    BY <2>1
  <2>3. ASSUME NEW i \in DOMAIN sched PROVE ~ (Bit(sched[i]) < 2 * BlockStart + offset)
    <3>1. sched[i].at \in 0 .. Cycles - 1 /\ Cycles \in Nat
      BY EventIs, Sizes
    <3> QED
      BY <1>4, <2>1, <3>1 DEF Bit
  <2> QED
    BY <1>0, <1>1, <1>4, <2>2, <2>3 DEF BitsDone
<1> QED
  BY <1>0, <1>2, <1>3, <1>4 DEF Started

LEMMA NothingGivenNext == (TypeInv /\ Executed => Started)'
  BY NothingGiven, PTL

LEMMA InitOwn == Init => OwnInv
<1> SUFFICES ASSUME Init PROVE Told
  BY DEF OwnInv
<1>1. goals = << >> /\ got = << >> /\ shown = << >> /\ state = "HW" /\ skipped = 0 /\ syncCount = 0 /\ n = teStart
  BY DEF Init
<1>2. ShownRight
  BY <1>1 DEF ShownRight
<1> QED
  BY <1>1, <1>2 DEF Told, Running, Calling

LEMMA ExecuteOwn ==
  ASSUME Ready, Execute
  PROVE  Told'
<1>1. state = "HW"
  BY DEF Execute
<1>2. UNCHANGED <<state, shown, skipped, syncCount, n, teStart, goals, got>>
  BY DEF Execute, sync, NoCall, search
<1>3. shown = << >> /\ skipped = 0 /\ syncCount = 0 /\ n = teStart /\ status = "OK"
  BY <1>1 DEF Ready, Told, HwInv
<1>4. goals = << >> /\ got = << >>
  BY <1>1, <1>3 DEF Ready, Told, Calling, Running
<1>5. ShownRight'
  BY <1>2, <1>3 DEF ShownRight
<1> QED
  BY <1>1, <1>2, <1>3, <1>4, <1>5 DEF Told, Running, Calling

\* setCATraceFile: the recording begins with its first instruction.
LEMMA SetFileOwn ==
  ASSUME Ready, setCATraceFile
  PROVE  Told'
<1>0. TypeInv /\ Executed /\ ShownRight /\ lead = 0
  BY DEF Ready, Told, Comparable
<1>1. state = "HW"
  BY DEF setCATraceFile
<1>2. UNCHANGED <<shown, skipped, syncCount, n, goals, got, given, trace>>
  BY DEF setCATraceFile, search
<1>3. shown = << >> /\ skipped = 0 /\ syncCount = 0 /\ n = teStart /\ status = "OK" /\ given = {}
  BY <1>1 DEF Ready, Told, HwInv
<1>4. goals = << >> /\ got = << >>
  BY <1>1, <1>3 DEF Ready, Told, Calling, Running
<1>5. UNCHANGED <<sched, caStart, teStart, mode>>
  BY <1>2 DEF trace
<1>6. ShownRight'
  BY <1>0, <1>2, <1>5, SameShown
<1>7. state' \in {"SYNCCATE", "ERROR"}
  BY DEF setCATraceFile
<1>8. ASSUME status' = "OK", state' = "SYNCCATE"
      PROVE  Located(caStart)'
  <2>1. offset' = 0 /\ blockRecNum' = 0
    <3>1. parseNextCATraceRec /\ caBufferIndex = 0
      BY <1>1, <1>0 DEF setCATraceFile, TypeInv, PhaseT
    <3>2. TraceT /\ ReaderT
      BY <1>0 DEF TypeInv
    <3>3. "OK" # "EOF"
      OBVIOUS
    <3> QED
      BY <1>8, <3>1, <3>2, <3>3, ParseIs
  <2>2. TypeInv' /\ Executed'
    BY <1>0, NextTypes, NextExecuted DEF Next
  <2>3. Started'
    BY <2>2, NothingGivenNext
  <2>4. PipesDone(caStart, 0)' /\ NoVectors' /\ BitsDone(caStart, 0)'
    BY <1>2, <1>3, <2>1, <2>3 DEF Started
  <2>5. Len(got') = 0
    BY <1>2, <1>4, EmptyIsSeq
  <2>6. PipesGiven(caStart)'
    BY <2>4, <2>5 DEF PipesGiven
  <2>7. ~ Calling'
    BY <1>2, <1>4 DEF Calling
  <2>8. caStart \in Int /\ teStart \in Int
    BY <1>0 DEF TypeInv, TraceT
  <2>9. RunAhead(caStart)'
    BY <1>2, <1>3, <1>5, <1>8, <2>4, <2>7, <2>8 DEF RunAhead
  <2> QED
    BY <1>2, <1>4, <1>5, <2>6, <2>8, <2>9 DEF Located, Where, GotRight
<1>9. caStart \in Int /\ caStart' = caStart
  BY <1>0, <1>5 DEF TypeInv, TraceT
<1>10. ASSUME status' = "OK", state' = "SYNCCATE"
       PROVE  \E p \in Int : Located(p)'
  BY <1>8, <1>9, <1>10
<1>11. GoalsRight' /\ SearchRight' /\ ~ Calling'
  BY <1>2, <1>4 DEF GoalsRight, SearchRight, Calling
<1> QED
  BY <1>6, <1>7, <1>10, <1>11 DEF Told, Running

\* Where the trace is when it is run ahead.
LEMMA AheadIs ==
  ASSUME Ready, state = "SYNCCATE", status = "OK"
  PROVE  /\ GoalsRight /\ SearchRight
         /\ \E p \in Int : caStart <= p /\ RunAhead(p) /\ PipesGiven(p) /\ GotRight(p)
<1>1. GoalsRight /\ SearchRight /\ \E p \in Int : Located(p)
  BY DEF Ready, Told, Running
<1>2. \A p \in Int : Located(p) => caStart <= p /\ RunAhead(p) /\ PipesGiven(p) /\ GotRight(p)
  BY DEF Located, Where, Traced, NoMore, RunUp
<1> QED
  BY <1>1, <1>2, Zenon

\* And when the instruction trace runs.
LEMMA RunIs ==
  ASSUME Ready, state = "RUN", status = "OK"
  PROVE  /\ GoalsRight /\ SearchRight
         /\ \E p \in Int : /\ caStart <= p /\ (Traced(p) \/ NoMore(p) \/ RunUp(p)) /\ Where(p)
                           /\ PipesGiven(p) /\ GotRight(p)
<1>1. GoalsRight /\ SearchRight /\ \E p \in Int : Located(p)
  BY DEF Ready, Told, Running
<1>2. \A p \in Int : Located(p) => /\ caStart <= p /\ (Traced(p) \/ NoMore(p) \/ RunUp(p)) /\ Where(p)
                                   /\ PipesGiven(p) /\ GotRight(p)
  BY DEF Located, Where, RunAhead
<1> QED
  BY <1>1, <1>2, Zenon

\* What a step that consumes nothing leaves.
LEMMA SamePlace ==
  ASSUME NEW p, PipesGiven(p), UNCHANGED <<mode, sched, given, blockRecNum, offset>>, Len(got') = Len(got)
  PROVE  PipesGiven(p)'
<1>1. PipesDone(p, Len(got))' <=> PipesDone(p, Len(got))
  BY DEF PipesDone
<1>2. BitsDone(p, Len(got))' <=> BitsDone(p, Len(got))
  BY DEF BitsDone, BlockStart, Bit
<1> QED
  BY <1>1, <1>2 DEF PipesGiven

\* Instructions run ahead are taken as scalar, and are.
LEMMA ScalarsDone ==
  ASSUME TypeInv, Executed, Distinct, caStart <= teStart, NoVectors
  PROVE  VectorsDone(teStart, 0)
<1>1. ASSUME NEW i \in DOMAIN sched, NEW a \in 1 .. Len(sched[i].v)
      PROVE  ~ (i < teStart) /\ i \in Int /\ ~ (a < 0) /\ <<GoalAt(i, a), sched[i].v[a]>> \notin given
  <2>1. i \in Int /\ caStart <= i
    BY DEF Executed, TypeInv, TraceT
  <2>2. mode = "VECTOR" /\ Len(sched[i].v) = Len(Goals(TypeAt(i)))
    BY DEF Executed, Event
  <2>3. TypeAt(i) \in VectorTypes
    BY <2>2, GoalsOfScalar
  <2>4. teStart \in Int /\ caStart \in Int
    BY DEF TypeInv, TraceT
  <2>5. ~ (i < teStart)
    <3> SUFFICES ASSUME i < teStart PROVE FALSE
      OBVIOUS
    <3>1. i \in caStart .. teStart - 1
      BY <2>1, <2>4
    <3> QED
      BY <2>2, <2>3, <3>1 DEF Distinct, Alignable, ScalarRunAhead
  <2> QED
    BY <2>1, <2>5 DEF NoVectors
<1> QED
  BY <1>1 DEF VectorsDone

\* The address run ahead to is on the path.
LEMMA AheadOnPath ==
  ASSUME TypeInv, Comparable, RunAheadRight, state = "SYNCCATE", caSyncAddr = Path[teStart],
         caStart <= teStart => caStart + skipped <= teStart
  PROVE  /\ caStart <= teStart => caStart + skipped = teStart
         /\ ~ (caStart <= teStart) => Len(Path) < caStart + skipped
<1>1. /\ caStart \in Int /\ teStart \in Int /\ skipped \in Nat /\ Len(Path) \in Nat /\ teStart <= Len(Path)
      /\ 1 <= caStart
  BY CATraceAssumption, Sizes DEF TypeInv, TraceT, ControlT
<1>2. caStart + skipped <= Len(Path) => caSyncAddr = Path[caStart + skipped]
  BY DEF RunAheadRight, Comparable
<1>3. ASSUME caStart <= teStart PROVE caStart + skipped = teStart
  <2> SUFFICES ASSUME caStart + skipped # teStart PROVE FALSE
    OBVIOUS
  <2>1. caStart + skipped \in caStart .. teStart - 1
    BY <1>1, <1>3
  <2>2. caSyncAddr = Path[caStart + skipped]
    BY <1>1, <1>2, <2>1
  <2>3. Path[teStart] \notin On(caStart, teStart - 1)
    BY <1>3 DEF Comparable, Distinct, Alignable, ScalarRunAhead
  <2> QED
    BY <2>1, <2>2, <2>3 DEF On
<1>4. ASSUME ~ (caStart <= teStart) PROVE Len(Path) < caStart + skipped
  <2> SUFFICES ASSUME caStart + skipped <= Len(Path) PROVE FALSE
    BY <1>1
  <2>1. caStart + skipped \in caStart .. Len(Path)
    BY <1>1
  <2>2. Path[teStart] \notin On(caStart, Len(Path))
    BY <1>4 DEF Comparable, Distinct, Alignable, ScalarRunAhead
  <2> QED
    BY <1>2, <2>1, <2>2 DEF On
<1> QED
  BY <1>3, <1>4

\* A message before the alignment: the traces have to begin together.
LEMMA MessageOwn ==
  ASSUME Ready, SyncMessage, Distinct'
  PROVE  Told'
<1>0. TypeInv /\ Executed /\ ShownRight
  BY DEF Ready, Told
<1>1. state = "SYNCCATE" /\ goals = << >> /\ got = << >> /\ status = "OK" /\ skipped = 0
  BY DEF SyncMessage, Idle
<1>2. /\ UNCHANGED <<shown, n, syncCount, goals, got, given, blockRecNum, offset>>
      /\ UNCHANGED <<sched, mode, caStart, teStart>>
  BY DEF SyncMessage, NoCall, search, reader, trace
<1>3. state' = "ERROR" \/ (state' = "RUN" /\ unaligned' = TRUE)
  BY DEF SyncMessage
<1>4. ShownRight'
  BY <1>0, <1>2, SameShown
<1>5. GoalsRight' /\ SearchRight' /\ ~ Calling' /\ ~ Calling
  BY <1>1, <1>2 DEF GoalsRight, SearchRight, Calling
<1>6. ASSUME state' = "RUN" PROVE \E p \in Int : Located(p)'
  <2>1. PICK p \in Int : caStart <= p /\ RunAhead(p) /\ PipesGiven(p) /\ GotRight(p)
    BY <1>1, AheadIs
  <2>2. caStart = teStart
    BY <1>2, <1>3, <1>6 DEF Distinct, Alignable, ScalarRunAhead
  <2>3. caStart \in Int
    BY <1>0 DEF TypeInv, TraceT
  <2>4. p = caStart /\ n = teStart /\ syncCount = 0 /\ NoVectors
    BY <1>1, <1>5, <2>1, <2>3 DEF RunAhead
  <2>5. VectorsDone(p, 0)'
    <3>1. VectorsDone(p, 0)
      BY <1>0, <2>4, NothingGiven DEF Started
    <3> QED
      BY <1>2, <3>1, SameEvents
  <2>6. PipesGiven(p)'
    BY <1>2, <2>1, SamePlace
  <2>7. Traced(p)'
    BY <1>1, <1>2, <1>6, <2>2, <2>4, <2>5, EmptyIsSeq DEF Traced
  <2>8. Located(p)'
    BY <1>1, <1>2, <2>1, <2>6, <2>7 DEF Located, Where, GotRight
  <2> QED
    BY <2>8
<1> QED
  BY <1>3, <1>4, <1>5, <1>6 DEF Told, Running

\* One instruction more is run ahead.
LEMMA SkipOwn ==
  ASSUME Ready, RunAheadRight, SyncSkip
  PROVE  Told'
<1>0. TypeInv /\ Executed /\ ShownRight /\ SeqT /\ Comparable
  BY DEF Ready, Told
<1>1. /\ state = "SYNCCATE" /\ goals = << >> /\ got = << >> /\ status = "OK"
      /\ caSyncAddr # Path[teStart]
  BY DEF SyncSkip, Idle
<1>2. /\ UNCHANGED <<state, status, shown, n, syncCount, given, blockRecNum, offset, q, traceQIn, traceQOut>>
      /\ UNCHANGED <<sched, mode, caStart, teStart>>
      /\ skipped' = skipped + 1 /\ got' = << >> /\ qStart' = traceQOut
  BY DEF SyncSkip, Call, reader, trace, queue
<1>3. goals' = IF mode = "VECTOR" THEN <<"PIPE">> \o Goals("OTHER") ELSE <<"PIPE">>
  <2>1. Goals("OTHER") = << >>
    BY DEF Goals
  <2> QED
    BY <2>1 DEF SyncSkip, Call
<1>4. IsSequence(goals') /\ goals' # << >> /\ Len(goals') = 1 /\ goals'[1] = "PIPE"
  <2>1. mode \in {"VECTOR", "INSTRUCTION"}
    BY <1>0 DEF TypeInv, TraceT
  <2>2. /\ IsSequence(goals') /\ goals' # << >> /\ goals'[1] = "PIPE"
        /\ Len(goals') = IF mode = "VECTOR" THEN 1 + Len(Goals("OTHER")) ELSE 1
    BY <1>3, <2>1, CallIs
  <2>3. Len(Goals("OTHER")) = 0
    BY EmptyIsSeq DEF Goals
  <2> QED
    BY <2>2, <2>3
<1>5. PICK p \in Int : caStart <= p /\ RunAhead(p) /\ PipesGiven(p) /\ GotRight(p)
  BY <1>1, AheadIs
<1>6. /\ caStart \in Int /\ teStart \in Int /\ skipped \in Nat /\ Len(Path) \in Nat /\ teStart <= Len(Path)
      /\ traceQOut \in Slots /\ traceQIn \in Slots
  BY <1>0, CATraceAssumption, Sizes DEF TypeInv, TraceT, ControlT, QueueT
<1>7. Len(got') = 0 /\ Len(got) = 0
  BY <1>1, <1>2, EmptyIsSeq
<1>8. ShownRight'
  BY <1>0, <1>2, SameShown
<1>9. p = caStart + skipped /\ n = teStart /\ syncCount = 0 /\ NoVectors /\ (caStart <= teStart => caStart + skipped <= teStart)
  BY <1>1, <1>5, <1>6 DEF RunAhead, Calling
<1>10. Calling'
  BY <1>4 DEF Calling
<1>11. GoalsRight'
  <2>1. Wants' = 1
    BY <1>1, <1>2 DEF Wants
  <2>2. \A j \in 1 .. Len(goals') : goals'[j] = Want(Len(got) + j)'
    BY <1>4, <1>7 DEF Want
  <2> QED
    BY <1>2, <1>4, <1>6, <1>7, <1>9, <2>1, <2>2 DEF GoalsRight
<1>12. SearchRight'
  <2>1. Gap(traceQOut, traceQOut) = 0
    BY <1>6, GapIs DEF Slots
  <2>2. \A s \in Slots : Gap(traceQOut, s) \in Nat
    BY <1>6, GapType
  <2> QED
    BY <1>2, <1>6, <2>1, <2>2 DEF SearchRight, Earlier
<1>13. RunAhead(p)'
  <2>1. caStart <= teStart => caStart + skipped + 1 <= teStart
    <3> SUFFICES ASSUME caStart <= teStart, ~ (caStart + skipped + 1 <= teStart) PROVE FALSE
      OBVIOUS
    <3>1. caStart + skipped = teStart
      BY <1>6, <1>9
    <3>2. caSyncAddr = Path[teStart]
      BY <1>0, <1>1, <1>6, <3>1 DEF RunAheadRight, Comparable
    <3> QED
      BY <1>1, <3>2
  <2>2. NoVectors'
    BY <1>2, <1>9, SameEvents
  <2> QED
    BY <1>1, <1>2, <1>6, <1>9, <1>10, <2>1, <2>2 DEF RunAhead
<1>14. PipesGiven(p)'
  BY <1>2, <1>5, <1>7, SamePlace
<1>15. Located(p)'
  BY <1>2, <1>5, <1>13, <1>14 DEF Located, Where, GotRight
<1> QED
  BY <1>1, <1>2, <1>8, <1>11, <1>12, <1>15 DEF Told, Running

\* The addresses meet.
LEMMA FoundOwn ==
  ASSUME Ready, RunAheadRight, SyncFound
  PROVE  Told'
<1>0. TypeInv /\ Executed /\ ShownRight /\ Comparable /\ Distinct
  BY DEF Ready, Told, Comparable
<1>1. /\ state = "SYNCCATE" /\ goals = << >> /\ got = << >> /\ status = "OK"
      /\ caSyncAddr = Path[teStart]
  BY DEF SyncFound, Idle
<1>2. /\ UNCHANGED <<shown, n, syncCount, goals, got, given, blockRecNum, offset, status>>
      /\ UNCHANGED <<sched, mode, caStart, teStart>> /\ state' = "RUN"
  BY DEF SyncFound, NoCall, search, reader, trace, sync
<1>3. PICK p \in Int : caStart <= p /\ RunAhead(p) /\ PipesGiven(p) /\ GotRight(p)
  BY <1>1, AheadIs
<1>4. /\ caStart \in Int /\ teStart \in Int /\ skipped \in Nat /\ Len(Path) \in Nat
  BY <1>0, CATraceAssumption, Sizes DEF TypeInv, TraceT, ControlT
<1>5. p = caStart + skipped /\ n = teStart /\ syncCount = 0 /\ NoVectors /\ (caStart <= teStart => caStart + skipped <= teStart)
  BY <1>1, <1>3, <1>4 DEF RunAhead, Calling
<1>6. /\ caStart <= teStart => caStart + skipped = teStart
      /\ ~ (caStart <= teStart) => Len(Path) < caStart + skipped
  BY <1>0, <1>1, <1>5, AheadOnPath
<1>7. ShownRight'
  BY <1>0, <1>2, SameShown
<1>8. GoalsRight' /\ SearchRight' /\ ~ Calling'
  BY <1>1, <1>2 DEF GoalsRight, SearchRight, Calling
<1>9. PipesGiven(p)'
  BY <1>2, <1>3, SamePlace
<1>10. Traced(p)' \/ NoMore(p)'
  <2>1. CASE caStart <= teStart
    <3>1. VectorsDone(p, 0)
      BY <1>0, <1>5, <1>6, <2>1, ScalarsDone
    <3>2. VectorsDone(p, 0)'
      BY <1>2, <3>1, SameEvents
    <3> QED
      BY <1>1, <1>2, <1>5, <1>6, <2>1, <3>2, EmptyIsSeq DEF Traced
  <2>2. CASE ~ (caStart <= teStart)
    <3>1. \A i \in DOMAIN sched : i < p
      <4> TAKE i \in DOMAIN sched
      <4>1. i \in 1 .. Len(Path)
        BY <1>0, EventIs
      <4> QED
        BY <1>4, <1>5, <1>6, <2>2, <4>1
    <3> QED
      BY <1>1, <1>2, <1>5, <3>1 DEF NoMore
  <2> QED
    BY <2>1, <2>2
<1>11. Located(p)'
  BY <1>1, <1>2, <1>3, <1>9, <1>10 DEF Located, Where, GotRight
<1> QED
  BY <1>2, <1>7, <1>8, <1>11 DEF Told, Running

\* They do not: the recording begins again.
LEMMA RewindOwn ==
  ASSUME Ready, RunAheadRight, SyncRewind
  PROVE  Told'
<1>0. TypeInv /\ Executed /\ ShownRight /\ Comparable /\ lead = 0
  BY DEF Ready, Told, Comparable
<1>1. /\ state = "SYNCCATE" /\ goals = << >> /\ got = << >> /\ status = "OK"
      /\ caSyncAddr # Path[teStart]
  BY DEF SyncRewind, Idle
<1>2. /\ UNCHANGED <<shown, n, goals, got, status>>
      /\ UNCHANGED <<sched, mode, caStart, teStart>> /\ state' = "RUN"
      /\ given' = {} /\ blockRecNum' = 0 /\ offset' = 0 /\ syncCount' = MaxRun /\ caSyncAddr' = StartAddr(FirstWord)
  BY DEF SyncRewind, rewind, search, trace
<1>3. PICK p \in Int : caStart <= p /\ RunAhead(p) /\ PipesGiven(p) /\ GotRight(p)
  BY <1>1, AheadIs
<1>4. /\ caStart \in Int /\ teStart \in Int /\ skipped \in Nat /\ Len(Path) \in Nat /\ teStart <= Len(Path)
      /\ lead \in 0 .. BlockWords - 1
  BY <1>0, CATraceAssumption, Sizes DEF TypeInv, TraceT, ControlT
<1>5. n = teStart /\ (caStart <= teStart => caStart + skipped <= teStart)
  BY <1>3 DEF RunAhead
<1>6. caStart # teStart
  <2> SUFFICES ASSUME caStart = teStart PROVE FALSE
    OBVIOUS
  <2>1. caStart + skipped = teStart
    BY <1>4, <1>5
  <2>2. caSyncAddr = Path[teStart]
    BY <1>0, <1>1, <1>4, <2>1 DEF RunAheadRight
  <2> QED
    BY <1>1, <2>2
<1>7. caSyncAddr' = Path[caStart]
  <2>1. FirstWord = 1
    BY <1>4, FirstWordIs
  <2>2. Mark(1) = 3
    <3>1. 0 % BlockWords = 0
      BY Sizes
    <3> QED
      BY <1>0, <3>1 DEF Mark
  <2> QED
    BY <1>2, <2>1, <2>2 DEF StartAddr
<1>8. ShownRight'
  BY <1>0, <1>2, SameShown
<1>9. GoalsRight' /\ SearchRight' /\ ~ Calling'
  BY <1>1, <1>2 DEF GoalsRight, SearchRight, Calling
<1>10. PipesDone(caStart, 0)' /\ NoVectors' /\ BitsDone(caStart, 0)'
  <2>1. TypeInv' /\ Executed'
    BY <1>0, NextTypes, NextExecuted DEF Next
  <2>2. Started'
    BY <2>1, NothingGivenNext
  <2> QED
    BY <1>2, <2>2 DEF Started
<1>11. Len(got') = 0
  BY <1>1, <1>2, EmptyIsSeq
<1>12. PipesGiven(caStart)'
  BY <1>10, <1>11 DEF PipesGiven
<1>13. RunUp(caStart)'
  <2>1. MaxRun # 0
    BY CATraceAssumption
  <2> QED
    BY <1>2, <1>4, <1>5, <1>6, <1>7, <1>9, <1>10, <2>1 DEF RunUp
<1>14. Located(caStart)'
  BY <1>1, <1>2, <1>4, <1>12, <1>13 DEF Located, Where, GotRight
<1>15. \E x \in Int : Located(x)'
  BY <1>2, <1>4, <1>14
<1> QED
  BY <1>2, <1>8, <1>9, <1>15 DEF Told, Running

\* An instruction looks for its flags, or the trace runs up to the recording.
LEMMA InstructionOwn ==
  ASSUME Ready, Instruction
  PROVE  Told'
<1>0. TypeInv /\ Executed /\ ShownRight /\ SeqT /\ Comparable /\ Distinct
  BY DEF Ready, Told, Comparable
<1>1. state = "RUN" /\ goals = << >> /\ got = << >> /\ status = "OK" /\ n <= Len(Path)
  BY DEF Instruction, Idle
<1>2. /\ UNCHANGED <<shown, given, blockRecNum, offset, q, traceQIn, traceQOut, status, caSyncAddr>>
      /\ UNCHANGED <<sched, mode, caStart, teStart>>
  BY DEF Instruction, reader, trace, queue
<1>3. PICK p \in Int : /\ caStart <= p /\ (Traced(p) \/ NoMore(p) \/ RunUp(p)) /\ Where(p)
                       /\ PipesGiven(p) /\ GotRight(p)
  BY <1>1, RunIs
<1>4. /\ caStart \in Int /\ teStart \in Int /\ Len(Path) \in Nat /\ n \in Int /\ syncCount \in Nat
      /\ traceQOut \in Slots /\ traceQIn \in Slots /\ mode \in {"VECTOR", "INSTRUCTION"}
  BY <1>0, CATraceAssumption, Sizes DEF TypeInv, TraceT, ControlT, QueueT, SeqT
<1>5. ShownRight'
  BY <1>0, <1>2, SameShown
<1>6. Len(got) = 0
  BY <1>1, EmptyIsSeq
<1>7. RunUp(p) => /\ Path[n] = Path[caStart] => teStart < caStart /\ n = caStart
                  /\ caSyncAddr = Path[caStart]
  <2> SUFFICES ASSUME RunUp(p), Path[n] = Path[caStart] PROVE teStart < caStart /\ n = caStart
    BY DEF RunUp
  <2>1. teStart <= n /\ caStart # teStart /\ (teStart < caStart => n <= caStart)
    BY DEF RunUp
  <2>2. CASE caStart < teStart
    <3>1. n \in teStart .. Len(Path)
      BY <1>1, <1>4, <2>1
    <3>2. Path[caStart] \notin On(teStart, Len(Path))
      BY <1>0, <1>4, <2>2 DEF Distinct, Alignable, ScalarRunAhead
    <3> QED
      BY <3>1, <3>2 DEF On
  <2>3. CASE teStart < caStart
    <3>1. Path[caStart] \notin On(teStart, caStart - 1)
      BY <1>0, <1>4, <2>3 DEF Distinct, Alignable, ScalarRunAhead
    <3>2. n \notin teStart .. caStart - 1
      BY <3>1 DEF On
    <3> QED
      BY <1>4, <2>1, <2>3, <3>2
  <2> QED
    BY <1>4, <2>1, <2>2, <2>3
<1>8. CASE Aligned /\ syncCount' = 0 /\ Call(Goals(TypeAt(n))) /\ UNCHANGED <<state, n>>
  <2>1. n' = n /\ state' = state /\ got' = << >> /\ qStart' = traceQOut /\ syncCount' = 0
    BY <1>8 DEF Call
  <2>2. /\ IsSequence(goals') /\ goals' # << >> /\ goals'[1] = "PIPE"
        /\ Len(goals') = IF mode = "VECTOR" THEN 1 + Len(Goals(TypeAt(n))) ELSE 1
        /\ \A j \in 2 .. Len(goals') : goals'[j] = Goals(TypeAt(n))[j - 1]
    <3>1. goals' = IF mode = "VECTOR" THEN <<"PIPE">> \o Goals(TypeAt(n)) ELSE <<"PIPE">>
      BY <1>8 DEF Call
    <3> QED
      BY <1>4, <3>1, CallIs
  <2>3. Len(got') = 0
    BY <2>1, EmptyIsSeq
  <2>4. GoalsRight'
    <3>1. Wants' = Len(goals')
      BY <1>1, <1>2, <2>1, <2>2 DEF Wants, TypeAt
    <3>2. Len(goals') \in Nat
      BY <2>2, SeqIsFunction
    <3>3. \A j \in 1 .. Len(goals') : goals'[j] = IF j = 1 THEN "PIPE" ELSE GoalAt(n, j - 1)
      BY <2>2, <3>2 DEF GoalAt
    <3>4. \A j \in 1 .. Len(goals') : goals'[j] = Want(Len(got) + j)'
      BY <2>1, <2>3, <3>2, <3>3 DEF Want, GoalAt, TypeAt
    <3> QED
      BY <1>1, <2>1, <2>3, <3>1, <3>2, <3>4 DEF GoalsRight
  <2>5. SearchRight'
    <3>1. Gap(traceQOut, traceQOut) = 0
      BY <1>4, GapIs DEF Slots
    <3>2. \A s \in Slots : Gap(traceQOut, s) \in Nat
      BY <1>4, GapType
    <3> QED
      BY <1>2, <1>4, <2>1, <3>1, <3>2 DEF SearchRight, Earlier
  <2>6. PipesGiven(p)'
    BY <1>2, <1>3, <1>6, <2>3, SamePlace
  <2>7. Traced(p)' \/ NoMore(p)'
    <3>1. CASE Traced(p)
      <4>1. VectorsDone(p, 0) /\ p = n
        BY <1>6, <3>1 DEF Traced
      <4>2. VectorsDone(p, 0)'
        BY <1>2, <4>1, SameEvents
      <4> QED
        BY <1>1, <2>1, <2>3, <4>1, <4>2 DEF Traced
    <3>2. CASE NoMore(p)
      BY <1>1, <1>2, <2>1, <3>2 DEF NoMore
    <3>3. CASE RunUp(p)
      <4>1. n = caStart /\ p = caStart /\ NoVectors
        BY <1>7, <1>8, <3>3 DEF Aligned, RunUp
      <4>2. VectorsDone(p, 0)
        BY <1>0, <4>1, NothingGiven DEF Started
      <4>3. VectorsDone(p, 0)'
        BY <1>2, <4>2, SameEvents
      <4> QED
        BY <1>1, <2>1, <2>3, <4>1, <4>3 DEF Traced
    <3> QED
      BY <1>3, <3>1, <3>2, <3>3
  <2>8. Located(p)'
    BY <1>2, <1>3, <2>1, <2>6, <2>7 DEF Located, Where, GotRight
  <2> QED
    BY <1>1, <1>5, <2>1, <2>4, <2>5, <2>8 DEF Told, Running
<1>9. CASE ~ Aligned
  <2>1. /\ syncCount' = syncCount - 1 /\ UNCHANGED <<goals, got>>
        /\ state' = IF syncCount = 1 THEN "ERROR" ELSE state
        /\ n' = IF syncCount = 1 THEN n ELSE n + 1
    BY <1>9 DEF Instruction, search
  <2>2. GoalsRight' /\ SearchRight' /\ ~ Calling'
    BY <1>1, <2>1 DEF GoalsRight, SearchRight, Calling
  <2>3. ASSUME state' = "RUN" PROVE Located(p)'
    <3>1. syncCount # 1 /\ syncCount # 0 /\ caSyncAddr # Path[n]
      BY <1>9, <2>1, <2>3 DEF Aligned
    <3>2. RunUp(p)
      BY <1>3, <3>1 DEF Traced, NoMore
    <3>3. n # caStart
      BY <1>7, <3>1, <3>2
    <3>4. PipesGiven(p)'
      BY <1>2, <1>3, <2>1, SamePlace
    <3>5. NoVectors'
      BY <1>2, <3>2, SameEvents DEF RunUp
    <3>6. n' = n + 1 /\ syncCount' # 0
      BY <1>4, <2>1, <3>1
    <3>7. teStart <= n /\ (teStart < caStart => n <= caStart) /\ p = caStart /\ caSyncAddr = Path[caStart] /\ caStart # teStart
      BY <3>2 DEF RunUp
    <3>8. teStart' <= n' /\ (teStart' < caStart' => n' <= caStart')
      BY <1>2, <1>4, <3>3, <3>6, <3>7
    <3>9. RunUp(p)'
      BY <1>2, <2>2, <2>3, <3>5, <3>6, <3>7, <3>8 DEF RunUp
    <3> QED
      BY <1>1, <1>2, <1>3, <2>1, <3>4, <3>9 DEF Located, Where, GotRight
  <2> QED
    BY <1>1, <1>5, <2>1, <2>2, <2>3 DEF Told, Running
<1> QED
  BY <1>8, <1>9 DEF Instruction

\* The trace ends.
LEMMA StopOwn ==
  ASSUME Ready, Stop
  PROVE  Told'
<1>0. ShownRight
  BY DEF Ready, Told
<1>1. UNCHANGED <<sched, shown, status, goals, got>> /\ state' \in {"DONE", "ERROR"}
  BY DEF Stop, NoCall, search, trace
<1>2. ShownRight'
  BY <1>0, <1>1, SameShown
<1>3. status' = "OK" => ~ Calling'
  BY <1>1 DEF Stop, Idle, Calling
<1> QED
  BY <1>1, <1>2, <1>3 DEF Told, Running

\* A step of something else.
LEMMA StutterOwn ==
  ASSUME Ready, UNCHANGED vars
  PROVE  Told'
<1>0. Told
  BY DEF Ready
<1>1. /\ UNCHANGED <<mode, caStart, teStart, lead, flags, sched, q, traceQIn, traceQOut, caBufferIndex, blockRecNum, offset>>
      /\ UNCHANGED <<status, state, caSyncAddr, savedAddr, skipped, syncCount, unaligned, n>>
      /\ UNCHANGED <<goals, qStart, depth0, got, shown, given, packed>>
  BY DEF vars, trace, queue, reader, sync, search
<1>2. ShownRight' <=> ShownRight
  BY <1>1 DEF ShownRight, CyclesOf
<1>3. (GoalsRight' <=> GoalsRight) /\ (Calling' <=> Calling)
  BY <1>1 DEF GoalsRight, Calling, Wants, Want, GoalAt, TypeAt
<1>4. SearchRight' <=> SearchRight
  BY <1>1 DEF SearchRight, Clear, Earlier, Gap
<1>5. \A p \in Int : Located(p) => Located(p)'
  <2> TAKE p \in Int
  <2> HAVE Located(p)
  <2>1. PipesGiven(p)'
    BY <1>1, SamePlace DEF Located
  <2>2. GotRight(p)'
    BY <1>1 DEF Located, GotRight, CyclesOf
  <2>3. (\A x, l : VectorsDone(x, l)' <=> VectorsDone(x, l)) /\ (NoVectors' <=> NoVectors)
    BY <1>1, SameEvents
  <2>4. Where(p)'
    <3>1. CASE RunAhead(p)
      BY <1>1, <1>3, <2>3, <3>1 DEF Located, Where, RunAhead
    <3>2. CASE Traced(p)
      BY <1>1, <2>3, <3>2 DEF Located, Where, Traced
    <3>3. CASE NoMore(p)
      BY <1>1, <3>3 DEF Located, Where, NoMore
    <3>4. CASE RunUp(p)
      BY <1>1, <1>3, <2>3, <3>4 DEF Located, Where, RunUp
    <3> QED
      BY <3>1, <3>2, <3>3, <3>4 DEF Located, Where
  <2> QED
    BY <2>1, <2>2, <2>4 DEF Located
<1> QED
  BY <1>0, <1>1, <1>2, <1>3, <1>4, <1>5 DEF Told, Running

\* consume() returns, and the next flags are those of the next instruction.
LEMMA NextPlace ==
  ASSUME NEW p \in Int, Executed, PipesGiven(p), UNCHANGED <<mode, sched, given, blockRecNum, offset>>,
         Len(got) \in Nat, Len(got) > 0, Len(got') = 0
  PROVE  PipesGiven(p + 1)'
<1>1. \A i \in DOMAIN sched : i \in Int
  BY EventIs
<1>2. \A i \in DOMAIN sched : (i < p \/ (i = p /\ 0 < Len(got))) <=> (i < p + 1 \/ (i = p + 1 /\ 0 < Len(got')))
  BY <1>1
<1>3. CASE mode = "VECTOR"
  <2>1. \A i \in DOMAIN sched : <<sched[i].pipe, sched[i].at>> \in given <=> i < p + 1 \/ (i = p + 1 /\ 0 < Len(got'))
    BY <1>2, <1>3 DEF PipesGiven, PipesDone
  <2> QED
    BY <1>3, <2>1 DEF PipesGiven, PipesDone
<1>4. CASE mode # "VECTOR"
  <2>1. /\ offset <= 2 * WordCycles * BlockWords
        /\ \A i \in DOMAIN sched : Bit(sched[i]) < 2 * BlockStart + offset <=> i < p + 1 \/ (i = p + 1 /\ 0 < Len(got'))
    BY <1>2, <1>4 DEF PipesGiven, BitsDone
  <2>2. BlockStart' = BlockStart /\ \A i : Bit(sched[i])' = Bit(sched[i])
    BY DEF BlockStart, Bit
  <2> QED
    BY <1>4, <2>1, <2>2 DEF PipesGiven, BitsDone
<1> QED
  BY <1>3, <1>4

LEMMA ReturnOwn ==
  ASSUME Ready, Return
  PROVE  Told'
<1>0. TypeInv /\ Executed /\ ShownRight /\ SeqT /\ Told
  BY DEF Ready, Told
<1>1. goals = << >> /\ got # << >> /\ status = "OK" /\ Calling
  BY DEF Return, Calling
<1>2. /\ UNCHANGED <<given, blockRecNum, offset, status, state, goals, skipped, syncCount>>
      /\ UNCHANGED <<sched, mode, caStart, teStart>> /\ got' = << >>
  BY DEF Return, reader, trace, sync
<1>3. Running
  BY <1>0, <1>1 DEF Told
<1>4. Len(got) \in Nat /\ Len(got) > 0 /\ Len(got') = 0 /\ Len(goals) = 0
  <2>1. Len(got) \in Nat /\ Len(got) # 0
    BY <1>0, <1>1, SeqIsFunction, EmptyOrNot DEF SeqT
  <2>2. Len(got') = 0 /\ Len(goals) = 0
    BY <1>1, <1>2, EmptyIsSeq
  <2> QED
    BY <2>1, <2>2
<1>5. GoalsRight' /\ SearchRight' /\ ~ Calling'
  BY <1>1, <1>2 DEF GoalsRight, SearchRight, Calling
<1>6. caStart \in Int /\ skipped \in Int /\ n \in Int
  BY <1>0 DEF TypeInv, TraceT, ControlT, SeqT
<1>7. CASE state = "SYNCCATE"
  <2>1. n' = n /\ shown' = shown
    BY <1>7 DEF Return
  <2>2. PICK p \in Int : caStart <= p /\ RunAhead(p) /\ PipesGiven(p) /\ GotRight(p)
    BY <1>1, <1>7, AheadIs
  <2>3. PipesGiven(p + 1)'
    BY <1>0, <1>2, <1>4, <2>2, NextPlace
  <2>4. RunAhead(p + 1)'
    <3>1. NoVectors'
      BY <1>2, <2>2, SameEvents DEF RunAhead
    <3>2. p = caStart + skipped - 1
      BY <1>1, <2>2 DEF RunAhead
    <3>3. p + 1 = caStart + skipped - 0
      BY <1>6, <3>2
    <3> QED
      BY <1>2, <1>5, <2>1, <2>2, <3>1, <3>3 DEF RunAhead
  <2>5. Located(p + 1)' /\ p + 1 \in Int
    BY <1>2, <1>6, <2>2, <2>3, <2>4 DEF Located, Where, GotRight
  <2>6. \E x \in Int : Located(x)'
    BY <2>5
  <2>7. ShownRight'
    BY <1>0, <1>2, <2>1, SameShown
  <2> QED
    BY <1>2, <1>5, <1>7, <2>6, <2>7 DEF Told, Running
<1>8. CASE state = "RUN"
  <2>1. n' = n + 1 /\ shown' = Append(shown, [at |-> n, found |-> got])
    BY <1>8 DEF Return
  <2>2. PICK p \in Int : /\ caStart <= p /\ (Traced(p) \/ NoMore(p) \/ RunUp(p)) /\ Where(p)
                         /\ PipesGiven(p) /\ GotRight(p)
    BY <1>1, <1>8, RunIs
  <2>3. Traced(p)
    BY <1>1, <2>2 DEF NoMore, RunUp
  <2>4. p = n /\ syncCount = 0 /\ VectorsDone(p, Len(got)) /\ p \in DOMAIN sched /\ CyclesOf(sched[p], got)
    BY <1>1, <2>2, <2>3 DEF Traced, GotRight
  <2>5. Len(got) = 1 + Len(sched[p].v)
    <3>1. Len(got) = Wants /\ Len(got) + 0 = Len(got)
      BY <1>1, <1>4, <1>8, RunIs DEF GoalsRight
    <3>2. Len(sched[p].v) = IF mode = "VECTOR" THEN Len(Goals(TypeAt(p))) ELSE 0
      BY <1>0, <2>4 DEF Executed, Event
    <3> QED
      BY <1>8, <2>4, <3>1, <3>2 DEF Wants
  <2>6. PipesGiven(p + 1)'
    BY <1>0, <1>2, <1>4, <2>2, NextPlace
  <2>7. VectorsDone(p + 1, 0)'
    <3>1. ASSUME NEW i \in DOMAIN sched, NEW a \in 1 .. Len(sched[i].v)
          PROVE  <<GoalAt(i, a), sched[i].v[a]>> \in given <=> i < p + 1 \/ (i = p + 1 /\ a < 0)
      <4>1. i \in Int /\ Len(sched[i].v) \in Nat
        BY <1>0, EventIs
      <4>2. <<GoalAt(i, a), sched[i].v[a]>> \in given <=> i < p \/ (i = p /\ a < Len(got))
        BY <2>4 DEF VectorsDone
      <4>3. i = p => a < Len(got)
        BY <2>5, <4>1
      <4> QED
        BY <4>1, <4>2, <4>3
    <3>2. VectorsDone(p + 1, 0)
      BY <3>1 DEF VectorsDone
    <3> QED
      BY <1>2, <3>2, SameEvents
  <2>8. Located(p + 1)' /\ p + 1 \in Int
    <3>1. Traced(p + 1)'
      BY <1>2, <1>4, <1>8, <2>1, <2>4, <2>7 DEF Traced
    <3> QED
      BY <1>2, <1>6, <2>2, <2>6, <3>1 DEF Located, Where, GotRight
  <2>9. \E x \in Int : Located(x)'
    BY <2>8
  <2>10. ShownRight'
    <3> DEFINE x == [at |-> n, found |-> got]
    <3>1. x.at = n /\ x.found = got
      OBVIOUS
    <3> HIDE DEF x
    <3>2. IsSequence(shown) /\ IsSequence(got)
      BY <1>0 DEF SeqT
    <3>3. shown' = Append(shown, x)
      BY <2>1 DEF x
    <3>4. /\ Len(shown) \in Nat /\ DOMAIN shown = 1 .. Len(shown)
      BY <3>2, SeqIsFunction
    <3>5. /\ IsSequence(Append(shown, x)) /\ Len(Append(shown, x)) = Len(shown) + 1
          /\ \A i \in 1 .. Len(shown) : Append(shown, x)[i] = shown[i]
          /\ Append(shown, x)[Len(shown) + 1] = x
      BY <3>2, AppendToSeq
    <3>6. DOMAIN shown' = 1 .. Len(shown) + 1
      BY <3>3, <3>5, SeqIsFunction
    <3>7. ASSUME NEW k \in DOMAIN shown'
          PROVE  /\ shown'[k].at \in DOMAIN sched /\ IsSequence(shown'[k].found)
                 /\ Len(shown'[k].found) = 1 + Len(sched[shown'[k].at].v)
                 /\ CyclesOf(sched[shown'[k].at], shown'[k].found)
      <4>1. CASE k \in 1 .. Len(shown)
        <5>1. shown'[k] = shown[k]
          BY <3>3, <3>5, <4>1
        <5> QED
          BY <1>0, <3>4, <4>1, <5>1 DEF ShownRight
      <4>2. CASE k = Len(shown) + 1
        <5>1. shown'[k] = x
          BY <3>3, <3>5, <4>2
        <5> QED
          BY <2>4, <2>5, <3>1, <3>2, <5>1
      <4> QED
        BY <3>4, <3>6, <4>1, <4>2
    <3>8. sched' = sched
      BY <1>2
    <3> QED
      BY <3>7, <3>8 DEF ShownRight, CyclesOf
  <2> QED
    BY <1>2, <1>5, <1>8, <2>9, <2>10 DEF Told, Running
<1> QED
  BY <1>3, <1>7, <1>8 DEF Running

-----------------------------------------------------------------------------
(* The searches.                                                           *)

\* What is looked for next.
LEMMA GoalIs ==
  ASSUME SeqT, GoalsRight, goals # << >>
  PROVE  /\ Len(got) \in Nat /\ Len(goals) \in Nat /\ Len(goals) >= 1 /\ Head(goals) = goals[1]
         /\ IF Len(got) = 0 THEN goals[1] = "PIPE"
            ELSE /\ state = "RUN" /\ mode = "VECTOR" /\ Len(got) \in 1 .. Len(Goals(TypeAt(n)))
                 /\ goals[1] = GoalAt(n, Len(got)) /\ goals[1] \in VTypes /\ goals[1] \notin Pipes /\ goals[1] # "PIPE"
<1>1. Len(got) \in Nat /\ Len(goals) \in Nat /\ Len(goals) >= 1 /\ Head(goals) = goals[1]
  BY SeqIsFunction, HeadAndTail DEF SeqT
<1>2. goals[1] = Want(Len(got) + 1) /\ Len(got) + Len(goals) = Wants
  BY <1>1 DEF GoalsRight, Calling
<1>3. CASE Len(got) = 0
  BY <1>1, <1>2, <1>3 DEF Want
<1>4. CASE Len(got) # 0
  <2>1. Wants > 1
    BY <1>1, <1>2, <1>4
  <2>2. Len(Goals(TypeAt(n))) \in Nat /\ DOMAIN Goals(TypeAt(n)) = 1 .. Len(Goals(TypeAt(n)))
    BY GoalsType
  <2>3. state = "RUN" /\ mode = "VECTOR" /\ Wants = 1 + Len(Goals(TypeAt(n)))
    BY <2>1 DEF Wants
  <2>4. Len(got) \in 1 .. Len(Goals(TypeAt(n)))
    BY <1>1, <1>2, <1>4, <2>2, <2>3
  <2>5. goals[1] = GoalAt(n, Len(got))
    BY <1>1, <1>2, <1>4 DEF Want
  <2>6. GoalAt(n, Len(got)) \in VTypes
    BY <2>2, <2>4, GoalsType DEF GoalAt
  <2> QED
    BY <1>1, <1>4, <2>3, <2>4, <2>5, <2>6, FlagKinds
<1> QED
  BY <1>1, <1>3, <1>4

LEMMA GoalNext ==
  (SeqT /\ GoalsRight /\ goals # << >> =>
     IF Len(got) = 0 THEN goals[1] = "PIPE"
     ELSE /\ state = "RUN" /\ Len(got) \in 1 .. Len(Goals(TypeAt(n)))
          /\ goals[1] = GoalAt(n, Len(got)) /\ goals[1] # "PIPE")'
<1>1. SeqT /\ GoalsRight /\ goals # << >> =>
        IF Len(got) = 0 THEN goals[1] = "PIPE"
        ELSE /\ state = "RUN" /\ Len(got) \in 1 .. Len(Goals(TypeAt(n)))
             /\ goals[1] = GoalAt(n, Len(got)) /\ goals[1] # "PIPE"
  BY GoalIs
<1> QED
  BY <1>1, PTL

\* A flag was found.
LEMMA FoundGoals ==
  ASSUME SeqT, GoalsRight, goals # << >>, NEW x, goals' = Tail(goals), got' = Append(got, x),
         UNCHANGED <<n, state, mode>>
  PROVE  /\ GoalsRight' /\ Len(got') = Len(got) + 1 /\ got' # << >> /\ got'[Len(got) + 1] = x
         /\ \A j \in 1 .. Len(got) : got'[j] = got[j]
<1>1. /\ Len(goals) \in Nat /\ Len(goals) >= 1 /\ IsSequence(goals') /\ Len(goals') = Len(goals) - 1
      /\ \A j \in 1 .. Len(goals) - 1 : goals'[j] = goals[j + 1]
  BY HeadAndTail DEF SeqT
<1>2. /\ Len(got') = Len(got) + 1 /\ got' # << >> /\ got'[Len(got) + 1] = x
      /\ \A j \in 1 .. Len(got) : got'[j] = got[j]
  BY AppendToSeq DEF SeqT
<1>3. Len(got) \in Nat
  BY SeqIsFunction DEF SeqT
<1>4. /\ n <= Len(Path) /\ Len(got) + Len(goals) = Wants
      /\ \A j \in 1 .. Len(goals) : goals[j] = Want(Len(got) + j)
  BY DEF GoalsRight, Calling
<1>5. Wants' = Wants /\ \A j : Want(j)' = Want(j)
  BY DEF Wants, Want, GoalAt, TypeAt
<1>6. \A j \in 1 .. Len(goals') : goals'[j] = Want(Len(got) + (j + 1))
  BY <1>1, <1>4
<1>7. \A j \in 1 .. Len(goals') : goals'[j] = Want(Len(got') + j)
  <2> TAKE j \in 1 .. Len(goals')
  <2>1. Len(got) + (j + 1) = Len(got') + j
    BY <1>1, <1>2, <1>3
  <2> QED
    BY <1>6, <2>1
<1>8. Len(got') + Len(goals') = Wants
  BY <1>1, <1>2, <1>3, <1>4
<1>9. \A j \in 1 .. Len(goals') : goals'[j] = Want(Len(got) + j)'
  BY <1>5, <1>7
<1>10. GoalsRight'
  BY <1>4, <1>5, <1>8, <1>9 DEF GoalsRight
<1> QED
  BY <1>2, <1>10

\* What was passed for one flag need not be looked at for the next.
LEMMA NextClear ==
  ASSUME TypeInv, Executed, Rest, NEW p \in DOMAIN sched, NEW l \in Nat, VectorsDone(p, l),
         NEW a \in 1 .. Len(sched[p].v), l <= a, NEW s \in Slots, q[s].record # {},
         Earlier(traceQOut, s, traceQIn), NEW t \in Slots,
         \/ Earlier(traceQOut, t, s) /\ q[s].cycle <= sched[p].v[a]
         \/ t = s /\ q[s].cycle < sched[p].v[a]
  PROVE  GoalAt(p, a) \notin q[t].record
<1> SUFFICES ASSUME GoalAt(p, a) \in q[t].record PROVE FALSE
  OBVIOUS
<1>4. Earlier(traceQOut, t, traceQIn)
  <2>1. Gap(traceQOut, t) \in Nat /\ Gap(traceQOut, s) \in Nat /\ Gap(traceQOut, traceQIn) \in Nat
    BY GapType DEF TypeInv, QueueT
  <2> QED
    BY <2>1 DEF Earlier
<1>1. sched[p].v[a] <= q[t].cycle
  BY <1>4, NotBefore
<1>2. q[s].cycle \in Int /\ q[t].cycle \in Int /\ sched[p].v[a] \in Int
  <2>1. sched[p].v[a] \in Int
    BY EventIs
  <2>2. q[s].cycle \in Int /\ q[t].cycle \in Int
    BY DEF TypeInv, QueueT, Entry
  <2> QED
    BY <2>1, <2>2
<1>3. Earlier(traceQOut, t, s) => q[t].cycle < q[s].cycle
  BY <1>4, CycleOrder
<1> QED
  BY <1>1, <1>2, <1>3

\* The queue during a search.
LEMMA RestIs ==
  ASSUME Ready, mode = "VECTOR", status = "OK"
  PROVE  Rest
  BY DEF Ready, Comparable, QueueInv, Rest

\* What the flags of instruction p are once one more is given.
LEMMA GivenPipe ==
  ASSUME Executed, NEW p \in DOMAIN sched, PipesDone(p, 0), UNCHANGED sched,
         given' = given \cup {<<sched[p].pipe, sched[p].at>>}
  PROVE  /\ PipesDone(p, 1)' /\ (NoVectors => NoVectors')
         /\ VectorsDone(p, 0) => VectorsDone(p, 1)'
<1>1. p \in Int /\ sched[p].pipe \in Pipes
  BY EventIs
<1>2. ASSUME NEW i \in DOMAIN sched
      PROVE  <<sched[i].pipe, sched[i].at>> \in given' <=> i < p \/ (i = p /\ 0 < 1)
  <2>1. <<sched[i].pipe, sched[i].at>> = <<sched[p].pipe, sched[p].at>> <=> i = p
    BY PipeUnique
  <2>2. <<sched[i].pipe, sched[i].at>> \in given <=> i < p
    BY DEF PipesDone
  <2> QED
    BY <2>1, <2>2
<1>3. ASSUME NEW i \in DOMAIN sched, NEW a \in 1 .. Len(sched[i].v)
      PROVE  /\ <<GoalAt(i, a), sched[i].v[a]>> \in given' <=> <<GoalAt(i, a), sched[i].v[a]>> \in given
             /\ ~ (a < 0) /\ ~ (a < 1)
  <2>1. GoalAt(i, a) \in VTypes
    BY EventIs
  <2> QED
    BY <1>1, <2>1, FlagKinds
<1>4. PipesDone(p, 1)'
  BY <1>2 DEF PipesDone
<1>5. NoVectors => NoVectors'
  BY <1>3 DEF NoVectors, GoalAt, TypeAt
<1>6. VectorsDone(p, 0) => VectorsDone(p, 1)'
  <2> HAVE VectorsDone(p, 0)
  <2>1. ASSUME NEW i \in DOMAIN sched, NEW a \in 1 .. Len(sched[i].v)
        PROVE  <<GoalAt(i, a), sched[i].v[a]>> \in given' <=> i < p \/ (i = p /\ a < 1)
    BY <1>3 DEF VectorsDone
  <2> QED
    BY <2>1 DEF VectorsDone, GoalAt, TypeAt
<1> QED
  BY <1>4, <1>5, <1>6

LEMMA GivenVector ==
  ASSUME Executed, NEW p \in DOMAIN sched, NEW l \in 1 .. Len(sched[p].v), VectorsDone(p, l), UNCHANGED sched,
         given' = given \cup {<<GoalAt(p, l), sched[p].v[l]>>}
  PROVE  VectorsDone(p, l + 1)' /\ (PipesDone(p, l) => PipesDone(p, l + 1)')
<1>1. p \in Int /\ GoalAt(p, l) \in VTypes /\ Len(sched[p].v) \in Nat
  BY EventIs
<1>2. ASSUME NEW i \in DOMAIN sched, NEW a \in 1 .. Len(sched[i].v)
      PROVE  <<GoalAt(i, a), sched[i].v[a]>> \in given' <=> i < p \/ (i = p /\ a < l + 1)
  <2>1. <<GoalAt(i, a), sched[i].v[a]>> = <<GoalAt(p, l), sched[p].v[l]>> <=> i = p /\ a = l
    BY VectorUnique
  <2>2. <<GoalAt(i, a), sched[i].v[a]>> \in given <=> i < p \/ (i = p /\ a < l)
    BY DEF VectorsDone
  <2>3. a \in Int /\ l \in Int
    BY <1>1
  <2>4. a < l + 1 <=> a < l \/ a = l
    BY <2>3
  <2>5. i = p => ~ (i < p)
    BY <1>1
  <2> QED
    BY <2>1, <2>2, <2>4, <2>5
<1>3. VectorsDone(p, l + 1)'
  BY <1>2 DEF VectorsDone, GoalAt, TypeAt
<1>4. PipesDone(p, l) => PipesDone(p, l + 1)'
  <2> HAVE PipesDone(p, l)
  <2>1. ASSUME NEW i \in DOMAIN sched
        PROVE  <<sched[i].pipe, sched[i].at>> \in given' <=> i < p \/ (i = p /\ 0 < l + 1)
    <3>1. sched[i].pipe \in Pipes
      BY EventIs
    <3>2. <<sched[i].pipe, sched[i].at>> \in given' <=> <<sched[i].pipe, sched[i].at>> \in given
      BY <1>1, <3>1, FlagKinds
    <3>3. 0 < l /\ 0 < l + 1
      BY <1>1
    <3> QED
      BY <3>2, <3>3 DEF PipesDone
  <2> QED
    BY <2>1 DEF PipesDone
<1> QED
  BY <1>3, <1>4

\* consumeCAPipe: the flag found is that of instruction p.
LEMMA PipeOwn ==
  ASSUME Ready, consumeCAPipe
  PROVE  Told'
<1>0. TypeInv /\ Executed /\ ShownRight /\ SeqT /\ Told /\ QueueT
  BY DEF Ready, Told, TypeInv
<1>1. goals # << >> /\ status = "OK" /\ mode = "VECTOR" /\ Head(goals) = "PIPE" /\ Calling
  BY DEF consumeCAPipe, Busy, Calling
<1>2. /\ UNCHANGED <<traceQIn, traceQOut, blockRecNum, offset, status, state, skipped, syncCount, n, shown>>
      /\ UNCHANGED <<sched, mode, caStart, teStart>>
  BY DEF consumeCAPipe, reader, trace, sync
<1>3. Running /\ GoalsRight /\ SearchRight
  BY <1>0, <1>1 DEF Told
<1>4. PICK p \in Int : Located(p)
  BY <1>0, <1>1, <1>3 DEF Told
<1>5. Len(got) = 0 /\ goals[1] = "PIPE" /\ got = << >>
  <2>1. Len(got) = 0 /\ goals[1] = "PIPE"
    BY <1>0, <1>1, <1>3, GoalIs
  <2> QED
    BY <1>0, <2>1, EmptyOrNot DEF SeqT
<1>6. traceQOut \in Slots /\ traceQIn \in Slots /\ qStart \in Slots
  BY <1>0 DEF QueueT
<1>7. /\ Gap(traceQOut, qStart) <= Gap(traceQOut, traceQIn)
      /\ \A t \in Slots : Earlier(traceQOut, t, qStart) => q[t].record \cap Pipes = {}
  BY <1>1, <1>3, <1>5 DEF SearchRight, Clear
<1>8. ShownRight'
  BY <1>0, <1>2, SameShown
<1>9. ~ RunUp(p) /\ caStart <= p
  BY <1>1, <1>4 DEF RunUp, Located, Where
<1>10. CASE /\ \A t \in Slots : Earlier(qStart, t, traceQIn) => q[t].record \cap Pipes = {}
            /\ qStart' = traceQIn /\ UNCHANGED <<q, given, goals, depth0, got>>
  <2>1. GoalsRight' /\ (Calling' <=> Calling)
    BY <1>2, <1>3, <1>10 DEF GoalsRight, Calling, Wants, Want, GoalAt, TypeAt
  <2>2. \A t \in Slots : Earlier(traceQOut, t, traceQIn) => q[t].record \cap Pipes = {}
    BY <1>6, <1>7, <1>10, Passed
  <2>3. SearchRight'
    <3>1. Gap(traceQOut, traceQIn) <= Gap(traceQOut, traceQIn)
      BY <1>6, GapType
    <3> QED
      BY <1>2, <1>5, <1>10, <2>2, <3>1 DEF SearchRight, Clear, Earlier, Gap
  <2>4. PipesGiven(p)'
    BY <1>2, <1>4, <1>10, SamePlace DEF Located
  <2>5. (\A x, l : VectorsDone(x, l)' <=> VectorsDone(x, l)) /\ (NoVectors' <=> NoVectors)
    BY <1>2, <1>10, SameEvents
  <2>6. Where(p)'
    <3>1. CASE RunAhead(p)
      BY <1>2, <1>9, <2>1, <2>5, <3>1 DEF Where, RunAhead
    <3>2. CASE Traced(p)
      BY <1>2, <1>9, <1>10, <2>5, <3>2 DEF Where, Traced
    <3>3. CASE NoMore(p)
      BY <1>2, <1>9, <1>10, <3>3 DEF Where, NoMore
    <3> QED
      BY <1>4, <1>9, <3>1, <3>2, <3>3 DEF Located, Where
  <2>7. Located(p)'
    BY <1>5, <1>10, <2>4, <2>6 DEF Located, GotRight
  <2> QED
    BY <1>2, <1>3, <1>8, <2>1, <2>3, <2>7 DEF Told, Running
<1>11. ASSUME NEW s \in Slots, NEW f \in Pipes,
              /\ Earlier(qStart, s, traceQIn) /\ f \in q[s].record
              /\ f = IF "V0" \in q[s].record THEN "V0" ELSE "V1"
              /\ \A t \in Slots : Earlier(qStart, t, s) => q[t].record \cap Pipes = {}
              /\ Take(s, f, q) /\ qStart' = s
              /\ got' = Append(got, [cycle |-> q[s].cycle, depth |-> NoDepth])
       PROVE  Told'
  <2>1. Rest
    BY <1>1, RestIs
  <2>2. \A t \in Slots : Earlier(traceQOut, t, s) => q[t].record \cap Pipes = {}
    BY <1>6, <1>7, <1>11, Passed
  <2>3. Earlier(traceQOut, s, traceQIn)
    BY <1>6, <1>7, <1>11, Passed
  <2>4. PipesDone(p, 0)
    BY <1>1, <1>4, <1>5 DEF Located, PipesGiven
  <2>5. p \in DOMAIN sched /\ f = sched[p].pipe /\ q[s].cycle = sched[p].at
    <3>1. f \in q[s].record /\ f = IF "V0" \in q[s].record THEN "V0" ELSE "V1"
      BY <1>11
    <3> QED
      BY <1>0, <1>9, <2>1, <2>2, <2>3, <2>4, <3>1, PipeHit
  <2>6. given' = given \cup {<<sched[p].pipe, sched[p].at>>} /\ goals' = Tail(goals)
    BY <1>11, <2>5 DEF Take
  <2>7. /\ PipesDone(p, 1)' /\ (NoVectors => NoVectors')
        /\ VectorsDone(p, 0) => VectorsDone(p, 1)'
    BY <1>0, <1>2, <2>4, <2>5, <2>6, GivenPipe
  <2> DEFINE r == [cycle |-> q[s].cycle, depth |-> NoDepth]
  <2>8. r.cycle = sched[p].at
    BY <2>5
  <2>9. got' = Append(got, r)
    BY <1>11
  <2> HIDE DEF r
  <2>10. /\ GoalsRight' /\ Len(got') = 1 /\ got' # << >> /\ got'[1] = r
    <3>1. /\ GoalsRight' /\ Len(got') = Len(got) + 1 /\ got' # << >> /\ got'[Len(got) + 1] = r
      BY <1>0, <1>1, <1>2, <1>3, <2>6, <2>9, FoundGoals
    <3> QED
      BY <1>5, <3>1
  <2>11. Calling'
    BY <2>10 DEF Calling
  <2>12. PipesGiven(p)'
    BY <1>1, <1>2, <2>7, <2>10 DEF PipesGiven
  <2>13. GotRight(p)'
    <3>1. Len(sched[p].v) \in Nat
      BY <1>0, <2>5, EventIs
    <3>2. CyclesOf(sched[p], got')
      BY <2>8, <2>10, <3>1 DEF CyclesOf
    <3> QED
      BY <1>2, <2>5, <3>2 DEF GotRight, CyclesOf
  <2>14. RunAhead(p)' \/ Traced(p)'
    <3>1. CASE RunAhead(p)
      BY <1>1, <1>2, <2>7, <2>11, <3>1 DEF RunAhead
    <3>2. CASE Traced(p)
      BY <1>2, <1>5, <2>7, <2>10, <3>2 DEF Traced
    <3>3. ~ NoMore(p)
      <4>1. ~ (p < p)
        OBVIOUS
      <4> QED
        BY <2>5, <4>1 DEF NoMore
    <3> QED
      BY <1>4, <1>9, <3>1, <3>2, <3>3 DEF Located, Where
  <2>15. Located(p)'
    BY <1>2, <1>9, <2>12, <2>13, <2>14 DEF Located, Where
  <2>16. SearchRight'
    <3> SUFFICES ASSUME goals' # << >>
                 PROVE  /\ Gap(traceQOut, s) <= Gap(traceQOut, traceQIn)
                        /\ \A t \in Slots : Earlier(traceQOut, t, s) => Clear(goals[1], t)'
      BY <1>2, <1>11 DEF SearchRight, Earlier, Gap
    <3>1. Gap(traceQOut, s) <= Gap(traceQOut, traceQIn)
      <4>1. Gap(traceQOut, s) \in Nat /\ Gap(traceQOut, traceQIn) \in Nat
        BY <1>6, GapType
      <4> QED
        BY <2>3, <4>1 DEF Earlier
    <3>2. /\ state = "RUN" /\ 1 \in 1 .. Len(Goals(TypeAt(n)))
          /\ goals'[1] = GoalAt(n, 1) /\ goals'[1] # "PIPE"
      <4>1. SeqT'
        BY <1>0, NextSeq DEF Next
      <4>2. (SeqT /\ GoalsRight /\ goals # << >> =>
               IF Len(got) = 0 THEN goals[1] = "PIPE"
               ELSE /\ state = "RUN" /\ Len(got) \in 1 .. Len(Goals(TypeAt(n)))
                    /\ goals[1] = GoalAt(n, Len(got)) /\ goals[1] # "PIPE")'
        BY GoalNext
      <4>3. Len(got') = 1 /\ n' = n /\ state' = state
        BY <1>2, <2>10
      <4> QED
        BY <2>10, <4>1, <4>2, <4>3 DEF GoalAt, TypeAt
    <3>3. Traced(p) /\ p = n
      BY <1>4, <1>9, <2>5, <3>2 DEF Located, Where, RunAhead, Traced, NoMore
    <3>4. VectorsDone(p, 0)
      BY <1>5, <3>3 DEF Traced
    <3>5. 1 \in 1 .. Len(sched[p].v) /\ q[s].cycle <= sched[p].v[1]
      <4>1. Event(p, sched[p])
        BY <1>0, <2>5 DEF Executed
      <4>2. 1 \in 1 .. Len(sched[p].v)
        BY <1>1, <3>2, <3>3, <4>1 DEF Event
      <4> QED
        BY <2>5, <4>1, <4>2 DEF Event
    <3>6. ASSUME NEW t \in Slots, Earlier(traceQOut, t, s) PROVE GoalAt(p, 1) \notin q'[t].record
      <4>1. q[s].record # {}
        BY <1>11
      <4>2. GoalAt(p, 1) \notin q[t].record
        BY <1>0, <2>1, <2>3, <2>5, <3>4, <3>5, <3>6, <4>1, NextClear
      <4>3. Took(q, q', s, f)
        BY <1>0, <1>11, TakeIs DEF QueueT
      <4> QED
        BY <4>2, <4>3 DEF Took
    <3> QED
      BY <3>1, <3>2, <3>3, <3>6 DEF Clear
  <2> QED
    BY <1>2, <1>3, <1>8, <2>10, <2>15, <2>16 DEF Told, Running
<1> QED
  BY <1>0, <1>10, <1>11, PipeIs

\* consumeCAVector: the flag found is that of the instruction traced.
LEMMA VectorOwn ==
  ASSUME Ready, consumeCAVector
  PROVE  Told'
<1>0. TypeInv /\ Executed /\ ShownRight /\ SeqT /\ Told /\ QueueT
  BY DEF Ready, Told, TypeInv
<1>1. goals # << >> /\ status = "OK" /\ Head(goals) \in VTypes /\ Calling
  BY DEF consumeCAVector, Busy, Calling
<1>2. /\ UNCHANGED <<traceQIn, traceQOut, blockRecNum, offset, status, state, skipped, syncCount, n, shown>>
      /\ UNCHANGED <<sched, mode, caStart, teStart>>
  BY DEF consumeCAVector, reader, trace, sync
<1>3. Running /\ GoalsRight /\ SearchRight
  BY <1>0, <1>1 DEF Told
<1>4. PICK p \in Int : Located(p)
  BY <1>0, <1>1, <1>3 DEF Told
<1> DEFINE f == Head(goals)
<1>l. PICK l \in Nat : l = Len(got)
  BY <1>0, SeqIsFunction DEF SeqT
<1>5. /\ l \in Nat /\ l # 0 /\ state = "RUN" /\ mode = "VECTOR" /\ l \in 1 .. Len(Goals(TypeAt(n)))
      /\ f = GoalAt(n, l) /\ f = goals[1] /\ f # "PIPE"
  <2>1. "PIPE" \notin VTypes
    BY FlagKinds
  <2> QED
    BY <1>0, <1>1, <1>3, <1>l, <2>1, GoalIs
<1>6. traceQOut \in Slots /\ traceQIn \in Slots /\ qStart \in Slots
  BY <1>0 DEF QueueT
<1>7. /\ Gap(traceQOut, qStart) <= Gap(traceQOut, traceQIn)
      /\ \A t \in Slots : Earlier(traceQOut, t, qStart) => f \notin q[t].record
  BY <1>1, <1>3, <1>5 DEF SearchRight, Clear
<1>8. ShownRight'
  BY <1>0, <1>2, SameShown
<1>9. got # << >>
  BY <1>5, <1>l, EmptyIsSeq
<1>10. /\ Traced(p) /\ caStart <= p /\ p = n /\ VectorsDone(p, l) /\ PipesDone(p, l)
       /\ p \in DOMAIN sched /\ CyclesOf(sched[p], got)
  BY <1>1, <1>4, <1>5, <1>9, <1>l DEF Located, Where, RunAhead, NoMore, RunUp, Traced, PipesGiven, GotRight
<1>11. Event(p, sched[p]) /\ Len(sched[p].v) = Len(Goals(TypeAt(n))) /\ l \in 1 .. Len(sched[p].v)
  BY <1>0, <1>5, <1>10 DEF Executed, Event
<1> HIDE DEF f
<1>12. PICK b \in Slots : \E c \in [Slots -> Entry] :
         /\ Earlier(qStart, b, traceQIn) /\ CountedTo(c, f, qStart, b)
         /\ \A t \in Slots : Earlier(qStart, t, b) => f \notin q[t].record
         /\ qStart' = Up(b, 1)
         /\ \/ /\ f \notin q[b].record /\ Gap(qStart, b) + 1 = Gap(qStart, traceQIn)
               /\ q' = c /\ UNCHANGED <<given, goals, got>>
            \/ /\ f \in q[b].record /\ Take(b, f, c)
               /\ \E d : got' = Append(got, [cycle |-> q[b].cycle, depth |-> d])
  BY <1>0, VectorIs DEF f
<1>13. PICK c \in [Slots -> Entry] :
         /\ Earlier(qStart, b, traceQIn) /\ CountedTo(c, f, qStart, b)
         /\ \A t \in Slots : Earlier(qStart, t, b) => f \notin q[t].record
         /\ qStart' = Up(b, 1)
         /\ \/ /\ f \notin q[b].record /\ Gap(qStart, b) + 1 = Gap(qStart, traceQIn)
               /\ q' = c /\ UNCHANGED <<given, goals, got>>
            \/ /\ f \in q[b].record /\ Take(b, f, c)
               /\ \E d : got' = Append(got, [cycle |-> q[b].cycle, depth |-> d])
  BY <1>12
<1>14. /\ Earlier(traceQOut, b, traceQIn)
       /\ \A t \in Slots : Earlier(traceQOut, t, b) => f \notin q[t].record
  BY <1>6, <1>7, <1>13, Passed
<1>15. /\ qStart' \in Slots /\ Gap(traceQOut, qStart') = Gap(traceQOut, b) + 1
       /\ Gap(traceQOut, qStart') <= Gap(traceQOut, traceQIn)
  <2>1. Gap(traceQOut, b) \in Nat /\ Gap(traceQOut, traceQIn) \in Nat /\ Gap(traceQOut, traceQIn) < QSize /\ QSize \in Nat
    BY <1>6, GapType, Sizes
  <2>2. Gap(traceQOut, b) + 1 < QSize
    BY <1>14, <2>1 DEF Earlier
  <2>3. qStart' \in Slots /\ Gap(traceQOut, qStart') = Gap(traceQOut, b) + 1
    BY <1>6, <1>13, <2>2, UpFrom
  <2> QED
    BY <1>14, <2>1, <2>3 DEF Earlier
<1>16. \A t \in Slots : Earlier(traceQOut, t, qStart') => t = b \/ Earlier(traceQOut, t, b)
  <2> TAKE t \in Slots
  <2> HAVE Earlier(traceQOut, t, qStart')
  <2>1. Gap(traceQOut, b) \in Nat /\ Gap(traceQOut, t) \in Nat
    BY <1>6, GapType
  <2>2. Gap(traceQOut, t) < Gap(traceQOut, b) + 1
    BY <1>15 DEF Earlier
  <2>3. CASE Gap(traceQOut, t) = Gap(traceQOut, b)
    BY <1>6, <2>3, GapInjective
  <2> QED
    BY <2>1, <2>2, <2>3 DEF Earlier
<1>17. CASE f \notin q[b].record /\ q' = c /\ UNCHANGED <<given, goals, got>>
  <2>1. GoalsRight' /\ (Calling' <=> Calling)
    BY <1>2, <1>3, <1>17 DEF GoalsRight, Calling, Wants, Want, GoalAt, TypeAt
  <2>2. \A t \in Slots : Earlier(traceQOut, t, qStart') => f \notin q'[t].record
    BY <1>13, <1>14, <1>16, <1>17 DEF CountedTo
  <2>3. SearchRight'
    BY <1>2, <1>5, <1>15, <1>17, <2>2 DEF SearchRight, Clear, Earlier, Gap
  <2>4. PipesGiven(p)'
    BY <1>2, <1>4, <1>17, SamePlace DEF Located
  <2>5. VectorsDone(p, l)'
    BY <1>2, <1>10, <1>17, SameEvents
  <2>6. Traced(p)'
    BY <1>2, <1>10, <1>17, <1>l, <2>5 DEF Traced
  <2>7. Located(p)'
    BY <1>2, <1>10, <1>17, <2>4, <2>6 DEF Located, Where, GotRight, CyclesOf
  <2> QED
    BY <1>2, <1>3, <1>8, <2>1, <2>3, <2>7 DEF Told, Running
<1>18. ASSUME NEW d, f \in q[b].record, Take(b, f, c), got' = Append(got, [cycle |-> q[b].cycle, depth |-> d])
       PROVE  Told'
  <2>1. Rest
    BY <1>1, <1>5, RestIs
  <2>2. f = GoalAt(p, l)
    BY <1>5, <1>10
  <2>3. q[b].cycle = sched[p].v[l]
    BY <1>0, <1>10, <1>11, <1>14, <1>18, <2>1, <2>2, VectorHit
  <2>4. given' = given \cup {<<GoalAt(p, l), sched[p].v[l]>>} /\ goals' = Tail(goals)
    BY <1>18, <2>2, <2>3 DEF Take
  <2>5. VectorsDone(p, l + 1)' /\ PipesDone(p, l + 1)'
    BY <1>0, <1>2, <1>10, <1>11, <2>4, GivenVector
  <2> DEFINE r == [cycle |-> q[b].cycle, depth |-> d]
  <2>6. r.cycle = sched[p].v[l] /\ got' = Append(got, r)
    BY <1>18, <2>3
  <2> HIDE DEF r
  <2>7. /\ GoalsRight' /\ Len(got') = l + 1 /\ got' # << >> /\ got'[l + 1] = r
        /\ \A j \in 1 .. l : got'[j] = got[j]
    BY <1>0, <1>1, <1>2, <1>3, <1>l, <2>4, <2>6, FoundGoals
  <2>8. Traced(p)'
    BY <1>2, <1>10, <2>5, <2>7 DEF Traced
  <2>9. CyclesOf(sched[p], got')
    <3>1. l \in Nat /\ l # 0 /\ Len(sched[p].v) \in Nat
      BY <1>0, <1>5, <1>10, EventIs
    <3>2. \A j \in 1 .. l : got[j].cycle = IF j = 1 THEN sched[p].at ELSE sched[p].v[j - 1]
      BY <1>10, <1>l DEF CyclesOf
    <3>3. ASSUME NEW j \in 1 .. l + 1 PROVE got'[j].cycle = IF j = 1 THEN sched[p].at ELSE sched[p].v[j - 1]
      <4>1. CASE j \in 1 .. l
        BY <2>7, <3>2, <4>1
      <4>2. CASE j = l + 1
        <5>1. j # 1 /\ j - 1 = l
          BY <3>1, <4>2
        <5> QED
          BY <2>6, <2>7, <4>2, <5>1
      <4> QED
        BY <3>1, <4>1, <4>2
    <3>4. l + 1 <= 1 + Len(sched[p].v)
      BY <1>11, <3>1
    <3> QED
      BY <2>7, <3>3, <3>4 DEF CyclesOf
  <2>10. PipesGiven(p)'
    BY <1>2, <1>5, <2>5, <2>7 DEF PipesGiven
  <2>11. GotRight(p)'
    BY <1>2, <1>10, <2>9 DEF GotRight, CyclesOf
  <2>12. Located(p)'
    BY <1>2, <1>10, <2>8, <2>10, <2>11 DEF Located, Where
  <2>13. SearchRight'
    <3> SUFFICES ASSUME goals' # << >>
                 PROVE  \A t \in Slots : Earlier(traceQOut, t, qStart') => Clear(goals[1], t)'
      BY <1>2, <1>15 DEF SearchRight, Earlier, Gap
    <3>1. /\ l + 1 \in 1 .. Len(Goals(TypeAt(n)))
          /\ goals'[1] = GoalAt(n, l + 1) /\ goals'[1] # "PIPE"
      <4>1. SeqT'
        BY <1>0, NextSeq DEF Next
      <4>2. (SeqT /\ GoalsRight /\ goals # << >> =>
               IF Len(got) = 0 THEN goals[1] = "PIPE"
               ELSE /\ state = "RUN" /\ Len(got) \in 1 .. Len(Goals(TypeAt(n)))
                    /\ goals[1] = GoalAt(n, Len(got)) /\ goals[1] # "PIPE")'
        BY GoalNext
      <4>3. Len(got') = l + 1 /\ n' = n /\ state' = state /\ l + 1 # 0
        BY <1>2, <1>5, <2>7
      <4> QED
        BY <2>7, <4>1, <4>2, <4>3 DEF GoalAt, TypeAt
    <3>2. l + 1 \in 1 .. Len(sched[p].v) /\ q[b].cycle < sched[p].v[l + 1] /\ l < l + 1 /\ l \in Nat
      <4>1. l + 1 \in 1 .. Len(sched[p].v) /\ l < l + 1 /\ l \in Nat
        BY <1>5, <1>11, <3>1
      <4> QED
        BY <1>11, <2>3, <4>1 DEF Event
    <3>3. q[b].cycle \in Int /\ sched[p].v[l + 1] \in Int
      <4>1. sched[p].v[l + 1] \in Int
        BY <1>0, <1>10, <3>2, EventIs
      <4> QED
        BY <1>0, <4>1 DEF QueueT, Entry
    <3>4. PICK a \in 1 .. Len(sched[p].v) : a = l + 1
      BY <3>2
    <3>5. l <= a /\ q[b].cycle < sched[p].v[a] /\ q[b].cycle <= sched[p].v[a] /\ q[b].record # {}
      BY <1>18, <3>2, <3>3, <3>4
    <3>6. ASSUME NEW t \in Slots, Earlier(traceQOut, t, qStart') PROVE GoalAt(p, a) \notin q'[t].record
      <4>1. t = b \/ Earlier(traceQOut, t, b)
        BY <1>16, <3>6
      <4>2. GoalAt(p, a) \notin q[t].record
        BY <1>0, <1>10, <1>14, <2>1, <3>2, <3>5, <4>1, NextClear
      <4>3. Took(c, q', b, f)
        BY <1>18, TakeIs
      <4> QED
        BY <1>13, <4>2, <4>3 DEF Took, CountedTo
    <3> QED
      BY <1>10, <3>1, <3>4, <3>6 DEF Clear
  <2> QED
    BY <1>2, <1>3, <1>8, <2>7, <2>12, <2>13 DEF Told, Running
<1> QED
  BY <1>13, <1>17, <1>18

\* parseNextVectorRecord: what is read goes behind what the search has passed.
LEMMA ReadOwn ==
  ASSUME Ready, ReadMore, ~ packed'
  PROVE  Told'
<1>0. TypeInv /\ Executed /\ ShownRight /\ SeqT /\ Told /\ QueueT
  BY DEF Ready, Told, TypeInv
<1>1. goals # << >> /\ status = "OK" /\ mode = "VECTOR" /\ qStart = traceQIn
  BY DEF ReadMore, Busy
<1>2. /\ UNCHANGED <<state, skipped, syncCount, n, shown, goals, got, given>>
      /\ UNCHANGED <<sched, mode, caStart, teStart>>
  BY DEF ReadMore, trace, sync
<1>3. Running /\ GoalsRight /\ SearchRight
  BY <1>0, <1>1 DEF Told, Calling
<1>4. PICK p \in Int : Located(p)
  BY <1>0, <1>1, <1>3 DEF Told
<1>5. traceQOut \in Slots /\ traceQIn \in Slots /\ q \in [Slots -> Entry]
  BY <1>0 DEF QueueT
<1>6. \A s \in Slots : Earlier(traceQOut, s, traceQIn) => Clear(goals[1], s)
  BY <1>1, <1>3 DEF SearchRight
<1>7. ShownRight'
  BY <1>0, <1>2, SameShown
<1>8. GoalsRight' /\ (Calling' <=> Calling)
  BY <1>2, <1>3 DEF GoalsRight, Calling, Wants, Want, GoalAt, TypeAt
<1>9. Located(p)'
  <2>1. PipesDone(p, Len(got))' /\ ~ RunUp(p)
    BY <1>1, <1>2, <1>4 DEF Located, PipesGiven, PipesDone, RunUp, Calling
  <2>2. PipesGiven(p)'
    BY <1>1, <1>2, <2>1 DEF PipesGiven
  <2>3. GotRight(p)'
    BY <1>2, <1>4 DEF Located, GotRight, CyclesOf
  <2>4. (\A x, l : VectorsDone(x, l)' <=> VectorsDone(x, l)) /\ (NoVectors' <=> NoVectors)
    BY <1>2, SameEvents
  <2>5. Where(p)'
    <3>1. CASE RunAhead(p)
      BY <1>2, <1>4, <1>8, <2>4, <3>1 DEF Located, Where, RunAhead
    <3>2. CASE Traced(p)
      BY <1>2, <1>4, <2>4, <3>2 DEF Located, Where, Traced
    <3>3. CASE NoMore(p)
      BY <1>2, <1>4, <3>3 DEF Located, Where, NoMore
    <3> QED
      BY <1>4, <2>1, <3>1, <3>2, <3>3 DEF Located, Where
  <2> QED
    BY <2>2, <2>3, <2>5 DEF Located
<1>10. ASSUME status' = "OK" PROVE SearchRight'
  <2>1. CASE NextWords # {} /\ ReadWord
    <3>1. NextWord \in 1 .. BlockWords /\ caBufferIndex # 0
      <4>1. ReaderT /\ offset \in Nat
        BY <1>0 DEF TypeInv, ReaderT
      <4>2. NextWord \in offset + 1 .. BlockWords
        BY <2>1, <4>1, NextWordIs
      <4>3. BlockWords \in Nat
        BY Sizes
      <4> QED
        BY <1>0, <1>1, <4>1, <4>2, <4>3, BusyBlock DEF Busy
    <3> DEFINE word == DataWord(NextWord)
               t == BlockStart + (NextWord - 1) * WordCycles
               m == Len(Entries(word, t))
    <3>2. /\ word \in [1 .. WordCycles -> SUBSET Flag] /\ t \in Int
          /\ \A j \in 1 .. WordCycles : t + j - 1 \in 0 .. Cycles - 1
      BY <1>0, <3>1, WordRead
    <3>3. addQ(word, t) /\ qStart' = traceQIn
      BY <2>1 DEF ReadWord
    <3>4. ~ (roomQ(traceQIn, traceQOut) < WordCycles)
      BY <2>1 DEF ReadWord
    <3>5. Packed.q = q /\ Packed.in = traceQIn
      BY <3>4 DEF Packed
    <3>6. m \in Nat
      <4>1. m \in 0 .. WordCycles /\ WordCycles \in Nat
        BY <3>2, EntriesAre, Sizes
      <4> QED
        BY <4>1
    <3> HIDE DEF word, t, m
    <3>7. /\ traceQIn' = Up(traceQIn, m) /\ Gap(traceQOut, traceQIn) + m < QSize /\ traceQOut' = traceQOut
          /\ \A s \in Slots : ~ (Gap(traceQIn, s) < m) => q'[s] = q[s]
      <4>1. /\ traceQOut' = traceQOut
            /\ \/ status' = "ERR"
               \/ /\ traceQIn' = Up(Packed.in, m) /\ Gap(traceQOut, Packed.in) + m < QSize
                  /\ \A s \in Slots : ~ (Gap(Packed.in, s) < m) => q'[s] = Packed.q[s]
        BY <1>5, <3>2, <3>3, AddIs DEF m
      <4> QED
        BY <1>10, <3>5, <4>1
    <3>8. Gap(traceQOut, traceQIn') = Gap(traceQOut, traceQIn) + m
      BY <1>5, <3>6, <3>7, UpFrom
    <3>9. Gap(traceQOut, traceQIn) <= Gap(traceQOut, traceQIn')
      <4>1. Gap(traceQOut, traceQIn) \in Nat
        BY <1>5, GapType
      <4> QED
        BY <3>6, <3>8, <4>1
    <3>10. ASSUME NEW s \in Slots, Earlier(traceQOut, s, traceQIn) PROVE Clear(goals[1], s)'
      <4>1. Gap(traceQOut, traceQIn) \in Nat /\ Gap(traceQIn, s) \in Nat /\ Gap(traceQOut, s) \in Nat
        BY <1>5, GapType
      <4>2. Gap(traceQIn, s) < m => Gap(traceQOut, s) = Gap(traceQOut, traceQIn) + Gap(traceQIn, s)
        BY <1>5, <3>6, <3>7, NewSlots
      <4>3. ~ (Gap(traceQIn, s) < m)
        BY <3>10, <4>1, <4>2 DEF Earlier
      <4>4. q'[s] = q[s]
        BY <3>7, <4>3
      <4> QED
        BY <1>2, <1>6, <3>10, <4>4 DEF Clear
    <3> QED
      BY <3>3, <3>7, <3>9, <3>10 DEF SearchRight, Earlier, Gap
  <2>2. CASE UNCHANGED <<queue, qStart, packed, depth0>>
    <3>1. UNCHANGED <<q, traceQIn, traceQOut, qStart, goals, mode>>
      BY <1>2, <2>2 DEF queue
    <3> QED
      BY <1>3, <3>1 DEF SearchRight, Clear, Earlier, Gap
  <2> QED
    BY <2>1, <2>2 DEF ReadMore
<1> QED
  BY <1>2, <1>3, <1>7, <1>8, <1>9, <1>10 DEF Told, Running

\* The bits of an instruction trace.
LEMMA BitPlace ==
  ASSUME NEW b \in Nat, b < 2 * WordCycles * BlockWords
  PROVE  LET c == b \div 2 IN
         /\ c \in Nat /\ b = 2 * c + (b % 2) /\ b % 2 \in {0, 1}
         /\ \E k \in 1 .. BlockWords, j \in 1 .. WordCycles :
              /\ k = c \div WordCycles + 1 /\ j = (c % WordCycles) + 1
              /\ c = (k - 1) * WordCycles + j - 1
<1> DEFINE c == b \div 2
           u == c \div WordCycles
           r == c % WordCycles
<1>1. WordCycles \in Nat /\ WordCycles > 0 /\ BlockWords \in Nat
  BY Sizes
<1>2. c \in Nat /\ b = 2 * c + (b % 2) /\ b % 2 \in {0, 1}
  OBVIOUS
<1>3. c < WordCycles * BlockWords
  <2>1. 2 * WordCycles * BlockWords = 2 * (WordCycles * BlockWords) /\ WordCycles * BlockWords \in Nat
    BY <1>1
  <2> QED
    BY <1>2, <2>1
<1> HIDE DEF c
<1>4. u \in Int /\ r \in 0 .. WordCycles - 1 /\ c = WordCycles * u + r
  BY <1>1, <1>2
<1> HIDE DEF u, r
<1>5. 0 <= u
  <2> SUFFICES ASSUME u <= -1 PROVE FALSE
    BY <1>4
  <2>1. WordCycles * u <= WordCycles * (-1)
    BY <1>1, <1>4, ProductsOrdered
  <2>2. WordCycles * (-1) = - WordCycles /\ WordCycles * u \in Int
    BY <1>1, <1>4
  <2> QED
    BY <1>1, <1>2, <1>4, <2>1, <2>2
<1>6. u < BlockWords
  <2> SUFFICES ASSUME BlockWords <= u PROVE FALSE
    BY <1>1, <1>4
  <2>1. WordCycles * BlockWords <= WordCycles * u
    BY <1>1, <1>4, ProductsOrdered
  <2>2. WordCycles * BlockWords \in Int /\ WordCycles * u \in Int
    BY <1>1, <1>4
  <2> QED
    BY <1>2, <1>3, <1>4, <2>1, <2>2
<1>7. u + 1 \in 1 .. BlockWords /\ r + 1 \in 1 .. WordCycles
  BY <1>1, <1>4, <1>5, <1>6
<1>8. c = ((u + 1) - 1) * WordCycles + (r + 1) - 1
  <2>1. ((u + 1) - 1) * WordCycles = WordCycles * u /\ WordCycles * u \in Int
    BY <1>1, <1>4
  <2> QED
    BY <1>2, <1>4, <2>1
<1>9. PICK k \in 1 .. BlockWords, j \in 1 .. WordCycles : k = u + 1 /\ j = r + 1
  BY <1>7
<1>10. c = (k - 1) * WordCycles + j - 1
  BY <1>8, <1>9
<1> QED
  BY <1>2, <1>9, <1>10 DEF c, u, r

LEMMA BitsAre ==
  ASSUME TypeInv, HwInv, Executed, caBufferIndex # 0, lead = 0, NEW b \in Nat, b < 2 * WordCycles * BlockWords
  PROVE  BitSet(b) <=> \E i \in DOMAIN sched : Bit(sched[i]) = 2 * BlockStart + b
<1> DEFINE c == b \div 2
           f == IF b % 2 = 0 THEN "V0" ELSE "V1"
           d == BlockStart + c
<1>1. c \in Nat /\ b = 2 * c + (b % 2) /\ b % 2 \in {0, 1}
  BY BitPlace
<1>2. PICK k \in 1 .. BlockWords, j \in 1 .. WordCycles :
        /\ k = c \div WordCycles + 1 /\ j = (c % WordCycles) + 1
        /\ c = (k - 1) * WordCycles + j - 1
  BY BitPlace
<1>3. BitSet(b) <=> f \in DataWord(k)[j]
  BY <1>2 DEF BitSet
<1>4. InBlocks
  BY BlockRead DEF TypeInv
<1>5. DataWord(k)[j] = flags[BlockStart + (k - 1) * WordCycles + j - 1]
  <2>1. flags \in [0 .. Cycles - 1 -> SUBSET Flag] /\ "V0" \in flags[0]
    BY DEF TypeInv, TraceT, HwInv
  <2> QED
    BY <1>4, <2>1, DataWordIs
<1>6. BlockStart \in Nat
  BY CyclesReadType
<1>7. BlockStart + (k - 1) * WordCycles + j - 1 = d /\ d \in Nat
  <2>1. (k - 1) * WordCycles \in Int
    BY Sizes
  <2> QED
    BY <1>1, <1>2, <1>6, <2>1
<1>8. d \in 0 .. Cycles - 1
  <2>1. BlockStart + (k - 1) * WordCycles + j - 1 \in 0 .. Cycles - 1
    BY <1>4, InFile
  <2> QED
    BY <1>7, <2>1
<1>9. BitSet(b) <=> f \in flags[d]
  BY <1>3, <1>5, <1>7
<1>10. f \in Pipes
  BY DEF Pipes
<1> HIDE DEF f, d
<1>11. f \in flags[d] <=> \E i \in DOMAIN sched : FlagOf(i, sched[i], f, d)
  BY <1>8 DEF Executed
<1>12. ASSUME NEW i \in DOMAIN sched
       PROVE  FlagOf(i, sched[i], f, d) <=> Bit(sched[i]) = 2 * BlockStart + b
  <2>1. FlagOf(i, sched[i], f, d) <=> f = sched[i].pipe /\ d = sched[i].at
    <3>1. FlagOf(i, sched[i], f, d) => f = sched[i].pipe /\ d = sched[i].at
      BY <1>10, FlagOfKind
    <3> QED
      BY <3>1 DEF FlagOf
  <2>2. sched[i].pipe \in {"V0", "V1"} /\ sched[i].at \in Int
    BY EventIs DEF Pipes
  <2>3. 2 * BlockStart + b = 2 * d + (b % 2)
    BY <1>1, <1>6 DEF d
  <2>4. Bit(sched[i]) = 2 * sched[i].at + (IF sched[i].pipe = "V0" THEN 0 ELSE 1)
    BY DEF Bit
  <2>5. b % 2 = IF f = "V0" THEN 0 ELSE 1
    BY <1>1 DEF f
  <2>6. f \in {"V0", "V1"} /\ d \in Int
    BY <1>7, <1>10 DEF Pipes
  <2> QED
    BY <2>1, <2>2, <2>3, <2>4, <2>5, <2>6
<1> QED
  BY <1>9, <1>11, <1>12

\* The first bit set from the offset on is that of instruction p.
LEMMA BitHit ==
  ASSUME TypeInv, HwInv, Executed, caBufferIndex # 0, lead = 0, NEW p \in Int, caStart <= p, BitsDone(p, 0),
         NEW b \in NextBits, \A x \in NextBits : b <= x
  PROVE  /\ b \in Nat /\ b + 1 <= 2 * WordCycles * BlockWords
         /\ p \in DOMAIN sched /\ Bit(sched[p]) = 2 * BlockStart + b
<1> DEFINE M == 2 * WordCycles * BlockWords
           B == 2 * BlockStart
<1>1. M \in Nat /\ B \in Nat /\ offset \in Nat
  <2>1. BlockStart \in Nat /\ offset \in Nat
    BY CyclesReadType DEF TypeInv, ReaderT
  <2> QED
    BY <2>1, Sizes
<1>2. NextBits = {x \in offset .. M - 1 : BitSet(x)}
  BY DEF NextBits
<1>3. \A x \in Nat : x < M => (BitSet(x) <=> \E i \in DOMAIN sched : Bit(sched[i]) = B + x)
  BY BitsAre
<1>4. \A i \in DOMAIN sched : Bit(sched[i]) < B + offset <=> i < p
  BY DEF BitsDone
<1> HIDE DEF M, B
<1>5. b \in Nat /\ b < M /\ offset <= b /\ BitSet(b)
  BY <1>1, <1>2
<1>6. PICK i \in DOMAIN sched : Bit(sched[i]) = B + b
  BY <1>3, <1>5
<1>7. i \in Int /\ ~ (i < p)
  <2>1. i \in Int
    BY EventIs
  <2> QED
    BY <1>1, <1>4, <1>5, <1>6, <2>1
<1>8. p \in DOMAIN sched
  BY <1>7, Consecutive
<1>9. i = p
  <2> SUFFICES ASSUME p < i PROVE FALSE
    BY <1>7
  <2>1. Bit(sched[p]) < Bit(sched[i]) /\ Bit(sched[p]) \in Int
    BY <1>8, EventIs DEF Executed, InOrder
  <2>2. ~ (Bit(sched[p]) < B + offset)
    BY <1>4, <1>8
  <2> DEFINE x == Bit(sched[p]) - B
  <2>3. x \in Nat /\ x < b /\ offset <= x /\ Bit(sched[p]) = B + x
    BY <1>1, <1>5, <1>6, <2>1, <2>2
  <2> HIDE DEF x
  <2>4. x < M
    BY <1>1, <1>5, <2>3
  <2>5. BitSet(x)
    BY <1>3, <1>8, <2>3, <2>4
  <2>6. x \in NextBits
    BY <1>1, <1>2, <2>3, <2>4, <2>5
  <2> QED
    BY <1>5, <2>3, <2>6
<1>10. b + 1 <= M
  BY <1>1, <1>5
<1> QED
  BY <1>5, <1>6, <1>8, <1>9, <1>10 DEF M, B

\* consumeCAInstruction.
LEMMA BitsOwn ==
  ASSUME Ready, consumeCAInstruction
  PROVE  Told'
<1>0. TypeInv /\ HwInv /\ Executed /\ ShownRight /\ SeqT /\ Told /\ lead = 0
  BY DEF Ready, Told, Comparable
<1>1. goals # << >> /\ status = "OK" /\ mode = "INSTRUCTION" /\ Calling /\ Busy
  BY DEF consumeCAInstruction, Busy, Calling
<1>2. /\ UNCHANGED <<state, skipped, syncCount, n, shown, qStart, traceQIn, traceQOut, q>>
      /\ UNCHANGED <<sched, mode, caStart, teStart>>
  BY DEF consumeCAInstruction, trace, sync, queue
<1>3. Running /\ GoalsRight
  BY <1>0, <1>1 DEF Told
<1>4. PICK p \in Int : Located(p)
  BY <1>0, <1>1, <1>3 DEF Told
<1>5. Len(got) = 0 /\ got = << >>
  <2>1. Len(got) = 0
    BY <1>0, <1>1, <1>3, GoalIs
  <2> QED
    BY <1>0, <2>1, EmptyOrNot DEF SeqT
<1>6. caStart <= p /\ BitsDone(p, 0) /\ ~ RunUp(p)
  BY <1>1, <1>4, <1>5 DEF Located, Where, PipesGiven, RunUp
<1>7. ShownRight'
  BY <1>0, <1>2, SameShown
<1>8. SearchRight'
  BY <1>1, <1>2 DEF SearchRight
<1>9. caBufferIndex # 0 /\ TraceT /\ ReaderT
  BY <1>0, <1>1, BusyBlock DEF TypeInv
<1>10. \A i \in DOMAIN sched : Len(sched[i].v) = 0 /\ i \in Int /\ Bit(sched[i]) \in Int
  <2> TAKE i \in DOMAIN sched
  <2>1. Event(i, sched[i])
    BY <1>0 DEF Executed
  <2>2. i \in Int /\ Bit(sched[i]) \in Int
    BY <1>0, EventIs
  <2> QED
    BY <1>1, <2>1, <2>2 DEF Event
<1>11. NoVectors' /\ \A x, l : VectorsDone(x, l)'
  <2>1. \A i \in DOMAIN sched : \A a \in 1 .. Len(sched[i].v) : FALSE
    BY <1>10
  <2> QED
    BY <1>2, <2>1 DEF NoVectors, VectorsDone
<1>12. \A i : Bit(sched[i])' = Bit(sched[i])
  BY <1>2 DEF Bit
<1>13. CASE NextBits = {} /\ parseNextCATraceRec /\ UNCHANGED <<goals, got, given>>
  <2>1. GoalsRight' /\ (Calling' <=> Calling)
    BY <1>2, <1>3, <1>13 DEF GoalsRight, Calling, Wants, Want, GoalAt, TypeAt
  <2>2. ASSUME status' = "OK" PROVE PipesGiven(p)'
    <3>1. offset' = 0 /\ blockRecNum' = blockRecNum + 1
      <4>1. "OK" # "EOF"
        OBVIOUS
      <4> QED
        BY <1>9, <1>13, <2>2, <4>1, ParseIs
    <3> DEFINE M == 2 * WordCycles * BlockWords
               B == 2 * BlockStart
    <3>2. M \in Nat /\ B \in Nat /\ offset \in Nat /\ 2 * BlockStart' = B + M
      <4>1. BlockStart \in Nat /\ offset \in Nat /\ blockRecNum \in Nat
        BY <1>0, CyclesReadType DEF TypeInv, ReaderT
      <4>2. WordCycles \in Nat /\ BlockWords \in Nat
        BY Sizes
      <4>3. BlockStart' = (blockRecNum + 1) * WordCycles * BlockWords
        BY <3>1 DEF BlockStart
      <4>4. PICK w \in Nat : w = WordCycles * BlockWords
        BY <4>2
      <4>5. BlockStart = blockRecNum * w /\ BlockStart' = (blockRecNum + 1) * w /\ M = 2 * w
        BY <4>1, <4>2, <4>3, <4>4 DEF BlockStart
      <4>6. (blockRecNum + 1) * w = blockRecNum * w + w /\ blockRecNum * w \in Nat
        BY <4>1
      <4> QED
        BY <4>1, <4>5, <4>6
    <3>3. \A x \in Nat : x < M => (BitSet(x) <=> \E i \in DOMAIN sched : Bit(sched[i]) = B + x)
      BY <1>0, <1>9, BitsAre
    <3>4. NextBits = {x \in offset .. M - 1 : BitSet(x)}
      BY DEF NextBits
    <3>5. offset <= M /\ \A i \in DOMAIN sched : Bit(sched[i]) < B + offset <=> i < p
      BY <1>6 DEF BitsDone
    <3> HIDE DEF M, B
    <3>6. ASSUME NEW i \in DOMAIN sched PROVE Bit(sched[i]) < B + M <=> i < p
      <4>1. CASE Bit(sched[i]) < B + offset
        BY <1>10, <3>2, <3>5, <4>1
      <4>2. CASE ~ (Bit(sched[i]) < B + offset)
        <5> SUFFICES ASSUME Bit(sched[i]) < B + M PROVE FALSE
          BY <3>5, <4>2
        <5> DEFINE x == Bit(sched[i]) - B
        <5>1. x \in Nat /\ x < M /\ offset <= x /\ Bit(sched[i]) = B + x
          BY <1>10, <3>2, <4>2
        <5> HIDE DEF x
        <5>2. BitSet(x)
          BY <3>3, <5>1
        <5>3. x \in NextBits
          BY <3>2, <3>4, <5>1, <5>2
        <5> QED
          BY <1>13, <5>3
      <4> QED
        BY <4>1, <4>2
    <3>7. \A i \in DOMAIN sched : Bit(sched[i]) < 2 * BlockStart' + 0 <=> i < p \/ (i = p /\ 0 < 0)
      BY <3>2, <3>6
    <3>8. 0 <= 2 * WordCycles * BlockWords
      BY <3>2 DEF M
    <3>9. Len(got') = 0
      BY <1>5, <1>13
    <3>10. BitsDone(p, 0)'
      BY <1>2, <1>12, <3>1, <3>7, <3>8 DEF BitsDone
    <3> QED
      BY <1>1, <1>2, <3>9, <3>10 DEF PipesGiven
  <2>3. Where(p)'
    <3>1. CASE RunAhead(p)
      BY <1>2, <1>6, <1>11, <2>1, <3>1 DEF Where, RunAhead
    <3>2. CASE Traced(p)
      BY <1>2, <1>6, <1>11, <3>2 DEF Where, Traced
    <3>3. CASE NoMore(p)
      BY <1>2, <1>6, <1>13, <3>3 DEF Where, NoMore
    <3> QED
      BY <1>4, <1>6, <3>1, <3>2, <3>3 DEF Located, Where
  <2>4. ASSUME status' = "OK" PROVE Located(p)'
    BY <1>5, <1>13, <2>2, <2>3, <2>4 DEF Located, GotRight
  <2> QED
    BY <1>2, <1>3, <1>7, <1>8, <2>1, <2>4 DEF Told, Running
<1>14. CASE NextBits # {}
  <2> DEFINE b == First(NextBits)
             c == BlockStart + b \div 2
             r == [cycle |-> c, depth |-> NoDepth]
  <2>1. b \in NextBits /\ \A x \in NextBits : b <= x
    <3>1. \A x \in NextBits : x \in Nat
      BY <1>9, Sizes DEF NextBits, ReaderT
    <3> QED
      BY <1>14, <3>1, FirstIs
  <2>2. /\ offset' = b + 1 /\ got' = Append(got, r) /\ goals' = Tail(goals)
        /\ UNCHANGED <<blockRecNum, status>>
    BY <1>14 DEF consumeCAInstruction
  <2>3. r.cycle = BlockStart + b \div 2
    OBVIOUS
  <2> HIDE DEF b, r, c
  <2>4. /\ b \in Nat /\ b + 1 <= 2 * WordCycles * BlockWords
        /\ p \in DOMAIN sched /\ Bit(sched[p]) = 2 * BlockStart + b
    BY <1>0, <1>6, <1>9, <2>1, BitHit
  <2>5. BlockStart \in Nat
    BY <1>0, CyclesReadType
  <2>6. r.cycle = sched[p].at
    <3>1. sched[p].at \in Int /\ b \div 2 \in Nat /\ (b = 2 * (b \div 2) \/ b = 2 * (b \div 2) + 1)
      BY <1>0, <2>4, EventIs
    <3>2. Bit(sched[p]) = 2 * sched[p].at \/ Bit(sched[p]) = 2 * sched[p].at + 1
      BY <3>1 DEF Bit
    <3>3. PICK h \in Nat, z \in {0, 1}, y \in {0, 1} :
            h = b \div 2 /\ b = 2 * h + z /\ Bit(sched[p]) = 2 * sched[p].at + y
      BY <3>1, <3>2, <2>4
    <3>4. 2 * sched[p].at + y = 2 * BlockStart + (2 * h + z)
      BY <2>4, <3>3
    <3>5. \A A \in Int, B \in Nat : 2 * A + y = 2 * B + (2 * h + z) => A = B + h
      <4>1. CASE y = 0 /\ z = 0
        BY <4>1, <3>3
      <4>2. CASE y = 0 /\ z = 1
        BY <4>2, <3>3
      <4>3. CASE y = 1 /\ z = 0
        BY <4>3, <3>3
      <4>4. CASE y = 1 /\ z = 1
        BY <4>4, <3>3
      <4> QED
        BY <3>3, <4>1, <4>2, <4>3, <4>4
    <3>6. sched[p].at = BlockStart + h
      BY <2>5, <3>1, <3>4, <3>5
    <3> QED
      BY <2>3, <3>3, <3>6
  <2>7. /\ GoalsRight' /\ Len(got') = 1 /\ got' # << >> /\ got'[1] = r
    <3>1. /\ GoalsRight' /\ Len(got') = Len(got) + 1 /\ got' # << >> /\ got'[Len(got) + 1] = r
      BY <1>0, <1>1, <1>2, <1>3, <2>2, FoundGoals
    <3> QED
      BY <1>5, <3>1
  <2>8. Calling'
    BY <2>7 DEF Calling
  <2>9. BitsDone(p, 1)'
    <3>1. ASSUME NEW i \in DOMAIN sched PROVE Bit(sched[i]) < 2 * BlockStart + (b + 1) <=> i < p \/ (i = p /\ 0 < 1)
      <4>1. i \in Int /\ Bit(sched[i]) \in Int /\ Bit(sched[p]) \in Int
        BY <1>10, <2>4
      <4>2. i < p => Bit(sched[i]) < Bit(sched[p])
        BY <1>0, <2>4 DEF Executed, InOrder
      <4>3. p < i => Bit(sched[p]) < Bit(sched[i])
        BY <1>0, <2>4 DEF Executed, InOrder
      <4> QED
        BY <2>4, <2>5, <4>1, <4>2, <4>3
    <3>2. BlockStart' = BlockStart
      BY <2>2 DEF BlockStart
    <3> QED
      BY <1>2, <1>12, <2>2, <2>4, <3>1, <3>2 DEF BitsDone
  <2>10. PipesGiven(p)'
    BY <1>1, <1>2, <2>7, <2>9 DEF PipesGiven
  <2>11. GotRight(p)'
    <3>1. CyclesOf(sched[p], got')
      BY <1>10, <2>4, <2>6, <2>7 DEF CyclesOf
    <3> QED
      BY <1>2, <2>4, <3>1 DEF GotRight, CyclesOf
  <2>12. RunAhead(p)' \/ Traced(p)'
    <3>1. CASE RunAhead(p)
      BY <1>1, <1>2, <1>11, <2>8, <3>1 DEF RunAhead
    <3>2. CASE Traced(p)
      BY <1>2, <1>11, <3>2 DEF Traced
    <3>3. ~ NoMore(p)
      <4>1. ~ (p < p)
        OBVIOUS
      <4> QED
        BY <2>4, <4>1 DEF NoMore
    <3> QED
      BY <1>4, <1>6, <3>1, <3>2, <3>3 DEF Located, Where
  <2>13. Located(p)'
    BY <1>2, <1>6, <2>10, <2>11, <2>12 DEF Located, Where
  <2> QED
    BY <1>2, <1>3, <1>7, <1>8, <2>7, <2>13 DEF Told, Running
<1> QED
  BY <1>13, <1>14 DEF consumeCAInstruction

-----------------------------------------------------------------------------
\* Every step keeps what is known of the instructions shown.
LEMMA NextOwn ==
  TypeInv /\ HwInv /\ QueueInv /\ Executed /\ SeqT /\ OwnInv /\ RunAheadRight /\ [Next]_vars => OwnInv'
<1> SUFFICES ASSUME TypeInv, HwInv, QueueInv, Executed, SeqT, OwnInv, RunAheadRight, [Next]_vars, Comparable'
             PROVE  Told'
  BY DEF OwnInv
<1>1. Ready
  BY ComparableBefore DEF Ready, OwnInv
<1>2. Distinct' /\ ~ packed'
  BY DEF Comparable
<1>3. CASE UNCHANGED vars
  BY <1>1, <1>3, StutterOwn
<1>4. CASE Execute
  BY <1>1, <1>4, ExecuteOwn
<1>5. CASE setCATraceFile
  BY <1>1, <1>5, SetFileOwn
<1>6. CASE SyncMessage
  BY <1>1, <1>2, <1>6, MessageOwn
<1>7. CASE SyncSkip
  BY <1>1, <1>7, SkipOwn
<1>8. CASE SyncFound
  BY <1>1, <1>8, FoundOwn
<1>9. CASE SyncRewind
  BY <1>1, <1>9, RewindOwn
<1>10. CASE Instruction
  BY <1>1, <1>10, InstructionOwn
<1>11. CASE consumeCAPipe
  BY <1>1, <1>11, PipeOwn
<1>12. CASE consumeCAVector
  BY <1>1, <1>12, VectorOwn
<1>13. CASE consumeCAInstruction
  BY <1>1, <1>13, BitsOwn
<1>14. CASE ReadMore
  BY <1>1, <1>2, <1>14, ReadOwn
<1>15. CASE Return
  BY <1>1, <1>15, ReturnOwn
<1>16. CASE Stop
  BY <1>1, <1>16, StopOwn
<1> QED
  BY <1>3, <1>4, <1>5, <1>6, <1>7, <1>8, <1>9, <1>10, <1>11, <1>12, <1>13, <1>14, <1>15, <1>16 DEF Next

\* The cycles shown are those of the instruction.
LEMMA OwnShown == Executed /\ OwnInv => OwnCycles
<1> SUFFICES ASSUME Executed, OwnInv, lead = 0 /\ Distinct /\ ~ packed, NEW k \in DOMAIN shown
             PROVE  [j \in DOMAIN shown[k].found |-> shown[k].found[j].cycle]
                      = <<sched[shown[k].at].at>> \o sched[shown[k].at].v
  BY DEF OwnCycles, CyclesRight, Distinct
<1> DEFINE e == sched[shown[k].at]
           g == shown[k].found
           h == [j \in DOMAIN g |-> g[j].cycle]
           A == <<e.at>>
           V == e.v
           w == A \o V
<1>1. shown[k].at \in DOMAIN sched /\ IsSequence(g) /\ Len(g) = 1 + Len(V) /\ CyclesOf(e, g)
  BY DEF OwnInv, Comparable, Told, ShownRight
<1>2. IsSequence(V) /\ Len(V) \in Nat
  BY <1>1, EventIs
<1>3. IsSequence(A) /\ Len(A) = 1 /\ A[1] = e.at
  <2>1. A \in Seq({e.at})
    OBVIOUS
  <2> QED
    BY <2>1 DEF IsSequence
<1>4. \A j \in 1 .. Len(g) : g[j].cycle = IF j = 1 THEN e.at ELSE V[j - 1]
  BY <1>1 DEF CyclesOf
<1>5. DOMAIN g = 1 .. Len(g) /\ Len(g) \in Nat
  BY <1>1, SeqIsFunction
<1> HIDE DEF e, g, A, V
<1>s. IsSequence(A) /\ IsSequence(V)
  BY <1>2, <1>3
<1>6. IsSequence(w) /\ Len(w) = Len(A) + Len(V)
  BY <1>s, ConcatOfSeqs
<1>7. \A i \in 1 .. Len(A) : w[i] = A[i]
  BY <1>s, ConcatOfSeqs
<1>8. \A i \in 1 .. Len(V) : w[Len(A) + i] = V[i]
  BY <1>s, ConcatOfSeqs
<1> HIDE DEF w
<1>9. h = [j \in 1 .. Len(g) |-> g[j].cycle]
  BY <1>5
<1>10. IsSequence(h) /\ Len(h) = Len(g)
  <2>1. h = [j \in 1 .. Len(g) |-> h[j]]
    BY <1>9
  <2> HIDE DEF h
  <2> QED
    BY <1>5, <2>1, FunctionIsSeq
<1>11. ASSUME NEW j \in 1 .. Len(h) PROVE h[j] = w[j]
  <2>1. h[j] = IF j = 1 THEN e.at ELSE V[j - 1]
    BY <1>4, <1>9, <1>10
  <2>2. CASE j = 1
    BY <1>3, <1>7, <2>1, <2>2
  <2>3. CASE j # 1
    <3>1. PICK i \in 1 .. Len(V) : j = 1 + i
      <4>1. j - 1 \in 1 .. Len(V) /\ j = 1 + (j - 1)
        BY <1>1, <1>2, <1>10, <2>3 DEF V, g
      <4> QED
        BY <4>1
    <3>2. j - 1 = i
      BY <3>1
    <3> QED
      BY <1>3, <1>8, <2>1, <2>3, <3>1, <3>2
  <2> QED
    BY <2>2, <2>3
<1>12. Len(h) = Len(w)
  BY <1>1, <1>2, <1>3, <1>6, <1>10 DEF V, g
<1> HIDE DEF h
<1>13. h = w
  BY <1>6, <1>10, <1>11, <1>12, SameSeq
<1> QED
  BY <1>13 DEF h, w, A, V, e, g

(* The hazard of matching two traces by position: as long as the address   *)
(* that nextCAAddr runs ahead to is the one executed, each instruction is  *)
(* given the cycles of its own events, however those of later instructions *)
(* overtake them in the queue.                                             *)
THEOREM CATraceOwnCycles == Spec /\ []RunAheadRight => []OwnCycles
  BY InitTypes, InitQueue, InitExecuted, InitSeq, InitOwn, NextTypes, NextHw, NextQueue, NextExecuted, NextSeq,
     NextOwn, OwnShown, PTL DEF Spec
=============================================================================
