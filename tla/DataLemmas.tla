----------------------------- MODULE DataLemmas -----------------------------
(***************************************************************************)
(* Facts about numbers, sets and sequences that the proofs of several      *)
(* components rest on.                                                     *)
(***************************************************************************)
EXTENDS Integers, Sequences, SequencesExt, FiniteSetsExt, SequenceTheorems,
        FiniteSetTheorems, TLAPS

-----------------------------------------------------------------------------
(* Least elements.                                                         *)

\* A set of naturals has a least element, which is also how the proofs by
\* induction below go: by a least counterexample.
LEMMA LeastNatural ==
    ASSUME NEW T, T \subseteq Nat, T # {}
    PROVE  \E x \in T : \A y \in T : x <= y
<1> DEFINE R == OpToRel(<, Nat)
<1>1. IsWellFoundedOn(R, Nat)
  BY NatLessThanWellFounded
<1> HIDE DEF R
<1>2. PICK x \in T : \A y \in T : ~ (<<y, x>> \in R)
  BY <1>1, WFMin
<1>3. \A y \in T : y < x => <<y, x>> \in R
  BY DEF R, OpToRel
<1>4. \A y \in T : y \in Nat /\ x \in Nat
  OBVIOUS
<1>5. \A y \in T : ~ (y < x)
  BY <1>2, <1>3, Zenon
<1>6. \A y \in T : x <= y
  BY <1>4, <1>5
<1> QED
  BY <1>6

\* Min of a set of naturals is its least element.
LEMMA MinIsLeast ==
    ASSUME NEW T, T \subseteq Nat, T # {}
    PROVE  Min(T) \in T /\ \A y \in T : Min(T) <= y
  BY LeastNatural DEF Min

\* Min of two numbers is the smaller one.
LEMMA MinOfTwo ==
    ASSUME NEW a \in Int, NEW b \in Int
    PROVE  Min({a, b}) = IF a <= b THEN a ELSE b
  BY DEF Min

\* Max of two numbers is the larger one.
LEMMA MaxOfTwo ==
    ASSUME NEW a \in Int, NEW b \in Int
    PROVE  Max({a, b}) = IF a >= b THEN a ELSE b
  BY DEF Max

-----------------------------------------------------------------------------
(* Quotients and remainders.                                               *)

\* A number lies in the block of b numbers its quotient by b names.
LEMMA InBlock ==
    ASSUME NEW b \in Int, b > 0, NEW x \in Int, NEW q, q = x \div b
    PROVE  b * q <= x /\ x < b * q + b
OBVIOUS

\* The block of a number, from its bounds.
LEMMA BlockIs ==
    ASSUME NEW b \in Int, b > 0, NEW q \in Int, NEW r \in 0 .. b - 1
    PROVE  (b * q + r) \div b = q /\ (b * q + r) % b = r
OBVIOUS

\* The low part of a number is what its block leaves.
LEMMA LowPart ==
    ASSUME NEW b \in Int, b > 0, NEW x \in Int, NEW q, q = x \div b
    PROVE  x % b = x - b * q
OBVIOUS

\* Multiples of b are ordered as their factors.
LEMMA FactorsOrdered ==
    ASSUME NEW b \in Nat, b > 0, NEW u \in Int, NEW v \in Int, b * u < b * v
    PROVE  u < v
<1> SUFFICES ASSUME v <= u PROVE FALSE
  OBVIOUS
<1>1. PICK d \in Nat : u = v + d
  <2>1. u - v \in Nat /\ u = v + (u - v)
    OBVIOUS
  <2> QED
    BY <2>1
<1>2. b * u = b * v + b * d
  BY <1>1
<1>3. b * d \in Nat /\ b * u \in Int /\ b * v \in Int
  OBVIOUS
<1> QED
  BY <1>2, <1>3

-----------------------------------------------------------------------------
(* Taking a chunk off the front of a sequence.                             *)

\* A chunk and the rest make the sequence again, and the chunk of a sequence
\* that is not empty is not empty.
LEMMA ChunkAndRest ==
    ASSUME NEW S, NEW s \in Seq(S), NEW k \in Nat \ {0}
    PROVE  LET n == Min({k, Len(s)})
               c == SubSeq(s, 1, n)
               r == SubSeq(s, Len(c) + 1, Len(s))
           IN  /\ n \in 0..Len(s) /\ Len(c) = n
               /\ c \in Seq(S) /\ r \in Seq(S)
               /\ c \o r = s
               /\ c = <<>> <=> s = <<>>
<1> DEFINE n == Min({k, Len(s)})
           c == SubSeq(s, 1, n)
           r == SubSeq(s, n + 1, Len(s))
<1>1. Len(s) \in Nat
  BY LenProperties
<1>2. n \in 0..Len(s) /\ (n = 0 <=> Len(s) = 0)
  BY <1>1, MinOfTwo
<1> HIDE DEF n
<1>3. c \in Seq(S) /\ Len(c) = n
  BY <1>1, <1>2, ElementOfSeq, SubSeqProperties
<1>4. r \in Seq(S)
  BY <1>1, <1>2, ElementOfSeq, SubSeqProperties
<1>5. c \o r = s
  <2>1. 1 \in 1..(Len(s) + 1) /\ n \in (1 - 1)..Len(s) /\ Len(s) \in n..Len(s)
    BY <1>1, <1>2
  <2>2. c \o r = SubSeq(s, 1, Len(s))
    BY <2>1, ConcatAdjacentSubSeq, Zenon
  <2> QED
    BY <2>2, SubSeqFull, Zenon
<1>6. c = <<>> <=> s = <<>>
  BY <1>1, <1>2, <1>3, EmptySeq
<1> HIDE DEF c, r
<1> QED
  BY <1>2, <1>3, <1>4, <1>5, <1>6 DEF n, c, r

\* A sequence is what is before a place and what is behind it.
LEMMA SplitAt ==
    ASSUME NEW S, NEW s \in Seq(S), NEW n \in 0..Len(s)
    PROVE  /\ SubSeq(s, 1, n) \in Seq(S) /\ SubSeq(s, n + 1, Len(s)) \in Seq(S)
           /\ Len(SubSeq(s, 1, n)) = n /\ Len(SubSeq(s, n + 1, Len(s))) = Len(s) - n
           /\ SubSeq(s, 1, n) \o SubSeq(s, n + 1, Len(s)) = s
<1>1. Len(s) \in Nat
  BY LenProperties
<1>2. SubSeq(s, 1, n) \in Seq(S) /\ Len(SubSeq(s, 1, n)) = n
  BY <1>1, ElementOfSeq, SubSeqProperties
<1>3. SubSeq(s, n + 1, Len(s)) \in Seq(S) /\ Len(SubSeq(s, n + 1, Len(s))) = Len(s) - n
  BY <1>1, ElementOfSeq, SubSeqProperties
<1>4. 1 \in 1..(Len(s) + 1) /\ n \in (1 - 1)..Len(s) /\ Len(s) \in n..Len(s)
  BY <1>1
<1>5. SubSeq(s, 1, n) \o SubSeq(s, n + 1, Len(s)) = SubSeq(s, 1, Len(s))
  BY <1>4, ConcatAdjacentSubSeq, Zenon
<1>6. SubSeq(s, 1, Len(s)) = s
  BY SubSeqFull
<1> QED
  BY <1>2, <1>3, <1>5, <1>6

\* Removing the element at a place.
LEMMA RemoveAtProperties ==
    ASSUME NEW S, NEW s \in Seq(S), NEW i \in 1..Len(s)
    PROVE  /\ RemoveAt(s, i) \in Seq(S) /\ Len(RemoveAt(s, i)) = Len(s) - 1
           /\ \A j \in 1..(Len(s) - 1) : RemoveAt(s, i)[j] = IF j < i THEN s[j] ELSE s[j + 1]
<1> DEFINE a == SubSeq(s, 1, i - 1)
           b == SubSeq(s, i + 1, Len(s))
<1>1. Len(s) \in Nat /\ \A k \in 1..Len(s) : s[k] \in S
  BY LenProperties, ElementOfSeq
<1>2. a \in Seq(S) /\ Len(a) = i - 1 /\ \A j \in 1..(i - 1) : a[j] = s[j]
  BY <1>1, SubSeqProperties
<1>3. b \in Seq(S) /\ Len(b) = Len(s) - i /\ \A j \in 1..(Len(s) - i) : b[j] = s[i + j]
  BY <1>1, SubSeqProperties
<1> HIDE DEF a, b
<1>4. /\ a \o b \in Seq(S) /\ Len(a \o b) = Len(s) - 1
      /\ \A j \in 1..(Len(s) - 1) : (a \o b)[j] = IF j <= i - 1 THEN a[j] ELSE b[j - (i - 1)]
  <2>1. /\ a \o b \in Seq(S) /\ Len(a \o b) = Len(a) + Len(b)
        /\ \A j \in 1..(Len(a) + Len(b)) : (a \o b)[j] = IF j <= Len(a) THEN a[j] ELSE b[j - Len(a)]
    BY <1>2, <1>3, ConcatProperties
  <2>2. Len(a) + Len(b) = Len(s) - 1
    BY <1>1, <1>2, <1>3
  <2> QED
    BY <1>2, <2>1, <2>2
<1>5. \A j \in 1..(Len(s) - 1) : (a \o b)[j] = IF j < i THEN s[j] ELSE s[j + 1]
  <2> TAKE j \in 1..(Len(s) - 1)
  <2>1. CASE j < i
    BY <1>1, <1>2, <1>4, <2>1
  <2>2. CASE ~(j < i)
    <3>1. j - (i - 1) \in 1..(Len(s) - i) /\ i + (j - (i - 1)) = j + 1 /\ ~(j <= i - 1)
      BY <1>1, <2>2
    <3>2. b[j - (i - 1)] = s[j + 1]
      BY <1>3, <3>1
    <3> QED
      BY <1>4, <2>2, <3>1, <3>2
  <2> QED
    BY <2>1, <2>2
<1> QED
  BY <1>4, <1>5 DEF RemoveAt, a, b

-----------------------------------------------------------------------------
(* Ascending sequences of naturals.                                        *)

Ascending(s) == \A i \in 1..(Len(s) - 1) : s[i] < s[i + 1]
Below(s, n)  == \A i \in 1..Len(s) : s[i] < n
AllBefore(s, t) == \A x \in ToSet(s), y \in ToSet(t) : x < y

\* A prefix of an ascending sequence is ascending and under the same bound.
LEMMA PrefixAscending ==
    ASSUME NEW s \in Seq(Nat), NEW t \in Seq(Nat), NEW n \in Nat,
           Ascending(s \o t), Below(s \o t, n)
    PROVE  Ascending(s) /\ Below(s, n)
<1>1. Len(s) \in Nat /\ Len(t) \in Nat /\ Len(s \o t) = Len(s) + Len(t)
  BY LenProperties, ConcatProperties
<1>2. \A i \in 1..Len(s) : (s \o t)[i] = s[i]
  BY <1>1, ConcatProperties
<1>3. \A i \in 1..(Len(s) - 1) : s[i] = (s \o t)[i] /\ s[i + 1] = (s \o t)[i + 1]
  BY <1>1, <1>2
<1>4. \A i \in 1..Len(s) : i \in 1..Len(s \o t)
  BY <1>1
<1>5. \A i \in 1..(Len(s) - 1) : i \in 1..(Len(s \o t) - 1)
  BY <1>1
<1> QED
  BY <1>2, <1>3, <1>4, <1>5 DEF Ascending, Below

\* The bound itself may be appended.
LEMMA AppendAscending ==
    ASSUME NEW s \in Seq(Nat), NEW n \in Nat, Ascending(s), Below(s, n)
    PROVE  Ascending(Append(s, n)) /\ Below(Append(s, n), n + 1)
<1> DEFINE a == Append(s, n)
<1>1. /\ Len(s) \in Nat /\ Len(a) = Len(s) + 1 /\ a[Len(s) + 1] = n
      /\ \A i \in 1..Len(s) : a[i] = s[i] /\ s[i] \in Nat
  BY LenProperties, AppendProperties, ElementOfSeq
<1> HIDE DEF a
<1>2. \A i \in 1..Len(s) : a[i] < n
  BY <1>1 DEF Below
<1>3. Below(a, n + 1)
  BY <1>1, <1>2 DEF Below
<1>4. \A i \in 1..(Len(s) - 1) : a[i] < a[i + 1]
  <2> TAKE i \in 1..(Len(s) - 1)
  <2>1. i \in 1..Len(s) /\ i + 1 \in 1..Len(s) /\ s[i] < s[i + 1]
    BY <1>1 DEF Ascending
  <2> QED
    BY <1>1, <2>1
<1>5. Ascending(a)
  <2> SUFFICES ASSUME NEW i \in 1..(Len(a) - 1) PROVE a[i] < a[i + 1]
    BY DEF Ascending
  <2>1. i \in 1..(Len(s) - 1) \/ i = Len(s)
    BY <1>1
  <2> QED
    BY <1>1, <1>2, <1>4, <2>1
<1> QED
  BY <1>3, <1>5 DEF a

\* 1, 2, ... up to a number, with the next one appended.
LEMMA CountingOn ==
    ASSUME NEW n \in Nat \ {0}
    PROVE  Append([i \in 1..(n - 1) |-> i], n) = [i \in 1..n |-> i]
<1> DEFINE s == [i \in 1..(n - 1) |-> i]
           t == [i \in 1..n |-> i]
<1>1. s \in Seq(Nat) /\ Len(s) = n - 1 /\ t \in Seq(Nat) /\ Len(t) = n
  OBVIOUS
<1>2. \A i \in 1..(n - 1) : s[i] = i
  OBVIOUS
<1>3. \A i \in 1..n : t[i] = i
  OBVIOUS
<1> HIDE DEF s, t
<1>4. /\ Append(s, n) \in Seq(Nat) /\ Len(Append(s, n)) = n
      /\ \A i \in 1..n : Append(s, n)[i] = i
  BY <1>1, <1>2, AppendProperties
<1>5. Append(s, n) = t
  BY <1>1, <1>3, <1>4, SeqEqual
<1> QED
  BY <1>5 DEF s, t

\* In an ascending sequence earlier is smaller, not only next to each other.
LEMMA AscendingPairs ==
    ASSUME NEW s \in Seq(Nat), Ascending(s), NEW i \in 1..Len(s), NEW j \in 1..Len(s), i < j
    PROVE  s[i] < s[j]
<1> DEFINE T == {k \in Nat : k \in 1..Len(s) /\ i < k /\ ~(s[i] < s[k])}
<1>1. Len(s) \in Nat /\ \A k \in 1..Len(s) : s[k] \in Nat
  BY LenProperties, ElementOfSeq
<1> SUFFICES ASSUME T # {} PROVE FALSE
  <2>1. j \in Nat
    BY <1>1
  <2> QED
    BY <2>1
<1>2. PICK k \in T : \A m \in T : k <= m
  <2>1. T \subseteq Nat
    OBVIOUS
  <2> HIDE DEF T
  <2> QED
    BY <2>1, LeastNatural
<1>3. k - 1 \in 1..(Len(s) - 1) /\ k - 1 \in Nat /\ i <= k - 1
  BY <1>1
<1>4. s[k - 1] < s[k]
  <2>1. s[k - 1] < s[(k - 1) + 1] /\ (k - 1) + 1 = k
    BY <1>3 DEF Ascending
  <2> QED
    BY <2>1
<1>5. i # k - 1
  BY <1>1, <1>4
<1>6. k - 1 \notin T
  BY <1>2, <1>3
<1>7. s[i] < s[k - 1]
  BY <1>1, <1>3, <1>5, <1>6
<1> QED
  BY <1>1, <1>3, <1>4, <1>7

\* The elements of a concatenation.
LEMMA ToSetConcat ==
    ASSUME NEW S, NEW s \in Seq(S), NEW t \in Seq(S)
    PROVE  ToSet(s \o t) = ToSet(s) \cup ToSet(t)
<1>1. /\ Len(s) \in Nat /\ Len(t) \in Nat /\ DOMAIN s = 1..Len(s) /\ DOMAIN t = 1..Len(t)
      /\ s \o t \in Seq(S) /\ Len(s \o t) = Len(s) + Len(t) /\ DOMAIN (s \o t) = 1..(Len(s) + Len(t))
  BY LenProperties, ConcatProperties
<1>2. \A i \in 1..(Len(s) + Len(t)) : (s \o t)[i] = IF i <= Len(s) THEN s[i] ELSE t[i - Len(s)]
  BY ConcatProperties
<1>3. ASSUME NEW x \in ToSet(s \o t)
      PROVE  x \in ToSet(s) \cup ToSet(t)
  <2>1. PICK i \in 1..(Len(s) + Len(t)) : x = (s \o t)[i]
    BY <1>1 DEF ToSet
  <2>2. i <= Len(s) \/ i - Len(s) \in 1..Len(t)
    BY <1>1
  <2> QED
    BY <1>1, <1>2, <2>1, <2>2 DEF ToSet
<1>4. ASSUME NEW x \in ToSet(s)
      PROVE  x \in ToSet(s \o t)
  <2>1. PICK i \in 1..Len(s) : x = s[i]
    BY <1>1 DEF ToSet
  <2>2. i \in 1..(Len(s) + Len(t)) /\ (s \o t)[i] = x
    BY <1>1, <1>2, <2>1
  <2> QED
    BY <1>1, <2>2 DEF ToSet
<1>5. ASSUME NEW x \in ToSet(t)
      PROVE  x \in ToSet(s \o t)
  <2>1. PICK i \in 1..Len(t) : x = t[i]
    BY <1>1 DEF ToSet
  <2>2. Len(s) + i \in 1..(Len(s) + Len(t)) /\ (s \o t)[Len(s) + i] = x
    BY <1>1, <1>2, <2>1
  <2> QED
    BY <1>1, <2>2 DEF ToSet
<1> QED
  BY <1>3, <1>4, <1>5

\* Both parts of an ascending concatenation ascend, and the first stays below.
LEMMA AscendingParts ==
    ASSUME NEW s \in Seq(Nat), NEW t \in Seq(Nat), Ascending(s \o t)
    PROVE  /\ Ascending(s) /\ Ascending(t)
           /\ AllBefore(s, t)
<1> DEFINE u == s \o t
<1>1. /\ Len(s) \in Nat /\ Len(t) \in Nat /\ DOMAIN s = 1..Len(s) /\ DOMAIN t = 1..Len(t)
      /\ u \in Seq(Nat) /\ Len(u) = Len(s) + Len(t)
  BY LenProperties, ConcatProperties
<1>2. \A i \in 1..(Len(s) + Len(t)) : u[i] = IF i <= Len(s) THEN s[i] ELSE t[i - Len(s)]
  BY ConcatProperties
<1>3. \A i \in 1..Len(s) : u[i] = s[i] /\ i \in 1..Len(u)
  BY <1>1, <1>2
<1>4. \A i \in 1..Len(t) : u[Len(s) + i] = t[i] /\ Len(s) + i \in 1..Len(u)
  BY <1>1, <1>2
<1> HIDE DEF u
<1>5. \A i, j \in 1..Len(u) : i < j => u[i] < u[j]
  BY <1>1, AscendingPairs DEF u
<1>6. Ascending(s)
  <2>1. \A i \in 1..(Len(s) - 1) : i \in 1..Len(s) /\ i + 1 \in 1..Len(s) /\ i < i + 1
    BY <1>1
  <2> QED
    BY <1>3, <1>5, <2>1 DEF Ascending
<1>7. Ascending(t)
  <2> SUFFICES ASSUME NEW i \in 1..(Len(t) - 1) PROVE t[i] < t[i + 1]
    BY DEF Ascending
  <2>1. i \in 1..Len(t) /\ i + 1 \in 1..Len(t) /\ Len(s) + i < Len(s) + (i + 1)
    BY <1>1
  <2>2. u[Len(s) + i] < u[Len(s) + (i + 1)]
    BY <1>4, <1>5, <2>1
  <2> QED
    BY <1>4, <2>1, <2>2
<1>8. ASSUME NEW x \in ToSet(s), NEW y \in ToSet(t)
      PROVE  x < y
  <2>1. PICK i \in 1..Len(s) : x = s[i]
    BY <1>1 DEF ToSet
  <2>2. PICK j \in 1..Len(t) : y = t[j]
    BY <1>1 DEF ToSet
  <2>3. i < Len(s) + j
    BY <1>1
  <2> QED
    BY <1>3, <1>4, <1>5, <2>1, <2>2, <2>3
<1> QED
  BY <1>6, <1>7, <1>8 DEF AllBefore

\* Two ascending sequences, one below the other, make an ascending one.
LEMMA AscendingConcat ==
    ASSUME NEW s \in Seq(Nat), NEW t \in Seq(Nat), Ascending(s), Ascending(t),
           AllBefore(s, t)
    PROVE  Ascending(s \o t)
<1>1. /\ Len(s) \in Nat /\ Len(t) \in Nat /\ DOMAIN s = 1..Len(s) /\ DOMAIN t = 1..Len(t)
      /\ Len(s \o t) = Len(s) + Len(t)
  BY LenProperties, ConcatProperties
<1>2. \A i \in 1..(Len(s) + Len(t)) : (s \o t)[i] = IF i <= Len(s) THEN s[i] ELSE t[i - Len(s)]
  BY ConcatProperties
<1> SUFFICES ASSUME NEW i \in 1..(Len(s \o t) - 1) PROVE (s \o t)[i] < (s \o t)[i + 1]
  BY DEF Ascending
<1>3. i \in 1..(Len(s) + Len(t)) /\ i + 1 \in 1..(Len(s) + Len(t))
  BY <1>1
<1>4. CASE i < Len(s)
  <2>1. (s \o t)[i] = s[i] /\ (s \o t)[i + 1] = s[i + 1] /\ i \in 1..(Len(s) - 1)
    BY <1>1, <1>2, <1>3, <1>4
  <2> QED
    BY <2>1 DEF Ascending
<1>5. CASE i = Len(s)
  <2>1. (s \o t)[i] = s[i] /\ (s \o t)[i + 1] = t[1] /\ i \in 1..Len(s) /\ 1 \in 1..Len(t)
    BY <1>1, <1>2, <1>3, <1>5
  <2> QED
    BY <1>1, <2>1 DEF ToSet, AllBefore
<1>6. CASE i > Len(s)
  <2> DEFINE k == i - Len(s)
  <2>1. k \in 1..(Len(t) - 1) /\ (i + 1) - Len(s) = k + 1 /\ ~(i <= Len(s)) /\ ~(i + 1 <= Len(s))
    BY <1>1, <1>6
  <2>2. (s \o t)[i] = t[k] /\ (s \o t)[i + 1] = t[k + 1]
    BY <1>2, <1>3, <2>1
  <2> HIDE DEF k
  <2> QED
    BY <2>1, <2>2 DEF Ascending
<1>7. i < Len(s) \/ i = Len(s) \/ i > Len(s)
  <2>1. i \in Int /\ Len(s) \in Int
    BY <1>1, <1>3
  <2>2. \A a, b \in Int : a < b \/ a = b \/ a > b
    OBVIOUS
  <2> QED
    BY <2>1, <2>2, Zenon
<1> QED
  BY <1>4, <1>5, <1>6, <1>7
-----------------------------------------------------------------------------
(* Sequences whose elements have no common type.                           *)

IsSequence(s) == \E S : s \in Seq(S)

\* A sequence is a function on 1 .. Len(s).
LEMMA SeqIsFunction ==
    ASSUME NEW s, IsSequence(s)
    PROVE  Len(s) \in Nat /\ DOMAIN s = 1 .. Len(s) /\ s = [i \in 1 .. Len(s) |-> s[i]]
<1>1. PICK S : s \in Seq(S)
  BY DEF IsSequence
<1>2. Len(s) \in Nat /\ DOMAIN s = 1 .. Len(s)
  BY <1>1, LenProperties
<1>3. s \in [1 .. Len(s) -> S]
  BY <1>1, LenProperties
<1> QED
  BY <1>2, <1>3

\* A function on 1 .. n is a sequence.
LEMMA FunctionIsSeq ==
    ASSUME NEW n \in Nat, NEW f, f = [i \in 1 .. n |-> f[i]]
    PROVE  IsSequence(f) /\ Len(f) = n
<1> DEFINE S == {f[i] : i \in 1 .. n}
<1>1. f \in [1 .. n -> S]
  <2>1. \A i \in 1 .. n : f[i] \in S
    OBVIOUS
  <2> QED
    BY <2>1, Zenon
<1> HIDE DEF S
<1>2. f \in Seq(S)
  BY <1>1, SeqDef
<1>3. DOMAIN f = 1 .. n
  BY <1>1
<1>4. Len(f) = n
  BY <1>2, <1>3, LenProperties
<1> QED
  BY <1>2, <1>4 DEF IsSequence

\* Sequences with the same elements at the same places are the same.
LEMMA SameSeq ==
    ASSUME NEW s, IsSequence(s), NEW t, IsSequence(t), Len(s) = Len(t),
           \A i \in 1 .. Len(s) : s[i] = t[i]
    PROVE  s = t
<1>1. s = [i \in 1 .. Len(s) |-> s[i]] /\ t = [i \in 1 .. Len(s) |-> t[i]]
  BY SeqIsFunction
<1> QED
  BY <1>1, Zenon

\* Append adds an element and keeps the others.
LEMMA AppendToSeq ==
    ASSUME NEW s, IsSequence(s), NEW x
    PROVE  /\ IsSequence(Append(s, x)) /\ Len(Append(s, x)) = Len(s) + 1
           /\ \A i \in 1 .. Len(s) : Append(s, x)[i] = s[i]
           /\ Append(s, x)[Len(s) + 1] = x
           /\ Append(s, x) # << >>
<1>1. PICK S : s \in Seq(S)
  BY DEF IsSequence
<1> DEFINE T == S \cup {x}
<1>2. s \in Seq(T) /\ x \in T
  <2>1. S \subseteq T /\ x \in T
    OBVIOUS
  <2> HIDE DEF T
  <2>2. s \in [1 .. Len(s) -> S] /\ Len(s) \in Nat
    BY <1>1, LenProperties
  <2>3. s \in [1 .. Len(s) -> T]
    BY <2>1, <2>2
  <2> QED
    BY <2>1, <2>2, <2>3, SeqDef
<1> HIDE DEF T
<1>3. /\ Append(s, x) \in Seq(T) /\ Len(Append(s, x)) = Len(s) + 1
      /\ \A i \in 1 .. Len(s) : Append(s, x)[i] = s[i]
      /\ Append(s, x)[Len(s) + 1] = x
  BY <1>2, AppendProperties
<1>4. Append(s, x) # << >>
  <2>1. Len(s) \in Nat
    BY <1>2, LenProperties
  <2>2. Len(<< >>) = 0
    OBVIOUS
  <2> QED
    BY <1>3, <2>1, <2>2
<1> QED
  BY <1>3, <1>4 DEF IsSequence

\* The empty sequence is one.
LEMMA EmptyIsSeq == IsSequence(<< >>) /\ Len(<< >>) = 0
<1>1. << >> \in Seq({})
  OBVIOUS
<1> QED
  BY <1>1 DEF IsSequence

\* What \o does.
LEMMA ConcatOfSeqs ==
    ASSUME NEW s, IsSequence(s), NEW t, IsSequence(t)
    PROVE  /\ IsSequence(s \o t) /\ Len(s \o t) = Len(s) + Len(t)
           /\ \A i \in 1 .. Len(s) : (s \o t)[i] = s[i]
           /\ \A i \in 1 .. Len(t) : (s \o t)[Len(s) + i] = t[i]
<1>1. PICK S : s \in Seq(S)
  BY DEF IsSequence
<1>2. PICK R : t \in Seq(R)
  BY DEF IsSequence
<1> DEFINE T == S \cup R
<1>3. Len(s) \in Nat /\ Len(t) \in Nat /\ s \in [1 .. Len(s) -> S] /\ t \in [1 .. Len(t) -> R]
  BY <1>1, <1>2, LenProperties
<1>4. s \in Seq(T) /\ t \in Seq(T)
  <2>1. S \subseteq T /\ R \subseteq T
    OBVIOUS
  <2> HIDE DEF T
  <2>2. s \in [1 .. Len(s) -> T] /\ t \in [1 .. Len(t) -> T]
    BY <1>3, <2>1
  <2> QED
    BY <1>3, <2>2, SeqDef
<1> HIDE DEF T
<1>5. /\ s \o t \in Seq(T) /\ Len(s \o t) = Len(s) + Len(t)
      /\ \A i \in 1 .. Len(s) + Len(t) : (s \o t)[i] = IF i <= Len(s) THEN s[i] ELSE t[i - Len(s)]
  BY <1>4, ConcatProperties
<1>6. \A i \in 1 .. Len(s) : (s \o t)[i] = s[i]
  BY <1>3, <1>5
<1>7. ASSUME NEW i \in 1 .. Len(t)
      PROVE  (s \o t)[Len(s) + i] = t[i]
  <2>1. Len(s) + i \in 1 .. Len(s) + Len(t) /\ ~ (Len(s) + i <= Len(s)) /\ Len(s) + i - Len(s) = i
    BY <1>3
  <2> QED
    BY <1>5, <2>1
<1> QED
  BY <1>5, <1>6, <1>7 DEF IsSequence

\* Append reaches through \o.
LEMMA ConcatAppend ==
    ASSUME NEW s, IsSequence(s), NEW t, IsSequence(t), NEW x
    PROVE  s \o Append(t, x) = Append(s \o t, x)
<1> DEFINE u == Append(t, x)
           v == s \o t
           w == Append(v, x)
           y == s \o u
           k == Len(s)
           n == Len(t)
<1>1. k \in Nat /\ n \in Nat
  BY SeqIsFunction
<1>2. /\ IsSequence(u) /\ Len(u) = n + 1 /\ (\A i \in 1 .. n : u[i] = t[i]) /\ u[n + 1] = x
  BY AppendToSeq
<1>3. /\ IsSequence(v) /\ Len(v) = k + n
  BY ConcatOfSeqs
<1>4. \A i \in 1 .. k : v[i] = s[i]
  BY ConcatOfSeqs
<1>5. \A i \in 1 .. n : v[k + i] = t[i]
  BY ConcatOfSeqs
<1> HIDE DEF u
<1>6. IsSequence(y) /\ Len(y) = k + (n + 1)
  <2>1. IsSequence(y) /\ Len(y) = Len(s) + Len(u)
    BY <1>2, ConcatOfSeqs
  <2> QED
    BY <1>2, <2>1
<1>7. \A i \in 1 .. k : y[i] = s[i]
  BY <1>2, ConcatOfSeqs
<1>8. \A i \in 1 .. n + 1 : y[k + i] = u[i]
  <2>1. \A i \in 1 .. Len(u) : y[k + i] = u[i]
    BY <1>2, ConcatOfSeqs
  <2> QED
    BY <1>2, <2>1
<1> HIDE DEF v, y, k, n
<1>9. /\ IsSequence(w) /\ Len(w) = k + n + 1 /\ (\A i \in 1 .. k + n : w[i] = v[i])
      /\ w[k + n + 1] = x
  BY <1>3, AppendToSeq
<1> HIDE DEF w
<1>10. ASSUME NEW i \in 1 .. Len(y) PROVE y[i] = w[i]
  <2>1. CASE i \in 1 .. k
    <3>1. i \in 1 .. k + n
      BY <1>1, <2>1
    <3> QED
      BY <1>4, <1>7, <1>9, <2>1, <3>1
  <2>2. CASE i \in k + 1 .. k + n
    <3>1. PICK j \in 1 .. n : i = k + j
      <4>1. i - k \in 1 .. n /\ i = k + (i - k)
        BY <1>1, <2>2
      <4> QED
        BY <4>1
    <3>2. i \in 1 .. k + n /\ j \in 1 .. n + 1
      BY <1>1, <2>2
    <3>3. w[i] = v[k + j] /\ y[i] = u[j]
      BY <1>8, <1>9, <3>1, <3>2
    <3> QED
      BY <1>2, <1>5, <3>3
  <2>3. CASE i = k + n + 1
    <3>1. PICK j \in 1 .. n + 1 : j = n + 1
      BY <1>1
    <3>2. i = k + j
      BY <1>1, <2>3, <3>1
    <3>3. y[k + j] = u[j]
      BY <1>8
    <3> QED
      BY <1>2, <1>9, <2>3, <3>1, <3>2, <3>3
  <2> QED
    BY <1>1, <1>6, <2>1, <2>2, <2>3
<1>11. Len(y) = Len(w)
  BY <1>1, <1>6, <1>9
<1>12. y = w
  BY <1>6, <1>9, <1>10, <1>11, SameSeq
<1> QED
  BY <1>12 DEF y, w, v, u

\* What a sequence gains from the empty one, or from one element.
LEMMA ConcatSmall ==
    ASSUME NEW s, IsSequence(s), NEW x
    PROVE  s \o << >> = s /\ s \o <<x>> = Append(s, x)
<1>1. PICK S : s \in Seq(S)
  BY DEF IsSequence
<1>2. s \o << >> = s
  BY <1>1
<1>3. Append(s, x) = s \o <<x>>
  <2>0. PICK y : y = <<x>>
    OBVIOUS
  <2>1. IsSequence(y) /\ Len(y) = 1 /\ y[1] = x
    <3>1. y \in Seq({x})
      BY <2>0
    <3> QED
      BY <2>0, <3>1 DEF IsSequence
  <2>2. /\ IsSequence(Append(s, x)) /\ Len(Append(s, x)) = Len(s) + 1
        /\ \A i \in 1 .. Len(s) : Append(s, x)[i] = s[i]
        /\ Append(s, x)[Len(s) + 1] = x
    BY AppendToSeq
  <2>3. IsSequence(s \o y) /\ Len(s \o y) = Len(s) + Len(y)
    BY <2>1, ConcatOfSeqs
  <2>4. Len(s) \in Nat
    BY SeqIsFunction
  <2>5. (s \o y)[Len(s) + 1] = x
    <3>1. \A i \in 1 .. Len(y) : (s \o y)[Len(s) + i] = y[i]
      BY <2>1, ConcatOfSeqs
    <3> QED
      BY <2>1, <3>1
  <2>6. \A i \in 1 .. Len(s) : (s \o y)[i] = s[i]
    BY <2>1, ConcatOfSeqs
  <2>7. \A i \in 1 .. Len(s) + 1 : i \in 1 .. Len(s) \/ i = Len(s) + 1
    BY <2>4
  <2>8. \A i \in 1 .. Len(s) + 1 : Append(s, x)[i] = (s \o y)[i]
    BY <2>2, <2>5, <2>6, <2>7, Zenon
  <2>9. Append(s, x) = s \o y
    BY <2>1, <2>2, <2>3, <2>8, SameSeq
  <2> QED
    BY <2>0, <2>9
<1> QED
  BY <1>2, <1>3

\* A sequence is empty if it has length 0.
LEMMA EmptyOrNot ==
    ASSUME NEW s, IsSequence(s)
    PROVE  s = << >> <=> Len(s) = 0
<1>1. PICK S : s \in Seq(S)
  BY DEF IsSequence
<1> QED
  BY <1>1, EmptySeq

-----------------------------------------------------------------------------
(* Recursive functions on an interval.  The step that makes a value from   *)
(* the one before is itself a function, from S to S, for every place.      *)

Steps(g, b, n, S) ==
    b \in Nat /\ n \in Nat /\ b <= n /\ \A k \in b + 1 .. n : g[k] \in [S -> S]
Follows(f, g, b, n) == \A k \in b + 1 .. n : f[k] = g[k][f[k - 1]]

\* There is one.
LEMMA Recursion ==
    ASSUME NEW S, NEW a \in S, NEW b, NEW n, NEW g, Steps(g, b, n, S)
    PROVE  \E f : f \in [b .. n -> S] /\ f[b] = a /\ Follows(f, g, b, n)
<1> USE DEF Steps, Follows
<1> DEFINE P(x) == \E f : /\ f \in [b .. x -> S] /\ f[b] = a
                          /\ \A k \in b + 1 .. x : f[k] = g[k][f[k - 1]]
           T == {x \in b .. n : ~ P(x)}
<1> SUFFICES ASSUME T # {} PROVE FALSE
  <2>1. n \in b .. n
    OBVIOUS
  <2> QED
    BY <2>1, Zenon
<1>1. PICK x \in T : \A y \in T : x <= y
  <2>1. T \subseteq Nat
    OBVIOUS
  <2> HIDE DEF T
  <2> QED
    BY <2>1, LeastNatural
<1>2. x \in b .. n /\ ~ P(x)
  OBVIOUS
<1>3. CASE x = b
  <2> DEFINE f == [k \in b .. b |-> a]
  <2>1. f \in [b .. b -> S] /\ f[b] = a
    OBVIOUS
  <2>2. \A k \in b + 1 .. b : f[k] = g[k][f[k - 1]]
    OBVIOUS
  <2> HIDE DEF f
  <2> QED
    BY <1>2, <1>3, <2>1, <2>2
<1>4. CASE x # b
  <2>1. x - 1 \in b .. n /\ x - 1 \notin T
    BY <1>1, <1>2, <1>4
  <2>2. PICK f : /\ f \in [b .. x - 1 -> S] /\ f[b] = a
                 /\ \A k \in b + 1 .. x - 1 : f[k] = g[k][f[k - 1]]
    BY <2>1
  <2> HIDE DEF T
  <2>3. x \in b + 1 .. n /\ x - 1 \in b .. x - 1
    BY <1>2, <1>4
  <2> DEFINE v == g[x][f[x - 1]]
             h == [k \in b .. x |-> IF k = x THEN v ELSE f[k]]
  <2>4. v \in S
    BY <2>2, <2>3
  <2> HIDE DEF v
  <2>5. h \in [b .. x -> S]
    BY <1>2, <2>2, <2>4
  <2>6. \A k \in b .. x : h[k] = IF k = x THEN v ELSE f[k]
    OBVIOUS
  <2> HIDE DEF h
  <2>7. h[b] = a
    BY <1>2, <1>4, <2>2, <2>6
  <2>8. ASSUME NEW k \in b + 1 .. x
        PROVE  h[k] = g[k][h[k - 1]]
    <3>1. k - 1 \in b .. x /\ k - 1 # x /\ k \in b .. x
      BY <1>2
    <3>2. h[k - 1] = f[k - 1]
      BY <2>6, <3>1
    <3>3. CASE k = x
      BY <2>6, <3>1, <3>2, <3>3 DEF v
    <3>4. CASE k # x
      <4>1. k \in b + 1 .. x - 1
        BY <1>2, <3>4
      <4> QED
        BY <2>2, <2>6, <3>1, <3>2, <3>4, <4>1
    <3> QED
      BY <3>3, <3>4
  <2> QED
    BY <1>2, <2>5, <2>7, <2>8
<1> QED
  BY <1>3, <1>4

\* And only one.
LEMMA RecursionUnique ==
    ASSUME NEW b \in Nat, NEW n \in Nat, NEW g, NEW f, NEW h, f[b] = h[b],
           Follows(f, g, b, n), Follows(h, g, b, n)
    PROVE  \A k \in b .. n : f[k] = h[k]
<1> USE DEF Follows
<1> DEFINE T == {k \in b .. n : f[k] # h[k]}
<1> SUFFICES ASSUME T # {} PROVE FALSE
  OBVIOUS
<1>1. PICK k \in T : \A y \in T : k <= y
  <2>1. T \subseteq Nat
    OBVIOUS
  <2> HIDE DEF T
  <2> QED
    BY <2>1, LeastNatural
<1>2. k \in b .. n /\ f[k] # h[k]
  OBVIOUS
<1>3. k \in b + 1 .. n /\ k - 1 \in b .. n /\ k - 1 \notin T
  BY <1>1, <1>2
<1>4. f[k - 1] = h[k - 1]
  BY <1>3
<1> QED
  BY <1>2, <1>3, <1>4

-----------------------------------------------------------------------------
(* FlattenSeq.                                                             *)

\* FlattenSeq concatenates from the left.
LEMMA FlattenIs ==
    ASSUME NEW U, NEW ss \in Seq(Seq(U)), Len(ss) # 0
    PROVE  \E f : /\ f \in [1 .. Len(ss) -> Seq(U)] /\ f[1] = ss[1]
                  /\ \A k \in 2 .. Len(ss) : f[k] = f[k - 1] \o ss[k]
                  /\ FlattenSeq(ss) = f[Len(ss)]
<1> DEFINE n == Len(ss)
           V == Seq(U)
           g == [k \in 2 .. n |-> [x \in V |-> x \o ss[k]]]
           IsFlat(f) == f = [i \in 1 .. n |-> IF i = 1 THEN ss[i] ELSE f[i - 1] \o ss[i]]
<1>1. n \in Nat /\ 1 <= n /\ 1 \in 1 .. n /\ \A i \in 1 .. n : ss[i] \in V
  BY LenProperties, ElementOfSeq
<1>2. \A k \in 2 .. n : g[k] \in [V -> V]
  <2>1. ASSUME NEW k \in 2 .. n, NEW x \in V PROVE x \o ss[k] \in V
    BY <1>1, ConcatProperties
  <2> HIDE DEF V
  <2> QED
    BY <2>1
<1>3. \A k \in 2 .. n, x \in V : g[k][x] = x \o ss[k]
  BY Zenon
<1>4. FlattenSeq(ss) = (CHOOSE f : IsFlat(f))[n]
  BY <1>1, Zenon DEF FlattenSeq
<1> HIDE DEF n, V, g
<1>5. PICK f : /\ f \in [1 .. n -> V] /\ f[1] = ss[1]
               /\ \A k \in 1 + 1 .. n : f[k] = g[k][f[k - 1]]
  <2>1. PICK b \in Nat : b = 1
    OBVIOUS
  <2>2. PICK a \in V : a = ss[1]
    BY <1>1
  <2>3. Steps(g, b, n, V)
    BY <1>1, <1>2, <2>1 DEF Steps
  <2>4. \E f : f \in [b .. n -> V] /\ f[b] = a /\ Follows(f, g, b, n)
    BY <2>2, <2>3, Recursion
  <2> QED
    BY <2>1, <2>2, <2>4 DEF Follows
<1>6. IsFlat(f)
  <2>1. ASSUME NEW i \in 1 .. n, i # 1 PROVE f[i] = f[i - 1] \o ss[i]
    <3>1. i \in 2 .. n /\ i \in 1 + 1 .. n /\ i - 1 \in 1 .. n
      BY <1>1, <2>1
    <3>2. f[i - 1] \in V
      BY <1>5, <3>1
    <3> QED
      BY <1>3, <1>5, <3>1, <3>2, Zenon
  <2>2. \A i \in 1 .. n : f[i] = IF i = 1 THEN ss[i] ELSE f[i - 1] \o ss[i]
    BY <1>5, <2>1, Zenon
  <2>3. f = [i \in 1 .. n |-> f[i]]
    BY <1>5
  <2> QED
    BY <2>2, <2>3, Zenon
<1>7. PICK h : IsFlat(h) /\ FlattenSeq(ss) = h[n]
  BY <1>4, <1>6, Zenon
<1>8. DOMAIN h = 1 .. n /\ h[1] = ss[1]
  BY <1>1, <1>7, Zenon
<1>9. \A k \in 2 .. n : h[k] = h[k - 1] \o ss[k]
  <2>1. \A k \in 2 .. n : k \in 1 .. n /\ k # 1
    BY <1>1
  <2> QED
    BY <1>7, <2>1, Zenon
<1>10. \A k \in 1 .. n : h[k] \in V
  <2> DEFINE T == {k \in 1 .. n : h[k] \notin V}
  <2> SUFFICES ASSUME T # {} PROVE FALSE
    OBVIOUS
  <2>1. PICK k \in T : \A y \in T : k <= y
    <3>1. T \subseteq Nat
      BY <1>1
    <3> HIDE DEF T
    <3> QED
      BY <3>1, LeastNatural
  <2>2. k \in 1 .. n /\ h[k] \notin V
    OBVIOUS
  <2>3. k # 1
    BY <1>1, <1>8, <2>2
  <2>4. k \in 2 .. n /\ k - 1 \in 1 .. n /\ k - 1 \notin T
    BY <1>1, <2>1, <2>2, <2>3
  <2>5. h[k - 1] \in V /\ ss[k] \in V
    BY <1>1, <2>2, <2>4
  <2>6. h[k - 1] \o ss[k] \in V
    BY <2>5, ConcatProperties DEF V
  <2> QED
    BY <1>9, <2>2, <2>4, <2>6
<1>11. h \in [1 .. n -> V]
  <2>1. h = [i \in 1 .. n |-> h[i]]
    BY <1>7, <1>8, Zenon
  <2> QED
    BY <1>10, <2>1
<1> QED
  BY <1>7, <1>8, <1>9, <1>11 DEF n, V

\* Flattening one sequence more.
LEMMA FlattenTyped ==
    ASSUME NEW U, NEW ss \in Seq(Seq(U)), NEW s \in Seq(U)
    PROVE  FlattenSeq(ss) \in Seq(U) /\ FlattenSeq(Append(ss, s)) = FlattenSeq(ss) \o s
<1> DEFINE V == Seq(U)
           tt == Append(ss, s)
           n == Len(ss)
<1>1. n \in Nat /\ n + 1 \in Nat /\ tt \in Seq(V) /\ Len(tt) = n + 1
  BY LenProperties, AppendProperties
<1>2. (\A i \in 1 .. n : tt[i] = ss[i]) /\ tt[n + 1] = s
  BY AppendProperties
<1>3. Len(tt) # 0
  BY <1>1
<1> HIDE DEF n, tt
<1>4. PICK h : /\ h \in [1 .. n + 1 -> V] /\ h[1] = tt[1]
               /\ \A k \in 2 .. n + 1 : h[k] = h[k - 1] \o tt[k]
               /\ FlattenSeq(tt) = h[n + 1]
  <2>1. PICK h : /\ h \in [1 .. Len(tt) -> V] /\ h[1] = tt[1]
                 /\ \A k \in 2 .. Len(tt) : h[k] = h[k - 1] \o tt[k]
                 /\ FlattenSeq(tt) = h[Len(tt)]
    BY <1>1, <1>3, FlattenIs
  <2>2. Len(tt) = n + 1
    BY <1>1
  <2> HIDE DEF V
  <2>3. h \in [1 .. n + 1 -> V] /\ FlattenSeq(tt) = h[n + 1]
    BY <2>1, <2>2
  <2>4. \A k \in 2 .. n + 1 : h[k] = h[k - 1] \o tt[k]
    BY <2>1, <2>2
  <2> QED
    BY <2>1, <2>3, <2>4, Zenon
<1>5. CASE n = 0
  <2>1. FlattenSeq(ss) = ss /\ ss = << >>
    BY <1>5, EmptySeq DEF FlattenSeq, n
  <2>2. << >> \in Seq(U) /\ << >> \o s = s
    OBVIOUS
  <2>3. FlattenSeq(tt) = s
    BY <1>2, <1>4, <1>5
  <2> QED
    BY <2>1, <2>2, <2>3 DEF tt
<1>6. CASE n # 0
  <2>1. PICK f : /\ f \in [1 .. n -> V] /\ f[1] = ss[1]
                 /\ \A k \in 2 .. n : f[k] = f[k - 1] \o ss[k]
                 /\ FlattenSeq(ss) = f[n]
    BY <1>6, FlattenIs DEF n
  <2> DEFINE g == [k \in 2 .. n |-> [x \in V |-> x \o ss[k]]]
  <2>2. \A k \in 2 .. n, x \in V : g[k][x] = x \o ss[k]
    BY Zenon
  <2> HIDE DEF g, V
  <2>3. 1 \in 1 .. n /\ n \in 1 .. n /\ n + 1 \in 2 .. n + 1
    BY <1>1, <1>6
  <2>4. ASSUME NEW k \in 2 .. n
        PROVE  f[k] = g[k][f[k - 1]] /\ h[k] = g[k][h[k - 1]]
    <3>1. k - 1 \in 1 .. n /\ k - 1 \in 1 .. n + 1 /\ k \in 2 .. n + 1 /\ k \in 1 .. n
      BY <1>1
    <3>2. f[k - 1] \in V /\ h[k - 1] \in V
      BY <1>4, <2>1, <3>1
    <3>3. g[k][f[k - 1]] = f[k - 1] \o ss[k] /\ g[k][h[k - 1]] = h[k - 1] \o ss[k]
      BY <2>2, <3>2, Zenon
    <3>4. f[k] = f[k - 1] \o ss[k]
      BY <2>1, Zenon
    <3>5. h[k] = h[k - 1] \o tt[k] /\ tt[k] = ss[k]
      BY <1>2, <1>4, <3>1, Zenon
    <3> QED
      BY <3>3, <3>4, <3>5, Zenon
  <2>5. f[1] = h[1]
    BY <1>2, <1>4, <2>1, <2>3
  <2>6. \A k \in 1 .. n : f[k] = h[k]
    <3>0. PICK b \in Nat : b = 1
      OBVIOUS
    <3>1. b <= n /\ f[b] = h[b] /\ \A k \in b + 1 .. n : k \in 2 .. n
      BY <1>1, <1>6, <2>5, <3>0
    <3>2. Follows(f, g, b, n) /\ Follows(h, g, b, n)
      BY <2>4, <3>1, Zenon DEF Follows
    <3>3. \A k \in b .. n : f[k] = h[k]
      BY <1>1, <3>0, <3>1, <3>2, RecursionUnique
    <3> QED
      BY <3>0, <3>3
  <2>7. h[n + 1] = h[n] \o s
    <3>1. PICK k \in 2 .. n + 1 : k = n + 1
      BY <2>3
    <3>2. k - 1 = n
      BY <1>1, <3>1
    <3>3. h[k] = h[k - 1] \o tt[k]
      BY <1>4, <3>1
    <3> QED
      BY <1>2, <3>1, <3>2, <3>3
  <2>8. FlattenSeq(tt) = FlattenSeq(ss) \o s
    BY <1>4, <2>1, <2>3, <2>6, <2>7
  <2>9. FlattenSeq(ss) \in V
    BY <2>1, <2>3
  <2> QED
    BY <2>8, <2>9 DEF tt, V
<1> QED
  BY <1>5, <1>6

\* The same without types.
LEMMA FlattenAppend ==
    ASSUME NEW ss, IsSequence(ss), \A i \in 1 .. Len(ss) : IsSequence(ss[i]), NEW s, IsSequence(s)
    PROVE  IsSequence(FlattenSeq(ss)) /\ FlattenSeq(Append(ss, s)) = FlattenSeq(ss) \o s
<1> DEFINE n == Len(ss)
           In(i) == {ss[i][j] : j \in 1 .. Len(ss[i])}
           W == {s[j] : j \in 1 .. Len(s)}
           X == UNION {In(i) : i \in 1 .. n}
           U == X \cup W
<1>1. n \in Nat /\ ss = [i \in 1 .. n |-> ss[i]]
  BY SeqIsFunction
<1>2. s \in Seq(U)
  <2>1. \A j \in 1 .. Len(s) : s[j] \in U
    <3>1. \A j \in 1 .. Len(s) : s[j] \in W
      OBVIOUS
    <3> HIDE DEF W, X
    <3>2. \A x \in W : x \in U
      BY Zenon
    <3> HIDE DEF U, W
    <3> QED
      BY <3>1, <3>2, Zenon
  <2> HIDE DEF U
  <2>2. Len(s) \in Nat /\ s = [j \in 1 .. Len(s) |-> s[j]]
    BY SeqIsFunction
  <2>3. s \in [1 .. Len(s) -> U]
    BY <2>1, <2>2
  <2> QED
    BY <2>2, <2>3, SeqDef
<1>3. ASSUME NEW i \in 1 .. n PROVE ss[i] \in Seq(U)
  <2>0. IsSequence(ss[i])
    OBVIOUS
  <2>1. \A j \in 1 .. Len(ss[i]) : ss[i][j] \in In(i)
    OBVIOUS
  <2>2. In(i) \subseteq U
    BY Zenon
  <2> HIDE DEF U, In
  <2>3. Len(ss[i]) \in Nat /\ ss[i] = [j \in 1 .. Len(ss[i]) |-> ss[i][j]]
    BY <2>0, SeqIsFunction
  <2>4. ss[i] \in [1 .. Len(ss[i]) -> U]
    BY <2>1, <2>2, <2>3
  <2> QED
    BY <2>3, <2>4, SeqDef
<1> HIDE DEF U
<1>4. ss \in Seq(Seq(U))
  <2> DEFINE V == Seq(U)
  <2>1. \A i \in 1 .. n : ss[i] \in V
    BY <1>3
  <2> HIDE DEF V, n
  <2>2. ss \in [1 .. n -> V]
    BY <1>1, <2>1
  <2>3. ss \in Seq(V)
    BY <1>1, <2>2, SeqDef
  <2> QED
    BY <2>3 DEF V
<1>5. FlattenSeq(ss) \in Seq(U) /\ FlattenSeq(Append(ss, s)) = FlattenSeq(ss) \o s
  BY <1>2, <1>4, FlattenTyped
<1> QED
  BY <1>5 DEF IsSequence
=============================================================================
