-------------------------- MODULE ConvertersProofs --------------------------
(***************************************************************************)
(* Proofs about Converters: the CTF stream of a core can be read back and  *)
(* walked packet by packet, the two converters show the same calls, and    *)
(* every variable has its type, for any cores, images, messages, length of *)
(* the queue and width of the compact time stamps.                         *)
(*                                                                         *)
(* The first half is about sequences alone: sizes, times, queues, packets  *)
(* and files, with facts about what one more event or one more packet      *)
(* does.  CoreInv puts them together for one core and StreamInv for all;   *)
(* they are kept by adding an event, by a flush, and by the clock.  The    *)
(* second half is about the files of calls, which are filtered sequences   *)
(* (At), and relates them line by line to the events added (AgreeInv).     *)
(***************************************************************************)
EXTENDS Converters, DataLemmas

-----------------------------------------------------------------------------
(* Sizes.                                                                  *)

\* The running sums of the sizes of the events of a queue, from a on.
Sums(f, a, q) == f = [i \in 0 .. Len(q) |-> IF i = 0 THEN a ELSE f[i - 1] + EventBytes(q[i])]

\* An event has a size.
LEMMA EventBytesNat == \A e : EventBytes(e) \in Nat
  BY DEF EventBytes, IdBytes, ExtendedBytes, CompactBytes, EventContextBytes, PayloadBytes

\* There are such sums.
LEMMA SumsExist ==
    ASSUME NEW q, IsSequence(q), NEW a \in Nat
    PROVE  \E f : Sums(f, a, q)
<1> DEFINE n == Len(q)
           g == [k \in 1 .. n |-> [x \in Nat |-> x + EventBytes(q[k])]]
<1>1. PICK b \in Nat : b = 0
  OBVIOUS
<1>2. n \in Nat
  BY SeqIsFunction
<1>3. \A k \in 1 .. n, x \in Nat : g[k][x] = x + EventBytes(q[k])
  BY Zenon
<1>4. \A k \in 1 .. n : g[k] \in [Nat -> Nat]
  BY EventBytesNat
<1> HIDE DEF n, g
<1>5. Steps(g, b, n, Nat)
  BY <1>1, <1>2, <1>4 DEF Steps
<1>6. PICK f : f \in [b .. n -> Nat] /\ f[b] = a /\ Follows(f, g, b, n)
  BY <1>5, Recursion
<1>7. ASSUME NEW i \in 0 .. n
      PROVE  f[i] = IF i = 0 THEN a ELSE f[i - 1] + EventBytes(q[i])
  <2>1. CASE i = 0
    BY <1>1, <1>6, <2>1
  <2>2. CASE i # 0
    <3>1. i \in 1 .. n /\ i \in b + 1 .. n /\ i - 1 \in b .. n
      BY <1>1, <1>2, <2>2
    <3>2. f[i] = g[i][f[i - 1]] /\ f[i - 1] \in Nat
      BY <1>6, <3>1 DEF Follows
    <3> QED
      BY <1>3, <2>2, <3>1, <3>2, Zenon
  <2> QED
    BY <2>1, <2>2
<1>8. f = [i \in 0 .. n |-> f[i]]
  BY <1>1, <1>6
<1>9. Sums(f, a, q)
  BY <1>7, <1>8, Zenon DEF Sums, n
<1> QED
  BY <1>9

\* The header of a packet promises as many bytes as its events are written in.
LEMMA WrittenAsPromised ==
    ASSUME NEW q, IsSequence(q), NEW bytes \in Nat
    PROVE  /\ computeEventSizes(q) \in Nat
           /\ writeEvents(bytes, q) = bytes + computeEventSizes(q)
<1> DEFINE n == Len(q)
<1>0. PICK z \in Nat : z = 0
  OBVIOUS
<1>1. n \in Nat
  BY SeqIsFunction
<1>2. PICK s : Sums(s, 0, q) /\ computeEventSizes(q) = s[n]
  <2>1. \E f : Sums(f, z, q)
    BY SumsExist
  <2>2. computeEventSizes(q) = (CHOOSE f : Sums(f, 0, q))[n]
    BY Zenon DEF computeEventSizes, Sums
  <2> QED
    BY <1>0, <2>1, <2>2, Zenon
<1>3. PICK w : Sums(w, bytes, q) /\ writeEvents(bytes, q) = w[n]
  <2>1. \E f : Sums(f, bytes, q)
    BY SumsExist
  <2>2. writeEvents(bytes, q) = (CHOOSE f : Sums(f, bytes, q))[n]
    BY Zenon DEF writeEvents, writeEvent, Sums
  <2> QED
    BY <2>1, <2>2, Zenon
<1>4. /\ \A i \in 0 .. n : s[i] = IF i = 0 THEN 0 ELSE s[i - 1] + EventBytes(q[i])
      /\ \A i \in 0 .. n : w[i] = IF i = 0 THEN bytes ELSE w[i - 1] + EventBytes(q[i])
  BY <1>2, <1>3, Zenon DEF Sums
<1> HIDE DEF n
<1> DEFINE T == {i \in 0 .. n : ~ (s[i] \in Nat /\ w[i] = bytes + s[i])}
<1>5. T = {}
  <2> SUFFICES ASSUME T # {} PROVE FALSE
    OBVIOUS
  <2>1. PICK i \in T : \A y \in T : i <= y
    <3>1. T \subseteq Nat
      BY <1>1
    <3> HIDE DEF T
    <3> QED
      BY <3>1, LeastNatural
  <2>2. i \in 0 .. n /\ ~ (s[i] \in Nat /\ w[i] = bytes + s[i])
    OBVIOUS
  <2>3. i # 0
    BY <1>4, <2>2
  <2>4. i - 1 \in 0 .. n /\ i - 1 \notin T
    BY <1>1, <2>1, <2>2, <2>3
  <2>5. s[i - 1] \in Nat /\ w[i - 1] = bytes + s[i - 1]
    BY <2>4
  <2> HIDE DEF T
  <2>6. s[i] = s[i - 1] + EventBytes(q[i]) /\ w[i] = w[i - 1] + EventBytes(q[i])
    BY <1>4, <2>2, <2>3
  <2>7. EventBytes(q[i]) \in Nat
    BY EventBytesNat
  <2> QED
    BY <2>2, <2>5, <2>6, <2>7
<1>6. n \in 0 .. n
  BY <1>1
<1>7. s[n] \in Nat /\ w[n] = bytes + s[n]
  BY <1>5, <1>6
<1> QED
  BY <1>2, <1>3, <1>7

-----------------------------------------------------------------------------
(* Times.                                                                  *)

\* An event of a queue: it has a time, which is a full one or a low part.
Timed(e) ==
    /\ e.time \in Nat
    /\ e.form \in {"extended", "compact"}
    /\ e.form = "compact" => e.time < CompactMod

\* The time at place i, from the one before.
TimeAt(q, t, i) ==
    IF q[i].form = "extended" THEN q[i].time ELSE Later(t[i - 1], q[i].time)
Times(t, q) == t = [i \in 0 .. Len(q) |-> IF i = 0 THEN 0 ELSE TimeAt(q, t, i)]

\* The time a reader computes is the next one with the low part.
LEMMA LaterIsNext ==
    ASSUME NEW t \in Nat, NEW low \in 0 .. CompactMod - 1
    PROVE  /\ Later(t, low) \in Nat /\ t <= Later(t, low) /\ Later(t, low) < t + CompactMod
           /\ Later(t, low) % CompactMod = low
<1> DEFINE M == CompactMod
           q == t \div M
           k == M * q
           r == M * (q + 1)
<1>1. M \in Nat /\ M > 0 /\ M \in Int
  BY ConvertersAssumption
<1>2. q \in Int /\ k \in Int /\ r \in Int /\ low \in 0 .. M - 1
  BY <1>1
<1>3. Later(t, low) = IF k + low >= t THEN k + low ELSE k + low + M
  <2>1. q * M = k
    BY <1>1, <1>2
  <2> QED
    BY <2>1, Zenon DEF Later
<1>4. q = t \div M
  OBVIOUS
<1> HIDE DEF M, q
<1>5. k <= t /\ t < k + M
  BY <1>1, <1>2, <1>4, InBlock
<1>6. (k + low) % M = low
  BY <1>1, <1>2, BlockIs
<1>7. (r + low) % M = low
  <2>1. q + 1 \in Int
    BY <1>2
  <2> QED
    BY <1>1, <1>2, <2>1, BlockIs
<1>8. r = k + M
  BY <1>1, <1>2
<1> HIDE DEF k, r
<1>9. k + low \in Int /\ r + low = k + low + M
  BY <1>1, <1>2, <1>8
<1>10. CASE k + low >= t
  BY <1>1, <1>2, <1>3, <1>5, <1>6, <1>10 DEF M
<1>11. CASE ~ (k + low >= t)
  <2>1. Later(t, low) = r + low
    BY <1>3, <1>9, <1>11
  <2>2. r + low \in Nat /\ t <= r + low /\ r + low < t + M
    BY <1>1, <1>2, <1>5, <1>8, <1>11
  <2> QED
    BY <1>7, <2>1, <2>2 DEF M
<1> QED
  BY <1>10, <1>11

\* So a time less than CompactMod later is got back from its low part.
LEMMA LaterGivesBack ==
    ASSUME NEW t \in Nat, NEW u \in Nat, t <= u, u < t + CompactMod
    PROVE  Later(t, u % CompactMod) = u
<1> DEFINE M == CompactMod
           low == u % M
           v == Later(t, low)
           p == u \div M
           q == v \div M
<1>1. M \in Nat /\ M > 0 /\ M \in Int
  BY ConvertersAssumption
<1>2. low \in 0 .. M - 1
  BY <1>1
<1>3. v \in Nat /\ t <= v /\ v < t + M /\ v % M = low
  BY <1>2, LaterIsNext
<1>4. p \in Int /\ q \in Int
  BY <1>1, <1>3
<1>5. u % M = u - M * p /\ v % M = v - M * q
  BY <1>1, <1>3
<1>6. low = u % M
  OBVIOUS
<1> HIDE DEF M, low, v, p, q
<1> DEFINE a == M * p
           b == M * q
<1>7. a \in Int /\ b \in Int /\ M * (p + 1) = a + M /\ M * (q + 1) = b + M
  BY <1>1, <1>4
<1>8. u = low + a /\ v = low + b /\ low \in Int
  BY <1>1, <1>2, <1>3, <1>5, <1>6, <1>7
<1>9. a < b + M /\ b < a + M
  BY <1>1, <1>3, <1>7, <1>8 DEF M
<1>10. p < q + 1 /\ q < p + 1
  <2>1. M * p < M * (q + 1) /\ M * q < M * (p + 1)
    BY <1>7, <1>9
  <2>2. p + 1 \in Int /\ q + 1 \in Int
    BY <1>4
  <2> HIDE DEF a, b
  <2>3. p < q + 1
    BY <1>1, <1>4, <2>1, <2>2, FactorsOrdered
  <2>4. q < p + 1
    BY <1>1, <1>4, <2>1, <2>2, FactorsOrdered
  <2> QED
    BY <2>3, <2>4
<1>11. p = q
  BY <1>4, <1>10
<1>12. u = v
  BY <1>8, <1>11
<1> QED
  BY <1>12 DEF v, low, M

\* The times exist.
LEMMA TimesExist ==
    ASSUME NEW q, IsSequence(q), \A i \in 1 .. Len(q) : Timed(q[i])
    PROVE  \E t : Times(t, q) /\ \A i \in 0 .. Len(q) : t[i] \in Nat
<1> DEFINE n == Len(q)
           g == [k \in 1 .. n |-> [x \in Nat |-> IF q[k].form = "extended" THEN q[k].time
                                                 ELSE Later(x, q[k].time)]]
<1>1. PICK b \in Nat : b = 0
  OBVIOUS
<1>2. n \in Nat
  BY SeqIsFunction
<1>3. \A k \in 1 .. n, x \in Nat :
        g[k][x] = IF q[k].form = "extended" THEN q[k].time ELSE Later(x, q[k].time)
  BY Zenon
<1>4. ASSUME NEW k \in 1 .. n PROVE g[k] \in [Nat -> Nat]
  <2>1. Timed(q[k])
    OBVIOUS
  <2>2. ASSUME NEW x \in Nat, q[k].form # "extended" PROVE Later(x, q[k].time) \in Nat
    <3>1. q[k].time \in 0 .. CompactMod - 1
      BY <2>1, <2>2, ConvertersAssumption DEF Timed
    <3> QED
      BY <3>1, LaterIsNext
  <2>3. q[k].time \in Nat
    BY <2>1 DEF Timed
  <2>4. g[k] = [x \in Nat |-> IF q[k].form = "extended" THEN q[k].time
                                                 ELSE Later(x, q[k].time)]
    BY Zenon
  <2>5. \A x \in Nat : (IF q[k].form = "extended" THEN q[k].time ELSE Later(x, q[k].time)) \in Nat
    BY <2>2, <2>3
  <2> HIDE DEF g
  <2> QED
    BY <2>4, <2>5, Zenon
<1> HIDE DEF n, g
<1>5. Steps(g, b, n, Nat)
  <2>1. \A k \in b + 1 .. n : k \in 1 .. n
    BY <1>1, <1>2
  <2>2. \A k \in b + 1 .. n : g[k] \in [Nat -> Nat]
    BY <1>4, <2>1, Zenon
  <2>3. b <= n
    BY <1>1, <1>2
  <2> QED
    BY <1>1, <1>2, <2>2, <2>3, Zenon DEF Steps
<1>6. PICK t : t \in [b .. n -> Nat] /\ t[b] = 0 /\ Follows(t, g, b, n)
  <2>1. \E t : t \in [b .. n -> Nat] /\ t[b] = b /\ Follows(t, g, b, n)
    BY <1>5, Recursion
  <2> QED
    BY <1>1, <2>1
<1>7. ASSUME NEW i \in 0 .. n
      PROVE  t[i] = IF i = 0 THEN 0 ELSE TimeAt(q, t, i)
  <2>1. CASE i = 0
    BY <1>1, <1>6, <2>1
  <2>2. CASE i # 0
    <3>1. i \in 1 .. n /\ i \in b + 1 .. n /\ i - 1 \in b .. n
      BY <1>1, <1>2, <2>2
    <3>2. t[i] = g[i][t[i - 1]] /\ t[i - 1] \in Nat
      BY <1>6, <3>1 DEF Follows
    <3> QED
      BY <1>3, <2>2, <3>1, <3>2, Zenon DEF TimeAt
  <2> QED
    BY <2>1, <2>2
<1>8. t = [i \in 0 .. n |-> t[i]]
  BY <1>1, <1>6
<1>9. Times(t, q)
  BY <1>7, <1>8, Zenon DEF Times, n
<1>10. \A i \in 0 .. n : t[i] \in Nat
  BY <1>1, <1>6
<1> QED
  BY <1>9, <1>10 DEF n

\* The first n times of a queue, from 0.
FirstTimes(t, q, n) == t[0] = 0 /\ \A i \in 1 .. n : t[i] = TimeAt(q, t, i)

\* There is only one way to read the times.
LEMMA TimesSame ==
    ASSUME NEW q, NEW n \in Nat, NEW t, NEW u, FirstTimes(t, q, n), FirstTimes(u, q, n)
    PROVE  \A i \in 0 .. n : t[i] = u[i]
<1> DEFINE T == {i \in 0 .. n : t[i] # u[i]}
<1> SUFFICES ASSUME T # {} PROVE FALSE
  OBVIOUS
<1>1. PICK i \in T : \A y \in T : i <= y
  <2>1. T \subseteq Nat
    OBVIOUS
  <2> HIDE DEF T
  <2> QED
    BY <2>1, LeastNatural
<1>2. i \in 0 .. n /\ t[i] # u[i]
  OBVIOUS
<1>3. i \in 1 .. n /\ i - 1 \in 0 .. n /\ i - 1 \notin T
  BY <1>1, <1>2 DEF FirstTimes
<1>4. t[i - 1] = u[i - 1]
  BY <1>3
<1> QED
  BY <1>2, <1>3, <1>4, Zenon DEF FirstTimes, TimeAt

\* TimesOf holds these times.
LEMMA TimesOfIs ==
    ASSUME NEW q, IsSequence(q), \A i \in 1 .. Len(q) : Timed(q[i])
    PROVE  \E t : /\ FirstTimes(t, q, Len(q))
                  /\ \A i \in 0 .. Len(q) : t[i] \in Nat
                  /\ TimesOf(q) = [i \in 1 .. Len(q) |-> t[i]]
<1> DEFINE n == Len(q)
<1>0. n \in Nat /\ DOMAIN q = 1 .. n
  BY SeqIsFunction
<1>1. PICK u : Times(u, q) /\ \A i \in 0 .. n : u[i] \in Nat
  BY TimesExist
<1>2. TimesOf(q) = [i \in DOMAIN q |-> (CHOOSE t : Times(t, q))[i]]
  BY Zenon DEF TimesOf, Times, TimeAt
<1>3. PICK t : Times(t, q) /\ TimesOf(q) = [i \in 1 .. n |-> t[i]]
  BY <1>0, <1>1, <1>2, Zenon
<1> HIDE DEF n
<1>4. ASSUME NEW v, Times(v, q)
      PROVE  FirstTimes(v, q, n)
  <2>1. 0 \in 0 .. n /\ \A i \in 1 .. n : i \in 0 .. n /\ i # 0
    BY <1>0
  <2>2. \A i \in 0 .. n : v[i] = IF i = 0 THEN 0 ELSE TimeAt(q, v, i)
    BY <1>4, Zenon DEF Times, n
  <2> QED
    BY <2>1, <2>2, Zenon DEF FirstTimes
<1>5. \A i \in 0 .. n : t[i] = u[i]
  <2>1. FirstTimes(t, q, n) /\ FirstTimes(u, q, n)
    BY <1>1, <1>3, <1>4, Zenon
  <2> QED
    BY <1>0, <2>1, TimesSame
<1>6. \A i \in 0 .. n : t[i] \in Nat
  BY <1>1, <1>5
<1> QED
  BY <1>3, <1>4, <1>6 DEF n

\* The times of a longer queue.
LEMMA TimesOfAppend ==
    ASSUME NEW q, IsSequence(q), \A i \in 1 .. Len(q) : Timed(q[i]), NEW e, Timed(e)
    PROVE  /\ \A i \in 1 .. Len(q) : TimesOf(Append(q, e))[i] = TimesOf(q)[i]
           /\ TimesOf(Append(q, e))[Len(q) + 1] =
                IF e.form = "extended" THEN e.time
                ELSE Later(IF Len(q) = 0 THEN 0 ELSE TimesOf(q)[Len(q)], e.time)
<1> DEFINE r == Append(q, e)
           n == Len(q)
<1>1. /\ IsSequence(r) /\ Len(r) = n + 1 /\ (\A i \in 1 .. n : r[i] = q[i]) /\ r[n + 1] = e
      /\ n \in Nat
  BY AppendToSeq, SeqIsFunction
<1> HIDE DEF r
<1>2. \A i \in 1 .. Len(r) : Timed(r[i])
  <2> TAKE i \in 1 .. Len(r)
  <2>1. i \in 1 .. n \/ i = n + 1
    BY <1>1
  <2> QED
    BY <1>1, <2>1
<1>3. PICK t : /\ FirstTimes(t, q, n) /\ TimesOf(q) = [i \in 1 .. n |-> t[i]]
  BY TimesOfIs
<1>4. PICK u : /\ FirstTimes(u, r, n + 1) /\ TimesOf(r) = [i \in 1 .. n + 1 |-> u[i]]
  <2>1. PICK u : /\ FirstTimes(u, r, Len(r)) /\ TimesOf(r) = [i \in 1 .. Len(r) |-> u[i]]
    BY <1>1, <1>2, TimesOfIs
  <2> QED
    BY <1>1, <2>1, Zenon
<1> HIDE DEF n
<1>5. FirstTimes(u, q, n)
  <2>1. \A i \in 1 .. n : i \in 1 .. n + 1
    BY <1>1
  <2>2. ASSUME NEW i \in 1 .. n PROVE u[i] = TimeAt(q, u, i)
    <3>1. u[i] = TimeAt(r, u, i) /\ r[i] = q[i]
      BY <1>1, <1>4, <2>1, Zenon DEF FirstTimes
    <3> QED
      BY <3>1, Zenon DEF TimeAt
  <2> QED
    BY <1>4, <2>2, Zenon DEF FirstTimes
<1>6. \A i \in 0 .. n : t[i] = u[i]
  BY <1>1, <1>3, <1>5, TimesSame
<1>7. ASSUME NEW i \in 1 .. n PROVE TimesOf(r)[i] = TimesOf(q)[i]
  <2>1. i \in 1 .. n + 1 /\ i \in 0 .. n
    BY <1>1
  <2> QED
    BY <1>3, <1>4, <1>6, <2>1
<1>8. TimesOf(r)[n + 1] = IF e.form = "extended" THEN e.time
                          ELSE Later(IF n = 0 THEN 0 ELSE TimesOf(q)[n], e.time)
  <2>1. PICK k \in 1 .. n + 1 : k = n + 1
    BY <1>1
  <2>2. k - 1 = n /\ n \in 0 .. n
    BY <1>1, <2>1
  <2>3. TimesOf(r)[k] = u[k] /\ u[k] = TimeAt(r, u, k) /\ r[k] = e
    BY <1>1, <1>4, <2>1, Zenon DEF FirstTimes
  <2>4. u[k - 1] = t[n]
    BY <1>6, <2>2
  <2>5. t[n] = IF n = 0 THEN 0 ELSE TimesOf(q)[n]
    <3>1. n = 0 \/ n \in 1 .. n
      BY <1>1
    <3> QED
      BY <1>3, <3>1, Zenon DEF FirstTimes
  <2> QED
    BY <2>1, <2>3, <2>4, <2>5, Zenon DEF TimeAt
<1> QED
  BY <1>7, <1>8 DEF r, n

\* What a reader makes of an event of a queue.
ReadEvent(e, t) == [id |-> e.id, pc |-> e.pc, pcDst |-> e.pcDst, time |-> t]

\* EventsOf is a sequence as long as the queue.
LEMMA EventsOfSeq ==
    ASSUME NEW q, IsSequence(q)
    PROVE  /\ IsSequence(EventsOf(q)) /\ Len(EventsOf(q)) = Len(q)
           /\ \A i \in 1 .. Len(q) : EventsOf(q)[i] = ReadEvent(q[i], TimesOf(q)[i])
<1> DEFINE n == Len(q)
           E == EventsOf(q)
<1>1. n \in Nat /\ DOMAIN q = 1 .. n
  BY SeqIsFunction
<1>2. E = [i \in 1 .. n |-> ReadEvent(q[i], TimesOf(q)[i])]
  BY <1>1, Zenon DEF EventsOf, ReadEvent
<1>3. \A i \in 1 .. n : E[i] = ReadEvent(q[i], TimesOf(q)[i])
  BY <1>2, Zenon
<1>4. E = [i \in 1 .. n |-> E[i]]
  BY <1>2, <1>3, Zenon
<1> HIDE DEF n, E
<1>5. IsSequence(E) /\ Len(E) = n
  BY <1>1, <1>4, FunctionIsSeq
<1> QED
  BY <1>3, <1>5 DEF E, n

\* The events of a longer queue.
LEMMA EventsOfAppend ==
    ASSUME NEW q, IsSequence(q), \A i \in 1 .. Len(q) : Timed(q[i]), NEW e, Timed(e)
    PROVE  EventsOf(Append(q, e)) =
             Append(EventsOf(q), ReadEvent(e, TimesOf(Append(q, e))[Len(q) + 1]))
<1> DEFINE r == Append(q, e)
           n == Len(q)
           E == EventsOf(q)
           F == EventsOf(r)
           x == ReadEvent(e, TimesOf(r)[n + 1])
           G == Append(E, x)
<1>1. /\ IsSequence(r) /\ Len(r) = n + 1 /\ (\A i \in 1 .. n : r[i] = q[i]) /\ r[n + 1] = e
      /\ n \in Nat
  BY AppendToSeq, SeqIsFunction
<1>2. \A i \in 1 .. n : TimesOf(r)[i] = TimesOf(q)[i]
  BY TimesOfAppend
<1> HIDE DEF r
<1>3. /\ IsSequence(E) /\ Len(E) = n
      /\ \A i \in 1 .. n : E[i] = ReadEvent(q[i], TimesOf(q)[i])
  BY EventsOfSeq
<1>4. /\ IsSequence(F) /\ Len(F) = n + 1
      /\ \A i \in 1 .. n + 1 : F[i] = ReadEvent(r[i], TimesOf(r)[i])
  BY <1>1, EventsOfSeq
<1> HIDE DEF n, E, F, x
<1>5. /\ IsSequence(G) /\ Len(G) = n + 1 /\ \A i \in 1 .. n : G[i] = E[i]
      /\ G[n + 1] = x
  BY <1>3, AppendToSeq
<1> HIDE DEF G
<1>6. \A i \in 1 .. n + 1 : F[i] = G[i]
  <2> TAKE i \in 1 .. n + 1
  <2>1. CASE i = n + 1
    BY <1>1, <1>4, <1>5, <2>1, Zenon DEF x
  <2>2. CASE i \in 1 .. n
    BY <1>1, <1>2, <1>3, <1>4, <1>5, <2>2, Zenon
  <2> QED
    BY <1>1, <2>1, <2>2
<1>7. F = G
  BY <1>4, <1>5, <1>6, SameSeq
<1> QED
  BY <1>7 DEF F, G, E, r, x, n

-----------------------------------------------------------------------------
(* A queue of events: the first has a full time, the others the low part.  *)
IsQueue(q) ==
    /\ IsSequence(q)
    /\ \A i \in 1 .. Len(q) : Timed(q[i]) /\ (q[i].form = "extended" <=> i = 1)

\* Times of a queue never run back, and have the low parts written.
LEMMA TimesAscend ==
    ASSUME NEW q, IsQueue(q)
    PROVE  /\ \A i \in 1 .. Len(q) : TimesOf(q)[i] \in Nat
           /\ Len(q) # 0 => TimesOf(q)[1] = q[1].time
           /\ \A j \in 1 .. Len(q) : \A i \in 1 .. j : TimesOf(q)[i] <= TimesOf(q)[j]
           /\ \A i \in 2 .. Len(q) : TimesOf(q)[i] % CompactMod = q[i].time
<1> DEFINE n == Len(q)
           T == TimesOf(q)
<1>1. n \in Nat
  BY SeqIsFunction DEF IsQueue
<1>2. PICK t : /\ FirstTimes(t, q, n) /\ (\A i \in 0 .. n : t[i] \in Nat)
               /\ T = [i \in 1 .. n |-> t[i]]
  BY TimesOfIs DEF IsQueue
<1> HIDE DEF n, T
<1>3. \A i \in 1 .. n : T[i] = t[i] /\ T[i] \in Nat
  BY <1>1, <1>2
<1>4. n # 0 => T[1] = q[1].time
  <2> HAVE n # 0
  <2>1. 1 \in 1 .. n
    BY <1>1
  <2>2. t[1] = q[1].time
    BY <1>2, <2>1, Zenon DEF FirstTimes, TimeAt, IsQueue, n
  <2> QED
    BY <1>3, <2>1, <2>2
<1>5. ASSUME NEW i \in 2 .. n
      PROVE  T[i - 1] <= T[i] /\ T[i] % CompactMod = q[i].time
  <2>1. i \in 1 .. n /\ i # 1 /\ i - 1 \in 1 .. n
    BY <1>1
  <2>2. Timed(q[i]) /\ q[i].form # "extended"
    BY <2>1, Zenon DEF IsQueue, n
  <2>3. t[i] = Later(t[i - 1], q[i].time)
    BY <1>2, <2>1, <2>2, Zenon DEF FirstTimes, TimeAt
  <2>4. q[i].time \in 0 .. CompactMod - 1
    BY <2>2, ConvertersAssumption DEF Timed
  <2>5. t[i - 1] \in Nat
    BY <1>3, <2>1
  <2>6. t[i - 1] <= t[i] /\ t[i] % CompactMod = q[i].time
    BY <2>3, <2>4, <2>5, LaterIsNext
  <2> QED
    BY <1>3, <2>1, <2>6
<1>6. \A j \in 1 .. n : \A i \in 1 .. j : T[i] <= T[j]
  <2> DEFINE B == {j \in 1 .. n : ~ \A i \in 1 .. j : T[i] <= T[j]}
  <2> SUFFICES ASSUME B # {} PROVE FALSE
    OBVIOUS
  <2>1. PICK j \in B : \A y \in B : j <= y
    <3>1. B \subseteq Nat
      BY <1>1
    <3> HIDE DEF B
    <3> QED
      BY <3>1, LeastNatural
  <2>2. PICK i \in 1 .. j : ~ (T[i] <= T[j])
    OBVIOUS
  <2>3. j \in 1 .. n /\ i \in 1 .. n
    BY <1>1
  <2>4. i # j
    BY <1>3, <2>2, <2>3
  <2>5. j \in 2 .. n /\ j - 1 \in 1 .. n /\ i \in 1 .. j - 1 /\ j - 1 \notin B
    BY <1>1, <2>1, <2>2, <2>3, <2>4
  <2>6. T[i] <= T[j - 1]
    BY <2>5
  <2>7. T[j - 1] <= T[j]
    BY <1>5, <2>5
  <2> HIDE DEF B
  <2> QED
    BY <1>3, <2>2, <2>3, <2>5, <2>6, <2>7
<1> QED
  BY <1>3, <1>4, <1>5, <1>6 DEF n, T

\* So the header of a packet gives the span of its times, unless the upper
\* part changed in it.
LEMMA PacketSpan ==
    ASSUME NEW q, IsQueue(q), Len(q) # 0,
           NEW begin, begin = q[1].time,
           NEW end, end = IF Len(q) > 1 THEN (begin \div CompactMod) * CompactMod + q[Len(q)].time
                                        ELSE begin,
           begin \div CompactMod = TimesOf(q)[Len(q)] \div CompactMod
    PROVE  \A k \in 1 .. Len(q) : TimesOf(q)[k] \in begin .. end
<1> DEFINE n == Len(q)
           T == TimesOf(q)
           M == CompactMod
           p == begin \div M
<1>1. n \in Nat /\ n # 0 /\ 1 \in 1 .. n /\ n \in 1 .. n /\ M \in Nat /\ M > 0
  BY SeqIsFunction, ConvertersAssumption DEF IsQueue
<1>2. /\ \A i \in 1 .. n : T[i] \in Nat
      /\ T[1] = begin
      /\ \A j \in 1 .. n : \A i \in 1 .. j : T[i] <= T[j]
      /\ \A i \in 2 .. n : T[i] % M = q[i].time
  BY TimesAscend
<1>3. begin \in Nat /\ p \in Int /\ p = T[n] \div M
  BY <1>1, <1>2
<1> HIDE DEF n, T, M, p
<1>4. T[n] <= end /\ end \in Int
  <2>1. CASE n > 1
    <3>1. n \in 2 .. n
      BY <1>1, <2>1
    <3>2. T[n] % M = q[n].time /\ T[n] \in Nat
      BY <1>1, <1>2, <3>1
    <3>3. T[n] % M = T[n] - M * p
      <4>1. PICK x \in Int : x = T[n]
        BY <3>2
      <4>2. p = x \div M /\ M \in Int
        BY <1>1, <1>3, <4>1
      <4>3. x % M = x - M * p
        BY <1>1, <4>2, LowPart
      <4> QED
        BY <4>1, <4>3
    <3>4. p * M = M * p /\ M * p \in Int
      BY <1>1, <1>3
    <3>5. end = p * M + q[n].time
      BY <2>1 DEF n, p, M
    <3> QED
      BY <3>2, <3>3, <3>4, <3>5
  <2>2. CASE ~ (n > 1)
    <3>1. n = 1
      BY <1>1, <2>2
    <3>2. end = begin
      BY <2>2 DEF n
    <3> QED
      BY <1>1, <1>2, <1>3, <3>1, <3>2
  <2> QED
    BY <2>1, <2>2
<1>5. ASSUME NEW k \in 1 .. n PROVE T[k] \in begin .. end
  <2>1. 1 \in 1 .. k /\ k \in 1 .. n
    BY <1>1
  <2>2. T[1] <= T[k] /\ T[k] <= T[n] /\ T[k] \in Nat /\ T[n] \in Nat
    BY <1>1, <1>2, <2>1
  <2> QED
    BY <1>2, <1>3, <1>4, <2>2
<1> QED
  BY <1>5 DEF n, T

-----------------------------------------------------------------------------
(* The packets of a stream.                                                *)

\* A packet that can be walked: its size, and the span of its times.
PacketOK(p) ==
    /\ p.seq \in Nat /\ p.begin \in Nat /\ p.size = p.written /\ IsQueue(p.events)
    /\ Len(p.events) # 0 /\ p.begin \div CompactMod = TimesOf(p.events)[Len(p.events)] \div CompactMod
         => \A k \in 1 .. Len(p.events) : TimesOf(p.events)[k] \in p.begin .. p.end

\* A file of such packets: none begins after b or has a number above n.
FileInv(F, b, n) ==
    /\ IsSequence(F)
    /\ \A i \in 1 .. Len(F) :
         /\ PacketOK(F[i]) /\ (Len(F[i].events) = 0 <=> i = 1)
         /\ F[i].begin <= b /\ F[i].seq <= n
         /\ i > 1 => F[i - 1].seq <= F[i].seq /\ F[i - 1].begin <= F[i].begin

\* The bounds may grow.
LEMMA FileLater ==
    ASSUME NEW F, NEW b \in Nat, NEW n \in Nat, FileInv(F, b, n),
           NEW d \in Nat, NEW m \in Nat, b <= d, n <= m
    PROVE  FileInv(F, d, m)
<1>1. ASSUME NEW i \in 1 .. Len(F) PROVE F[i].begin <= d /\ F[i].seq <= m
  <2>1. F[i].begin <= b /\ F[i].seq <= n /\ F[i].begin \in Nat /\ F[i].seq \in Nat
    BY DEF FileInv, PacketOK
  <2> QED
    BY <2>1
<1> QED
  BY <1>1, Zenon DEF FileInv

\* A packet more.
LEMMA FileAppend ==
    ASSUME NEW F, NEW b \in Nat, NEW n \in Nat, FileInv(F, b, n),
           NEW p, PacketOK(p), p.begin = b, p.seq = n, Len(p.events) = 0 <=> Len(F) = 0
    PROVE  FileInv(Append(F, p), b, n)
<1> DEFINE G == Append(F, p)
           k == Len(F)
<1>1. /\ IsSequence(G) /\ Len(G) = k + 1 /\ (\A i \in 1 .. k : G[i] = F[i]) /\ G[k + 1] = p
      /\ k \in Nat
  BY AppendToSeq, SeqIsFunction DEF FileInv
<1>2. \A i \in 1 .. k :
         /\ PacketOK(F[i]) /\ (Len(F[i].events) = 0 <=> i = 1)
         /\ F[i].begin <= b /\ F[i].seq <= n
         /\ i > 1 => F[i - 1].seq <= F[i].seq /\ F[i - 1].begin <= F[i].begin
  BY DEF FileInv
<1>3. Len(p.events) = 0 <=> k = 0
  OBVIOUS
<1> HIDE DEF G, k
<1>4. ASSUME NEW i \in 1 .. Len(G)
      PROVE  /\ PacketOK(G[i]) /\ (Len(G[i].events) = 0 <=> i = 1)
             /\ G[i].begin <= b /\ G[i].seq <= n
             /\ i > 1 => G[i - 1].seq <= G[i].seq /\ G[i - 1].begin <= G[i].begin
  <2>1. CASE i \in 1 .. k
    <3>1. G[i] = F[i] /\ (i > 1 => G[i - 1] = F[i - 1])
      BY <1>1, <2>1
    <3> QED
      BY <1>2, <2>1, <3>1, Zenon
  <2>2. CASE i = k + 1
    <3>1. G[i] = p
      BY <1>1, <2>2
    <3>2. i > 1 => i - 1 \in 1 .. k /\ G[i - 1] = F[i - 1]
      BY <1>1, <2>2
    <3>3. i > 1 => G[i - 1].seq <= n /\ G[i - 1].begin <= b
      BY <1>2, <3>2
    <3>4. i = 1 <=> k = 0
      BY <1>1, <2>2
    <3>5. G[i].begin <= b /\ G[i].seq <= n
      BY <3>1
    <3> QED
      BY <1>3, <3>1, <3>3, <3>4, <3>5
  <2> QED
    BY <1>1, <2>1, <2>2
<1>5. FileInv(G, b, n)
  BY <1>1, <1>4, Zenon DEF FileInv
<1> QED
  BY <1>5 DEF G

-----------------------------------------------------------------------------
(* Reading a stream.                                                       *)

\* The events of each packet of a file, all of them, and those still queued.
PacketEvents(F) == [i \in DOMAIN F |-> EventsOf(F[i].events)]
Flat(F) == FlattenSeq(PacketEvents(F))
Read(F, q) == Flat(F) \o EventsOf(q)

\* What was given to the converter, as a reader sees it.
Given(a) == ReadEvent(a, a.time)
CloseTogether(A) == \A i \in 2 .. Len(A) : A[i].time - A[i - 1].time < CompactMod
ReadsBack(F, q, A) ==
    CloseTogether(A) => /\ Len(Read(F, q)) = Len(A)
                        /\ \A i \in 1 .. Len(A) : Read(F, q)[i] = Given(A[i])

\* The events of a packet more.
LEMMA FlatAppend ==
    ASSUME NEW F, IsSequence(F), \A i \in 1 .. Len(F) : IsSequence(F[i].events), NEW p, IsSequence(p.events)
    PROVE  IsSequence(Flat(F)) /\ Flat(Append(F, p)) = Flat(F) \o EventsOf(p.events)
<1> DEFINE n == Len(F)
           G == Append(F, p)
           P == PacketEvents(F)
           R == PacketEvents(G)
           x == EventsOf(p.events)
           S == Append(P, x)
<1>1. /\ IsSequence(G) /\ Len(G) = n + 1 /\ (\A i \in 1 .. n : G[i] = F[i]) /\ G[n + 1] = p
      /\ n \in Nat /\ n + 1 \in Nat /\ DOMAIN F = 1 .. n
  BY AppendToSeq, SeqIsFunction
<1>2. DOMAIN G = 1 .. n + 1
  BY <1>1, SeqIsFunction
<1> HIDE DEF n, G
<1>3. P = [i \in 1 .. n |-> EventsOf(F[i].events)] /\ R = [i \in 1 .. n + 1 |-> EventsOf(G[i].events)]
  BY <1>1, <1>2, Zenon DEF PacketEvents
<1>4. /\ \A i \in 1 .. n : P[i] = EventsOf(F[i].events)
      /\ \A i \in 1 .. n + 1 : R[i] = EventsOf(G[i].events)
  BY <1>3, Zenon
<1>5. P = [i \in 1 .. n |-> P[i]] /\ R = [i \in 1 .. n + 1 |-> R[i]]
  BY <1>3, <1>4, Zenon
<1> HIDE DEF P, R
<1>6. IsSequence(P) /\ Len(P) = n
  BY <1>1, <1>5, FunctionIsSeq
<1>7. IsSequence(R) /\ Len(R) = n + 1
  BY <1>1, <1>5, FunctionIsSeq
<1>8. /\ IsSequence(S) /\ Len(S) = n + 1 /\ \A i \in 1 .. n : S[i] = P[i]
      /\ S[n + 1] = x
  BY <1>6, AppendToSeq
<1>9. \A i \in 1 .. n : IsSequence(P[i])
  BY <1>4, EventsOfSeq DEF n
<1>10. IsSequence(x)
  BY EventsOfSeq
<1> HIDE DEF S, x
<1>11. \A i \in 1 .. n + 1 : R[i] = S[i]
  <2> TAKE i \in 1 .. n + 1
  <2>1. CASE i \in 1 .. n
    BY <1>1, <1>4, <1>8, <2>1, Zenon
  <2>2. CASE i = n + 1
    BY <1>1, <1>4, <1>8, <2>2, Zenon DEF x
  <2> QED
    BY <1>1, <2>1, <2>2
<1>12. R = S
  BY <1>7, <1>8, <1>11, SameSeq
<1>13. IsSequence(FlattenSeq(P)) /\ FlattenSeq(S) = FlattenSeq(P) \o x
  BY <1>6, <1>9, <1>10, FlattenAppend DEF S
<1> QED
  BY <1>12, <1>13, Zenon DEF Flat, P, R, S, G, x

\* The events of no packet.
LEMMA FlatEmpty == Flat(<< >>) = << >>
<1>1. DOMAIN << >> = {}
  OBVIOUS
<1>2. PacketEvents(<< >>) = << >>
  <2>1. PacketEvents(<< >>) = [i \in {} |-> EventsOf(<< >>[i].events)]
    BY <1>1, Zenon DEF PacketEvents
  <2>2. [i \in {} |-> EventsOf(<< >>[i].events)] = << >>
    OBVIOUS
  <2> QED
    BY <2>1, <2>2, Zenon
<1> QED
  BY <1>2 DEF Flat, FlattenSeq

\* An empty queue holds no event.
LEMMA EventsOfEmpty == EventsOf(<< >>) = << >>
<1>1. IsSequence(EventsOf(<< >>)) /\ Len(EventsOf(<< >>)) = 0
  BY EmptyIsSeq, EventsOfSeq
<1>2. IsSequence(<< >>) /\ Len(<< >>) = 0
  BY EmptyIsSeq
<1>3. \A i \in 1 .. Len(EventsOf(<< >>)) : EventsOf(<< >>)[i] = << >>[i]
  BY <1>1
<1> HIDE DEF EventsOf
<1> QED
  BY <1>1, <1>2, <1>3, SameSeq

\* The packets of a file hold queues.
LEMMA FileEvents ==
    ASSUME NEW F, NEW b, NEW n, FileInv(F, b, n)
    PROVE  IsSequence(F) /\ \A i \in 1 .. Len(F) : IsSequence(F[i].events)
  BY DEF FileInv, PacketOK, IsQueue

\* The reader does not see where the binary info is.
LEMMA ReadBinInfo ==
    ASSUME NEW F, NEW b, NEW n, FileInv(F, b, n), NEW q, NEW p, p.events = << >>
    PROVE  Read(Append(F, p), q) = Read(F, q)
<1>1. IsSequence(p.events) /\ EventsOf(p.events) = << >>
  BY EmptyIsSeq, EventsOfEmpty
<1>2. IsSequence(Flat(F)) /\ Flat(Append(F, p)) = Flat(F) \o << >>
  <2>1. IsSequence(Flat(F)) /\ Flat(Append(F, p)) = Flat(F) \o EventsOf(p.events)
    BY <1>1, FileEvents, FlatAppend
  <2> QED
    BY <1>1, <2>1, Zenon
<1>3. Flat(F) \o << >> = Flat(F)
  BY <1>2, ConcatSmall
<1> QED
  BY <1>2, <1>3, Zenon DEF Read

\* Nor where a queue was flushed.
LEMMA ReadPacket ==
    ASSUME NEW F, NEW b, NEW n, FileInv(F, b, n), NEW q, IsSequence(q), NEW p, p.events = q
    PROVE  Read(Append(F, p), << >>) = Read(F, q)
<1>1. IsSequence(p.events)
  OBVIOUS
<1>2. IsSequence(Flat(F)) /\ Flat(Append(F, p)) = Flat(F) \o EventsOf(p.events)
  BY <1>1, FileEvents, FlatAppend
<1>3. Flat(Append(F, p)) = Read(F, q)
  BY <1>2, Zenon DEF Read
<1>4. IsSequence(Read(F, q))
  <2>1. IsSequence(EventsOf(q))
    BY EventsOfSeq
  <2> QED
    BY <1>2, <2>1, ConcatOfSeqs DEF Read
<1>5. Read(F, q) \o << >> = Read(F, q)
  BY <1>4, ConcatSmall
<1>6. Read(Append(F, p), << >>) = Flat(Append(F, p)) \o << >>
  BY EventsOfEmpty, Zenon DEF Read
<1> QED
  BY <1>3, <1>5, <1>6, Zenon

\* What is read ends with what is queued.
LEMMA ReadEnds ==
    ASSUME NEW F, NEW b, NEW n, FileInv(F, b, n), NEW q, IsSequence(q)
    PROVE  /\ IsSequence(Read(F, q)) /\ Len(q) <= Len(Read(F, q))
           /\ Len(q) # 0 => Read(F, q)[Len(Read(F, q))] = EventsOf(q)[Len(q)]
<1> DEFINE p == [events |-> << >>]
           E == EventsOf(q)
           X == Flat(F)
           R == X \o E
<1>1. IsSequence(X)
  <2>1. p.events = << >>
    OBVIOUS
  <2> HIDE DEF p
  <2>2. IsSequence(p.events)
    BY <2>1, EmptyIsSeq
  <2> QED
    BY <2>2, FileEvents, FlatAppend
<1>2. IsSequence(E) /\ Len(E) = Len(q)
  BY EventsOfSeq
<1>3. Len(X) \in Nat /\ Len(E) \in Nat
  BY <1>1, <1>2, SeqIsFunction
<1>4. Read(F, q) = R
  BY DEF Read
<1> HIDE DEF E, X
<1>5. IsSequence(R) /\ Len(R) = Len(X) + Len(E)
  BY <1>1, <1>2, ConcatOfSeqs
<1>6. \A i \in 1 .. Len(E) : R[Len(X) + i] = E[i]
  BY <1>1, <1>2, ConcatOfSeqs
<1> HIDE DEF R
<1>7. Len(E) # 0 => R[Len(R)] = E[Len(E)]
  BY <1>3, <1>5, <1>6
<1> QED
  BY <1>2, <1>3, <1>4, <1>5, <1>7 DEF E

\* An event more in the queue.
LEMMA ReadAdd ==
    ASSUME NEW F, NEW b, NEW n, FileInv(F, b, n), NEW q, IsSequence(q),
           \A i \in 1 .. Len(q) : Timed(q[i]), NEW e, Timed(e)
    PROVE  Read(F, Append(q, e)) =
             Append(Read(F, q), ReadEvent(e, TimesOf(Append(q, e))[Len(q) + 1]))
<1> DEFINE x == ReadEvent(e, TimesOf(Append(q, e))[Len(q) + 1])
           p == [events |-> << >>]
<1>1. EventsOf(Append(q, e)) = Append(EventsOf(q), x)
  BY EventsOfAppend
<1> HIDE DEF x
<1>2. IsSequence(EventsOf(q))
  BY EventsOfSeq
<1>3. IsSequence(Flat(F))
  <2>1. p.events = << >>
    OBVIOUS
  <2> HIDE DEF p
  <2>2. IsSequence(p.events)
    BY <2>1, EmptyIsSeq
  <2> QED
    BY <2>2, FileEvents, FlatAppend
<1>4. Flat(F) \o Append(EventsOf(q), x) = Append(Flat(F) \o EventsOf(q), x)
  BY <1>2, <1>3, ConcatAppend
<1> QED
  BY <1>1, <1>4, Zenon DEF Read, x

-----------------------------------------------------------------------------
(* The stream of one core: its queue, whether it has a header, its file,   *)
(* what was added, its time, and the number of the next packet.            *)

\* No packet written so far begins after this.
Bound(q, t) == IF Len(q) = 0 THEN t ELSE q[1].time

\* Nothing was added with a time still to come.
AddedInv(A, t) == IsSequence(A) /\ \A i \in 1 .. Len(A) : A[i].time \in Nat /\ A[i].time <= t

\* The invariant of a core: its queue is never past its limit, the
\* file may be walked, and file and queue read back as what was added.
CoreInv(q, h, F, A, t, n) ==
    /\ t \in Nat /\ n \in Nat
    /\ IsQueue(q) /\ Len(q) <= QueueEvents
    /\ Len(q) # 0 => q[1].time <= t
    /\ h <=> Len(F) # 0
    /\ FileInv(F, Bound(q, t), n)
    /\ AddedInv(A, t)
    /\ ReadsBack(F, q, A)

\* A bound is a time.
LEMMA BoundNat ==
    ASSUME NEW q, IsQueue(q), NEW t \in Nat, Len(q) # 0 => q[1].time <= t
    PROVE  Bound(q, t) \in Nat /\ Bound(q, t) <= t
<1>1. Len(q) \in Nat
  BY SeqIsFunction DEF IsQueue
<1>2. Len(q) # 0 => 1 \in 1 .. Len(q)
  BY <1>1
<1>3. Len(q) # 0 => q[1].time \in Nat
  BY <1>2, Zenon DEF IsQueue, Timed
<1> QED
  BY <1>3 DEF Bound

\* Time may pass and other cores may write packets.
LEMMA CoreLater ==
    ASSUME NEW q, NEW h, NEW F, NEW A, NEW t, NEW n, CoreInv(q, h, F, A, t, n),
           NEW u \in Nat, NEW m \in Nat, t <= u, n <= m
    PROVE  CoreInv(q, h, F, A, u, m)
<1>1. t \in Nat /\ n \in Nat /\ IsQueue(q) /\ (Len(q) # 0 => q[1].time <= t)
  BY DEF CoreInv
<1>2. Bound(q, t) \in Nat /\ Bound(q, t) <= t
  BY <1>1, BoundNat
<1>3. Len(q) # 0 => q[1].time \in Nat /\ q[1].time <= u
  BY <1>1, <1>2 DEF Bound
<1>4. Bound(q, u) \in Nat /\ Bound(q, t) <= Bound(q, u)
  BY <1>1, <1>2, <1>3 DEF Bound
<1>5. FileInv(F, Bound(q, u), m)
  <2>1. FileInv(F, Bound(q, t), n)
    BY DEF CoreInv
  <2> QED
    BY <1>1, <1>2, <1>4, <2>1, FileLater
<1>6. AddedInv(A, u)
  <2>1. ASSUME NEW i \in 1 .. Len(A) PROVE A[i].time \in Nat /\ A[i].time <= u
    <3>1. A[i].time \in Nat /\ A[i].time <= t
      BY DEF CoreInv, AddedInv
    <3> QED
      BY <1>1, <3>1
  <2>2. IsSequence(A)
    BY DEF CoreInv, AddedInv
  <2> QED
    BY <2>1, <2>2 DEF AddedInv
<1> QED
  BY <1>3, <1>5, <1>6 DEF CoreInv

\* An event joins the queue: what is read back stays what was given, because
\* the event before it is the last one given.
LEMMA ReadsBackAdd ==
    ASSUME NEW q, NEW h, NEW F, NEW A, NEW t, NEW n, CoreInv(q, h, F, A, t, n),
           NEW e, NEW a, a.time = t, ReadEvent(e, t) = Given(a),
           e.form = (IF Len(q) = 0 THEN "extended" ELSE "compact"),
           e.time = (IF Len(q) = 0 THEN t ELSE t % CompactMod)
    PROVE  /\ IsQueue(Append(q, e)) /\ Timed(e)
           /\ ReadsBack(F, Append(q, e), Append(A, a))
<1> DEFINE r == Append(q, e)
           B == Append(A, a)
           k == Len(q)
           j == Len(A)
           R == Read(F, q)
<1>0. CompactMod \in Nat /\ CompactMod > 0
  BY ConvertersAssumption
<1>1. /\ t \in Nat /\ IsSequence(q) /\ IsSequence(A) /\ k \in Nat /\ j \in Nat
      /\ FileInv(F, Bound(q, t), n)
  BY SeqIsFunction DEF CoreInv, AddedInv, IsQueue
<1>2. Timed(e)
  BY <1>0, <1>1 DEF Timed
<1>3. \A i \in 1 .. k : Timed(q[i]) /\ (q[i].form = "extended" <=> i = 1)
  BY DEF CoreInv, IsQueue
<1>4. /\ IsSequence(r) /\ Len(r) = k + 1 /\ (\A i \in 1 .. k : r[i] = q[i]) /\ r[k + 1] = e
  BY <1>1, AppendToSeq
<1>5. /\ IsSequence(B) /\ Len(B) = j + 1 /\ (\A i \in 1 .. j : B[i] = A[i]) /\ B[j + 1] = a
  BY <1>1, AppendToSeq
<1>6. IsQueue(r)
  <2> HIDE DEF r, k
  <2>1. e.form = "extended" <=> k = 0
    BY DEF k
  <2>2. ASSUME NEW i \in 1 .. k + 1 PROVE Timed(r[i]) /\ (r[i].form = "extended" <=> i = 1)
    <3>1. CASE i \in 1 .. k
      BY <1>3, <1>4, <3>1
    <3>2. CASE i = k + 1
      <4>1. i = 1 <=> k = 0
        BY <1>1, <3>2
      <4> QED
        BY <1>2, <1>4, <2>1, <3>2, <4>1
    <3> QED
      BY <1>1, <3>1, <3>2
  <2> QED
    BY <1>4, <2>2 DEF IsQueue
<1>7. ReadsBack(F, r, B)
  <2> SUFFICES ASSUME CloseTogether(B)
               PROVE  /\ Len(Read(F, r)) = Len(B)
                      /\ \A i \in 1 .. Len(B) : Read(F, r)[i] = Given(B[i])
    BY DEF ReadsBack
  <2>1. CloseTogether(A)
    <3> HIDE DEF B, j
    <3>1. ASSUME NEW i \in 2 .. j PROVE A[i].time - A[i - 1].time < CompactMod
      <4>1. i \in 2 .. Len(B) /\ i \in 1 .. j /\ i - 1 \in 1 .. j
        BY <1>1, <1>5
      <4>2. B[i].time - B[i - 1].time < CompactMod /\ B[i] = A[i] /\ B[i - 1] = A[i - 1]
        BY <1>5, <4>1 DEF CloseTogether
      <4> QED
        BY <4>2
    <3> QED
      BY <3>1 DEF CloseTogether, j
  <2>2. Len(R) = j /\ \A i \in 1 .. j : R[i] = Given(A[i])
    BY <2>1 DEF CoreInv, ReadsBack
  <2> DEFINE T == TimesOf(r)[k + 1]
             x == ReadEvent(e, T)
             S == Append(R, x)
  <2>3. Read(F, r) = S
    BY <1>1, <1>2, <1>3, ReadAdd
  <2>4. T = t
    <3>0. T = IF e.form = "extended" THEN e.time
              ELSE Later(IF k = 0 THEN 0 ELSE TimesOf(q)[k], e.time)
      BY <1>1, <1>2, <1>3, TimesOfAppend
    <3> HIDE DEF T
    <3>1. CASE k = 0
      BY <3>0, <3>1
    <3>2. CASE k # 0
      <4> DEFINE s == TimesOf(q)[k]
      <4>1. T = Later(s, t % CompactMod)
        BY <3>0, <3>2
      <4>2. k \in 1 .. k /\ EventsOf(q)[k] = ReadEvent(q[k], s)
        BY <1>1, <3>2, EventsOfSeq
      <4>3. k <= Len(R) /\ R[Len(R)] = EventsOf(q)[k]
        BY <1>1, <3>2, ReadEnds
      <4>4. j # 0 /\ j \in 1 .. j
        BY <1>1, <2>2, <3>2, <4>3
      <4>5. R[j] = Given(A[j])
        BY <2>2, <4>4
      <4>6. ReadEvent(q[k], s) = Given(A[j])
        BY <2>2, <4>2, <4>3, <4>5
      <4>7. s = A[j].time
        <5>1. ReadEvent(q[k], s).time = s /\ Given(A[j]).time = A[j].time
          BY DEF ReadEvent, Given
        <5> QED
          BY <4>6, <5>1, Zenon
      <4>8. s \in Nat /\ s <= t
        BY <4>4, <4>7 DEF CoreInv, AddedInv
      <4>9. t < s + CompactMod
        <5>1. j + 1 \in 2 .. Len(B) /\ j + 1 - 1 = j
          BY <1>1, <1>5, <4>4
        <5>2. PICK i \in 2 .. Len(B) : i = j + 1
          BY <5>1
        <5>3. i - 1 = j
          BY <1>1, <5>2
        <5>4. B[i].time - B[i - 1].time < CompactMod
          BY DEF CloseTogether
        <5>5. B[i] = a /\ B[i - 1] = A[j]
          BY <1>5, <4>4, <5>2, <5>3
        <5>6. t - s < CompactMod
          BY <4>7, <5>4, <5>5
        <5> HIDE DEF s
        <5> QED
          BY <1>0, <1>1, <4>8, <5>6
      <4> HIDE DEF s
      <4> QED
        BY <1>1, <4>1, <4>8, <4>9, LaterGivesBack
    <3> QED
      BY <3>1, <3>2
  <2>5. x = Given(a)
    BY <2>4, Zenon
  <2>6. IsSequence(R)
    BY <1>1, ReadEnds
  <2> HIDE DEF R, x
  <2>7. /\ Len(S) = j + 1 /\ (\A i \in 1 .. j : S[i] = R[i]) /\ S[j + 1] = x
    BY <2>2, <2>6, AppendToSeq
  <2> HIDE DEF S, B, j
  <2>8. ASSUME NEW i \in 1 .. j + 1 PROVE S[i] = Given(B[i])
    <3>1. CASE i \in 1 .. j
      BY <1>5, <2>2, <2>7, <3>1, Zenon
    <3>2. CASE i = j + 1
      BY <1>5, <2>5, <2>7, <3>2, Zenon
    <3> QED
      BY <1>1, <3>1, <3>2
  <2> QED
    BY <1>5, <2>3, <2>7, <2>8, Zenon
<1> QED
  BY <1>2, <1>6, <1>7 DEF r, B

\* An event joins a queue that is not full.
LEMMA CoreAdd ==
    ASSUME NEW q, NEW h, NEW F, NEW A, NEW t, NEW n, CoreInv(q, h, F, A, t, n),
           Len(q) # QueueEvents,
           NEW e, NEW a, a.time = t, ReadEvent(e, t) = Given(a),
           e.form = (IF Len(q) = 0 THEN "extended" ELSE "compact"),
           e.time = (IF Len(q) = 0 THEN t ELSE t % CompactMod)
    PROVE  CoreInv(Append(q, e), h, F, Append(A, a), t, n)
<1> DEFINE r == Append(q, e)
           B == Append(A, a)
<1>1. /\ t \in Nat /\ n \in Nat /\ IsSequence(q) /\ IsSequence(A) /\ Len(q) \in Nat /\ Len(A) \in Nat
      /\ IsQueue(q) /\ Len(q) <= QueueEvents /\ QueueEvents \in Nat
  BY SeqIsFunction, ConvertersAssumption DEF CoreInv, AddedInv, IsQueue
<1>2. IsQueue(r) /\ ReadsBack(F, r, B)
  BY ReadsBackAdd
<1>3. /\ IsSequence(r) /\ Len(r) = Len(q) + 1 /\ (\A i \in 1 .. Len(q) : r[i] = q[i])
      /\ r[Len(q) + 1] = e
  BY <1>1, AppendToSeq
<1>4. /\ IsSequence(B) /\ Len(B) = Len(A) + 1 /\ (\A i \in 1 .. Len(A) : B[i] = A[i])
      /\ B[Len(A) + 1] = a
  BY <1>1, AppendToSeq
<1> HIDE DEF r, B
<1>5. Len(r) # 0 /\ r[1].time = Bound(q, t) /\ Bound(r, t) = Bound(q, t)
  <2>1. Len(r) # 0
    BY <1>1, <1>3
  <2>2. CASE Len(q) = 0
    BY <1>3, <2>1, <2>2 DEF Bound
  <2>3. CASE Len(q) # 0
    <3>1. 1 \in 1 .. Len(q)
      BY <1>1, <2>3
    <3> QED
      BY <1>3, <2>1, <2>3, <3>1 DEF Bound
  <2> QED
    BY <2>2, <2>3
<1>6. r[1].time <= t
  <2>1. Bound(q, t) \in Nat /\ Bound(q, t) <= t
    BY <1>1, BoundNat DEF CoreInv
  <2> QED
    BY <1>5, <2>1
<1>7. Len(r) <= QueueEvents
  BY <1>1, <1>3
<1>8. AddedInv(B, t)
  <2>1. ASSUME NEW i \in 1 .. Len(B) PROVE B[i].time \in Nat /\ B[i].time <= t
    <3>1. CASE i \in 1 .. Len(A)
      BY <1>4, <3>1 DEF CoreInv, AddedInv
    <3>2. CASE i = Len(A) + 1
      BY <1>1, <1>4, <3>2
    <3> QED
      BY <1>1, <1>4, <3>1, <3>2
  <2> QED
    BY <1>4, <2>1 DEF AddedInv
<1>9. FileInv(F, Bound(r, t), n)
  BY <1>5, Zenon DEF CoreInv
<1>10. h <=> Len(F) # 0
  BY DEF CoreInv
<1>11. CoreInv(r, h, F, B, t, n)
  BY <1>1, <1>2, <1>6, <1>7, <1>8, <1>9, <1>10, Zenon DEF CoreInv
<1> QED
  BY <1>11 DEF r, B

\* A packet of binary info for a file that has none.
IsBinInfo(p, b, n) ==
    p.seq = n /\ p.begin = b /\ p.size = p.written /\ p.events = << >>
\* The packet of a queue.
IsPacket(p, q, n) ==
    /\ p.seq = n /\ p.begin = q[1].time /\ p.size = p.written /\ p.events = q
    /\ p.end = IF Len(q) > 1 THEN (p.begin \div CompactMod) * CompactMod + q[Len(q)].time ELSE p.begin

\* A queue is flushed.
LEMMA CoreFlush ==
    ASSUME NEW q, NEW h, NEW F, NEW A, NEW t, NEW n, CoreInv(q, h, F, A, t, n), Len(q) # 0,
           NEW p, IsPacket(p, q, n), NEW b, IsBinInfo(b, q[1].time, n)
    PROVE  CoreInv(<< >>, TRUE, F \o (IF h THEN << >> ELSE <<b>>) \o <<p>>, A, t, n + 1)
<1> DEFINE begin == q[1].time
           G == IF h THEN F ELSE Append(F, b)
           K == Append(G, p)
<1>1. /\ t \in Nat /\ n \in Nat /\ IsSequence(q) /\ Len(q) \in Nat /\ IsQueue(q) /\ IsSequence(F)
      /\ begin <= t /\ FileInv(F, begin, n) /\ (h <=> Len(F) # 0) /\ Len(F) \in Nat
      /\ ReadsBack(F, q, A) /\ AddedInv(A, t)
  BY SeqIsFunction DEF CoreInv, IsQueue, FileInv, Bound
<1>2. begin \in Nat
  BY <1>1, BoundNat DEF Bound
<1>3. p.seq = n /\ p.begin = begin /\ p.events = q /\ PacketOK(p)
  <2>1. p.seq = n /\ p.begin = begin /\ p.size = p.written /\ p.events = q
    BY DEF IsPacket
  <2>2. ASSUME begin \div CompactMod = TimesOf(q)[Len(q)] \div CompactMod
        PROVE  \A k \in 1 .. Len(q) : TimesOf(q)[k] \in begin .. p.end
    <3>1. p.end = IF Len(q) > 1 THEN (begin \div CompactMod) * CompactMod + q[Len(q)].time ELSE begin
      BY <2>1 DEF IsPacket
    <3>2. PICK x, y : x = begin /\ y = p.end
      OBVIOUS
    <3>3. \A k \in 1 .. Len(q) : TimesOf(q)[k] \in x .. y
      BY <1>1, <2>2, <3>1, <3>2, PacketSpan
    <3> QED
      BY <3>2, <3>3
  <2> HIDE DEF begin
  <2> QED
    BY <1>1, <1>2, <2>1, <2>2 DEF PacketOK
<1>4. b.seq = n /\ b.begin = begin /\ b.events = << >> /\ PacketOK(b)
  <2>1. b.seq = n /\ b.begin = begin /\ b.size = b.written /\ b.events = << >>
    BY DEF IsBinInfo
  <2>2. IsQueue(b.events) /\ Len(b.events) = 0
    BY <2>1, EmptyIsSeq DEF IsQueue
  <2> HIDE DEF begin
  <2> QED
    BY <1>1, <1>2, <2>1, <2>2 DEF PacketOK
<1> HIDE DEF begin
<1>5. /\ FileInv(G, begin, n) /\ IsSequence(G) /\ Len(G) # 0 /\ Read(G, q) = Read(F, q)
      /\ F \o (IF h THEN << >> ELSE <<b>>) = G
  <2>1. CASE h
    <3>1. F \o << >> = F
      BY <1>1, ConcatSmall
    <3> QED
      BY <1>1, <2>1, <3>1
  <2>2. CASE ~ h
    <3>1. Len(F) = 0 /\ Len(b.events) = 0
      BY <1>1, <1>4, <2>2, EmptyIsSeq
    <3>2. FileInv(Append(F, b), begin, n)
      BY <1>1, <1>2, <1>4, <3>1, FileAppend
    <3>3. IsSequence(Append(F, b)) /\ Len(Append(F, b)) = Len(F) + 1
      BY <1>1, AppendToSeq
    <3>4. Read(Append(F, b), q) = Read(F, q)
      BY <1>1, <1>4, ReadBinInfo
    <3>5. F \o <<b>> = Append(F, b)
      BY <1>1, ConcatSmall
    <3>6. Len(Append(F, b)) # 0
      BY <1>1, <3>3
    <3> QED
      BY <2>2, <3>2, <3>3, <3>4, <3>5, <3>6
  <2> QED
    BY <2>1, <2>2
<1> HIDE DEF G
<1>6. FileInv(K, begin, n)
  <2>1. Len(p.events) # 0
    BY <1>3
  <2> QED
    BY <1>1, <1>2, <1>3, <1>5, <2>1, FileAppend
<1>7. FileInv(K, t, n + 1)
  <2>1. n + 1 \in Nat /\ n <= n + 1
    BY <1>1
  <2> QED
    BY <1>1, <1>2, <1>6, <2>1, FileLater
<1>8. G \o <<p>> = K /\ Len(K) # 0
  <2>1. Len(G) \in Nat /\ Len(K) = Len(G) + 1
    BY <1>5, AppendToSeq, SeqIsFunction
  <2>2. G \o <<p>> = K
    BY <1>5, ConcatSmall
  <2> QED
    BY <2>1, <2>2
<1>9. Read(K, << >>) = Read(F, q)
  <2>1. Read(K, << >>) = Read(G, q)
    BY <1>1, <1>3, <1>5, ReadPacket
  <2> QED
    BY <1>5, <2>1
<1> HIDE DEF K
<1>10. ReadsBack(K, << >>, A)
  BY <1>1, <1>9, Zenon DEF ReadsBack
<1>11. /\ IsQueue(<< >>) /\ Len(<< >>) = 0 /\ Len(<< >>) <= QueueEvents /\ n + 1 \in Nat
       /\ Bound(<< >>, t) = t
  BY <1>1, EmptyIsSeq, ConvertersAssumption DEF IsQueue, Bound
<1>12. CoreInv(<< >>, TRUE, K, A, t, n + 1)
  BY <1>1, <1>7, <1>8, <1>10, <1>11, Zenon DEF CoreInv
<1>13. F \o (IF h THEN << >> ELSE <<b>>) \o <<p>> = K
  BY <1>5, <1>8, Zenon
<1> QED
  BY <1>12, <1>13, Zenon

\* What flushEvents writes.
LEMMA PacketIs ==
    ASSUME NEW q, IsSequence(q)
    PROVE  IsPacket(Packet(q), q, packetSeqNum)
<1> DEFINE begin == q[1].time
           end == IF Len(q) > 1 THEN (begin \div CompactMod) * CompactMod + q[Len(q)].time ELSE begin
           size == computeEventSizes(q)
           hd == writeStreamHeaders(begin, end, size)
           w == writeEvents(PacketHeaderBytes + PacketContextBytes, q)
           p == [seq |-> packetSeqNum, begin |-> begin, end |-> end,
                 size |-> size + PacketContextBytes + 8, written |-> w, events |-> q]
<1>1. Packet(q) = [hd EXCEPT !.written = writeEvents(@, q), !.events = q]
  BY Zenon DEF Packet
<1>2. PacketHeaderBytes + PacketContextBytes \in Nat /\ PacketHeaderBytes + PacketContextBytes = PacketContextBytes + 8
  BY DEF PacketHeaderBytes, PacketContextBytes
<1>3. size \in Nat /\ w = PacketHeaderBytes + PacketContextBytes + size
  BY <1>2, WrittenAsPromised
<1>4. size + PacketContextBytes + 8 = w
  BY <1>3 DEF PacketHeaderBytes, PacketContextBytes
<1>5. Packet(q) = p
  <2> HIDE DEF begin, end, size
  <2> QED
    BY <1>1, Zenon DEF writeStreamHeaders
<1> HIDE DEF w, size, end
<1>6. p.seq = packetSeqNum /\ p.begin = begin /\ p.end = end /\ p.size = p.written /\ p.events = q
  BY <1>4
<1> QED
  BY <1>5, <1>6, Zenon DEF IsPacket, end

\* What writeBinInfo writes.
LEMMA BinInfoIs ==
    ASSUME NEW begin
    PROVE  IsBinInfo(writeBinInfo(begin), begin, packetSeqNum)
<1> DEFINE size == computeBinInfoSize
           hd == writeStreamHeaders(begin, begin, size)
           w == PacketHeaderBytes + PacketContextBytes + 3 * (IdBytes + ExtendedBytes + EventContextBytes)
                   + 8 + 8 + ElfNameBytes + 3
           p == [seq |-> packetSeqNum, begin |-> begin, end |-> begin,
                 size |-> size + PacketContextBytes + 8, written |-> w, events |-> << >>]
<1>1. writeBinInfo(begin) = p
  <2> HIDE DEF size
  <2>1. writeBinInfo(begin) = [hd EXCEPT !.written = @ + 3 * (IdBytes + ExtendedBytes + EventContextBytes)
                   + 8 + 8 + ElfNameBytes + 3]
    BY Zenon DEF writeBinInfo, size
  <2> QED
    BY <2>1, Zenon DEF writeStreamHeaders
<1>2. size + PacketContextBytes + 8 = w
  BY DEF computeBinInfoSize, PacketHeaderBytes, PacketContextBytes, IdBytes, ExtendedBytes, EventContextBytes, ElfNameBytes
<1> HIDE DEF w, size
<1>3. p.seq = packetSeqNum /\ p.begin = begin /\ p.size = p.written /\ p.events = << >>
  BY <1>2
<1> QED
  BY <1>1, <1>3, Zenon DEF IsBinInfo

-----------------------------------------------------------------------------
(* The streams of all cores.                                               *)

CoreOK(c) ==
    CoreInv(eventBuffer[c], headerFlag[c], file[c], added[c], time[c], packetSeqNum)

StreamInv ==
    /\ time \in [Cores -> Nat] /\ packetSeqNum \in Nat
    /\ headerFlag \in [Cores -> BOOLEAN]
    /\ DOMAIN eventBuffer = Cores /\ DOMAIN file = Cores /\ DOMAIN added = Cores
    /\ \A c \in Cores : CoreOK(c)

\* Streams start empty.
LEMMA StreamInit == Init => StreamInv
<1> SUFFICES ASSUME Init PROVE StreamInv
  OBVIOUS
<1>1. /\ time = [c \in Cores |-> 0] /\ eventBuffer = [c \in Cores |-> << >>]
      /\ headerFlag = [c \in Cores |-> FALSE] /\ packetSeqNum = 0
      /\ file = [c \in Cores |-> << >>] /\ added = [c \in Cores |-> << >>]
  BY DEF Init
<1>2. CoreInv(<< >>, FALSE, << >>, << >>, 0, 0)
  <2>1. IsSequence(<< >>) /\ Len(<< >>) = 0
    BY EmptyIsSeq
  <2>2. IsQueue(<< >>) /\ AddedInv(<< >>, 0) /\ FileInv(<< >>, Bound(<< >>, 0), 0)
    BY <2>1 DEF IsQueue, AddedInv, FileInv
  <2>3. Read(<< >>, << >>) = << >>
    <3>1. Read(<< >>, << >>) = << >> \o << >>
      BY FlatEmpty, EventsOfEmpty, Zenon DEF Read
    <3>2. << >> \o << >> = << >>
      BY <2>1, ConcatSmall
    <3> QED
      BY <3>1, <3>2, Zenon
  <2>4. ReadsBack(<< >>, << >>, << >>)
    BY <2>1, <2>3 DEF ReadsBack
  <2> QED
    BY <2>1, <2>2, <2>4, ConvertersAssumption DEF CoreInv
<1>3. ASSUME NEW c \in Cores PROVE CoreOK(c)
  <2>1. /\ eventBuffer[c] = << >> /\ headerFlag[c] = FALSE /\ file[c] = << >> /\ added[c] = << >>
        /\ time[c] = 0 /\ packetSeqNum = 0
    BY <1>1, Zenon
  <2> QED
    BY <1>2, <2>1, Zenon DEF CoreOK
<1> QED
  BY <1>1, <1>3 DEF StreamInv

\* The time of a core passes with its message.
LEMMA ReceiveTime ==
    ASSUME StreamInv, NEW m \in Messages, Receive(m)
    PROVE  /\ time' \in [Cores -> Nat] /\ m.core \in Cores
           /\ \A c \in Cores : CoreInv(eventBuffer[c], headerFlag[c], file[c], added[c], time'[c], packetSeqNum)
<1>1. m.core \in Cores /\ m.dt \in Nat
  BY ConvertersAssumption
<1>2. time \in [Cores -> Nat] /\ time' = [time EXCEPT ![m.core] = @ + m.dt] /\ packetSeqNum \in Nat
  BY DEF StreamInv, Receive
<1>3. time' \in [Cores -> Nat] /\ \A c \in Cores : time[c] <= time'[c] /\ time'[c] \in Nat
  BY <1>1, <1>2
<1>4. ASSUME NEW c \in Cores
      PROVE  CoreInv(eventBuffer[c], headerFlag[c], file[c], added[c], time'[c], packetSeqNum)
  <2>1. CoreInv(eventBuffer[c], headerFlag[c], file[c], added[c], time[c], packetSeqNum)
    BY DEF StreamInv, CoreOK
  <2>2. packetSeqNum <= packetSeqNum /\ time[c] <= time'[c] /\ time'[c] \in Nat
    BY <1>2, <1>3
  <2> QED
    BY <1>2, <2>1, <2>2, CoreLater
<1> QED
  BY <1>1, <1>3, <1>4

\* A message that adds no event.
LEMMA StreamKept ==
    ASSUME StreamInv, NEW m \in Messages, Receive(m), UNCHANGED stream
    PROVE  StreamInv'
<1>1. /\ time' \in [Cores -> Nat]
      /\ \A c \in Cores : CoreInv(eventBuffer[c], headerFlag[c], file[c], added[c], time'[c], packetSeqNum)
  BY ReceiveTime
<1>2. /\ eventBuffer' = eventBuffer /\ headerFlag' = headerFlag /\ file' = file /\ added' = added
      /\ packetSeqNum' = packetSeqNum
  BY DEF stream
<1>3. \A c \in Cores : CoreOK(c)'
  BY <1>1, <1>2, Zenon DEF CoreOK
<1> QED
  BY <1>1, <1>2, <1>3 DEF StreamInv

\* The stream of a core after flushEvents.
LEMMA FlushedCore ==
    ASSUME NEW c \in Cores, NEW t,
           CoreInv(eventBuffer[c], headerFlag[c], file[c], added[c], t, packetSeqNum),
           Len(eventBuffer[c]) # 0, DOMAIN file = Cores, DOMAIN headerFlag = Cores, flushEvents(c)
    PROVE  /\ CoreInv(<< >>, headerFlag'[c], file'[c], added[c], t, packetSeqNum')
           /\ headerFlag'[c] = TRUE
           /\ \A d \in Cores \ {c} : file'[d] = file[d] /\ headerFlag'[d] = headerFlag[d]
           /\ DOMAIN file' = Cores /\ DOMAIN headerFlag' = Cores
           /\ packetSeqNum' = packetSeqNum + 1 /\ packetSeqNum \in Nat
<1> DEFINE q == eventBuffer[c]
           p == Packet(q)
           b == writeBinInfo(q[1].time)
           K == file[c] \o (IF headerFlag[c] THEN << >> ELSE <<b>>) \o <<p>>
<1>1. /\ headerFlag' = [headerFlag EXCEPT ![c] = TRUE] /\ packetSeqNum' = packetSeqNum + 1
      /\ file' = [file EXCEPT ![c] = K]
  BY Zenon DEF flushEvents
<1>2. IsSequence(q) /\ packetSeqNum \in Nat
  BY DEF CoreInv, IsQueue
<1>3. IsPacket(p, q, packetSeqNum)
  BY <1>2, PacketIs
<1>4. IsBinInfo(b, q[1].time, packetSeqNum)
  BY BinInfoIs
<1> HIDE DEF p, b
<1>5. CoreInv(<< >>, TRUE, K, added[c], t, packetSeqNum + 1)
  BY <1>3, <1>4, CoreFlush
<1> HIDE DEF K
<1>6. headerFlag'[c] = TRUE /\ file'[c] = K
  BY <1>1, Zenon
<1>7. /\ \A d \in Cores \ {c} : file'[d] = file[d] /\ headerFlag'[d] = headerFlag[d]
      /\ DOMAIN file' = Cores /\ DOMAIN headerFlag' = Cores
  BY <1>1
<1>8. CoreInv(<< >>, headerFlag'[c], file'[c], added[c], t, packetSeqNum')
  BY <1>1, <1>5, <1>6, Zenon
<1> QED
  BY <1>1, <1>2, <1>6, <1>7, <1>8

\* A call or a return is added.
LEMMA StreamAdd ==
    ASSUME StreamInv, NEW m \in Messages, Receive(m), NEW id, NEW to, AddEvent(id, m, to)
    PROVE  StreamInv'
<1> DEFINE c == m.core
           t == time'[c]
           full == QueueFull(eventBuffer[c])
           q == IF full THEN << >> ELSE eventBuffer[c]
           e == Event(q, id, m, to)
           a == [id |-> id, pc |-> m.pc, pcDst |-> to, time |-> t, exact |-> ~m.ws \/ m.ckdf = 1]
<1>1. /\ time' \in [Cores -> Nat] /\ c \in Cores
      /\ \A d \in Cores : CoreInv(eventBuffer[d], headerFlag[d], file[d], added[d], time'[d], packetSeqNum)
  BY ReceiveTime
<1>2. /\ headerFlag \in [Cores -> BOOLEAN] /\ packetSeqNum \in Nat
      /\ DOMAIN eventBuffer = Cores /\ DOMAIN file = Cores /\ DOMAIN added = Cores
  BY DEF StreamInv
<1>3. /\ IF full THEN flushEvents(c) ELSE UNCHANGED <<headerFlag, packetSeqNum, file>>
      /\ eventBuffer' = [eventBuffer EXCEPT ![c] = Append(q, e)]
      /\ added' = [added EXCEPT ![c] = Append(@, a)]
  BY Zenon DEF AddEvent
<1>4. e = [id |-> id, pc |-> m.pc, pcDst |-> to, form |-> IF q = << >> THEN "extended" ELSE "compact",
           time |-> IF q = << >> THEN t ELSE t % CompactMod]
  BY Zenon DEF Event
<1> HIDE DEF q, full, e, c, t
<1>5. /\ CoreInv(q, headerFlag'[c], file'[c], added[c], t, packetSeqNum')
      /\ headerFlag' \in [Cores -> BOOLEAN] /\ DOMAIN file' = Cores
      /\ \A d \in Cores \ {c} : file'[d] = file[d] /\ headerFlag'[d] = headerFlag[d]
      /\ packetSeqNum' \in Nat /\ packetSeqNum <= packetSeqNum' /\ Len(q) # QueueEvents
  <2>1. CASE full
    <3>1. Len(eventBuffer[c]) # 0 /\ flushEvents(c) /\ q = << >>
      BY <1>3, <2>1, ConvertersAssumption DEF full, QueueFull, q
    <3>2. CoreInv(eventBuffer[c], headerFlag[c], file[c], added[c], t, packetSeqNum)
      BY <1>1 DEF t
    <3>3. DOMAIN headerFlag = Cores
      BY <1>2
    <3>4. /\ CoreInv(<< >>, headerFlag'[c], file'[c], added[c], t, packetSeqNum')
          /\ headerFlag'[c] = TRUE
          /\ \A d \in Cores \ {c} : file'[d] = file[d] /\ headerFlag'[d] = headerFlag[d]
          /\ DOMAIN file' = Cores /\ DOMAIN headerFlag' = Cores
          /\ packetSeqNum' = packetSeqNum + 1
      BY <1>1, <1>2, <3>1, <3>2, <3>3, FlushedCore
    <3>5. headerFlag' \in [Cores -> BOOLEAN]
      <4>1. headerFlag' = [headerFlag EXCEPT ![c] = TRUE]
        BY <3>1 DEF flushEvents
      <4> QED
        BY <1>2, <4>1
    <3>6. Len(q) # QueueEvents
      BY <3>1, EmptyIsSeq, ConvertersAssumption
    <3>7. packetSeqNum' \in Nat /\ packetSeqNum <= packetSeqNum'
      BY <1>2, <3>4
    <3>8. CoreInv(q, headerFlag'[c], file'[c], added[c], t, packetSeqNum')
      BY <3>1, <3>4, Zenon
    <3> QED
      BY <3>4, <3>5, <3>6, <3>7, <3>8
  <2>2. CASE ~ full
    <3>1. /\ q = eventBuffer[c] /\ headerFlag' = headerFlag /\ packetSeqNum' = packetSeqNum
          /\ file' = file /\ Len(q) # QueueEvents
      BY <1>3, <2>2 DEF full, QueueFull, q
    <3>2. CoreInv(q, headerFlag'[c], file'[c], added[c], t, packetSeqNum')
      BY <1>1, <3>1, Zenon DEF t
    <3>3. packetSeqNum' \in Nat /\ packetSeqNum <= packetSeqNum'
      BY <1>2, <3>1
    <3> QED
      BY <1>2, <3>1, <3>2, <3>3
  <2> QED
    BY <2>1, <2>2
<1>6. CoreInv(Append(q, e), headerFlag'[c], file'[c], Append(added[c], a), t, packetSeqNum')
  <2>1. q = << >> <=> Len(q) = 0
    BY <1>5, EmptyOrNot DEF CoreInv, IsQueue
  <2>2. /\ e.form = (IF Len(q) = 0 THEN "extended" ELSE "compact")
        /\ e.time = (IF Len(q) = 0 THEN t ELSE t % CompactMod)
    BY <1>4, <2>1
  <2>3. ReadEvent(e, t) = Given(a) /\ a.time = t
    <3>1. e.id = id /\ e.pc = m.pc /\ e.pcDst = to
      BY <1>4, Zenon
    <3>2. a.id = id /\ a.pc = m.pc /\ a.pcDst = to /\ a.time = t
      BY Zenon
    <3> HIDE DEF a
    <3> QED
      BY <3>1, <3>2, Zenon DEF ReadEvent, Given
  <2> HIDE DEF a
  <2> QED
    BY <1>5, <2>2, <2>3, CoreAdd
<1> HIDE DEF a
<1>7. ASSUME NEW d \in Cores PROVE CoreOK(d)'
  <2>1. CASE d = c
    <3>1. eventBuffer'[c] = Append(q, e) /\ added'[c] = Append(added[c], a)
      BY <1>1, <1>2, <1>3, Zenon
    <3> QED
      BY <1>6, <2>1, <3>1, Zenon DEF CoreOK, t
  <2>2. CASE d # c
    <3>1. /\ eventBuffer'[d] = eventBuffer[d] /\ added'[d] = added[d]
          /\ file'[d] = file[d] /\ headerFlag'[d] = headerFlag[d]
      BY <1>2, <1>3, <1>5, <2>2
    <3>2. time'[d] \in Nat /\ time'[d] <= time'[d]
      BY <1>1
    <3>3. CoreInv(eventBuffer[d], headerFlag[d], file[d], added[d], time'[d], packetSeqNum')
      <4>1. CoreInv(eventBuffer[d], headerFlag[d], file[d], added[d], time'[d], packetSeqNum)
        BY <1>1
      <4> QED
        BY <1>5, <3>2, <4>1, CoreLater
    <3> QED
      BY <3>1, <3>3, Zenon DEF CoreOK
  <2> QED
    BY <2>1, <2>2
<1>8. DOMAIN eventBuffer' = Cores /\ DOMAIN added' = Cores
  BY <1>2, <1>3
<1> QED
  BY <1>1, <1>5, <1>7, <1>8 DEF StreamInv

\* The destructor flushes a queue.
LEMMA StreamClose ==
    ASSUME StreamInv, NEW c \in Cores, CloseQueue(c)
    PROVE  StreamInv'
<1>1. /\ eventBuffer[c] # << >> /\ flushEvents(c) /\ eventBuffer' = [eventBuffer EXCEPT ![c] = << >>]
      /\ time' = time /\ added' = added
  BY DEF CloseQueue
<1>2. /\ headerFlag \in [Cores -> BOOLEAN] /\ packetSeqNum \in Nat /\ time \in [Cores -> Nat]
      /\ DOMAIN eventBuffer = Cores /\ DOMAIN file = Cores /\ DOMAIN added = Cores
      /\ DOMAIN headerFlag = Cores
      /\ \A d \in Cores : CoreInv(eventBuffer[d], headerFlag[d], file[d], added[d], time[d], packetSeqNum)
  BY DEF StreamInv, CoreOK
<1>3. Len(eventBuffer[c]) # 0
  BY <1>1, <1>2, EmptyOrNot DEF CoreInv, IsQueue
<1>4. /\ CoreInv(<< >>, headerFlag'[c], file'[c], added[c], time[c], packetSeqNum')
      /\ headerFlag'[c] = TRUE
      /\ \A d \in Cores \ {c} : file'[d] = file[d] /\ headerFlag'[d] = headerFlag[d]
      /\ DOMAIN file' = Cores /\ DOMAIN headerFlag' = Cores
      /\ packetSeqNum' = packetSeqNum + 1
  BY <1>1, <1>2, <1>3, FlushedCore
<1>5. packetSeqNum' \in Nat /\ packetSeqNum <= packetSeqNum'
  BY <1>2, <1>4
<1>6. headerFlag' \in [Cores -> BOOLEAN]
  <2>1. headerFlag' = [headerFlag EXCEPT ![c] = TRUE]
    BY <1>1 DEF flushEvents
  <2> QED
    BY <1>2, <2>1
<1>7. ASSUME NEW d \in Cores PROVE CoreOK(d)'
  <2>1. CASE d = c
    <3>1. eventBuffer'[c] = << >>
      BY <1>1, <1>2, Zenon
    <3> QED
      BY <1>1, <1>4, <2>1, <3>1, Zenon DEF CoreOK
  <2>2. CASE d # c
    <3>1. eventBuffer'[d] = eventBuffer[d] /\ file'[d] = file[d] /\ headerFlag'[d] = headerFlag[d]
      BY <1>1, <1>2, <1>4, <2>2
    <3>2. time[d] \in Nat /\ time[d] <= time[d]
      BY <1>2
    <3>3. CoreInv(eventBuffer[d], headerFlag[d], file[d], added[d], time[d], packetSeqNum')
      <4>1. CoreInv(eventBuffer[d], headerFlag[d], file[d], added[d], time[d], packetSeqNum)
        BY <1>2
      <4> QED
        BY <1>5, <3>2, <4>1, CoreLater
    <3> QED
      BY <1>1, <3>1, <3>3, Zenon DEF CoreOK
  <2> QED
    BY <2>1, <2>2
<1>8. DOMAIN eventBuffer' = Cores
  BY <1>1, <1>2
<1> QED
  BY <1>1, <1>2, <1>4, <1>5, <1>6, <1>7, <1>8 DEF StreamInv

\* Every step keeps the streams.
LEMMA StreamStep ==
    ASSUME StreamInv, [Next]_vars
    PROVE  StreamInv'
<1>1. ASSUME NEW m \in Messages, InferableCall(m) PROVE StreamInv'
  <2>1. Receive(m)
    BY <1>1, Zenon DEF InferableCall
  <2>2. UNCHANGED stream \/ \E to : AddEvent("entry", m, to)
    BY <1>1, Zenon DEF InferableCall, Quiet, Refuse, addCall
  <2> QED
    BY <2>1, <2>2, StreamKept, StreamAdd
<1>2. ASSUME NEW m \in Messages, EventCall(m) PROVE StreamInv'
  <2>1. Receive(m)
    BY <1>2, Zenon DEF EventCall
  <2> DEFINE p == proc[m.core]
             flag == CRFlag(Inst(p, m.pc))
  <2>2. \/ UNCHANGED stream
        \/ CASE ~HasCtf(p)      -> UNCHANGED stream
             [] flag = "call"   -> addCall(m, m.faddr)
             [] OTHER           -> addRet(m, m.faddr)
    BY <1>2, Zenon DEF EventCall, Quiet, Refuse
  <2>3. \/ UNCHANGED stream \/ AddEvent("entry", m, m.faddr) \/ AddEvent("exit", m, m.faddr)
    <3> HIDE DEF p, flag
    <3>1. ~ HasCtf(p) \/ (HasCtf(p) /\ flag = "call") \/ (HasCtf(p) /\ flag # "call")
      OBVIOUS
    <3> QED
      BY <2>2, <3>1 DEF addCall, addRet
  <2> QED
    BY <2>1, <2>3, StreamKept, StreamAdd
<1>3. ASSUME NEW m \in Messages, OtherEvent(m) PROVE StreamInv'
  <2>1. Receive(m) /\ UNCHANGED stream
    BY <1>3, Zenon DEF OtherEvent
  <2> QED
    BY <2>1, StreamKept
<1>4. ASSUME NEW m \in Messages, Malformed(m) PROVE StreamInv'
  <2>1. Receive(m) /\ UNCHANGED stream
    BY <1>4 DEF Malformed, Refuse
  <2> QED
    BY <2>1, StreamKept
<1>5. CASE Close \/ UNCHANGED vars
  BY <1>5 DEF Close, vars, options, stream, StreamInv, CoreOK
<1>6. CASE \E c \in Cores : CloseQueue(c)
  BY <1>6, StreamClose
<1> QED
  BY <1>1, <1>2, <1>3, <1>4, <1>5, <1>6 DEF Next, processTraceMessage

\* A reader gets back what was given.
LEMMA StreamReads == StreamInv => CtfReadsBack
<1> SUFFICES ASSUME StreamInv, NEW c \in Cores,
               \A i \in 2 .. Len(added[c]) : added[c][i].time - added[c][i - 1].time < CompactMod
             PROVE  /\ Len(ReadBack(c)) = Len(added[c])
                    /\ \A i \in DOMAIN added[c] :
                         ReadBack(c)[i] = [id |-> added[c][i].id, pc |-> added[c][i].pc,
                                           pcDst |-> added[c][i].pcDst, time |-> added[c][i].time]
  BY Zenon DEF CtfReadsBack
<1>1. ReadsBack(file[c], eventBuffer[c], added[c]) /\ IsSequence(added[c])
  BY DEF StreamInv, CoreOK, CoreInv, AddedInv
<1>2. ReadBack(c) = Read(file[c], eventBuffer[c])
  BY Zenon DEF ReadBack, Read, Flat, PacketEvents
<1>3. DOMAIN added[c] = 1 .. Len(added[c])
  BY <1>1, SeqIsFunction
<1>4. CloseTogether(added[c])
  BY Zenon DEF CloseTogether
<1> QED
  BY <1>1, <1>2, <1>3, <1>4, Zenon DEF ReadsBack, Given, ReadEvent

\* A reader can walk the packets.
LEMMA StreamWalkable == StreamInv => PacketsWalkable
<1> SUFFICES ASSUME StreamInv, NEW c \in Cores, NEW i \in DOMAIN file[c]
             PROVE  LET p == file[c][i]
                        times == TimesOf(p.events)
                    IN  /\ p.size = p.written
                        /\ (p.events = << >>) <=> (i = 1)
                        /\ p.events # << >> /\ p.begin \div CompactMod = times[Len(times)] \div CompactMod
                              => \A k \in DOMAIN times : times[k] \in p.begin .. p.end
                        /\ i > 1 => file[c][i - 1].seq <= p.seq /\ file[c][i - 1].begin <= p.begin
  BY Zenon DEF PacketsWalkable
<1> DEFINE F == file[c]
           p == F[i]
           q == p.events
           times == TimesOf(q)
           b == Bound(eventBuffer[c], time[c])
<1>1. FileInv(F, b, packetSeqNum)
  BY DEF StreamInv, CoreOK, CoreInv
<1>2. i \in 1 .. Len(F)
  BY <1>1, SeqIsFunction DEF FileInv
<1> HIDE DEF b, F
<1>3. /\ PacketOK(p) /\ (Len(q) = 0 <=> i = 1)
      /\ i > 1 => F[i - 1].seq <= p.seq /\ F[i - 1].begin <= p.begin
  BY <1>1, <1>2 DEF FileInv
<1> HIDE DEF p
<1>4. IsSequence(q) /\ IsQueue(q) /\ p.size = p.written
  BY <1>3 DEF PacketOK, IsQueue
<1>5. q = << >> <=> Len(q) = 0
  BY <1>4, EmptyOrNot
<1>6. DOMAIN times = 1 .. Len(q) /\ Len(times) = Len(q)
  <2>1. PICK t : times = [k \in 1 .. Len(q) |-> t[k]]
    BY <1>4, TimesOfIs DEF IsQueue
  <2>2. times = [k \in 1 .. Len(q) |-> times[k]] /\ Len(q) \in Nat
    BY <1>4, <2>1, SeqIsFunction
  <2> HIDE DEF times
  <2>3. Len(times) = Len(q)
    BY <2>2, FunctionIsSeq
  <2> QED
    BY <2>2, <2>3
<1>7. Len(q) # 0 /\ p.begin \div CompactMod = times[Len(q)] \div CompactMod
         => \A k \in 1 .. Len(q) : times[k] \in p.begin .. p.end
  BY <1>3 DEF PacketOK
<1> HIDE DEF times, q
<1>8. q # << >> /\ p.begin \div CompactMod = times[Len(times)] \div CompactMod
         => \A k \in DOMAIN times : times[k] \in p.begin .. p.end
  BY <1>5, <1>6, <1>7, Zenon
<1> QED
  BY <1>3, <1>4, <1>5, <1>8, Zenon DEF times, q, p, F

(* Reading a core's CTF stream gives back every call and return that       *)
(* addCall and addRet were given, in order and with its full time, as long *)
(* as consecutive events are less than CompactMod apart: flushEvents and   *)
(* the compact time stamps lose nothing else, whatever the number of       *)
(* cores, the length of the queue and the width of the time stamps.        *)
THEOREM CtfReadsBackHolds == Spec => []CtfReadsBack
<1>1. Spec => []StreamInv
  BY StreamInit, StreamStep, PTL DEF Spec
<1> QED
  BY <1>1, StreamReads, PTL

(* The header of every packet that flushEvents and writeBinInfo write has  *)
(* the length that is written, a span of times that holds those of its     *)
(* events, and a number and a begin no smaller than the packet's before.   *)
THEOREM PacketsWalkableHolds == Spec => []PacketsWalkable
<1>1. Spec => []StreamInv
  BY StreamInit, StreamStep, PTL DEF Spec
<1> QED
  BY <1>1, StreamWalkable, PTL

-----------------------------------------------------------------------------
(* Elements at places.                                                     *)

\* The recursive function inside At, and its first n values.
FoundAt(s, places, f, i) == IF i \in places THEN Append(f[i - 1], s[i]) ELSE f[i - 1]
Found(f, s, places) ==
    f = [i \in 0 .. Len(s) |-> IF i = 0 THEN << >> ELSE FoundAt(s, places, f, i)]
FirstFound(f, s, places, n) ==
    /\ f[0] = << >> /\ \A i \in 1 .. n : f[i] = FoundAt(s, places, f, i)
    /\ \A i \in 0 .. n : IsSequence(f[i])

\* There are such functions, and their values are sequences.
LEMMA FoundExists ==
    ASSUME NEW s, IsSequence(s), NEW places
    PROVE  \E f : Found(f, s, places)
<1> DEFINE n == Len(s)
           U == {s[i] : i \in 1 .. n}
           V == Seq(U)
           g == [k \in 1 .. n |-> [x \in V |-> IF k \in places THEN Append(x, s[k]) ELSE x]]
<1>1. PICK b \in Nat : b = 0
  OBVIOUS
<1>2. n \in Nat /\ \A k \in 1 .. n : s[k] \in U
  BY SeqIsFunction
<1>3. \A k \in 1 .. n, x \in V : g[k][x] = IF k \in places THEN Append(x, s[k]) ELSE x
  BY Zenon
<1>4. \A k \in 1 .. n, x \in V : Append(x, s[k]) \in V
  <2> HIDE DEF U
  <2> QED
    BY <1>2, AppendProperties
<1>5. << >> \in V
  OBVIOUS
<1>6. \A k \in 1 .. n : g[k] \in [V -> V]
  <2> TAKE k \in 1 .. n
  <2>1. g[k] = [x \in V |-> IF k \in places THEN Append(x, s[k]) ELSE x]
    BY Zenon
  <2>2. \A x \in V : (IF k \in places THEN Append(x, s[k]) ELSE x) \in V
    BY <1>4, Zenon
  <2> HIDE DEF g, V
  <2> QED
    BY <2>1, <2>2, Zenon
<1> HIDE DEF n, g, V
<1>7. Steps(g, b, n, V)
  BY <1>1, <1>2, <1>6 DEF Steps
<1>8. PICK f : f \in [b .. n -> V] /\ f[b] = << >> /\ Follows(f, g, b, n)
  BY <1>5, <1>7, Recursion
<1>9. ASSUME NEW i \in 0 .. n
      PROVE  f[i] = IF i = 0 THEN << >> ELSE FoundAt(s, places, f, i)
  <2>1. CASE i = 0
    BY <1>1, <1>8, <2>1
  <2>2. CASE i # 0
    <3>1. i \in 1 .. n /\ i \in b + 1 .. n /\ i - 1 \in b .. n
      BY <1>1, <1>2, <2>2
    <3>2. f[i] = g[i][f[i - 1]] /\ f[i - 1] \in V
      BY <1>8, <3>1 DEF Follows
    <3> QED
      BY <1>3, <2>2, <3>1, <3>2, Zenon DEF FoundAt
  <2> QED
    BY <2>1, <2>2
<1>10. f = [i \in 0 .. n |-> f[i]]
  BY <1>1, <1>8
<1>11. Found(f, s, places)
  BY <1>9, <1>10, Zenon DEF Found, n
<1> QED
  BY <1>11

\* At holds the last value of one.
LEMMA AtIs ==
    ASSUME NEW s, IsSequence(s), NEW places
    PROVE  \E f : FirstFound(f, s, places, Len(s)) /\ At(s, places) = f[Len(s)]
<1> DEFINE n == Len(s)
<1>1. n \in Nat
  BY SeqIsFunction
<1>2. At(s, places) = (CHOOSE f : Found(f, s, places))[n]
  BY Zenon DEF At, Found, FoundAt
<1>3. PICK f : Found(f, s, places) /\ At(s, places) = f[n]
  BY <1>2, FoundExists, Zenon
<1>4. \A i \in 0 .. n : f[i] = IF i = 0 THEN << >> ELSE FoundAt(s, places, f, i)
  BY <1>3, Zenon DEF Found
<1> HIDE DEF n
<1>5. f[0] = << >> /\ \A i \in 1 .. n : f[i] = FoundAt(s, places, f, i)
  <2>1. 0 \in 0 .. n /\ \A i \in 1 .. n : i \in 0 .. n /\ i # 0
    BY <1>1
  <2> QED
    BY <1>4, <2>1, Zenon
<1>6. \A i \in 0 .. n : IsSequence(f[i])
  <2> DEFINE T == {i \in 0 .. n : ~ IsSequence(f[i])}
  <2> SUFFICES ASSUME T # {} PROVE FALSE
    OBVIOUS
  <2>1. PICK i \in T : \A y \in T : i <= y
    <3>1. T \subseteq Nat
      BY <1>1
    <3> HIDE DEF T
    <3> QED
      BY <3>1, LeastNatural
  <2>2. i \in 0 .. n /\ ~ IsSequence(f[i])
    OBVIOUS
  <2>3. i # 0
    BY <1>5, <2>2, EmptyIsSeq
  <2>4. i \in 1 .. n /\ i - 1 \in 0 .. n /\ i - 1 \notin T
    BY <1>1, <2>1, <2>2, <2>3
  <2>5. IsSequence(f[i - 1])
    BY <2>4
  <2>6. IsSequence(Append(f[i - 1], s[i]))
    BY <2>5, AppendToSeq
  <2> QED
    BY <1>5, <2>2, <2>4, <2>5, <2>6 DEF FoundAt
<1> QED
  BY <1>3, <1>5, <1>6 DEF n, FirstFound

\* Two sets of places that are the same up to n.
SamePlaces(P, Q, n) == \A i \in 1 .. n : i \in P <=> i \in Q

\* The elements found in a longer sequence.
LEMMA AtAppend ==
    ASSUME NEW s, IsSequence(s), NEW x, NEW P, NEW Q, SamePlaces(P, Q, Len(s))
    PROVE  /\ IsSequence(At(s, P))
           /\ At(Append(s, x), Q) = IF Len(s) + 1 \in Q THEN Append(At(s, P), x) ELSE At(s, P)
<1> DEFINE r == Append(s, x)
           n == Len(s)
<1>1. /\ IsSequence(r) /\ Len(r) = n + 1 /\ (\A i \in 1 .. n : r[i] = s[i]) /\ r[n + 1] = x
      /\ n \in Nat
  BY AppendToSeq, SeqIsFunction
<1> HIDE DEF r
<1>2. PICK f : FirstFound(f, s, P, n) /\ At(s, P) = f[n]
  BY AtIs
<1>3. PICK h : FirstFound(h, r, Q, n + 1) /\ At(r, Q) = h[n + 1]
  <2>1. PICK h : FirstFound(h, r, Q, Len(r)) /\ At(r, Q) = h[Len(r)]
    BY <1>1, AtIs
  <2> QED
    BY <1>1, <2>1, Zenon
<1>4. \A i \in 1 .. n : i \in P <=> i \in Q
  BY DEF SamePlaces
<1> HIDE DEF n
<1>5. \A i \in 0 .. n : f[i] = h[i]
  <2> DEFINE T == {i \in 0 .. n : f[i] # h[i]}
  <2> SUFFICES ASSUME T # {} PROVE FALSE
    OBVIOUS
  <2>1. PICK i \in T : \A y \in T : i <= y
    <3>1. T \subseteq Nat
      BY <1>1
    <3> HIDE DEF T
    <3> QED
      BY <3>1, LeastNatural
  <2>2. i \in 0 .. n /\ f[i] # h[i]
    OBVIOUS
  <2>3. i # 0
    BY <1>2, <1>3, <2>2 DEF FirstFound
  <2>4. i \in 1 .. n /\ i \in 1 .. n + 1 /\ i - 1 \in 0 .. n /\ i - 1 \notin T
    BY <1>1, <2>1, <2>2, <2>3
  <2>5. f[i - 1] = h[i - 1]
    BY <2>4
  <2>6. f[i] = FoundAt(s, P, f, i) /\ h[i] = FoundAt(r, Q, h, i)
    BY <1>2, <1>3, <2>4, Zenon DEF FirstFound
  <2>7. r[i] = s[i] /\ (i \in P <=> i \in Q)
    BY <1>1, <1>4, <2>4
  <2> QED
    BY <2>2, <2>5, <2>6, <2>7, Zenon DEF FoundAt
<1>6. PICK k \in 1 .. n + 1 : k = n + 1
  BY <1>1
<1>7. k - 1 = n /\ n \in 0 .. n
  BY <1>1, <1>6
<1>8. h[k] = FoundAt(r, Q, h, k)
  BY <1>3, Zenon DEF FirstFound
<1>9. h[k - 1] = f[n]
  BY <1>5, <1>7
<1>10. At(r, Q) = IF k \in Q THEN Append(f[n], x) ELSE f[n]
  BY <1>1, <1>3, <1>6, <1>8, <1>9, Zenon DEF FoundAt
<1>11. IsSequence(f[n])
  BY <1>2, <1>7 DEF FirstFound
<1> QED
  BY <1>2, <1>6, <1>10, <1>11, Zenon DEF r, n

\* Nothing is found in an empty sequence.
LEMMA AtEmpty == \A places : At(<< >>, places) = << >>
<1> TAKE places
<1>0. PICK s : s = << >>
  OBVIOUS
<1>1. IsSequence(s) /\ Len(s) = 0
  BY <1>0, EmptyIsSeq
<1>2. PICK f : FirstFound(f, s, places, Len(s)) /\ At(s, places) = f[Len(s)]
  BY <1>1, AtIs
<1> QED
  BY <1>0, <1>1, <1>2, Zenon DEF FirstFound

\* The lines of a core, and the events that have names.
CoreLines(L, c) == At(L, {i \in DOMAIN L : L[i].core = c})
NamedEvents(A) == At(A, {i \in DOMAIN A : A[i].pc \notin NoName})

\* What one more line does to the lines of a core.
LEMMA CoreLinesAppend ==
    ASSUME NEW L, IsSequence(L), NEW l, NEW c
    PROVE  /\ IsSequence(CoreLines(L, c))
           /\ CoreLines(Append(L, l), c) = IF l.core = c THEN Append(CoreLines(L, c), l) ELSE CoreLines(L, c)
<1> DEFINE K == Append(L, l)
           n == Len(L)
           P == {i \in DOMAIN L : L[i].core = c}
           Q == {i \in DOMAIN K : K[i].core = c}
<1>1. /\ IsSequence(K) /\ Len(K) = n + 1 /\ (\A i \in 1 .. n : K[i] = L[i]) /\ K[n + 1] = l
      /\ n \in Nat /\ DOMAIN L = 1 .. n
  BY AppendToSeq, SeqIsFunction
<1>2. DOMAIN K = 1 .. n + 1
  BY <1>1, SeqIsFunction
<1> HIDE DEF K, n
<1>3. SamePlaces(P, Q, n)
  BY <1>1, <1>2 DEF SamePlaces
<1>4. n + 1 \in Q <=> l.core = c
  BY <1>1, <1>2
<1>5. CoreLines(L, c) = At(L, P) /\ CoreLines(K, c) = At(K, Q)
  BY Zenon DEF CoreLines
<1> HIDE DEF P, Q
<1>6. IsSequence(At(L, P)) /\ At(K, Q) = IF n + 1 \in Q THEN Append(At(L, P), l) ELSE At(L, P)
  <2>1. SamePlaces(P, Q, Len(L))
    BY <1>3 DEF n
  <2>2. IsSequence(At(L, P))
    BY <2>1, AtAppend
  <2>3. At(Append(L, l), Q) = IF Len(L) + 1 \in Q THEN Append(At(L, P), l) ELSE At(L, P)
    BY <2>1, AtAppend
  <2> QED
    BY <2>2, <2>3, Zenon DEF n, K
<1> QED
  BY <1>4, <1>5, <1>6, Zenon DEF K

\* What one more event does to the events that have names.
LEMMA NamedAppend ==
    ASSUME NEW A, IsSequence(A), NEW a
    PROVE  /\ IsSequence(NamedEvents(A))
           /\ NamedEvents(Append(A, a)) =
                IF a.pc \notin NoName THEN Append(NamedEvents(A), a) ELSE NamedEvents(A)
<1> DEFINE K == Append(A, a)
           n == Len(A)
           P == {i \in DOMAIN A : A[i].pc \notin NoName}
           Q == {i \in DOMAIN K : K[i].pc \notin NoName}
<1>1. /\ IsSequence(K) /\ Len(K) = n + 1 /\ (\A i \in 1 .. n : K[i] = A[i]) /\ K[n + 1] = a
      /\ n \in Nat /\ DOMAIN A = 1 .. n
  BY AppendToSeq, SeqIsFunction
<1>2. DOMAIN K = 1 .. n + 1
  BY <1>1, SeqIsFunction
<1> HIDE DEF K, n
<1>3. SamePlaces(P, Q, n)
  BY <1>1, <1>2 DEF SamePlaces
<1>4. n + 1 \in Q <=> a.pc \notin NoName
  BY <1>1, <1>2
<1>5. NamedEvents(A) = At(A, P) /\ NamedEvents(K) = At(K, Q)
  BY Zenon DEF NamedEvents
<1> HIDE DEF P, Q
<1>6. IsSequence(At(A, P)) /\ At(K, Q) = IF n + 1 \in Q THEN Append(At(A, P), a) ELSE At(A, P)
  <2>1. SamePlaces(P, Q, Len(A))
    BY <1>3 DEF n
  <2>2. IsSequence(At(A, P))
    BY <2>1, AtAppend
  <2>3. At(Append(A, a), Q) = IF Len(A) + 1 \in Q THEN Append(At(A, P), a) ELSE At(A, P)
    BY <2>1, AtAppend
  <2> QED
    BY <2>2, <2>3, Zenon DEF n, K
<1> QED
  BY <1>4, <1>5, <1>6, Zenon DEF K

\* A line and an event that show the same call, and sequences of such pairs.
Match(l, a) ==
    /\ l.pc = a.pc /\ l.time = a.time
    /\ (l.shows[1] = "call") <=> (a.id = "entry")
    /\ a.exact => l.shows[2] = a.pcDst
Agree(lines, given) ==
    Len(lines) = Len(given) /\ \A i \in 1 .. Len(lines) : Match(lines[i], given[i])

\* A pair more.
LEMMA AgreeAppend ==
    ASSUME NEW s, IsSequence(s), NEW t, IsSequence(t), Agree(s, t), NEW l, NEW a, Match(l, a)
    PROVE  Agree(Append(s, l), Append(t, a))
<1> DEFINE u == Append(s, l)
           v == Append(t, a)
           n == Len(s)
<1>1. n \in Nat /\ Len(t) = n
  BY SeqIsFunction DEF Agree
<1>2. Len(u) = n + 1 /\ (\A i \in 1 .. n : u[i] = s[i]) /\ u[n + 1] = l
  BY AppendToSeq
<1>3. Len(v) = n + 1 /\ (\A i \in 1 .. n : v[i] = t[i]) /\ v[n + 1] = a
  BY <1>1, AppendToSeq
<1>4. \A i \in 1 .. n : Match(s[i], t[i])
  BY DEF Agree
<1> HIDE DEF u, v, n
<1>5. ASSUME NEW i \in 1 .. n + 1 PROVE Match(u[i], v[i])
  <2>1. CASE i \in 1 .. n
    BY <1>2, <1>3, <1>4, <2>1, Zenon
  <2>2. CASE i = n + 1
    BY <1>2, <1>3, <2>2, Zenon
  <2> QED
    BY <1>1, <2>1, <2>2
<1> QED
  BY <1>2, <1>3, <1>5, Zenon DEF Agree, u, v

-----------------------------------------------------------------------------
(* The event converters.                                                   *)

\* The record of a converter, and when a line of it reaches a file.
Parts == {"made", "events", "files"}
CvShape(cv) ==
    /\ DOMAIN cv = Parts /\ DOMAIN cv.files = Kinds /\ IsSequence(cv.files["callret"])
    /\ cv.made \/ cv = NoConverter
Shown(l) == l.kind \in Kinds \ noFile /\ (l.pc \notin NoName \/ l.kind \in ContextKinds)

\* What Written does to the parts of a converter.
LEMMA WrittenIs ==
    ASSUME NEW cv, DOMAIN cv = Parts, DOMAIN cv.files = Kinds, NEW l
    PROVE  /\ DOMAIN Written(cv, l) = Parts /\ Written(cv, l).made = cv.made
           /\ DOMAIN Written(cv, l).files = Kinds
           /\ Written(cv, l).files["callret"] =
                IF Shown(l) /\ l.kind = "callret" THEN Append(cv.files["callret"], l)
                                                  ELSE cv.files["callret"]
<1>1. CASE ~ Shown(l)
  <2>1. Written(cv, l) = cv
    BY <1>1, Zenon DEF Written, Shown
  <2> QED
    BY <1>1, <2>1, Zenon
<1>2. CASE Shown(l)
  <2> DEFINE a == [cv EXCEPT !.events = Append(@, l)]
             g == [cv.files EXCEPT ![l.kind] = Append(@, l)]
             w == [a EXCEPT !.files = g]
  <2>0. "made" \in Parts /\ "events" \in Parts /\ "files" \in Parts
        /\ "made" # "events" /\ "made" # "files" /\ "events" # "files"
    BY DEF Parts
  <2>1. Written(cv, l) = [cv EXCEPT !.events = Append(@, l), !.files[l.kind] = Append(@, l)]
    BY <1>2, Zenon DEF Written, Shown
  <2>2. DOMAIN a = Parts /\ a.made = cv.made /\ a.files = cv.files
    BY <2>0, Zenon
  <2>3. [cv EXCEPT !.events = Append(@, l), !.files[l.kind] = Append(@, l)] = w
    BY <2>0, Zenon
  <2> HIDE DEF a, g
  <2>4. DOMAIN w = Parts /\ w.made = a.made /\ w.files = g
    BY <2>0, <2>2, Zenon
  <2> HIDE DEF w
  <2>5. DOMAIN g = Kinds
    BY Zenon DEF g
  <2>6. l.kind \in Kinds /\ "callret" \in Kinds
    BY <1>2 DEF Shown, Kinds
  <2>7. g["callret"] = IF l.kind = "callret" THEN Append(cv.files["callret"], l) ELSE cv.files["callret"]
    BY <2>6, Zenon DEF g
  <2> QED
    BY <1>2, <2>1, <2>2, <2>3, <2>4, <2>5, <2>7, Zenon
<1> QED
  BY <1>1, <1>2

ShapeInv == DOMAIN converter = Procs /\ \A p \in Procs : CvShape(converter[p])
Calls == converter[CtfProc].files["callret"]

\* A converter is made.
LEMMA MadeIs ==
    ASSUME NEW cv, CvShape(cv)
    PROVE  LET d == [cv EXCEPT !.made = TRUE]
           IN  DOMAIN d = Parts /\ d.made = TRUE /\ d.files = cv.files
<1>1. "made" \in Parts /\ "files" \in Parts /\ "made" # "files" /\ DOMAIN cv = Parts
  BY DEF Parts, CvShape
<1> QED
  BY <1>1, Zenon

\* A line goes to its converter, and to its list of calls only if it is one.
LEMMA EmitShape ==
    ASSUME ShapeInv, NEW p \in Procs, NEW l, EmitOrFail(p, l)
    PROVE  /\ ShapeInv'
           /\ Calls' = IF p = CtfProc /\ enableEventConverter(p) /\ Shown(l) /\ l.kind = "callret"
                       THEN Append(Calls, l) ELSE Calls
           /\ status' \in {status, "ERR"}
<1> DEFINE d == [converter[p] EXCEPT !.made = TRUE]
           v == IF enableEventConverter(p) THEN Written(d, l) ELSE d
<1>0. CtfProc \in Procs
  BY ImageAssumption DEF CtfProc, Procs
<1>1. CvShape(converter[p]) /\ DOMAIN converter = Procs
  BY DEF ShapeInv
<1>2. DOMAIN d = Parts /\ d.made = TRUE /\ d.files = converter[p].files
  BY <1>1, MadeIs
<1>3. converter' = [converter EXCEPT ![p] = v]
  <2>1. CASE enableEventConverter(p)
    BY <2>1, Zenon DEF EmitOrFail, Emit
  <2>2. CASE ~ enableEventConverter(p)
    <3>1. converter' = [converter EXCEPT ![p].made = TRUE]
      BY <2>2, Zenon DEF EmitOrFail, CannotEmit
    <3>2. [converter EXCEPT ![p].made = TRUE] = [converter EXCEPT ![p] = d]
      BY Zenon
    <3> QED
      BY <2>2, <3>1, <3>2, Zenon
  <2> QED
    BY <2>1, <2>2
<1>4. status' \in {status, "ERR"}
  BY DEF EmitOrFail, Emit, CannotEmit
<1> HIDE DEF d
<1>5. DOMAIN d.files = Kinds /\ IsSequence(d.files["callret"])
  BY <1>1, <1>2 DEF CvShape
<1>6. /\ DOMAIN v = Parts /\ v.made = TRUE /\ DOMAIN v.files = Kinds
      /\ v.files["callret"] = IF enableEventConverter(p) /\ Shown(l) /\ l.kind = "callret"
                              THEN Append(d.files["callret"], l) ELSE d.files["callret"]
  <2>1. CASE enableEventConverter(p)
    BY <1>2, <1>5, <2>1, WrittenIs
  <2>2. CASE ~ enableEventConverter(p)
    BY <1>2, <1>5, <2>2
  <2> QED
    BY <2>1, <2>2
<1> HIDE DEF v
<1>7. CvShape(v)
  <2>1. IsSequence(v.files["callret"])
    BY <1>5, <1>6, AppendToSeq
  <2> QED
    BY <1>6, <2>1 DEF CvShape
<1>8. DOMAIN converter' = Procs /\ \A r \in Procs : converter'[r] = IF r = p THEN v ELSE converter[r]
  BY <1>1, <1>3, Zenon
<1>9. ShapeInv'
  BY <1>7, <1>8, Zenon DEF ShapeInv
<1>10. Calls' = IF CtfProc = p THEN v.files["callret"] ELSE Calls
  BY <1>0, <1>8, Zenon DEF Calls
<1>11. p = CtfProc => d.files["callret"] = Calls
  BY <1>2, Zenon DEF Calls
<1> QED
  BY <1>4, <1>6, <1>9, <1>10, <1>11, Zenon

-----------------------------------------------------------------------------
(* The rest of the state.                                                  *)

\* The options, the process of each core, and the shape of the converters.
ControlInv ==
    /\ bare \in BOOLEAN /\ eventConvert \in BOOLEAN /\ (ctf => bare) /\ noFile \in Unopenable
    /\ status \in {"OK", "ERR", "CLOSED"} /\ count \in 0 .. MaxMessages
    /\ proc \in [Cores -> Procs \cup {NoProc}]
    /\ bare => \A c \in Cores : proc[c] \in {CtfProc, NoProc}
    /\ ShapeInv

\* At the start.
LEMMA ControlInit == Init => ControlInv
<1> SUFFICES ASSUME Init PROVE ControlInv
  OBVIOUS
<1>0. CtfProc \in Procs /\ MaxMessages \in Nat
  BY ImageAssumption, ConvertersAssumption DEF CtfProc, Procs
<1>1. /\ bare \in BOOLEAN /\ eventConvert \in BOOLEAN /\ ctf \in {FALSE, bare} /\ noFile \in Unopenable
      /\ status = "OK" /\ count = 0
      /\ proc = [c \in Cores |-> IF bare THEN CtfProc ELSE NoProc]
      /\ converter = [p \in Procs |-> NoConverter]
  BY DEF Init
<1>2. ctf => bare
  BY <1>1, Zenon
<1>3. CvShape(NoConverter)
  <2>1. DOMAIN NoConverter = Parts
    BY Zenon DEF NoConverter, Parts
  <2>2. "callret" \in Kinds
    BY DEF Kinds
  <2>3. DOMAIN NoConverter.files = Kinds /\ NoConverter.files["callret"] = << >>
    BY <2>2, Zenon DEF NoConverter
  <2> QED
    BY <2>1, <2>3, EmptyIsSeq DEF CvShape
<1>4. ShapeInv
  BY <1>1, <1>3, Zenon DEF ShapeInv
<1>5. proc \in [Cores -> Procs \cup {NoProc}] /\ \A c \in Cores : proc[c] = IF bare THEN CtfProc ELSE NoProc
  BY <1>0, <1>1
<1>6. bare => \A c \in Cores : proc[c] \in {CtfProc, NoProc}
  BY <1>5
<1>7. count \in 0 .. MaxMessages
  BY <1>0, <1>1
<1> QED
  BY <1>1, <1>2, <1>4, <1>5, <1>6, <1>7, Zenon DEF ControlInv

\* What a message does to the control.
LEMMA ReceiveControl ==
    ASSUME ControlInv, NEW m \in Messages, Receive(m)
    PROVE  /\ bare' = bare /\ eventConvert' = eventConvert /\ ctf' = ctf /\ noFile' = noFile
           /\ status = "OK" /\ count' \in 0 .. MaxMessages /\ m.core \in Cores
           /\ m.to \in Procs \cup {NoProc}
<1>1. m.core \in Cores /\ m.to \in Procs \cup {NoProc} /\ MaxMessages \in Nat
  BY ConvertersAssumption
<1> QED
  BY <1>1 DEF ControlInv, Receive, options

\* A step that leaves the converters alone, or emits a line.
Emits == UNCHANGED converter \/ \E p \in Procs : \E l : EmitOrFail(p, l)

\* Such a step keeps the shape of the converters.
LEMMA EmitsShape ==
    ASSUME ShapeInv, Emits
    PROVE  ShapeInv'
<1>1. CASE UNCHANGED converter
  BY <1>1 DEF ShapeInv
<1>2. CASE \E p \in Procs : \E l : EmitOrFail(p, l)
  BY <1>2, EmitShape
<1> QED
  BY <1>1, <1>2 DEF Emits

\* Every step keeps the control.
LEMMA ControlStep ==
    ASSUME ControlInv, [Next]_vars
    PROVE  ControlInv'
<1>0. CtfProc \in Procs
  BY ImageAssumption DEF CtfProc, Procs
<1>1. ASSUME NEW m \in Messages, Receive(m), Emits, status' \in {status, "ERR"},
             \/ UNCHANGED proc
             \/ proc' = [proc EXCEPT ![m.core] = processPidPriv(m.to)]
      PROVE  ControlInv'
  <2>1. /\ bare' = bare /\ eventConvert' = eventConvert /\ ctf' = ctf /\ noFile' = noFile
        /\ status = "OK" /\ count' \in 0 .. MaxMessages /\ m.core \in Cores
        /\ m.to \in Procs \cup {NoProc}
    BY <1>1, ReceiveControl
  <2>2. ShapeInv'
    BY <1>1, EmitsShape DEF ControlInv
  <2>3. /\ processPidPriv(m.to) \in Procs \cup {NoProc}
        /\ bare => processPidPriv(m.to) \in {CtfProc, NoProc}
    BY <1>0, <2>1 DEF processPidPriv
  <2>4. proc' \in [Cores -> Procs \cup {NoProc}] /\ (bare => \A c \in Cores : proc'[c] \in {CtfProc, NoProc})
    <3> DEFINE v == processPidPriv(m.to)
    <3> HIDE DEF v
    <3>1. v \in Procs \cup {NoProc} /\ (bare => v \in {CtfProc, NoProc})
      BY <2>3 DEF v
    <3>2. proc' = proc \/ proc' = [proc EXCEPT ![m.core] = v]
      BY <1>1 DEF v
    <3> QED
      BY <2>1, <3>1, <3>2 DEF ControlInv
  <2>5. status' \in {"OK", "ERR", "CLOSED"}
    BY <1>1, <2>1
  <2> QED
    BY <2>1, <2>2, <2>4, <2>5 DEF ControlInv
<1>2. ASSUME NEW m \in Messages, InferableCall(m) PROVE ControlInv'
  <2>0. proc[m.core] \in Procs \cup {NoProc}
    BY ConvertersAssumption DEF ControlInv
  <2>1. Receive(m) /\ UNCHANGED proc
    BY <1>2, Zenon DEF InferableCall
  <2>2. \/ UNCHANGED converter /\ status' \in {status, "ERR"}
        \/ proc[m.core] # NoProc /\ \E l : EmitOrFail(proc[m.core], l)
    BY <1>2, Zenon DEF InferableCall, Quiet, Refuse
  <2>3. Emits /\ status' \in {status, "ERR"}
    BY <2>0, <2>2, EmitShape DEF Emits, ControlInv
  <2> QED
    BY <1>1, <2>1, <2>3
<1>3. ASSUME NEW m \in Messages, EventCall(m) PROVE ControlInv'
  <2>0. proc[m.core] \in Procs \cup {NoProc}
    BY ConvertersAssumption DEF ControlInv
  <2>1. Receive(m) /\ UNCHANGED proc
    BY <1>3, Zenon DEF EventCall
  <2>2. \/ UNCHANGED converter /\ status' \in {status, "ERR"}
        \/ proc[m.core] # NoProc /\ \E l : EmitOrFail(proc[m.core], l)
    BY <1>3, Zenon DEF EventCall, Quiet, Refuse
  <2>3. Emits /\ status' \in {status, "ERR"}
    BY <2>0, <2>2, EmitShape DEF Emits, ControlInv
  <2> QED
    BY <1>1, <2>1, <2>3
<1>4. ASSUME NEW m \in Messages, OtherEvent(m) PROVE ControlInv'
  <2>1. Receive(m) /\ (UNCHANGED proc \/ proc' = [proc EXCEPT ![m.core] = processPidPriv(m.to)])
    BY <1>4, Zenon DEF OtherEvent
  <2>2. \/ UNCHANGED <<converter, status>>
        \/ proc'[m.core] # NoProc /\ \E l : EmitOrFail(proc'[m.core], l)
    BY <1>4, Zenon DEF OtherEvent
  <2>3. proc'[m.core] \in Procs \cup {NoProc}
    <3>1. m.core \in Cores /\ m.to \in Procs \cup {NoProc}
      BY ConvertersAssumption
    <3>2. processPidPriv(m.to) \in Procs \cup {NoProc}
      BY <1>0, <3>1 DEF processPidPriv
    <3> DEFINE v == processPidPriv(m.to)
    <3> HIDE DEF v
    <3>3. v \in Procs \cup {NoProc}
      BY <3>2 DEF v
    <3>4. proc' = proc \/ proc' = [proc EXCEPT ![m.core] = v]
      BY <2>1 DEF v
    <3> QED
      BY <3>1, <3>3, <3>4 DEF ControlInv
  <2>4. Emits /\ status' \in {status, "ERR"}
    BY <2>2, <2>3, EmitShape DEF Emits, ControlInv
  <2> QED
    BY <1>1, <2>1, <2>4
<1>5. ASSUME NEW m \in Messages, Malformed(m) PROVE ControlInv'
  <2>1. Receive(m) /\ UNCHANGED proc /\ Emits /\ status' \in {status, "ERR"}
    BY <1>5 DEF Malformed, Refuse, Emits
  <2> QED
    BY <1>1, <2>1
<1>6. CASE Close \/ UNCHANGED vars \/ \E c \in Cores : CloseQueue(c)
  <2>1. /\ UNCHANGED <<bare, eventConvert, ctf, noFile, count, proc, converter>>
        /\ status' \in {status, "CLOSED"}
    BY <1>6 DEF Close, vars, options, CloseQueue
  <2> QED
    BY <2>1 DEF ControlInv, ShapeInv
<1> QED
  BY <1>2, <1>3, <1>4, <1>5, <1>6 DEF Next, processTraceMessage

\* Together with the streams, the types.
LEMMA TypesFollow == ControlInv /\ StreamInv => TypeOK
<1> SUFFICES ASSUME ControlInv, StreamInv PROVE TypeOK
  OBVIOUS
<1>1. \A p \in Procs : converter[p].made \/ converter[p] = NoConverter
  BY DEF ControlInv, ShapeInv, CvShape
<1>2. ASSUME NEW c \in Cores PROVE Len(eventBuffer[c]) <= BufferEvents
  <2>1. IsSequence(eventBuffer[c]) /\ Len(eventBuffer[c]) <= QueueEvents
    BY DEF StreamInv, CoreOK, CoreInv, IsQueue
  <2>2. Len(eventBuffer[c]) \in Nat
    BY <2>1, SeqIsFunction
  <2> QED
    BY <2>1, <2>2, ConvertersAssumption
<1>3. time \in [Cores -> Nat] /\ headerFlag \in [Cores -> BOOLEAN] /\ packetSeqNum \in Nat
  BY DEF StreamInv
<1> QED
  BY <1>1, <1>2, <1>3 DEF TypeOK, ControlInv

-----------------------------------------------------------------------------
(* Both converters show the same calls.                                    *)

\* CallsAgree's hypothesis, and the agreement for every core.
BothOn == eventConvert /\ ctf /\ noFile \cap {"events", "callret"} = {}
AgreeInv == BothOn => \A c \in Cores : Agree(CoreLines(Calls, c), NamedEvents(added[c]))

AllInv == ControlInv /\ StreamInv /\ AgreeInv

\* At the start neither shows one.
LEMMA AgreeInit == Init => AgreeInv
<1> SUFFICES ASSUME Init, NEW c \in Cores PROVE Agree(CoreLines(Calls, c), NamedEvents(added[c]))
  BY DEF AgreeInv
<1>1. added[c] = << >>
  BY Zenon DEF Init
<1>2. Calls = << >>
  <2>1. CtfProc \in Procs /\ "callret" \in Kinds
    BY ImageAssumption DEF CtfProc, Procs, Kinds
  <2>2. converter = [p \in Procs |-> NoConverter]
    BY DEF Init
  <2>3. converter[CtfProc] = NoConverter
    BY <2>1, <2>2, Zenon
  <2>4. NoConverter.files["callret"] = << >>
    BY <2>1, Zenon DEF NoConverter
  <2> QED
    BY <2>3, <2>4, Zenon DEF Calls
<1>3. CoreLines(Calls, c) = << >> /\ NamedEvents(added[c]) = << >>
  BY <1>1, <1>2, AtEmpty, Zenon DEF CoreLines, NamedEvents
<1> QED
  BY <1>3, EmptyIsSeq DEF Agree

\* A step that shows no call and adds none.
LEMMA AgreeKept ==
    ASSUME AgreeInv, BothOn' => BothOn, Calls' = Calls, added' = added
    PROVE  AgreeInv'
  BY Zenon DEF AgreeInv

\* A call that one of them is given, and the other shows unless it has no name.
LEMMA AgreeAdd ==
    ASSUME AllInv, BothOn, NEW m \in Messages, Receive(m), NEW id, NEW to, AddEvent(id, m, to),
           NEW l, EmitOrFail(CtfProc, l), l.kind = "callret", l.core = m.core, l.pc = m.pc,
           l.time = time'[m.core], (l.shows[1] = "call") <=> (id = "entry"),
           ~m.ws \/ m.ckdf = 1 => l.shows[2] = to
    PROVE  AgreeInv'
<1> DEFINE c == m.core
           a == [id |-> id, pc |-> m.pc, pcDst |-> to, time |-> time'[c], exact |-> ~m.ws \/ m.ckdf = 1]
<1>0. /\ CtfProc \in Procs /\ c \in Cores /\ ShapeInv /\ DOMAIN added = Cores
      /\ "callret" \in Kinds /\ "callret" \notin ContextKinds
  BY ImageAssumption, ConvertersAssumption
     DEF CtfProc, Procs, AllInv, ControlInv, StreamInv, Kinds, ContextKinds
<1>1. added' = [added EXCEPT ![c] = Append(@, a)]
  BY Zenon DEF AddEvent
<1>2. enableEventConverter(CtfProc) /\ (Shown(l) <=> l.pc \notin NoName)
  <2>1. "events" \notin noFile /\ "callret" \notin noFile
    BY DEF BothOn
  <2> QED
    BY <1>0, <2>1 DEF enableEventConverter, Shown
<1>3. Calls' = IF l.pc \notin NoName THEN Append(Calls, l) ELSE Calls
  BY <1>0, <1>2, EmitShape
<1>4. a.pc = l.pc /\ Match(l, a)
  <2>1. a.id = id /\ a.pc = m.pc /\ a.pcDst = to /\ a.time = time'[c] /\ a.exact = (~m.ws \/ m.ckdf = 1)
    BY Zenon
  <2> HIDE DEF a
  <2> QED
    BY <2>1, Zenon DEF Match
<1> HIDE DEF a, c
<1>5. l.core = c
  BY DEF c
<1>6. ASSUME NEW d \in Cores
      PROVE  Agree(CoreLines(Calls', d), NamedEvents(added'[d]))
  <2>1. Agree(CoreLines(Calls, d), NamedEvents(added[d]))
    BY DEF AllInv, AgreeInv
  <2>2. IsSequence(added[d]) /\ IsSequence(Calls)
    BY <1>0 DEF AllInv, StreamInv, CoreOK, CoreInv, AddedInv, ShapeInv, CvShape, Calls
  <2>3. added'[d] = IF d = c THEN Append(added[d], a) ELSE added[d]
    BY <1>0, <1>1, Zenon
  <2>4. /\ IsSequence(CoreLines(Calls, d))
        /\ CoreLines(Append(Calls, l), d) = IF l.core = d THEN Append(CoreLines(Calls, d), l) ELSE CoreLines(Calls, d)
    BY <2>2, CoreLinesAppend
  <2>5. /\ IsSequence(NamedEvents(added[d]))
        /\ NamedEvents(Append(added[d], a)) =
             IF a.pc \notin NoName THEN Append(NamedEvents(added[d]), a) ELSE NamedEvents(added[d])
    BY <2>2, NamedAppend
  <2>6. CASE l.pc \in NoName
    <3>1. CoreLines(Calls', d) = CoreLines(Calls, d)
      BY <1>3, <2>6
    <3>2. NamedEvents(added'[d]) = NamedEvents(added[d])
      BY <1>4, <2>3, <2>5, <2>6, Zenon
    <3> QED
      BY <2>1, <3>1, <3>2
  <2>7. CASE l.pc \notin NoName /\ d = c
    <3>1. CoreLines(Calls', d) = Append(CoreLines(Calls, d), l)
      BY <1>3, <1>5, <2>4, <2>7, Zenon
    <3>2. NamedEvents(added'[d]) = Append(NamedEvents(added[d]), a)
      BY <1>4, <2>3, <2>5, <2>7, Zenon
    <3>3. Agree(Append(CoreLines(Calls, d), l), Append(NamedEvents(added[d]), a))
      BY <1>4, <2>1, <2>4, <2>5, AgreeAppend
    <3> QED
      BY <3>1, <3>2, <3>3, Zenon
  <2>8. CASE l.pc \notin NoName /\ d # c
    <3>1. CoreLines(Calls', d) = CoreLines(Calls, d) /\ added'[d] = added[d]
      BY <1>3, <1>5, <2>3, <2>4, <2>8, Zenon
    <3> QED
      BY <2>1, <3>1, Zenon
  <2> QED
    BY <2>6, <2>7, <2>8
<1> QED
  BY <1>6, Zenon DEF AgreeInv

\* Every step keeps the agreement.
LEMMA AgreeStep ==
    ASSUME AllInv, [Next]_vars
    PROVE  AgreeInv'
<1>0. CtfProc \in Procs
  BY ImageAssumption DEF CtfProc, Procs
<1>1. ASSUME NEW m \in Messages, Receive(m), UNCHANGED <<converter, stream>> PROVE AgreeInv'
  <2>1. BothOn' => BothOn
    BY <1>1 DEF Receive, options, BothOn
  <2>2. Calls' = Calls /\ added' = added
    BY <1>1 DEF Calls, stream
  <2> QED
    BY <2>1, <2>2, AgreeKept DEF AllInv
<1>2. ASSUME NEW m \in Messages, Receive(m), ~ BothOn PROVE AgreeInv'
  <2>1. ~ BothOn'
    BY <1>2 DEF Receive, options, BothOn
  <2> QED
    BY <2>1 DEF AgreeInv
<1>3. ASSUME BothOn, NEW m \in Messages
      PROVE  /\ eventConvert /\ proc[m.core] \in {CtfProc, NoProc}
             /\ HasCtf(CtfProc) /\ CtfProc # NoProc
  <2>1. m.core \in Cores
    BY ConvertersAssumption
  <2>2. CtfProc # NoProc
    BY DEF CtfProc, NoProc
  <2> QED
    BY <1>3, <2>1, <2>2 DEF AllInv, ControlInv, BothOn, HasCtf
<1>4. ASSUME NEW m \in Messages, InferableCall(m) PROVE AgreeInv'
  <2>1. Receive(m)
    BY <1>4, Zenon DEF InferableCall
  <2>2. CASE ~ BothOn
    BY <1>2, <2>1, <2>2
  <2>3. CASE UNCHANGED <<converter, stream>>
    BY <1>1, <2>1, <2>3
  <2>4. CASE BothOn /\ ~ UNCHANGED <<converter, stream>>
    <3> DEFINE to == CalledFrom(CtfProc, m.pc)
               l == emitCallRet(m, Pid(CtfProc), "call", IF m.ws THEN m.pc ELSE to)
    <3>1. eventConvert /\ proc[m.core] \in {CtfProc, NoProc} /\ HasCtf(CtfProc) /\ CtfProc # NoProc
      BY <1>3, <2>4
    <3>2. proc[m.core] = CtfProc
      <4>1. CASE proc[m.core] = NoProc
        BY <1>4, <2>4, <4>1, Zenon DEF InferableCall, Quiet
      <4> QED
        BY <3>1, <4>1
    <3>3. addCall(m, to) /\ EmitOrFail(CtfProc, l)
      BY <1>4, <2>4, <3>1, <3>2, Zenon DEF InferableCall, Quiet, Refuse
    <3>4. AddEvent("entry", m, to)
      BY <3>3 DEF addCall
    <3>5. m.ckdf = 0
      BY <1>4, Zenon DEF InferableCall
    <3> HIDE DEF to
    <3>6. l = [kind |-> "callret", core |-> m.core, time |-> time'[m.core], pid |-> Pid(CtfProc),
               pc |-> m.pc, shows |-> <<"call", IF m.ws THEN m.pc ELSE to>>]
      BY Zenon DEF emitCallRet, Line
    <3> DEFINE s == <<"call", IF m.ws THEN m.pc ELSE to>>
    <3>7. s[1] = "call" /\ (~ m.ws => s[2] = to)
      OBVIOUS
    <3> HIDE DEF s, l
    <3>8. /\ l.kind = "callret" /\ l.core = m.core /\ l.pc = m.pc /\ l.time = time'[m.core]
          /\ l.shows = s
      BY <3>6, Zenon DEF s
    <3>9. (l.shows[1] = "call") <=> ("entry" = "entry")
      BY <3>7, <3>8, Zenon
    <3>10. ~m.ws \/ m.ckdf = 1 => l.shows[2] = to
      BY <3>5, <3>7, <3>8
    <3>11. EmitOrFail(CtfProc, l)
      BY <3>3
    <3>12. PICK id : id = "entry"
      OBVIOUS
    <3>13. AddEvent(id, m, to) /\ ((l.shows[1] = "call") <=> (id = "entry"))
      BY <3>4, <3>9, <3>12, Zenon
    <3> QED
      BY <2>1, <2>4, <3>8, <3>10, <3>11, <3>13, AgreeAdd
  <2> QED
    BY <2>2, <2>3, <2>4
<1>5. ASSUME NEW m \in Messages, EventCall(m) PROVE AgreeInv'
  <2>1. Receive(m)
    BY <1>5, Zenon DEF EventCall
  <2>2. CASE ~ BothOn
    BY <1>2, <2>1, <2>2
  <2>3. CASE UNCHANGED <<converter, stream>>
    BY <1>1, <2>1, <2>3
  <2>4. CASE BothOn /\ ~ UNCHANGED <<converter, stream>>
    <3> DEFINE flag == CRFlag(Inst(CtfProc, m.pc))
               l == emitCallRet(m, Pid(CtfProc), flag, m.faddr)
    <3>1. eventConvert /\ proc[m.core] \in {CtfProc, NoProc} /\ HasCtf(CtfProc) /\ CtfProc # NoProc
      BY <1>3, <2>4
    <3>2. proc[m.core] = CtfProc
      <4>1. CASE proc[m.core] = NoProc
        BY <1>5, <2>4, <4>1, Zenon DEF EventCall, Quiet
      <4> QED
        BY <3>1, <4>1
    <3>3. /\ CASE ~HasCtf(CtfProc) -> UNCHANGED stream
               [] flag = "call"   -> addCall(m, m.faddr)
               [] OTHER           -> addRet(m, m.faddr)
          /\ EmitOrFail(CtfProc, l)
      BY <1>5, <2>4, <3>1, <3>2, Zenon DEF EventCall, Quiet, Refuse
    <3> HIDE DEF flag
    <3>4. PICK id : (id = "entry" <=> flag = "call") /\ AddEvent(id, m, m.faddr)
      <4>1. CASE flag = "call"
        <5>1. AddEvent("entry", m, m.faddr)
          BY <3>1, <3>3, <4>1 DEF addCall
        <5> QED
          BY <4>1, <5>1
      <4>2. CASE flag # "call"
        <5>1. AddEvent("exit", m, m.faddr)
          BY <3>1, <3>3, <4>2 DEF addRet
        <5>2. "exit" # "entry"
          OBVIOUS
        <5> QED
          BY <4>2, <5>1, <5>2
      <4> QED
        BY <4>1, <4>2
    <3>5. l = [kind |-> "callret", core |-> m.core, time |-> time'[m.core], pid |-> Pid(CtfProc),
               pc |-> m.pc, shows |-> <<flag, m.faddr>>]
      BY Zenon DEF emitCallRet, Line
    <3> DEFINE s == <<flag, m.faddr>>
    <3>6. s[1] = flag /\ s[2] = m.faddr
      OBVIOUS
    <3> HIDE DEF s, l
    <3>7. /\ l.kind = "callret" /\ l.core = m.core /\ l.pc = m.pc /\ l.time = time'[m.core]
          /\ l.shows = s
      BY <3>5, Zenon DEF s
    <3>8. ((l.shows[1] = "call") <=> (id = "entry")) /\ l.shows[2] = m.faddr
      BY <3>4, <3>6, <3>7, Zenon
    <3>9. EmitOrFail(CtfProc, l)
      BY <3>3
    <3> QED
      BY <2>1, <2>4, <3>4, <3>7, <3>8, <3>9, AgreeAdd
  <2> QED
    BY <2>2, <2>3, <2>4
<1>6. ASSUME NEW m \in Messages, OtherEvent(m) PROVE AgreeInv'
  <2>1. Receive(m) /\ UNCHANGED stream /\ m.cksrc # "INFERABLECALL" /\ WellFormed(m)
    BY <1>6, Zenon DEF OtherEvent
  <2> DEFINE p == proc'[m.core]
             l == LineOf(m, Pid(proc[m.core]))
  <2>2. CASE UNCHANGED <<converter, stream>>
    BY <1>1, <2>1, <2>2
  <2>3. CASE ~ UNCHANGED <<converter, stream>>
    <3>1. EmitOrFail(p, l) /\ p # NoProc
      BY <1>6, <2>1, <2>3, Zenon DEF OtherEvent
    <3>2. p \in Procs
      <4>1. ControlInv' /\ m.core \in Cores
        BY ControlStep, ConvertersAssumption DEF AllInv
      <4> QED
        BY <3>1, <4>1 DEF ControlInv
    <3>3. l.kind # "callret"
      <4>1. m.cksrc \in {"EXT_TRIG", "WATCHPOINT", "CONTROL", "EXCEPTION", "INTERRUPT", "CONTEXT", "PC_SAMPLE"}
        BY <2>1 DEF WellFormed
      <4>2. CASE m.cksrc = "EXT_TRIG"
        BY <4>2 DEF LineOf, emitExtTrigEvent, Line
      <4>3. CASE m.cksrc = "WATCHPOINT"
        BY <4>3 DEF LineOf, emitWatchpoint, Line
      <4>4. CASE m.cksrc = "CONTROL"
        BY <4>4 DEF LineOf, emitControl, Line
      <4>5. CASE m.cksrc = "EXCEPTION"
        BY <4>5 DEF LineOf, emitException, Line
      <4>6. CASE m.cksrc = "INTERRUPT"
        BY <4>6 DEF LineOf, emitInterrupt, Line
      <4>7. CASE m.cksrc = "CONTEXT"
        BY <4>7 DEF LineOf, emitContext, Line
      <4>8. CASE m.cksrc = "PC_SAMPLE"
        BY <4>8 DEF LineOf, emitPeriodic, Line
      <4> QED
        BY <4>1, <4>2, <4>3, <4>4, <4>5, <4>6, <4>7, <4>8
    <3> HIDE DEF p, l
    <3>4. Calls' = Calls
      BY <3>1, <3>2, <3>3, EmitShape DEF AllInv, ControlInv
    <3>5. BothOn' => BothOn
      BY <2>1 DEF Receive, options, BothOn
    <3>6. added' = added
      BY <2>1 DEF stream
    <3> QED
      BY <3>4, <3>5, <3>6, AgreeKept DEF AllInv
  <2> QED
    BY <2>2, <2>3
<1>7. ASSUME NEW m \in Messages, Malformed(m) PROVE AgreeInv'
  <2>1. Receive(m) /\ UNCHANGED <<converter, stream>>
    BY <1>7 DEF Malformed, Refuse
  <2> QED
    BY <1>1, <2>1
<1>8. CASE Close \/ UNCHANGED vars \/ \E c \in Cores : CloseQueue(c)
  <2>1. UNCHANGED <<eventConvert, ctf, noFile, converter, added>>
    BY <1>8 DEF Close, vars, options, stream, CloseQueue
  <2>2. (BothOn' => BothOn) /\ Calls' = Calls /\ added' = added
    BY <2>1 DEF BothOn, Calls
  <2> QED
    BY <2>2, AgreeKept DEF AllInv
<1> QED
  BY <1>4, <1>5, <1>6, <1>7, <1>8 DEF Next, processTraceMessage

\* The agreement is what CallsAgree says.
LEMMA AgreementFollows == AllInv => CallsAgree
<1> SUFFICES ASSUME AllInv, BothOn, NEW c \in Cores
             PROVE  LET lines == LinesOf(c)
                        given == GivenTo(c)
                    IN  /\ Len(lines) = Len(given)
                        /\ \A i \in DOMAIN lines :
                             /\ lines[i].pc = given[i].pc /\ lines[i].time = given[i].time
                             /\ (lines[i].shows[1] = "call") <=> (given[i].id = "entry")
                             /\ given[i].exact => lines[i].shows[2] = given[i].pcDst
  BY Zenon DEF CallsAgree, BothOn
<1> DEFINE lines == LinesOf(c)
           given == GivenTo(c)
<1>1. lines = CoreLines(Calls, c) /\ given = NamedEvents(added[c])
  BY Zenon DEF LinesOf, GivenTo, CoreLines, NamedEvents, Calls
<1>2. Agree(lines, given)
  BY <1>1 DEF AllInv, AgreeInv
<1>3. IsSequence(lines)
  <2>1. IsSequence(Calls)
    BY ImageAssumption DEF AllInv, ControlInv, ShapeInv, CvShape, Calls, CtfProc, Procs
  <2>2. PICK l : TRUE
    OBVIOUS
  <2> QED
    BY <1>1, <2>1, CoreLinesAppend
<1>4. DOMAIN lines = 1 .. Len(lines)
  BY <1>3, SeqIsFunction
<1>5. Len(lines) = Len(given)
  BY <1>2, Zenon DEF Agree
<1>6. ASSUME NEW i \in DOMAIN lines
      PROVE  /\ lines[i].pc = given[i].pc /\ lines[i].time = given[i].time
             /\ (lines[i].shows[1] = "call") <=> (given[i].id = "entry")
             /\ given[i].exact => lines[i].shows[2] = given[i].pcDst
  <2>1. Match(lines[i], given[i])
    BY <1>2, <1>4, <1>6, Zenon DEF Agree
  <2> HIDE DEF lines, given
  <2> QED
    BY <2>1, Zenon DEF Match
<1> QED
  BY <1>5, <1>6, Zenon

\* All of it is an invariant.
LEMMA AllInvHolds == Spec => []AllInv
<1>1. Init => AllInv
  BY ControlInit, StreamInit, AgreeInit DEF AllInv
<1>2. AllInv /\ [Next]_vars => AllInv'
  BY ControlStep, StreamStep, AgreeStep DEF AllInv
<1> QED
  BY <1>1, <1>2, PTL DEF Spec

(* Every reachable state of the converters has the types of TypeOK; above  *)
(* all the queue of addCall and addRet never outgrows the buffer of        *)
(* CTFConverter.                                                           *)
THEOREM ConvertersTypeCorrect == Spec => []TypeOK
<1>1. AllInv => TypeOK
  BY TypesFollow DEF AllInv
<1> QED
  BY <1>1, AllInvHolds, PTL

(* With both converters on, the calls and returns that EventConverter      *)
(* writes for a core and the ones its CTF stream is given are the same, in *)
(* order and with the same times, for all that have names.                 *)
THEOREM CallsAgreeHolds == Spec => []CallsAgree
  BY AgreementFollows, AllInvHolds, PTL
=============================================================================
