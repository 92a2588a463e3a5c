-------------------------- MODULE SwtServerProofs --------------------------
(***************************************************************************)
(* Proofs about SwtServer, for any finite set of clients, any serial line, *)
(* any limits on the queues and on send, and both ways of waiting: the     *)
(* handshake of the two threads, the order of the serial bytes, when the   *)
(* descriptors are closed, that the server does not block in a call, and   *)
(* what a client sees of the stream.                                       *)
(***************************************************************************)
EXTENDS SwtServer, DataLemmas

-----------------------------------------------------------------------------
(* The handshake of the threads.                                           *)

\* The flags and the counters of the control.
ControlType ==
    /\ mode \in {"select", "threads"}
    /\ pc \in {"loop", "wait", "sleep", "accept", "serial", "more", "recv", "send", "exit"}
    /\ selPc \in {"idle", "call", "block", "store", "acked"}
    /\ {request, response, ack} \subseteq BOOLEAN

\* An answer whose request is withdrawn has been acknowledged, an acknowledged
\* one is cleared by the next request, and no request finds an old answer.
AnswersRetired ==
    /\ selPc = "acked" /\ ~request => ack
    /\ selPc = "acked" /\ ack /\ request => ~response
    /\ selPc = "idle" /\ request => ~response

HandshakeInv == ControlType /\ HandshakeInStep /\ AnswersRetired

\* At the start nothing is asked.
LEMMA HandshakeInit == Init => HandshakeInv
  BY SwtAssumption DEF Init, HandshakeInv, ControlType, HandshakeInStep, AnswersRetired

\* The main thread and the select thread keep the handshake in step.
LEMMA HandshakeStep ==
    ASSUME HandshakeInv, [Next]_vars
    PROVE  HandshakeInv'
<1> USE DEF HandshakeInv, ControlType, HandshakeInStep, AnswersRetired
<1>1. CASE UNCHANGED vars
  BY <1>1 DEF vars, main, select
<1>2. CASE Environment
  BY <1>2 DEF Environment, main, select
<1>3. CASE SerialThread
  BY <1>3 DEF SerialThread, main, select
<1>4. CASE SelectThread
  <2>1. UNCHANGED <<mode, pc>>
    BY <1>4 DEF SelectThread, main
  <2>2. CASE SelectCollect
    BY <2>1, <2>2 DEF SelectCollect
  <2>3. CASE SelectEnter
    BY <2>1, <2>3 DEF SelectEnter
  <2>4. CASE SelectReturn
    BY <2>1, <2>4 DEF SelectReturn
  <2>5. CASE SelectStore
    BY <2>1, <2>5 DEF SelectStore
  <2>6. CASE SelectAcked
    BY <2>1, <2>6 DEF SelectAcked
  <2> QED
    BY <1>4, <2>2, <2>3, <2>4, <2>5, <2>6 DEF SelectThread
<1>5. CASE WaitSelect
  BY <1>5 DEF WaitSelect, select
<1>6. CASE WaitRequest
  BY <1>6 DEF WaitRequest
<1>7. CASE WaitWake
  BY <1>7 DEF WaitWake
<1>8. CASE Accept
  BY <1>8 DEF Accept, select
<1>9. CASE Serve
  BY <1>9 DEF Serve, select
<1>10. CASE Recv
  BY <1>10 DEF Recv, select
<1>11. CASE Send
  BY <1>11 DEF Send, select
<1>12. CASE MainLoop
  BY <1>12 DEF MainLoop, select
<1> QED
  BY <1>1, <1>2, <1>3, <1>4, <1>5, <1>6, <1>7, <1>8, <1>9, <1>10, <1>11, <1>12 DEF Next, Main

\* The handshake of the threads is in step in every reachable state
\* (waitUsingThreadsAndConditionVar and ThreadFuncSelect).
THEOREM HandshakeHolds == Spec => []HandshakeInStep
<1>1. HandshakeInv => HandshakeInStep
  BY DEF HandshakeInv
<1> QED
  BY <1>1, HandshakeInit, HandshakeStep, PTL DEF Spec
-----------------------------------------------------------------------------
(* The bytes between the probe and the main thread.                        *)

Byte == 1..MaxBytes

\* The bytes on their way, in the order in which the probe sent them.
Stream == seen \o lookahead \o held \o tty

SerialType ==
    /\ mode \in {"select", "threads"}
    /\ next \in 1..(MaxBytes + 1)
    /\ fd \in {"open", "hungup", "closed"}
    /\ reopened \in BOOLEAN
    /\ seen \in Seq(Byte) /\ lookahead \in Seq(Byte) /\ held \in Seq(Byte) /\ tty \in Seq(Byte)
    /\ mode = "select" => lookahead = <<>> /\ held = <<>>

StreamOrdered ==
    /\ Ascending(Stream) /\ Below(Stream, next)
    /\ fd = "open" /\ ~reopened => Stream = [i \in 1..(next - 1) |-> i]

SerialInv == SerialType /\ StreamOrdered

\* The parts of the stream are sequences of naturals, whatever they are cut into.
LEMMA StreamType ==
    ASSUME SerialType
    PROVE  /\ Stream \in Seq(Nat) /\ seen \o lookahead \o held \in Seq(Nat)
           /\ \A s \in Seq(Byte) : s \in Seq(Nat)
<1>1. Byte \subseteq Nat
  BY SwtAssumption DEF Byte
<1>2. \A s \in Seq(Byte) : s \in Seq(Nat)
  BY <1>1, SeqMonotonic
<1> QED
  BY <1>2, ConcatProperties DEF SerialType, Stream

\* Concatenations of bytes may be regrouped.
LEMMA Regroup == \A a, b, c \in Seq(Byte) : (a \o b) \o c = a \o (b \o c)
  BY ConcatAssociative

\* What serialReadBytes() takes and leaves is what its source held.
LEMMA SerialReadSplits ==
    ASSUME SerialType
    PROVE  /\ Source \in Seq(Byte) /\ Chunk \in Seq(Byte) /\ SerialRest \in Seq(Byte)
           /\ Chunk \o SerialRest = Source
           /\ Chunk = <<>> <=> Source = <<>>
<1>1. Source \in Seq(Byte) /\ BufBytes \in Nat \ {0}
  BY SwtAssumption DEF SerialType, Source
<1> QED
  BY <1>1, ChunkAndRest DEF Chunk, SerialRest

\* Serving the serial device moves bytes from one end of the stream to the other.
LEMMA ServeKeepsStream ==
    ASSUME SerialType, Serve
    PROVE  SerialType' /\ Stream' = Stream /\ UNCHANGED <<next, reopened>>
           /\ (fd' = fd \/ fd' = "closed")
<1>1. UNCHANGED <<mode, next, held, reopened>> /\ (fd' = fd \/ fd' = "closed")
  BY DEF Serve, probe, serial
<1>2. CASE UNCHANGED <<serial, lookahead, seen>>
  BY <1>1, <1>2 DEF serial, SerialType, Stream
<1>3. CASE SerialReadBytes /\ seen' = seen \o Chunk
  <2>1. /\ Chunk \in Seq(Byte) /\ SerialRest \in Seq(Byte) /\ Chunk \o SerialRest = Source
        /\ seen \in Seq(Byte) /\ held \in Seq(Byte) /\ tty \in Seq(Byte) /\ lookahead \in Seq(Byte)
    BY SerialReadSplits DEF SerialType
  <2>2. seen' \in Seq(Byte)
    BY <1>3, <2>1, ConcatProperties
  <2>3. (seen \o Chunk) \o SerialRest = seen \o (Chunk \o SerialRest)
    <3>1. seen \in Seq(Byte) /\ Chunk \in Seq(Byte) /\ SerialRest \in Seq(Byte)
      BY <2>1, Zenon
    <3> QED
      BY <3>1, Regroup, Zenon
  <2>4. CASE mode = "threads"
    <3>1. lookahead' = SerialRest /\ tty' = tty /\ Source = lookahead
      BY <1>3, <2>4 DEF SerialReadBytes, Source
    <3>2. SerialType'
      BY <1>1, <2>1, <2>2, <2>4, <3>1 DEF SerialType, Byte
    <3>3. seen' \o lookahead' = seen \o lookahead
      BY <1>3, <2>1, <2>3, <3>1
    <3> QED
      BY <1>1, <3>1, <3>2, <3>3 DEF Stream
  <2>5. CASE mode = "select"
    <3>1. /\ tty' = SerialRest /\ lookahead' = <<>> /\ Source = tty /\ held' = <<>>
          /\ lookahead = <<>> /\ held = <<>>
      BY <1>1, <1>3, <2>5 DEF SerialReadBytes, Source, SerialType
    <3>2. SerialType'
      BY <1>1, <2>1, <2>2, <2>5, <3>1 DEF SerialType, Byte
    <3>3. Stream = seen \o tty /\ Stream' = seen' \o tty'
      BY <2>1, <2>2, <3>1, ConcatEmptySeq DEF Stream
    <3>4. seen' \o tty' = seen \o tty
      BY <1>3, <2>1, <2>3, <3>1
    <3> QED
      BY <1>1, <3>2, <3>3, <3>4
  <2> QED
    BY <2>4, <2>5 DEF SerialType
<1> QED
  BY <1>2, <1>3 DEF Serve

\* The serial thread moves bytes from the tty to the lookahead without loss.
LEMMA SerialThreadKeepsStream ==
    ASSUME SerialType, SerialThread
    PROVE  SerialType' /\ Stream' = Stream /\ UNCHANGED <<next, fd, reopened>>
<1>1. UNCHANGED <<mode, next, fd, seen, reopened>> /\ mode = "threads"
  BY DEF SerialThread, probe, history
<1>2. /\ seen \in Seq(Byte) /\ lookahead \in Seq(Byte) /\ held \in Seq(Byte) /\ tty \in Seq(Byte)
      /\ seen \o lookahead \in Seq(Byte) /\ BufBytes \in Nat \ {0}
  BY SwtAssumption, ConcatProperties DEF SerialType
<1>3. CASE /\ held = <<>> /\ held' = SubSeq(tty, 1, Min({BufBytes, Len(tty)}))
           /\ tty' = SubSeq(tty, Len(held') + 1, Len(tty)) /\ UNCHANGED lookahead
  <2>1. held' \in Seq(Byte) /\ tty' \in Seq(Byte) /\ held' \o tty' = tty
    BY <1>2, <1>3, ChunkAndRest
  <2>2. SerialType'
    BY <1>1, <1>2, <1>3, <2>1 DEF SerialType, Byte
  <2>3. Stream' = (seen \o lookahead) \o (held' \o tty')
    <3>1. ((seen \o lookahead) \o held') \o tty' = (seen \o lookahead) \o (held' \o tty')
      <4>1. (seen \o lookahead) \in Seq(Byte) /\ held' \in Seq(Byte) /\ tty' \in Seq(Byte)
        BY <1>2, <2>1, Zenon
      <4> QED
        BY <4>1, Regroup, Zenon
    <3> QED
      BY <1>1, <1>3, <3>1 DEF Stream
  <2>4. Stream = (seen \o lookahead) \o tty
    BY <1>2, <1>3, ConcatEmptySeq DEF Stream
  <2> QED
    BY <1>1, <2>1, <2>2, <2>3, <2>4
<1>4. CASE lookahead' = lookahead \o held /\ held' = <<>> /\ UNCHANGED tty
  <2>1. SerialType'
    BY <1>1, <1>2, <1>4, ConcatProperties, EmptySeq DEF SerialType, Byte
  <2>2. seen \o lookahead' = seen \o lookahead \o held /\ seen \o lookahead' \in Seq(Byte)
    BY <1>2, <1>4, ConcatAssociative, ConcatProperties
  <2> QED
    BY <1>1, <1>4, <2>1, <2>2, ConcatEmptySeq DEF Stream
<1> QED
  BY <1>3, <1>4 DEF SerialThread

\* No step of any actor loses or reorders a byte before the device is closed.
LEMMA SerialStep ==
    ASSUME SerialInv, [Next]_vars
    PROVE  SerialInv'
<1> USE DEF SerialInv
<1>1. ASSUME SerialType', Stream' = Stream, UNCHANGED <<next, reopened>>,
             fd' = fd \/ fd' = "closed"
      PROVE  SerialInv'
  BY <1>1 DEF StreamOrdered, Ascending, Below
<1>2. ASSUME UNCHANGED <<mode, next, fd, tty, seen, lookahead, held, reopened>>
      PROVE  SerialInv'
  BY <1>1, <1>2 DEF SerialType, Stream
<1>3. ASSUME NEW p \in {"open", "hungup", "closed"}, fd' = p, tty' = <<>>,
             fd' = "open" => reopened', reopened' \in BOOLEAN,
             UNCHANGED <<mode, next, seen, lookahead, held>>
      PROVE  SerialInv'
  <2>1. SerialType'
    BY <1>3, EmptySeq DEF SerialType
  <2>2. Stream' = seen \o lookahead \o held
    BY <1>3, StreamType, ConcatEmptySeq DEF Stream
  <2>3. next \in Nat /\ tty \in Seq(Nat) /\ seen \o lookahead \o held \in Seq(Nat)
    BY StreamType, SwtAssumption DEF SerialType
  <2>4. Ascending(seen \o lookahead \o held) /\ Below(seen \o lookahead \o held, next)
    BY <2>3, PrefixAscending DEF StreamOrdered, Stream
  <2> QED
    BY <1>3, <2>1, <2>2, <2>4 DEF StreamOrdered, Ascending, Below
<1>4. CASE UNCHANGED vars
  BY <1>2, <1>4 DEF vars, probe, serial, reader, history
<1>5. CASE Environment
  <2>1. UNCHANGED <<mode, lookahead, held, seen, reopened>>
    BY <1>5 DEF Environment, reader, history
  <2>2. CASE Produce
    <3>1. next \in Byte /\ next \in Nat \ {0} /\ MaxBytes \in Nat
      BY <2>2, SwtAssumption DEF Produce, Byte, SerialType
    <3>2. CASE fd = "open"
      <4>1. tty' = Append(tty, next) /\ next' = next + 1 /\ fd' = fd
        BY <2>2, <3>2 DEF Produce
      <4>2. tty' \in Seq(Byte)
        BY <3>1, <4>1, AppendProperties DEF SerialType
      <4>3. SerialType'
        BY <2>1, <2>2, <3>1, <4>1, <4>2 DEF SerialType, Produce, Byte
      <4>4. Stream' = Append(Stream, next)
        <5>1. seen \o lookahead \o held \in Seq(Byte) /\ tty \in Seq(Byte)
          BY ConcatProperties DEF SerialType
        <5>2. \A a \in Seq(Byte), b \in Seq(Byte) : a \o Append(b, next) = Append(a \o b, next)
          BY <3>1
        <5> QED
          BY <2>1, <4>1, <5>1, <5>2 DEF Stream
      <4>5. Ascending(Stream') /\ Below(Stream', next')
        BY <3>1, <4>1, <4>4, StreamType, AppendAscending DEF StreamOrdered
      <4>6. fd = "open" /\ ~reopened => Stream' = [i \in 1..next |-> i]
        BY <3>1, <4>4, CountingOn DEF StreamOrdered
      <4>7. next' - 1 = next
        BY <3>1, <4>1
      <4> QED
        BY <2>1, <4>1, <4>3, <4>5, <4>6, <4>7 DEF StreamOrdered, Ascending, Below
    <3>3. CASE fd # "open"
      <4>1. UNCHANGED <<fd, tty>> /\ next' = next + 1
        BY <2>2, <3>3 DEF Produce
      <4>2. SerialType' /\ Stream' = Stream
        <5>1. next' \in 1..(MaxBytes + 1)
          BY <3>1, <4>1 DEF Byte
        <5> QED
          BY <2>1, <4>1, <5>1 DEF SerialType, Stream, Byte
      <4>3. \A i \in 1..Len(Stream) : Stream[i] \in Nat
        BY StreamType, ElementOfSeq
      <4>4. Below(Stream, next')
        BY <3>1, <4>1, <4>3 DEF StreamOrdered, Below
      <4> QED
        BY <3>3, <4>1, <4>2, <4>4 DEF StreamOrdered, Ascending, Below
    <3> QED
      BY <3>2, <3>3
  <2>3. CASE Unplug
    <3>1. fd' \in {"open", "hungup", "closed"} /\ fd' # "open" /\ tty' = <<>> /\ next' = next
      BY <2>3 DEF Unplug, SerialType
    <3> QED
      BY <1>3, <2>1, <3>1 DEF SerialType
  <2>4. CASE Replug
    BY <1>2, <2>1, <2>4 DEF Replug, serial
  <2>5. ASSUME NEW c \in Clients, Connect(c) \/ Say(c) \/ ClientRead(c) \/ Leave(c)
        PROVE  SerialInv'
    BY <1>2, <2>1, <2>5 DEF Connect, Say, ClientRead, Leave, probe, serial
  <2> QED
    BY <1>5, <2>2, <2>3, <2>4, <2>5 DEF Environment, Surroundings
<1>6. CASE Serve
  BY <1>1, <1>6, ServeKeepsStream
<1>7. CASE SerialThread
  BY <1>1, <1>7, SerialThreadKeepsStream
<1>8. CASE MainLoop
  <2>1. UNCHANGED <<mode, next, seen, lookahead, held>>
    BY <1>8 DEF MainLoop, probe, reader
  <2>2. CASE fd' = "open" /\ tty' = <<>> /\ reopened' = TRUE
    BY <1>3, <2>1, <2>2
  <2>3. CASE UNCHANGED <<serial, reopened>>
    BY <1>2, <2>1, <2>3 DEF serial
  <2> QED
    BY <1>8, <2>2, <2>3 DEF MainLoop
<1>9. CASE WaitSelect \/ WaitRequest \/ WaitWake
  BY <1>2, <1>9 DEF WaitSelect, WaitRequest, WaitWake, probe, serial, reader, history
<1>10. CASE Accept
  BY <1>2, <1>10 DEF Accept, probe, serial, reader
<1>11. CASE Recv
  BY <1>2, <1>11 DEF Recv, probe, serial, reader
<1>12. CASE Send
  BY <1>2, <1>12 DEF Send, probe, serial, reader, history
<1>13. CASE SelectThread
  BY <1>2, <1>13 DEF SelectThread, probe, serial, reader
<1> QED
  BY <1>4, <1>5, <1>6, <1>7, <1>8, <1>9, <1>10, <1>11, <1>12, <1>13 DEF Next, Main

\* At the start nothing has been sent.
LEMMA SerialInit == Init => SerialInv
<1> SUFFICES ASSUME Init PROVE SerialInv
  OBVIOUS
<1>1. SerialType
  <2>1. 1 \in 1..(MaxBytes + 1)
    BY SwtAssumption
  <2>2. <<>> \in Seq(Byte)
    BY EmptySeq
  <2> QED
    BY SwtAssumption, <2>1, <2>2 DEF Init, SerialType
<1>2. Stream = <<>> /\ Len(<<>>) = 0
  BY ConcatEmptySeq DEF Init, Stream
<1>3. next = 1 /\ [i \in 1..0 |-> i] = <<>>
  BY DEF Init
<1> QED
  BY <1>1, <1>2, <1>3 DEF SerialInv, StreamOrdered, Ascending, Below

\* The invariant of the serial side holds in every reachable state.
LEMMA SerialInvHolds == Spec => []SerialInv
  BY SerialInit, SerialStep, PTL DEF Spec

\* Nothing is lost or reordered between the probe and serviceConnections(),
\* with one select() or with the serial thread, until the device was reopened.
THEOREM SerialInOrderHolds == Spec => []SerialInOrder
<1>1. SerialInv => SerialInOrder
  BY DEF SerialInv, StreamOrdered, SerialInOrder, Stream, Ascending
<1> QED
  BY <1>1, SerialInvHolds, PTL

\* With one select() the device is closed only after the cable was pulled: a read
\* of an open tty in serialReadBytes() never returns nothing.
THEOREM ClosedOnlyWhenUnpluggedHolds == Spec => ClosedOnlyWhenUnplugged
<1>1. ASSUME SerialInv, [Next]_vars, mode = "select", fd' = "closed"
      PROVE  fd \in {"hungup", "closed"}
  <2> SUFFICES ASSUME fd = "open" PROVE FALSE
    BY <1>1 DEF SerialInv, SerialType
  <2>1. CASE Serve
    <3>1. SerialReadBytes /\ Chunk = <<>>
      BY <1>1, <2>1 DEF Serve, serial
    <3>2. Source = tty /\ tty # <<>>
      BY <1>1, <3>1 DEF SerialReadBytes, Source
    <3> QED
      BY <1>1, <3>1, <3>2, SerialReadSplits DEF SerialInv
  <2>2. CASE Environment
    BY <1>1, <2>2 DEF Environment, Surroundings, Produce, Unplug, Replug, Connect, Say,
                      ClientRead, Leave, serial
  <2>3. CASE MainLoop
    BY <1>1, <2>3 DEF MainLoop, serial
  <2>4. CASE WaitSelect \/ WaitRequest \/ WaitWake \/ Accept \/ Recv \/ Send
    BY <1>1, <2>4 DEF WaitSelect, WaitRequest, WaitWake, Accept, Recv, Send, serial
  <2>5. CASE SerialThread \/ SelectThread \/ UNCHANGED vars
    BY <1>1, <2>5 DEF SerialThread, SelectThread, vars, serial
  <2> QED
    BY <1>1, <2>1, <2>2, <2>3, <2>4, <2>5 DEF Next, Main
<1> QED
  BY <1>1, SerialInvHolds, PTL DEF Spec, ClosedOnlyWhenUnplugged
-----------------------------------------------------------------------------
(* The connections.                                                        *)

ClientType ==
    /\ peer \in [Clients -> {"idle", "pending", "open", "closed"}]
    /\ said \in [Clients -> BOOLEAN]
    /\ backlog \in Seq(Clients)
    /\ inflight \in [Clients -> Seq(Byte)] /\ got \in [Clients -> Seq(Byte)]
    /\ at \in Nat \ {0}
    /\ conns \in Seq(Connection)

\* A client waits once, or has one connection with a descriptor of its own.
Roster ==
    /\ \A i, j \in 1..Len(conns) :
          i # j => conns[i].client # conns[j].client /\ conns[i].fd # conns[j].fd
    /\ \A i \in 1..Len(conns) : peer[conns[i].client] \in {"open", "closed"}
    /\ \A i \in 1..Len(backlog) : peer[backlog[i]] = "pending"
    /\ \A i, j \in 1..Len(backlog) : i # j => backlog[i] # backlog[j]
    /\ \A c \in Clients : peer[c] = "open" => \E i \in 1..Len(conns) : conns[i].client = c

ConnInv == ClientType /\ Roster

\* Who is connected, and on which descriptor, is left alone.
SameConnections ==
    /\ conns' \in Seq(Connection) /\ Len(conns') = Len(conns)
    /\ \A i \in 1..Len(conns) : conns'[i].client = conns[i].client /\ conns'[i].fd = conns[i].fd

\* queueSerialBytesToClients() appends to every queue that is not too long.
LEMMA QueueEffect ==
    ASSUME conns \in Seq(Connection), NEW chunk \in Seq(Byte)
    PROVE  LET q == QueueSerialBytesToClients(chunk)
           IN  /\ q \in Seq(Connection) /\ Len(q) = Len(conns)
               /\ \A i \in 1..Len(conns) :
                     /\ q[i].client = conns[i].client /\ q[i].fd = conns[i].fd
                     /\ q[i].bytesToSend = IF ShouldWithhold(conns[i]) THEN conns[i].bytesToSend
                                           ELSE conns[i].bytesToSend \o chunk
<1> DEFINE q == QueueSerialBytesToClients(chunk)
<1>1. Len(conns) \in Nat /\ DOMAIN conns = 1..Len(conns) /\ \A i \in 1..Len(conns) : conns[i] \in Connection
  BY LenProperties, ElementOfSeq
<1>2. \A k \in Connection : k.bytesToSend \in Seq(Byte) /\ k.bytesToSend \o chunk \in Seq(Byte)
       /\ ShouldWithhold(k) \in BOOLEAN
  BY ConcatProperties DEF Connection, Byte, ShouldWithhold
<1>3. ASSUME NEW i \in 1..Len(conns)
      PROVE  /\ q[i] \in Connection
             /\ q[i].client = conns[i].client /\ q[i].fd = conns[i].fd
             /\ q[i].bytesToSend = IF ShouldWithhold(conns[i]) THEN conns[i].bytesToSend
                                   ELSE conns[i].bytesToSend \o chunk
  <2> DEFINE b == IF ShouldWithhold(conns[i]) THEN conns[i].bytesToSend ELSE conns[i].bytesToSend \o chunk
             w == IF i > 1 THEN ShouldWithhold(conns[i - 1]) ELSE conns[i].withholding
  <2>1. conns[i] \in Connection /\ b \in Seq(Byte)
    BY <1>1, <1>2
  <2>2. w \in BOOLEAN
    <3>1. i > 1 => i - 1 \in 1..Len(conns)
      BY <1>1
    <3>2. conns[i].withholding \in BOOLEAN
      BY <2>1 DEF Connection
    <3> QED
      BY <1>1, <1>2, <3>1, <3>2
  <2>3. q[i] = [conns[i] EXCEPT !.bytesToSend = b, !.withholding = w]
    BY <1>1 DEF QueueSerialBytesToClients
  <2> HIDE DEF b, w, q
  <2>4. /\ q[i] \in Connection /\ q[i].client = conns[i].client /\ q[i].fd = conns[i].fd
        /\ q[i].bytesToSend = b
    BY <2>1, <2>2, <2>3 DEF Connection, Byte
  <2> QED
    BY <2>4 DEF b
<1>4. DOMAIN q = 1..Len(conns) /\ q = [i \in 1..Len(conns) |-> q[i]]
  BY <1>1 DEF QueueSerialBytesToClients
<1> HIDE DEF q
<1>5. q \in Seq(Connection) /\ Len(q) = Len(conns)
  BY <1>1, <1>3, <1>4
<1> QED
  BY <1>3, <1>5 DEF q

\* q is the list of connections with b queued for connection k.
Requeued(q, k, b) ==
    /\ q \in Seq(Connection) /\ Len(q) = Len(conns)
    /\ \A i \in 1..Len(conns) : q[i].client = conns[i].client /\ q[i].fd = conns[i].fd
    /\ \A i \in 1..Len(conns) : q[i].bytesToSend = IF i = k THEN b ELSE conns[i].bytesToSend

\* Replacing what is queued for one connection leaves who it is.
LEMMA QueueReplaced ==
    ASSUME conns \in Seq(Connection), NEW k \in 1..Len(conns), NEW b \in Seq(Byte),
           NEW q, q = [conns EXCEPT ![k].bytesToSend = b]
    PROVE  Requeued(q, k, b)
<1> DEFINE new == [conns[k] EXCEPT !.bytesToSend = b]
           r == [conns EXCEPT ![k] = new]
<1>1. conns[k] \in Connection
  BY ElementOfSeq
<1>2. new \in Connection /\ new.client = conns[k].client /\ new.fd = conns[k].fd /\ new.bytesToSend = b
  BY <1>1 DEF Connection, Byte
<1> HIDE DEF new
<1>3. /\ r \in Seq(Connection) /\ Len(r) = Len(conns)
      /\ \A i \in 1..Len(conns) : r[i] = IF i = k THEN new ELSE conns[i]
  BY <1>2, ExceptSeq
<1> HIDE DEF r
<1>4. ASSUME NEW i \in 1..Len(conns)
      PROVE  /\ r[i].client = conns[i].client /\ r[i].fd = conns[i].fd
             /\ r[i].bytesToSend = IF i = k THEN b ELSE conns[i].bytesToSend
  <2>1. CASE i = k
    BY <1>2, <1>3, <2>1
  <2>2. CASE i # k
    BY <1>3, <2>2
  <2> QED
    BY <2>1, <2>2
<1>5. q = r
  BY DEF r, new
<1> QED
  BY <1>3, <1>4, <1>5, Zenon DEF Requeued

\* What a connection is made of.
LEMMA ConnectionParts ==
    ASSUME conns \in Seq(Connection), NEW i \in 1..Len(conns)
    PROVE  /\ conns[i] \in Connection /\ conns[i].client \in Clients
           /\ conns[i].fd \in Fds /\ conns[i].bytesToSend \in Seq(Byte)
<1>1. conns[i] \in Connection
  BY ElementOfSeq
<1> QED
  BY <1>1 DEF Connection, Byte

\* accept() finds a descriptor that no connection has: there is one more than
\* there are clients.
LEMMA LowestFreeIsNew ==
    ASSUME ConnInv
    PROVE  LowestFree \in Fds /\ LowestFree \notin OpenFds
<1>1. conns \in Seq(Connection) /\ Len(conns) \in Nat /\ DOMAIN conns = 1..Len(conns)
  BY LenProperties DEF ConnInv, ClientType
<1>2. IsFiniteSet(Clients) /\ Cardinality(Clients) \in Nat
  BY SwtAssumption, FS_CardinalityType
<1>3. Fds \subseteq Nat /\ IsFiniteSet(Fds) /\ Cardinality(Fds) = Cardinality(Clients) + 1
  <2>1. 1 \in Int /\ Cardinality(Clients) + 1 \in Int
    BY <1>2
  <2>2. IsFiniteSet(Fds) /\ Cardinality(Fds) = IF 1 > Cardinality(Clients) + 1 THEN 0
                                                ELSE (Cardinality(Clients) + 1) - 1 + 1
    BY <2>1, FS_Interval DEF Fds
  <2> QED
    BY <1>2, <2>2 DEF Fds
<1>4. Fds \ OpenFds # {}
  <2> SUFFICES ASSUME Fds \subseteq OpenFds PROVE FALSE
    OBVIOUS
  <2> DEFINE who == [f \in Fds |-> conns[CHOOSE i \in 1..Len(conns) : conns[i].fd = f].client]
             place(f) == CHOOSE i \in 1..Len(conns) : conns[i].fd = f
  <2>1. \A f \in Fds : place(f) \in 1..Len(conns) /\ conns[place(f)].fd = f
    BY <1>1 DEF OpenFds
  <2>2. \A f \in Fds : who[f] = conns[place(f)].client
    OBVIOUS
  <2> HIDE DEF place
  <2>3. \A f \in Fds : conns[place(f)].client \in Clients
    BY <1>1, <2>1, ConnectionParts
  <2>4. who \in [Fds -> Clients]
    BY <2>2, <2>3
  <2> HIDE DEF who
  <2>5. \A f, g \in Fds : f # g => who[f] # who[g]
    <3> SUFFICES ASSUME NEW f \in Fds, NEW g \in Fds, f # g PROVE who[f] # who[g]
      OBVIOUS
    <3>1. place(f) # place(g)
      BY <2>1
    <3> QED
      BY <2>1, <2>2, <3>1 DEF ConnInv, Roster
  <2>6. Cardinality(Clients) < Cardinality(Fds)
    BY <1>2, <1>3
  <2>7. \E f, g \in Fds : f # g /\ who[f] = who[g]
    BY <1>2, <1>3, <2>4, <2>6, FS_PigeonHole
  <2> QED
    BY <2>5, <2>7
<1>5. Fds \ OpenFds \subseteq Nat
  BY <1>3
<1>6. LowestFree \in Fds \ OpenFds
  BY <1>4, <1>5, MinIsLeast DEF LowestFree
<1> QED
  BY <1>6

\* Serving the serial device only lengthens queues.
LEMMA ServeConnections ==
    ASSUME SerialType, conns \in Seq(Connection), Serve
    PROVE  SameConnections
<1>1. CASE UNCHANGED conns
  BY <1>1 DEF SameConnections
<1>2. CASE conns' = QueueSerialBytesToClients(Chunk)
  <2>1. Chunk \in Seq(Byte)
    BY SerialReadSplits
  <2> QED
    BY <1>2, <2>1, QueueEffect DEF SameConnections
<1> QED
  BY <1>1, <1>2 DEF Serve

\* What Send does: nothing, a removal of a closed peer, a queue dropped, or bytes
\* moved from the queue to the socket.
LEMMA SendEffect ==
    ASSUME ClientType, Send
    PROVE  \/ UNCHANGED <<conns, inflight>>
           \/ /\ at \in 1..Len(conns) /\ peer[conns[at].client] = "closed"
              /\ conns' = RemoveAt(conns, at) /\ UNCHANGED inflight
           \/ /\ at \in 1..Len(conns) /\ peer[conns[at].client] = "closed"
              /\ conns' = [conns EXCEPT ![at].bytesToSend = <<>>] /\ UNCHANGED inflight
           \/ /\ at \in 1..Len(conns) /\ peer[conns[at].client] = "open"
              /\ \E n \in 0..Len(conns[at].bytesToSend) :
                    /\ inflight' = [inflight EXCEPT ![conns[at].client] =
                                       @ \o SubSeq(conns[at].bytesToSend, 1, n)]
                    /\ conns' = [conns EXCEPT ![at].bytesToSend =
                                    SubSeq(conns[at].bytesToSend, n + 1, Len(conns[at].bytesToSend))]
<1>1. at \in Nat \ {0} /\ conns \in Seq(Connection) /\ Len(conns) \in Nat
  BY LenProperties DEF ClientType
<1>2. at <= Len(conns) => at \in 1..Len(conns) /\ ~(at > Len(conns))
  BY <1>1
<1>3. CASE at <= Len(conns) /\ peer[conns[at].client] = "open" /\ conns[at].bytesToSend # <<>>
  <2> DEFINE c == conns[at].client
             data == conns[at].bytesToSend
             n == Min({SockBytes - Len(inflight[c]), Len(data)})
  <2>1. c \in Clients /\ data \in Seq(Byte) /\ Len(data) \in Nat
    BY <1>1, <1>2, <1>3, ConnectionParts, LenProperties
  <2>2. SockBytes \in Int /\ inflight[c] \in Seq(Byte) /\ Len(inflight[c]) \in Nat
    BY <2>1, SwtAssumption, LenProperties DEF ClientType
  <2>3. n <= Len(data) /\ n \in Int
    BY <2>1, <2>2, MinOfTwo
  <2>4. /\ n > 0
        /\ inflight' = [inflight EXCEPT ![c] = @ \o SubSeq(data, 1, n)]
        /\ conns' = [conns EXCEPT ![at].bytesToSend = SubSeq(@, n + 1, Len(@))]
    BY <1>2, <1>3, Zenon DEF Send
  <2> HIDE DEF n
  <2>5. n \in 0..Len(data)
    BY <2>1, <2>3, <2>4
  <2>6. conns' = [conns EXCEPT ![at].bytesToSend = SubSeq(data, n + 1, Len(data))]
    BY <2>4
  <2> QED
    BY <1>2, <1>3, <2>4, <2>5, <2>6
<1>4. CASE ~(at <= Len(conns) /\ peer[conns[at].client] = "open" /\ conns[at].bytesToSend # <<>>)
  BY <1>2, <1>4, Zenon DEF Send
<1> QED
  BY <1>3, <1>4

\* Removing a connection whose client has left keeps the roster.
LEMMA RemovalKeepsRoster ==
    ASSUME ConnInv, NEW k \in 1..Len(conns), peer[conns[k].client] = "closed",
           conns' = RemoveAt(conns, k), UNCHANGED <<peer, backlog>>
    PROVE  conns' \in Seq(Connection) /\ Roster'
<1>1. conns \in Seq(Connection) /\ Len(conns) \in Nat
  BY LenProperties DEF ConnInv, ClientType
<1>2. /\ conns' \in Seq(Connection) /\ Len(conns') = Len(conns) - 1
      /\ \A j \in 1..(Len(conns) - 1) : conns'[j] = IF j < k THEN conns[j] ELSE conns[j + 1]
  BY <1>1, RemoveAtProperties
<1> DEFINE old(j) == IF j < k THEN j ELSE j + 1
<1>3. /\ \A j \in 1..Len(conns') : old(j) \in 1..Len(conns) /\ conns'[j] = conns[old(j)]
      /\ \A i, j \in 1..Len(conns') : i # j => old(i) # old(j)
      /\ \A i \in 1..Len(conns) : i # k => \E j \in 1..Len(conns') : old(j) = i
  <2>1. \A j \in 1..Len(conns') : old(j) \in 1..Len(conns) /\ conns'[j] = conns[old(j)]
    BY <1>1, <1>2
  <2>2. \A i, j \in 1..Len(conns') : i # j => old(i) # old(j)
    BY <1>1, <1>2
  <2>3. ASSUME NEW i \in 1..Len(conns), i # k
        PROVE  \E j \in 1..Len(conns') : old(j) = i
    <3>1. CASE i < k
      BY <1>1, <1>2, <2>3, <3>1
    <3>2. CASE i > k
      <4>1. i - 1 \in 1..Len(conns') /\ old(i - 1) = i
        BY <1>1, <1>2, <2>3, <3>2
      <4> QED
        BY <4>1
    <3> QED
      BY <1>1, <2>3, <3>1, <3>2
  <2> QED
    BY <2>1, <2>2, <2>3
<1> HIDE DEF old
<1>4. \A i, j \in 1..Len(conns') :
         i # j => conns'[i].client # conns'[j].client /\ conns'[i].fd # conns'[j].fd
  <2> SUFFICES ASSUME NEW i \in 1..Len(conns'), NEW j \in 1..Len(conns'), i # j
               PROVE  conns'[i].client # conns'[j].client /\ conns'[i].fd # conns'[j].fd
    OBVIOUS
  <2>0. \A x \in 1..Len(conns') : old(x) \in 1..Len(conns) /\ conns'[x] = conns[old(x)]
    BY <1>3, Zenon
  <2>1. PICK a \in 1..Len(conns), b \in 1..Len(conns) :
           a # b /\ conns'[i] = conns[a] /\ conns'[j] = conns[b]
    <3>1. old(i) # old(j)
      BY <1>3, Zenon
    <3> QED
      BY <2>0, <3>1, Zenon
  <2>2. conns[a].client # conns[b].client /\ conns[a].fd # conns[b].fd
    BY <2>1, Zenon DEF ConnInv, Roster
  <2> QED
    BY <2>1, <2>2, Zenon
<1>5. \A i \in 1..Len(conns') : peer'[conns'[i].client] \in {"open", "closed"}
  BY <1>3 DEF ConnInv, Roster
<1>6. \A c \in Clients : peer'[c] = "open" => \E i \in 1..Len(conns') : conns'[i].client = c
  <2> SUFFICES ASSUME NEW c \in Clients, peer[c] = "open"
               PROVE  \E i \in 1..Len(conns') : conns'[i].client = c
    OBVIOUS
  <2>1. PICK i \in 1..Len(conns) : conns[i].client = c
    BY DEF ConnInv, Roster
  <2>2. i # k
    BY <2>1
  <2>3. PICK j \in 1..Len(conns') : old(j) = i
    BY <1>3, <2>2
  <2> QED
    BY <1>3, <2>1, <2>3
<1> QED
  BY <1>2, <1>4, <1>5, <1>6 DEF ConnInv, Roster

\* Accepting the first of the backlog keeps the roster.
LEMMA AcceptKeepsRoster ==
    ASSUME ConnInv, backlog # <<>>,
           peer' = [peer EXCEPT ![Head(backlog)] = "open"],
           conns' = Append(conns, [client |-> Head(backlog), fd |-> LowestFree,
                                   bytesToSend |-> <<>>, withholding |-> FALSE]),
           backlog' = Tail(backlog)
    PROVE  /\ conns' \in Seq(Connection) /\ Roster'
           /\ Head(backlog) \in Clients /\ backlog' \in Seq(Clients)
           /\ peer[Head(backlog)] = "pending"
<1> DEFINE new == [client |-> Head(backlog), fd |-> LowestFree,
                   bytesToSend |-> <<>>, withholding |-> FALSE]
<1>1. /\ conns \in Seq(Connection) /\ Len(conns) \in Nat /\ DOMAIN conns = 1..Len(conns)
      /\ backlog \in Seq(Clients) /\ Len(backlog) \in Nat
      /\ peer \in [Clients -> {"idle", "pending", "open", "closed"}]
  BY LenProperties DEF ConnInv, ClientType
<1>2. /\ Head(backlog) \in Clients /\ Head(backlog) = backlog[1] /\ 1 \in 1..Len(backlog)
      /\ backlog' \in Seq(Clients) /\ Len(backlog') = Len(backlog) - 1
      /\ \A i \in 1..Len(backlog') : backlog'[i] = backlog[i + 1]
  BY <1>1, HeadTailProperties, EmptySeq
<1>3. LowestFree \in Fds /\ LowestFree \notin OpenFds
  BY LowestFreeIsNew
<1>4. new \in Connection /\ new.client = Head(backlog) /\ new.fd = LowestFree
  BY <1>2, <1>3, EmptySeq DEF Connection
<1> HIDE DEF new
<1>5. conns' = Append(conns, new)
  BY DEF new
<1>6. /\ conns' \in Seq(Connection) /\ Len(conns') = Len(conns) + 1
      /\ \A i \in 1..Len(conns) : conns'[i] = conns[i]
      /\ conns'[Len(conns) + 1] = new
  BY <1>1, <1>4, <1>5, AppendProperties
<1>7. peer[Head(backlog)] = "pending" /\ peer'[Head(backlog)] = "open"
      /\ \A c \in Clients : c # Head(backlog) => peer'[c] = peer[c]
  BY <1>1, <1>2 DEF ConnInv, Roster
<1>8. \A i \in 1..Len(conns) : /\ conns[i].client \in Clients /\ conns[i].client # Head(backlog)
                               /\ conns[i].fd # LowestFree
  <2> SUFFICES ASSUME NEW i \in 1..Len(conns)
               PROVE  /\ conns[i].client \in Clients /\ conns[i].client # Head(backlog)
                      /\ conns[i].fd # LowestFree
    OBVIOUS
  <2>1. conns[i].client \in Clients
    BY <1>1, ConnectionParts
  <2>2. peer[conns[i].client] # "pending"
    BY DEF ConnInv, Roster
  <2>3. conns[i].fd \in OpenFds
    BY <1>1 DEF OpenFds
  <2> QED
    BY <1>3, <1>7, <2>1, <2>2, <2>3
<1>9. \A i \in 1..Len(conns') : i \in 1..Len(conns) \/ i = Len(conns) + 1
  BY <1>1, <1>6
<1>10. \A i, j \in 1..Len(conns') :
         i # j => conns'[i].client # conns'[j].client /\ conns'[i].fd # conns'[j].fd
  <2> SUFFICES ASSUME NEW i \in 1..Len(conns'), NEW j \in 1..Len(conns'), i # j
               PROVE  conns'[i].client # conns'[j].client /\ conns'[i].fd # conns'[j].fd
    OBVIOUS
  <2>1. CASE i \in 1..Len(conns) /\ j \in 1..Len(conns)
    BY <1>6, <2>1 DEF ConnInv, Roster
  <2>2. CASE i \in 1..Len(conns) /\ j = Len(conns) + 1
    BY <1>4, <1>6, <1>8, <2>2
  <2>3. CASE j \in 1..Len(conns) /\ i = Len(conns) + 1
    BY <1>4, <1>6, <1>8, <2>3
  <2> QED
    BY <1>9, <2>1, <2>2, <2>3
<1>11. \A i \in 1..Len(conns') : peer'[conns'[i].client] \in {"open", "closed"}
  <2> SUFFICES ASSUME NEW i \in 1..Len(conns') PROVE peer'[conns'[i].client] \in {"open", "closed"}
    OBVIOUS
  <2>1. CASE i \in 1..Len(conns)
    BY <1>6, <1>7, <1>8, <2>1 DEF ConnInv, Roster
  <2>2. CASE i = Len(conns) + 1
    BY <1>4, <1>6, <1>7, <2>2
  <2> QED
    BY <1>9, <2>1, <2>2
<1>12. /\ \A i \in 1..Len(backlog') : peer'[backlog'[i]] = "pending"
       /\ \A i, j \in 1..Len(backlog') : i # j => backlog'[i] # backlog'[j]
  <2>1. \A i \in 1..Len(backlog') : i + 1 \in 1..Len(backlog) /\ i + 1 # 1
    BY <1>1, <1>2
  <2>2. \A i \in 1..Len(backlog') : backlog'[i] \in Clients /\ backlog'[i] # Head(backlog)
                                   /\ peer[backlog'[i]] = "pending"
    BY <1>1, <1>2, <2>1, ElementOfSeq DEF ConnInv, Roster
  <2>3. \A i, j \in 1..Len(backlog') : i # j => backlog'[i] # backlog'[j]
    BY <1>1, <1>2, <2>1 DEF ConnInv, Roster
  <2> QED
    BY <1>7, <2>2, <2>3
<1>13. \A c \in Clients : peer'[c] = "open" => \E i \in 1..Len(conns') : conns'[i].client = c
  <2> SUFFICES ASSUME NEW c \in Clients, peer'[c] = "open"
               PROVE  \E i \in 1..Len(conns') : conns'[i].client = c
    OBVIOUS
  <2>1. CASE c = Head(backlog)
    <3>1. Len(conns) + 1 \in 1..Len(conns')
      BY <1>1, <1>6
    <3> QED
      BY <1>4, <1>6, <2>1, <3>1
  <2>2. CASE c # Head(backlog)
    <3>1. PICK i \in 1..Len(conns) : conns[i].client = c
      BY <1>7, <2>2 DEF ConnInv, Roster
    <3>2. i \in 1..Len(conns')
      BY <1>1, <1>6
    <3> QED
      BY <1>6, <3>1, <3>2
  <2> QED
    BY <2>1, <2>2
<1> QED
  BY <1>2, <1>6, <1>7, <1>10, <1>11, <1>12, <1>13 DEF Roster

\* What Recv does: nothing, a client's words dropped, or a closed peer removed.
LEMMA RecvEffect ==
    ASSUME ClientType, Recv
    PROVE  /\ UNCHANGED <<mode, peer, backlog, inflight, got>>
           /\ \/ at > Len(conns) /\ pc' = "send" /\ at' = 1 /\ ready' = {} /\ UNCHANGED <<conns, said>>
              \/ /\ at \in 1..Len(conns) /\ at' = at + 1 /\ ~IsSocketReadable(conns[at].fd)
                 /\ UNCHANGED <<pc, ready, conns, said>>
              \/ /\ at \in 1..Len(conns) /\ at' = at + 1
                 /\ said' = [said EXCEPT ![conns[at].client] = FALSE]
                 /\ UNCHANGED <<pc, ready, conns>>
              \/ /\ at \in 1..Len(conns) /\ conns' = RemoveAt(conns, at)
                 /\ peer[conns[at].client] = "closed"
                 /\ UNCHANGED <<pc, at, ready, said>>
<1>1. at \in Nat \ {0} /\ Len(conns) \in Nat
  BY LenProperties DEF ClientType
<1>2. at <= Len(conns) => at \in 1..Len(conns)
  BY <1>1
<1> QED
  BY <1>2, Zenon DEF Recv

\* Every step keeps the roster of clients and connections.
LEMMA ConnStep ==
    ASSUME SerialType, ConnInv, [Next]_vars
    PROVE  ConnInv'
<1>1. ASSUME UNCHANGED <<peer, backlog>>, SameConnections
      PROVE  conns' \in Seq(Connection) /\ Roster'
  BY <1>1 DEF SameConnections, ConnInv, Roster
<1>2. ASSUME UNCHANGED conns
      PROVE  SameConnections
  BY <1>2 DEF SameConnections, ConnInv, ClientType
<1>3. CASE UNCHANGED vars
  <2>1. UNCHANGED <<sockets, main>>
    BY <1>3 DEF vars
  <2> QED
    BY <2>1 DEF sockets, main, ConnInv, ClientType, Roster
<1>4. CASE Environment
  <2>1. UNCHANGED <<conns, at>>
    BY <1>4 DEF Environment, main
  <2>2. CASE Produce \/ Unplug \/ Replug
    <3>1. UNCHANGED sockets
      BY <2>2 DEF Produce, Unplug, Replug
    <3> QED
      BY <2>1, <3>1 DEF sockets, ConnInv, ClientType, Roster
  <2>3. ASSUME NEW c \in Clients, Connect(c)
        PROVE  ConnInv'
    <3>1. /\ peer[c] = "idle" /\ peer' = [peer EXCEPT ![c] = "pending"]
          /\ backlog' = Append(backlog, c) /\ UNCHANGED <<said, inflight, got>>
      BY <2>3 DEF Connect
    <3>2. /\ peer \in [Clients -> {"idle", "pending", "open", "closed"}] /\ backlog \in Seq(Clients)
          /\ conns \in Seq(Connection) /\ Len(backlog) \in Nat
      BY LenProperties DEF ConnInv, ClientType
    <3>3. /\ backlog' \in Seq(Clients) /\ Len(backlog') = Len(backlog) + 1
          /\ \A i \in 1..Len(backlog) : backlog'[i] = backlog[i]
          /\ backlog'[Len(backlog) + 1] = c
      BY <3>1, <3>2, AppendProperties
    <3>4. ClientType'
      BY <2>1, <3>1, <3>2, <3>3 DEF ConnInv, ClientType, Connection, Byte
    <3>5. \A d \in Clients : peer'[d] = IF d = c THEN "pending" ELSE peer[d]
      BY <3>1, <3>2
    <3>6. \A i \in 1..Len(backlog) : backlog[i] \in Clients /\ backlog[i] # c
      BY <3>1, <3>2, ElementOfSeq DEF ConnInv, Roster
    <3>7. \A i \in 1..Len(backlog') : i \in 1..Len(backlog) \/ i = Len(backlog) + 1
      BY <3>2, <3>3
    <3>8. \A i \in 1..Len(backlog') : peer'[backlog'[i]] = "pending"
      BY <3>3, <3>5, <3>6, <3>7 DEF ConnInv, Roster
    <3>9. \A i, j \in 1..Len(backlog') : i # j => backlog'[i] # backlog'[j]
      BY <3>3, <3>6, <3>7 DEF ConnInv, Roster
    <3>10. \A i \in 1..Len(conns) : conns[i].client \in Clients /\ conns[i].client # c
      BY <3>1, <3>2, ConnectionParts DEF ConnInv, Roster
    <3>11. \A i \in 1..Len(conns) : peer'[conns[i].client] \in {"open", "closed"}
      BY <3>5, <3>10 DEF ConnInv, Roster
    <3>12. \A d \in Clients : peer'[d] = "open" => \E i \in 1..Len(conns) : conns[i].client = d
      BY <3>5 DEF ConnInv, Roster
    <3> QED
      BY <2>1, <3>4, <3>8, <3>9, <3>11, <3>12 DEF ConnInv, Roster
  <2>4. ASSUME NEW c \in Clients, Say(c) \/ ClientRead(c)
        PROVE  ConnInv'
    <3>1. UNCHANGED <<peer, backlog>>
      BY <2>4 DEF Say, ClientRead
    <3>2. CASE Say(c)
      BY <1>1, <1>2, <2>1, <3>1, <3>2 DEF Say, ConnInv, ClientType, Byte
    <3>3. CASE ClientRead(c)
      <4>1. got[c] \o inflight[c] \in Seq(Byte) /\ <<>> \in Seq(Byte)
        BY ConcatProperties, EmptySeq DEF ConnInv, ClientType
      <4>2. got' \in [Clients -> Seq(Byte)] /\ inflight' \in [Clients -> Seq(Byte)]
        BY <3>3, <4>1 DEF ClientRead, ConnInv, ClientType
      <4> QED
        BY <1>1, <1>2, <2>1, <3>1, <3>3, <4>2 DEF ClientRead, ConnInv, ClientType, Byte
    <3> QED
      BY <2>4, <3>2, <3>3
  <2>5. ASSUME NEW c \in Clients, Leave(c)
        PROVE  ConnInv'
    <3>1. /\ peer[c] = "open" /\ peer' = [peer EXCEPT ![c] = "closed"]
          /\ inflight' = [inflight EXCEPT ![c] = <<>>] /\ UNCHANGED <<backlog, said, got>>
      BY <2>5 DEF Leave
    <3>2. <<>> \in Seq(Byte) /\ peer \in [Clients -> {"idle", "pending", "open", "closed"}]
          /\ conns \in Seq(Connection)
      BY EmptySeq DEF ConnInv, ClientType
    <3>3. ClientType'
      BY <2>1, <3>1, <3>2 DEF ConnInv, ClientType, Byte, Connection
    <3>4. \A d \in Clients : peer'[d] = IF d = c THEN "closed" ELSE peer[d]
      BY <3>1, <3>2
    <3>5. \A i \in 1..Len(conns) : conns[i].client \in Clients
      BY <3>2, ConnectionParts
    <3>6. \A i \in 1..Len(backlog) : backlog[i] \in Clients /\ backlog[i] # c
      BY <3>1, ElementOfSeq DEF ConnInv, ClientType, Roster
    <3> QED
      BY <2>1, <3>1, <3>3, <3>4, <3>5, <3>6 DEF ConnInv, Roster
  <2> QED
    BY <1>4, <2>2, <2>3, <2>4, <2>5 DEF Environment, Surroundings
<1>5. CASE WaitSelect \/ WaitRequest \/ WaitWake \/ MainLoop
  <2>1. UNCHANGED <<sockets, at, conns>>
    BY <1>5 DEF WaitSelect, WaitRequest, WaitWake, MainLoop
  <2> QED
    BY <1>1, <1>2, <2>1 DEF sockets, ConnInv, ClientType, Byte
<1>6. CASE SerialThread \/ SelectThread
  <2>1. UNCHANGED <<sockets, main>>
    BY <1>6 DEF SerialThread, SelectThread
  <2> QED
    BY <2>1 DEF sockets, main, ConnInv, ClientType, Roster
<1>7. CASE Accept
  <2>1. UNCHANGED at
    BY <1>7 DEF Accept
  <2>2. CASE UNCHANGED <<sockets, conns>>
    BY <1>1, <1>2, <2>1, <2>2 DEF sockets, ConnInv, ClientType, Byte
  <2>3. CASE ~UNCHANGED <<sockets, conns>>
    <3>1. /\ backlog # <<>> /\ peer' = [peer EXCEPT ![Head(backlog)] = "open"]
          /\ conns' = Append(conns, [client |-> Head(backlog), fd |-> LowestFree,
                                      bytesToSend |-> <<>>, withholding |-> FALSE])
          /\ backlog' = Tail(backlog) /\ UNCHANGED <<said, inflight, got>>
      BY <1>7, <2>3, Zenon DEF Accept, sockets
    <3>2. conns' \in Seq(Connection) /\ Roster' /\ backlog' \in Seq(Clients)
      BY <3>1, AcceptKeepsRoster
    <3> QED
      BY <2>1, <3>1, <3>2 DEF ConnInv, ClientType, Byte
  <2> QED
    BY <2>2, <2>3
<1>8. CASE Serve
  <2>1. SameConnections /\ UNCHANGED sockets /\ at' = 1
    BY <1>8, ServeConnections DEF ConnInv, ClientType, Serve
  <2> QED
    BY <1>1, <2>1 DEF sockets, ConnInv, ClientType, Byte
<1>9. CASE Recv
  <2>1. UNCHANGED <<peer, backlog, inflight, got>>
    BY <1>9, RecvEffect DEF ConnInv
  <2>2. at' \in Nat \ {0} /\ said' \in [Clients -> BOOLEAN]
    <3>1. at' \in {1, at, at + 1} /\ (said' = said \/ said' = [said EXCEPT ![conns[at].client] = FALSE])
      BY <1>9, RecvEffect, Zenon DEF ConnInv
    <3>2. at \in Nat \ {0} /\ said \in [Clients -> BOOLEAN]
      BY DEF ConnInv, ClientType
    <3>3. said' \in [Clients -> BOOLEAN]
      BY <3>1, <3>2
    <3> QED
      BY <3>1, <3>2, <3>3
  <2>3. CASE UNCHANGED conns
    BY <1>1, <1>2, <2>1, <2>2, <2>3 DEF ConnInv, ClientType, Byte
  <2>4. CASE ~UNCHANGED conns
    <3>1. /\ at \in 1..Len(conns) /\ conns' = RemoveAt(conns, at)
          /\ peer[conns[at].client] = "closed"
      BY <1>9, <2>4, RecvEffect DEF ConnInv
    <3>2. conns' \in Seq(Connection) /\ Roster'
      BY <2>1, <3>1, RemovalKeepsRoster
    <3> QED
      BY <2>1, <2>2, <3>2 DEF ConnInv, ClientType, Byte
  <2> QED
    BY <2>3, <2>4
<1>10. CASE Send
  <2>1. UNCHANGED <<peer, backlog, said, got>> /\ at' \in Nat \ {0}
    <3>1. UNCHANGED <<peer, backlog, said, got>> /\ at' \in {1, at, at + 1}
      BY <1>10, Zenon DEF Send
    <3> QED
      BY <3>1 DEF ConnInv, ClientType
  <2>2. conns \in Seq(Connection) /\ <<>> \in Seq(Byte)
    BY EmptySeq DEF ConnInv, ClientType
  <2>3. ASSUME SameConnections, inflight' \in [Clients -> Seq(Byte)]
        PROVE  ConnInv'
    BY <1>1, <2>1, <2>3 DEF ConnInv, ClientType, Byte
  <2>4. CASE UNCHANGED <<conns, inflight>>
    BY <1>2, <2>3, <2>4 DEF ConnInv, ClientType
  <2>5. CASE /\ at \in 1..Len(conns) /\ peer[conns[at].client] = "closed"
             /\ conns' = RemoveAt(conns, at) /\ UNCHANGED inflight
    <3>1. conns' \in Seq(Connection) /\ Roster'
      BY <2>1, <2>5, RemovalKeepsRoster
    <3> QED
      BY <2>1, <2>5, <3>1 DEF ConnInv, ClientType, Byte
  <2>6. CASE /\ at \in 1..Len(conns) /\ conns' = [conns EXCEPT ![at].bytesToSend = <<>>]
             /\ UNCHANGED inflight
    <3>1. Requeued(conns', at, <<>>)
      BY <2>2, <2>6, QueueReplaced, Zenon
    <3>2. SameConnections
      BY <3>1, Zenon DEF Requeued, SameConnections
    <3> QED
      BY <2>3, <2>6, <3>2, Zenon DEF ConnInv, ClientType
  <2>7. ASSUME at \in 1..Len(conns), NEW n \in 0..Len(conns[at].bytesToSend),
               inflight' = [inflight EXCEPT ![conns[at].client] =
                              @ \o SubSeq(conns[at].bytesToSend, 1, n)],
               conns' = [conns EXCEPT ![at].bytesToSend =
                           SubSeq(conns[at].bytesToSend, n + 1, Len(conns[at].bytesToSend))]
        PROVE  ConnInv'
    <3> DEFINE c == conns[at].client
               data == conns[at].bytesToSend
    <3>1. c \in Clients /\ data \in Seq(Byte) /\ inflight \in [Clients -> Seq(Byte)]
      BY <2>2, <2>7, ConnectionParts DEF ConnInv, ClientType
    <3>2. SubSeq(data, 1, n) \in Seq(Byte) /\ SubSeq(data, n + 1, Len(data)) \in Seq(Byte)
      <4>1. Len(data) \in Nat /\ \A i \in 1..Len(data) : data[i] \in Byte
        BY <3>1, LenProperties, ElementOfSeq
      <4> QED
        BY <4>1, <2>7, SubSeqProperties
    <3>3. inflight[c] \o SubSeq(data, 1, n) \in Seq(Byte)
      BY <3>1, <3>2, ConcatProperties
    <3>4. SameConnections
      <4> DEFINE rest == SubSeq(data, n + 1, Len(data))
      <4>1. conns' = [conns EXCEPT ![at].bytesToSend = rest]
        BY <2>7, Zenon
      <4>2. at \in 1..Len(conns) /\ rest \in Seq(Byte)
        BY <2>7, <3>2, Zenon
      <4> HIDE DEF rest
      <4>3. Requeued(conns', at, rest)
        BY <2>2, <4>1, <4>2, QueueReplaced, Zenon
      <4> QED
        BY <4>3, Zenon DEF Requeued, SameConnections
    <3>5. inflight' \in [Clients -> Seq(Byte)]
      <4>1. inflight' = [inflight EXCEPT ![c] = @ \o SubSeq(data, 1, n)]
        BY <2>7, Zenon
      <4> QED
        BY <4>1, <3>1, <3>3
    <3> QED
      BY <2>3, <3>4, <3>5, Zenon
  <2> QED
    BY <1>10, <2>4, <2>5, <2>6, <2>7, SendEffect, Zenon DEF ConnInv
<1> QED
  BY <1>3, <1>4, <1>5, <1>6, <1>7, <1>8, <1>9, <1>10 DEF Next, Main

\* At the start nobody is connected.
LEMMA ConnInit == Init => ConnInv
<1> SUFFICES ASSUME Init PROVE ConnInv
  OBVIOUS
<1>1. <<>> \in Seq(Byte) /\ <<>> \in Seq(Clients) /\ <<>> \in Seq(Connection) /\ Len(<<>>) = 0
  BY EmptySeq
<1>2. ClientType
  BY <1>1 DEF Init, ClientType
<1>3. conns = <<>> /\ backlog = <<>> /\ \A c \in Clients : peer[c] = "idle"
  BY DEF Init
<1> QED
  BY <1>1, <1>2, <1>3 DEF ConnInv, Roster

-----------------------------------------------------------------------------
(* What one select() reported is still there when the server gets to it.   *)

\* The connections the round has still to look at.
StillToRead(i) == pc \in {"accept", "serial", "more"} \/ (pc = "recv" /\ at <= i)

ReadyInv ==
    mode = "select" =>
      /\ pc # "sleep"
      /\ pc = "accept" => /\ ready \subseteq {Server, Serial} \cup OpenFds
                          /\ Server \in ready => backlog # <<>>
      /\ \A i \in 1..Len(conns) :
            StillToRead(i) /\ conns[i].fd \in ready => HasInput(conns[i].client)

\* HasInput after a step.
InputNext(c) == said'[c] \/ peer'[c] = "closed"

SwtInv == HandshakeInv /\ SerialInv /\ ConnInv /\ ReadyInv

\* Nothing the surroundings do takes a client's input away, and nobody but the
\* server shortens the backlog.
LEMMA SurroundingsKeepInput ==
    ASSUME ConnInv, Environment
    PROVE  /\ \A i \in 1..Len(conns) : HasInput(conns[i].client) => InputNext(conns[i].client)
           /\ backlog # <<>> => backlog' # <<>>
<1>1. /\ peer \in [Clients -> {"idle", "pending", "open", "closed"}] /\ said \in [Clients -> BOOLEAN]
      /\ backlog \in Seq(Clients) /\ conns \in Seq(Connection) /\ conns' = conns
  BY DEF ConnInv, ClientType, Environment, main
<1>2. \A i \in 1..Len(conns) : conns[i].client \in Clients /\ peer[conns[i].client] # "idle"
  BY <1>1, ConnectionParts DEF ConnInv, Roster
<1>3. CASE UNCHANGED <<peer, said, backlog>>
  BY <1>1, <1>3 DEF HasInput, InputNext
<1>4. ASSUME NEW c \in Clients, Connect(c)
      PROVE  /\ \A i \in 1..Len(conns) : HasInput(conns[i].client) => InputNext(conns[i].client)
             /\ backlog' # <<>>
  <2>1. /\ peer[c] = "idle" /\ peer' = [peer EXCEPT ![c] = "pending"] /\ UNCHANGED said
        /\ backlog' = Append(backlog, c)
    BY <1>4 DEF Connect
  <2>2. backlog' # <<>>
    BY <1>1, <2>1, AppendProperties
  <2> QED
    BY <1>1, <1>2, <2>1, <2>2 DEF HasInput, InputNext
<1>5. ASSUME NEW c \in Clients, Say(c) \/ Leave(c)
      PROVE  /\ \A i \in 1..Len(conns) : HasInput(conns[i].client) => InputNext(conns[i].client)
             /\ UNCHANGED backlog
  BY <1>1, <1>2, <1>5 DEF Say, Leave, HasInput, InputNext
<1> QED
  BY <1>3, <1>4, <1>5 DEF Environment, Surroundings, Produce, Unplug, Replug, ClientRead, sockets

\* Every step of every actor keeps what select() reported true.
LEMMA ReadyStep ==
    ASSUME ControlType, SerialType, ConnInv, ReadyInv, [Next]_vars
    PROVE  ReadyInv'
<1> SUFFICES ASSUME mode' = "select"
             PROVE  /\ pc' # "sleep"
                    /\ pc' = "accept" => /\ ready' \subseteq {Server, Serial} \cup OpenFds'
                                         /\ Server \in ready' => backlog' # <<>>
                    /\ \A i \in 1..Len(conns') :
                          StillToRead(i)' /\ conns'[i].fd \in ready' => InputNext(conns'[i].client)
  BY DEF ReadyInv, Server, Serial, HasInput, InputNext
<1>1. mode = "select"
  BY DEF Next, Main, Environment, SerialThread, SelectThread, WaitSelect, WaitRequest, WaitWake,
         Accept, Serve, Recv, Send, MainLoop, vars
<1>2. /\ conns \in Seq(Connection) /\ Len(conns) \in Nat /\ DOMAIN conns = 1..Len(conns)
      /\ said \in [Clients -> BOOLEAN] /\ at \in Nat \ {0}
      /\ peer \in [Clients -> {"idle", "pending", "open", "closed"}]
  BY LenProperties DEF ConnInv, ClientType
<1>3. \A i \in 1..Len(conns) : conns[i].client \in Clients /\ conns[i].fd \in Fds
  BY <1>2, ConnectionParts
<1>4. CASE UNCHANGED vars
  <2>1. UNCHANGED <<sockets, main>>
    BY <1>4 DEF vars
  <2> QED
    BY <1>1, <2>1 DEF ReadyInv, StillToRead, HasInput, InputNext, OpenFds, sockets, main
<1>5. CASE Environment
  <2>1. UNCHANGED <<conns, pc, at, ready>>
    BY <1>5 DEF Environment, main
  <2>2. /\ \A i \in 1..Len(conns) : HasInput(conns[i].client) => InputNext(conns[i].client)
        /\ backlog # <<>> => backlog' # <<>>
    BY <1>5, SurroundingsKeepInput
  <2>3. \A i \in 1..Len(conns) : StillToRead(i)' <=> StillToRead(i)
    BY <2>1 DEF StillToRead
  <2>4. OpenFds' = OpenFds
    BY <2>1 DEF OpenFds
  <2> QED
    BY <1>1, <2>1, <2>2, <2>3, <2>4 DEF ReadyInv
<1>6. CASE WaitSelect
  <2>1. /\ UNCHANGED <<conns, backlog, peer, said>> /\ pc' = "accept"
        /\ ready' = ReadyIn({Server, Serial} \cup OpenFds)
    BY <1>6 DEF WaitSelect, sockets
  <2>2. \A f \in ready' : f \in {Server, Serial} \cup OpenFds /\ Readable(f)
    BY <2>1 DEF ReadyIn
  <2>3. \A f \in Fds : f # Server /\ f # Serial
    BY DEF Fds, Server, Serial
  <2>4. \A i \in 1..Len(conns) : conns[i].fd # Server
    BY <1>3, <2>3
  <2>5. Server \in ready' => backlog' # <<>>
    <3>1. Server # Serial
      BY DEF Server, Serial
    <3> QED
      BY <1>2, <2>1, <2>2, <2>4, <3>1 DEF Readable
  <2>6. ASSUME NEW i \in 1..Len(conns), conns[i].fd \in ready'
        PROVE  HasInput(conns[i].client)
    <3>1. PICK j \in 1..Len(conns) : conns[j].fd = conns[i].fd /\ HasInput(conns[j].client)
      BY <1>2, <1>3, <2>2, <2>3, <2>6 DEF Readable
    <3>2. j = i
      BY <3>1 DEF ConnInv, Roster
    <3> QED
      BY <3>1, <3>2
  <2>7. OpenFds' = OpenFds
    BY <2>1 DEF OpenFds
  <2> QED
    BY <2>1, <2>2, <2>5, <2>6, <2>7 DEF HasInput, InputNext
<1>7. CASE WaitRequest \/ WaitWake \/ SerialThread \/ SelectThread
  BY <1>1, <1>7 DEF WaitRequest, WaitWake, SerialThread, SelectThread, ReadyInv
<1>8. CASE Accept
  <2>1. pc = "accept" /\ pc' = "serial" /\ UNCHANGED <<at, ready, said>>
    BY <1>8 DEF Accept, sockets
  <2>2. \A i \in 1..Len(conns) : conns[i].fd \in ready => HasInput(conns[i].client)
    BY <1>1, <2>1 DEF ReadyInv, StillToRead
  <2>3. CASE UNCHANGED <<sockets, conns>>
    BY <2>1, <2>2, <2>3 DEF sockets, HasInput, InputNext
  <2>4. CASE ~UNCHANGED <<sockets, conns>>
    <3>1. /\ backlog # <<>> /\ peer' = [peer EXCEPT ![Head(backlog)] = "open"]
          /\ conns' = Append(conns, [client |-> Head(backlog), fd |-> LowestFree,
                                      bytesToSend |-> <<>>, withholding |-> FALSE])
          /\ backlog' = Tail(backlog)
      BY <1>8, <2>4, Zenon DEF Accept, sockets
    <3>2. /\ conns' \in Seq(Connection) /\ Head(backlog) \in Clients
          /\ peer[Head(backlog)] = "pending"
      BY <3>1, AcceptKeepsRoster
    <3>3. LowestFree \in Fds /\ LowestFree \notin OpenFds
      BY LowestFreeIsNew
    <3>4. LowestFree \notin ready'
      BY <1>1, <2>1, <3>3 DEF ReadyInv, Fds, Server, Serial
    <3> DEFINE new == [client |-> Head(backlog), fd |-> LowestFree,
                       bytesToSend |-> <<>>, withholding |-> FALSE]
    <3>5. new.fd = LowestFree /\ new \in Connection
      BY <3>2, <3>3, EmptySeq DEF Connection
    <3>6. conns' = Append(conns, new)
      BY <3>1
    <3> HIDE DEF new
    <3>7. /\ Len(conns') = Len(conns) + 1 /\ \A i \in 1..Len(conns) : conns'[i] = conns[i]
          /\ conns'[Len(conns) + 1] = new
      BY <1>2, <3>5, <3>6, AppendProperties
    <3>8. ASSUME NEW i \in 1..Len(conns), HasInput(conns[i].client)
          PROVE  InputNext(conns[i].client)
      <4>1. conns[i].client \in Clients /\ conns[i].client # Head(backlog)
        BY <1>3, <3>2 DEF ConnInv, Roster
      <4>2. conns'[i] = conns[i]
        BY <3>7
      <4> QED
        BY <1>2, <2>1, <3>1, <3>8, <4>1, <4>2 DEF HasInput, InputNext
    <3>9. ASSUME NEW i \in 1..Len(conns'), conns'[i].fd \in ready'
          PROVE  InputNext(conns'[i].client)
      <4>1. i \in 1..Len(conns)
        <5>1. i # Len(conns) + 1
          BY <3>4, <3>5, <3>7, <3>9
        <5> QED
          BY <1>2, <3>7, <5>1
      <4>2. conns'[i] = conns[i]
        BY <3>7, <4>1
      <4> QED
        BY <2>1, <2>2, <3>8, <3>9, <4>1, <4>2 DEF HasInput, InputNext
    <3> QED
      BY <2>1, <3>9
  <2> QED
    BY <2>3, <2>4
<1>9. CASE Serve
  <2>1. /\ pc \in {"serial", "more"} /\ pc' \in {"more", "recv"}
        /\ UNCHANGED <<ready, peer, said>>
    BY <1>9 DEF Serve, sockets
  <2>2. \A i \in 1..Len(conns) : conns[i].fd \in ready => HasInput(conns[i].client)
    BY <1>1, <2>1 DEF ReadyInv, StillToRead
  <2>3. SameConnections
    BY <1>2, <1>9, ServeConnections
  <2> QED
    BY <2>1, <2>2, <2>3 DEF SameConnections, HasInput, InputNext
<1>10. CASE Recv
  <2>1. pc = "recv" /\ UNCHANGED <<peer, backlog>>
    BY <1>10, RecvEffect DEF Recv, ConnInv
  <2>2. CASE pc' = "send"
    BY <2>2 DEF StillToRead
  <2>3. CASE pc' # "send"
    <3>1. /\ pc' = "recv" /\ ready' = ready /\ at \in 1..Len(conns)
          /\ \/ at' = at + 1 /\ UNCHANGED <<conns, said>>
             \/ at' = at + 1 /\ conns' = conns /\ said' = [said EXCEPT ![conns[at].client] = FALSE]
             \/ at' = at /\ conns' = RemoveAt(conns, at) /\ UNCHANGED said
      BY <1>10, <2>1, <2>3, RecvEffect DEF ConnInv
    <3>2. \A i \in 1..Len(conns) : at <= i /\ conns[i].fd \in ready => HasInput(conns[i].client)
      BY <1>1, <2>1 DEF ReadyInv, StillToRead
    <3>3. ASSUME NEW i \in 1..Len(conns'), at' <= i, conns'[i].fd \in ready'
          PROVE  InputNext(conns'[i].client)
      <4>1. CASE at' = at + 1 /\ UNCHANGED <<conns, said>>
        BY <1>2, <2>1, <3>1, <3>2, <3>3, <4>1 DEF HasInput, InputNext
      <4>2. CASE at' = at + 1 /\ conns' = conns /\ said' = [said EXCEPT ![conns[at].client] = FALSE]
        <5>1. i # at /\ at <= i /\ i \in 1..Len(conns)
          BY <1>2, <3>3, <4>2
        <5>2. conns[i].client # conns[at].client /\ conns[i].client \in Clients
          BY <1>3, <3>1, <5>1 DEF ConnInv, Roster
        <5>3. HasInput(conns[i].client)
          BY <3>1, <3>2, <3>3, <4>2, <5>1
        <5> QED
          BY <1>2, <2>1, <4>2, <5>2, <5>3 DEF HasInput, InputNext
      <4>3. CASE at' = at /\ conns' = RemoveAt(conns, at) /\ UNCHANGED said
        <5>1. /\ Len(conns') = Len(conns) - 1
              /\ \A j \in 1..(Len(conns) - 1) : conns'[j] = IF j < at THEN conns[j] ELSE conns[j + 1]
          BY <1>2, <3>1, <4>3, RemoveAtProperties
        <5>2. conns'[i] = conns[i + 1] /\ i + 1 \in 1..Len(conns) /\ at <= i + 1
          BY <1>2, <3>3, <4>3, <5>1
        <5>3. HasInput(conns[i + 1].client)
          BY <3>1, <3>2, <3>3, <5>2
        <5> QED
          BY <2>1, <4>3, <5>2, <5>3 DEF HasInput, InputNext
      <4> QED
        BY <3>1, <4>1, <4>2, <4>3
    <3> QED
      BY <3>1, <3>3 DEF StillToRead
  <2> QED
    BY <2>2, <2>3
<1>11. CASE Send
  <2>1. pc' \in {"send", "loop"}
    BY <1>11 DEF Send
  <2> QED
    BY <2>1 DEF StillToRead
<1>12. CASE MainLoop
  <2>1. pc' \in {"loop", "wait", "exit"}
    BY <1>12 DEF MainLoop
  <2> QED
    BY <2>1 DEF StillToRead
<1> QED
  BY <1>4, <1>5, <1>6, <1>7, <1>8, <1>9, <1>10, <1>11, <1>12 DEF Next, Main

\* The invariant of the server as a whole.
LEMMA SwtInvHolds == Spec => []SwtInv
<1>1. Init => SwtInv
  BY HandshakeInit, SerialInit, ConnInit DEF SwtInv, Init, ReadyInv, StillToRead
<1>2. SwtInv /\ [Next]_vars => SwtInv'
  BY HandshakeStep, SerialStep, ConnStep, ReadyStep DEF SwtInv, HandshakeInv, SerialInv
<1> QED
  BY <1>1, <1>2, PTL DEF Spec

\* With one select() for everything no accept() and no recv() of
\* serviceConnections() blocks, however clients come, write and go.
THEOREM NeverBlocksHolds == Spec => []NeverBlocks
<1>1. SwtInv => NeverBlocks
  <2> SUFFICES ASSUME SwtInv, mode = "select" PROVE ~BlockedRecv /\ ~BlockedAccept
    BY DEF NeverBlocks
  <2>1. at \in Nat \ {0} /\ Len(conns) \in Nat
    BY LenProperties DEF SwtInv, ConnInv, ClientType
  <2>2. ASSUME BlockedRecv PROVE FALSE
    <3>1. at \in 1..Len(conns) /\ at <= at
      BY <2>1, <2>2 DEF BlockedRecv
    <3> QED
      BY <2>2, <3>1 DEF BlockedRecv, IsSocketReadable, SwtInv, ReadyInv, StillToRead
  <2>3. ~BlockedAccept
    BY DEF BlockedAccept, IsSocketReadable, SwtInv, ReadyInv
  <2> QED
    BY <2>2, <2>3
<1> QED
  BY <1>1, SwtInvHolds, PTL

-----------------------------------------------------------------------------
(* What a client sees.                                                     *)

\* A client has "all", out of what was read since it joined less what was withheld.
Sees(all, joined, w) == Ascending(all) /\ ToSet(all) = ToSet(joined) \ w

\* A chunk read from the device is new to everybody: queued it extends what the
\* client sees, withheld it is accounted for.
LEMMA SeesChunk ==
    ASSUME NEW s \in Seq(Nat), NEW chunk \in Seq(Nat), Ascending(s \o chunk),
           NEW k \in 0..Len(s), NEW all \in Seq(Nat), NEW w, w \subseteq ToSet(s),
           Sees(all, SubSeq(s, k + 1, Len(s)), w)
    PROVE  LET joined == SubSeq(s \o chunk, k + 1, Len(s \o chunk))
           IN  Sees(all \o chunk, joined, w) /\ Sees(all, joined, w \cup ToSet(chunk))
<1> DEFINE before == SubSeq(s, k + 1, Len(s))
           joined == SubSeq(s \o chunk, k + 1, Len(s \o chunk))
<1>1. /\ Len(s) \in Nat /\ Len(chunk) \in Nat /\ Len(s \o chunk) = Len(s) + Len(chunk)
      /\ s \o chunk \in Seq(Nat)
      /\ \A i \in 1..Len(s) : s[i] \in Nat
      /\ \A i \in 1..(Len(s) + Len(chunk)) : (s \o chunk)[i] \in Nat
  BY LenProperties, ConcatProperties, ElementOfSeq
<1>2. /\ before \in Seq(Nat) /\ Len(before) = Len(s) - k
      /\ \A i \in 1..(Len(s) - k) : before[i] = s[k + i]
  BY <1>1, SubSeqProperties
<1>3. /\ joined \in Seq(Nat) /\ Len(joined) = Len(s) + Len(chunk) - k
      /\ \A i \in 1..(Len(s) + Len(chunk) - k) : joined[i] = (s \o chunk)[k + i]
  <2> DEFINE u == s \o chunk
             n == Len(s) + Len(chunk)
  <2>1. n \in Nat /\ k + 1 \in Int /\ k \in 0..n /\ \A i \in 1..n : u[i] \in Nat
    BY <1>1
  <2> HIDE DEF u, n
  <2>2. \A i \in (k + 1)..n : u[i] \in Nat
    BY <2>1
  <2>3. /\ SubSeq(u, k + 1, n) \in Seq(Nat)
        /\ Len(SubSeq(u, k + 1, n)) = IF k + 1 <= n THEN n - (k + 1) + 1 ELSE 0
        /\ \A i \in 1..(n - (k + 1) + 1) : SubSeq(u, k + 1, n)[i] = u[(k + 1) + i - 1]
    BY <2>1, <2>2, SubSeqProperties
  <2>4. n - (k + 1) + 1 = n - k /\ \A i \in 1..(n - k) : (k + 1) + i - 1 = k + i
    BY <2>1
  <2>5. /\ SubSeq(u, k + 1, n) \in Seq(Nat) /\ Len(SubSeq(u, k + 1, n)) = n - k
        /\ \A i \in 1..(n - k) : SubSeq(u, k + 1, n)[i] = u[k + i]
    BY <2>1, <2>3, <2>4
  <2>6. joined = SubSeq(u, k + 1, n)
    BY <1>1 DEF u, n
  <2> HIDE DEF joined
  <2>7. /\ joined \in Seq(Nat) /\ Len(joined) = n - k
        /\ \A i \in 1..(n - k) : joined[i] = u[k + i]
    BY <2>5, <2>6
  <2> QED
    BY <2>7 DEF u, n
<1>4. \A i \in 1..(Len(s) + Len(chunk)) :
         (s \o chunk)[i] = IF i <= Len(s) THEN s[i] ELSE chunk[i - Len(s)]
  BY ConcatProperties
<1> HIDE DEF before, joined
<1>5. joined = before \o chunk
  <2>1. /\ before \o chunk \in Seq(Nat) /\ Len(before \o chunk) = Len(before) + Len(chunk)
        /\ \A i \in 1..(Len(before) + Len(chunk)) :
             (before \o chunk)[i] = IF i <= Len(before) THEN before[i] ELSE chunk[i - Len(before)]
    BY <1>2, ConcatProperties
  <2>2. Len(before) + Len(chunk) = Len(joined)
    BY <1>1, <1>2, <1>3
  <2>3. ASSUME NEW i \in 1..Len(joined)
        PROVE  joined[i] = (before \o chunk)[i]
    <3>1. i \in 1..(Len(s) + Len(chunk) - k) /\ k + i \in 1..(Len(s) + Len(chunk))
      BY <1>1, <1>3
    <3>2. CASE i <= Len(s) - k
      <4>1. k + i <= Len(s) /\ i <= Len(before) /\ i \in 1..(Len(s) - k)
        BY <1>1, <1>2, <3>1, <3>2
      <4> QED
        BY <1>2, <1>3, <1>4, <2>1, <2>2, <3>1, <4>1
    <3>3. CASE ~(i <= Len(s) - k)
      <4>1. ~(k + i <= Len(s)) /\ ~(i <= Len(before)) /\ (k + i) - Len(s) = i - Len(before)
        BY <1>1, <1>2, <3>1, <3>3
      <4> QED
        BY <1>3, <1>4, <2>1, <2>2, <3>1, <4>1
    <3> QED
      BY <3>2, <3>3
  <2> QED
    BY <1>3, <2>1, <2>2, <2>3, SeqEqual
<1>6. ToSet(joined) = ToSet(before) \cup ToSet(chunk)
  BY <1>2, <1>5, ToSetConcat
<1>7. ToSet(before) \subseteq ToSet(s)
  <2>1. DOMAIN before = 1..(Len(s) - k) /\ DOMAIN s = 1..Len(s)
    BY <1>2, LenProperties
  <2>2. \A i \in 1..(Len(s) - k) : k + i \in 1..Len(s)
    BY <1>1
  <2> QED
    BY <1>2, <2>1, <2>2 DEF ToSet
<1>8. Ascending(chunk) /\ AllBefore(s, chunk)
  BY AscendingParts
<1>9. \A x \in ToSet(chunk) : x \notin ToSet(s)
  <2>1. \A x \in ToSet(s) : x \in Nat
    BY <1>1, LenProperties DEF ToSet
  <2>2. \A x \in Nat : ~(x < x)
    OBVIOUS
  <2> QED
    BY <1>8, <2>1, <2>2, Zenon DEF AllBefore
<1>10. Ascending(all) /\ ToSet(all) = ToSet(before) \ w
  BY DEF Sees, before
<1>11. AllBefore(all, chunk)
  BY <1>7, <1>8, <1>10, Zenon DEF AllBefore
<1>12. Ascending(all \o chunk)
  BY <1>8, <1>10, <1>11, AscendingConcat
<1>13. ToSet(all \o chunk) = ToSet(all) \cup ToSet(chunk)
  BY ToSetConcat
<1>14. ToSet(all \o chunk) = ToSet(joined) \ w
  BY <1>6, <1>9, <1>10, <1>13
<1>15. ToSet(all) = ToSet(joined) \ (w \cup ToSet(chunk))
  BY <1>6, <1>7, <1>9, <1>10
<1> QED
  BY <1>10, <1>12, <1>14, <1>15 DEF Sees, joined

\* The place of a client among connections of different clients is unique.
LEMMA PlaceOfClient ==
    ASSUME NEW s, NEW k \in 1..Len(s), NEW c, s[k].client = c, Len(s) \in Nat,
           \A i, j \in 1..Len(s) : i # j => s[i].client # s[j].client
    PROVE  {i \in 1..Len(s) : s[i].client = c} = {k} /\ Min({k}) = k /\ k # 0
<1>1. Min({k}) = k
  BY DEF Min
<1> QED
  BY <1>1

\* Queue(c) is the queue of the connection of c, before a step and after it.
LEMMA QueueOfClient ==
    ASSUME ConnInv, NEW k \in 1..Len(conns), NEW c, conns[k].client = c
    PROVE  Queue(c) = conns[k].bytesToSend
<1>1. Len(conns) \in Nat /\ \A i, j \in 1..Len(conns) : i # j => conns[i].client # conns[j].client
  BY LenProperties DEF ConnInv, ClientType, Roster
<1> DEFINE I == {i \in 1..Len(conns) : conns[i].client = c}
<1>2. I = {k} /\ Min(I) = k /\ k # 0
  BY <1>1, PlaceOfClient
<1>3. Queue(c) = LET i == IF I # {} THEN Min(I) ELSE 0
                 IN  IF i = 0 THEN <<>> ELSE conns[i].bytesToSend
  BY DEF Queue, SelectInSeq
<1> HIDE DEF I
<1> QED
  BY <1>2, <1>3

\* The same after a step.
LEMMA QueueOfClientNext ==
    ASSUME ConnInv', NEW k \in 1..Len(conns'), NEW c, conns'[k].client = c
    PROVE  Queue(c)' = conns'[k].bytesToSend
<1>1. Len(conns') \in Nat /\ \A i, j \in 1..Len(conns') : i # j => conns'[i].client # conns'[j].client
  <2>1. conns' \in Seq(Connection)
    BY DEF ConnInv, ClientType
  <2>2. Len(conns') \in Nat
    BY <2>1, LenProperties
  <2> QED
    BY <2>2 DEF ConnInv, Roster
<1> DEFINE I == {i \in 1..Len(conns') : conns'[i].client = c}
<1>2. I = {k} /\ Min(I) = k /\ k # 0
  BY <1>1, PlaceOfClient
<1>3. Queue(c)' = LET i == IF I # {} THEN Min(I) ELSE 0
                  IN  IF i = 0 THEN <<>> ELSE conns'[i].bytesToSend
  BY DEF Queue, SelectInSeq
<1> HIDE DEF I
<1> QED
  BY <1>2, <1>3

\* A queue that is still there is the same queue.
LEMMA QueueKept ==
    ASSUME ConnInv, ConnInv', NEW c, NEW i \in 1..Len(conns), NEW j \in 1..Len(conns'),
           conns[i].client = c, conns'[j].client = c,
           conns'[j].bytesToSend = conns[i].bytesToSend
    PROVE  Queue(c)' = Queue(c)
  BY QueueOfClient, QueueOfClientNext

Sent(c) == got[c] \o inflight[c] \o Queue(c)

\* A client that has not been accepted got nothing; what is withheld was read; a
\* connected client sees the stream.
SeesOf(c) ==
    /\ peer[c] \in {"idle", "pending"} => got[c] = <<>> /\ inflight[c] = <<>>
    /\ withheld[c] \subseteq ToSet(seen)
    /\ peer[c] = "open" => /\ since[c] \in 0..Len(seen)
                           /\ Sees(Sent(c), SubSeq(seen, since[c] + 1, Len(seen)), withheld[c])

SeesInv ==
    /\ since \in [Clients -> Int] /\ withheld \in [Clients -> SUBSET Byte]
    /\ \A c \in Clients : SeesOf(c)

\* A step that moves a client's bytes without loss keeps what it sees.
LEMMA SeesMoved ==
    ASSUME NEW c \in Clients, SeesOf(c), UNCHANGED <<seen, withheld>>, since'[c] = since[c],
           peer'[c] = peer[c], peer[c] = "open" => Sent(c)' = Sent(c),
           peer[c] \in {"idle", "pending"} => got'[c] = got[c] /\ inflight'[c] = inflight[c]
    PROVE  SeesOf(c)'
  BY DEF SeesOf, Sees, Ascending, Sent

\* Reading the serial device: every client gets the chunk or it is withheld.
LEMMA ServeSees ==
    ASSUME SerialInv, SerialInv', ConnInv, ConnInv', SeesInv, Serve, NEW c \in Clients
    PROVE  SeesOf(c)' /\ withheld'[c] \in SUBSET Byte
<1>1. /\ UNCHANGED <<peer, got, inflight, since>> /\ SerialType /\ conns \in Seq(Connection)
      /\ SeesOf(c) /\ withheld[c] \in SUBSET Byte /\ got[c] \in Seq(Byte) /\ inflight[c] \in Seq(Byte)
  BY DEF Serve, sockets, SerialInv, ConnInv, ClientType, SeesInv
<1>2. CASE UNCHANGED <<conns, seen, withheld>>
  <2>1. Sent(c)' = Sent(c)
    BY <1>1, <1>2 DEF Sent, Queue, SelectInSeq
  <2> QED
    BY <1>1, <1>2, <2>1, SeesMoved
<1>3. CASE ~UNCHANGED <<conns, seen, withheld>>
  <2>1. /\ conns' = (IF Chunk = <<>> THEN conns ELSE QueueSerialBytesToClients(Chunk))
        /\ seen' = seen \o Chunk
        /\ withheld' = [d \in Clients |->
              IF \E i \in DOMAIN conns : conns[i].client = d /\ ShouldWithhold(conns[i])
              THEN withheld[d] \cup ToSet(Chunk) ELSE withheld[d]]
    BY <1>3, Zenon DEF Serve
  <2>2. /\ Chunk \in Seq(Byte) /\ seen \in Seq(Byte)
        /\ Chunk \in Seq(Nat) /\ seen \in Seq(Nat) /\ seen' \in Seq(Nat)
    BY <1>1, SerialReadSplits, StreamType, <2>1, ConcatProperties DEF SerialType
  <2>3. ToSet(seen') = ToSet(seen) \cup ToSet(Chunk) /\ ToSet(Chunk) \subseteq Byte
    <3>1. ToSet(seen \o Chunk) = ToSet(seen) \cup ToSet(Chunk)
      BY <2>2, ToSetConcat
    <3>2. ToSet(Chunk) \subseteq Byte
      BY <2>2, LenProperties DEF ToSet
    <3> QED
      BY <2>1, <3>1, <3>2
  <2>4. withheld'[c] = withheld[c] \/ withheld'[c] = withheld[c] \cup ToSet(Chunk)
    BY <2>1
  <2>5. withheld'[c] \subseteq ToSet(seen') /\ withheld'[c] \in SUBSET Byte
    BY <1>1, <2>3, <2>4 DEF SeesOf
  <2>6. CASE peer[c] # "open"
    BY <1>1, <2>5, <2>6 DEF SeesOf
  <2>7. CASE peer[c] = "open"
    <3>1. PICK k \in 1..Len(conns) : conns[k].client = c
      BY <2>7 DEF ConnInv, Roster
    <3>2. /\ Len(conns') = Len(conns) /\ conns'[k].client = c
          /\ conns'[k].bytesToSend = IF ShouldWithhold(conns[k]) THEN conns[k].bytesToSend
                                     ELSE conns[k].bytesToSend \o Chunk
      <4>1. conns[k].bytesToSend \in Seq(Byte)
        BY <1>1, ConnectionParts
      <4>2. CASE Chunk = <<>>
        BY <2>1, <3>1, <4>1, <4>2, ConcatEmptySeq
      <4>3. CASE Chunk # <<>>
        BY <1>1, <2>1, <2>2, <3>1, <4>3, QueueEffect
      <4> QED
        BY <4>2, <4>3
    <3>3. withheld'[c] = IF ShouldWithhold(conns[k]) THEN withheld[c] \cup ToSet(Chunk) ELSE withheld[c]
      <4>1. DOMAIN conns = 1..Len(conns)
        BY <1>1, LenProperties
      <4>2. (\E i \in DOMAIN conns : conns[i].client = c /\ ShouldWithhold(conns[i]))
              <=> ShouldWithhold(conns[k])
        BY <3>1, <4>1 DEF ConnInv, Roster
      <4> QED
        BY <2>1, <4>2
    <3>4. Queue(c) = conns[k].bytesToSend /\ Queue(c)' = conns'[k].bytesToSend
      BY <3>1, <3>2, QueueOfClient, QueueOfClientNext
    <3>5. /\ conns[k].bytesToSend \in Seq(Byte) /\ got[c] \o inflight[c] \in Seq(Byte)
          /\ Sent(c) \in Seq(Byte) /\ Sent(c) \in Seq(Nat)
      <4>1. conns[k].bytesToSend \in Seq(Byte) /\ got[c] \o inflight[c] \in Seq(Byte)
        BY <1>1, ConnectionParts, ConcatProperties
      <4>2. Sent(c) \in Seq(Byte)
        BY <3>4, <4>1, ConcatProperties DEF Sent
      <4> QED
        BY <1>1, <4>1, <4>2, StreamType
    <3>6. Sent(c)' = IF ShouldWithhold(conns[k]) THEN Sent(c) ELSE Sent(c) \o Chunk
      <4>1. ((got[c] \o inflight[c]) \o conns[k].bytesToSend) \o Chunk
              = (got[c] \o inflight[c]) \o (conns[k].bytesToSend \o Chunk)
        <5>1. (got[c] \o inflight[c]) \in Seq(Byte) /\ conns[k].bytesToSend \in Seq(Byte)
              /\ Chunk \in Seq(Byte)
          BY <2>2, <3>5, Zenon
        <5> QED
          BY <5>1, Regroup, Zenon
      <4> QED
        BY <1>1, <3>2, <3>4, <4>1 DEF Sent
    <3>7. Ascending(seen \o Chunk)
      <4>1. /\ seen' \in Seq(Nat) /\ lookahead' \in Seq(Nat) /\ held' \in Seq(Nat) /\ tty' \in Seq(Nat)
            /\ seen' \o lookahead' \in Seq(Nat) /\ seen' \o lookahead' \o held' \in Seq(Nat)
        <5>1. /\ seen' \in Seq(Byte) /\ lookahead' \in Seq(Byte) /\ held' \in Seq(Byte)
              /\ tty' \in Seq(Byte)
          BY DEF SerialInv, SerialType, Byte
        <5> QED
          BY <1>1, <5>1, StreamType, ConcatProperties
      <4>2. Ascending(seen' \o lookahead' \o held' \o tty')
        BY DEF SerialInv, StreamOrdered, Stream, Ascending
      <4>3. Ascending(seen' \o lookahead' \o held')
        BY <4>1, <4>2, AscendingParts
      <4>4. Ascending(seen' \o lookahead')
        BY <4>1, <4>3, AscendingParts
      <4>5. Ascending(seen')
        BY <4>1, <4>4, AscendingParts
      <4> QED
        BY <2>1, <4>5
    <3>8. /\ since[c] \in 0..Len(seen) /\ withheld[c] \subseteq ToSet(seen)
          /\ Sees(Sent(c), SubSeq(seen, since[c] + 1, Len(seen)), withheld[c])
      BY <1>1, <2>7 DEF SeesOf
    <3> DEFINE joined == SubSeq(seen \o Chunk, since[c] + 1, Len(seen \o Chunk))
    <3>9. Sees(Sent(c) \o Chunk, joined, withheld[c]) /\ Sees(Sent(c), joined, withheld[c] \cup ToSet(Chunk))
      BY <2>2, <3>5, <3>7, <3>8, SeesChunk
    <3>10. since[c] \in 0..Len(seen')
      <4>1. Len(seen') = Len(seen) + Len(Chunk) /\ Len(seen) \in Nat /\ Len(Chunk) \in Nat
        BY <2>1, <2>2, ConcatProperties, LenProperties
      <4> QED
        BY <3>8, <4>1
    <3> HIDE DEF joined
    <3>11. Sees(Sent(c)', joined, withheld'[c])
      BY <3>3, <3>6, <3>9
    <3> QED
      BY <1>1, <2>1, <2>5, <2>7, <3>10, <3>11 DEF SeesOf, joined, Sees, Ascending
  <2> QED
    BY <2>6, <2>7
<1> QED
  BY <1>2, <1>3

\* Removing the connection of a client that left is nothing to the others.
LEMMA RemovalKeepsQueue ==
    ASSUME ConnInv, ConnInv', NEW k \in 1..Len(conns), peer[conns[k].client] = "closed",
           conns' = RemoveAt(conns, k), NEW c \in Clients, peer[c] = "open"
    PROVE  Queue(c)' = Queue(c)
<1>1. conns \in Seq(Connection) /\ Len(conns) \in Nat
  BY LenProperties DEF ConnInv, ClientType
<1>2. /\ Len(conns') = Len(conns) - 1
      /\ \A j \in 1..(Len(conns) - 1) : conns'[j] = IF j < k THEN conns[j] ELSE conns[j + 1]
  BY <1>1, RemoveAtProperties
<1>3. PICK i \in 1..Len(conns) : conns[i].client = c
  BY DEF ConnInv, Roster
<1>4. i # k
  BY <1>3
<1>5. PICK j \in 1..Len(conns') : conns'[j] = conns[i]
  <2>1. CASE i < k
    BY <1>1, <1>2, <2>1
  <2>2. CASE i > k
    <3>1. i - 1 \in 1..(Len(conns) - 1) /\ ~(i - 1 < k) /\ (i - 1) + 1 = i
      BY <1>1, <2>2
    <3>2. conns'[i - 1] = conns[i]
      BY <1>2, <3>1
    <3> QED
      BY <1>2, <3>1, <3>2
  <2> QED
    BY <1>1, <1>4, <2>1, <2>2
<1> QED
  BY <1>3, <1>5, QueueKept

\* Accepting a client: it starts with nothing, the others keep what they see.
LEMMA AcceptSees ==
    ASSUME ConnInv, ConnInv', SeesInv, Accept, SerialType, NEW c \in Clients
    PROVE  SeesOf(c)' /\ since'[c] \in Int /\ since' \in [Clients -> Int]
<1>1. /\ UNCHANGED <<seen, withheld, said, inflight, got>> /\ SeesOf(c)
      /\ since \in [Clients -> Int] /\ seen \in Seq(Byte) /\ Len(seen) \in Nat
  BY LenProperties DEF Accept, sockets, SeesInv, SerialType
<1>2. CASE UNCHANGED <<sockets, conns, since>>
  <2>1. Sent(c)' = Sent(c)
    BY <1>2 DEF Sent, Queue, SelectInSeq, sockets
  <2> QED
    BY <1>1, <1>2, <2>1, SeesMoved DEF sockets
<1>3. CASE ~UNCHANGED <<sockets, conns, since>>
  <2>1. /\ backlog # <<>> /\ peer' = [peer EXCEPT ![Head(backlog)] = "open"]
        /\ since' = [since EXCEPT ![Head(backlog)] = Len(seen)]
        /\ conns' = Append(conns, [client |-> Head(backlog), fd |-> LowestFree,
                                    bytesToSend |-> <<>>, withholding |-> FALSE])
        /\ backlog' = Tail(backlog)
    BY <1>3, Zenon DEF Accept, sockets
  <2>2. Head(backlog) \in Clients /\ peer[Head(backlog)] = "pending"
    BY <2>1, AcceptKeepsRoster
  <2>3. since' \in [Clients -> Int]
    <3>1. since \in [Clients -> Int] /\ Len(seen) \in Int
      BY <1>1
    <3>2. since' = [since EXCEPT ![Head(backlog)] = Len(seen)]
      BY <2>1, Zenon
    <3> QED
      BY <3>1, <3>2
  <2>4. conns \in Seq(Connection) /\ Len(conns) \in Nat
        /\ peer \in [Clients -> {"idle", "pending", "open", "closed"}]
    BY LenProperties DEF ConnInv, ClientType
  <2> DEFINE new == [client |-> Head(backlog), fd |-> LowestFree,
                     bytesToSend |-> <<>>, withholding |-> FALSE]
  <2>5. new.client = Head(backlog) /\ new.bytesToSend = <<>> /\ new \in Connection
    BY <2>2, LowestFreeIsNew, EmptySeq DEF Connection
  <2>6. conns' = Append(conns, new)
    BY <2>1
  <2> HIDE DEF new
  <2>7. /\ Len(conns') = Len(conns) + 1 /\ \A i \in 1..Len(conns) : conns'[i] = conns[i]
        /\ conns'[Len(conns) + 1] = new
    BY <2>4, <2>5, <2>6, AppendProperties
  <2>8. CASE c = Head(backlog)
    <3>1. got'[c] = <<>> /\ inflight'[c] = <<>>
      BY <1>1, <2>2, <2>8 DEF SeesOf
    <3>2. Queue(c)' = <<>>
      <4>1. Len(conns) + 1 \in 1..Len(conns')
        BY <2>4, <2>7
      <4> QED
        BY <2>5, <2>7, <2>8, <4>1, QueueOfClientNext
    <3>3. Sent(c)' = <<>>
      <4>1. \A s \in Seq(Byte) : s \o <<>> = s
        BY ConcatEmptySeq
      <4>2. <<>> \in Seq(Byte)
        BY EmptySeq
      <4> QED
        BY <3>1, <3>2, <4>1, <4>2 DEF Sent
    <3>4. since'[c] = Len(seen) /\ peer'[c] = "open"
      BY <1>1, <2>1, <2>4, <2>8
    <3>5. SubSeq(seen', since'[c] + 1, Len(seen')) = <<>>
      BY <1>1, <3>4, SubSeqEmpty
    <3>6. Sees(<<>>, <<>>, withheld[c])
      BY EmptySeq DEF Sees, Ascending, ToSet
    <3>7. since'[c] \in 0..Len(seen')
      BY <1>1, <3>4
    <3> QED
      BY <1>1, <2>3, <3>3, <3>4, <3>5, <3>6, <3>7 DEF SeesOf, Sees, Ascending
  <2>9. CASE c # Head(backlog)
    <3>1. peer'[c] = peer[c] /\ since'[c] = since[c]
      BY <1>1, <2>1, <2>4, <2>9
    <3>2. ASSUME peer[c] = "open" PROVE Sent(c)' = Sent(c)
      <4>1. PICK i \in 1..Len(conns) : conns[i].client = c
        BY <3>2 DEF ConnInv, Roster
      <4>2. i \in 1..Len(conns') /\ conns'[i] = conns[i]
        BY <2>4, <2>7
      <4>3. Queue(c)' = Queue(c)
        BY <4>1, <4>2, QueueKept
      <4> QED
        BY <1>1, <4>3 DEF Sent
    <3> QED
      BY <1>1, <2>3, <3>1, <3>2, SeesMoved
  <2> QED
    BY <2>8, <2>9
<1> QED
  BY <1>2, <1>3

\* Sending moves bytes from the queue of a client to its socket.
LEMMA SendSees ==
    ASSUME ConnInv, ConnInv', SeesInv, Send, NEW c \in Clients
    PROVE  SeesOf(c)'
<1>1. /\ UNCHANGED <<peer, got, seen, since, withheld>> /\ SeesOf(c)
      /\ conns \in Seq(Connection) /\ inflight \in [Clients -> Seq(Byte)] /\ got[c] \in Seq(Byte)
  BY DEF Send, history, SeesInv, ConnInv, ClientType
<1>2. ASSUME inflight'[c] = inflight[c], peer[c] = "open" => Queue(c)' = Queue(c)
      PROVE  SeesOf(c)'
  BY <1>1, <1>2, SeesMoved DEF Sent
<1>3. CASE UNCHANGED <<conns, inflight>>
  BY <1>2, <1>3 DEF Queue, SelectInSeq
<1>4. CASE /\ at \in 1..Len(conns) /\ peer[conns[at].client] = "closed"
           /\ conns' = RemoveAt(conns, at) /\ UNCHANGED inflight
  BY <1>2, <1>4, RemovalKeepsQueue
<1>5. CASE /\ at \in 1..Len(conns) /\ peer[conns[at].client] = "closed"
           /\ conns' = [conns EXCEPT ![at].bytesToSend = <<>>] /\ UNCHANGED inflight
  <2>1. at \in 1..Len(conns) /\ <<>> \in Seq(Byte) /\ conns \in Seq(Connection)
    BY <1>1, <1>5, EmptySeq, Zenon
  <2>2. Requeued(conns', at, <<>>)
    BY <1>5, <2>1, QueueReplaced, Zenon
  <2>3. /\ Len(conns') = Len(conns)
        /\ \A i \in 1..Len(conns) :
              /\ conns'[i].client = conns[i].client
              /\ conns'[i].bytesToSend = IF i = at THEN <<>> ELSE conns[i].bytesToSend
    BY <2>2, Zenon DEF Requeued
  <2>4. peer[conns[at].client] = "closed" /\ UNCHANGED inflight
    BY <1>5, Zenon
  <2>5. ASSUME peer[c] = "open" PROVE Queue(c)' = Queue(c)
    <3>1. PICK i \in 1..Len(conns) : conns[i].client = c
      BY <2>5 DEF ConnInv, Roster
    <3>2. i # at
      BY <2>4, <2>5, <3>1
    <3> QED
      BY <2>3, <3>1, <3>2, QueueKept
  <2> QED
    BY <1>2, <2>4, <2>5
<1>6. ASSUME at \in 1..Len(conns), NEW n \in 0..Len(conns[at].bytesToSend),
             inflight' = [inflight EXCEPT ![conns[at].client] =
                            @ \o SubSeq(conns[at].bytesToSend, 1, n)],
             conns' = [conns EXCEPT ![at].bytesToSend =
                         SubSeq(conns[at].bytesToSend, n + 1, Len(conns[at].bytesToSend))]
      PROVE  SeesOf(c)'
  <2> DEFINE d == conns[at].client
             data == conns[at].bytesToSend
             first == SubSeq(data, 1, n)
             rest == SubSeq(data, n + 1, Len(data))
  <2>1. at \in 1..Len(conns) /\ d \in Clients /\ data \in Seq(Byte) /\ Len(data) \in Nat
    BY <1>1, <1>6, ConnectionParts, LenProperties
  <2>2. first \in Seq(Byte) /\ rest \in Seq(Byte)
    <3>1. \A i \in 1..Len(data) : data[i] \in Byte
      BY <2>1, ElementOfSeq
    <3> QED
      BY <2>1, <3>1, SubSeqProperties
  <2>3. first \o rest = data
    <3>1. 1 \in 1..(Len(data) + 1) /\ n \in (1 - 1)..Len(data) /\ Len(data) \in n..Len(data)
      BY <2>1
    <3>2. first \o rest = SubSeq(data, 1, Len(data))
      BY <2>1, <3>1, ConcatAdjacentSubSeq, Zenon
    <3> QED
      BY <2>1, <3>2, SubSeqFull, Zenon
  <2>4. inflight' = [inflight EXCEPT ![d] = @ \o first]
    BY <1>6, Zenon
  <2>5. conns' = [conns EXCEPT ![at].bytesToSend = rest]
    BY <1>6, Zenon
  <2> HIDE DEF first, rest
  <2>6. Requeued(conns', at, rest)
    <3>1. at \in 1..Len(conns) /\ rest \in Seq(Byte) /\ conns \in Seq(Connection)
      BY <1>1, <2>1, <2>2, Zenon
    <3> QED
      BY <2>5, <3>1, QueueReplaced, Zenon
  <2>7. /\ Len(conns') = Len(conns)
        /\ \A i \in 1..Len(conns) :
              /\ conns'[i].client = conns[i].client
              /\ conns'[i].bytesToSend = IF i = at THEN rest ELSE conns[i].bytesToSend
    BY <2>6, Zenon DEF Requeued
  <2>8. CASE c # d
    <3>1. inflight'[c] = inflight[c]
      BY <1>1, <2>4, <2>8
    <3>2. ASSUME peer[c] = "open" PROVE Queue(c)' = Queue(c)
      <4>1. PICK i \in 1..Len(conns) : conns[i].client = c
        BY <3>2 DEF ConnInv, Roster
      <4>2. i # at
        BY <2>8, <4>1
      <4> QED
        BY <2>7, <4>1, <4>2, QueueKept
    <3> QED
      BY <1>2, <3>1, <3>2
  <2>9. CASE c = d
    <3>1. Queue(c) = data /\ Queue(c)' = rest
      BY <2>1, <2>7, <2>9, QueueOfClient, QueueOfClientNext
    <3>2. inflight'[c] = inflight[c] \o first /\ inflight[c] \in Seq(Byte)
      BY <1>1, <2>1, <2>4, <2>9
    <3>3. inflight[c] \o first \in Seq(Byte) /\ got[c] \o inflight[c] \in Seq(Byte)
      BY <1>1, <2>2, <3>2, ConcatProperties
    <3>4. (got[c] \o (inflight[c] \o first)) \o rest = (got[c] \o inflight[c]) \o (first \o rest)
      <4>1. got[c] \o (inflight[c] \o first) = (got[c] \o inflight[c]) \o first
        BY <1>1, <2>2, <3>2, Regroup
      <4>2. ((got[c] \o inflight[c]) \o first) \o rest = (got[c] \o inflight[c]) \o (first \o rest)
        BY <2>2, <3>3, Regroup
      <4> QED
        BY <4>1, <4>2
    <3>5. Sent(c)' = Sent(c)
      BY <1>1, <2>3, <3>1, <3>2, <3>4 DEF Sent
    <3>6. peer[c] \in {"open", "closed"}
      BY <2>1, <2>9 DEF ConnInv, Roster
    <3> QED
      BY <1>1, <3>5, <3>6, SeesMoved
  <2> QED
    BY <2>8, <2>9
<1> QED
  BY <1>3, <1>4, <1>5, <1>6, SendEffect, Zenon DEF ConnInv

\* Every step keeps what the clients see.
LEMMA SeesStep ==
    ASSUME SerialInv, SerialInv', ConnInv, ConnInv', SeesInv, [Next]_vars
    PROVE  SeesInv'
<1>1. since \in [Clients -> Int] /\ withheld \in [Clients -> SUBSET Byte] /\ \A c \in Clients : SeesOf(c)
  BY DEF SeesInv
<1>2. ASSUME UNCHANGED <<since, withheld>>, \A c \in Clients : SeesOf(c)'
      PROVE  SeesInv'
  BY <1>1, <1>2 DEF SeesInv, Byte
<1>3. ASSUME UNCHANGED <<since, withheld, seen, conns, peer, got, inflight>>
      PROVE  SeesInv'
  <2>1. \A c \in Clients : Sent(c)' = Sent(c)
    BY <1>3 DEF Sent, Queue, SelectInSeq
  <2> QED
    BY <1>1, <1>2, <1>3, <2>1, SeesMoved
<1>4. CASE UNCHANGED vars
  BY <1>3, <1>4 DEF vars, sockets, main, history
<1>5. CASE Environment
  <2>1. UNCHANGED <<since, withheld, seen, conns>>
    BY <1>5 DEF Environment, main, history
  <2>2. \A c \in Clients : Queue(c)' = Queue(c)
    BY <2>1 DEF Queue, SelectInSeq
  <2>3. CASE UNCHANGED <<peer, got, inflight>>
    BY <1>3, <2>1, <2>3
  <2>4. /\ peer \in [Clients -> {"idle", "pending", "open", "closed"}]
        /\ got \in [Clients -> Seq(Byte)] /\ inflight \in [Clients -> Seq(Byte)]
    BY DEF ConnInv, ClientType
  <2>5. ASSUME NEW d \in Clients, Connect(d), NEW c \in Clients
        PROVE  SeesOf(c)'
    <3>1. /\ peer[d] = "idle" /\ peer' = [peer EXCEPT ![d] = "pending"] /\ UNCHANGED <<got, inflight>>
      BY <2>5 DEF Connect
    <3>2. CASE c = d
      <4>1. peer'[c] = "pending" /\ got'[c] = <<>> /\ inflight'[c] = <<>>
        BY <1>1, <2>4, <3>1, <3>2 DEF SeesOf
      <4> QED
        BY <1>1, <2>1, <4>1 DEF SeesOf
    <3>3. CASE c # d
      <4>1. peer'[c] = peer[c] /\ Sent(c)' = Sent(c)
        BY <2>2, <2>4, <3>1, <3>3 DEF Sent
      <4> QED
        BY <1>1, <2>1, <3>1, <4>1, SeesMoved
    <3> QED
      BY <3>2, <3>3
  <2>6. ASSUME NEW d \in Clients, ClientRead(d), NEW c \in Clients
        PROVE  SeesOf(c)'
    <3>1. /\ peer[d] = "open" /\ UNCHANGED peer
          /\ got' = [got EXCEPT ![d] = @ \o inflight[d]] /\ inflight' = [inflight EXCEPT ![d] = <<>>]
      BY <2>6 DEF ClientRead
    <3>2. CASE c = d
      <4>1. got'[c] = got[c] \o inflight[c] /\ inflight'[c] = <<>>
        BY <2>4, <3>1, <3>2
      <4>2. got[c] \o inflight[c] \in Seq(Byte)
        BY <2>4, ConcatProperties
      <4>3. (got[c] \o inflight[c]) \o <<>> = got[c] \o inflight[c]
        BY <4>2, ConcatEmptySeq
      <4>4. Sent(c)' = Sent(c)
        BY <2>2, <4>1, <4>3 DEF Sent
      <4> QED
        BY <1>1, <2>1, <3>1, <3>2, <4>4, SeesMoved
    <3>3. CASE c # d
      <4>1. got'[c] = got[c] /\ inflight'[c] = inflight[c]
        BY <2>4, <3>1, <3>3
      <4>2. Sent(c)' = Sent(c)
        BY <2>2, <4>1 DEF Sent
      <4> QED
        BY <1>1, <2>1, <3>1, <4>1, <4>2, SeesMoved
    <3> QED
      BY <3>2, <3>3
  <2>7. ASSUME NEW d \in Clients, Leave(d), NEW c \in Clients
        PROVE  SeesOf(c)'
    <3>1. /\ peer' = [peer EXCEPT ![d] = "closed"] /\ inflight' = [inflight EXCEPT ![d] = <<>>]
          /\ UNCHANGED got
      BY <2>7 DEF Leave
    <3>2. CASE c = d
      <4>1. peer'[c] = "closed"
        BY <2>4, <3>1, <3>2
      <4> QED
        BY <1>1, <2>1, <4>1 DEF SeesOf
    <3>3. CASE c # d
      <4>1. peer'[c] = peer[c] /\ inflight'[c] = inflight[c]
        BY <2>4, <3>1, <3>3
      <4>2. Sent(c)' = Sent(c)
        BY <2>2, <3>1, <4>1 DEF Sent
      <4> QED
        BY <1>1, <2>1, <3>1, <4>1, <4>2, SeesMoved
    <3> QED
      BY <3>2, <3>3
  <2>8. CASE Produce \/ Unplug \/ Replug \/ \E c \in Clients : Say(c)
    <3>1. UNCHANGED <<peer, got, inflight>>
      BY <2>8 DEF Produce, Unplug, Replug, Say, sockets
    <3> QED
      BY <2>3, <3>1
  <2> QED
    BY <1>2, <1>5, <2>1, <2>5, <2>6, <2>7, <2>8 DEF Environment, Surroundings
<1>6. CASE WaitSelect \/ WaitRequest \/ WaitWake \/ MainLoop
  <2>1. UNCHANGED <<since, withheld, seen, conns, sockets>>
    BY <1>6 DEF WaitSelect, WaitRequest, WaitWake, MainLoop, history
  <2> QED
    BY <1>3, <2>1 DEF sockets
<1>7. CASE SerialThread \/ SelectThread
  <2>1. UNCHANGED <<since, withheld, seen, main, sockets>>
    BY <1>7 DEF SerialThread, SelectThread, history
  <2> QED
    BY <1>3, <2>1 DEF sockets, main
<1>8. CASE Accept
  <2>1. UNCHANGED withheld
    BY <1>8 DEF Accept
  <2>2. \A c \in Clients : SeesOf(c)' /\ since' \in [Clients -> Int]
    BY <1>8, AcceptSees DEF SerialInv
  <2>3. CASE Clients = {}
    <3>1. UNCHANGED since
      BY <1>8, <2>3, AcceptKeepsRoster, Zenon DEF Accept
    <3> QED
      BY <1>2, <2>1, <2>2, <3>1
  <2>4. CASE Clients # {}
    BY <1>1, <2>1, <2>2, <2>4 DEF SeesInv, Byte
  <2> QED
    BY <2>3, <2>4
<1>9. CASE Serve
  <2>1. /\ UNCHANGED since
        /\ withheld' = withheld \/ withheld' = [d \in Clients |->
              IF \E i \in DOMAIN conns : conns[i].client = d /\ ShouldWithhold(conns[i])
              THEN withheld[d] \cup ToSet(Chunk) ELSE withheld[d]]
    BY <1>9 DEF Serve
  <2>2. \A c \in Clients : SeesOf(c)' /\ withheld'[c] \in SUBSET Byte
    BY <1>9, ServeSees
  <2>3. withheld' \in [Clients -> SUBSET Byte]
    BY <1>1, <2>1, <2>2
  <2> QED
    BY <1>1, <2>1, <2>2, <2>3 DEF SeesInv, Byte
<1>10. CASE Recv
  <2>1. UNCHANGED <<since, withheld, seen, peer, got, inflight>>
    BY <1>10 DEF Recv
  <2>2. CASE UNCHANGED conns
    BY <1>3, <2>1, <2>2
  <2>3. CASE ~UNCHANGED conns
    <3>1. /\ at \in 1..Len(conns) /\ conns' = RemoveAt(conns, at)
          /\ peer[conns[at].client] = "closed"
      BY <1>10, <2>3, RecvEffect DEF ConnInv
    <3>2. \A c \in Clients : peer[c] = "open" => Queue(c)' = Queue(c)
      BY <3>1, RemovalKeepsQueue
    <3>3. \A c \in Clients : peer[c] = "open" => Sent(c)' = Sent(c)
      BY <2>1, <3>2 DEF Sent
    <3>4. \A c \in Clients : SeesOf(c)'
      BY <1>1, <2>1, <3>3, SeesMoved
    <3> QED
      BY <1>2, <2>1, <3>4
  <2> QED
    BY <2>2, <2>3
<1>11. CASE Send
  <2>1. UNCHANGED <<since, withheld>>
    BY <1>11 DEF Send, history
  <2> QED
    BY <1>2, <1>11, <2>1, SendSees
<1> QED
  BY <1>4, <1>5, <1>6, <1>7, <1>8, <1>9, <1>10, <1>11 DEF Next, Main

\* A connected client has, sent, under way or queued, exactly the bytes read since
\* it was accepted, in order and less those withheld from it
\* (queueSerialBytesToClients() and the send loop of serviceConnections()).
THEOREM ClientSeesStreamHolds == Spec => []ClientSeesStream
<1>1. Init => SeesInv
  <2> SUFFICES ASSUME Init PROVE SeesInv
    OBVIOUS
  <2>1. since \in [Clients -> Int] /\ withheld \in [Clients -> SUBSET Byte]
    BY DEF Init
  <2>2. ASSUME NEW c \in Clients PROVE SeesOf(c)
    BY DEF Init, SeesOf
  <2> QED
    BY <2>1, <2>2 DEF SeesInv
<1>2. SwtInv /\ SwtInv' /\ SeesInv /\ [Next]_vars => SeesInv'
  BY SeesStep DEF SwtInv
<1>3. SeesInv => ClientSeesStream
  BY DEF SeesInv, SeesOf, Sees, Sent, Ascending, ClientSeesStream
<1> QED
  BY <1>1, <1>2, <1>3, SwtInvHolds, PTL DEF Spec
=============================================================================
