------------------------------ MODULE SwtServer ------------------------------
(***************************************************************************)
(* swt, the server that copies the bytes of a serial trace probe to every  *)
(* connected socket client (swt_main.cpp, class IoConnections of swt.cpp). *)
(* Two ways of waiting exist: one select() over everything ("select"), and *)
(* a select thread plus a serial thread that talk to the main thread over  *)
(* one mutex and one condition variable ("threads", option -pthread).      *)
(*                                                                         *)
(* A byte is its position in what the probe sends.  A wait on the          *)
(* condition variable is a guard: every change of a waited-for flag is     *)
(* followed by a broadcast under the same mutex.  Descriptors are numbers  *)
(* handed out lowest first, as accept() does, because the threads pass     *)
(* descriptor sets to each other and a number may come to name another     *)
(* client.  Sets that are overwritten before they are looked at again are  *)
(* emptied.  The exit flag of the threads is set by closeResources() only, *)
(* which main() does not call.                                             *)
(***************************************************************************)
EXTENDS Integers, Sequences, SequencesExt, FiniteSets, FiniteSetsExt

CONSTANTS
    Clients,     \* the programs that connect to the server
    Modes,       \* ways of waiting: a subset of {"select", "threads"}
    AutoExit,    \* option -autoexit
    BufBytes,    \* SERIAL_BUFFER_NUMBYTES
    Threshold,   \* QUEUE_STALLED_CLIENT_SUSPICION_THRESHOLD
    SockBytes,   \* what the kernel buffers for one client
    MaxBytes,    \* bound: bytes the probe sends
    MaxFaults    \* bound: times a cable is pulled, a client writes or a client leaves

ASSUME SwtAssumption ==
    /\ IsFiniteSet(Clients)
    /\ Modes \subseteq {"select", "threads"}
    /\ AutoExit \in BOOLEAN
    /\ {BufBytes, SockBytes} \subseteq Nat \ {0}
    /\ {Threshold, MaxBytes, MaxFaults} \subseteq Nat

VARIABLES
    mode,
    \* the probe and the tty of the kernel
    next, faults, plugged, fd, tty,
    \* the clients and their sockets
    peer, backlog, said, inflight, got,
    \* the main thread
    pc, at, ready, conns, highWater,
    \* PthreadModeData and the two threads
    lookahead, held, request, response, ack, answer, selPc, watch, found,
    \* history: bytes read, where a client joined, what was withheld from it,
    \* whether the answer has been acted upon, whether the tty was ever reopened
    seen, since, withheld, acted, reopened

probe   == <<next, plugged>>
serial  == <<fd, tty>>
sockets == <<peer, backlog, said, inflight, got>>
main    == <<pc, at, ready, conns, highWater>>
select  == <<request, response, ack, answer, selPc, watch, found>>
reader  == <<lookahead, held>>
history == <<seen, since, withheld, acted, reopened>>
vars    == <<mode, faults, probe, serial, sockets, main, select, reader, history>>

Server == 0                               \* serverSocketFd
Serial == -1                              \* stands for the number of serialFd
Fds    == 1..(Cardinality(Clients) + 1)   \* client descriptors

Connection == [client: Clients, fd: Fds, bytesToSend: Seq(1..MaxBytes), withholding: BOOLEAN]

OpenFds == {conns[i].fd : i \in DOMAIN conns}
HasInput(c) == said[c] \/ peer[c] = "closed"
Queue(c) == LET i == SelectInSeq(conns, LAMBDA k : k.client = c)
            IN  IF i = 0 THEN <<>> ELSE conns[i].bytesToSend

\* IoConnections() and main(): the device is open before anything else happens
Init ==
    /\ mode \in Modes
    /\ next = 1 /\ faults = 0 /\ plugged = TRUE /\ fd = "open" /\ tty = <<>>
    /\ peer = [c \in Clients |-> "idle"] /\ backlog = <<>>
    /\ said = [c \in Clients |-> FALSE]
    /\ inflight = [c \in Clients |-> <<>>] /\ got = [c \in Clients |-> <<>>]
    /\ pc = "loop" /\ at = 1 /\ ready = {} /\ conns = <<>> /\ highWater = 0
    /\ lookahead = <<>> /\ held = <<>>
    /\ request = FALSE /\ response = FALSE /\ ack = FALSE
    /\ answer = {} /\ selPc = "idle" /\ watch = {} /\ found = {}
    /\ seen = <<>> /\ since = [c \in Clients |-> -1]
    /\ withheld = [c \in Clients |-> {}] /\ acted = FALSE /\ reopened = FALSE

-----------------------------------------------------------------------------
(* The surroundings: probe, kernel and clients.                            *)

\* What happens at most MaxFaults times in a run.
Fault == faults < MaxFaults /\ faults' = faults + 1

\* A byte arrives; it is kept only while a live descriptor is open on the tty.
Produce ==
    /\ plugged /\ next <= MaxBytes
    /\ next' = next + 1
    /\ tty' = IF fd = "open" THEN Append(tty, next) ELSE tty
    /\ UNCHANGED <<faults, plugged, fd, sockets>>

\* The cable is pulled: a read of the old descriptor returns 0 from now on.
Unplug ==
    /\ Fault /\ plugged
    /\ plugged' = FALSE
    /\ fd' = IF fd = "open" THEN "hungup" ELSE fd
    /\ tty' = <<>>
    /\ UNCHANGED <<next, sockets>>

Replug ==
    /\ ~plugged /\ plugged' = TRUE
    /\ UNCHANGED <<faults, next, serial, sockets>>

Connect(c) ==
    /\ peer[c] = "idle" /\ pc # "exit"
    /\ peer' = [peer EXCEPT ![c] = "pending"]
    /\ backlog' = Append(backlog, c)
    /\ UNCHANGED <<faults, probe, serial, said, inflight, got>>

\* A client writes something, which the server reads and drops.
Say(c) ==
    /\ Fault /\ peer[c] = "open"
    /\ said' = [said EXCEPT ![c] = TRUE]
    /\ UNCHANGED <<probe, serial, peer, backlog, inflight, got>>

ClientRead(c) ==
    /\ peer[c] = "open" /\ inflight[c] # <<>>
    /\ got' = [got EXCEPT ![c] = @ \o inflight[c]]
    /\ inflight' = [inflight EXCEPT ![c] = <<>>]
    /\ UNCHANGED <<faults, probe, serial, peer, backlog, said>>

Leave(c) ==
    /\ Fault /\ peer[c] = "open"
    /\ peer' = [peer EXCEPT ![c] = "closed"]
    /\ inflight' = [inflight EXCEPT ![c] = <<>>]
    /\ UNCHANGED <<probe, serial, backlog, said, got>>

Surroundings == Produce \/ Unplug \/ Replug
                  \/ \E c \in Clients : Connect(c) \/ Say(c) \/ ClientRead(c) \/ Leave(c)
Environment == Surroundings /\ UNCHANGED <<mode, main, select, reader, history>>

-----------------------------------------------------------------------------
(* The main thread: main() and serviceConnections().                       *)

\* What the kernel calls readable.
Readable(f) ==
    \/ f = Server /\ backlog # <<>>
    \/ f = Serial /\ (fd = "hungup" \/ (fd = "open" /\ tty # <<>>))
    \/ \E i \in DOMAIN conns : conns[i].fd = f /\ HasInput(conns[i].client)

\* Mutants of ReadyIn: a descriptor is left out of the set.
ReadyInButServer(set) == {f \in set \ {Server} : Readable(f)}
ReadyInButSerial(set) == {f \in set \ {Serial} : Readable(f)}

\* The descriptors of a watched set that select() reports as readable.
ReadyIn(set) == {f \in set : Readable(f)}

\* callSelect() with the serial device, waitUsingSelectForAllIo()
WaitSelect ==
    /\ mode = "select" /\ pc = "wait"
    /\ LET set == {Server, Serial} \cup OpenFds
       IN  ReadyIn(set) # {} /\ ready' = ReadyIn(set)
    /\ pc' = "accept"
    /\ UNCHANGED <<mode, faults, probe, serial, sockets, at, conns, highWater, select, reader, history>>

\* waitUsingThreadsAndConditionVar() up to its wait: ask for a select()
WaitRequest ==
    /\ mode = "threads" /\ pc = "wait"
    /\ request' = TRUE
    /\ response' = (response /\ request)
    /\ answer' = IF request THEN answer ELSE {}
    /\ pc' = "sleep"
    /\ UNCHANGED <<mode, faults, probe, serial, sockets, at, ready, conns, highWater,
                   ack, selPc, watch, found, reader, history>>

\* ... and from its wait on
WaitWake ==
    /\ pc = "sleep" /\ (response \/ lookahead # <<>>)
    /\ ack' = (ack \/ response)
    /\ request' = (request /\ ~response)
    /\ pc' = "accept"
    /\ UNCHANGED <<mode, faults, probe, serial, sockets, at, ready, conns, highWater,
                   response, answer, selPc, watch, found, reader, history>>

\* Mutant of IsSocketReadable: anything select() reports makes every socket readable.
IsAnythingReadable(f) == IF mode = "threads" THEN response /\ f \in answer ELSE ready # {}

\* The threads' answer is consulted afresh at every call, not once per round.
IsSocketReadable(f) == IF mode = "threads" THEN response /\ f \in answer ELSE f \in ready
IsSerialReadable    == IF mode = "threads" THEN lookahead # <<>> ELSE Serial \in ready

\* The descriptor accept() returns.
LowestFree == Min(Fds \ OpenFds)

Accept ==
    /\ pc = "accept"
    /\ \/ /\ ~IsSocketReadable(Server)
          /\ UNCHANGED <<sockets, conns, highWater, since, acted>>
       \/ /\ IsSocketReadable(Server) /\ backlog # <<>>   \* accept() blocks otherwise
          /\ LET c == Head(backlog)
             IN  /\ peer' = [peer EXCEPT ![c] = "open"]
                 /\ since' = [since EXCEPT ![c] = Len(seen)]
                 /\ conns' = Append(conns, [client |-> c, fd |-> LowestFree,
                                            bytesToSend |-> <<>>, withholding |-> FALSE])
          /\ backlog' = Tail(backlog)
          /\ highWater' = Max({highWater, Len(conns')})
          /\ acted' = TRUE
          /\ UNCHANGED <<said, inflight, got>>
    /\ pc' = "serial"
    /\ UNCHANGED <<mode, faults, probe, serial, at, ready, select, reader, seen, withheld, reopened>>

\* Mutant of QueueSerialBytesToClients: the flag decides, which is the neighbour's.
QueueByFlag(chunk) ==
    [i \in DOMAIN conns |->
        [conns[i] EXCEPT
            !.bytesToSend = IF conns[i].withholding THEN @ ELSE @ \o chunk,
            !.withholding = IF i > 1 THEN Len(conns[i - 1].bytesToSend) > Threshold ELSE @]]

\* queueSerialBytesToClients(): "it" has moved on when withholding is stored, so
\* the verdict about a client lands in the next one's flag.
ShouldWithhold(k) == Len(k.bytesToSend) > Threshold
QueueSerialBytesToClients(chunk) ==
    [i \in DOMAIN conns |->
        [conns[i] EXCEPT
            !.bytesToSend = IF ShouldWithhold(conns[i]) THEN @ ELSE @ \o chunk,
            !.withholding = IF i > 1 THEN ShouldWithhold(conns[i - 1]) ELSE @]]

\* serialReadBytes(): from the lookahead of the serial thread, or from the tty;
\* a read of an open tty without data blocks.
Source == IF mode = "threads" THEN lookahead ELSE tty
Chunk  == SubSeq(Source, 1, Min({BufBytes, Len(Source)}))
SerialRest == SubSeq(Source, Len(Chunk) + 1, Len(Source))

\* Mutants of SerialReadBytes: the whole lookahead is cleared; the tty is read
\* without blocking.
SerialReadClears ==
    IF mode = "threads"
    THEN lookahead' = <<>> /\ UNCHANGED tty
    ELSE (fd = "open" => tty # <<>>) /\ tty' = SerialRest /\ UNCHANGED lookahead
SerialReadNonBlocking ==
    IF mode = "threads"
    THEN lookahead' = SerialRest /\ UNCHANGED tty
    ELSE tty' = SerialRest /\ UNCHANGED lookahead

SerialReadBytes ==
    IF mode = "threads"
    THEN lookahead' = SerialRest /\ UNCHANGED tty
    ELSE (fd = "open" => tty # <<>>) /\ tty' = SerialRest /\ UNCHANGED lookahead

\* The do-while loop: a full buffer is read again without asking for readiness,
\* and a read of nothing closes the device.
Serve ==
    /\ \/ /\ pc = "serial" /\ ~IsSerialReadable
          /\ pc' = "recv"
          /\ UNCHANGED <<serial, conns, lookahead, seen, withheld>>
       \/ /\ (pc = "serial" /\ IsSerialReadable) \/ pc = "more"
          /\ SerialReadBytes
          /\ fd' = IF Chunk = <<>> THEN "closed" ELSE fd
          /\ conns' = IF Chunk = <<>> THEN conns ELSE QueueSerialBytesToClients(Chunk)
          /\ pc' = IF Len(Chunk) = BufBytes THEN "more" ELSE "recv"
          /\ seen' = seen \o Chunk
          /\ withheld' = [c \in Clients |->
                 IF \E i \in DOMAIN conns : conns[i].client = c /\ ShouldWithhold(conns[i])
                 THEN withheld[c] \cup ToSet(Chunk) ELSE withheld[c]]
    /\ at' = 1
    /\ UNCHANGED <<mode, faults, probe, sockets, ready, highWater, select, held, since, acted, reopened>>

\* Readable clients are read from; end of file removes the connection.
Recv ==
    /\ pc = "recv"
    /\ \/ /\ at > Len(conns)
          /\ pc' = "send" /\ at' = 1 /\ ready' = {}
          /\ UNCHANGED <<conns, said, acted>>
       \/ /\ at <= Len(conns) /\ ~IsSocketReadable(conns[at].fd)
          /\ at' = at + 1
          /\ UNCHANGED <<pc, ready, conns, said, acted>>
       \/ /\ at <= Len(conns) /\ IsSocketReadable(conns[at].fd) /\ said[conns[at].client]
          /\ said' = [said EXCEPT ![conns[at].client] = FALSE]
          /\ at' = at + 1 /\ acted' = TRUE
          /\ UNCHANGED <<pc, ready, conns>>
       \/ /\ at <= Len(conns) /\ IsSocketReadable(conns[at].fd)
          /\ ~said[conns[at].client] /\ peer[conns[at].client] = "closed"
          /\ conns' = RemoveAt(conns, at)
          /\ acted' = TRUE
          /\ UNCHANGED <<pc, at, ready, said>>
    /\ UNCHANGED <<mode, faults, probe, serial, peer, backlog, inflight, got, highWater,
                   select, reader, seen, since, withheld, reopened>>

\* send() on a blocking socket returns when the kernel has taken every byte; to a
\* closed peer it fails, or the bytes vanish before the reset comes back.
Send ==
    /\ pc = "send"
    /\ \/ /\ at > Len(conns)
          /\ pc' = "loop" /\ at' = 1
          /\ UNCHANGED <<conns, inflight>>
       \/ /\ at <= Len(conns) /\ conns[at].bytesToSend = <<>>
          /\ at' = at + 1
          /\ UNCHANGED <<pc, conns, inflight>>
       \/ /\ at <= Len(conns) /\ conns[at].bytesToSend # <<>>
          /\ peer[conns[at].client] = "open"
          /\ LET c    == conns[at].client
                 data == conns[at].bytesToSend
                 n    == Min({SockBytes - Len(inflight[c]), Len(data)})
             IN  /\ n > 0
                 /\ inflight' = [inflight EXCEPT ![c] = @ \o SubSeq(data, 1, n)]
                 /\ conns' = [conns EXCEPT ![at].bytesToSend = SubSeq(@, n + 1, Len(@))]
                 /\ at' = IF n = Len(data) THEN at + 1 ELSE at
          /\ UNCHANGED pc
       \/ /\ at <= Len(conns) /\ conns[at].bytesToSend # <<>>
          /\ peer[conns[at].client] = "closed"
          /\ \/ conns' = RemoveAt(conns, at) /\ UNCHANGED at
             \/ conns' = [conns EXCEPT ![at].bytesToSend = <<>>] /\ at' = at + 1
          /\ UNCHANGED <<pc, inflight>>
    /\ UNCHANGED <<mode, faults, probe, serial, peer, backlog, said, got, ready, highWater,
                   select, reader, history>>

\* main(): after every round a closed device is opened again (and its input
\* flushed) before anything else; -autoexit ends the program.
HasClientCountDecreasedToZero == highWater > 0 /\ conns = <<>>
MainLoop ==
    /\ pc = "loop"
    /\ \/ /\ fd = "closed" /\ plugged
          /\ fd' = "open" /\ tty' = <<>> /\ reopened' = TRUE
          /\ UNCHANGED pc
       \/ /\ fd # "closed"
          /\ pc' = IF AutoExit /\ HasClientCountDecreasedToZero THEN "exit" ELSE "wait"
          /\ UNCHANGED <<serial, reopened>>
    /\ UNCHANGED <<mode, faults, probe, sockets, at, ready, conns, highWater, select, reader,
                   seen, since, withheld, acted>>

Main == WaitSelect \/ WaitRequest \/ WaitWake \/ Accept \/ Serve \/ Recv \/ Send \/ MainLoop

-----------------------------------------------------------------------------
(* The threads.                                                            *)

\* ThreadFuncSerial: a blocking read without the mutex, then append under it.
SerialThread ==
    /\ mode = "threads" /\ pc # "exit"
    /\ \/ /\ held = <<>> /\ fd = "open" /\ tty # <<>>
          /\ held' = SubSeq(tty, 1, Min({BufBytes, Len(tty)}))
          /\ tty' = SubSeq(tty, Len(held') + 1, Len(tty))
          /\ UNCHANGED lookahead
       \/ /\ held # <<>>
          /\ lookahead' = lookahead \o held
          /\ held' = <<>>
          /\ UNCHANGED tty
    /\ UNCHANGED <<mode, faults, probe, fd, sockets, main, select, history>>

\* ThreadFuncSelect: callSelect() collects the descriptors without the mutex, ...
SelectCollect ==
    /\ selPc = "idle" /\ request
    /\ watch' = {Server} \cup OpenFds
    /\ selPc' = "call"
    /\ UNCHANGED <<request, response, ack, answer, found>>

\* ... a set with a descriptor closed in the meantime makes select() fail and
\* stays as it is, ...
SelectEnter ==
    /\ selPc = "call"
    /\ IF watch \subseteq {Server} \cup OpenFds
       THEN selPc' = "block" /\ UNCHANGED <<found, watch>>
       ELSE selPc' = "store" /\ found' = watch /\ watch' = {}
    /\ UNCHANGED <<request, response, ack, answer>>

\* ... otherwise select() waits, ...
SelectReturn ==
    /\ selPc = "block" /\ ReadyIn(watch) # {}
    /\ found' = ReadyIn(watch)
    /\ selPc' = "store" /\ watch' = {}
    /\ UNCHANGED <<request, response, ack, answer>>

\* ... and the result is published and acknowledged under the mutex.
SelectStore ==
    /\ selPc = "store"
    /\ ack' = FALSE /\ answer' = found /\ response' = TRUE
    /\ selPc' = "acked" /\ found' = {}
    /\ UNCHANGED <<request, watch>>

\* Mutant of SelectAcked: the thread does not wait for the acknowledgement.
SelectUnacked ==
    /\ selPc = "acked"
    /\ selPc' = "idle"
    /\ UNCHANGED <<request, response, ack, answer, watch, found>>

SelectAcked ==
    /\ selPc = "acked" /\ ack
    /\ selPc' = "idle"
    /\ UNCHANGED <<request, response, ack, answer, watch, found>>

SelectThread ==
    /\ mode = "threads" /\ pc # "exit"
    /\ \/ (SelectCollect \/ SelectEnter \/ SelectReturn \/ SelectAcked) /\ UNCHANGED acted
       \/ SelectStore /\ acted' = FALSE
    /\ UNCHANGED <<mode, faults, probe, serial, sockets, main, reader, seen, since, withheld, reopened>>

-----------------------------------------------------------------------------
Next == Environment \/ Main \/ SerialThread \/ SelectThread

\* The operating system schedules every thread, clients read what is sent to
\* them, and a pulled cable is put back.
Fairness ==
    /\ WF_vars(Main) /\ WF_vars(SerialThread) /\ WF_vars(SelectThread)
    /\ WF_vars(Replug /\ Environment)
    /\ WF_vars((\E c \in Clients : ClientRead(c)) /\ Environment)

Spec     == Init /\ [][Next]_vars
LiveSpec == Spec /\ Fairness
-----------------------------------------------------------------------------
(* Properties.                                                             *)

\* Nothing is lost or reordered between the probe and the main thread, whichever
\* thread holds the bytes, until the device has been closed and opened again.
SerialInOrder ==
    LET all == seen \o lookahead \o held \o tty
    IN  /\ \A i \in 1..(Len(all) - 1) : all[i] < all[i + 1]
        /\ fd = "open" /\ ~reopened => all = [i \in 1..(next - 1) |-> i]

\* A connected client has, sent, under way or queued, exactly the bytes read from
\* the device since it was accepted, less those withheld from it, each once and in
\* the order in which the probe sent them.
ClientSeesStream ==
    \A c \in Clients : peer[c] = "open" =>
        LET all == got[c] \o inflight[c] \o Queue(c)
        IN  /\ \A i \in 1..(Len(all) - 1) : all[i] < all[i + 1]
            /\ ToSet(all) = ToSet(SubSeq(seen, since[c] + 1, Len(seen))) \ withheld[c]

\* With one select() for everything, no accept() or recv() of the main thread can
\* block: what select() reported is still there when the server gets to it.
BlockedRecv ==
    pc = "recv" /\ at <= Len(conns) /\ IsSocketReadable(conns[at].fd)
      /\ ~HasInput(conns[at].client)
BlockedAccept == pc = "accept" /\ IsSocketReadable(Server) /\ backlog = <<>>
NeverBlocks == mode = "select" => ~BlockedRecv /\ ~BlockedAccept

\* With one select() the device is closed only after the cable was pulled
\* ("Serial device was disconnected").
ClosedOnlyWhenUnplugged ==
    [][mode = "select" /\ fd' = "closed" => fd \in {"hungup", "closed"}]_vars

\* The threads' handshake: while the main thread may look at an answer the select
\* thread waits, and it never waits for an acknowledgement of an answer that is gone.
HandshakeInStep ==
    /\ response /\ ~request => selPc \in {"acked", "idle"}
    /\ selPc = "acked" => response \/ ack
    /\ selPc \in {"call", "block", "store"} => request /\ ~response

\* "selectResponseValid ... WaitForIo clears it on next iteration" (swt.hpp): an
\* answer the main thread has acted upon is not there in its next round.
ClearedOnNextIteration ==
    [][pc = "sleep" /\ pc' = "accept" /\ response => ~acted]_vars

\* Clients waiting to be accepted are accepted and bytes queued for a client are
\* sent, unless the main thread hangs in a call or the program ends.
Queued == {i \in DOMAIN conns : conns[i].bytesToSend # <<>>}
Hangs  == BlockedRecv \/ BlockedAccept \/ (pc = "more" /\ tty = <<>>)
EveryoneServed ==
    (backlog # <<>> \/ Queued # {}) ~> (backlog = <<>> /\ Queued = {}) \/ Hangs \/ pc = "exit"

\* A pulled and replugged probe is picked up again: main() says "Keep trying to
\* reconnect, and if successful, continue on".  The thread that reads the device
\* ignores a failing read, so that nobody notices in threads mode.
PickedUpAgain == fd = "hungup" ~> (fd = "open" \/ pc = "exit")

\* A pulled and replugged probe is picked up again, with one select() for all.
Reconnects == (mode = "select" /\ fd = "hungup") ~> (fd = "open" \/ pc = "exit")
=============================================================================
