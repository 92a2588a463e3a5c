----------------------------- MODULE Converters -----------------------------
(***************************************************************************)
(* The two converters that in-circuit trace messages feed: EventConverter, *)
(* which writes every event to one file and to a file of its kind, and     *)
(* CTFConverter, which packs calls and returns into the packets of one     *)
(* binary stream per core (trace.cpp), with the part of                    *)
(* processTraceMessage that calls them.                                    *)
(*                                                                         *)
(* Module Trace models what a message does to pc and faddr; here a message *)
(* comes with both.  A line of text is a record of what it shows.  Lengths *)
(* in bytes are the real ones, as the packet headers promise them.  CTF is *)
(* enabled at the start, for the process current then: there is one only   *)
(* for a bare metal trace, whose one process has index 0 and no pid.       *)
(*                                                                         *)
(* The time of a core only grows here.  In the code it is lastTime of      *)
(* Trace: resetTrace zeroes it (trace.cpp:9226, 9289), the wraps counted   *)
(* so far are lost, and time may run back in what follows.  What the       *)
(* converters do then is outside this module.                              *)
(***************************************************************************)
EXTENDS NextAddr, Sequences, SequencesExt

CONSTANTS
  Messages,     \* the messages that may arrive
  MaxMessages,  \* bound: messages in a run
  QueueEvents,  \* sizeof eventBuffer / sizeof eventBuffer[0]: when a queue is flushed
  BufferEvents, \* new event[20]
  CompactMod,   \* 2^32, what a compact time stamp counts to
  NoName,       \* addresses with a source line and without a function name
  Unopenable    \* sets of files that open() may refuse in a run

Kinds == {"trigger", "watchpoint", "callret", "exception", "interrupt",
          "privcontext", "scontext", "hcontext", "periodic", "control"}
NoProc == -1
Procs == ProcIndex
CtfProc == 0

ASSUME ConvertersAssumption ==
  /\ MaxMessages \in Nat /\ CompactMod \in Nat \ {0}
  /\ QueueEvents \in Nat \ {0} /\ BufferEvents \in Nat
  /\ QueueEvents <= BufferEvents    \* 16 and 20
  /\ Unopenable \subseteq SUBSET (Kinds \cup {"events"})
  /\ \A m \in Messages : /\ m.core \in Cores /\ m.cksrc \in ICTReasons /\ m.ws \in BOOLEAN
                         /\ {m.ckdf, m.pc, m.faddr, m.data, m.dt} \subseteq Nat
                         /\ m.to \in Procs \cup {NoProc}

VARIABLES
  bare, eventConvert, ctf, noFile, \* the sort of trace, options, what cannot be opened
  status, count, time, proc,      \* Trace: status, messages so far, time and process of a core
  converter,                      \* EventConverter of a process: made, the files
  eventBuffer, headerFlag, packetSeqNum, file, added
                                  \* CTFConverter; history: what it was given

options == <<bare, eventConvert, ctf, noFile>>
stream  == <<eventBuffer, headerFlag, packetSeqNum, file, added>>
vars    == <<options, status, count, time, proc, converter, stream>>

-----------------------------------------------------------------------------
(* EventConverter.                                                         *)

NoConverter == [made |-> FALSE, events |-> << >>, files |-> [k \in Kinds |-> << >>]]

Line(kind, m, pid, pc, shows) ==
  [kind |-> kind, core |-> m.core, time |-> time'[m.core], pid |-> pid, pc |-> pc, shows |-> shows]

(* emitCallRetAtTarget is a mutant of emitCallRet: the pc shown is the     *)
(* target's.                                                               *)
emitExtTrigEvent(m, pid, id) == Line("trigger", m, pid, m.faddr, IF m.ckdf = 0 THEN 0 ELSE id)
emitWatchpoint(m, pid, id)   == Line("watchpoint", m, pid, m.faddr, IF m.ckdf = 0 THEN 0 ELSE id)
emitCallRetAtTarget(m, pid, flag, to) == Line("callret", m, pid, m.faddr, <<flag, to>>)
emitCallRet(m, pid, flag, to) == Line("callret", m, pid, m.pc, <<flag, to>>)
emitException(m, pid)        == Line("exception", m, pid, m.pc, m.data)
emitInterrupt(m, pid)        == Line("interrupt", m, pid, m.pc, m.data)
emitContext(m, pid) ==
  Line(CASE m.data = 0 -> "privcontext" [] m.data = 2 -> "scontext" [] m.data = 3 -> "hcontext"
         [] OTHER -> "unknown", m, pid, m.pc, m.to)
emitPeriodic(m, pid)         == Line("periodic", m, pid, m.pc, 0)
emitControl(m, pid)          == Line("control", m, pid, IF m.ckdf = 0 THEN 0 ELSE m.pc, m.data)

(* The end of every emit function: nothing is written to either file when  *)
(* the file of the kind does not open, when the sort of context is not     *)
(* known, or when an address has a source line and no function name, which *)
(* only emitContext tolerates.                                             *)
ContextKinds == {"privcontext", "scontext", "hcontext"}
Written(cv, l) ==
  IF l.kind \notin Kinds \ noFile \/ (l.pc \in NoName /\ l.kind \notin ContextKinds)
  THEN cv
  ELSE [cv EXCEPT !.events = Append(@, l), !.files[l.kind] = Append(@, l)]

(* enableEventConverter, when the process has none yet, and the emit call. *)
enableEventConverter(p) == converter[p].made \/ "events" \notin noFile
Emit(p, l) ==
  /\ converter' = [converter EXCEPT ![p] = Written([@ EXCEPT !.made = TRUE], l)]
  /\ status' = status
CannotEmit(p) ==
  /\ converter' = [converter EXCEPT ![p].made = TRUE]
  /\ status' = "ERR"
EmitOrFail(p, l) ==
  \/ enableEventConverter(p) /\ Emit(p, l)
  \/ ~enableEventConverter(p) /\ CannotEmit(p)

-----------------------------------------------------------------------------
(* CTFConverter.                                                           *)

\* sizeof of the packed structures
IdBytes == 2
ExtendedBytes == 12
CompactBytes == 4
EventContextBytes == 25
PayloadBytes == 16
PacketHeaderBytes == 8
PacketContextBytes == 52
ElfNameBytes == 20    \* the path of the ELF file, with its terminating 0

EventBytes(e) ==
  IdBytes + (IF e.form = "extended" THEN ExtendedBytes ELSE CompactBytes)
    + EventContextBytes + PayloadBytes
computeEventSizes(q) ==
  LET size[i \in 0 .. Len(q)] == IF i = 0 THEN 0 ELSE size[i - 1] + EventBytes(q[i])
  IN  size[Len(q)]
writeEvent(bytes, e) == bytes + EventBytes(e)
writeEvents(bytes, q) ==
  LET written[i \in 0 .. Len(q)] == IF i = 0 THEN bytes ELSE writeEvent(written[i - 1], q[i])
  IN  written[Len(q)]

(* Mutant of computeBinInfoSize: the end of the state dump is forgotten.   *)
computeBinInfoSizeShort == 2 * IdBytes + 2 * ExtendedBytes + 3 * EventContextBytes
                             + 8 + 8 + ElfNameBytes + 1 + 1 + 1

computeBinInfoSize == 3 * IdBytes + 3 * ExtendedBytes + 3 * EventContextBytes
                        + 8 + 8 + ElfNameBytes + 1 + 1 + 1

(* A packet: what its header says, and what is written.                    *)
writeStreamHeaders(begin, end, size) ==
  [seq |-> packetSeqNum, begin |-> begin, end |-> end,
   size |-> size + PacketContextBytes + 8,
   written |-> PacketHeaderBytes + PacketContextBytes, events |-> << >>]

\* start, binary info and end of a state dump, with one time for all
writeBinInfo(begin) ==
  [writeStreamHeaders(begin, begin, computeBinInfoSize) EXCEPT
     !.written = @ + 3 * (IdBytes + ExtendedBytes + EventContextBytes)
                   + 8 + 8 + ElfNameBytes + 3]

Packet(q) ==
  LET begin == q[1].time
      last  == q[Len(q)].time
      end   == IF Len(q) > 1 THEN (begin \div CompactMod) * CompactMod + last ELSE begin
  IN  [writeStreamHeaders(begin, end, computeEventSizes(q)) EXCEPT
         !.written = writeEvents(@, q), !.events = q]

(* Never called for an empty queue.                                        *)
flushEvents(c) ==
  /\ headerFlag' = [headerFlag EXCEPT ![c] = TRUE]
  /\ packetSeqNum' = packetSeqNum + 1
  /\ file' = [file EXCEPT ![c] =
         @ \o (IF headerFlag[c] THEN << >> ELSE <<writeBinInfo(eventBuffer[c][1].time)>>)
           \o <<Packet(eventBuffer[c])>>]

(* Mutant of Event: the first event keeps the low part of its time only.   *)
EventLow(q, id, m, to) ==
  [id |-> id, pc |-> m.pc, pcDst |-> to, form |-> IF q = << >> THEN "extended" ELSE "compact",
   time |-> time'[m.core] % CompactMod]

(* The first event of a queue has a full time, the others the low part.    *)
Event(q, id, m, to) ==
  [id |-> id, pc |-> m.pc, pcDst |-> to, form |-> IF q = << >> THEN "extended" ELSE "compact",
   time |-> IF q = << >> THEN time'[m.core] ELSE time'[m.core] % CompactMod]

(* Mutant of QueueFull: a queue is flushed one event too late.             *)
QueueOverfull(q) == Len(q) > QueueEvents

QueueFull(q) == Len(q) = QueueEvents
AddEvent(id, m, to) ==
  LET c    == m.core
      full == QueueFull(eventBuffer[c])
      q    == IF full THEN << >> ELSE eventBuffer[c]
  IN  /\ IF full THEN flushEvents(c) ELSE UNCHANGED <<headerFlag, packetSeqNum, file>>
      /\ eventBuffer' = [eventBuffer EXCEPT ![c] = Append(q, Event(q, id, m, to))]
      /\ added' = [added EXCEPT ![c] = Append(@, [id |-> id, pc |-> m.pc, pcDst |-> to,
                                                 time |-> time'[c], exact |-> ~m.ws \/ m.ckdf = 1])]

addCall(m, to) == AddEvent("entry", m, to)
addRet(m, to)  == AddEvent("exit", m, to)

-----------------------------------------------------------------------------
(* The calls in processTraceMessage.                                       *)

WellFormed(m) ==
  \/ m.cksrc \in {"EXT_TRIG", "WATCHPOINT", "INFERABLECALL", "CONTROL"} /\ m.ckdf \in {0, 1}
  \/ m.cksrc \in {"EXCEPTION", "INTERRUPT", "CONTEXT"} /\ m.ckdf = 1
  \/ m.cksrc = "PC_SAMPLE" /\ m.ckdf = 0

(* The nextAddr for inferable calls.                                       *)
CanFollow(p, pc) == Decodes(p, pc) /\ Inst(p, pc).type \notin {"BRANCH", "C_J", "OTHER"}
CalledFrom(p, pc) == IF Inst(p, pc).type \in {"JAL", "C_JAL"} THEN Target(pc, Inst(p, pc)) ELSE 0

HasCtf(p) == ctf /\ p = CtfProc
(* No reset of the decoder: time does not run back.                        *)
Receive(m) ==
  /\ status = "OK" /\ count < MaxMessages
  /\ count' = count + 1
  /\ time' = [time EXCEPT ![m.core] = @ + m.dt]
  /\ UNCHANGED options
Quiet == UNCHANGED <<status, converter, stream>>
Pid(p) == IF bare \/ p = NoProc THEN -1 ELSE Processes[p]
processPidPriv(to) == IF bare /\ to # NoProc THEN CtfProc ELSE to
Refuse == status' = "ERR" /\ UNCHANGED <<converter, stream>>

(* An inferable call of an instruction trace.                              *)
InferableCall(m) ==
  LET p == proc[m.core]
  IN  /\ m.cksrc = "INFERABLECALL" /\ m.ckdf = 0
      /\ Receive(m) /\ UNCHANGED proc
      /\ \/ (p = NoProc \/ ~(eventConvert \/ HasCtf(p))) /\ Quiet
         \/ p # NoProc /\ (eventConvert \/ HasCtf(p)) /\ ~CanFollow(p, m.pc) /\ Refuse
         \/ /\ p # NoProc /\ (eventConvert \/ HasCtf(p)) /\ CanFollow(p, m.pc)
            /\ IF HasCtf(p) THEN addCall(m, CalledFrom(p, m.pc)) ELSE UNCHANGED stream
            /\ IF eventConvert
               THEN EmitOrFail(p, emitCallRet(m, Pid(p), "call",
                                              IF m.ws THEN m.pc ELSE CalledFrom(p, m.pc)))
               ELSE UNCHANGED <<converter, status>>

(* A call or return of an event trace: without sync the line is written    *)
(* whatever eventConvert says, with sync only if there is a CTF converter. *)
EventCall(m) ==
  LET p    == proc[m.core]
      flag == CRFlag(Inst(p, m.pc))
      ctfTakes == flag \in {"call", "return", "exceptionReturn"}
      wants    == IF m.ws THEN HasCtf(p) /\ eventConvert ELSE TRUE
  IN  /\ m.cksrc = "INFERABLECALL" /\ m.ckdf = 1
      /\ Receive(m) /\ UNCHANGED proc
      /\ \/ (p = NoProc \/ ~(eventConvert \/ HasCtf(p))) /\ Quiet
         \/ /\ p # NoProc /\ (eventConvert \/ HasCtf(p))
            /\ ~CanFollow(p, m.pc) \/ (HasCtf(p) /\ ~ctfTakes)
            /\ Refuse
         \/ /\ p # NoProc /\ (eventConvert \/ HasCtf(p)) /\ CanFollow(p, m.pc)
            /\ HasCtf(p) => ctfTakes
            /\ CASE ~HasCtf(p)      -> UNCHANGED stream
                 [] flag = "call"   -> addCall(m, m.faddr)
                 [] OTHER           -> addRet(m, m.faddr)
            /\ IF wants THEN EmitOrFail(p, emitCallRet(m, Pid(p), flag, m.faddr))
                        ELSE UNCHANGED <<converter, status>>

(* Every other event.  A change of context is shown by the converter of    *)
(* the new process, with the pid of the old one.                           *)
LineOf(m, pid) ==
  CASE m.cksrc = "EXT_TRIG"   -> emitExtTrigEvent(m, pid, m.data)
    [] m.cksrc = "WATCHPOINT" -> emitWatchpoint(m, pid, IF m.ws THEN m.data ELSE 0)
    [] m.cksrc = "EXCEPTION"  -> emitException(m, pid)
    [] m.cksrc = "INTERRUPT"  -> emitInterrupt(m, pid)
    [] m.cksrc = "CONTEXT"    -> emitContext(m, pid)
    [] m.cksrc = "PC_SAMPLE"  -> emitPeriodic(m, pid)
    [] m.cksrc = "CONTROL"    -> emitControl(m, pid)

OtherEvent(m) ==
  LET p    == proc'[m.core]
      want == p # NoProc /\ IF m.cksrc = "CONTROL" /\ m.ckdf = 0 /\ ~m.ws
                            THEN converter[p].made ELSE eventConvert
  IN  /\ m.cksrc # "INFERABLECALL" /\ WellFormed(m)
      /\ Receive(m)
      /\ proc' = IF m.cksrc = "CONTEXT" /\ m.data = 2 THEN [proc EXCEPT ![m.core] = processPidPriv(m.to)] ELSE proc
      /\ \/ ~want /\ UNCHANGED <<converter, status>>
         \/ want /\ EmitOrFail(p, LineOf(m, Pid(proc[m.core])))
      /\ UNCHANGED stream

Malformed(m) == ~WellFormed(m) /\ Receive(m) /\ UNCHANGED proc /\ Refuse

processTraceMessage == \E m \in Messages :
  InferableCall(m) \/ EventCall(m) \/ OtherEvent(m) \/ Malformed(m)

(* The end of the program: ~CTFConverter flushes one queue after another.  *)
Close ==
  /\ status # "CLOSED" /\ status' = "CLOSED"
  /\ UNCHANGED <<options, count, time, proc, converter, stream>>

CloseQueue(c) ==
  /\ status = "CLOSED" /\ eventBuffer[c] # << >>
  /\ \A d \in Cores : d < c => eventBuffer[d] = << >>
  /\ flushEvents(c)
  /\ eventBuffer' = [eventBuffer EXCEPT ![c] = << >>]
  /\ UNCHANGED <<options, status, count, time, proc, converter, added>>

Init ==
  /\ bare \in BOOLEAN /\ eventConvert \in BOOLEAN /\ ctf \in {FALSE, bare} /\ noFile \in Unopenable
  /\ status = "OK" /\ count = 0
  /\ time = [c \in Cores |-> 0]
  /\ proc = [c \in Cores |-> IF bare THEN CtfProc ELSE NoProc]
  /\ converter = [p \in Procs |-> NoConverter]
  /\ eventBuffer = [c \in Cores |-> << >>] /\ headerFlag = [c \in Cores |-> FALSE]
  /\ packetSeqNum = 0
  /\ file = [c \in Cores |-> << >>] /\ added = [c \in Cores |-> << >>]

Next == processTraceMessage \/ Close \/ \E c \in Cores : CloseQueue(c)

Spec == Init /\ [][Next]_vars

-----------------------------------------------------------------------------
(* Properties.                                                             *)

(* Every variable has its type; a queue never outgrows its buffer.         *)
TypeOK ==
  /\ eventConvert \in BOOLEAN /\ (ctf => bare) /\ noFile \in Unopenable
  /\ status \in {"OK", "ERR", "CLOSED"} /\ count \in 0 .. MaxMessages
  /\ time \in [Cores -> Nat] /\ proc \in [Cores -> Procs \cup {NoProc}]
  /\ \A p \in Procs : converter[p].made \/ converter[p] = NoConverter
  /\ \A c \in Cores : Len(eventBuffer[c]) <= BufferEvents
  /\ headerFlag \in [Cores -> BOOLEAN] /\ packetSeqNum \in Nat

(* How a reader of a CTF stream gets the times back: a compact time stamp  *)
(* is the next time with that low part (external: the CTF specification).  *)
Later(t, low) ==
  LET same == (t \div CompactMod) * CompactMod + low
  IN  IF same >= t THEN same ELSE same + CompactMod
TimesOf(q) ==
  LET t[i \in 0 .. Len(q)] == IF i = 0 THEN 0
                              ELSE IF q[i].form = "extended" THEN q[i].time
                              ELSE Later(t[i - 1], q[i].time)
  IN  [i \in DOMAIN q |-> t[i]]
EventsOf(q) ==
  [i \in DOMAIN q |-> [id |-> q[i].id, pc |-> q[i].pc, pcDst |-> q[i].pcDst, time |-> TimesOf(q)[i]]]
ReadBack(c) ==
  FlattenSeq([i \in DOMAIN file[c] |-> EventsOf(file[c][i].events)]) \o EventsOf(eventBuffer[c])

(* Reading a core's stream, and what is still queued, gives back every     *)
(* call and return in order with its full time, across flushes of the      *)
(* queue and wraps of the compact time stamps, as long as two events of    *)
(* the core are less than CompactMod apart.                                *)
CtfReadsBack ==
  \A c \in Cores :
    (\A i \in 2 .. Len(added[c]) : added[c][i].time - added[c][i - 1].time < CompactMod)
      => /\ Len(ReadBack(c)) = Len(added[c])
         /\ \A i \in DOMAIN added[c] :
              ReadBack(c)[i] = [id |-> added[c][i].id, pc |-> added[c][i].pc,
                                pcDst |-> added[c][i].pcDst, time |-> added[c][i].time]

(* A reader finds each packet where the sizes of the ones before say, and  *)
(* events within the times of its packet unless the upper part of the time *)
(* changed inside the packet; a stream starts with the binary info.        *)
PacketsWalkable ==
  \A c \in Cores : \A i \in DOMAIN file[c] :
    LET p == file[c][i]
        times == TimesOf(p.events)
    IN  /\ p.size = p.written
        /\ (p.events = << >>) <=> (i = 1)
        /\ p.events # << >> /\ p.begin \div CompactMod = times[Len(times)] \div CompactMod
              => \A k \in DOMAIN times : times[k] \in p.begin .. p.end
        /\ i > 1 => file[c][i - 1].seq <= p.seq /\ file[c][i - 1].begin <= p.begin

At(s, places) ==    \* the elements of s at these places, in order
  LET found[i \in 0 .. Len(s)] == IF i = 0 THEN << >>
                                  ELSE IF i \in places THEN Append(found[i - 1], s[i])
                                  ELSE found[i - 1]
  IN  found[Len(s)]
LinesOf(c) ==
  LET all == converter[CtfProc].files["callret"] IN At(all, {i \in DOMAIN all : all[i].core = c})
GivenTo(c) == At(added[c], {i \in DOMAIN added[c] : added[c][i].pc \notin NoName})

(* With both converters on, the file of calls and returns and the CTF      *)
(* stream of a core show the same ones, with the same times and ends, for  *)
(* all that have names; only the line for an inferable call with sync      *)
(* shows another destination.                                              *)
CallsAgree ==
  eventConvert /\ ctf /\ noFile \cap {"events", "callret"} = {} =>
    \A c \in Cores :
      LET lines == LinesOf(c)
          given == GivenTo(c)
      IN  /\ Len(lines) = Len(given)
          /\ \A i \in DOMAIN lines :
               /\ lines[i].pc = given[i].pc /\ lines[i].time = given[i].time
               /\ (lines[i].shows[1] = "call") <=> (given[i].id = "entry")
               /\ given[i].exact => lines[i].shows[2] = given[i].pcDst
=============================================================================
