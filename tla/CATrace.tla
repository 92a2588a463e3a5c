------------------------------ MODULE CATrace ------------------------------
(***************************************************************************)
(* CATrace: the cycle accurate trace, and how NextInstruction aligns it    *)
(* with the instruction trace.                                             *)
(*                                                                         *)
(* The hardware runs Path, the addresses of the instructions executed, and *)
(* records per cycle a set of flags: V0 and V1 when a pipe finishes an     *)
(* instruction and, in a vector trace, VISTART when a vector instruction   *)
(* starts and VIARITH, VILOAD or VISTORE when a unit finishes one.  A word *)
(* of the file holds WordCycles cycles, a block BlockWords words.  The     *)
(* first word of a block has the mark 3 in its upper two bits; the upper   *)
(* bits of the others hold the address of its first instruction.           *)
(*                                                                         *)
(* The circular queue holds the flags not yet given to an instruction, one *)
(* entry per cycle that has any.  consume() is cut into steps, one per     *)
(* search of the queue and one per word read.                              *)
(***************************************************************************)
EXTENDS Integers, Sequences, FiniteSets, SequencesExt

CONSTANTS
  Code,          (* address -> [type, size, rd, rs1, imm], type as decoded *)
  Path,          (* the addresses executed *)
  CaStarts,      (* where on the path the cycle accurate trace may begin *)
  TeStarts,      (* where the instruction trace may begin *)
  Modes,         (* subset of {"VECTOR", "INSTRUCTION"} *)
  Leads,         (* words of an overwritten block at the start of the file *)
  MaxLag,        (* bound: cycles between two events of an instruction *)
  Cycles,        (* bound: cycles recorded, a number of whole blocks *)
  WordCycles, BlockWords,
  QSize,         (* traceQSize *)
  MaxSkip,       (* instructions the CA trace is run ahead, 30 in the code *)
  MaxRun         (* instructions run before giving up to align, 16 in the code *)

(* A block that was overwritten is not a whole one.                        *)
ASSUME CATraceAssumption ==
  /\ Path \in Seq(DOMAIN Code) /\ CaStarts \cup TeStarts \subseteq 1 .. Len(Path)
  /\ Modes \subseteq {"VECTOR", "INSTRUCTION"}
  /\ {WordCycles, BlockWords, QSize} \subseteq Nat \ {0} /\ Leads \subseteq 0 .. BlockWords - 1
  /\ Cycles \in Nat /\ \E m \in 1 .. Cycles : Cycles = m * BlockWords * WordCycles
  /\ {MaxLag, MaxSkip} \subseteq Nat /\ MaxRun \in Nat \ {0}

VARIABLES
  mode, caStart, teStart, lead,  (* the traces: how and where they begin *)
  firstSet,          (* the first instruction finished while recording *)
  flags,             (* the hardware: the flags of the events, per cycle *)
  sched,             (* and the cycles of each instruction's events *)
  caBufferIndex,     (* words of the file read *)
  blockRecNum,       (* number of the block in catr *)
  offset,            (* next word (vector) or bit (instruction) of catr *)
  q, traceQIn, traceQOut,
  status,
  state,             (* "HW", "SYNCCATE", "RUN", "DONE" or "ERROR" *)
  caSyncAddr, savedAddr, skipped, syncCount,
  n,                 (* position on Path of the next traced instruction *)
  goals,             (* what the consume() under way still looks for *)
  qStart,
  depth0,            (* depths at the start of the search, << >> before it *)
  got,               (* what consume() has found: [cycle, depth] *)
  shown,             (* history: what each instruction was given *)
  given,             (* history: the flags consumed, as <<flag, cycle>> *)
  packed,            (* history: packQ was called *)
  rewound,           (* history: rewind() was called *)
  unaligned          (* history: the traces were not aligned *)

trace == <<mode, caStart, teStart, lead, firstSet, flags, sched>>
queue == <<q, traceQIn, traceQOut>>
reader == <<caBufferIndex, blockRecNum, offset>>
sync == <<caSyncAddr, savedAddr, skipped, syncCount, rewound, unaligned>>
search == <<goals, qStart, depth0, got>>
vars == <<trace, queue, reader, status, state, sync, n, search, shown, given, packed>>

(***************************************************************************)
(* Instructions.                                                           *)
(***************************************************************************)
VTypes == {"VISTART", "VIARITH", "VILOAD", "VISTORE"}
Pipes == {"V0", "V1"}
VectorTypes == {"VECT_ARITH", "VECT_LOAD", "VECT_STORE", "VECT_AMO", "VECT_AMO_WW"}
TypeAt(i) == Code[Path[i]].type

(* The flags consume() looks for after the pipe, in its order.             *)
Goals(type) ==
  CASE type = "VECT_ARITH" -> <<"VISTART", "VIARITH">>
    [] type = "VECT_LOAD" -> <<"VISTART", "VILOAD">>
    [] type = "VECT_STORE" -> <<"VISTART", "VISTORE">>
    [] type = "VECT_AMO" -> <<"VISTART", "VILOAD">>
    [] type = "VECT_AMO_WW" -> <<"VISTART", "VILOAD", "VISTORE">>
    [] OTHER -> << >>

Link == {1, 5}
NoAddress == -1

(* Mutant of Ret: a return is taken to go on behind itself.                *)
RetFallsThrough(addr, saved) == [addr |-> addr + Code[addr].size, saved |-> saved]

Ret(addr, saved) == [addr |-> saved, saved |-> NoAddress]
Unknown(saved) == [addr |-> NoAddress, saved |-> saved]

(* nextCAAddr: the address after addr where it can be inferred, with a     *)
(* return stack of one entry.                                              *)
nextCAAddr(addr, saved) ==
  LET i == Code[addr]
      next == addr + i.size
      call == [addr |-> addr + i.imm, saved |-> IF i.rd \in Link THEN next ELSE saved]
  IN  CASE i.type \in {"JAL", "C_JAL"} -> call
        [] i.type = "C_J" -> [addr |-> addr + i.imm, saved |-> saved]
        [] i.type = "JALR" ->
             (IF i.rd \in Link
                THEN IF i.rs1 \in Link /\ i.rd # i.rs1 THEN Ret(addr, saved) ELSE Unknown(next)
                ELSE IF i.rs1 \in Link THEN Ret(addr, saved) ELSE Unknown(saved))
        [] i.type = "C_JR" -> (IF i.rs1 \in Link THEN Ret(addr, saved) ELSE Unknown(saved))
        [] i.type = "C_JALR" ->
             (IF i.rs1 = 5 THEN [addr |-> saved, saved |-> addr] ELSE Unknown(next))
        [] i.type = "BRANCH" -> (IF i.imm = i.size THEN [addr |-> next, saved |-> saved] ELSE Unknown(saved))
        [] i.type \in {"TRAP", "XRET"} -> Unknown(saved)
        [] OTHER -> [addr |-> next, saved |-> saved]

(***************************************************************************)
(* The hardware.  Instructions finish in order, at most one per pipe and   *)
(* cycle; vector instructions start in order, when or after they finish in *)
(* the pipe, and each unit finishes in order, after the start.  The        *)
(* instruction at the start address may have finished in the pipe before   *)
(* the recording began: it counts as finished in cycle 0, and the file     *)
(* lacks the flag.                                                         *)
(***************************************************************************)
Before(p, s) == p.at < s.at \/ (p.at = s.at /\ p.pipe = "V0" /\ s.pipe = "V1")
SameFlagInOrder(i, e) ==
  \A j \in DOMAIN sched : \A a \in DOMAIN sched[j].v, b \in DOMAIN e.v :
    Goals(TypeAt(j))[a] = Goals(TypeAt(i))[b] => sched[j].v[a] < e.v[b]
Within(c, d) == d - c <= MaxLag
LegalEvents(i, e) ==
  /\ IF i = caStart THEN e.at = 0 /\ e.pipe = "V0"
     ELSE Before(sched[i - 1], e) /\ Within(sched[i - 1].at, e.at)
  /\ \A a \in DOMAIN e.v :
       IF a = 1 THEN e.v[1] >= e.at /\ Within(e.at, e.v[1])
       ELSE e.v[a] > e.v[a - 1] /\ Within(e.v[a - 1], e.v[a])
  /\ SameFlagInOrder(i, e)
VectorEvents(i) == IF mode = "VECTOR" THEN [DOMAIN Goals(TypeAt(i)) -> 0 .. Cycles - 1] ELSE {<< >>}

(* The flags that the events of instruction i set in cycle c, and the      *)
(* words of the file.                                                      *)
FlagsOf(i, e, c) ==
  (IF e.at = c THEN {e.pipe} ELSE {}) \cup {Goals(TypeAt(i))[a] : a \in {b \in DOMAIN e.v : e.v[b] = c}}
FileWords == lead + Cycles \div WordCycles
Mark(w) == IF w > lead /\ (w - lead - 1) % BlockWords = 0 THEN 3 ELSE 0
Recorded(c) == IF c = 0 /\ ~firstSet THEN flags[c] \ {"V0"} ELSE flags[c]
WordAt(w) ==
  [k \in 1 .. WordCycles |-> IF w <= lead THEN {} ELSE Recorded((w - lead - 1) * WordCycles + k - 1)]

(***************************************************************************)
(* Reading the file.                                                       *)
(***************************************************************************)
(* The first word of the first block: the loop of parseNextCATraceRec ends *)
(* at a word that has the mark or whose predecessor has no upper bits, and *)
(* the first word counts as having such a predecessor.                     *)
FirstWord ==
  CHOOSE w \in 1 .. FileWords :
    LET last(k) == IF k = 1 THEN 0 ELSE Mark(k - 1)
        stop(k) == Mark(k) = 3 \/ last(k) = 0
    IN  stop(w) /\ \A k \in 1 .. w - 1 : ~stop(k)

(* Mutant of DataWord: the first bit is taken from the file.               *)
DataWordAsRead(k) == WordAt(caBufferIndex - BlockWords + k)

(* catr.data: the block that ends at caBufferIndex.  The first bit of the  *)
(* first block is set whatever the file says.                              *)
DataWord(k) ==
  LET w == WordAt(caBufferIndex - BlockWords + k)
  IN  IF blockRecNum = 0 /\ k = 1 THEN [w EXCEPT ![1] = @ \cup {"V0"}] ELSE w

(* Mutant of parseNextCATraceRec: the end of the file is not reported.     *)
parseNextSilently ==
  LET first == IF caBufferIndex = 0 THEN FirstWord ELSE caBufferIndex + 1
  IN  IF first + BlockWords - 1 > FileWords
        THEN UNCHANGED <<reader, status>>
        ELSE /\ caBufferIndex' = first + BlockWords - 1
             /\ blockRecNum' = IF caBufferIndex = 0 THEN 0 ELSE blockRecNum + 1
             /\ offset' = 0
             /\ UNCHANGED status

(* parseNextCATraceRec: the next block, or the end of the file.            *)
parseNextCATraceRec ==
  LET first == IF caBufferIndex = 0 THEN FirstWord ELSE caBufferIndex + 1
  IN  IF first + BlockWords - 1 > FileWords
        THEN /\ status' = "EOF"
             /\ UNCHANGED reader
        ELSE /\ caBufferIndex' = first + BlockWords - 1
             /\ blockRecNum' = IF caBufferIndex = 0 THEN 0 ELSE blockRecNum + 1
             /\ offset' = 0
             /\ UNCHANGED status

(* The address in the upper bits of the block is right if the block is one.*)
StartAddr(w) == IF Mark(w) = 3 THEN Path[caStart] ELSE 0

(***************************************************************************)
(* The queue.                                                              *)
(***************************************************************************)
NoDepth == [t \in VTypes |-> 0]
Empty == [record |-> {}, cycle |-> 0, depth |-> NoDepth]
Slots == 0 .. QSize - 1
(* Mutant of Up: an index runs past the end of the queue.                  *)
UpNoWrap(s, k) == s + k

(* The index k slots on.                                                   *)
Up(s, k) == (s + k) % QSize
(* The slots from s up to traceQIn.                                        *)
SlotsFrom(s) == [k \in 1 .. (traceQIn - s) % QSize |-> Up(s, k - 1)]
(* Mutant of roomQ: no slot stays free.                                    *)
roomQAll(in, out) == IF in = out THEN QSize ELSE (out - in) % QSize

roomQ(in, out) == IF in = out THEN QSize - 1 ELSE ((out - in) % QSize) - 1

(* The elements of a sequence at the positions in K, in their order.       *)
Place(K, k) == CHOOSE i \in K : Cardinality({j \in K : j <= i}) = k
At(s, K) == [k \in 1 .. Cardinality(K) |-> s[Place(K, k)]]

(* packQ moves the records that hold flags together.  When it has moved    *)
(* any, an empty slot remains behind the last one.                         *)
Full(s) == q[s].record # {}
packQ ==
  LET slots == SlotsFrom(traceQOut)
      held == At(slots, {k \in DOMAIN slots : Full(slots[k])})
      gap == Len(held) < Len(slots)
  IN  [q |-> [s \in Slots |->
                LET k == ((s - traceQOut) % QSize) + 1
                IN  IF k \in DOMAIN held THEN q[held[k]]
                    ELSE IF s \in {held[j] : j \in DOMAIN held} THEN [Empty EXCEPT !.cycle = q[s].cycle]
                    ELSE q[s]],
       in |-> IF gap THEN Up(traceQOut, Len(held) + 1) ELSE traceQIn]

(* addQ: an entry for each cycle of the word that has flags.               *)
Entries(word, t) ==
  At([k \in 1 .. WordCycles |-> [record |-> word[k], cycle |-> t + k - 1, depth |-> NoDepth]],
     {k \in 1 .. WordCycles : word[k] # {}})
addQ(word, t) ==
  LET p == IF roomQ(traceQIn, traceQOut) < WordCycles THEN packQ ELSE [q |-> q, in |-> traceQIn]
      e == Entries(word, t)
  IN  IF roomQ(p.in, traceQOut) < WordCycles
        THEN /\ status' = "ERR"
             /\ UNCHANGED queue
        ELSE /\ q' = [s \in Slots |->
                       LET k == ((s - p.in) % QSize) + 1 IN IF k \in DOMAIN e THEN e[k] ELSE p.q[s]]
             /\ traceQIn' = Up(p.in, Len(e))
             /\ UNCHANGED <<traceQOut, status>>

(***************************************************************************)
(* consume().                                                              *)
(***************************************************************************)
(* The next word of the block that has flags.                              *)
NextWords == {k \in offset + 1 .. BlockWords : \E j \in 1 .. WordCycles : DataWord(k)[j] # {}}
NextWord == CHOOSE k \in NextWords : \A j \in NextWords : k <= j

BlockStart == blockRecNum * WordCycles * BlockWords
(* parseNextVectorRecord: the index of the new data is taken before addQ   *)
(* packs the queue.  A search that has not begun starts there.             *)
ReadWord ==
  /\ offset' = NextWord
  /\ qStart' = traceQIn
  /\ addQ(DataWord(offset'), BlockStart + (offset' - 1) * WordCycles)
  /\ packed' = (packed \/ roomQ(traceQIn, traceQOut) < WordCycles)
  /\ depth0' = IF depth0 = << >> THEN q'[qStart'].depth ELSE depth0
  /\ UNCHANGED <<caBufferIndex, blockRecNum>>

Busy == goals # << >> /\ status = "OK"

ReadMore ==
  /\ Busy /\ mode = "VECTOR"
  /\ qStart = traceQIn
  /\ \/ NextWords # {} /\ ReadWord
     \/ NextWords = {} /\ parseNextCATraceRec /\ UNCHANGED <<queue, qStart, packed, depth0>>
  /\ UNCHANGED <<trace, state, sync, n, goals, got, shown, given>>

(* Mutant of Take: the counts are dropped.                                 *)
TakeUncounted(s, f, c) ==
  /\ q' = [q EXCEPT ![s].record = @ \ {f}]
  /\ given' = given \cup {<<f, q[s].cycle>>}
  /\ goals' = Tail(goals)
  /\ depth0' = << >>

(* The flag f of slot s goes to the instruction; c is the queue, counted.  *)
Take(s, f, c) ==
  /\ q' = [c EXCEPT ![s].record = @ \ {f}]
  /\ given' = given \cup {<<f, q[s].cycle>>}
  /\ goals' = Tail(goals)
  /\ depth0' = << >>

First(K) == CHOOSE k \in K : \A j \in K : k <= j

(* consumeCAPipe: the first entry with V0 or V1; the search for a vector   *)
(* flag begins at the same entry.                                          *)
consumeCAPipe ==
  LET slots == SlotsFrom(qStart)
      hits == {k \in DOMAIN slots : q[slots[k]].record \cap Pipes # {}}
      s == slots[First(hits)]
  IN  /\ Busy /\ mode = "VECTOR"
      /\ Head(goals) = "PIPE"
      /\ qStart # traceQIn
      /\ IF hits = {}
           THEN qStart' = traceQIn /\ UNCHANGED <<q, given, goals, depth0, got>>
           ELSE /\ Take(s, IF "V0" \in q[s].record THEN "V0" ELSE "V1", q)
                /\ qStart' = s
                /\ got' = Append(got, [cycle |-> q[s].cycle, depth |-> NoDepth])
      /\ UNCHANGED <<trace, traceQIn, traceQOut, reader, status, state, sync, n, shown, packed>>

(* consumeCAVector: the first entry with the flag; every entry passed      *)
(* counts one more instruction waiting there.                              *)
consumeCAVector ==
  LET slots == SlotsFrom(qStart)
      f == Head(goals)
      hits == {k \in DOMAIN slots : f \in q[slots[k]].record}
      last == IF hits = {} THEN Len(slots) ELSE First(hits)
      passed == {slots[k] : k \in 1 .. last}
      counted == [s \in Slots |-> IF s \in passed THEN [q[s] EXCEPT !.depth[f] = @ + 1] ELSE q[s]]
      d0 == IF depth0 = << >> THEN q[qStart].depth ELSE depth0
  IN  /\ Busy
      /\ f \in VTypes
      /\ qStart # traceQIn
      /\ qStart' = Up(slots[last], 1)
      /\ IF hits = {}
           THEN q' = counted /\ depth0' = d0 /\ UNCHANGED <<given, goals, got>>
           ELSE /\ Take(slots[last], f, counted)
                /\ got' = Append(got, [cycle |-> q[slots[last]].cycle, depth |-> [d0 EXCEPT ![f] = @ + 1]])
      /\ UNCHANGED <<trace, traceQIn, traceQOut, reader, status, state, sync, n, shown, packed>>

(* consumeCAInstruction: the next bit of an instruction trace.  Each cycle *)
(* has two, V0 before V1.                                                  *)
BitSet(b) ==
  LET c == b \div 2
  IN  (IF b % 2 = 0 THEN "V0" ELSE "V1") \in DataWord(c \div WordCycles + 1)[(c % WordCycles) + 1]
NextBits == {b \in offset .. 2 * WordCycles * BlockWords - 1 : BitSet(b)}
consumeCAInstruction ==
  /\ Busy /\ mode = "INSTRUCTION"
  /\ IF NextBits = {}
       THEN parseNextCATraceRec /\ UNCHANGED <<goals, got, given>>
       ELSE LET b == First(NextBits)
                c == BlockStart + b \div 2
            IN  /\ offset' = b + 1
                /\ got' = Append(got, [cycle |-> c, depth |-> NoDepth])
                /\ given' = given \cup {<<IF b % 2 = 0 THEN "V0" ELSE "V1", c>>}
                /\ goals' = Tail(goals)
                /\ UNCHANGED <<caBufferIndex, blockRecNum, status>>
  /\ UNCHANGED <<trace, queue, state, sync, n, qStart, depth0, shown, packed>>

(***************************************************************************)
(* NextInstruction.                                                        *)
(***************************************************************************)
Call(gs) ==
  /\ goals' = IF mode = "VECTOR" THEN <<"PIPE">> \o gs ELSE <<"PIPE">>
  /\ qStart' = traceQOut
  /\ got' = << >>
  /\ depth0' = << >>

Idle == goals = << >> /\ got = << >> /\ status = "OK"
NoCall == UNCHANGED <<search, queue, reader, status, given, packed>>

Init ==
  /\ mode \in Modes /\ caStart \in CaStarts /\ teStart \in TeStarts /\ lead \in Leads
  /\ firstSet \in (IF lead = 0 THEN BOOLEAN ELSE {TRUE})
  /\ flags = [c \in 0 .. Cycles - 1 |-> {}] /\ sched = [i \in {} |-> 0]
  /\ caBufferIndex = 0 /\ blockRecNum = 0 /\ offset = 0
  /\ q = [s \in Slots |-> Empty] /\ traceQIn = 0 /\ traceQOut = 0
  /\ status = "OK" /\ state = "HW"
  /\ caSyncAddr = NoAddress /\ savedAddr = NoAddress /\ skipped = 0 /\ syncCount = 0
  /\ n = teStart
  /\ goals = << >> /\ qStart = 0 /\ depth0 = << >> /\ got = << >>
  /\ shown = << >> /\ given = {} /\ packed = FALSE /\ rewound = FALSE /\ unaligned = FALSE

Execute ==
  /\ state = "HW"
  /\ LET i == caStart + Cardinality(DOMAIN sched)
     IN  /\ i <= Len(Path)
         /\ \E p \in Pipes, c \in 0 .. Cycles - 1, v \in VectorEvents(i) :
              LET e == [pipe |-> p, at |-> c, v |-> v]
              IN  /\ LegalEvents(i, e)
                  /\ sched' = [j \in DOMAIN sched \cup {i} |-> IF j = i THEN e ELSE sched[j]]
                  /\ flags' = [d \in DOMAIN flags |-> flags[d] \cup FlagsOf(i, e, d)]
  /\ UNCHANGED <<mode, caStart, teStart, lead, firstSet, state, sync, n, shown>> /\ NoCall

(* setCATraceFile.  The recording may have stopped before the program.     *)
setCATraceFile ==
  /\ state = "HW"
  /\ DOMAIN sched # {}
  /\ parseNextCATraceRec
  /\ state' = IF status' = "OK" THEN "SYNCCATE" ELSE "ERROR"
  /\ caSyncAddr' = StartAddr(FirstWord)
  /\ UNCHANGED <<trace, queue, savedAddr, skipped, syncCount, rewound, unaligned, n, search, shown, given, packed>>

CanSkip == skipped < MaxSkip /\ caSyncAddr \in DOMAIN Code
Ahead == nextCAAddr(caSyncAddr, savedAddr)

(* TRACE_STATE_SYNCCATE at the message that starts the instruction trace:  *)
(* the cycle accurate trace is run ahead to its address, every instruction *)
(* taken as a scalar one.                                                  *)
SyncSkip ==
  /\ state = "SYNCCATE" /\ Idle
  /\ caSyncAddr # Path[teStart]
  /\ CanSkip /\ Ahead.addr # NoAddress
  /\ caSyncAddr' = Ahead.addr /\ savedAddr' = Ahead.saved /\ skipped' = skipped + 1
  /\ Call(<< >>)
  /\ UNCHANGED <<trace, queue, reader, status, state, syncCount, rewound, unaligned, n, shown, given, packed>>

(* A message before it: most are handed out and change nothing; an invalid *)
(* one ends the trace, and after an error message resetTrace() goes on to  *)
(* look for the first sync as if there were no cycle accurate trace.       *)
SyncMessage ==
  /\ state = "SYNCCATE" /\ Idle /\ skipped = 0
  /\ \/ state' = "ERROR" /\ UNCHANGED unaligned
     \/ state' = "RUN" /\ unaligned' = TRUE
  /\ UNCHANGED <<trace, caSyncAddr, savedAddr, skipped, syncCount, rewound, n, shown>> /\ NoCall

SyncFound ==
  /\ state = "SYNCCATE" /\ Idle
  /\ caSyncAddr = Path[teStart]
  /\ state' = "RUN"
  /\ UNCHANGED <<trace, sync, n, shown>> /\ NoCall

(* The first block again.  Only the indexes of the queue are reset: what   *)
(* the records hold stays where it is.                                     *)
rewind ==
  /\ caBufferIndex' = FirstWord + BlockWords - 1 /\ blockRecNum' = 0 /\ offset' = 0
  /\ traceQIn' = 0 /\ traceQOut' = 0
  /\ given' = {}
  /\ UNCHANGED q

(* It cannot be: rewind() and let the instruction trace run up to the      *)
(* start of the cycle accurate one.                                        *)
SyncRewind ==
  /\ state = "SYNCCATE" /\ Idle
  /\ caSyncAddr # Path[teStart]
  /\ CanSkip => Ahead.addr = NoAddress
  /\ rewind
  /\ syncCount' = MaxRun /\ caSyncAddr' = StartAddr(FirstWord) /\ rewound' = TRUE
  /\ state' = "RUN"
  /\ UNCHANGED <<trace, savedAddr, skipped, unaligned, status, n, search, shown, packed>>

(* An instruction of the instruction trace.                                *)
Aligned == syncCount = 0 \/ caSyncAddr = Path[n]
Instruction ==
  /\ state = "RUN" /\ Idle
  /\ n <= Len(Path)
  /\ \/ /\ Aligned
        /\ syncCount' = 0
        /\ Call(Goals(TypeAt(n)))
        /\ UNCHANGED <<state, n>>
     \/ /\ ~Aligned
        /\ syncCount' = syncCount - 1
        /\ state' = IF syncCount = 1 THEN "ERROR" ELSE state
        /\ n' = IF syncCount = 1 THEN n ELSE n + 1
        /\ UNCHANGED search
  /\ UNCHANGED <<trace, queue, reader, status, caSyncAddr, savedAddr, skipped, rewound, unaligned, shown,
                 given, packed>>

(* The end of consume(): the empty entries at the front of the queue are   *)
(* dropped.                                                                *)
Return ==
  /\ goals = << >> /\ got # << >> /\ status = "OK"
  /\ LET slots == SlotsFrom(traceQOut)
         full == {k \in DOMAIN slots : Full(slots[k])}
     IN  traceQOut' = IF full = {} THEN traceQIn ELSE slots[First(full)]
  /\ got' = << >>
  /\ IF state = "RUN"
       THEN n' = n + 1 /\ shown' = Append(shown, [at |-> n, found |-> got])
       ELSE UNCHANGED <<n, shown>>
  /\ UNCHANGED <<trace, q, traceQIn, reader, status, state, sync, goals, qStart, depth0, given, packed>>

(* consume() failed, or the instruction trace has ended.                   *)
Stop ==
  /\ state \in {"SYNCCATE", "RUN"}
  /\ \/ status # "OK" /\ state' = IF status = "EOF" THEN "DONE" ELSE "ERROR"
     \/ state = "RUN" /\ Idle /\ n > Len(Path) /\ state' = "DONE"
  /\ UNCHANGED <<trace, sync, n, shown>> /\ NoCall

Next ==
  \/ Execute \/ setCATraceFile \/ SyncMessage \/ SyncSkip \/ SyncFound \/ SyncRewind \/ Instruction
  \/ consumeCAPipe \/ consumeCAVector \/ consumeCAInstruction \/ ReadMore \/ Return \/ Stop

Spec == Init /\ [][Next]_vars /\ WF_vars(Next)

(***************************************************************************)
(* Properties.                                                             *)
(***************************************************************************)
(* Every variable has its type; every index stays inside what it indexes.   *)
TypeOK ==
  /\ q \in [Slots -> [record : SUBSET (Pipes \cup VTypes), cycle : 0 .. Cycles - 1, depth : [VTypes -> Nat]]]
  /\ traceQIn \in Slots /\ traceQOut \in Slots /\ qStart \in Slots
  /\ caBufferIndex \in 0 .. FileWords /\ blockRecNum \in Nat
  /\ status \in {"OK", "EOF", "ERR"} /\ state \in {"HW", "SYNCCATE", "RUN", "DONE", "ERROR"}
  /\ skipped \in 0 .. MaxSkip /\ syncCount \in 0 .. MaxRun

(* The cycles whose words have been read into the queue, and their flags.  *)
CyclesRead == BlockStart + offset * WordCycles
FlagsRead == UNION {{<<f, c>> : f \in flags[c]} : c \in 0 .. CyclesRead - 1}
InQueue == {k \in DOMAIN SlotsFrom(traceQOut) : Full(SlotsFrom(traceQOut)[k])}

(* Circular indexes and packQ: the queue holds, in the order of their      *)
(* cycles, exactly the flags read and not yet given to an instruction.     *)
RestQueued ==
  mode = "VECTOR" /\ lead = 0 /\ caBufferIndex > 0 /\ status # "ERR" =>
    LET slots == SlotsFrom(traceQOut)
    IN  /\ UNION {{<<f, q[slots[k]].cycle>> : f \in q[slots[k]].record} : k \in InQueue} = FlagsRead \ given
        /\ \A j, k \in InQueue : j < k => q[slots[j]].cycle < q[slots[k]].cycle

(* It does so unless it is both rewound and packed.  The records rewind()  *)
(* leaves behind lie outside the queue, and only packQ makes a search      *)
(* start out there.                                                        *)
QueueHoldsRest == ~(packed /\ rewound) => RestQueued

(* nextCAAddr: the address the cycle accurate trace is run ahead to is the *)
(* one executed, over calls and returns too.                               *)
RunAheadRight ==
  state = "SYNCCATE" /\ lead = 0 /\ caStart + skipped <= Len(Path) => caSyncAddr = Path[caStart + skipped]

(* Which of two occurrences of an address is meant cannot be told from it. *)
(* Without an alignment the traces have to begin together.                 *)
On(i, j) == {Path[k] : k \in i .. j}
Alignable ==
  /\ unaligned => caStart = teStart
  /\ IF caStart <= teStart
       THEN /\ Path[teStart] \notin On(caStart, teStart - 1)
            /\ caStart < teStart => Path[caStart] \notin On(teStart, Len(Path))
       ELSE Path[teStart] \notin On(caStart, Len(Path)) /\ Path[caStart] \notin On(teStart, caStart - 1)
(* The instructions run ahead are scalar, as they are taken to be.         *)
ScalarRunAhead == mode = "VECTOR" => \A k \in caStart .. teStart - 1 : TypeAt(k) \notin VectorTypes

CyclesRight ==
  \A k \in DOMAIN shown :
    LET e == sched[shown[k].at]
    IN  [j \in DOMAIN shown[k].found |-> shown[k].found[j].cycle] = <<e.at>> \o e.v

(* The hazard of matching two traces by position: each instruction is      *)
(* given the cycles of its own events, however the flags of later ones     *)
(* overtake them and whether or not the first flag is in the file, as long *)
(* as the queue was never packed while a search was under way and no       *)
(* vector instruction was run ahead over.                                  *)
OwnCycles == lead = 0 /\ Alignable /\ ScalarRunAhead /\ ~packed => CyclesRight

(* What the user's guide says, of every trace that can be aligned: the     *)
(* cycle information is in sync with the instructions.  It is not when     *)
(* packQ moves the records behind the back of a search, nor when a vector  *)
(* instruction run ahead over leaves its flags in the queue.               *)
InSync == lead = 0 /\ Alignable => CyclesRight

(* parseNextCATraceRec "find start of first message (in case buffer        *)
(* wrapped)": the first block read begins with the mark.  It does not when *)
(* the file begins inside an overwritten block.                            *)
StartsAtMark == caBufferIndex > 0 => Mark(FirstWord) = 3

(* The depth of the queue reported with a vector instruction is the number *)
(* of vector instructions that had left the pipe, itself included, and had *)
(* not started.                                                            *)
Vector(i) == TypeAt(i) \in VectorTypes
DepthCounted ==
  lead = 0 /\ Alignable /\ ~packed /\ caStart >= teStart /\ mode = "VECTOR" =>
    \A k \in DOMAIN shown : Vector(shown[k].at) =>
      shown[k].found[2].depth["VISTART"] =
        Cardinality({i \in caStart .. shown[k].at : Vector(i) /\ sched[i].v[1] >= sched[shown[k].at].at})

(* consume() loops until it finds its flag: it always finds it or the end  *)
(* of the file.                                                            *)
Ends == <>(state \in {"DONE", "ERROR"})
=============================================================================
