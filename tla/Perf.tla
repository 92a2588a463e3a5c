-------------------------------- MODULE Perf --------------------------------
(***************************************************************************)
(* The performance library of the target (sifive_bare_perf.c and           *)
(* sifive_linux_perf.c) writing to its ITC channel, and the decoder's      *)
(* PerfConverter reading what it wrote.                                    *)
(*                                                                         *)
(* One core is traced ("Currently only tracing a single core is            *)
(* supported", doc/sifive_perf.md:91).  On it run the program and, without *)
(* any lock, a second context: the timer interrupt of the bare metal       *)
(* library, or another thread of the Linux process.  A context that is in  *)
(* a library call has a list of steps left; each step writes one word,     *)
(* reads one counter, or both.  A write is converted as soon as it is made *)
(* (the trace keeps the order of the writes).  A hardware counter is moved *)
(* on when it is read, by less than its wrap value (a counter that wraps   *)
(* twice between two records cannot be told from one that wraps once).     *)
(***************************************************************************)
EXTENDS PerfConverter, SequencesExt

CONSTANTS
  Ports,          (* subset of {"bare", "linux"} *)
  Types,          (* the count types asked for *)
  CntrLists,      (* the event lists passed to the init function *)
  HwMask,         (* hardware counters, as a set of bit numbers *)
  CntrWrapVal,    (* cntrWrapVal: 2^size of each counter *)
  MaskWord(_),    (* the word a counter mask is written as *)
  Advances(_),    (* by how much a counter moves on between two reads *)
  Calls,          (* the instrumented calls: [type, fn, cs] *)
  TimerPCs,       (* addresses the second context reports *)
  H,              (* values of a 16-bit half word *)
  MaxCalls        (* bound: library calls after the init function *)

VARIABLES
  port,             (* which library is linked *)
  perfCountType,
  perfCntrMask,     (* perfCounterCPUPairing *)
  perfTraceEnabled,
  prevCntrVal,
  cntr,             (* the hardware counters *)
  todo,             (* the steps left in each context's library call *)
  conv,             (* the converter *)
  recorded,         (* history: what the calls were to record, in order *)
  headers,          (* history: calls of perfTraceOn *)
  mixed,            (* history: a call was made while another was under way *)
  calls

vars == <<port, perfCountType, perfCntrMask, perfTraceEnabled, prevCntrVal, cntr, todo, conv,
          recorded, headers, mixed, calls>>

Contexts == {"main", "other"}

(***************************************************************************)
(* The init functions.                                                     *)
(***************************************************************************)
(* perfInitCntrs: the three fixed counters keep their place, the others    *)
(* get the next index, if the hardware has a counter with the number of    *)
(* their place in the list.                                                *)
FixedIndex(e) == CASE e = "cycles" -> 0 [] e = "timestamp" -> 1 [] e = "instructions" -> 2
Fixed(e) == e \in {"cycles", "timestamp", "instructions"}
perfInitCntrs(list) ==
  LET fixed == {FixedIndex(list[i]) : i \in {j \in DOMAIN list : Fixed(list[j])}}
      raw == {j \in DOMAIN list : ~Fixed(list[j]) /\ j - 1 \in HwMask}
  IN  fixed \cup {3 + k : k \in 0 .. Cardinality(raw) - 1}

(* The library is initialised, tracing is off.                             *)
Init ==
  /\ port \in Ports
  /\ perfCountType \in Types
  /\ perfCntrMask \in {perfInitCntrs(l) : l \in CntrLists}
  /\ perfTraceEnabled = FALSE
  /\ prevCntrVal = [i \in perfCntrMask |-> 0]
  /\ cntr \in [perfCntrMask -> {0, 1}]
  /\ todo = [x \in Contexts |-> << >>]
  /\ conv = ConvInit
  /\ recorded = << >>
  /\ headers = 0
  /\ mixed = FALSE
  /\ calls = 0

(***************************************************************************)
(* The steps of a call.                                                    *)
(***************************************************************************)
Write(size, data) == [do |-> "write", size |-> size, data |-> data]
ReadCntr(i, pc) == [do |-> "count", index |-> i, pc |-> pc]
ReadInitial(i) == [do |-> "initial", index |-> i]

Ascending(S) == SetToSortSeq(S, <)

(* An address of more than 32 bits is written in two words, bit 0 of the   *)
(* first one set.                                                          *)
AddressWords(a) ==
  IF a \div W # 0 THEN <<Write(32, (a % W) + 1), Write(32, a \div W)>> ELSE <<Write(32, a)>>

(* perfEmitMarker: the definition of a fixed or cache event has one word   *)
(* of code, that of a raw event two words of event data.                   *)
DefWords(i) ==
  IF i < 3 THEN <<Write(32, 0), Write(32, 1), Write(32, 0)>>
  ELSE <<Write(32, 2), Write(32, 3), Write(32, 0), Write(32, 0)>>
perfEmitMarker ==
  <<Write(32, MarkerValue), Write(8, CountTypeCode(perfCountType)), Write(32, MaskWord(perfCntrMask))>>
    \o FlattenSeq([k \in DOMAIN Ascending(perfCntrMask) |-> DefWords(Ascending(perfCntrMask)[k])])

(* perfGetInitialCnts: the bare library starts DeltaXOR from 0, the Linux  *)
(* one from the counters.                                                  *)
perfGetInitialCnts ==
  [k \in DOMAIN Ascending(perfCntrMask) |-> ReadInitial(Ascending(perfCntrMask)[k])]

(* write_trace_record: the record type, the addresses, then the counters.  *)
RecordSteps(call) ==
  LET pc == IF call.type = FuncExit THEN call.cs ELSE call.fn
  IN  <<Write(8, call.type)>> \o AddressWords(call.fn)
        \o (IF call.type \in {FuncEnter, FuncExit} THEN AddressWords(call.cs) ELSE << >>)
        \o [k \in DOMAIN Ascending(perfCntrMask) |-> ReadCntr(Ascending(perfCntrMask)[k], pc)]

(* What the record of a call is to show.                                   *)
LineOf(call) ==
  CASE call.type = FuncEnter -> [line |-> "enter", pc |-> call.fn, cs |-> call.cs]
    [] call.type = FuncExit -> [line |-> "exit", pc |-> call.fn, cs |-> call.cs]
    [] OTHER -> [line |-> "address", pc |-> call.fn]

(***************************************************************************)
(* The value written for a counter.                                        *)
(***************************************************************************)
RawValue(new, old, i) == new
BareDelta(new, old, i) == IF new >= old THEN new - old ELSE new + CntrWrapVal[i] - old
LinuxDelta(new, old, i) == IF new > old THEN new - old ELSE new + CntrWrapVal[i] - old
BareXor(new, old, i) == Xor(IF new >= old THEN new ELSE new + CntrWrapVal[i], old)
LinuxXor(new, old, i) == Xor(IF new > old THEN new ELSE new + CntrWrapVal[i], old)

write_trace_record_fn(new, old, i) ==
  CASE perfCountType = "Raw" -> RawValue(new, old, i)
    [] perfCountType = "Delta" /\ port = "bare" -> BareDelta(new, old, i)
    [] perfCountType = "Delta" /\ port = "linux" -> LinuxDelta(new, old, i)
    [] perfCountType = "DeltaXOR" /\ port = "bare" -> BareXor(new, old, i)
    [] perfCountType = "DeltaXOR" /\ port = "linux" -> LinuxXor(new, old, i)

(***************************************************************************)
(* Actions.                                                                *)
(***************************************************************************)
Idle(x) == todo[x] = << >>
AllIdle == \A x \in Contexts : Idle(x)
(* An interrupt runs to its end; threads take turns.                       *)
MayRun(x) == port = "bare" /\ x = "main" => Idle("other")

Enter(x, steps) ==
  /\ calls < MaxCalls
  /\ calls' = calls + 1
  /\ Idle(x)
  /\ MayRun(x)
  /\ todo' = [todo EXCEPT ![x] = steps]
  /\ mixed' = (mixed \/ ~AllIdle)

(* perfTraceOn enables the records before it writes the header.            *)
perfTraceOn ==
  /\ Enter("main", perfEmitMarker \o perfGetInitialCnts)
  /\ perfTraceEnabled' = TRUE
  /\ headers' = headers + 1
  /\ UNCHANGED <<port, perfCountType, perfCntrMask, prevCntrVal, cntr, conv, recorded>>

perfTraceOff ==
  /\ calls < MaxCalls
  /\ calls' = calls + 1
  /\ Idle("main") /\ MayRun("main")
  /\ perfTraceEnabled
  /\ perfTraceEnabled' = FALSE
  /\ UNCHANGED <<port, perfCountType, perfCntrMask, prevCntrVal, cntr, todo, conv, recorded,
                 headers, mixed>>

(* perfWriteCntrs, __cyg_profile_func_enter and _exit of the program.      *)
Record(x, call) ==
  /\ perfTraceEnabled
  /\ Enter(x, RecordSteps(call))
  /\ recorded' = Append(recorded, LineOf(call))
  /\ UNCHANGED <<port, perfCountType, perfCntrMask, perfTraceEnabled, prevCntrVal, cntr, conv,
                 headers>>

Instrumented == \E call \in Calls : Record("main", call)

(* perfTimerHandler, or an instrumented call of another thread.            *)
Other ==
  \E pc \in TimerPCs : Record("other", [type |-> IF port = "bare" THEN ISR ELSE Manual, fn |-> pc, cs |-> 0])

(* The next step of a call is a write.                                     *)
WriteWord(x) ==
  /\ ~Idle(x) /\ MayRun(x)
  /\ Head(todo[x]).do = "write"
  /\ todo' = [todo EXCEPT ![x] = Tail(@)]
  /\ conv' = processITCPerf(conv, [size |-> Head(todo[x]).size, data |-> Head(todo[x]).data])
  /\ UNCHANGED <<port, perfCountType, perfCntrMask, perfTraceEnabled, prevCntrVal, cntr, recorded,
                 headers, mixed, calls>>

(* It reads counter i, which has advanced by d, and writes its low word;   *)
(* the upper 16 bits follow if any upper bit is set.                       *)
WriteCount(x, d) ==
  LET i == Head(todo[x]).index
      new == (cntr[i] + d) % CntrWrapVal[i]
      v == write_trace_record_fn(new, prevCntrVal[i], i)
  IN  /\ cntr' = [cntr EXCEPT ![i] = new]
      /\ prevCntrVal' = IF perfCountType = "Raw" THEN prevCntrVal ELSE [prevCntrVal EXCEPT ![i] = new]
      /\ conv' = processITCPerf(conv, [size |-> 32, data |-> v % W])
      /\ todo' = [todo EXCEPT ![x] =
                   (IF v \div W # 0 THEN <<Write(16, (v \div W) % H)>> ELSE << >>) \o Tail(@)]
      /\ recorded' = Append(recorded,
                       [line |-> "count", pc |-> Head(todo[x]).pc, index |-> i,
                        value |-> new, delta |-> d, wrapped |-> new < prevCntrVal[i]])

Count(x) ==
  /\ ~Idle(x) /\ MayRun(x)
  /\ Head(todo[x]).do = "count"
  /\ \E d \in Advances(Head(todo[x]).index) : WriteCount(x, d)
  /\ UNCHANGED <<port, perfCountType, perfCntrMask, perfTraceEnabled, headers, mixed, calls>>

ReadInitialCount(x) ==
  /\ ~Idle(x) /\ MayRun(x)
  /\ Head(todo[x]).do = "initial"
  /\ todo' = [todo EXCEPT ![x] = Tail(@)]
  /\ LET i == Head(todo[x]).index
     IN  prevCntrVal' = [prevCntrVal EXCEPT
                          ![i] = IF port = "linux" \/ perfCountType = "Delta" THEN cntr[i] ELSE 0]
  /\ UNCHANGED <<port, perfCountType, perfCntrMask, perfTraceEnabled, cntr, conv, recorded, headers,
                 mixed, calls>>

Step(x) == WriteWord(x) \/ Count(x) \/ ReadInitialCount(x)

Next == perfTraceOn \/ perfTraceOff \/ Instrumented \/ Other \/ \E x \in Contexts : Step(x)

Spec == Init /\ [][Next]_vars

(***************************************************************************)
(* Properties.                                                             *)
(***************************************************************************)
(* Every variable has its type; every index stays inside what it indexes.   *)
TypeOK ==
  /\ port \in {"bare", "linux"} /\ perfCountType \in CountTypes /\ perfCntrMask \subseteq Cntrs
  /\ perfTraceEnabled \in BOOLEAN /\ mixed \in BOOLEAN /\ headers \in 0 .. MaxCalls
  /\ prevCntrVal \in [perfCntrMask -> Nat] /\ cntr \in [perfCntrMask -> Nat]
  /\ conv.state \in States /\ conv.index \in 0 .. 32 /\ conv.pending \in BOOLEAN
  /\ conv.state \in {"GetCntrDef", "GetCntrCode", "GetCntrEventData", "GetCntrInfo", "GetCnts"} =>
       conv.index \in conv.cntrMask

(* The lines of records in the .perf file.                                 *)
shown == SelectSeq(conv.out, LAMBDA l : l.line \in {"address", "enter", "exit", "count"})

Counts == {k \in DOMAIN shown \cap DOMAIN recorded : recorded[k].line = "count"}

(* The lines shown are a beginning of those recorded, and each has its     *)
(* kind, its counter and, unless the trace is DeltaXOR, its addresses.     *)
SameLine(r, s) == r.line = s.line /\ (r.line = "count" => r.index = s.index)
SameAddresses(r, s) == r.pc = s.pc /\ (r.line \in {"enter", "exit"} => r.cs = s.cs)
LinesInOrder ==
  /\ Len(shown) <= Len(recorded)
  /\ \A k \in DOMAIN shown :
       SameLine(recorded[k], shown[k]) /\ (perfCountType # "DeltaXOR" => SameAddresses(recorded[k], shown[k]))

(* A count is shown as what the documentation says of its type: the value  *)
(* read, or the difference to the last one.                                *)
ShownAsRead(k) == shown[k].value = recorded[k].value
ShownAsDelta(k) == shown[k].value = recorded[k].delta
(* The counter of record k has wrapped since perfTraceOn.                  *)
WrappedBy(k) ==
  \E j \in 1 .. k : recorded[j].line = "count" /\ recorded[j].index = recorded[k].index /\ recorded[j].wrapped

(* processITCPerf reads the sizes of the writes to tell counts, upper      *)
(* halves and record types apart: what it prints is, record by record,     *)
(* address by address and count by count, what the library was called      *)
(* with and read from the counters, across 32-bit carries and wraps, as    *)
(* long as no call was made while another was writing.  Nothing is said    *)
(* here of what CountsAbsolute, DeltasAsCounted and AddressesAsRecorded    *)
(* find wrong: a Linux counter that stood still, DeltaXOR counts of the    *)
(* Linux library or after a wrap, and DeltaXOR addresses.                  *)
ShownAsRecorded ==
  ~mixed =>
    /\ LinesInOrder
    /\ \A k \in Counts :
         CASE perfCountType = "Raw" -> ShownAsRead(k)
           [] perfCountType = "Delta" -> (port = "linux" /\ recorded[k].delta = 0) \/ ShownAsDelta(k)
           [] perfCountType = "DeltaXOR" -> port = "linux" \/ WrappedBy(k) \/ ShownAsRead(k)

(* The manual of the decoder's files says that all counts are absolute,    *)
(* and the manual of the library that a counter may wrap once between two  *)
(* records: each count shown would be the value read from the counter.     *)
CountsAbsolute == ~mixed => \A k \in Counts : ShownAsRead(k)

(* The manual of the library says that a Delta count is the difference to  *)
(* the last write: each count shown would be that, also when it is none.   *)
DeltasAsCounted == ~mixed /\ perfCountType = "Delta" => \A k \in Counts : ShownAsDelta(k)

(* The manual of the library says that DeltaXOR addresses are written as   *)
(* differences to the last one: undone by the converter, each would be     *)
(* shown as the library was called with it.                                *)
AddressesAsRecorded ==
  ~mixed => \A k \in DOMAIN shown \cap DOMAIN recorded : SameAddresses(recorded[k], shown[k])

(* Between two calls every record made after a header is shown, but for    *)
(* the last count of the last one: the converter cannot know that it has   *)
(* no upper half before the next write.                                    *)
EveryRecordShown ==
  AllIdle =>
    \/ Len(shown) = Len(recorded)
    \/ /\ Len(shown) = Len(recorded) - 1
       /\ recorded[Len(recorded)].line = "count"
       /\ conv.pending

(* That holds with one header and as long as no call was made while        *)
(* another was writing; if the trace ends there, the last count is never   *)
(* printed.                                                                *)
OnlyLastCountWaits == ~mixed /\ headers <= 1 => EveryRecordShown
=============================================================================
