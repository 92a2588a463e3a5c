--------------------------- MODULE PerfConverter ---------------------------
(***************************************************************************)
(* PerfConverter: the state machine that turns the ITC writes of the       *)
(* performance library into the lines of the .perf files.                  *)
(*                                                                         *)
(* A write is [size, data]: 32, 16 or 8 bits (the two low bits of the ITC  *)
(* address) on the performance channel of one core.  A 32-bit word holds   *)
(* 0 .. W - 1, so an address is hi * W + lo, with hi in 0 .. W - 1.  The   *)
(* state of a core is a record; out holds the lines written for it.  A     *)
(* counter mask is the set of its bits.                                    *)
(***************************************************************************)
EXTENDS Integers, Sequences

CONSTANTS
  W,                (* values of a 32-bit word *)
  Xor(_, _),        (* bitwise exclusive or *)
  MarkerValue,      (* PERF_MARKER_VAL, the word that starts a header *)
  MaskOf(_)         (* the counter mask a 32-bit word stands for *)

Cntrs == 0 .. 31
FuncEnter == 0
FuncExit == 1
Manual == 2
ISR == 3
CountTypes == {"Raw", "Delta", "DeltaXOR"}
(* The numbers of the count types as they are written.                     *)
CountTypeOf(d) == CASE d = 0 -> "Raw" [] d = 1 -> "Delta" [] d = 2 -> "DeltaXOR"
CountTypeCode(t) == CHOOSE d \in 0 .. 2 : CountTypeOf(d) = t

States == {"Sync", "GetCntType", "GetCntrMask", "GetCntrDef", "GetCntrCode", "GetCntrEventData",
           "GetCntrInfo", "GetCntrRecord", "GetAddr", "GetCallSite", "GetCnts", "Error"}

ConvInit ==
  [state |-> "Sync", cntType |-> "Raw", cntrMask |-> {}, index |-> 0, pending |-> FALSE, low |-> 0,
   recordType |-> 0, lastAddress |-> 0, cntrAddress |-> 0, lastCount |-> [i \in {} |-> 0], out |-> << >>]

(* Mutant of NextCntr: the next number, in the mask or not.                *)
NextNumber(mask, i) == i

(* The first counter of a mask from i on, 32 when there is none.           *)
NextCntr(mask, i) ==
  IF \E j \in mask : j >= i THEN CHOOSE j \in mask : j >= i /\ \A k \in mask : k >= i => j <= k ELSE 32

(***************************************************************************)
(* The lines written.                                                      *)
(***************************************************************************)
emitPerfAddr(c, pc) == [c EXCEPT !.out = Append(@, [line |-> "address", pc |-> pc])]
emitPerfFnEntry(c, fn, cs) == [c EXCEPT !.out = Append(@, [line |-> "enter", pc |-> fn, cs |-> cs])]
emitPerfFnExit(c, fn, cs) == [c EXCEPT !.out = Append(@, [line |-> "exit", pc |-> fn, cs |-> cs])]
emitPerfCntr(c, v) ==
  [c EXCEPT !.out = Append(@, [line |-> "count", pc |-> c.cntrAddress, index |-> c.index, value |-> v])]
(* The count type and the mask go to the combined file only.               *)
emitPerfCntType(c) == [c EXCEPT !.out = Append(@, [line |-> "type", type |-> c.cntType])]
emitPerfCntrMask(c) == [c EXCEPT !.out = Append(@, [line |-> "mask", mask |-> c.cntrMask])]
emitPerfCntrDef(c) == [c EXCEPT !.out = Append(@, [line |-> "def", index |-> c.index])]

(***************************************************************************)
(* One operator per state: the state after a write, and whether the write  *)
(* was consumed or is to be looked at again in the new state.              *)
(***************************************************************************)
Consumed(c) == [conv |-> c, consumed |-> TRUE]
Again(c) == [conv |-> c, consumed |-> FALSE]
To(c, s) == [c EXCEPT !.state = s]

GetSync(c, w) ==
  Consumed(IF w.data = MarkerValue
             THEN [c EXCEPT !.state = "GetCntType", !.lastAddress = 0, !.cntrAddress = 0] ELSE c)

GetCntType(c, w) ==
  IF w.size = 8 /\ w.data \in 0 .. 2
    THEN Consumed(emitPerfCntType([c EXCEPT !.cntType = CountTypeOf(w.data), !.state = "GetCntrMask"]))
    ELSE Again(To(c, "Sync"))

GetCntrMask(c, w) ==
  IF w.size # 32 THEN Again(To(c, "Sync"))
  ELSE LET m == MaskOf(w.data)
           d == emitPerfCntrMask([c EXCEPT !.cntrMask = m])
       IN  Consumed(
             IF m = {} THEN To(d, "GetCntrRecord")
             ELSE [d EXCEPT !.state = "GetCntrDef", !.index = NextCntr(m, 0),
                            !.lastCount = IF c.cntType = "DeltaXOR" /\ DOMAIN @ = {}
                                            THEN [i \in Cntrs |-> 0] ELSE @])

GetCntrDef(c, w) ==
  Consumed(To(c, CASE w.data \in {0, 1} -> "GetCntrCode" [] w.data = 2 -> "GetCntrEventData"
                   [] OTHER -> "Error"))

GetCntrCode(c, w) == Consumed(To(c, "GetCntrInfo"))

GetCntrEventData(c, w) ==
  Consumed(IF c.pending THEN [c EXCEPT !.pending = FALSE, !.state = "GetCntrInfo"]
           ELSE [c EXCEPT !.pending = TRUE, !.low = w.data])

GetCntrInfo(c, w) ==
  LET i == NextCntr(c.cntrMask, c.index + 1)
  IN  Consumed([emitPerfCntrDef(c) EXCEPT
                  !.index = i, !.state = IF i > 31 THEN "GetCntrRecord" ELSE "GetCntrDef"])

GetCntrRecord(c, w) ==
  Consumed(IF w.size = 8 THEN [c EXCEPT !.recordType = w.data, !.pending = FALSE, !.state = "GetAddr"]
           ELSE To(c, "Error"))

(* After the addresses of a record: its counts, if there are any.          *)
StartCnts(c) ==
  IF c.cntrMask = {} THEN To(c, "GetCntrRecord")
  ELSE [c EXCEPT !.index = NextCntr(c.cntrMask, 0), !.state = "GetCnts"]

(* The address a word completes; for DeltaXOR it is a difference.          *)
AddressOf(c, w) ==
  LET a == IF c.pending THEN w.data * W + c.low ELSE w.data
  IN  IF c.cntType = "DeltaXOR" THEN Xor(c.lastAddress, a) ELSE a

(* Mutant of FirstOfTwo: the second word is taken for a first one.         *)
FirstOfAny(c, w) == w.data % 2 = 1

(* Bit 0 of the first word says that the upper 32 bits follow.             *)
FirstOfTwo(c, w) == ~c.pending /\ w.data % 2 = 1
HoldLow(c, w) == Consumed([c EXCEPT !.low = w.data - 1, !.pending = TRUE])

GetAddr(c, w) ==
  LET a == AddressOf(c, w)
      d == [c EXCEPT !.lastAddress = a, !.pending = FALSE]
  IN  IF FirstOfTwo(c, w) THEN HoldLow(c, w)
      ELSE Consumed(IF c.recordType \in {FuncEnter, FuncExit} THEN To(d, "GetCallSite")
                    ELSE StartCnts(emitPerfAddr([d EXCEPT !.cntrAddress = a], a)))

GetCallSite(c, w) ==
  LET a == AddressOf(c, w)
      d == IF c.recordType = FuncEnter
             THEN [emitPerfFnEntry(c, c.lastAddress, a) EXCEPT !.cntrAddress = c.lastAddress]
             ELSE [emitPerfFnExit(c, c.lastAddress, a) EXCEPT !.cntrAddress = a]
  IN  IF FirstOfTwo(c, w) THEN HoldLow(c, w)
      ELSE Consumed(StartCnts([d EXCEPT !.lastAddress = a, !.pending = FALSE]))

(* Mutant of EmitPending: a count without upper bits is forgotten.         *)
EmitPendingHigh(c, high) ==
  [IF high = 0 THEN c ELSE emitPerfCntr(c, high * W + c.low) EXCEPT !.pending = FALSE]

(* The pending count with the given upper bits is written out.             *)
EmitPending(c, high) ==
  LET v == high * W + c.low
      x == Xor(c.lastCount[c.index], v)
  IN  [IF c.cntType = "DeltaXOR" THEN emitPerfCntr([c EXCEPT !.lastCount[c.index] = x], x)
       ELSE emitPerfCntr(c, v) EXCEPT !.pending = FALSE]

NextCount(c) ==
  LET i == NextCntr(c.cntrMask, c.index + 1)
  IN  [c EXCEPT !.index = i, !.state = IF i > 31 THEN "GetCntrRecord" ELSE @]

GetCnts(c, w) ==
  LET hold(d) == Consumed([d EXCEPT !.pending = TRUE, !.low = w.data])
  IN  CASE w.size = 32 /\ c.pending ->
             (LET d == NextCount(EmitPending(c, 0)) IN IF d.state = "GetCnts" THEN hold(d) ELSE Again(d))
        [] w.size = 32 /\ ~c.pending -> hold(c)
        [] w.size = 16 /\ c.pending -> Consumed(NextCount(EmitPending(c, w.data)))
        [] w.size = 16 /\ ~c.pending -> Consumed(To(c, "Error"))
        [] w.size = 8 -> Again(To(IF c.pending THEN EmitPending(c, 0) ELSE c, "GetCntrRecord"))
        [] OTHER -> Again(To(c, "Error"))

Dispatch(c, w) ==
  CASE c.state = "Sync" -> GetSync(c, w)
    [] c.state = "GetCntType" -> GetCntType(c, w)
    [] c.state = "GetCntrMask" -> GetCntrMask(c, w)
    [] c.state = "GetCntrDef" -> GetCntrDef(c, w)
    [] c.state = "GetCntrCode" -> GetCntrCode(c, w)
    [] c.state = "GetCntrEventData" -> GetCntrEventData(c, w)
    [] c.state = "GetCntrInfo" -> GetCntrInfo(c, w)
    [] c.state = "GetCntrRecord" -> GetCntrRecord(c, w)
    [] c.state = "GetAddr" -> GetAddr(c, w)
    [] c.state = "GetCallSite" -> GetCallSite(c, w)
    [] c.state = "GetCnts" -> GetCnts(c, w)
    [] c.state = "Error" -> Consumed(c)

(* A write that is not consumed is seen by one more state: Sync,           *)
(* GetCntrRecord and Error always end the loop.                            *)
processITCPerf(c, w) ==
  LET r == Dispatch(c, w) IN IF r.consumed THEN r.conv ELSE Dispatch(r.conv, w).conv
=============================================================================
