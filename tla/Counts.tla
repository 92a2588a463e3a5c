------------------------------- MODULE Counts -------------------------------
(***************************************************************************)
(* What a hart has left of the messages' instruction and branch counts     *)
(* (class Count) and its stack of return addresses (class AddrStack).      *)
(*                                                                         *)
(* A Counts record holds one hart's i_cnt, history, histBit, takenCount    *)
(* and notTakenCount.  i_cnt may be negative: a history carried by a       *)
(* resource-full message is walked before the i-cnt that covers it is read.*)
(***************************************************************************)
EXTENDS Nexus

CONSTANTS
  HistBits,     \* width of the history word (64)
  IntBits,      \* width of the int that masks it in consumeHistory (32)
  StackSize     \* capacity of a return stack (2048)

ASSUME CountsAssumption ==
  /\ HistBits \in Nat \ {0} /\ IntBits \in Nat \ {0}
  /\ StackSize \in Nat \ {0}

CountsType ==
  [i_cnt : Int, history : Nat, histBit : -1 .. HistBits - 2,
   takenCount : Nat, notTakenCount : Nat]

(* Count::Count *)
InitCounts == [i_cnt |-> 0, history |-> 0, histBit |-> -1,
               takenCount |-> 0, notTakenCount |-> 0]

(* Count::resetCounts; the history word itself is left as it was.          *)
resetCounts(c) == [InitCounts EXCEPT !.history = c.history]

(* Mutants of getCurrentCountType: off by one; i_cnt looked at first.      *)
CountTypeOffByOne(c) ==
  IF c.histBit >= 0 THEN "history"
  ELSE IF c.takenCount >= 0 THEN "taken"
  ELSE IF c.notTakenCount > 0 THEN "notTaken"
  ELSE IF c.i_cnt > 0 THEN "i_cnt"
  ELSE "none"

CountTypeICntFirst(c) ==
  IF c.i_cnt > 0 THEN "i_cnt"
  ELSE IF c.histBit >= 0 THEN "history"
  ELSE IF c.takenCount > 0 THEN "taken"
  ELSE IF c.notTakenCount > 0 THEN "notTaken"
  ELSE "none"

(* Count::getCurrentCountType: the kinds in their order of priority.       *)
getCurrentCountType(c) ==
  IF c.histBit >= 0 THEN "history"
  ELSE IF c.takenCount > 0 THEN "taken"
  ELSE IF c.notTakenCount > 0 THEN "notTaken"
  ELSE IF c.i_cnt > 0 THEN "i_cnt"
  ELSE "none"

BranchCounts == {"history", "taken", "notTaken"}

(***************************************************************************)
(* Count::setHistory, setTakenCount and setNotTakenCount refuse to add a   *)
(* branch count while another one is left.                                 *)
(***************************************************************************)
BranchCountLeft(c) == c.histBit >= 0 \/ c.takenCount # 0 \/ c.notTakenCount # 0

(***************************************************************************)
(* The highest set bit of a history word is the stop bit; the outcomes of  *)
(* the branches are the bits below it, the oldest one first.               *)
(***************************************************************************)
StopBits(h) == {i \in 0 .. HistBits - 1 : 2^i <= h /\ h < 2^(i + 1)}

OldestBit(h) == IF StopBits(h) = {} THEN -1
                ELSE (CHOOSE i \in StopBits(h) : TRUE) - 1

setHistory(c, hist) ==
  IF BranchCountLeft(c) THEN [rc |-> "ERR", c |-> c]
  ELSE [rc |-> "OK",
        c  |-> [c EXCEPT !.history = hist,
                         !.histBit = OldestBit(hist)]]

setTakenCount(c, n) ==
  IF BranchCountLeft(c) THEN [rc |-> "ERR", c |-> c]
  ELSE [rc |-> "OK", c |-> [c EXCEPT !.takenCount = n]]

setNotTakenCount(c, n) ==
  IF BranchCountLeft(c) THEN [rc |-> "ERR", c |-> c]
  ELSE [rc |-> "OK", c |-> [c EXCEPT !.notTakenCount = n]]

(* Mutant of setICnt: the i-cnt replaces what was left, or owed.           *)
SetICntReplaces(c, n) == [c EXCEPT !.i_cnt = n]

(* Count::setICnt *)
setICnt(c, n) == [c EXCEPT !.i_cnt = @ + n]

(***************************************************************************)
(* Count::setCounts for a message with counts.  The i-cnt is added first   *)
(* and stays added when the branch count is then refused.                  *)
(***************************************************************************)
setCounts(c, m) ==
  LET icnt == IF m.tcode = "RESOURCEFULL"
              THEN IF m.rCode = 0 THEN m.rData ELSE 0
              ELSE m.i_cnt
      hist == CASE m.tcode = "RESOURCEFULL" /\ m.rCode = 1 -> m.rData
                [] m.tcode = "CORRELATION" /\ m.cdf = 1 -> m.history
                [] m.tcode \in {"INDIRECTBRANCHHISTORY", "INDIRECTBRANCHHISTORY_WS"}
                     -> m.history
                [] OTHER -> 0
      full == m.tcode = "RESOURCEFULL"
      d    == setICnt(c, icnt)
  IN  CASE full /\ m.rCode \notin {0, 1, 8, 9} -> [rc |-> "ERR", c |-> c]
        [] full /\ m.rCode = 9 /\ m.rData # 0  -> setTakenCount(d, m.rData)
        [] full /\ m.rCode = 8 /\ m.rData # 0  -> setNotTakenCount(d, m.rData)
        [] hist # 0                            -> setHistory(d, hist)
        [] OTHER                               -> [rc |-> "OK", c |-> d]

(* Count::consumeICnt *)
consumeICnt(c, n) == [c EXCEPT !.i_cnt = @ - n]

(* Mutant of HistoryTaken: the stop bit is taken for the oldest outcome.   *)
HistoryTakenOffByOne(c, ub) ==
  IF c.histBit < IntBits - 1 THEN (c.history \div 2^(c.histBit + 1)) % 2 = 1 ELSE ub

(***************************************************************************)
(* Count::consumeHistory.  The bit is tested with the int 1 << histBit,    *)
(* whose value is not defined from the sign bit of an int upwards: there   *)
(* either answer can come out, and ub is the one that does.                *)
(***************************************************************************)
HistoryTaken(c, ub) ==
  IF c.histBit < IntBits - 1 THEN (c.history \div 2^c.histBit) % 2 = 1 ELSE ub

consumeHistory(c) == [c EXCEPT !.histBit = @ - 1]

(* Count::consumeTakenCount, consumeNotTakenCount *)
consumeTakenCount(c)    == [c EXCEPT !.takenCount = @ - 1]
consumeNotTakenCount(c) == [c EXCEPT !.notTakenCount = @ - 1]

-----------------------------------------------------------------------------
(***************************************************************************)
(* AddrStack.  A push on a full stack is dropped, a pop of an empty one    *)
(* gives NoAddr.  The head of the sequence is the top of the stack.        *)
(***************************************************************************)
Push(stack, a) == IF Len(stack) >= StackSize THEN stack ELSE <<a>> \o stack
Top(stack)     == IF stack = << >> THEN NoAddr ELSE Head(stack)
Pop(stack)     == IF stack = << >> THEN << >> ELSE Tail(stack)
=============================================================================
