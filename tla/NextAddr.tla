------------------------------ MODULE NextAddr ------------------------------
(***************************************************************************)
(* Trace::nextAddr: where a hart goes after the instruction at an address, *)
(* from the program image, the counts left, the return stack, the message  *)
(* in hand and the trace type.                                             *)
(***************************************************************************)
EXTENDS Counts

CONSTANTS
  Processes,    \* processes[i].pid for i in 0 .. numProcesses-1; -1 is bare metal
  Code,         \* Code[i]: the program image of process i, address -> instruction
  KCode,        \* the kernel image (class KMem)
  KStart        \* its lowest address; AddrMod when there is no kernel image

(***************************************************************************)
(* Instructions as decodeInstruction classifies them.  BRANCH stands for   *)
(* the eight conditional branches, TRAP for EBREAK and ECALL, XRET for the *)
(* returns from traps, OTHER for everything that falls through; BAD is a   *)
(* word that does not decode.                                              *)
(***************************************************************************)
InstTypes == {"JAL", "JALR", "BRANCH", "C_J", "C_JAL", "C_JR", "C_JALR",
              "TRAP", "XRET", "OTHER", "BAD"}
Instr == [type : InstTypes, size : {1, 2}, rd : 0 .. 31, rs1 : 0 .. 31, imm : Int]

ProcIndex == DOMAIN Processes

ASSUME ImageAssumption ==
  /\ 0 \in ProcIndex /\ ProcIndex \subseteq Nat
  /\ \A i \in ProcIndex : 0 .. i \subseteq ProcIndex
  /\ \A i \in ProcIndex : Processes[i] \in Nat \cup {-1}
  /\ DOMAIN Code = ProcIndex
  /\ \A i \in ProcIndex : /\ DOMAIN Code[i] \subseteq Address
                          /\ \A a \in DOMAIN Code[i] : Code[i][a] \in Instr
  /\ DOMAIN KCode \subseteq Address
  /\ \A a \in DOMAIN KCode : KCode[a] \in Instr
  /\ KStart \in 0 .. AddrMod

(* Trace::getInstructionByAddress looks in one of the two images.          *)
Image(p, a) == IF a >= KStart THEN KCode ELSE Code[p]
HasInst(p, a) == a \in DOMAIN Image(p, a)
Inst(p, a) == Image(p, a)[a]

(* getInstructionByAddress and decodeInstruction both succeed at a.        *)
Decodes(p, a) == HasInst(p, a) /\ Inst(p, a).type # "BAD"

Link(r) == r \in {1, 5}
Fall(a, i)   == (a + i.size) % AddrMod
Target(a, i) == (a + i.imm) % AddrMod

(***************************************************************************)
(* What a jump does to the return stack: the crFlag that nextAddr reports. *)
(***************************************************************************)
CRFlag(i) ==
  CASE i.type \in {"JAL", "C_JAL"} -> IF Link(i.rd) THEN "call" ELSE "none"
    [] i.type = "JALR" /\ Link(i.rd) ->
         IF Link(i.rs1) /\ i.rd # i.rs1 THEN "swap" ELSE "call"
    [] i.type \in {"JALR", "C_JR"} -> IF Link(i.rs1) THEN "return" ELSE "none"
    [] i.type = "C_JALR" -> IF i.rs1 = 5 THEN "swap" ELSE "call"
    [] i.type = "TRAP"   -> "exception"
    [] i.type = "XRET"   -> "exceptionReturn"
    [] OTHER -> "none"

StackAfter(stack, i, link) ==
  CASE CRFlag(i) = "call"   -> Push(stack, link)
    [] CRFlag(i) = "swap"   -> Push(Pop(stack), link)
    [] CRFlag(i) = "return" -> Pop(stack)
    [] OTHER -> stack

TraceTypes == {"BTM", "HTM", "HTMNOOPT", "EVENT", "OTHER"}

(***************************************************************************)
(* A return or swap with more i-cnt left than its own size was not         *)
(* reported by a message, so the trace must be a history trace.            *)
(***************************************************************************)
DetectHTM(tt, i, c) ==
  IF tt = "BTM" /\ CRFlag(i) \in {"return", "swap"} /\ c.i_cnt > i.size
  THEN "HTM" ELSE tt

(* Target of JALR, C_JR and C_JALR under the trace type tt.                *)
IndirectTarget(tt, a, i, c, stack) ==
  CASE tt = "HTMNOOPT" -> NoAddr
    [] tt = "BTM" -> IF c.i_cnt > i.size THEN Fall(a, i) ELSE NoAddr
    [] OTHER -> IF CRFlag(i) \in {"return", "swap"} THEN Top(stack) ELSE NoAddr

(***************************************************************************)
(* Conditional branches.  Each answer holds the counts after the branch    *)
(* outcome is taken from them, but before the i-cnt is consumed.           *)
(***************************************************************************)
Went(taken, a, i, c) ==
  [rc |-> "OK", pc |-> IF taken THEN Target(a, i) ELSE Fall(a, i), c |-> c,
   br |-> IF taken THEN "taken" ELSE "notTaken"]

(* No history and just an i-cnt left: only the address of an indirect      *)
(* branch history with sync can tell; otherwise wait for more messages.    *)
UnreportedBranch(a, i, c, m) ==
  IF c.i_cnt = i.size /\ m.tcode = "INDIRECTBRANCHHISTORY_WS"
  THEN IF Fall(a, i) \in {m.addr, Target(a, i)} THEN Went(FALSE, a, i, c)
       ELSE IF m.addr = Target(a, i) THEN Went(TRUE, a, i, c)
       ELSE [rc |-> "OK", pc |-> m.addr, c |-> c, br |-> "unknown"]
  ELSE [rc |-> "OK", pc |-> NoAddr, c |-> c, br |-> "unknown"]

HTMBranch(a, i, c, m, ub) ==
  CASE getCurrentCountType(c) = "history"  -> Went(HistoryTaken(c, ub), a, i, consumeHistory(c))
    [] getCurrentCountType(c) = "taken"    -> Went(TRUE, a, i, consumeTakenCount(c))
    [] getCurrentCountType(c) = "notTaken" -> Went(FALSE, a, i, consumeNotTakenCount(c))
    [] getCurrentCountType(c) = "i_cnt"    -> UnreportedBranch(a, i, c, m)
    [] OTHER -> [rc |-> "ERR", pc |-> NoAddr, c |-> c, br |-> "none"]

BTMBranch(a, i, c, m) ==
  Went(c.i_cnt <= i.size /\ m.tcode \in {"DIRECT_BRANCH", "DIRECT_BRANCH_WS"}, a, i, c)

Branch(tt, a, i, c, m, ub) ==
  CASE tt \in {"HTM", "HTMNOOPT", "EVENT"} -> HTMBranch(a, i, c, m, ub)
    [] tt = "BTM" -> BTMBranch(a, i, c, m)
    [] OTHER -> [rc |-> "ERR", pc |-> NoAddr, c |-> c, br |-> "none"]

(***************************************************************************)
(* Trace::nextAddr(core,addr,pc,nm,crFlag,brFlag) for an instruction that  *)
(* decodes.  The i-cnt of the instruction is consumed unless it is a       *)
(* branch whose outcome is not known yet, which will be tried again.       *)
(***************************************************************************)
nextAddr(p, a, c, stack, m, tt, ub) ==
  LET i   == Inst(p, a)
      tt2 == IF i.type \in {"JALR", "C_JR", "C_JALR"} THEN DetectHTM(tt, i, c) ELSE tt
      r   == CASE i.type = "BRANCH" -> Branch(tt, a, i, c, m, ub)
               [] i.type \in {"JAL", "C_J", "C_JAL"} ->
                    [rc |-> "OK", pc |-> Target(a, i), c |-> c, br |-> "none"]
               [] i.type \in {"JALR", "C_JR", "C_JALR"} ->
                    [rc |-> "OK", pc |-> IndirectTarget(tt2, a, i, c, stack), c |-> c,
                     br |-> "none"]
               [] i.type \in {"TRAP", "XRET"} ->
                    [rc |-> "OK", pc |-> NoAddr, c |-> c, br |-> "none"]
               [] OTHER -> [rc |-> "OK", pc |-> Fall(a, i), c |-> c, br |-> "none"]
  IN  [rc |-> r.rc, pc |-> r.pc, br |-> r.br, tt |-> tt2, cr |-> CRFlag(i),
       stack |-> StackAfter(stack, i, Fall(a, i)),
       c |-> IF r.br = "unknown" \/ r.rc # "OK" THEN r.c ELSE consumeICnt(r.c, i.size)]
=============================================================================
