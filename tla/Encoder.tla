------------------------------ MODULE Encoder ------------------------------
(***************************************************************************)
(* The trace encoder of each hart, the hardware that writes the messages   *)
(* the decoder reads.  It is not in the repository: it is modelled from    *)
(* what Trace::NextInstruction and nextAddr take each message to mean.     *)
(*                                                                         *)
(* A hart executes its program and reports what cannot be inferred from    *)
(* the image.  A branch trace (BTM) reports every taken branch and every   *)
(* indirect jump; a history trace (HTM) collects branch outcomes in a word *)
(* and reports an indirect jump only when the return stack does not        *)
(* predict it.  Bare metal, one image for all harts.                       *)
(***************************************************************************)
EXTENDS NextAddr

CONSTANTS
  Modes,         \* the trace modes, "BTM" and "HTM", the encoders may be set to
  Entry,         \* addresses where tracing may start
  JumpTargets,   \* addresses an indirect jump, trap or trap return may go to
  Handlers,      \* addresses of interrupt handlers
  MaxICnt,       \* largest i-cnt
  MaxHist,       \* number of outcomes the history word holds
  MaxPath        \* bound: instructions executed per hart

ASSUME EncoderAssumption ==
  /\ Modes \subseteq {"BTM", "HTM"}
  /\ Entry \cup JumpTargets \cup Handlers \subseteq Address \ {0}
  /\ MaxHist + 1 < HistBits

VARIABLES
  mode,          \* the mode of all encoders
  enc,           \* the state of each hart and its encoder
  path,          \* the instructions each hart has executed while traced
  queue          \* the trace file: messages written and not yet read

encVars == <<mode, enc, path, queue>>

HTM == mode = "HTM"
NoHistory == 1   \* the stop bit alone

EncInit ==
  /\ mode \in Modes
  /\ enc = [c \in Cores |-> [tracing |-> FALSE, pc |-> 0, stack |-> << >>, icnt |-> 0,
                             hist |-> NoHistory, faddr |-> 0, isr |-> FALSE]]
  /\ path = [c \in Cores |-> << >>]
  /\ queue = << >>

-----------------------------------------------------------------------------
(* The state of an encoder whose counts a message has just reported.       *)
Flushed(e) == [e EXCEPT !.icnt = 0, !.hist = NoHistory]

(* After a message with a full address the return stack starts anew.       *)
Synced(e, a) == [Flushed(e) EXCEPT !.faddr = a, !.pc = a, !.stack = << >>]

Write(m) == queue' = Append(queue, m)

Start(c) ==
  /\ ~enc[c].tracing /\ Len(path[c]) < MaxPath
  /\ \E a \in Entry :
       /\ enc' = [enc EXCEPT ![c] = [Synced(@, a) EXCEPT !.tracing = TRUE, !.isr = FALSE]]
       /\ Write([MessageOf("SYNC", c) EXCEPT !.addr = a])
  /\ UNCHANGED path

(* Tracing does not stop between an interrupt and the first instruction of *)
(* its handler: the decoder keeps enterISR over the end of a trace.        *)
Stop(c) ==
  /\ enc[c].tracing /\ ~enc[c].isr
  /\ enc' = [enc EXCEPT ![c].tracing = FALSE]
  /\ Write([MessageOf("CORRELATION", c) EXCEPT
              !.i_cnt = enc[c].icnt, !.cdf = IF HTM THEN 1 ELSE 0,
              !.history = IF HTM THEN enc[c].hist ELSE 0])
  /\ UNCHANGED path

(* A message with e's counts and with tcode t or, with sync, its variant.  *)
Report(t, c, e) == [MessageOf(t, c) EXCEPT !.i_cnt = e.icnt, !.history = IF HTM THEN e.hist ELSE 0]

(* An uninferable change of flow to n: e counts the instructions before it.*)
Indirect(c, e, n, b) ==
  \/ /\ Write([Report(IF HTM THEN "INDIRECTBRANCHHISTORY" ELSE "INDIRECT_BRANCH", c, e)
                 EXCEPT !.addr = Xor(e.faddr, n), !.b_type = b])
     /\ enc' = [enc EXCEPT ![c] = [Flushed(e) EXCEPT !.faddr = n, !.pc = n,
                                                     !.isr = (b = "EXCEPTION")]]
  \/ /\ Write([Report(IF HTM THEN "INDIRECTBRANCHHISTORY_WS" ELSE "INDIRECT_BRANCH_WS", c, e)
                 EXCEPT !.addr = n, !.b_type = b])
     /\ enc' = [enc EXCEPT ![c] = [Synced(e, n) EXCEPT !.isr = (b = "EXCEPTION")]]

(* Not reported: the decoder infers it.                                    *)
Silent(c, e, n) ==
  /\ enc' = [enc EXCEPT ![c] = [e EXCEPT !.pc = n]]
  /\ UNCHANGED queue

TakenBTM(c, e, n) ==
  \/ /\ Write(Report("DIRECT_BRANCH", c, e))
     /\ enc' = [enc EXCEPT ![c] = [Flushed(e) EXCEPT !.pc = n]]
  \/ /\ Write([Report("DIRECT_BRANCH_WS", c, e) EXCEPT !.addr = n])
     /\ enc' = [enc EXCEPT ![c] = Synced(e, n)]

-----------------------------------------------------------------------------
(* The instruction at the pc executes; e is the encoder with it counted.   *)
Executes(c, br) ==
  /\ enc[c].tracing /\ Len(path[c]) < MaxPath
  /\ Decodes(0, enc[c].pc)
  /\ enc[c].icnt + Inst(0, enc[c].pc).size <= MaxICnt
  /\ path' = [path EXCEPT ![c] =
                Append(@, [inst |-> enc[c].pc, br |-> br, isr |-> enc[c].isr])]

Counted(e, i) == [e EXCEPT !.icnt = @ + i.size, !.isr = FALSE,
                           !.stack = StackAfter(@, i, Fall(e.pc, i))]

ExecBranch(c) ==
  LET e == enc[c]
      i == Inst(0, e.pc)
      d == Counted(e, i)
  IN  /\ e.tracing /\ Decodes(0, e.pc) /\ i.type = "BRANCH"
      /\ HTM => OldestBit(e.hist) + 1 < MaxHist
      /\ \/ /\ Executes(c, "taken")
            /\ IF HTM THEN Silent(c, [d EXCEPT !.hist = 2 * @ + 1], Target(e.pc, i))
               ELSE TakenBTM(c, d, Target(e.pc, i))
         \/ /\ Executes(c, "notTaken")
            /\ Silent(c, [d EXCEPT !.hist = IF HTM THEN 2 * @ ELSE @], Fall(e.pc, i))

ExecDirect(c) ==
  LET e == enc[c]
      i == Inst(0, e.pc)
  IN  /\ e.tracing /\ Decodes(0, e.pc)
      /\ i.type \in {"JAL", "C_J", "C_JAL", "OTHER"}
      /\ CRFlag(i) = "call" => Len(e.stack) < StackSize
      /\ Executes(c, "none")
      /\ Silent(c, Counted(e, i), IF i.type = "OTHER" THEN Fall(e.pc, i) ELSE Target(e.pc, i))

(* A jump that the history encoder's return stack predicts, or that a      *)
(* branch trace takes for no jump at all.                                  *)
Predicted(e, i, n) ==
  IF HTM THEN CRFlag(i) \in {"return", "swap"} /\ Top(e.stack) = n
  ELSE CRFlag(i) \in {"none", "call"} /\ n = Fall(e.pc, i)

(* Where the jump i goes: a return usually, but not always, to the caller. *)
Goes(e, i) == JumpTargets \cup (IF CRFlag(i) \in {"return", "swap"} /\ e.stack # << >>
                                THEN {Head(e.stack)} ELSE {})

ExecIndirect(c) ==
  LET e == enc[c]
      i == Inst(0, e.pc)
      d == Counted(e, i)
  IN  /\ e.tracing /\ Decodes(0, e.pc)
      /\ i.type \in {"JALR", "C_JR", "C_JALR"}
      /\ CRFlag(i) = "call" => Len(e.stack) < StackSize
      /\ Executes(c, "none")
      /\ \E n \in Goes(e, i) :
           IF Predicted(e, i, n) THEN Silent(c, d, n) ELSE Indirect(c, d, n, "INDIRECT")

ExecTrap(c) ==
  LET e == enc[c]
      i == Inst(0, e.pc)
  IN  /\ e.tracing /\ Decodes(0, e.pc) /\ i.type \in {"TRAP", "XRET"}
      /\ Executes(c, "none")
      /\ \E n \in JumpTargets :
           Indirect(c, Counted(e, i), n, IF i.type = "TRAP" THEN "EXCEPTION" ELSE "INDIRECT")

Interrupt(c) ==
  /\ enc[c].tracing /\ Len(path[c]) < MaxPath
  /\ \E n \in Handlers : Indirect(c, enc[c], n, "EXCEPTION")
  /\ UNCHANGED path

-----------------------------------------------------------------------------
(* The i-cnt has no room for the next instruction.                         *)
ICntFull(c) ==
  LET e == enc[c]
  IN  /\ e.tracing /\ Decodes(0, e.pc) /\ e.icnt + Inst(0, e.pc).size > MaxICnt
      /\ IF HTM THEN /\ Write([MessageOf("RESOURCEFULL", c) EXCEPT !.rData = e.icnt])
                     /\ enc' = [enc EXCEPT ![c].icnt = 0]
                ELSE /\ Write([MessageOf("SYNC", c) EXCEPT !.i_cnt = e.icnt, !.addr = e.pc])
                     /\ enc' = [enc EXCEPT ![c] = Synced(e, e.pc)]
      /\ UNCHANGED path

(* The history word is full; equal outcomes may be sent as a count.        *)
HistoryFull(c) ==
  LET e == enc[c]
      n == OldestBit(e.hist) + 1
  IN  /\ e.tracing /\ HTM /\ n = MaxHist
      /\ \/ Write([MessageOf("RESOURCEFULL", c) EXCEPT !.rCode = 1, !.rData = e.hist])
         \/ /\ e.hist = 2^(n + 1) - 1
            /\ Write([MessageOf("RESOURCEFULL", c) EXCEPT !.rCode = 9, !.rData = n])
         \/ /\ e.hist = 2^n
            /\ Write([MessageOf("RESOURCEFULL", c) EXCEPT !.rCode = 8, !.rData = n])
      /\ enc' = [enc EXCEPT ![c].hist = NoHistory]
      /\ UNCHANGED path

(* A periodic synchronisation between two instructions.                    *)
PeriodicSync(c) ==
  LET e == enc[c]
  IN  /\ e.tracing /\ e.icnt > 0
      /\ Write([Report(IF HTM THEN "INDIRECTBRANCHHISTORY_WS" ELSE "SYNC", c, e)
                  EXCEPT !.addr = e.pc])
      /\ enc' = [enc EXCEPT ![c] = Synced(e, e.pc)]
      /\ UNCHANGED path

EncStep(c) ==
  /\ \/ Start(c) \/ Stop(c)
     \/ ExecBranch(c) \/ ExecDirect(c) \/ ExecIndirect(c) \/ ExecTrap(c) \/ Interrupt(c)
     \/ ICntFull(c) \/ HistoryFull(c) \/ PeriodicSync(c)
  /\ UNCHANGED mode
=============================================================================
