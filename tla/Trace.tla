------------------------------- MODULE Trace -------------------------------
(***************************************************************************)
(* Trace::NextInstruction: the state machine that turns trace messages of  *)
(* several harts into instructions.  A call of NextInstruction is a        *)
(* sequence of steps, one per turn of its for(;;) loop (and one per        *)
(* message read): Call, Read..., a step of the state of the current core,  *)
(* ..., and the step that returns.                                         *)
(*                                                                         *)
(* Modelled configuration: no cycle accurate trace (caTrace == nullptr),   *)
(* no CTF, event or perf converter; the caller asks for instruction,       *)
(* message and source.                                                     *)
(***************************************************************************)
EXTENDS NextAddr

CONSTANTS
  PidList,          \* the pids to decode; empty: all of them
  TolerateErrors,   \* setting tolerateErrors
  FilterControl,    \* eventFilterMask drops ICT control messages
  InitialTraceType, \* setting tType, or BTM
  Messages,         \* the messages the environment may deliver
  MaxReads          \* bound: messages delivered, bad ones included

ASSUME TraceAssumption ==
  /\ 0 \in Cores
  /\ PidList \subseteq Nat
  /\ TolerateErrors \in BOOLEAN /\ FilterControl \in BOOLEAN
  /\ InitialTraceType \in TraceTypes
  /\ MaxReads \in Nat

(* Only data acquisitions are consumed by the ITC print or perf decoder.   *)
ASSUME MessagesAssumption ==
  /\ Messages \subseteq Message
  /\ \A m \in Messages : m.itc => m.tcode = "DATA_ACQUISITION"

VARIABLES
  hart,                 \* the state kept per core
  traceType,
  status,               \* Trace::status
  readNewTraceMessage,
  currentCore,
  nm,                   \* the message in hand
  inCall,               \* a call of NextInstruction is running
  ret,                  \* what the last call returned
  out,                  \* what it handed to the caller
  reads, reported       \* messages read; messages handed out, printed,
                        \* filtered, or skipped as bad

vars == <<hart, traceType, status, readNewTraceMessage, currentCore, nm,
          inCall, ret, out, reads, reported>>

-----------------------------------------------------------------------------
States == {"GETFIRSTSYNCMSG", "GETNEXTMSG", "GETNEXTINSTRUCTION",
           "RETIREMESSAGE", "DONE", "ERROR"}
NoProcess == -1
UnknownPrv == 255

BareMetal == Processes[0] = -1

Hart ==
  [state : States,
   currentAddress : Address \cup {NoAddr}, lastFaddr : Address, lastTime : Time,
   enterISR : BOOLEAN, prevMsgWasSync : BOOLEAN,
   currentPid : Nat \cup {-1}, currentPrv : Nat,
   currentProcessIndex : ProcIndex \cup {NoProcess},
   counts : CountsType, stack : Seq(Address)]

(* Trace::configure *)
InitialHart ==
  [state |-> "GETFIRSTSYNCMSG",
   currentAddress |-> 0, lastFaddr |-> 0, lastTime |-> 0,
   enterISR |-> FALSE, prevMsgWasSync |-> FALSE,
   currentPid |-> IF BareMetal THEN 0 ELSE -1, currentPrv |-> UnknownPrv,
   currentProcessIndex |-> IF BareMetal THEN 0 ELSE NoProcess,
   counts |-> InitCounts, stack |-> << >>]

(***************************************************************************)
(* Trace::resetTrace(-1) on each hart, and resetTrace(core), which also    *)
(* empties the return stack.  Neither clears enterISR.                     *)
(***************************************************************************)
ResetAllHart(h) ==
  [InitialHart EXCEPT
     !.counts = resetCounts(h.counts),
     !.stack = h.stack,
     !.enterISR = h.enterISR,
     !.currentPrv = IF BareMetal THEN h.currentPrv ELSE UnknownPrv]

ResetHart(h) == [ResetAllHart(h) EXCEPT !.stack = << >>]

(***************************************************************************)
(* Trace::processPidPriv: which process, if any, a pid is decoded with.    *)
(***************************************************************************)
ProcessOf(pid) ==
  IF PidList # {} /\ pid \notin PidList THEN NoProcess
  ELSE IF BareMetal THEN 0
  ELSE IF \E i \in ProcIndex : Processes[i] = pid
  THEN CHOOSE i \in ProcIndex : /\ Processes[i] = pid
                                /\ \A j \in ProcIndex : Processes[j] = pid => i <= j
  ELSE NoProcess

processPidPriv(h, pid, prv) ==
  [h EXCEPT !.currentPid = pid, !.currentPrv = prv,
            !.currentProcessIndex = ProcessOf(pid)]

-----------------------------------------------------------------------------
(***************************************************************************)
(* Trace::processTraceMessage: pc, faddr, time and process of a hart after *)
(* a message.                                                              *)
(***************************************************************************)
OK(h)  == [rc |-> "OK", h |-> h]
Err(h) == [rc |-> "ERR", h |-> h]

Timed(h, m, full) ==
  IF m.ts = NoTs THEN h ELSE [h EXCEPT !.lastTime = processTS(full, @, m.ts)]

NotSync(h, m) == [Timed(h, m, FALSE) EXCEPT !.prevMsgWasSync = FALSE]

(* A compressed address means nothing until a full one has been seen.      *)
FullAddr(h, u) == IF h.lastFaddr # 0 THEN Xor(h.lastFaddr, u) ELSE 0

AtAddr(h, a) == [h EXCEPT !.lastFaddr = a, !.currentAddress = a]

ProcessSync(h, m) ==
  IF getCurrentCountType(h.counts) # "none" THEN Err(h)
  ELSE OK([AtAddr(Timed(h, m, TRUE), m.addr) EXCEPT
             !.stack = << >>, !.counts = resetCounts(@), !.prevMsgWasSync = TRUE])

ProcessOwnership(h, m) ==
  LET t == Timed(h, m, FALSE)
  IN  CASE m.tag \in {0, 3} -> OK([t EXCEPT !.currentPrv = m.prv])
        [] m.tag = 2 -> OK(processPidPriv(t, m.pid, m.prv))
        [] OTHER -> Err(t)

(***************************************************************************)
(* In-circuit trace messages.  An external trigger or watchpoint of an     *)
(* instruction trace (ckdf 0) has no i-cnt that says when it happened, so  *)
(* it leaves the pc alone.                                                 *)
(***************************************************************************)
ICTWellFormed(m) ==
  CASE m.cksrc \in {"EXT_TRIG", "WATCHPOINT", "INFERABLECALL", "CONTROL"} -> m.ckdf \in {0, 1}
    [] m.cksrc \in {"EXCEPTION", "INTERRUPT", "CONTEXT"} -> m.ckdf = 1
    [] m.cksrc = "PC_SAMPLE" -> m.ckdf = 0
    [] OTHER -> FALSE

FaddrOnly(m) == m.cksrc \in {"EXT_TRIG", "WATCHPOINT"} /\ m.ckdf = 0
NoAddress(m) == m.cksrc = "CONTROL" /\ m.ckdf = 0

(* h after an ICT message whose first address is a.                        *)
ICTAddr(h, m, a) ==
  CASE NoAddress(m) -> h
    [] FaddrOnly(m) -> [h EXCEPT !.lastFaddr = a]
    [] m.cksrc = "INFERABLECALL" /\ m.ckdf = 1 ->
         [h EXCEPT !.currentAddress = a,
                   !.lastFaddr = IF m.tcode = "INCIRCUITTRACE" /\ @ = 0 THEN 0
                                 ELSE Xor(a, m.ckdata1)]
    [] OTHER -> AtAddr(h, a)

(* The context message packs tag and pid into ckdata[1].                   *)
ICTContext(h, m) ==
  IF m.cksrc # "CONTEXT" THEN h
  ELSE CASE m.ckdata1 % 4 \in {0, 3} -> [h EXCEPT !.currentPrv = UnknownPrv]
         [] m.ckdata1 % 4 = 2 -> processPidPriv(h, m.ckdata1 \div 4, UnknownPrv)
         [] OTHER -> h

ProcessICT(h, m) ==
  LET t == NotSync(h, m)
  IN  IF ICTWellFormed(m) THEN OK(ICTContext(ICTAddr(t, m, FullAddr(t, m.addr)), m))
      ELSE Err(t)

ProcessICTWS(h, m) ==
  LET t == [Timed(h, m, TRUE) EXCEPT !.prevMsgWasSync = TRUE]
  IN  IF ICTWellFormed(m) THEN OK(ICTContext(ICTAddr(t, m, m.addr), m)) ELSE Err(t)

ProcessIndirect(h, m) == OK(AtAddr(NotSync(h, m), FullAddr(h, m.addr)))

processTraceMessage(h, m) ==
  LET branchLeft == getCurrentCountType(h.counts) \in BranchCounts
  IN  CASE m.tcode = "ERROR" -> OK(AtAddr(NotSync(h, m), 0))
        [] m.tcode = "DATA_ACQUISITION" -> OK(Timed(h, m, FALSE))
        [] m.tcode = "OWNERSHIP_TRACE" -> ProcessOwnership(h, m)
        [] m.tcode = "RESOURCEFULL" ->
             IF m.rCode # 0 /\ branchLeft THEN Err(h) ELSE OK(NotSync(h, m))
        [] m.tcode \in {"DIRECT_BRANCH", "CORRELATION"} -> OK(NotSync(h, m))
        [] m.tcode = "INDIRECT_BRANCH" -> ProcessIndirect(h, m)
        [] m.tcode = "INDIRECTBRANCHHISTORY" ->
             IF branchLeft THEN Err(h) ELSE ProcessIndirect(h, m)
        [] m.tcode \in SyncTCodes -> ProcessSync(h, m)
        [] m.tcode = "INCIRCUITTRACE" -> ProcessICT(h, m)
        [] m.tcode = "INCIRCUITTRACE_WS" -> ProcessICTWS(h, m)
        [] OTHER -> Err(h)

-----------------------------------------------------------------------------
(***************************************************************************)
(* Steps of a call.  h and m in the comments are the hart of currentCore   *)
(* and the message in hand.                                                *)
(***************************************************************************)
NoOut == [inst |-> NoAddr, cr |-> {}, br |-> "none", msg |-> FALSE, err |-> FALSE]

CRFlags == {"none", "call", "return", "swap", "interrupt", "exception", "exceptionReturn"}
BRFlags == {"none", "unknown", "taken", "notTaken"}
Out == [inst : Address \cup {NoAddr}, cr : SUBSET CRFlags, br : BRFlags,
        msg : BOOLEAN, err : BOOLEAN]

TypeOK ==
  /\ hart \in [Cores -> Hart]
  /\ traceType \in TraceTypes
  /\ status \in {"OK", "ERR", "EOF", "DONE"}
  /\ readNewTraceMessage \in BOOLEAN
  /\ currentCore \in Cores
  /\ nm \in Message
  /\ inCall \in BOOLEAN
  /\ ret \in {"OK", "ERR", "EOF", "DONE"}
  /\ out \in Out
  /\ reads \in Nat
  /\ reported \in Nat

Init ==
  /\ hart = [c \in Cores |-> InitialHart]
  /\ traceType = InitialTraceType
  /\ status = "OK" /\ readNewTraceMessage = TRUE /\ currentCore = 0
  /\ nm = MessageOf("ERROR", 0)
  /\ inCall = FALSE /\ ret = "OK" /\ out = NoOut
  /\ reads = 0 /\ reported = 0

Return(r) == inCall' = FALSE /\ ret' = r
SetHart(h) == hart' = [hart EXCEPT ![currentCore] = h]
InState(s) == inCall /\ ~readNewTraceMessage /\ hart[currentCore].state = s
Handling(s) == InState(s) /\ UNCHANGED traceType
Unread == UNCHANGED <<currentCore, nm, reads>>

(* A caller that ignored the end of the trace gets the same answer again.  *)
Call ==
  /\ ~inCall
  /\ out' = [NoOut EXCEPT !.err = out.err /\ status # "OK"]
  /\ IF status = "OK" THEN inCall' = TRUE /\ UNCHANGED ret ELSE Return(status)
  /\ UNCHANGED <<hart, traceType, status, readNewTraceMessage, currentCore, nm,
                 reads, reported>>

-----------------------------------------------------------------------------
(***************************************************************************)
(* The top of the loop: sfp->readNextTraceMsg delivers a message, or says  *)
(* end of file, bad message or error.                                      *)
(***************************************************************************)
Reading == inCall /\ readNewTraceMessage

(* A message that only a history trace contains.                           *)
SwitchToHTM(m) ==
  \/ m.tcode = "CORRELATION" /\ m.cdf = 1
  \/ m.tcode \in {"OWNERSHIP_TRACE", "RESOURCEFULL", "INDIRECTBRANCHHISTORY",
                  "INDIRECTBRANCHHISTORY_WS"}

(* Mutant of ReadMessage: the message is taken for the core of the last    *)
(* one.                                                                    *)
ReadMessageKeepsCore(m) ==
  /\ Reading
  /\ readNewTraceMessage' = FALSE
  /\ nm' = m
  /\ reads' = reads + 1
  /\ traceType' = IF traceType = "BTM" /\ SwitchToHTM(m) THEN "HTM" ELSE traceType
  /\ UNCHANGED <<currentCore, hart, status, inCall, ret, out, reported>>

ReadMessage(m) ==
  /\ Reading
  /\ readNewTraceMessage' = FALSE
  /\ currentCore' = m.core
  /\ nm' = IF BareMetal THEN m ELSE SignExtended(m)
  /\ reads' = reads + 1
  /\ IF m.tcode = "AUXACCESS_WRITE" /\ (~BareMetal \/ traceType = "BTM")
     THEN /\ hart' = [hart EXCEPT ![m.core].state = "ERROR"]
          /\ status' = "ERR" /\ Return("ERR")
          /\ UNCHANGED <<traceType, out, reported>>
     ELSE /\ traceType' = IF traceType = "BTM" /\ SwitchToHTM(m) THEN "HTM" ELSE traceType
          /\ UNCHANGED <<hart, status, inCall, ret, out, reported>>

ReadEOF ==
  /\ Reading
  /\ SetHart([hart[currentCore] EXCEPT !.state = "DONE"])
  /\ status' = "EOF" /\ Return("EOF")
  /\ UNCHANGED <<traceType, readNewTraceMessage, out, reported>> /\ Unread

(* A bad message resets every hart and the reader is asked again; without  *)
(* tolerance the call fails, but status stays OK.                          *)
ReadBadMessage ==
  /\ Reading
  /\ reads' = reads + 1 /\ reported' = reported + 1
  /\ out' = [out EXCEPT !.err = TRUE]
  /\ IF TolerateErrors
     THEN /\ hart' = [c \in Cores |-> ResetAllHart(hart[c])]
          /\ currentCore' = 0
          /\ UNCHANGED <<inCall, ret>>
     ELSE /\ SetHart([hart[currentCore] EXCEPT !.state = "ERROR"])
          /\ UNCHANGED currentCore
          /\ Return("ERR")
  /\ UNCHANGED <<traceType, status, readNewTraceMessage, nm>>

ReadError ==
  /\ Reading
  /\ SetHart([hart[currentCore] EXCEPT !.state = "ERROR"])
  /\ status' = "ERR" /\ Return("ERR")
  /\ UNCHANGED <<traceType, readNewTraceMessage, out, reported>> /\ Unread

-----------------------------------------------------------------------------
(* Mutant of Filtered: the filter drops error messages too.                *)
FilteredErrors(m) ==
  FilterControl /\ (m.tcode = "ERROR" \/ (m.tcode \in ICTTCodes /\ m.cksrc = "CONTROL"))

Filtered(m) == FilterControl /\ m.tcode \in ICTTCodes /\ m.cksrc = "CONTROL"

(* Handing the message out, unless it is filtered or printed.              *)
WithMsg(o, m) == IF Filtered(m) \/ m.itc THEN o ELSE [o EXCEPT !.msg = TRUE]

(* Hand out the message, keep h, ask for the next message.                 *)
Finish(h, o) ==
  /\ SetHart(h)
  /\ out' = WithMsg(o, nm) /\ reported' = reported + 1
  /\ readNewTraceMessage' = TRUE
  /\ Return("OK")
  /\ UNCHANGED status /\ Unread

(* Mutant of Fail: the bad message stays in hand.                          *)
FailKeepsMessage(h) ==
  /\ out' = [WithMsg(out, nm) EXCEPT !.err = TRUE]
  /\ reported' = reported + 1
  /\ SetHart(ResetHart(h)) /\ Return("OK")
  /\ UNCHANGED <<status, readNewTraceMessage>> /\ Unread

(* A message that cannot be right: resynchronise the hart, or give up.     *)
Fail(h) ==
  /\ out' = [WithMsg(out, nm) EXCEPT !.err = TRUE]
  /\ reported' = reported + 1
  /\ IF TolerateErrors
     THEN SetHart(ResetHart(h)) /\ readNewTraceMessage' = TRUE /\ Return("OK")
          /\ UNCHANGED status
     ELSE SetHart([h EXCEPT !.state = "ERROR"]) /\ status' = "ERR" /\ Return("ERR")
          /\ UNCHANGED readNewTraceMessage
  /\ Unread

(* An error no setting tolerates; the message is not handed out.           *)
Abort ==
  /\ SetHart([hart[currentCore] EXCEPT !.state = "ERROR"])
  /\ status' = "ERR" /\ Return("ERR")
  /\ UNCHANGED <<readNewTraceMessage, out, reported>> /\ Unread

(* Messages were lost: resetTrace(-1) after handing out the message.       *)
ResetAll ==
  /\ hart' = [c \in Cores |-> ResetAllHart(hart[c])]
  /\ currentCore' = 0
  /\ out' = WithMsg(out, nm) /\ reported' = reported + 1
  /\ readNewTraceMessage' = TRUE
  /\ Return("OK")
  /\ UNCHANGED <<status, nm, reads>>

(* Mutant of Goto: a new message is asked for whenever the state changes.  *)
GotoReads(h) ==
  /\ SetHart(h) /\ readNewTraceMessage' = TRUE
  /\ UNCHANGED <<status, inCall, ret, out, reported>> /\ Unread

(* The call goes on with hart h in another state.                          *)
Goto(h) ==
  /\ SetHart(h)
  /\ UNCHANGED <<status, readNewTraceMessage, inCall, ret, out, reported>> /\ Unread

(***************************************************************************)
(* Trace::getCRBRFlags, for an instruction shown because of an ICT message.*)
(***************************************************************************)
ICTFlag(m, i) ==
  CASE m.cksrc = "INFERABLECALL" -> IF i.type = "C_JALR" THEN "none" ELSE CRFlag(i)
    [] m.cksrc = "EXCEPTION" -> "exception"
    [] m.cksrc = "INTERRUPT" -> "interrupt"
    [] m.cksrc = "CONTEXT"   -> "swap"
    [] OTHER -> "none"

(* The instruction an ICT message points at, if there is one to show.      *)
ShowsInst(h, m) ==
  /\ ~Filtered(m) /\ ~NoAddress(m) /\ ~FaddrOnly(m)
  /\ h.currentProcessIndex # NoProcess
  /\ HasInst(h.currentProcessIndex, h.currentAddress)

WithICTInst(o, h, m) ==
  IF ShowsInst(h, m)
  THEN LET i == Inst(h.currentProcessIndex, h.currentAddress)
       IN  [o EXCEPT !.inst = h.currentAddress, !.cr = {ICTFlag(m, i)} \ {"none"},
                     !.br = IF m.cksrc = "INFERABLECALL" /\ i.type = "BRANCH"
                            THEN "taken" ELSE "none"]
  ELSE o

-----------------------------------------------------------------------------
(***************************************************************************)
(* State GETFIRSTSYNCMSG: nothing is decoded until a message with a full   *)
(* address arrives.                                                        *)
(***************************************************************************)
FirstSync ==
  /\ Handling("GETFIRSTSYNCMSG")
  /\ nm.tcode \in SyncTCodes
  /\ LET p == processTraceMessage(hart[currentCore], nm)
     IN  IF p.rc # "OK" THEN Fail(p.h)
         ELSE Finish([p.h EXCEPT !.counts = resetCounts(@), !.state = "GETNEXTMSG"], out)

FirstICTWS ==
  /\ Handling("GETFIRSTSYNCMSG")
  /\ nm.tcode = "INCIRCUITTRACE_WS"
  /\ LET p == processTraceMessage(hart[currentCore], nm)
         h == [p.h EXCEPT !.currentAddress = IF @ = 0 THEN p.h.lastFaddr ELSE @]
     IN  \/ p.rc # "OK" /\ Fail(p.h)
         \/ p.rc = "OK" /\ NoAddress(nm) /\ Finish(h, out)
         \/ /\ p.rc = "OK" /\ ~NoAddress(nm)
            /\ Finish([h EXCEPT !.counts = resetCounts(@), !.state = "GETNEXTMSG"],
                      WithICTInst(out, h, nm))

FirstOther ==
  /\ Handling("GETFIRSTSYNCMSG")
  /\ nm.tcode \notin SyncTCodes \cup {"INCIRCUITTRACE_WS", "ERROR"}
  /\ LET p == processTraceMessage(hart[currentCore], nm)
     IN  IF p.rc = "OK" THEN Finish(p.h, out) ELSE Fail(p.h)

FirstError ==
  /\ Handling("GETFIRSTSYNCMSG")
  /\ nm.tcode = "ERROR"
  /\ ResetAll

(***************************************************************************)
(* State GETNEXTMSG.  A message with counts is kept in hand and its counts *)
(* are loaded, if the process is one to decode; all others are retired at  *)
(* once.                                                                   *)
(***************************************************************************)
NextMsgCounts ==
  /\ Handling("GETNEXTMSG")
  /\ nm.tcode \in CountTCodes
  /\ hart[currentCore].currentProcessIndex # NoProcess
  /\ LET h == hart[currentCore]
         r == setCounts(h.counts, nm)
     IN  IF r.rc # "OK" THEN Fail([h EXCEPT !.counts = r.c])
         ELSE Goto([h EXCEPT !.counts = r.c, !.state = "GETNEXTINSTRUCTION"])

NextMsgNotDecoding ==
  /\ Handling("GETNEXTMSG")
  /\ nm.tcode \in CountTCodes
  /\ hart[currentCore].currentProcessIndex = NoProcess
  /\ LET p == processTraceMessage(hart[currentCore], nm)
     IN  IF p.rc = "OK" THEN Finish(p.h, out) ELSE Fail(p.h)

(* An inferable call at a word that does not decode ends the trace.        *)
NextMsgICT ==
  /\ Handling("GETNEXTMSG")
  /\ nm.tcode \in ICTTCodes
  /\ LET p == processTraceMessage(hart[currentCore], nm)
         h == p.h
     IN  IF p.rc # "OK" THEN Fail(h)
         ELSE IF /\ ShowsInst(h, nm) /\ nm.cksrc = "INFERABLECALL"
                 /\ Inst(h.currentProcessIndex, h.currentAddress).type = "BAD"
         THEN /\ SetHart(h)
              /\ out' = WithMsg(WithICTInst(out, h, nm), nm) /\ reported' = reported + 1
              /\ readNewTraceMessage' = TRUE
              /\ status' = "ERR" /\ Return("ERR")
              /\ Unread
         ELSE Finish(h, WithICTInst(out, h, nm))

NextMsgError ==
  /\ Handling("GETNEXTMSG")
  /\ nm.tcode = "ERROR"
  /\ ResetAll

NextMsgData ==
  /\ Handling("GETNEXTMSG")
  /\ nm.tcode = "DATA_ACQUISITION"
  /\ Finish(processTraceMessage(hart[currentCore], nm).h, out)

(* Mutant of AfterOwnership: the counts of the process left are kept.      *)
AfterOwnershipKeepsCounts(old, h) ==
  IF (old.currentProcessIndex # NoProcess) = (h.currentProcessIndex # NoProcess) THEN h
  ELSE [h EXCEPT !.state = "GETFIRSTSYNCMSG"]

(***************************************************************************)
(* A change of process.  When decoding stops the counts and the stack are  *)
(* dropped; when it starts, the pc is only known if the message before was *)
(* a sync.                                                                 *)
(***************************************************************************)
AfterOwnership(old, h) ==
  LET was == old.currentProcessIndex # NoProcess
      is  == h.currentProcessIndex # NoProcess
  IN  CASE was /\ is  -> h
        [] was /\ ~is -> [h EXCEPT !.counts = resetCounts(@), !.stack = << >>,
                                   !.state = "GETFIRSTSYNCMSG"]
        [] ~was /\ is /\ old.prevMsgWasSync -> h
        [] OTHER -> [h EXCEPT !.state = "GETFIRSTSYNCMSG"]

NextMsgOwnership ==
  /\ Handling("GETNEXTMSG")
  /\ nm.tcode = "OWNERSHIP_TRACE"
  /\ LET p == processTraceMessage(hart[currentCore], nm)
     IN  IF p.rc # "OK" THEN Fail(p.h)
         ELSE Finish(IF nm.tag = 2 THEN AfterOwnership(hart[currentCore], p.h) ELSE p.h, out)

NextMsgUnsupported ==
  /\ Handling("GETNEXTMSG")
  /\ nm.tcode = "AUXACCESS_WRITE"
  /\ Abort

(***************************************************************************)
(* State GETNEXTINSTRUCTION: one instruction per call while counts last.   *)
(***************************************************************************)
(* Mutant of CountsExpired: the state is not left.                         *)
CountsExpiredStays ==
  /\ Handling("GETNEXTINSTRUCTION")
  /\ getCurrentCountType(hart[currentCore].counts) = "none"
  /\ Goto(hart[currentCore])

CountsExpired ==
  /\ Handling("GETNEXTINSTRUCTION")
  /\ getCurrentCountType(hart[currentCore].counts) = "none"
  /\ Goto([hart[currentCore] EXCEPT !.state = "RETIREMESSAGE"])

CountsLeft ==
  /\ InState("GETNEXTINSTRUCTION")
  /\ getCurrentCountType(hart[currentCore].counts) # "none"

(* The pc is outside the image, or at a word that does not decode.         *)
NoInstruction ==
  /\ CountsLeft
  /\ UNCHANGED traceType
  /\ LET h == hart[currentCore]
     IN  IF h.currentProcessIndex = NoProcess
         THEN /\ SetHart([h EXCEPT !.state = "ERROR"])
              /\ Return("ERR")
              /\ UNCHANGED <<status, readNewTraceMessage, out, reported>> /\ Unread
         ELSE ~Decodes(h.currentProcessIndex, h.currentAddress) /\ Fail(h)

(* What nextAddr answers for the hart in hand; it has then changed counts, *)
(* stack and trace type, whether or not it found the next address.         *)
Executing ==
  /\ CountsLeft
  /\ hart[currentCore].currentProcessIndex # NoProcess
  /\ Decodes(hart[currentCore].currentProcessIndex, hart[currentCore].currentAddress)

Answer(ub) ==
  LET h == hart[currentCore]
  IN  nextAddr(h.currentProcessIndex, h.currentAddress, h.counts, h.stack, nm,
               traceType, ub)

Advanced(h, r) == [h EXCEPT !.counts = r.c, !.stack = r.stack]

(* A branch whose outcome only a later message tells: the instruction is   *)
(* not shown, and tried again with the next message.                       *)
Undecided(r) == r.rc = "OK" /\ r.pc = NoAddr /\ r.br = "unknown"

(* No next address although counts are left: no return address is stacked. *)
Lost(r) == r.pc = NoAddr /\ r.br # "unknown" /\ getCurrentCountType(r.c) # "none"

ExecuteUndecided(ub) ==
  /\ Executing /\ Undecided(Answer(ub))
  /\ Goto([Advanced(hart[currentCore], Answer(ub)) EXCEPT !.state = "RETIREMESSAGE"])
  /\ traceType' = Answer(ub).tt

ExecuteFails(ub) ==
  /\ Executing /\ (Answer(ub).rc # "OK" \/ Lost(Answer(ub)))
  /\ Fail(Advanced(hart[currentCore], Answer(ub)))
  /\ traceType' = Answer(ub).tt

Execute(ub) ==
  /\ Executing
  /\ LET h == hart[currentCore]
         r == Answer(ub)
         more == getCurrentCountType(r.c) # "none"
     IN  /\ r.rc = "OK" /\ ~Undecided(r) /\ ~Lost(r)
         /\ SetHart([Advanced(h, r) EXCEPT
                       !.currentAddress = r.pc, !.enterISR = FALSE,
                       !.state = IF more THEN @ ELSE "RETIREMESSAGE"])
         /\ out' = [out EXCEPT !.inst = h.currentAddress, !.br = r.br,
                               !.cr = ({r.cr} \ {"none"}) \cup
                                      (IF h.enterISR THEN {"interrupt"} ELSE {})]
         /\ IF more THEN Return("OK") ELSE UNCHANGED <<inCall, ret>>
         /\ traceType' = r.tt
  /\ UNCHANGED <<status, readNewTraceMessage, reported>> /\ Unread

(***************************************************************************)
(* State RETIREMESSAGE: the counts of the message in hand are used up, so  *)
(* its address says where the hart is.  Tracing ends with a correlation.   *)
(***************************************************************************)
RetireMessage ==
  /\ Handling("RETIREMESSAGE")
  /\ LET p == processTraceMessage(hart[currentCore], nm)
     IN  CASE nm.tcode \notin CountTCodes -> Abort
           [] nm.tcode \in CountTCodes /\ p.rc # "OK" -> Fail(p.h)
           [] nm.tcode = "CORRELATION" /\ p.rc = "OK" -> Finish(ResetHart(p.h), out)
           [] OTHER -> Finish([p.h EXCEPT !.enterISR = @ \/ nm.b_type = "EXCEPTION",
                                          !.state = "GETNEXTMSG"], out)

(* States DONE and ERROR: a message for a hart that was given up.          *)
GivenUp ==
  /\ inCall /\ ~readNewTraceMessage
  /\ hart[currentCore].state \in {"DONE", "ERROR"}
  /\ LET rc == IF hart[currentCore].state = "DONE" THEN "DONE" ELSE "ERR"
     IN  status' = rc /\ Return(rc)
  /\ UNCHANGED <<hart, traceType, readNewTraceMessage, out, reported>> /\ Unread

-----------------------------------------------------------------------------
Handle ==
  \/ FirstSync \/ FirstICTWS \/ FirstOther \/ FirstError
  \/ NextMsgCounts \/ NextMsgNotDecoding \/ NextMsgICT \/ NextMsgError
  \/ NextMsgData \/ NextMsgOwnership \/ NextMsgUnsupported
  \/ CountsExpired \/ NoInstruction
  \/ \E ub \in BOOLEAN : ExecuteUndecided(ub) \/ ExecuteFails(ub) \/ Execute(ub)
  \/ RetireMessage \/ GivenUp

Read ==
  \/ reads < MaxReads /\ \E m \in Messages : ReadMessage(m)
  \/ reads < MaxReads /\ ReadBadMessage
  \/ ReadEOF
  \/ ReadError

Next == Call \/ Read \/ Handle

Spec == Init /\ [][Next]_vars

(* A call of NextInstruction runs until it returns.                        *)
FairSpec == Spec /\ WF_vars(Read \/ Handle)

-----------------------------------------------------------------------------
(***************************************************************************)
(* Properties.                                                             *)
(***************************************************************************)
(* NextInstruction keeps one message in hand for all harts, and a hart may *)
(* still be executing it when the call returns.  While it is, it is the    *)
(* only such hart, it is the current core, the message in hand is its own  *)
(* and has counts, and no other message is read.                           *)
OneMessageInFlight ==
  status = "OK" =>
    \A c \in Cores :
      hart[c].state \in {"GETNEXTINSTRUCTION", "RETIREMESSAGE"} =>
        /\ c = currentCore /\ nm.core = c /\ nm.tcode \in CountTCodes
        /\ ~readNewTraceMessage
        /\ hart[c].currentProcessIndex # NoProcess

(* A hart takes no new message while the branch outcomes of an earlier one *)
(* are left, although resource full messages deliver histories and counts  *)
(* one by one and a branch may have to wait for the next message.  So      *)
(* setHistory and its like never refuse a count, getCurrentCountType never *)
(* hides one behind another, and no outcome is applied to a later branch.  *)
BranchCountsSpent ==
  \A c \in Cores : hart[c].state \in {"GETFIRSTSYNCMSG", "GETNEXTMSG", "RETIREMESSAGE"}
                     => ~BranchCountLeft(hart[c].counts)

(* Every message the reader delivered is dealt with exactly once: handed   *)
(* out, printed, filtered or counted as bad, except the one in hand.       *)
EveryMessageOnce ==
  status = "OK" => reads = reported + (IF readNewTraceMessage THEN 0 ELSE 1)

(* A hart waiting for its first sync has no counts left over, i-cnt        *)
(* included: they would make processTraceMessage refuse that sync.         *)
NoCountsWhileUnsynced ==
  \A c \in Cores : hart[c].state = "GETFIRSTSYNCMSG" =>
                     getCurrentCountType(hart[c].counts) = "none"

(* No hart loses its position silently: the call says there was an error,  *)
(* or hands out the message that explains it.                              *)
LossIsReported ==
  [][\A c \in Cores :
       /\ hart[c].state \in {"GETNEXTMSG", "GETNEXTINSTRUCTION", "RETIREMESSAGE"}
       /\ hart'[c].state \notin {"GETNEXTMSG", "GETNEXTINSTRUCTION", "RETIREMESSAGE"}
       => \/ out'.err
          \/ out'.msg /\ nm.tcode \in {"ERROR", "CORRELATION", "OWNERSHIP_TRACE"}
          \/ ret' # "OK"]_vars

(* The time of a hart never runs backwards, except that a reset forgets it;*)
(* processTS must recognise the wraps of the hart's timestamp counter.     *)
TimeNeverRunsBack ==
  [][\A c \in Cores : \/ hart'[c].lastTime >= hart[c].lastTime
                      \/ hart'[c].state = "GETFIRSTSYNCMSG" /\ hart'[c].lastTime = 0
                      \/ hart[c].lastTime + TsMod >= TimeMod]_vars

(* Every call of NextInstruction returns.                                  *)
CallReturns == inCall ~> ~inCall
=============================================================================
