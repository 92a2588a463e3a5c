---------------------------- MODULE TraceProofs ----------------------------
(***************************************************************************)
(* Proofs about Trace, for every program image, every set of cores and     *)
(* messages, and any number of messages.                                   *)
(***************************************************************************)
EXTENDS Trace, TLAPS

(***************************************************************************)
(* What the helpers return.                                                *)
(***************************************************************************)
(* processTS answers with a time.                                          *)
LEMMA TimeType ==
  ASSUME NEW full \in BOOLEAN, NEW last \in Time, NEW ts \in 0 .. TsMod - 1
  PROVE  processTS(full, last, ts) \in Time
<1> DEFINE t == IF full THEN (ts + (last \div TsMod) * TsMod) % TimeMod
                ELSE IF last # 0 THEN Xor(last, ts) ELSE 0
<1>1. ts \in Time /\ TimeMod \in Nat \ {0} /\ TsMod \in Nat \ {0}
  BY NumbersAssumption DEF Time
<1>2. ts + (last \div TsMod) * TsMod \in Int
  BY <1>1 DEF Time
<1>3. \A x \in Int : x % TimeMod \in Time
  BY <1>1 DEF Time
<1>4. t \in Time
  BY <1>1, <1>2, <1>3, XorAssumption DEF Time
<1>5. t + TsMod \in Int
  BY <1>1, <1>4 DEF Time
<1> HIDE DEF t
<1>6. (IF t < last THEN (t + TsMod) % TimeMod ELSE t) \in Time
  BY <1>3, <1>4, <1>5
<1> QED
  BY <1>6 DEF processTS, t

(* The counts stay counts, whatever message they are set from.             *)
LEMMA OldestBitType ==
  ASSUME NEW n \in Nat
  PROVE  OldestBit(n) \in -1 .. HistBits - 2
<1>1. CASE StopBits(n) = {}
  BY <1>1, CountsAssumption DEF OldestBit
<1>2. CASE StopBits(n) # {}
  <2>1. (CHOOSE i \in StopBits(n) : TRUE) \in StopBits(n)
    BY <1>2
  <2>2. (CHOOSE i \in StopBits(n) : TRUE) \in 0 .. HistBits - 1
    BY <2>1 DEF StopBits
  <2> QED
    BY <1>2, <2>2, CountsAssumption DEF OldestBit
<1> QED
  BY <1>1, <1>2

(* Nothing is left of the branch outcomes.                                 *)
NoBranchCount(c) == ~BranchCountLeft(c)

(* When the current count is the i-cnt, or none, no branch count is left.  *)
LEMMA SpentType ==
  ASSUME NEW c \in CountsType, getCurrentCountType(c) \in {"i_cnt", "none"}
  PROVE  NoBranchCount(c)
BY DEF NoBranchCount, BranchCountLeft, getCurrentCountType, CountsType

(* resetCounts leaves well-typed counts and no branch count.               *)
LEMMA ResetCountsType ==
  ASSUME NEW c \in CountsType
  PROVE  resetCounts(c) \in CountsType /\ NoBranchCount(resetCounts(c))
<1>1. -1 \in -1 .. HistBits - 2 /\ c.history \in Nat
  BY CountsAssumption DEF CountsType
<1>2. resetCounts(c) \in CountsType
  BY <1>1 DEF resetCounts, InitCounts, CountsType
<1>3. NoBranchCount(resetCounts(c))
  BY DEF resetCounts, InitCounts, NoBranchCount, BranchCountLeft
<1> QED
  BY <1>2, <1>3

(* Count::setCounts answers with counts, also when it refuses one.         *)
LEMMA SetCountsType ==
  ASSUME NEW c \in CountsType, NEW m \in Message
  PROVE  setCounts(c, m).c \in CountsType
<1>1. \A n \in Nat : setICnt(c, n) \in CountsType
  BY DEF setICnt, CountsType
<1>2. ASSUME NEW d \in CountsType, NEW n \in Nat,
             NEW r \in {setHistory(d, n), setTakenCount(d, n), setNotTakenCount(d, n)}
      PROVE  r.c \in CountsType
  <2>1. CASE r = setHistory(d, n)
    BY <2>1, OldestBitType DEF setHistory, CountsType
  <2>2. CASE r = setTakenCount(d, n)
    BY <2>2 DEF setTakenCount, CountsType
  <2>3. CASE r = setNotTakenCount(d, n)
    BY <2>3 DEF setNotTakenCount, CountsType
  <2> QED
    BY <2>1, <2>2, <2>3
<1>3. m.i_cnt \in Nat /\ m.rData \in Nat /\ m.history \in Nat
  BY DEF Message
<1> QED
  BY <1>1, <1>2, <1>3 DEF setCounts

(* Consuming i-cnt touches no branch count.                                *)
LEMMA ConsumeICntType ==
  ASSUME NEW d \in CountsType, NEW n \in Int
  PROVE  consumeICnt(d, n) \in CountsType
BY DEF consumeICnt, CountsType

-----------------------------------------------------------------------------
(* An address that decodes is an address, and holds an instruction.        *)
LEMMA DecodesType ==
  ASSUME NEW p \in ProcIndex, NEW a, Decodes(p, a)
  PROVE  a \in Address /\ Inst(p, a) \in Instr
BY ImageAssumption DEF Decodes, HasInst, Inst, Image

(* The address behind an instruction and a branch target are addresses.    *)
LEMMA FallTargetType ==
  ASSUME NEW a \in Address, NEW i \in Instr
  PROVE  Fall(a, i) \in Address /\ Target(a, i) \in Address
<1>1. AddrMod \in Nat \ {0}
  BY NumbersAssumption
<1>2. \A x \in Int : x % AddrMod \in 0 .. AddrMod - 1
  BY <1>1
<1>3. a + i.size \in Int /\ a + i.imm \in Int
  BY <1>1 DEF Address, Instr
<1> QED
  BY <1>2, <1>3 DEF Fall, Target, Address

(* What nextAddr does to the return stack leaves a stack of addresses.     *)
LEMMA StackType ==
  ASSUME NEW s \in Seq(Address), NEW a \in Address, NEW i \in Instr
  PROVE  /\ StackAfter(s, i, a) \in Seq(Address)
         /\ Top(s) \in Address \cup {NoAddr}
<1>1. Push(s, a) \in Seq(Address) /\ Pop(s) \in Seq(Address) /\ Top(s) \in Address \cup {NoAddr}
  BY DEF Push, Pop, Top
<1>2. Push(Pop(s), a) \in Seq(Address)
  BY <1>1 DEF Push
<1> QED
  BY <1>1, <1>2 DEF StackAfter

(* The call/return flag of an instruction is one of the flags.             *)
LEMMA CRFlagType == \A i : CRFlag(i) \in CRFlags
BY DEF CRFlag, CRFlags

(* A branch has a next address, or NoAddr; its outcome is unknown only     *)
(* when no branch count is left.                                           *)
BranchOK(r) ==
  /\ r.pc \in Address \cup {NoAddr} /\ r.br \in BRFlags
  /\ r.c \in CountsType
  /\ r.br = "unknown" => NoBranchCount(r.c)

(* A conditional branch goes to an address or to none.                     *)
LEMMA BranchType ==
  ASSUME NEW a \in Address, NEW i \in Instr, NEW c \in CountsType, NEW m \in Message,
         NEW tt \in TraceTypes, NEW ub \in BOOLEAN
  PROVE  BranchOK(Branch(tt, a, i, c, m, ub))
<1>1. Fall(a, i) \in Address /\ Target(a, i) \in Address /\ m.addr \in Address
  BY FallTargetType DEF Message
<1>2. ASSUME NEW taken, NEW d \in CountsType
      PROVE  BranchOK(Went(taken, a, i, d))
  BY <1>1, <1>2 DEF BranchOK, Went, BRFlags
<1>3. ASSUME NoBranchCount(c) PROVE BranchOK(UnreportedBranch(a, i, c, m))
  BY <1>1, <1>2, <1>3 DEF UnreportedBranch, BranchOK, BRFlags
<1>4. CASE getCurrentCountType(c) = "history"
  <2>1. consumeHistory(c) \in CountsType
    BY <1>4, CountsAssumption DEF getCurrentCountType, consumeHistory, CountsType
  <2>2. BranchOK(HTMBranch(a, i, c, m, ub))
    BY <1>2, <1>4, <2>1 DEF HTMBranch
  <2> QED
    BY <1>2, <2>2 DEF Branch, BTMBranch, BranchOK, BRFlags
<1>5. CASE getCurrentCountType(c) = "taken"
  <2>1. consumeTakenCount(c) \in CountsType
    BY <1>5 DEF getCurrentCountType, consumeTakenCount, CountsType
  <2>2. BranchOK(HTMBranch(a, i, c, m, ub))
    BY <1>2, <1>5, <2>1 DEF HTMBranch
  <2> QED
    BY <1>2, <2>2 DEF Branch, BTMBranch, BranchOK, BRFlags
<1>6. CASE getCurrentCountType(c) = "notTaken"
  <2>1. consumeNotTakenCount(c) \in CountsType
    BY <1>6 DEF getCurrentCountType, consumeNotTakenCount, CountsType
  <2>2. BranchOK(HTMBranch(a, i, c, m, ub))
    BY <1>2, <1>6, <2>1 DEF HTMBranch
  <2> QED
    BY <1>2, <2>2 DEF Branch, BTMBranch, BranchOK, BRFlags
<1>7. CASE getCurrentCountType(c) \in {"i_cnt", "none"}
  <2>1. BranchOK(HTMBranch(a, i, c, m, ub))
    BY <1>3, <1>7, SpentType DEF HTMBranch, BranchOK, BRFlags
  <2> QED
    BY <1>2, <2>1 DEF Branch, BTMBranch, BranchOK, BRFlags
<1> QED
  BY <1>4, <1>5, <1>6, <1>7 DEF getCurrentCountType

(* nextAddr answers with an address or NoAddr, and leaves counts and stack *)
(* as they should be, also when it fails.                                  *)
AnswerOK(r) ==
  /\ r.pc \in Address \cup {NoAddr} /\ r.br \in BRFlags /\ r.cr \in CRFlags
  /\ r.tt \in TraceTypes /\ r.stack \in Seq(Address) /\ r.c \in CountsType
  /\ r.br = "unknown" => NoBranchCount(r.c)

(* nextAddr answers with counts, a stack and an address or none.           *)
LEMMA NextAddrType ==
  ASSUME NEW p \in ProcIndex, NEW a, Decodes(p, a), NEW c \in CountsType,
         NEW s \in Seq(Address), NEW m \in Message, NEW tt \in TraceTypes, NEW ub \in BOOLEAN
  PROVE  AnswerOK(nextAddr(p, a, c, s, m, tt, ub))
<1> DEFINE i == Inst(p, a)
           tt2 == IF i.type \in {"JALR", "C_JR", "C_JALR"} THEN DetectHTM(tt, i, c) ELSE tt
           r == CASE i.type = "BRANCH" -> Branch(tt, a, i, c, m, ub)
                  [] i.type \in {"JAL", "C_J", "C_JAL"} ->
                       [rc |-> "OK", pc |-> Target(a, i), c |-> c, br |-> "none"]
                  [] i.type \in {"JALR", "C_JR", "C_JALR"} ->
                       [rc |-> "OK", pc |-> IndirectTarget(tt2, a, i, c, s), c |-> c,
                        br |-> "none"]
                  [] i.type \in {"TRAP", "XRET"} ->
                       [rc |-> "OK", pc |-> NoAddr, c |-> c, br |-> "none"]
                  [] OTHER -> [rc |-> "OK", pc |-> Fall(a, i), c |-> c, br |-> "none"]
<1>1. a \in Address /\ i \in Instr
  BY DecodesType
<1>2. Fall(a, i) \in Address /\ Target(a, i) \in Address
  BY <1>1, FallTargetType
<1>3. StackAfter(s, i, Fall(a, i)) \in Seq(Address) /\ Top(s) \in Address \cup {NoAddr}
  BY <1>1, <1>2, StackType
<1>4. tt2 \in TraceTypes
  BY DEF DetectHTM, TraceTypes
<1>5. IndirectTarget(tt2, a, i, c, s) \in Address \cup {NoAddr}
  BY <1>2, <1>3 DEF IndirectTarget
<1>6. BranchOK(Branch(tt, a, i, c, m, ub))
  BY <1>1, BranchType
<1>7. BranchOK(r)
  <2> HIDE DEF i, tt2
  <2> QED
    BY <1>2, <1>5, <1>6 DEF BranchOK, BRFlags
<1>8. \A d \in CountsType : consumeICnt(d, i.size) \in CountsType
  <2>1. i.size \in Int
    BY <1>1 DEF Instr
  <2> QED
    BY <2>1, ConsumeICntType
<1>9. CRFlag(i) \in CRFlags
  BY CRFlagType
<1>10. nextAddr(p, a, c, s, m, tt, ub) =
         [rc |-> r.rc, pc |-> r.pc, br |-> r.br, tt |-> tt2, cr |-> CRFlag(i),
          stack |-> StackAfter(s, i, Fall(a, i)),
          c |-> IF r.br = "unknown" \/ r.rc # "OK" THEN r.c ELSE consumeICnt(r.c, i.size)]
  BY Zenon DEF nextAddr
<1> HIDE DEF i, tt2, r
<1> QED
  BY <1>3, <1>4, <1>7, <1>8, <1>9, <1>10 DEF AnswerOK, BranchOK

-----------------------------------------------------------------------------
(***************************************************************************)
(* Handling a message never changes the state a hart is in, and never puts *)
(* a branch count on it.                                                   *)
(***************************************************************************)
Idle == {"GETFIRSTSYNCMSG", "GETNEXTMSG", "RETIREMESSAGE"}
GoodHart(h) == h \in Hart /\ (h.state \in Idle => NoBranchCount(h.counts))

(* h2 is h after some part of processTraceMessage.                         *)
Handled(h, h2) == GoodHart(h2) /\ h2.state = h.state

(* Taking the time of a message keeps the hart well-typed.                 *)
LEMMA TimedType ==
  ASSUME NEW h, GoodHart(h), NEW m \in Message, NEW full \in BOOLEAN
  PROVE  Handled(h, Timed(h, m, full)) /\ Handled(h, NotSync(h, m))
<1>1. ASSUME NEW f \in BOOLEAN PROVE Handled(h, Timed(h, m, f))
  <2>1. CASE m.ts = NoTs
    BY <2>1 DEF Handled, Timed
  <2>2. CASE m.ts # NoTs
    <3>1. m.ts \in 0 .. TsMod - 1 /\ h.lastTime \in Time
      BY <2>2 DEF Message, GoodHart, Hart
    <3>2. processTS(f, h.lastTime, m.ts) \in Time
      BY <3>1, TimeType
    <3> QED
      BY <2>2, <3>2 DEF Handled, Timed, GoodHart, Hart
  <2> QED
    BY <2>1, <2>2
<1>2. Handled(h, Timed(h, m, FALSE))
  BY <1>1
<1>3. Handled(h, NotSync(h, m))
  BY <1>2 DEF Handled, NotSync, GoodHart, Hart
<1> QED
  BY <1>1, <1>3

(* So does taking an address from a message.                               *)
LEMMA AddrType ==
  ASSUME NEW h, GoodHart(h), NEW a \in Address
  PROVE  Handled(h, AtAddr(h, a)) /\ FullAddr(h, a) \in Address
<1>1. 0 \in Address
  BY NumbersAssumption DEF Address
<1>2. FullAddr(h, a) \in Address
  BY <1>1, XorAssumption DEF FullAddr, GoodHart, Hart
<1> QED
  BY <1>2 DEF Handled, AtAddr, GoodHart, Hart

(* processPidPriv selects a process of the list, or none.                  *)
LEMMA PidType ==
  ASSUME NEW h, GoodHart(h), NEW pid \in Nat, NEW prv \in Nat
  PROVE  Handled(h, processPidPriv(h, pid, prv))
<1>1. ProcessOf(pid) \in ProcIndex \cup {NoProcess}
  BY ImageAssumption DEF ProcessOf
<1> QED
  BY <1>1 DEF Handled, processPidPriv, GoodHart, Hart

(* The address part of an in-circuit trace message keeps the hart's type.  *)
LEMMA ICTType ==
  ASSUME NEW h, GoodHart(h), NEW m \in Message, NEW a \in Address
  PROVE  Handled(h, ICTContext(ICTAddr(h, m, a), m))
<1>1. m.ckdata1 \in Address /\ 0 \in Address
  BY NumbersAssumption DEF Message, Address
<1>2. Xor(a, m.ckdata1) \in Address
  BY <1>1, XorAssumption
<1>3. Handled(h, AtAddr(h, a))
  BY AddrType
<1>4. Handled(h, ICTAddr(h, m, a))
  BY <1>1, <1>2, <1>3 DEF Handled, ICTAddr, GoodHart, Hart
<1> DEFINE g == ICTAddr(h, m, a)
<1> HIDE DEF g
<1>5. m.ckdata1 \div 4 \in Nat /\ UnknownPrv \in Nat
  BY <1>1, NumbersAssumption DEF Address, UnknownPrv
<1>6. GoodHart(g)
  BY <1>4 DEF Handled, g
<1>7. Handled(g, processPidPriv(g, m.ckdata1 \div 4, UnknownPrv))
  BY <1>5, <1>6, PidType
<1>8. Handled(g, [g EXCEPT !.currentPrv = UnknownPrv])
  BY <1>5, <1>6 DEF Handled, GoodHart, Hart
<1>9. Handled(g, g)
  BY <1>6 DEF Handled
<1>10. Handled(g, ICTContext(g, m))
  BY <1>7, <1>8, <1>9 DEF ICTContext
<1> QED
  BY <1>4, <1>10 DEF Handled, g

(* A sync empties the return stack and the counts.                         *)
LEMMA SyncType ==
  ASSUME NEW g, GoodHart(g)
  PROVE  Handled(g, [g EXCEPT !.stack = << >>, !.counts = resetCounts(@),
                              !.prevMsgWasSync = TRUE])
<1> DEFINE k == resetCounts(g.counts)
           g1 == [g EXCEPT !.stack = << >>]
           g2 == [g1 EXCEPT !.counts = k]
           g3 == [g2 EXCEPT !.prevMsgWasSync = TRUE]
<1>1. g \in Hart /\ g.counts \in CountsType
  BY DEF GoodHart, Hart
<1>2. k \in CountsType /\ NoBranchCount(k)
  BY <1>1, ResetCountsType
<1>3. [g EXCEPT !.stack = << >>, !.counts = resetCounts(@), !.prevMsgWasSync = TRUE] = g3
  BY <1>1 DEF Hart
<1> HIDE DEF k
<1>4. g1 \in Hart /\ g1.state = g.state
  <2>1. << >> \in Seq(Address)
    OBVIOUS
  <2> QED
    BY <1>1, <2>1 DEF Hart
<1> HIDE DEF g1
<1>5. g2 \in Hart /\ g2.state = g1.state /\ g2.counts = k
  BY <1>2, <1>4 DEF Hart
<1> HIDE DEF g2
<1>6. g3 \in Hart /\ g3.state = g2.state /\ g3.counts = g2.counts
  BY <1>5 DEF Hart
<1> QED
  BY <1>2, <1>3, <1>4, <1>5, <1>6 DEF Handled, GoodHart

(* processTraceMessage keeps a hart well-typed, whatever it answers.       *)
LEMMA ProcessType ==
  ASSUME NEW h, GoodHart(h), NEW m \in Message
  PROVE  /\ Handled(h, processTraceMessage(h, m).h)
         /\ processTraceMessage(h, m).rc \in {"OK", "ERR"}
<1> DEFINE t == Timed(h, m, FALSE)
           u == Timed(h, m, TRUE)
           n == NotSync(h, m)
<1>1. Handled(h, t) /\ Handled(h, u) /\ Handled(h, n) /\ Handled(h, h)
  BY TimedType DEF Handled
<1>2. m.addr \in Address /\ 0 \in Address /\ m.pid \in Nat /\ m.prv \in Nat
  BY NumbersAssumption DEF Message, Address
<1> HIDE DEF t, u, n
<1>3. GoodHart(t) /\ GoodHart(u) /\ GoodHart(n)
  BY <1>1 DEF Handled
<1>4. Handled(h, ProcessSync(h, m).h) /\ ProcessSync(h, m).rc \in {"OK", "ERR"}
  <2>1. Handled(u, AtAddr(u, m.addr))
    BY <1>2, <1>3, AddrType
  <2>2. Handled(h, [AtAddr(u, m.addr) EXCEPT !.stack = << >>, !.counts = resetCounts(@),
                                             !.prevMsgWasSync = TRUE])
    <3>1. GoodHart(AtAddr(u, m.addr))
      BY <2>1 DEF Handled
    <3> QED
      BY <1>1, <2>1, <3>1, SyncType DEF Handled
  <2> QED
    BY <1>1, <2>2 DEF ProcessSync, OK, Err, u
<1>5. Handled(h, ProcessOwnership(h, m).h) /\ ProcessOwnership(h, m).rc \in {"OK", "ERR"}
  <2>1. Handled(t, processPidPriv(t, m.pid, m.prv))
    BY <1>2, <1>3, PidType
  <2>2. Handled(t, [t EXCEPT !.currentPrv = m.prv])
    BY <1>2, <1>3 DEF Handled, GoodHart, Hart
  <2>3. ProcessOwnership(h, m) = CASE m.tag \in {0, 3} -> OK([t EXCEPT !.currentPrv = m.prv])
                                   [] m.tag = 2 -> OK(processPidPriv(t, m.pid, m.prv))
                                   [] OTHER -> Err(t)
    BY DEF ProcessOwnership, t
  <2> QED
    BY <1>1, <2>1, <2>2, <2>3 DEF OK, Err, Handled
<1>6. Handled(h, ProcessICT(h, m).h) /\ ProcessICT(h, m).rc \in {"OK", "ERR"}
  <2>1. FullAddr(n, m.addr) \in Address
    BY <1>2, <1>3, AddrType
  <2>2. Handled(n, ICTContext(ICTAddr(n, m, FullAddr(n, m.addr)), m))
    BY <1>3, <2>1, ICTType
  <2>3. ProcessICT(h, m) = IF ICTWellFormed(m)
                           THEN OK(ICTContext(ICTAddr(n, m, FullAddr(n, m.addr)), m))
                           ELSE Err(n)
    BY DEF ProcessICT, n
  <2> QED
    BY <1>1, <2>2, <2>3 DEF OK, Err, Handled
<1>7. Handled(h, ProcessICTWS(h, m).h) /\ ProcessICTWS(h, m).rc \in {"OK", "ERR"}
  <2> DEFINE v == [u EXCEPT !.prevMsgWasSync = TRUE]
  <2>1. Handled(u, v)
    BY <1>3 DEF Handled, GoodHart, Hart
  <2>2. ProcessICTWS(h, m) = IF ICTWellFormed(m) THEN OK(ICTContext(ICTAddr(v, m, m.addr), m))
                             ELSE Err(v)
    BY DEF ProcessICTWS, u
  <2> HIDE DEF v
  <2>3. GoodHart(v)
    BY <2>1 DEF Handled
  <2>4. Handled(v, ICTContext(ICTAddr(v, m, m.addr), m))
    BY <1>2, <2>3, ICTType
  <2> QED
    BY <1>1, <2>1, <2>2, <2>4 DEF OK, Err, Handled
<1>8. Handled(h, ProcessIndirect(h, m).h) /\ ProcessIndirect(h, m).rc \in {"OK", "ERR"}
  <2>1. FullAddr(h, m.addr) \in Address
    BY <1>2, AddrType
  <2>2. Handled(n, AtAddr(n, FullAddr(h, m.addr)))
    BY <1>3, <2>1, AddrType
  <2> QED
    BY <1>1, <2>2 DEF ProcessIndirect, OK, Handled, n
<1>9. Handled(h, AtAddr(n, 0))
  BY <1>1, <1>2, <1>3, AddrType DEF Handled
<1> QED
  BY <1>1, <1>4, <1>5, <1>6, <1>7, <1>8, <1>9 DEF processTraceMessage, OK, Err, t, n
-----------------------------------------------------------------------------
(***************************************************************************)
(* Resets.                                                                 *)
(***************************************************************************)
LEMMA InitialHartType == GoodHart(InitialHart)
<1>1. 0 \in Address /\ 0 \in Time /\ UnknownPrv \in Nat
  BY NumbersAssumption DEF Address, Time, UnknownPrv
<1>2. InitCounts \in CountsType /\ NoBranchCount(InitCounts)
  BY CountsAssumption DEF InitCounts, CountsType, NoBranchCount, BranchCountLeft
<1>3. << >> \in Seq(Address)
  OBVIOUS
<1>4. 0 \in ProcIndex
  BY ImageAssumption
<1>5. InitialHart.counts = InitCounts
  BY DEF InitialHart
<1>6. InitialHart \in Hart
  BY <1>1, <1>2, <1>3, <1>4 DEF InitialHart, Hart, States
<1> QED
  BY <1>2, <1>5, <1>6 DEF GoodHart

(* Both forms of resetTrace leave a hart without branch counts.            *)
LEMMA ResetType ==
  ASSUME NEW h \in Hart
  PROVE  /\ GoodHart(ResetAllHart(h)) /\ ResetAllHart(h).state = "GETFIRSTSYNCMSG"
         /\ GoodHart(ResetHart(h)) /\ ResetHart(h).state = "GETFIRSTSYNCMSG"
<1> DEFINE k == resetCounts(h.counts)
           g1 == [InitialHart EXCEPT !.counts = k]
           g2 == [g1 EXCEPT !.stack = h.stack]
           g3 == [g2 EXCEPT !.enterISR = h.enterISR]
           p  == IF BareMetal THEN h.currentPrv ELSE UnknownPrv
           g4 == [g3 EXCEPT !.currentPrv = p]
<1>1. h.counts \in CountsType /\ h.stack \in Seq(Address) /\ h.enterISR \in BOOLEAN
      /\ p \in Nat
  BY DEF GoodHart, Hart, UnknownPrv
<1>2. k \in CountsType /\ NoBranchCount(k)
  BY <1>1, ResetCountsType
<1>3. InitialHart \in Hart /\ InitialHart.state = "GETFIRSTSYNCMSG"
  BY InitialHartType DEF GoodHart, InitialHart
<1>4. ResetAllHart(h) = g4
  BY <1>3 DEF ResetAllHart, Hart
<1> HIDE DEF k, p
<1>5. g1 \in Hart /\ g1.state = "GETFIRSTSYNCMSG" /\ g1.counts = k
  BY <1>2, <1>3 DEF Hart
<1> HIDE DEF g1
<1>6. g2 \in Hart /\ g2.state = "GETFIRSTSYNCMSG" /\ g2.counts = k
  BY <1>1, <1>5 DEF Hart
<1> HIDE DEF g2
<1>7. g3 \in Hart /\ g3.state = "GETFIRSTSYNCMSG" /\ g3.counts = k
  BY <1>1, <1>6 DEF Hart
<1> HIDE DEF g3
<1>8. g4 \in Hart /\ g4.state = "GETFIRSTSYNCMSG" /\ g4.counts = k
  BY <1>1, <1>7 DEF Hart
<1> HIDE DEF g4
<1>9. << >> \in Seq(Address)
  OBVIOUS
<1>10. /\ [g4 EXCEPT !.stack = << >>] \in Hart
       /\ [g4 EXCEPT !.stack = << >>].state = g4.state
       /\ [g4 EXCEPT !.stack = << >>].counts = g4.counts
  BY <1>8, <1>9 DEF Hart
<1> QED
  BY <1>2, <1>4, <1>8, <1>10 DEF GoodHart, ResetHart

(* A hart may be moved to another state.                                   *)
LEMMA StateType ==
  ASSUME NEW h \in Hart, NEW s \in States, s \in Idle => NoBranchCount(h.counts)
  PROVE  GoodHart([h EXCEPT !.state = s]) /\ [h EXCEPT !.state = s].state = s
BY DEF GoodHart, Hart

(* A hart may be given other counts and another state.                     *)
LEMMA CountsStateType ==
  ASSUME NEW h, GoodHart(h), NEW s \in States, NEW k \in CountsType,
         s \in Idle => NoBranchCount(k)
  PROVE  /\ GoodHart([h EXCEPT !.counts = k, !.state = s])
         /\ [h EXCEPT !.counts = k, !.state = s].state = s
         /\ [h EXCEPT !.counts = k, !.state = s].currentProcessIndex = h.currentProcessIndex
         /\ [h EXCEPT !.counts = k] \in Hart
<1> DEFINE g == [h EXCEPT !.counts = k]
           g2 == [g EXCEPT !.state = s]
<1>1. [h EXCEPT !.counts = k, !.state = s] = g2
  OBVIOUS
<1>2. g \in Hart /\ g.counts = k /\ g.currentProcessIndex = h.currentProcessIndex
  BY DEF GoodHart, Hart
<1> HIDE DEF g
<1>3. g2 \in Hart /\ g2.state = s /\ g2.counts = k
      /\ g2.currentProcessIndex = h.currentProcessIndex
  BY <1>2 DEF Hart
<1> QED
  BY <1>1, <1>2, <1>3 DEF GoodHart, g
-----------------------------------------------------------------------------
(***************************************************************************)
(* The inductive invariant.  InHand is what OneMessageInFlight needs when  *)
(* a hart starts to execute a message: the message in hand is the current  *)
(* core's.                                                                 *)
(***************************************************************************)
InHand == ~readNewTraceMessage => nm.core = currentCore

Inv == TypeOK /\ OneMessageInFlight /\ BranchCountsSpent /\ EveryMessageOnce /\ InHand

InFlight == {"GETNEXTINSTRUCTION", "RETIREMESSAGE"}

(* One hart changes, the others stay as they are.                          *)
LEMMA SetHartType ==
  ASSUME Inv, NEW h, GoodHart(h), SetHart(h)
  PROVE  /\ hart' \in [Cores -> Hart] /\ BranchCountsSpent'
         /\ hart'[currentCore] = h
         /\ \A c \in Cores : c # currentCore => hart'[c] = hart[c]
<1>1. hart \in [Cores -> Hart] /\ currentCore \in Cores /\ h \in Hart
  BY DEF Inv, TypeOK, GoodHart
<1>2. /\ hart' \in [Cores -> Hart] /\ hart'[currentCore] = h
      /\ \A c \in Cores : c # currentCore => hart'[c] = hart[c]
  BY <1>1 DEF SetHart
<1>3. ASSUME NEW c \in Cores PROVE (hart'[c].state \in Idle => NoBranchCount(hart'[c].counts))
  BY <1>1, <1>2 DEF Inv, BranchCountsSpent, GoodHart, Idle, NoBranchCount
<1> QED
  BY <1>2, <1>3 DEF BranchCountsSpent, Idle, NoBranchCount

(* The harts that are not the current one are never in flight.             *)
LEMMA OthersIdle ==
  ASSUME Inv, status = "OK", NEW c \in Cores, c # currentCore \/ readNewTraceMessage
  PROVE  hart[c].state \notin InFlight
BY DEF Inv, OneMessageInFlight, InFlight

(* Handing out the message gives an answer the caller can expect.          *)
LEMMA WithMsgType ==
  ASSUME NEW o \in Out, NEW m
  PROVE  WithMsg(o, m) \in Out /\ [WithMsg(o, m) EXCEPT !.err = TRUE] \in Out
<1>1. WithMsg(o, m) \in Out
  BY DEF WithMsg, Out
<1> QED
  BY <1>1 DEF Out

(***************************************************************************)
(* The shapes of a step: what each does to the invariant.                  *)
(***************************************************************************)
LEMMA FinishInv ==
  ASSUME Inv, ~readNewTraceMessage, traceType' \in TraceTypes,
         NEW h, GoodHart(h), h.state \notin InFlight, NEW o \in Out, Finish(h, o)
  PROVE  Inv'
<1>1. /\ hart' \in [Cores -> Hart] /\ BranchCountsSpent' /\ hart'[currentCore] = h
      /\ \A c \in Cores : c # currentCore => hart'[c] = hart[c]
  BY SetHartType DEF Finish
<1>2. WithMsg(o, nm) \in Out
  BY WithMsgType
<1>3. TypeOK'
  <2>1. readNewTraceMessage' \in BOOLEAN /\ inCall' \in BOOLEAN
    BY DEF Finish, Return
  <2>2. ret' \in {"OK", "ERR", "EOF", "DONE"} /\ status' \in {"OK", "ERR", "EOF", "DONE"}
    BY DEF Inv, TypeOK, Finish, Return
  <2>3. currentCore' \in Cores /\ nm' \in Message /\ reads' \in Nat
    BY DEF Inv, TypeOK, Finish, Unread
  <2>4. out' \in Out /\ reported' \in Nat
    BY <1>2 DEF Inv, TypeOK, Finish
  <2> QED
    BY <1>1, <2>1, <2>2, <2>3, <2>4 DEF TypeOK
<1>4. ASSUME status' = "OK", NEW c \in Cores PROVE hart'[c].state \notin InFlight
  <2>1. status = "OK"
    BY <1>4 DEF Finish
  <2> QED
    BY <1>1, <2>1, OthersIdle
<1>5. OneMessageInFlight'
  BY <1>4 DEF OneMessageInFlight, InFlight
<1>6. EveryMessageOnce'
  BY DEF Inv, TypeOK, EveryMessageOnce, Finish, Unread
<1>7. InHand'
  BY DEF InHand, Finish
<1> QED
  BY <1>1, <1>3, <1>5, <1>6, <1>7 DEF Inv

(* Giving up a message, with or without tolerance, keeps the invariant.    *)
LEMMA FailInv ==
  ASSUME Inv, ~readNewTraceMessage, traceType' \in TraceTypes,
         NEW h \in Hart, Fail(h)
  PROVE  Inv'
<1>1. "ERROR" \in States /\ "ERROR" \notin InFlight /\ "GETFIRSTSYNCMSG" \notin InFlight
  BY DEF States, InFlight
<1>2. PICK g : GoodHart(g) /\ SetHart(g) /\ g.state \notin InFlight
  <2>1. CASE TolerateErrors
    <3>1. GoodHart(ResetHart(h)) /\ ResetHart(h).state = "GETFIRSTSYNCMSG"
      BY ResetType
    <3>2. SetHart(ResetHart(h))
      BY <2>1 DEF Fail
    <3> QED
      BY <1>1, <3>1, <3>2
  <2>2. CASE ~TolerateErrors
    <3>1. GoodHart([h EXCEPT !.state = "ERROR"]) /\ [h EXCEPT !.state = "ERROR"].state = "ERROR"
      BY <1>1, StateType DEF Idle
    <3>2. SetHart([h EXCEPT !.state = "ERROR"])
      BY <2>2 DEF Fail
    <3> QED
      BY <1>1, <3>1, <3>2
  <2> QED
    BY <2>1, <2>2
<1>3. /\ hart' \in [Cores -> Hart] /\ BranchCountsSpent' /\ hart'[currentCore] = g
      /\ \A c \in Cores : c # currentCore => hart'[c] = hart[c]
  BY <1>2, SetHartType
<1>4. out' \in Out
  BY WithMsgType DEF Fail, Inv, TypeOK
<1>5. TypeOK'
  <2>1. readNewTraceMessage' \in BOOLEAN /\ inCall' \in BOOLEAN
    BY DEF Inv, TypeOK, Fail, Return
  <2>2. ret' \in {"OK", "ERR", "EOF", "DONE"} /\ status' \in {"OK", "ERR", "EOF", "DONE"}
    BY DEF Inv, TypeOK, Fail, Return
  <2>3. currentCore' \in Cores /\ nm' \in Message /\ reads' \in Nat /\ reported' \in Nat
    BY DEF Inv, TypeOK, Fail, Unread
  <2> QED
    BY <1>3, <1>4, <2>1, <2>2, <2>3 DEF TypeOK
<1>6. ASSUME status' = "OK", NEW c \in Cores PROVE hart'[c].state \notin InFlight
  <2>1. status = "OK"
    BY <1>6 DEF Fail
  <2> QED
    BY <1>2, <1>3, <2>1, OthersIdle
<1>7. OneMessageInFlight'
  BY <1>6 DEF OneMessageInFlight, InFlight
<1>8. EveryMessageOnce'
  BY DEF Inv, TypeOK, EveryMessageOnce, Fail, Unread
<1>9. InHand'
  BY DEF Inv, InHand, Fail, Unread
<1> QED
  BY <1>3, <1>5, <1>7, <1>8, <1>9 DEF Inv

(* resetTrace(-1) on an error message keeps the invariant.                 *)
LEMMA ResetAllInv ==
  ASSUME Inv, ~readNewTraceMessage, traceType' \in TraceTypes, ResetAll
  PROVE  Inv'
<1>1. ASSUME NEW c \in Cores
      PROVE  /\ hart'[c] \in Hart /\ (hart'[c].state \in Idle => NoBranchCount(hart'[c].counts))
             /\ hart'[c].state \notin InFlight
  <2>1. GoodHart(hart[c])
    BY DEF Inv, TypeOK, BranchCountsSpent, GoodHart, Idle, NoBranchCount
  <2>2. hart'[c] = ResetAllHart(hart[c])
    BY DEF ResetAll
  <2> QED
    BY <2>1, <2>2, ResetType DEF GoodHart, InFlight
<1>2. hart' \in [Cores -> Hart]
  BY <1>1 DEF ResetAll
<1>3. out' \in Out
  BY WithMsgType DEF ResetAll, Inv, TypeOK
<1>4. TypeOK'
  <2>1. readNewTraceMessage' \in BOOLEAN /\ inCall' \in BOOLEAN
    BY DEF ResetAll, Return
  <2>2. ret' \in {"OK", "ERR", "EOF", "DONE"} /\ status' \in {"OK", "ERR", "EOF", "DONE"}
    BY DEF Inv, TypeOK, ResetAll, Return
  <2>3. currentCore' \in Cores /\ nm' \in Message /\ reads' \in Nat /\ reported' \in Nat
    BY TraceAssumption DEF Inv, TypeOK, ResetAll
  <2> QED
    BY <1>2, <1>3, <2>1, <2>2, <2>3 DEF TypeOK
<1>5. OneMessageInFlight' /\ BranchCountsSpent'
  BY <1>1 DEF OneMessageInFlight, BranchCountsSpent, Idle, NoBranchCount, InFlight
<1>6. EveryMessageOnce' /\ InHand'
  BY DEF Inv, TypeOK, EveryMessageOnce, InHand, ResetAll
<1> QED
  BY <1>4, <1>5, <1>6 DEF Inv

(* A step that stops the trace: the status is no longer OK.                *)
LEMMA StopInv ==
  ASSUME Inv, NEW h, GoodHart(h), SetHart(h), traceType' \in TraceTypes,
         status' \in {"ERR", "EOF", "DONE"}, Return(status'),
         readNewTraceMessage' \in BOOLEAN, readNewTraceMessage => readNewTraceMessage',
         out' \in Out, reported' \in Nat, Unread
  PROVE  Inv'
<1>1. hart' \in [Cores -> Hart] /\ BranchCountsSpent'
  BY SetHartType
<1>2. TypeOK'
  BY <1>1 DEF Inv, TypeOK, Return, Unread
<1>3. OneMessageInFlight' /\ EveryMessageOnce'
  BY DEF OneMessageInFlight, EveryMessageOnce
<1>4. InHand'
  BY DEF Inv, InHand, Unread
<1> QED
  BY <1>1, <1>2, <1>3, <1>4 DEF Inv

(* An error no setting tolerates keeps the invariant.                      *)
LEMMA AbortInv ==
  ASSUME Inv, traceType' \in TraceTypes, Abort
  PROVE  Inv'
<1>1. GoodHart(hart[currentCore])
  BY DEF Inv, TypeOK, BranchCountsSpent, GoodHart, Idle, NoBranchCount
<1>2. GoodHart([hart[currentCore] EXCEPT !.state = "ERROR"])
  BY <1>1, StateType DEF States, Idle, GoodHart
<1> QED
  BY <1>2, StopInv DEF Abort, Return, Inv, TypeOK

(* The call goes on with the message in hand, or returns with it in hand.  *)
LEMMA StillInHandInv ==
  ASSUME Inv, ~readNewTraceMessage, traceType' \in TraceTypes,
         NEW h, GoodHart(h), SetHart(h),
         h.state \in InFlight => /\ nm.tcode \in CountTCodes
                                 /\ h.currentProcessIndex # NoProcess,
         inCall' \in BOOLEAN, ret' \in {"OK", "ERR", "EOF", "DONE"}, out' \in Out,
         UNCHANGED <<status, readNewTraceMessage, reported>>, Unread
  PROVE  Inv'
<1>1. /\ hart' \in [Cores -> Hart] /\ BranchCountsSpent' /\ hart'[currentCore] = h
      /\ \A c \in Cores : c # currentCore => hart'[c] = hart[c]
  BY SetHartType
<1>2. TypeOK'
  BY <1>1 DEF Inv, TypeOK, Unread
<1>3. ASSUME status' = "OK", NEW c \in Cores, hart'[c].state \in InFlight
      PROVE  /\ c = currentCore /\ nm.core = c /\ nm.tcode \in CountTCodes
             /\ hart'[c].currentProcessIndex # NoProcess
  <2>1. c = currentCore
    BY <1>1, <1>3, OthersIdle
  <2> QED
    BY <1>1, <1>3, <2>1 DEF Inv, InHand
<1>4. OneMessageInFlight'
  BY <1>3 DEF OneMessageInFlight, InFlight, Unread
<1>5. EveryMessageOnce' /\ InHand'
  BY DEF Inv, EveryMessageOnce, InHand, Unread
<1> QED
  BY <1>1, <1>2, <1>4, <1>5 DEF Inv
-----------------------------------------------------------------------------
(***************************************************************************)
(* One lemma per group of actions.                                         *)
(***************************************************************************)
LEMMA CurrentHart ==
  ASSUME Inv
  PROVE  /\ GoodHart(hart[currentCore]) /\ nm \in Message /\ out \in Out
         /\ hart[currentCore] \in Hart
         /\ LET p == processTraceMessage(hart[currentCore], nm)
            IN  GoodHart(p.h) /\ p.h.state = hart[currentCore].state /\ p.rc \in {"OK", "ERR"}
<1>1. GoodHart(hart[currentCore]) /\ nm \in Message /\ out \in Out /\ hart[currentCore] \in Hart
  BY DEF Inv, TypeOK, BranchCountsSpent, GoodHart, Idle, NoBranchCount
<1> QED
  BY <1>1, ProcessType DEF Handled

(* Trace::configure establishes the invariant.                             *)
LEMMA InitInv == Init => Inv
<1> SUFFICES ASSUME Init PROVE Inv
  OBVIOUS
<1>1. InitialHart \in Hart /\ NoBranchCount(InitialHart.counts)
      /\ InitialHart.state = "GETFIRSTSYNCMSG"
  BY InitialHartType DEF GoodHart, InitialHart, Idle
<1>2. \A c \in Cores : hart[c] = InitialHart
  BY DEF Init
<1>3. TypeOK
  <2>1. hart \in [Cores -> Hart]
    BY <1>1 DEF Init
  <2>2. nm \in Message
    <3>1. 0 \in Address /\ NoTs \in (0 .. TsMod - 1) \cup {NoTs} /\ 0 \in Cores
      BY NumbersAssumption, TraceAssumption DEF Address
    <3> QED
      BY <3>1 DEF Init, Message, MessageOf, TCodes, ICTReasons
  <2>3. out \in Out
    BY DEF Init, Out, NoOut, BRFlags
  <2>4. readNewTraceMessage \in BOOLEAN /\ inCall \in BOOLEAN
    BY DEF Init
  <2>5. traceType \in TraceTypes /\ currentCore \in Cores
    BY TraceAssumption DEF Init
  <2>6. /\ status \in {"OK", "ERR", "EOF", "DONE"} /\ ret \in {"OK", "ERR", "EOF", "DONE"}
        /\ reads \in Nat /\ reported \in Nat
    BY DEF Init
  <2> QED
    BY <2>1, <2>2, <2>3, <2>4, <2>5, <2>6 DEF TypeOK
<1>4. OneMessageInFlight /\ BranchCountsSpent
  BY <1>1, <1>2 DEF OneMessageInFlight, BranchCountsSpent, NoBranchCount
<1>5. EveryMessageOnce /\ InHand
  BY DEF Init, EveryMessageOnce, InHand
<1> QED
  BY <1>3, <1>4, <1>5 DEF Inv

(* Entering NextInstruction keeps the invariant.                           *)
LEMMA CallInv == Inv /\ Call => Inv'
<1> SUFFICES ASSUME Inv, Call PROVE Inv'
  OBVIOUS
<1>1. out' \in Out
  <2>1. NoOut \in Out
    BY DEF Out, NoOut, BRFlags
  <2>2. ASSUME NEW e \in BOOLEAN PROVE [NoOut EXCEPT !.err = e] \in Out
    BY <2>1 DEF Out
  <2>3. (out.err /\ status # "OK") \in BOOLEAN
    OBVIOUS
  <2> QED
    BY <2>2, <2>3 DEF Call
<1>2. inCall' \in BOOLEAN
  BY DEF Call, Return
<1>3. ret' \in {"OK", "ERR", "EOF", "DONE"}
  BY DEF Call, Return, Inv, TypeOK
<1>4. TypeOK'
  BY <1>1, <1>2, <1>3 DEF Call, Inv, TypeOK
<1>5. OneMessageInFlight' /\ BranchCountsSpent' /\ EveryMessageOnce' /\ InHand'
  BY DEF Call, Inv, OneMessageInFlight, BranchCountsSpent, EveryMessageOnce, InHand
<1> QED
  BY <1>4, <1>5 DEF Inv

(* Sign extension makes a message of the same code for the same core.      *)
LEMMA SignExtendedType ==
  ASSUME NEW m \in Message
  PROVE  SignExtended(m) \in Message /\ SignExtended(m).core = m.core
<1>1. ASSUME NEW a \in Address PROVE signExtendAddr(a) \in Address
  <2>1. a % SignBit \in 0 .. SignBit - 1
    BY NumbersAssumption DEF Address
  <2>2. (a % SignBit) + (AddrMod - SignBit) \in 0 .. AddrMod - 1
    BY <2>1, NumbersAssumption
  <2> QED
    BY <2>2 DEF signExtendAddr, Address
<1>2. m.addr \in Address /\ m.ckdata1 \in Address
  BY DEF Message
<1>3. ASSUME NEW a \in Address
      PROVE  [m EXCEPT !.addr = a] \in Message /\ [m EXCEPT !.addr = a].core = m.core
             /\ [m EXCEPT !.addr = a].ckdata1 = m.ckdata1
  BY DEF Message
<1>4. ASSUME NEW a \in Address, NEW b \in Address
      PROVE  [m EXCEPT !.addr = a, !.ckdata1 = b] \in Message
             /\ [m EXCEPT !.addr = a, !.ckdata1 = b].core = m.core
  BY DEF Message
<1> DEFINE a == signExtendAddr(m.addr)
           b == IF m.ckdf = 1 THEN signExtendAddr(m.ckdata1) ELSE m.ckdata1
           A == m.tcode \in SyncTCodes \cup {"INDIRECT_BRANCH", "INDIRECTBRANCHHISTORY"}
           B == m.tcode \in ICTTCodes /\ m.cksrc = "INFERABLECALL"
           C == m.tcode \in ICTTCodes /\ m.cksrc \notin {"INFERABLECALL", "CONTROL", "OTHER"}
<1>5. a \in Address /\ b \in Address
  BY <1>1, <1>2
<1>6. SignExtended(m) = CASE A -> [m EXCEPT !.addr = a]
                          [] B -> [m EXCEPT !.addr = a, !.ckdata1 = b]
                          [] C -> [m EXCEPT !.addr = a]
                          [] OTHER -> m
  BY Zenon DEF SignExtended
<1> HIDE DEF a, b, A, B, C
<1>7. SignExtended(m) \in {m, [m EXCEPT !.addr = a], [m EXCEPT !.addr = a, !.ckdata1 = b]}
  BY <1>6
<1>8. CASE SignExtended(m) = [m EXCEPT !.addr = a]
  BY <1>3, <1>5, <1>8
<1>9. CASE SignExtended(m) = [m EXCEPT !.addr = a, !.ckdata1 = b]
  <2>1. /\ [m EXCEPT !.addr = a, !.ckdata1 = b] \in Message
        /\ [m EXCEPT !.addr = a, !.ckdata1 = b].core = m.core
    BY <1>4, <1>5, Zenon
  <2> QED
    BY <1>9, <2>1
<1> QED
  BY <1>7, <1>8, <1>9

(* Reading a message makes it the one message in hand.                     *)
LEMMA ReadMessageInv ==
  ASSUME Inv, NEW m \in Messages, ReadMessage(m)
  PROVE  Inv'
<1>1. m \in Message /\ m.core \in Cores
  BY MessagesAssumption DEF Message
<1>2. nm' \in Message /\ nm'.core = m.core
  BY <1>1, SignExtendedType DEF ReadMessage
<1>3. \A c \in Cores : GoodHart(hart[c])
  BY DEF Inv, TypeOK, BranchCountsSpent, GoodHart, Idle, NoBranchCount
<1>4. readNewTraceMessage = TRUE /\ readNewTraceMessage' = FALSE
  BY DEF Inv, TypeOK, ReadMessage, Reading
<1>5. CASE UNCHANGED <<hart, status, inCall, ret, out, reported>>
           /\ traceType' = IF traceType = "BTM" /\ SwitchToHTM(m) THEN "HTM" ELSE traceType
  <2>1. traceType' \in TraceTypes
    BY <1>5 DEF Inv, TypeOK, TraceTypes
  <2>2. TypeOK'
    <3>1. reads' \in Nat /\ currentCore' \in Cores
      BY <1>1 DEF Inv, TypeOK, ReadMessage
    <3>2. readNewTraceMessage' \in BOOLEAN
      BY <1>4
    <3> QED
      BY <1>2, <1>5, <2>1, <3>1, <3>2 DEF Inv, TypeOK
  <2>3. OneMessageInFlight'
    BY <1>4, <1>5, OthersIdle DEF OneMessageInFlight, InFlight
  <2>4. BranchCountsSpent'
    BY <1>5 DEF Inv, BranchCountsSpent
  <2>5. EveryMessageOnce'
    BY <1>4, <1>5 DEF Inv, TypeOK, EveryMessageOnce, ReadMessage
  <2>6. InHand'
    BY <1>2 DEF InHand, ReadMessage
  <2> QED
    BY <2>2, <2>3, <2>4, <2>5, <2>6 DEF Inv
<1>6. CASE /\ hart' = [hart EXCEPT ![m.core].state = "ERROR"]
           /\ status' = "ERR" /\ Return("ERR")
           /\ UNCHANGED <<traceType, out, reported>>
  <2>1. GoodHart([hart[m.core] EXCEPT !.state = "ERROR"])
    BY <1>1, <1>3, StateType DEF States, Idle, GoodHart
  <2>2. /\ hart' \in [Cores -> Hart]
        /\ \A c \in Cores : hart'[c] = IF c = m.core THEN [hart[m.core] EXCEPT !.state = "ERROR"]
                                       ELSE hart[c]
    BY <1>1, <1>6, <2>1 DEF Inv, TypeOK, GoodHart
  <2>3. BranchCountsSpent'
    BY <1>3, <2>1, <2>2 DEF BranchCountsSpent, GoodHart, Idle, NoBranchCount
  <2>4. TypeOK'
    <3>1. reads' \in Nat /\ currentCore' \in Cores
      BY <1>1 DEF Inv, TypeOK, ReadMessage
    <3>2. readNewTraceMessage' \in BOOLEAN /\ inCall' \in BOOLEAN
      BY <1>4, <1>6 DEF Return
    <3>3. status' \in {"OK", "ERR", "EOF", "DONE"} /\ ret' \in {"OK", "ERR", "EOF", "DONE"}
      BY <1>6 DEF Return
    <3> QED
      BY <1>2, <1>6, <2>2, <3>1, <3>2, <3>3 DEF Inv, TypeOK
  <2>5. OneMessageInFlight' /\ EveryMessageOnce'
    BY <1>6 DEF OneMessageInFlight, EveryMessageOnce
  <2>6. InHand'
    BY <1>2 DEF InHand, ReadMessage
  <2> QED
    BY <2>3, <2>4, <2>5, <2>6 DEF Inv
<1> QED
  BY <1>5, <1>6 DEF ReadMessage

(* A bad message is counted and leaves none in hand.                       *)
LEMMA ReadBadMessageInv == Inv /\ ReadBadMessage => Inv'
<1> SUFFICES ASSUME Inv, ReadBadMessage PROVE Inv'
  OBVIOUS
<1>1. readNewTraceMessage = TRUE /\ readNewTraceMessage' = TRUE
  BY DEF Inv, TypeOK, ReadBadMessage, Reading
<1>2. ASSUME NEW c \in Cores PROVE GoodHart(hart[c])
  BY DEF Inv, TypeOK, BranchCountsSpent, GoodHart, Idle, NoBranchCount
<1>3. out' \in Out
  BY DEF ReadBadMessage, Inv, TypeOK, Out
<1>4. /\ hart' \in [Cores -> Hart] /\ BranchCountsSpent'
      /\ status = "OK" => \A c \in Cores : hart'[c].state \notin InFlight
      /\ currentCore' \in Cores
  <2>1. CASE TolerateErrors
    <3>1. hart' = [c \in Cores |-> ResetAllHart(hart[c])] /\ currentCore' = 0
      BY <2>1 DEF ReadBadMessage
    <3>2. ASSUME NEW c \in Cores
          PROVE  /\ hart'[c] \in Hart /\ (hart'[c].state \in Idle => NoBranchCount(hart'[c].counts))
                 /\ hart'[c].state \notin InFlight
      BY <1>2, <3>1, ResetType DEF GoodHart, InFlight
    <3> QED
      BY <3>1, <3>2, TraceAssumption DEF BranchCountsSpent, Idle, NoBranchCount
  <2>2. CASE ~TolerateErrors
    <3> DEFINE g == [hart[currentCore] EXCEPT !.state = "ERROR"]
    <3>1. SetHart(g) /\ currentCore' = currentCore
      BY <2>2 DEF ReadBadMessage
    <3>2. currentCore \in Cores
      BY DEF Inv, TypeOK
    <3>3. GoodHart(g) /\ g.state = "ERROR"
      BY <1>2, <3>2, StateType DEF States, Idle, GoodHart
    <3> HIDE DEF g
    <3>4. /\ hart' \in [Cores -> Hart] /\ BranchCountsSpent' /\ hart'[currentCore] = g
          /\ \A c \in Cores : c # currentCore => hart'[c] = hart[c]
      BY <3>1, <3>3, SetHartType
    <3> QED
      BY <3>1, <3>2, <3>3, <3>4, OthersIdle DEF InFlight
  <2> QED
    BY <2>1, <2>2
<1>5. TypeOK'
  <2>1. readNewTraceMessage' \in BOOLEAN
    BY <1>1
  <2>2. inCall' \in BOOLEAN
    BY DEF ReadBadMessage, Return, Inv, TypeOK
  <2>3. ret' \in {"OK", "ERR", "EOF", "DONE"}
    BY DEF ReadBadMessage, Return, Inv, TypeOK
  <2> QED
    BY <1>3, <1>4, <2>1, <2>2, <2>3 DEF ReadBadMessage, Inv, TypeOK
<1>6. OneMessageInFlight'
  BY <1>4 DEF OneMessageInFlight, InFlight, ReadBadMessage
<1>7. EveryMessageOnce' /\ InHand'
  BY <1>1 DEF Inv, TypeOK, EveryMessageOnce, InHand, ReadBadMessage
<1> QED
  BY <1>4, <1>5, <1>6, <1>7 DEF Inv

(* The end of the trace, or of its readability, keeps the invariant.       *)
LEMMA ReadEndInv == Inv /\ (ReadEOF \/ ReadError) => Inv'
<1> SUFFICES ASSUME Inv, ReadEOF \/ ReadError PROVE Inv'
  OBVIOUS
<1>1. \A s \in {"DONE", "ERROR"} : GoodHart([hart[currentCore] EXCEPT !.state = s])
  BY CurrentHart, StateType DEF States, Idle, GoodHart
<1>2. out \in Out /\ reported \in Nat /\ traceType \in TraceTypes /\ readNewTraceMessage \in BOOLEAN
  BY DEF Inv, TypeOK
<1>3. CASE ReadEOF
  BY <1>1, <1>2, <1>3, StopInv DEF ReadEOF, Return
<1>4. CASE ReadError
  BY <1>1, <1>2, <1>4, StopInv DEF ReadError, Return
<1> QED
  BY <1>3, <1>4
(* An instruction shown with an ICT message is at an address of the image. *)
LEMMA ICTInstType ==
  ASSUME NEW o \in Out, NEW h \in Hart, NEW m
  PROVE  WithICTInst(o, h, m) \in Out
<1>1. CASE ~ShowsInst(h, m)
  BY <1>1 DEF WithICTInst
<1>2. CASE ShowsInst(h, m)
  <2> DEFINE i == Inst(h.currentProcessIndex, h.currentAddress)
             f == {ICTFlag(m, i)} \ {"none"}
             b == IF m.cksrc = "INFERABLECALL" /\ i.type = "BRANCH" THEN "taken" ELSE "none"
  <2>1. h.currentProcessIndex \in ProcIndex
    BY <1>2 DEF ShowsInst, Hart
  <2>2. h.currentAddress \in Address
    BY <1>2, <2>1, ImageAssumption DEF ShowsInst, HasInst, Image
  <2>3. ICTFlag(m, i) \in CRFlags
    BY CRFlagType DEF ICTFlag, CRFlags
  <2>4. f \in SUBSET CRFlags
    BY <2>3
  <2>5. b \in BRFlags
    BY DEF BRFlags
  <2>6. WithICTInst(o, h, m) = [o EXCEPT !.inst = h.currentAddress, !.cr = f, !.br = b]
    BY <1>2 DEF WithICTInst
  <2> HIDE DEF i, f, b
  <2> QED
    BY <2>2, <2>4, <2>5, <2>6 DEF Out
<1> QED
  BY <1>1, <1>2

(* The steps of state GETFIRSTSYNCMSG keep the invariant.                  *)
LEMMA FirstInv == Inv /\ (FirstSync \/ FirstICTWS \/ FirstOther \/ FirstError) => Inv'
<1> SUFFICES ASSUME Inv, FirstSync \/ FirstICTWS \/ FirstOther \/ FirstError PROVE Inv'
  OBVIOUS
<1> DEFINE p == processTraceMessage(hart[currentCore], nm)
<1>1. GoodHart(p.h) /\ p.h \in Hart /\ p.h.state = hart[currentCore].state /\ out \in Out
  BY CurrentHart DEF GoodHart
<1>2. ~readNewTraceMessage /\ traceType' \in TraceTypes
      /\ hart[currentCore].state = "GETFIRSTSYNCMSG"
  BY DEF FirstSync, FirstICTWS, FirstOther, FirstError, Handling, InState, Inv, TypeOK
<1> HIDE DEF p
<1>3. "GETNEXTMSG" \in States /\ "GETNEXTMSG" \notin InFlight /\ "GETFIRSTSYNCMSG" \notin InFlight
  BY DEF States, InFlight
<1>4. ASSUME NEW h, GoodHart(h)
      PROVE  /\ GoodHart([h EXCEPT !.counts = resetCounts(@), !.state = "GETNEXTMSG"])
             /\ [h EXCEPT !.counts = resetCounts(@), !.state = "GETNEXTMSG"].state = "GETNEXTMSG"
  <2>1. h.counts \in CountsType
    BY <1>4 DEF GoodHart, Hart
  <2>2. resetCounts(h.counts) \in CountsType /\ NoBranchCount(resetCounts(h.counts))
    BY <2>1, ResetCountsType
  <2>3. "GETNEXTMSG" \in States
    BY <1>3
  <2> DEFINE k == resetCounts(h.counts)
  <2>4. k \in CountsType /\ NoBranchCount(k)
    BY <2>2
  <2>5. [h EXCEPT !.counts = resetCounts(@), !.state = "GETNEXTMSG"]
        = [h EXCEPT !.counts = k, !.state = "GETNEXTMSG"]
    OBVIOUS
  <2> HIDE DEF k
  <2>6. GoodHart([h EXCEPT !.counts = k, !.state = "GETNEXTMSG"])
    BY <1>4, <2>3, <2>4, CountsStateType
  <2>7. [h EXCEPT !.counts = k, !.state = "GETNEXTMSG"].state = "GETNEXTMSG"
    BY <1>4 DEF GoodHart, Hart
  <2> QED
    BY <2>5, <2>6, <2>7
<1>5. CASE FirstSync
  <2>1. CASE p.rc # "OK"
    <3>1. Fail(p.h)
      BY <1>5, <2>1 DEF FirstSync, p
    <3> QED
      BY <1>1, <1>2, <3>1, FailInv
  <2>2. CASE p.rc = "OK"
    <3>1. Finish([p.h EXCEPT !.counts = resetCounts(@), !.state = "GETNEXTMSG"], out)
      BY <1>5, <2>2 DEF FirstSync, p
    <3> QED
      BY <1>1, <1>2, <1>3, <1>4, <3>1, FinishInv
  <2> QED
    BY <2>1, <2>2
<1>6. CASE FirstICTWS
  <2> DEFINE h == [p.h EXCEPT !.currentAddress = IF @ = 0 THEN p.h.lastFaddr ELSE @]
  <2>1. GoodHart(h) /\ h \in Hart /\ h.state = "GETFIRSTSYNCMSG"
    BY <1>1, <1>2 DEF GoodHart, Hart
  <2>2. WithICTInst(out, h, nm) \in Out
    BY <1>1, <2>1, ICTInstType
  <2>3. \/ Fail(p.h)
        \/ Finish(h, out)
        \/ Finish([h EXCEPT !.counts = resetCounts(@), !.state = "GETNEXTMSG"],
                  WithICTInst(out, h, nm))
    BY <1>6 DEF FirstICTWS, p
  <2> HIDE DEF h
  <2>4. CASE Fail(p.h)
    BY <1>1, <1>2, <2>4, FailInv
  <2>5. CASE Finish(h, out)
    BY <1>1, <1>2, <1>3, <2>1, <2>5, FinishInv
  <2>6. CASE Finish([h EXCEPT !.counts = resetCounts(@), !.state = "GETNEXTMSG"],
                    WithICTInst(out, h, nm))
    BY <1>2, <1>3, <1>4, <2>1, <2>2, <2>6, FinishInv
  <2> QED
    BY <2>3, <2>4, <2>5, <2>6
<1>7. CASE FirstOther
  <2>1. Finish(p.h, out) \/ Fail(p.h)
    BY <1>7 DEF FirstOther, p
  <2>2. CASE Finish(p.h, out)
    BY <1>1, <1>2, <1>3, <2>2, FinishInv
  <2>3. CASE Fail(p.h)
    BY <1>1, <1>2, <2>3, FailInv
  <2> QED
    BY <2>1, <2>2, <2>3
<1>8. CASE FirstError
  BY <1>2, <1>8, ResetAllInv DEF FirstError
<1> QED
  BY <1>5, <1>6, <1>7, <1>8

(* Loading the counts of a message keeps the invariant.                    *)
LEMMA NextMsgCountsInv == Inv /\ NextMsgCounts => Inv'
<1> SUFFICES ASSUME Inv, NextMsgCounts PROVE Inv'
  OBVIOUS
<1> DEFINE h == hart[currentCore]
           r == setCounts(h.counts, nm)
<1>1. GoodHart(h) /\ nm \in Message
  BY CurrentHart
<1>2. ~readNewTraceMessage /\ traceType' \in TraceTypes /\ nm.tcode \in CountTCodes
      /\ h.currentProcessIndex # NoProcess
  BY DEF NextMsgCounts, Handling, InState, Inv, TypeOK
<1>3. h.counts \in CountsType
  BY <1>1 DEF GoodHart, Hart
<1>4. r.c \in CountsType
  BY <1>1, <1>3, SetCountsType
<1>5. Fail([h EXCEPT !.counts = r.c]) \/ Goto([h EXCEPT !.counts = r.c, !.state = "GETNEXTINSTRUCTION"])
  BY DEF NextMsgCounts
<1>6. "GETNEXTINSTRUCTION" \in States /\ "GETNEXTINSTRUCTION" \notin Idle
  BY DEF States, Idle
<1> HIDE DEF h, r
<1> DEFINE g == [h EXCEPT !.counts = r.c, !.state = "GETNEXTINSTRUCTION"]
<1>7. [h EXCEPT !.counts = r.c] \in Hart
  BY <1>1, <1>4, <1>6, CountsStateType
<1>8. GoodHart(g) /\ g.currentProcessIndex # NoProcess
  BY <1>1, <1>2, <1>4, <1>6, CountsStateType
<1> HIDE DEF g
<1>9. CASE Fail([h EXCEPT !.counts = r.c])
  BY <1>2, <1>7, <1>9, FailInv
<1>10. CASE Goto(g)
  <2>1. SetHart(g) /\ UNCHANGED <<status, readNewTraceMessage, reported>> /\ Unread
        /\ UNCHANGED <<inCall, ret, out>>
    BY <1>10 DEF Goto
  <2>2. inCall' \in BOOLEAN /\ ret' \in {"OK", "ERR", "EOF", "DONE"} /\ out' \in Out
    BY <2>1 DEF Inv, TypeOK
  <2> QED
    BY <1>2, <1>8, <2>1, <2>2, StillInHandInv
<1> QED
  BY <1>5, <1>9, <1>10 DEF g

(* The other messages in GETNEXTMSG.                                       *)
LEMMA AfterOwnershipType ==
  ASSUME NEW old, NEW h, GoodHart(h), h.state = "GETNEXTMSG"
  PROVE  /\ GoodHart(AfterOwnership(old, h))
         /\ AfterOwnership(old, h).state \in {"GETNEXTMSG", "GETFIRSTSYNCMSG"}
<1>1. "GETFIRSTSYNCMSG" \in States /\ h \in Hart /\ h.counts \in CountsType
  BY DEF States, GoodHart, Hart
<1> DEFINE k == resetCounts(h.counts)
           g == [h EXCEPT !.stack = << >>]
           g2 == [g EXCEPT !.counts = k, !.state = "GETFIRSTSYNCMSG"]
           g3 == [h EXCEPT !.state = "GETFIRSTSYNCMSG"]
<1>2. k \in CountsType /\ NoBranchCount(k)
  BY <1>1, ResetCountsType
<1>3. GoodHart(g)
  <2>1. << >> \in Seq(Address)
    OBVIOUS
  <2> QED
    BY <1>1, <2>1 DEF GoodHart, Hart
<1>4. [h EXCEPT !.counts = resetCounts(@), !.stack = << >>, !.state = "GETFIRSTSYNCMSG"] = g2
  BY <1>1 DEF Hart
<1> HIDE DEF k, g
<1>5. GoodHart(g2) /\ g2.state = "GETFIRSTSYNCMSG"
  <2>1. "GETFIRSTSYNCMSG" \in States
    BY <1>1
  <2>2. GoodHart(g2)
    BY <1>2, <1>3, <2>1, CountsStateType
  <2>3. g2.state = "GETFIRSTSYNCMSG"
    BY <1>3 DEF GoodHart, Hart
  <2> QED
    BY <2>2, <2>3
<1>6. GoodHart(g3) /\ g3.state = "GETFIRSTSYNCMSG"
  BY <1>1, StateType DEF GoodHart, Idle
<1> HIDE DEF g2, g3
<1>7. AfterOwnership(old, h) \in {h, g2, g3}
  BY <1>4 DEF AfterOwnership, g3
<1> QED
  BY <1>5, <1>6, <1>7

(* The messages of GETNEXTMSG that are retired at once keep the invariant. *)
LEMMA NextMsgOtherInv ==
  Inv /\ (\/ NextMsgNotDecoding \/ NextMsgICT \/ NextMsgError \/ NextMsgData
          \/ NextMsgOwnership \/ NextMsgUnsupported) => Inv'
<1> SUFFICES ASSUME Inv,
                    \/ NextMsgNotDecoding \/ NextMsgICT \/ NextMsgError \/ NextMsgData
                    \/ NextMsgOwnership \/ NextMsgUnsupported
             PROVE  Inv'
  OBVIOUS
<1> DEFINE p == processTraceMessage(hart[currentCore], nm)
<1>1. GoodHart(p.h) /\ p.h \in Hart /\ p.h.state = hart[currentCore].state /\ out \in Out
  BY CurrentHart DEF GoodHart
<1>2. ~readNewTraceMessage /\ traceType' \in TraceTypes
      /\ hart[currentCore].state = "GETNEXTMSG"
  BY DEF NextMsgNotDecoding, NextMsgICT, NextMsgError, NextMsgData,
         NextMsgOwnership, NextMsgUnsupported, Handling, InState, Inv, TypeOK
<1> HIDE DEF p
<1>3. p.h.state \notin InFlight
  BY <1>1, <1>2 DEF InFlight
<1>4. CASE NextMsgNotDecoding
  <2>1. Finish(p.h, out) \/ Fail(p.h)
    BY <1>4 DEF NextMsgNotDecoding, p
  <2>2. CASE Finish(p.h, out)
    BY <1>1, <1>2, <1>3, <2>2, FinishInv
  <2>3. CASE Fail(p.h)
    BY <1>1, <1>2, <2>3, FailInv
  <2> QED
    BY <2>1, <2>2, <2>3
<1>5. CASE NextMsgICT
  <2> DEFINE o == WithICTInst(out, p.h, nm)
  <2>1. o \in Out
    BY <1>1, ICTInstType
  <2>2. \/ Fail(p.h)
        \/ Finish(p.h, o)
        \/ /\ SetHart(p.h)
           /\ out' = WithMsg(o, nm) /\ reported' = reported + 1
           /\ readNewTraceMessage' = TRUE
           /\ status' = "ERR" /\ Return("ERR")
           /\ Unread
    BY <1>5 DEF NextMsgICT, p
  <2> HIDE DEF o
  <2>3. CASE Fail(p.h)
    BY <1>1, <1>2, <2>3, FailInv
  <2>4. CASE Finish(p.h, o)
    BY <1>1, <1>2, <1>3, <2>1, <2>4, FinishInv
  <2>5. CASE /\ SetHart(p.h)
             /\ out' = WithMsg(o, nm) /\ reported' = reported + 1
             /\ readNewTraceMessage' = TRUE
             /\ status' = "ERR" /\ Return("ERR")
             /\ Unread
    <3>1. out' \in Out
      BY <2>1, <2>5, WithMsgType
    <3>2. reported' \in Nat
      BY <2>5 DEF Inv, TypeOK
    <3>3. readNewTraceMessage' \in BOOLEAN /\ (readNewTraceMessage => readNewTraceMessage')
      BY <2>5
    <3>4. status' \in {"ERR", "EOF", "DONE"} /\ Return(status')
      BY <2>5 DEF Return
    <3> QED
      BY <1>1, <1>2, <2>5, <3>1, <3>2, <3>3, <3>4, StopInv
  <2> QED
    BY <2>2, <2>3, <2>4, <2>5
<1>6. CASE NextMsgError
  BY <1>2, <1>6, ResetAllInv DEF NextMsgError
<1>7. CASE NextMsgData
  <2>1. Finish(p.h, out)
    BY <1>7 DEF NextMsgData, p
  <2> QED
    BY <1>1, <1>2, <1>3, <2>1, FinishInv
<1>8. CASE NextMsgOwnership
  <2> DEFINE g == AfterOwnership(hart[currentCore], p.h)
  <2>1. GoodHart(g) /\ g.state \notin InFlight
    BY <1>1, <1>2, AfterOwnershipType DEF InFlight
  <2>2. Fail(p.h) \/ Finish(p.h, out) \/ Finish(g, out)
    BY <1>8 DEF NextMsgOwnership, p
  <2> HIDE DEF g
  <2>3. CASE Fail(p.h)
    BY <1>1, <1>2, <2>3, FailInv
  <2>4. CASE Finish(p.h, out)
    BY <1>1, <1>2, <1>3, <2>4, FinishInv
  <2>5. CASE Finish(g, out)
    BY <1>1, <1>2, <2>1, <2>5, FinishInv
  <2> QED
    BY <2>2, <2>3, <2>4, <2>5
<1>9. CASE NextMsgUnsupported
  BY <1>2, <1>9, AbortInv DEF NextMsgUnsupported
<1> QED
  BY <1>4, <1>5, <1>6, <1>7, <1>8, <1>9
(* Once the status is not OK nothing but the types and the counts matter.  *)
LEMMA NotOKInv ==
  ASSUME Inv, status # "OK", traceType' \in TraceTypes,
         NEW h, GoodHart(h), SetHart(h),
         inCall' \in BOOLEAN, ret' \in {"OK", "ERR", "EOF", "DONE"}, out' \in Out,
         UNCHANGED <<status, readNewTraceMessage, reported>>, Unread
  PROVE  Inv'
<1>1. hart' \in [Cores -> Hart] /\ BranchCountsSpent'
  BY SetHartType
<1>2. TypeOK'
  BY <1>1 DEF Inv, TypeOK, Unread
<1>3. OneMessageInFlight' /\ EveryMessageOnce'
  BY DEF OneMessageInFlight, EveryMessageOnce
<1>4. InHand'
  BY DEF Inv, InHand, Unread
<1> QED
  BY <1>1, <1>2, <1>3, <1>4 DEF Inv
-----------------------------------------------------------------------------
(* A hart whose counts are used up has no branch count to leave behind.    *)
LEMMA CountsExpiredInv == Inv /\ CountsExpired => Inv'
<1> SUFFICES ASSUME Inv, CountsExpired PROVE Inv'
  OBVIOUS
<1> DEFINE h == hart[currentCore]
           g == [h EXCEPT !.state = "RETIREMESSAGE"]
<1>1. ~readNewTraceMessage /\ traceType' \in TraceTypes /\ h.state = "GETNEXTINSTRUCTION"
  BY DEF CountsExpired, Handling, InState, Inv, TypeOK
<1>2. GoodHart(h) /\ h \in Hart
  BY CurrentHart
<1>3. GoodHart(g)
  <2>1. h.counts \in CountsType /\ getCurrentCountType(h.counts) = "none"
    BY <1>2 DEF Hart, CountsExpired
  <2>2. NoBranchCount(h.counts)
    BY <2>1, SpentType
  <2> QED
    BY <1>2, <2>2, StateType DEF States
<1>4. g.currentProcessIndex = h.currentProcessIndex
  BY <1>2 DEF Hart
<1>5. currentCore \in Cores
  BY DEF Inv, TypeOK
<1>6. SetHart(g) /\ UNCHANGED <<status, readNewTraceMessage, reported>> /\ Unread
      /\ UNCHANGED <<inCall, ret, out>>
  BY DEF CountsExpired, Goto
<1>7. inCall' \in BOOLEAN /\ ret' \in {"OK", "ERR", "EOF", "DONE"} /\ out' \in Out
  BY <1>6 DEF Inv, TypeOK
<1>8. CASE status = "OK"
  <2>1. nm.tcode \in CountTCodes /\ h.currentProcessIndex # NoProcess
    BY <1>1, <1>5, <1>8 DEF Inv, OneMessageInFlight
  <2> HIDE DEF h, g
  <2> QED
    BY <1>1, <1>3, <1>4, <1>6, <1>7, <2>1, StillInHandInv
<1>9. CASE status # "OK"
  BY <1>1, <1>3, <1>6, <1>7, <1>9, NotOKInv
<1> QED
  BY <1>8, <1>9

(* What nextAddr answers, for the hart in hand.                            *)
LEMMA AnswerType ==
  ASSUME Inv, Executing, NEW ub \in BOOLEAN
  PROVE  LET h == hart[currentCore]
             g == Advanced(h, Answer(ub))
         IN  /\ GoodHart(g) /\ g.state = "GETNEXTINSTRUCTION"
             /\ g.currentProcessIndex = h.currentProcessIndex
             /\ Answer(ub).tt \in TraceTypes /\ Answer(ub).br \in BRFlags
             /\ Answer(ub).cr \in CRFlags /\ Answer(ub).pc \in Address \cup {NoAddr}
             /\ h.currentAddress \in Address
             /\ g.counts = Answer(ub).c /\ Answer(ub).c \in CountsType
             /\ Answer(ub).br = "unknown" => NoBranchCount(Answer(ub).c)
<1> DEFINE h == hart[currentCore]
           r == Answer(ub)
           g == [h EXCEPT !.counts = r.c]
           g2 == [g EXCEPT !.stack = r.stack]
<1>1. GoodHart(h) /\ h \in Hart /\ nm \in Message
  BY CurrentHart
<1>2. h.counts \in CountsType /\ h.stack \in Seq(Address)
      /\ h.currentProcessIndex \in ProcIndex \cup {NoProcess} /\ traceType \in TraceTypes
  BY <1>1 DEF Hart, GoodHart, Inv, TypeOK
<1>3. h.currentProcessIndex \in ProcIndex /\ Decodes(h.currentProcessIndex, h.currentAddress)
      /\ h.state = "GETNEXTINSTRUCTION"
  BY <1>2 DEF Executing, CountsLeft, InState
<1>4. h.currentAddress \in Address
  BY <1>3, DecodesType
<1>5. AnswerOK(r)
  BY <1>1, <1>2, <1>3, NextAddrType DEF Answer
<1>6. Advanced(h, r) = g2
  BY DEF Advanced
<1> HIDE DEF r
<1>7. r.c \in CountsType /\ r.stack \in Seq(Address)
  BY <1>2, <1>5 DEF AnswerOK
<1> HIDE DEF h
<1>8. g \in Hart /\ g.counts = r.c /\ g.state = h.state
      /\ g.currentProcessIndex = h.currentProcessIndex
  BY <1>1, <1>7 DEF Hart
<1> HIDE DEF g
<1>9. g2 \in Hart /\ g2.counts = r.c /\ g2.state = h.state
      /\ g2.currentProcessIndex = h.currentProcessIndex
  BY <1>7, <1>8 DEF Hart
<1> HIDE DEF g2
<1>10. GoodHart(Advanced(h, r)) /\ Advanced(h, r).state = "GETNEXTINSTRUCTION"
       /\ Advanced(h, r).currentProcessIndex = h.currentProcessIndex
       /\ Advanced(h, r).counts = r.c
  BY <1>3, <1>6, <1>7, <1>9 DEF GoodHart, Idle
<1> QED
  BY <1>4, <1>5, <1>10 DEF AnswerOK, h, r

(* A pc outside the image resynchronises the hart or ends the trace.       *)
LEMMA NoInstructionInv == Inv /\ NoInstruction => Inv'
<1> SUFFICES ASSUME Inv, NoInstruction PROVE Inv'
  OBVIOUS
<1> DEFINE h == hart[currentCore]
           g == [h EXCEPT !.state = "ERROR"]
<1>1. ~readNewTraceMessage /\ traceType' \in TraceTypes
  BY DEF NoInstruction, CountsLeft, InState, Inv, TypeOK
<1>2. GoodHart(h)
  BY CurrentHart
<1>3. GoodHart(g) /\ g.state = "ERROR"
  BY <1>2, StateType DEF States, Idle, GoodHart
<1>4. \/ Fail(h)
      \/ /\ SetHart(g) /\ Return("ERR")
         /\ UNCHANGED <<status, readNewTraceMessage, out, reported>> /\ Unread
  BY DEF NoInstruction
<1> HIDE DEF h, g
<1>5. CASE Fail(h)
  BY <1>1, <1>2, <1>5, FailInv DEF GoodHart
<1>6. CASE /\ SetHart(g) /\ Return("ERR")
           /\ UNCHANGED <<status, readNewTraceMessage, out, reported>> /\ Unread
  <2>1. inCall' \in BOOLEAN /\ ret' \in {"OK", "ERR", "EOF", "DONE"}
    BY <1>6 DEF Return
  <2>2. out' \in Out
    BY <1>6 DEF Inv, TypeOK
  <2>3. g.state \notin InFlight
    BY <1>3 DEF InFlight
  <2> QED
    BY <1>1, <1>3, <1>6, <2>1, <2>2, <2>3, StillInHandInv
<1> QED
  BY <1>4, <1>5, <1>6

(* Executing one instruction keeps the message in hand, or gives it up.    *)
LEMMA ExecuteInv ==
  ASSUME Inv, NEW ub \in BOOLEAN, ExecuteUndecided(ub) \/ ExecuteFails(ub) \/ Execute(ub)
  PROVE  Inv'
<1> DEFINE h == hart[currentCore]
           r == Answer(ub)
           a == Advanced(h, r)
<1>1. Executing /\ ~readNewTraceMessage /\ h.currentProcessIndex # NoProcess
      /\ h.state = "GETNEXTINSTRUCTION"
  BY DEF ExecuteUndecided, ExecuteFails, Execute, Executing, CountsLeft, InState
<1>2. /\ GoodHart(a) /\ a.state = "GETNEXTINSTRUCTION"
      /\ a.currentProcessIndex = h.currentProcessIndex
      /\ r.tt \in TraceTypes /\ r.br \in BRFlags /\ r.cr \in CRFlags
      /\ r.pc \in Address \cup {NoAddr} /\ h.currentAddress \in Address
      /\ a.counts = r.c /\ r.c \in CountsType
      /\ r.br = "unknown" => NoBranchCount(r.c)
  BY <1>1, AnswerType
<1>3. traceType' = r.tt /\ traceType' \in TraceTypes
  BY <1>2 DEF ExecuteUndecided, ExecuteFails, Execute
<1>4. status = "OK" => nm.tcode \in CountTCodes
  BY <1>1 DEF Inv, TypeOK, OneMessageInFlight
<1>5. CASE ExecuteUndecided(ub)
  <2> DEFINE g == [a EXCEPT !.state = "RETIREMESSAGE"]
  <2>1. SetHart(g) /\ UNCHANGED <<status, readNewTraceMessage, reported>> /\ Unread
        /\ UNCHANGED <<inCall, ret, out>>
    BY <1>5 DEF ExecuteUndecided, Goto
  <2>7. r.br = "unknown"
    BY <1>5 DEF ExecuteUndecided, Undecided
  <2> HIDE DEF a
  <2>2. GoodHart(g)
    <3>1. NoBranchCount(a.counts)
      BY <1>2, <2>7
    <3> QED
      BY <1>2, <3>1, StateType DEF States, GoodHart
  <2>3. g.currentProcessIndex = h.currentProcessIndex
    BY <1>2 DEF GoodHart, Hart
  <2>4. inCall' \in BOOLEAN /\ ret' \in {"OK", "ERR", "EOF", "DONE"} /\ out' \in Out
    BY <2>1 DEF Inv, TypeOK
  <2> HIDE DEF g, h
  <2>5. CASE status = "OK"
    BY <1>1, <1>3, <1>4, <2>1, <2>2, <2>3, <2>4, <2>5, StillInHandInv
  <2>6. CASE status # "OK"
    BY <1>1, <1>3, <2>1, <2>2, <2>4, <2>6, NotOKInv
  <2> QED
    BY <2>5, <2>6
<1>6. CASE ExecuteFails(ub)
  <2>1. Fail(a)
    BY <1>6 DEF ExecuteFails
  <2> QED
    BY <1>1, <1>2, <1>3, <2>1, FailInv DEF GoodHart
<1>7. CASE Execute(ub)
  <2> DEFINE more == getCurrentCountType(r.c) # "none"
             g1 == [a EXCEPT !.currentAddress = r.pc]
             g2 == [g1 EXCEPT !.enterISR = FALSE]
             s  == IF more THEN "GETNEXTINSTRUCTION" ELSE "RETIREMESSAGE"
             g  == [g2 EXCEPT !.state = s]
             f  == ({r.cr} \ {"none"}) \cup (IF h.enterISR THEN {"interrupt"} ELSE {})
  <2>1. [a EXCEPT !.currentAddress = r.pc, !.enterISR = FALSE,
                  !.state = IF more THEN @ ELSE "RETIREMESSAGE"] = g
    <3> HIDE DEF a, r, h, more
    <3> QED
      BY <1>2 DEF GoodHart, Hart
  <2>2. SetHart(g)
    BY <1>7, <2>1 DEF Execute
  <2>3. /\ out' = [out EXCEPT !.inst = h.currentAddress, !.br = r.br, !.cr = f]
        /\ UNCHANGED <<status, readNewTraceMessage, reported>> /\ Unread
    BY <1>7 DEF Execute
  <2>4. IF more THEN Return("OK") ELSE UNCHANGED <<inCall, ret>>
    BY <1>7 DEF Execute
  <2> HIDE DEF a, r, more
  <2>5. s \in States
    BY DEF States
  <2> HIDE DEF s
  <2>6. g1 \in Hart /\ g1.counts = a.counts /\ g1.currentProcessIndex = h.currentProcessIndex
    BY <1>2 DEF GoodHart, Hart
  <2> HIDE DEF g1
  <2>7. g2 \in Hart /\ g2.counts = a.counts /\ g2.currentProcessIndex = h.currentProcessIndex
    BY <2>6 DEF Hart
  <2> HIDE DEF g2
  <2>8. g \in Hart /\ g.counts = a.counts /\ g.currentProcessIndex = h.currentProcessIndex
    BY <2>5, <2>7 DEF Hart
  <2> HIDE DEF g
  <2>9. GoodHart(g)
    <3>1. s \in Idle => NoBranchCount(r.c)
      BY <1>2, SpentType DEF s, more, Idle
    <3>2. g.state = s
      BY <2>7 DEF Hart, g
    <3> QED
      BY <1>2, <2>8, <3>1, <3>2 DEF GoodHart
  <2>10. out' \in Out
    <3>1. f \in SUBSET CRFlags
      BY <1>2 DEF CRFlags
    <3> HIDE DEF f, h
    <3>2. out \in Out
      BY DEF Inv, TypeOK
    <3> QED
      BY <1>2, <2>3, <3>1, <3>2 DEF Out
  <2>11. inCall' \in BOOLEAN
    BY <2>4 DEF Return, Inv, TypeOK
  <2>12. ret' \in {"OK", "ERR", "EOF", "DONE"}
    BY <2>4 DEF Return, Inv, TypeOK
  <2> HIDE DEF h
  <2>13. CASE status = "OK"
    BY <1>1, <1>3, <1>4, <2>2, <2>3, <2>8, <2>9, <2>10, <2>11, <2>12, <2>13, StillInHandInv
  <2>14. CASE status # "OK"
    BY <1>1, <1>3, <2>2, <2>3, <2>9, <2>10, <2>11, <2>12, <2>14, NotOKInv
  <2> QED
    BY <2>13, <2>14
<1> QED
  BY <1>5, <1>6, <1>7

(* Retiring a message finds its branch counts spent.                       *)
LEMMA RetireMessageInv == Inv /\ RetireMessage => Inv'
<1> SUFFICES ASSUME Inv, RetireMessage PROVE Inv'
  OBVIOUS
<1> DEFINE p == processTraceMessage(hart[currentCore], nm)
           e == p.h.enterISR \/ nm.b_type = "EXCEPTION"
           g1 == [p.h EXCEPT !.enterISR = e]
           g == [g1 EXCEPT !.state = "GETNEXTMSG"]
<1>1. GoodHart(p.h) /\ p.h \in Hart /\ out \in Out /\ p.h.state = "RETIREMESSAGE"
  BY CurrentHart DEF GoodHart, RetireMessage, Handling, InState
<1>2. ~readNewTraceMessage /\ traceType' \in TraceTypes
  BY DEF RetireMessage, Handling, InState, Inv, TypeOK
<1>3. \/ Abort
      \/ Fail(p.h)
      \/ Finish(ResetHart(p.h), out)
      \/ Finish([p.h EXCEPT !.enterISR = @ \/ nm.b_type = "EXCEPTION",
                            !.state = "GETNEXTMSG"], out)
  BY DEF RetireMessage
<1> HIDE DEF p
<1>4. e \in BOOLEAN
  BY <1>1 DEF Hart
<1>5. [p.h EXCEPT !.enterISR = @ \/ nm.b_type = "EXCEPTION", !.state = "GETNEXTMSG"] = g
  BY <1>1 DEF Hart
<1> HIDE DEF e
<1>6. GoodHart(g1) /\ NoBranchCount(g1.counts)
  BY <1>1, <1>4 DEF GoodHart, Hart, Idle
<1> HIDE DEF g1
<1>7. GoodHart(g) /\ g.state = "GETNEXTMSG"
  BY <1>6, StateType DEF States, GoodHart
<1>8. "GETNEXTMSG" \notin InFlight /\ "GETFIRSTSYNCMSG" \notin InFlight
  BY DEF InFlight
<1>9. CASE Abort
  BY <1>2, <1>9, AbortInv
<1>10. CASE Fail(p.h)
  BY <1>1, <1>2, <1>10, FailInv
<1>11. CASE Finish(ResetHart(p.h), out)
  <2>1. GoodHart(ResetHart(p.h)) /\ ResetHart(p.h).state = "GETFIRSTSYNCMSG"
    BY <1>1, ResetType
  <2> QED
    BY <1>1, <1>2, <1>8, <1>11, <2>1, FinishInv
<1>12. CASE Finish(g, out)
  BY <1>1, <1>2, <1>7, <1>8, <1>12, FinishInv
<1> QED
  BY <1>3, <1>5, <1>9, <1>10, <1>11, <1>12

(* A message for a hart that was given up ends the trace.                  *)
LEMMA GivenUpInv == Inv /\ GivenUp => Inv'
<1> SUFFICES ASSUME Inv, GivenUp PROVE Inv'
  OBVIOUS
<1>1. status' \in {"ERR", "DONE"} /\ ret' = status' /\ inCall' = FALSE
  BY DEF GivenUp, Return
<1>2. TypeOK'
  <2>1. inCall' \in BOOLEAN
    BY <1>1
  <2> QED
    BY <1>1, <2>1 DEF GivenUp, Unread, Inv, TypeOK
<1>3. OneMessageInFlight' /\ EveryMessageOnce'
  BY <1>1 DEF OneMessageInFlight, EveryMessageOnce
<1>4. BranchCountsSpent' /\ InHand'
  BY DEF GivenUp, Unread, Inv, BranchCountsSpent, InHand
<1> QED
  BY <1>2, <1>3, <1>4 DEF Inv

-----------------------------------------------------------------------------
(* The invariant is inductive.                                             *)
THEOREM NextInv == Inv /\ [Next]_vars => Inv'
<1> SUFFICES ASSUME Inv, [Next]_vars PROVE Inv'
  OBVIOUS
<1>1. CASE Call
  BY <1>1, CallInv
<1>2. CASE Read
  BY <1>2, ReadMessageInv, ReadBadMessageInv, ReadEndInv DEF Read
<1>3. CASE Handle
  <2>1. CASE \E ub \in BOOLEAN : ExecuteUndecided(ub) \/ ExecuteFails(ub) \/ Execute(ub)
    BY <2>1, ExecuteInv
  <2> QED
    BY <1>3, <2>1, FirstInv, NextMsgCountsInv, NextMsgOtherInv, CountsExpiredInv,
       NoInstructionInv, RetireMessageInv, GivenUpInv DEF Handle
<1>4. CASE UNCHANGED vars
  BY <1>4 DEF vars, Inv, TypeOK, OneMessageInFlight, BranchCountsSpent,
              EveryMessageOnce, InHand
<1> QED
  BY <1>1, <1>2, <1>3, <1>4 DEF Next

(* The invariant holds in every reachable state of NextInstruction.        *)
THEOREM SpecInv == Spec => []Inv
BY InitInv, NextInv, PTL DEF Spec

(* Type correctness of the decoder's state, whatever messages arrive.      *)
THEOREM TypeCorrect == Spec => []TypeOK
<1>1. Inv => TypeOK
  BY DEF Inv
<1> QED
  BY <1>1, SpecInv, PTL

(* The message NextInstruction keeps in hand between calls belongs to the  *)
(* one hart that is executing it, for any number of harts.                 *)
THEOREM MessageInFlight == Spec => []OneMessageInFlight
<1>1. Inv => OneMessageInFlight
  BY DEF Inv
<1> QED
  BY <1>1, SpecInv, PTL

(* No hart takes a message while branch outcomes of another are left, so   *)
(* Count never refuses to load one.                                        *)
THEOREM NoBranchCountLeftOver == Spec => []BranchCountsSpent
<1>1. Inv => BranchCountsSpent
  BY DEF Inv
<1> QED
  BY <1>1, SpecInv, PTL

(* No message is lost or dealt with twice, however many are read.          *)
THEOREM MessagesAccounted == Spec => []EveryMessageOnce
<1>1. Inv => EveryMessageOnce
  BY DEF Inv
<1> QED
  BY <1>1, SpecInv, PTL
=============================================================================
