-------------------------- MODULE TraceStepProofs --------------------------
(***************************************************************************)
(* What a step of NextInstruction may never do: run a hart's time back,    *)
(* lose a hart's position without telling the caller, or leave counts with *)
(* a hart that waits for its first sync.                                   *)
(***************************************************************************)
EXTENDS TraceProofs

(***************************************************************************)
(* Time.                                                                   *)
(***************************************************************************)
(* A number lies in the block of b numbers its quotient by b names.        *)
LEMMA InBlock ==
  ASSUME NEW b \in Int, b > 0, NEW x \in Int, NEW q, q = x \div b
  PROVE  b * q <= x /\ x < b * q + b
OBVIOUS

(* The numbers with the same quotient by b lie within b of one another.    *)
LEMMA SameBlock ==
  ASSUME NEW b \in Nat \ {0}, NEW x \in Nat, NEW y \in Nat, x \div b = y \div b
  PROVE  x < y + b /\ y < x + b
<1> DEFINE q == x \div b
           k == b * q
<1>1. b \in Int /\ b > 0 /\ x \in Int /\ y \in Int /\ q \in Int /\ k \in Int
  OBVIOUS
<1>2. q = x \div b /\ q = y \div b
  OBVIOUS
<1> HIDE DEF q
<1>3. k <= x /\ x < k + b /\ k <= y /\ y < k + b
  BY <1>1, <1>2, InBlock
<1> HIDE DEF k
<1> QED
  BY <1>1, <1>3

(* No time from b below the end of its range upwards is followed by a      *)
(* smaller one.                                                            *)
LEMMA WrapNoticed ==
  ASSUME NEW last \in Time, NEW x \in Nat, x < last + TsMod, last < x + TsMod,
         last + TsMod < TimeMod
  PROVE  /\ x % TimeMod = x
         /\ (IF x < last THEN (x + TsMod) % TimeMod ELSE x) >= last
<1>1. TimeMod \in Nat \ {0} /\ TsMod \in Nat \ {0}
  BY NumbersAssumption
<1>2. x % TimeMod = x
  BY <1>1 DEF Time
<1>3. ASSUME x < last PROVE (x + TsMod) % TimeMod = x + TsMod
  BY <1>1, <1>3 DEF Time
<1> QED
  BY <1>1, <1>2, <1>3 DEF Time

(* processTS never answers with an earlier time, short of the end of the   *)
(* range of times.                                                         *)
LEMMA ProcessTSLater ==
  ASSUME NEW full \in BOOLEAN, NEW last \in Time, NEW ts \in 0 .. TsMod - 1
  PROVE  processTS(full, last, ts) >= last \/ last + TsMod >= TimeMod
<1> SUFFICES ASSUME ~(last + TsMod >= TimeMod)
             PROVE  processTS(full, last, ts) >= last
  OBVIOUS
<1>1. TimeMod \in Nat \ {0} /\ TsMod \in Nat \ {0} /\ last \in Nat /\ ts \in Nat
      /\ last + TsMod < TimeMod
  BY NumbersAssumption DEF Time
<1>2. CASE full
  <2> DEFINE q == last \div TsMod
             k == q * TsMod
             x == ts + k
  <2>1. k \in Int /\ k <= last /\ last < k + TsMod
    <3>1. TsMod \in Int /\ TsMod > 0 /\ last \in Int /\ q = last \div TsMod /\ q \in Int
      BY <1>1
    <3> HIDE DEF q
    <3>2. TsMod * q <= last /\ last < TsMod * q + TsMod
      BY <3>1, InBlock
    <3>3. k = TsMod * q
      BY <3>1
    <3> QED
      BY <3>1, <3>2, <3>3
  <2>2. k \in Nat
    <3>1. last \div TsMod \in Nat
      BY <1>1
    <3> HIDE DEF k
    <3>2. \A u, v \in Nat : u * v \in Nat
      OBVIOUS
    <3> QED
      BY <1>1, <3>1, <3>2 DEF k
  <2>3. processTS(full, last, ts) = IF x % TimeMod < last THEN ((x % TimeMod) + TsMod) % TimeMod
                                    ELSE x % TimeMod
    BY <1>2 DEF processTS
  <2> HIDE DEF k
  <2>4. x \in Nat /\ x < last + TsMod /\ last < x + TsMod
    BY <1>1, <2>1, <2>2
  <2> HIDE DEF x
  <2>5. x % TimeMod = x /\ (IF x < last THEN (x + TsMod) % TimeMod ELSE x) >= last
    BY <1>1, <2>4, WrapNoticed
  <2> QED
    BY <2>3, <2>5
<1>3. CASE ~full /\ last # 0
  <2> DEFINE x == Xor(last, ts)
  <2>1. ts \in Time
    BY <1>1, NumbersAssumption DEF Time
  <2>2. x \in Time /\ x \div TsMod = last \div TsMod
    BY <2>1, XorAssumption
  <2>3. processTS(full, last, ts) = IF x < last THEN (x + TsMod) % TimeMod ELSE x
    BY <1>3 DEF processTS
  <2> HIDE DEF x
  <2>4. x \in Nat
    BY <2>2, NumbersAssumption DEF Time
  <2>5. x < last + TsMod /\ last < x + TsMod
    BY <1>1, <2>2, <2>4, SameBlock
  <2>6. (IF x < last THEN (x + TsMod) % TimeMod ELSE x) >= last
    BY <1>1, <2>4, <2>5, WrapNoticed
  <2> QED
    BY <2>3, <2>6
<1>4. CASE ~full /\ last = 0
  BY <1>1, <1>4 DEF processTS
<1> QED
  BY <1>2, <1>3, <1>4

(* t is a time the hart h may have next.                                   *)
NotBefore(h, t) == t >= h.lastTime \/ h.lastTime + TsMod >= TimeMod

(* Taking the time of a message does not run the hart's time back.         *)
LEMMA TimedLater ==
  ASSUME NEW h, GoodHart(h), NEW m \in Message, NEW full \in BOOLEAN
  PROVE  /\ NotBefore(h, Timed(h, m, full).lastTime)
         /\ NotBefore(h, NotSync(h, m).lastTime)
         /\ NotBefore(h, h.lastTime)
<1>1. h.lastTime \in Time /\ h.lastTime \in Int
  BY NumbersAssumption DEF GoodHart, Hart, Time
<1>2. ASSUME NEW f \in BOOLEAN PROVE NotBefore(h, Timed(h, m, f).lastTime)
  <2>1. CASE m.ts = NoTs
    BY <1>1, <2>1 DEF NotBefore, Timed
  <2>2. CASE m.ts # NoTs
    <3>1. m.ts \in 0 .. TsMod - 1
      BY <2>2 DEF Message
    <3>2. Timed(h, m, f).lastTime = processTS(f, h.lastTime, m.ts)
      BY <2>2 DEF Timed, GoodHart, Hart
    <3> QED
      BY <1>1, <3>1, <3>2, ProcessTSLater DEF NotBefore
  <2> QED
    BY <2>1, <2>2
<1>3. GoodHart(Timed(h, m, FALSE))
  BY TimedType DEF Handled
<1>4. NotSync(h, m).lastTime = Timed(h, m, FALSE).lastTime
  BY <1>3 DEF NotSync, GoodHart, Hart
<1>5. NotBefore(h, Timed(h, m, FALSE).lastTime)
  BY <1>2
<1>6. NotBefore(h, h.lastTime)
  BY <1>1 DEF NotBefore
<1> QED
  BY <1>2, <1>4, <1>5, <1>6

(* Only the timestamp of a message changes the time.                       *)
LEMMA AddrKeepsTime ==
  ASSUME NEW h, GoodHart(h), NEW m \in Message, NEW a \in Address
  PROVE  /\ AtAddr(h, a).lastTime = h.lastTime
         /\ ICTContext(ICTAddr(h, m, a), m).lastTime = h.lastTime
<1>1. \A g : GoodHart(g) => AtAddr(g, a).lastTime = g.lastTime
  BY DEF AtAddr, GoodHart, Hart
<1>2. ICTAddr(h, m, a).lastTime = h.lastTime
  BY <1>1 DEF ICTAddr, GoodHart, Hart
<1> DEFINE g == ICTAddr(h, m, a)
<1>3. GoodHart(g)
  <2>1. m.ckdata1 \in Address /\ 0 \in Address
    BY NumbersAssumption DEF Message, Address
  <2>2. Xor(a, m.ckdata1) \in Address
    BY <2>1, XorAssumption
  <2>3. Handled(h, AtAddr(h, a))
    BY AddrType
  <2> QED
    BY <2>1, <2>2, <2>3 DEF Handled, ICTAddr, GoodHart, Hart
<1> HIDE DEF g
<1>4. ICTContext(g, m).lastTime = g.lastTime
  BY <1>3 DEF ICTContext, processPidPriv, GoodHart, Hart
<1> QED
  BY <1>1, <1>2, <1>4 DEF g

(* processTraceMessage does not run the hart's time back.                  *)
LEMMA ProcessLater ==
  ASSUME NEW h, GoodHart(h), NEW m \in Message
  PROVE  NotBefore(h, processTraceMessage(h, m).h.lastTime)
<1> DEFINE t == Timed(h, m, FALSE)
           u == Timed(h, m, TRUE)
           n == NotSync(h, m)
<1>1. /\ NotBefore(h, t.lastTime) /\ NotBefore(h, u.lastTime) /\ NotBefore(h, n.lastTime)
      /\ NotBefore(h, h.lastTime)
  BY TimedLater
<1>2. GoodHart(t) /\ GoodHart(u) /\ GoodHart(n)
  BY TimedType DEF Handled
<1>3. m.addr \in Address /\ 0 \in Address
  BY NumbersAssumption DEF Message, Address
<1> HIDE DEF t, u, n
<1>4. NotBefore(h, ProcessSync(h, m).h.lastTime)
  <2> DEFINE g == AtAddr(u, m.addr)
  <2>1. GoodHart(g) /\ g.lastTime = u.lastTime
    BY <1>2, <1>3, AddrType, AddrKeepsTime DEF Handled
  <2>2. ProcessSync(h, m).h \in
          {h, [g EXCEPT !.stack = << >>, !.counts = resetCounts(@), !.prevMsgWasSync = TRUE]}
    BY DEF ProcessSync, OK, Err, u
  <2> HIDE DEF g
  <2>3. [g EXCEPT !.stack = << >>, !.counts = resetCounts(@), !.prevMsgWasSync = TRUE].lastTime
        = g.lastTime
    BY <2>1 DEF GoodHart, Hart
  <2> QED
    BY <1>1, <2>1, <2>2, <2>3
<1>5. NotBefore(h, ProcessOwnership(h, m).h.lastTime)
  <2>1. ProcessOwnership(h, m).h \in
          {t, [t EXCEPT !.currentPrv = m.prv], processPidPriv(t, m.pid, m.prv)}
    BY DEF ProcessOwnership, OK, Err, t
  <2>2. ProcessOwnership(h, m).h.lastTime = t.lastTime
    BY <1>2, <2>1 DEF processPidPriv, GoodHart, Hart
  <2> QED
    BY <1>1, <2>2
<1>6. NotBefore(h, ProcessICT(h, m).h.lastTime)
  <2>1. FullAddr(n, m.addr) \in Address
    BY <1>2, <1>3, AddrType
  <2>2. ICTContext(ICTAddr(n, m, FullAddr(n, m.addr)), m).lastTime = n.lastTime
    BY <1>2, <2>1, AddrKeepsTime
  <2> QED
    BY <1>1, <2>2 DEF ProcessICT, OK, Err, n
<1>7. NotBefore(h, ProcessICTWS(h, m).h.lastTime)
  <2> DEFINE v == [u EXCEPT !.prevMsgWasSync = TRUE]
  <2>1. GoodHart(v) /\ v.lastTime = u.lastTime
    BY <1>2 DEF GoodHart, Hart
  <2>2. ProcessICTWS(h, m) = IF ICTWellFormed(m) THEN OK(ICTContext(ICTAddr(v, m, m.addr), m))
                             ELSE Err(v)
    BY DEF ProcessICTWS, u
  <2> HIDE DEF v
  <2>3. ICTContext(ICTAddr(v, m, m.addr), m).lastTime = v.lastTime
    BY <1>3, <2>1, AddrKeepsTime
  <2> QED
    BY <1>1, <2>1, <2>2, <2>3 DEF OK, Err
<1>8. NotBefore(h, ProcessIndirect(h, m).h.lastTime)
  <2>1. FullAddr(h, m.addr) \in Address
    BY <1>3, AddrType
  <2>2. AtAddr(n, FullAddr(h, m.addr)).lastTime = n.lastTime
    BY <1>2, <2>1, AddrKeepsTime
  <2> QED
    BY <1>1, <2>2 DEF ProcessIndirect, OK, n
<1>9. NotBefore(h, AtAddr(n, 0).lastTime)
  BY <1>1, <1>2, <1>3, AddrKeepsTime
<1> QED
  BY <1>1, <1>4, <1>5, <1>6, <1>7, <1>8, <1>9 DEF processTraceMessage, OK, Err, t, n

(* Both forms of resetTrace forget the time.                               *)
LEMMA ResetForgetsTime ==
  ASSUME NEW h \in Hart
  PROVE  ResetAllHart(h).lastTime = 0 /\ ResetHart(h).lastTime = 0
<1>1. InitialHart \in Hart /\ InitialHart.lastTime = 0
  BY InitialHartType DEF GoodHart, InitialHart
<1>2. ResetAllHart(h).lastTime = 0
  BY <1>1 DEF ResetAllHart, Hart
<1>3. ResetAllHart(h) \in Hart
  BY ResetType DEF GoodHart
<1>4. ResetHart(h).lastTime = ResetAllHart(h).lastTime
  BY <1>3 DEF ResetHart, Hart
<1> QED
  BY <1>2, <1>4
-----------------------------------------------------------------------------
(***************************************************************************)
(* A step as each hart sees it.                                            *)
(***************************************************************************)
Tracked == {"GETNEXTMSG", "GETNEXTINSTRUCTION", "RETIREMESSAGE"}

(* The call tells that something is wrong, or hands out why.               *)
Told == \/ out'.err
        \/ out'.msg /\ nm.tcode \in {"ERROR", "CORRELATION", "OWNERSHIP_TRACE"}
        \/ ret' # "OK"

(* What both properties say of hart h and its successor h2.                *)
OnTime(h, h2) == \/ h2.lastTime >= h.lastTime
                 \/ h2.state = "GETFIRSTSYNCMSG" /\ h2.lastTime = 0
                 \/ h.lastTime + TsMod >= TimeMod

Loses(h, h2) == h.state \in Tracked /\ h2.state \notin Tracked

StepOK == \A c \in Cores : OnTime(hart[c], hart'[c]) /\ (Loses(hart[c], hart'[c]) => Told)

(* Only a data acquisition is consumed without being handed out.           *)
DataOnly == nm.itc => nm.tcode = "DATA_ACQUISITION"

(* A hart that keeps its time and is not lost is in order.                 *)
LEMMA SameHart ==
  ASSUME Inv, NEW c \in Cores
  PROVE  OnTime(hart[c], hart[c]) /\ NotBefore(hart[c], hart[c].lastTime) /\ GoodHart(hart[c])
         /\ hart[c] \in Hart
<1>1. GoodHart(hart[c]) /\ hart[c] \in Hart
  BY DEF Inv, TypeOK, BranchCountsSpent, GoodHart, Idle, NoBranchCount
<1>2. hart[c].lastTime \in Int
  BY <1>1, NumbersAssumption DEF Hart, Time
<1> QED
  BY <1>1, <1>2 DEF OnTime, NotBefore

(* A step that sets the current hart only.                                 *)
LEMMA SetHartStep ==
  ASSUME Inv, NEW h, SetHart(h), OnTime(hart[currentCore], h),
         Loses(hart[currentCore], h) => Told
  PROVE  StepOK
<1>1. hart \in [Cores -> Hart] /\ currentCore \in Cores
  BY DEF Inv, TypeOK
<1>2. /\ hart'[currentCore] = h
      /\ \A c \in Cores : c # currentCore => hart'[c] = hart[c]
  BY <1>1 DEF SetHart
<1>3. ASSUME NEW c \in Cores, c # currentCore
      PROVE  OnTime(hart[c], hart'[c]) /\ ~Loses(hart[c], hart'[c])
  BY <1>2, <1>3, SameHart DEF Loses
<1> QED
  BY <1>2, <1>3 DEF StepOK

(* A step that leaves the harts alone.                                     *)
LEMMA NoHartStep == Inv /\ UNCHANGED hart => StepOK
BY SameHart DEF StepOK, Loses

(* resetTrace(-1) forgets the time of every hart.                          *)
LEMMA ResetAllStep ==
  ASSUME Inv, hart' = [c \in Cores |-> ResetAllHart(hart[c])], Told
  PROVE  StepOK
<1>1. ASSUME NEW c \in Cores
      PROVE  hart'[c].state = "GETFIRSTSYNCMSG" /\ hart'[c].lastTime = 0
  BY SameHart, ResetType, ResetForgetsTime
<1> QED
  BY <1>1 DEF StepOK, OnTime

(* A message that explains the loss is handed out.                         *)
LEMMA MessageHandedOut ==
  ASSUME DataOnly, NEW o \in Out, nm.tcode \in {"ERROR", "CORRELATION", "OWNERSHIP_TRACE"}
  PROVE  WithMsg(o, nm).msg
BY DEF DataOnly, WithMsg, Filtered, ICTTCodes, Out

(* Retiring the message in hand.                                           *)
LEMMA FinishStep ==
  ASSUME Inv, DataOnly, NEW h, NEW o \in Out, Finish(h, o), OnTime(hart[currentCore], h),
         Loses(hart[currentCore], h) => nm.tcode \in {"CORRELATION", "OWNERSHIP_TRACE"}
  PROVE  StepOK
<1>1. Loses(hart[currentCore], h) => Told
  BY MessageHandedOut DEF Finish, Told
<1> QED
  BY <1>1, SetHartStep DEF Finish

(* Giving up on a message says so.                                         *)
LEMMA FailStep ==
  ASSUME Inv, NEW h \in Hart, NotBefore(hart[currentCore], h.lastTime), Fail(h)
  PROVE  StepOK
<1>1. Told
  <2>1. [WithMsg(out, nm) EXCEPT !.err = TRUE].err
    <3>1. WithMsg(out, nm) \in Out
      BY WithMsgType DEF Inv, TypeOK
    <3> QED
      BY <3>1 DEF Out
  <2> QED
    BY <2>1 DEF Fail, Told
<1>2. CASE TolerateErrors
  <2>1. ResetHart(h).state = "GETFIRSTSYNCMSG" /\ ResetHart(h).lastTime = 0
    BY ResetType, ResetForgetsTime
  <2>2. SetHart(ResetHart(h))
    BY <1>2 DEF Fail
  <2> QED
    BY <1>1, <2>1, <2>2, SetHartStep DEF OnTime
<1>3. CASE ~TolerateErrors
  <2>1. [h EXCEPT !.state = "ERROR"].lastTime = h.lastTime
    BY DEF Hart
  <2>2. SetHart([h EXCEPT !.state = "ERROR"])
    BY <1>3 DEF Fail
  <2>3. OnTime(hart[currentCore], [h EXCEPT !.state = "ERROR"])
    BY <2>1 DEF OnTime, NotBefore
  <2> QED
    BY <1>1, <2>2, <2>3, SetHartStep
<1> QED
  BY <1>2, <1>3

(* The current hart moves to another state and the call fails, or the      *)
(* state is one in which the hart has its position.                        *)
LEMMA StateStep ==
  ASSUME Inv, NEW s, SetHart([hart[currentCore] EXCEPT !.state = s]),
         s \in Tracked \/ ret' # "OK"
  PROVE  StepOK
<1> DEFINE h == hart[currentCore]
<1>1. currentCore \in Cores
  BY DEF Inv, TypeOK
<1>2. h \in Hart /\ NotBefore(h, h.lastTime)
  BY <1>1, SameHart
<1>3. [h EXCEPT !.state = s].lastTime = h.lastTime /\ [h EXCEPT !.state = s].state = s
  BY <1>2 DEF Hart
<1>4. OnTime(h, [h EXCEPT !.state = s])
  BY <1>2, <1>3 DEF OnTime, NotBefore
<1>5. Loses(h, [h EXCEPT !.state = s]) => Told
  BY <1>3 DEF Loses, Told
<1> QED
  BY <1>4, <1>5, SetHartStep
-----------------------------------------------------------------------------
(***************************************************************************)
(* One lemma per group of actions.                                         *)
(***************************************************************************)
(* What processTraceMessage makes of the hart in hand.                     *)
LEMMA CurrentLater ==
  ASSUME Inv
  PROVE  LET h == hart[currentCore]
             p == processTraceMessage(h, nm)
         IN  /\ h \in Hart /\ NotBefore(h, h.lastTime) /\ out \in Out
             /\ p.h \in Hart /\ p.h.state = h.state /\ NotBefore(h, p.h.lastTime)
             /\ OnTime(h, p.h)
<1>1. currentCore \in Cores
  BY DEF Inv, TypeOK
<1>2. hart[currentCore] \in Hart /\ NotBefore(hart[currentCore], hart[currentCore].lastTime)
      /\ GoodHart(hart[currentCore])
  BY <1>1, SameHart
<1> DEFINE h == hart[currentCore]
           p == processTraceMessage(h, nm)
<1>3. GoodHart(p.h) /\ p.h.state = h.state /\ nm \in Message /\ out \in Out
  BY CurrentHart
<1>4. NotBefore(h, p.h.lastTime)
  BY <1>2, <1>3, ProcessLater
<1>5. OnTime(h, p.h)
  BY <1>4 DEF NotBefore, OnTime
<1> QED
  BY <1>2, <1>3, <1>4, <1>5 DEF GoodHart

(* Calling and reading.                                                    *)
LEMMA ReadStep == Inv /\ (Call \/ Read) => StepOK
<1> SUFFICES ASSUME Inv, Call \/ Read PROVE StepOK
  OBVIOUS
<1>1. CASE Call
  BY <1>1, NoHartStep DEF Call
<1>2. ASSUME NEW m \in Messages, ReadMessage(m) PROVE StepOK
  <2>1. CASE UNCHANGED hart
    BY <2>1, NoHartStep
  <2>2. CASE hart' = [hart EXCEPT ![m.core].state = "ERROR"] /\ ret' = "ERR"
    <3>1. hart \in [Cores -> Hart] /\ m.core \in Cores
      BY MessagesAssumption DEF Inv, TypeOK, Message
    <3>2. ASSUME NEW c \in Cores PROVE OnTime(hart[c], hart'[c])
      <4>1. hart[c] \in Hart /\ NotBefore(hart[c], hart[c].lastTime)
        BY SameHart
      <4>2. hart'[c].lastTime = hart[c].lastTime
        BY <2>2, <3>1, <4>1 DEF Hart
      <4> QED
        BY <4>1, <4>2 DEF OnTime, NotBefore
    <3> QED
      BY <2>2, <3>2 DEF StepOK, Told
  <2> QED
    BY <1>2, <2>1, <2>2 DEF ReadMessage, Return
<1>3. CASE ReadBadMessage
  <2>1. Told
    <3>1. out \in Out
      BY DEF Inv, TypeOK
    <3> QED
      BY <1>3, <3>1 DEF ReadBadMessage, Told, Out
  <2>2. CASE TolerateErrors
    BY <1>3, <2>1, <2>2, ResetAllStep DEF ReadBadMessage
  <2>3. CASE ~TolerateErrors
    <3>1. SetHart([hart[currentCore] EXCEPT !.state = "ERROR"]) /\ ret' # "OK"
      BY <1>3, <2>3 DEF ReadBadMessage, Return
    <3> QED
      BY <3>1, StateStep
  <2> QED
    BY <2>2, <2>3
<1>4. CASE ReadEOF
  <2>1. SetHart([hart[currentCore] EXCEPT !.state = "DONE"]) /\ ret' # "OK"
    BY <1>4 DEF ReadEOF, Return
  <2> QED
    BY <2>1, StateStep
<1>5. CASE ReadError
  <2>1. SetHart([hart[currentCore] EXCEPT !.state = "ERROR"]) /\ ret' # "OK"
    BY <1>5 DEF ReadError, Return
  <2> QED
    BY <2>1, StateStep
<1> QED
  BY <1>1, <1>2, <1>3, <1>4, <1>5 DEF Read

(* An error no setting tolerates ends the call.                            *)
LEMMA AbortStep == Inv /\ Abort => StepOK
<1> SUFFICES ASSUME Inv, Abort PROVE StepOK
  OBVIOUS
<1>1. SetHart([hart[currentCore] EXCEPT !.state = "ERROR"]) /\ ret' # "OK"
  BY DEF Abort, Return
<1> QED
  BY <1>1, StateStep

(* An error message resets every hart and is handed out.                   *)
LEMMA ErrorStep == Inv /\ DataOnly /\ nm.tcode = "ERROR" /\ ResetAll => StepOK
<1> SUFFICES ASSUME Inv, DataOnly, nm.tcode = "ERROR", ResetAll PROVE StepOK
  OBVIOUS
<1>1. out \in Out
  BY DEF Inv, TypeOK
<1>2. Told
  BY <1>1, MessageHandedOut DEF ResetAll, Told
<1> QED
  BY <1>2, ResetAllStep DEF ResetAll

(* The steps of state GETFIRSTSYNCMSG, where there is nothing to lose.     *)
LEMMA FirstStep ==
  Inv /\ DataOnly /\ (FirstSync \/ FirstICTWS \/ FirstOther \/ FirstError) => StepOK
<1> SUFFICES ASSUME Inv, DataOnly, FirstSync \/ FirstICTWS \/ FirstOther \/ FirstError
             PROVE  StepOK
  OBVIOUS
<1> DEFINE h == hart[currentCore]
           p == processTraceMessage(h, nm)
<1>1. h \in Hart /\ out \in Out /\ p.h \in Hart /\ NotBefore(h, p.h.lastTime) /\ OnTime(h, p.h)
  BY CurrentLater
<1>2. \A g : ~Loses(h, g)
  BY DEF FirstSync, FirstICTWS, FirstOther, FirstError, Handling, InState, Loses, Tracked
<1>3. ASSUME NEW g \in Hart, NotBefore(h, g.lastTime)
      PROVE  OnTime(h, [g EXCEPT !.counts = resetCounts(@), !.state = "GETNEXTMSG"])
  <2>1. [g EXCEPT !.counts = resetCounts(@), !.state = "GETNEXTMSG"].lastTime = g.lastTime
    BY DEF Hart
  <2> QED
    BY <1>3, <2>1 DEF OnTime, NotBefore
<1>4. CASE FirstSync
  <2>1. \/ Fail(p.h)
        \/ Finish([p.h EXCEPT !.counts = resetCounts(@), !.state = "GETNEXTMSG"], out)
    BY <1>4 DEF FirstSync
  <2> HIDE DEF p, h
  <2> QED
    BY <1>1, <1>2, <1>3, <2>1, FailStep, FinishStep DEF h
<1>5. CASE FirstICTWS
  <2> DEFINE g == [p.h EXCEPT !.currentAddress = IF @ = 0 THEN p.h.lastFaddr ELSE @]
  <2>1. \/ Fail(p.h)
        \/ Finish(g, out)
        \/ Finish([g EXCEPT !.counts = resetCounts(@), !.state = "GETNEXTMSG"],
                  WithICTInst(out, g, nm))
    BY <1>5 DEF FirstICTWS
  <2> HIDE DEF p, h
  <2>2. g \in Hart /\ g.lastTime = p.h.lastTime
    BY <1>1 DEF Hart
  <2> HIDE DEF g
  <2>3. WithICTInst(out, g, nm) \in Out
    BY <1>1, <2>2, ICTInstType
  <2>4. OnTime(h, g) /\ NotBefore(h, g.lastTime)
    BY <1>1, <2>2 DEF OnTime, NotBefore
  <2> QED
    BY <1>1, <1>2, <1>3, <2>1, <2>2, <2>3, <2>4, FailStep, FinishStep DEF h
<1>6. CASE FirstOther
  <2>1. Finish(p.h, out) \/ Fail(p.h)
    BY <1>6 DEF FirstOther
  <2> HIDE DEF p, h
  <2> QED
    BY <1>1, <1>2, <2>1, FailStep, FinishStep DEF h
<1>7. CASE FirstError
  BY <1>7, ErrorStep DEF FirstError
<1> QED
  BY <1>4, <1>5, <1>6, <1>7

(* The steps of state GETNEXTMSG: only a change of process loses the pc.   *)
LEMMA NextMsgStep ==
  Inv /\ DataOnly /\ (\/ NextMsgCounts \/ NextMsgNotDecoding \/ NextMsgICT \/ NextMsgError
                      \/ NextMsgData \/ NextMsgOwnership \/ NextMsgUnsupported) => StepOK
<1> SUFFICES ASSUME Inv, DataOnly,
                    \/ NextMsgCounts \/ NextMsgNotDecoding \/ NextMsgICT \/ NextMsgError
                    \/ NextMsgData \/ NextMsgOwnership \/ NextMsgUnsupported
             PROVE  StepOK
  OBVIOUS
<1> DEFINE h == hart[currentCore]
           p == processTraceMessage(h, nm)
<1>1. /\ h \in Hart /\ out \in Out /\ p.h \in Hart /\ NotBefore(h, p.h.lastTime)
      /\ OnTime(h, p.h) /\ p.h.state = h.state /\ NotBefore(h, h.lastTime)
  BY CurrentLater
<1>2. ~Loses(h, p.h)
  BY <1>1 DEF Loses
<1>3. CASE NextMsgCounts
  <2> DEFINE k == setCounts(h.counts, nm).c
             g == [h EXCEPT !.counts = k]
             g2 == [h EXCEPT !.counts = k, !.state = "GETNEXTINSTRUCTION"]
  <2>1. Fail(g) \/ SetHart(g2)
    BY <1>3 DEF NextMsgCounts, Goto
  <2>2. k \in CountsType
    <3>1. h.counts \in CountsType /\ nm \in Message
      BY <1>1, CurrentHart DEF Hart
    <3> QED
      BY <3>1, SetCountsType
  <2> HIDE DEF k, h
  <2>3. g \in Hart /\ g.lastTime = h.lastTime
    BY <1>1, <2>2 DEF Hart
  <2>4. g2.lastTime = h.lastTime /\ g2.state = "GETNEXTINSTRUCTION"
    BY <1>1 DEF Hart
  <2>5. OnTime(h, g2) /\ ~Loses(h, g2)
    BY <1>1, <2>4 DEF OnTime, NotBefore, Loses, Tracked
  <2> HIDE DEF g, g2
  <2> QED
    BY <1>1, <2>1, <2>3, <2>5, FailStep, SetHartStep DEF h
<1>4. CASE NextMsgNotDecoding
  <2>1. Finish(p.h, out) \/ Fail(p.h)
    BY <1>4 DEF NextMsgNotDecoding
  <2> HIDE DEF p, h
  <2> QED
    BY <1>1, <1>2, <2>1, FailStep, FinishStep DEF h
<1>5. CASE NextMsgICT
  <2>1. \/ Fail(p.h)
        \/ Finish(p.h, WithICTInst(out, p.h, nm))
        \/ SetHart(p.h)
    BY <1>5 DEF NextMsgICT
  <2>2. WithICTInst(out, p.h, nm) \in Out
    BY <1>1, ICTInstType
  <2> HIDE DEF p, h
  <2> QED
    BY <1>1, <1>2, <2>1, <2>2, FailStep, FinishStep, SetHartStep DEF h
<1>6. CASE NextMsgError
  BY <1>6, ErrorStep DEF NextMsgError
<1>7. CASE NextMsgData
  <2>1. Finish(p.h, out)
    BY <1>7 DEF NextMsgData
  <2> HIDE DEF p, h
  <2> QED
    BY <1>1, <1>2, <2>1, FinishStep DEF h
<1>8. CASE NextMsgOwnership
  <2> DEFINE g == AfterOwnership(h, p.h)
  <2>1. (Fail(p.h) \/ Finish(p.h, out) \/ Finish(g, out)) /\ nm.tcode = "OWNERSHIP_TRACE"
    BY <1>8 DEF NextMsgOwnership
  <2>2. g.lastTime = p.h.lastTime
    <3> HIDE DEF p, h
    <3>1. [p.h EXCEPT !.counts = resetCounts(@), !.stack = << >>,
                      !.state = "GETFIRSTSYNCMSG"].lastTime = p.h.lastTime
      BY <1>1 DEF Hart
    <3>2. [p.h EXCEPT !.state = "GETFIRSTSYNCMSG"].lastTime = p.h.lastTime
      BY <1>1 DEF Hart
    <3> QED
      BY <3>1, <3>2, Zenon DEF AfterOwnership
  <2> HIDE DEF p, h, g
  <2>3. OnTime(h, g)
    BY <1>1, <2>2 DEF OnTime, NotBefore
  <2> QED
    BY <1>1, <1>2, <2>1, <2>3, FailStep, FinishStep DEF h
<1>9. CASE NextMsgUnsupported
  BY <1>9, AbortStep DEF NextMsgUnsupported
<1> QED
  BY <1>3, <1>4, <1>5, <1>6, <1>7, <1>8, <1>9

(* The steps of state GETNEXTINSTRUCTION.                                  *)
LEMMA InstructionStep ==
  ASSUME Inv,
         \/ CountsExpired \/ NoInstruction
         \/ \E ub \in BOOLEAN : ExecuteUndecided(ub) \/ ExecuteFails(ub) \/ Execute(ub)
  PROVE  StepOK
<1> DEFINE h == hart[currentCore]
<1>1. h \in Hart /\ NotBefore(h, h.lastTime)
  BY CurrentLater
<1>2. CASE CountsExpired
  BY <1>2, StateStep DEF CountsExpired, Goto, Tracked
<1>3. CASE NoInstruction
  <2>1. \/ SetHart([h EXCEPT !.state = "ERROR"]) /\ ret' # "OK"
        \/ Fail(h)
    BY <1>3 DEF NoInstruction, Return
  <2> QED
    BY <1>1, <2>1, StateStep, FailStep
<1>4. ASSUME NEW ub \in BOOLEAN, ExecuteUndecided(ub) \/ ExecuteFails(ub) \/ Execute(ub)
      PROVE  StepOK
  <2> DEFINE r == Answer(ub)
             a == Advanced(h, r)
  <2>1. Executing
    BY <1>4 DEF ExecuteUndecided, ExecuteFails, Execute
  <2>2. GoodHart(a) /\ a.state = "GETNEXTINSTRUCTION"
    BY <2>1, AnswerType
  <2>3. a.lastTime = h.lastTime
    BY <1>1 DEF Advanced, Hart
  <2>4. CASE ExecuteUndecided(ub)
    <3> DEFINE g == [a EXCEPT !.state = "RETIREMESSAGE"]
    <3>1. SetHart(g)
      BY <2>4 DEF ExecuteUndecided, Goto
    <3> HIDE DEF a, r, h
    <3>2. g.lastTime = h.lastTime /\ g.state = "RETIREMESSAGE"
      BY <2>2, <2>3 DEF GoodHart, Hart
    <3>3. OnTime(h, g) /\ ~Loses(h, g)
      BY <1>1, <3>2 DEF OnTime, NotBefore, Loses, Tracked
    <3> HIDE DEF g
    <3> QED
      BY <3>1, <3>3, SetHartStep DEF h
  <2>5. CASE ExecuteFails(ub)
    <3>1. Fail(a)
      BY <2>5 DEF ExecuteFails
    <3> HIDE DEF a, r, h
    <3>2. a \in Hart /\ NotBefore(h, a.lastTime)
      BY <1>1, <2>2, <2>3 DEF GoodHart
    <3> QED
      BY <3>1, <3>2, FailStep DEF h
  <2>6. CASE Execute(ub)
    <3> DEFINE more == getCurrentCountType(r.c) # "none"
               g == [a EXCEPT !.currentAddress = r.pc, !.enterISR = FALSE,
                              !.state = IF more THEN @ ELSE "RETIREMESSAGE"]
    <3>1. SetHart(g)
      BY <2>6 DEF Execute
    <3> HIDE DEF a, r, h, more
    <3>2. g.lastTime = h.lastTime
      BY <2>2, <2>3 DEF GoodHart, Hart
    <3>3. g.state \in {"GETNEXTINSTRUCTION", "RETIREMESSAGE"}
      BY <2>2 DEF GoodHart, Hart
    <3>4. OnTime(h, g) /\ ~Loses(h, g)
      BY <1>1, <3>2, <3>3 DEF OnTime, NotBefore, Loses, Tracked
    <3> HIDE DEF g
    <3> QED
      BY <3>1, <3>4, SetHartStep DEF h
  <2> QED
    BY <1>4, <2>4, <2>5, <2>6
<1> QED
  BY <1>2, <1>3, <1>4

(* Retiring a message: only a correlation gives the position up.           *)
LEMMA RetireStep == Inv /\ DataOnly /\ RetireMessage => StepOK
<1> SUFFICES ASSUME Inv, DataOnly, RetireMessage PROVE StepOK
  OBVIOUS
<1> DEFINE h == hart[currentCore]
           p == processTraceMessage(h, nm)
           g == [p.h EXCEPT !.enterISR = @ \/ nm.b_type = "EXCEPTION", !.state = "GETNEXTMSG"]
<1>1. /\ out \in Out /\ p.h \in Hart /\ NotBefore(h, p.h.lastTime)
  BY CurrentLater
<1>2. \/ Abort
      \/ Fail(p.h)
      \/ Finish(ResetHart(p.h), out) /\ nm.tcode = "CORRELATION"
      \/ Finish(g, out)
  BY DEF RetireMessage
<1> HIDE DEF p, h
<1>3. g.lastTime = p.h.lastTime /\ g.state = "GETNEXTMSG"
  BY <1>1 DEF Hart
<1>4. OnTime(h, g) /\ ~Loses(h, g)
  BY <1>1, <1>3 DEF OnTime, NotBefore, Loses, Tracked
<1> HIDE DEF g
<1>5. ResetHart(p.h).state = "GETFIRSTSYNCMSG" /\ ResetHart(p.h).lastTime = 0
  BY <1>1, ResetType, ResetForgetsTime
<1>6. OnTime(h, ResetHart(p.h))
  BY <1>5 DEF OnTime
<1> QED
  BY <1>1, <1>2, <1>4, <1>6, AbortStep, FailStep, FinishStep DEF h

(* Every step of NextInstruction keeps time and tells of a loss.           *)
LEMMA NextStep == Inv /\ DataOnly /\ Next => StepOK
<1>1. Inv /\ GivenUp => StepOK
  BY NoHartStep DEF GivenUp
<1> QED
  BY <1>1, ReadStep, FirstStep, NextMsgStep, InstructionStep, RetireStep DEF Next, Handle

-----------------------------------------------------------------------------
(* Sign extension changes neither code nor destination of a message.       *)
LEMMA SignExtendedKeeps ==
  ASSUME NEW m \in Message
  PROVE  SignExtended(m).tcode = m.tcode /\ SignExtended(m).itc = m.itc
<1> DEFINE a == signExtendAddr(m.addr)
           b == IF m.ckdf = 1 THEN signExtendAddr(m.ckdata1) ELSE m.ckdata1
<1>1. SignExtended(m) \in {m, [m EXCEPT !.addr = a], [m EXCEPT !.addr = a, !.ckdata1 = b]}
  BY Zenon DEF SignExtended
<1> HIDE DEF a, b
<1>2. /\ [m EXCEPT !.addr = a].tcode = m.tcode
      /\ [m EXCEPT !.addr = a].itc = m.itc
  BY DEF Message
<1>3. /\ [m EXCEPT !.addr = a, !.ckdata1 = b].tcode = m.tcode
      /\ [m EXCEPT !.addr = a, !.ckdata1 = b].itc = m.itc
  BY DEF Message
<1> QED
  BY <1>1, <1>2, <1>3

(* Of the messages in hand only data acquisitions are consumed.            *)
LEMMA DataOnlyHolds == Spec => []DataOnly
<1>1. Init => DataOnly
  BY DEF Init, DataOnly, MessageOf
<1>2. Inv /\ DataOnly /\ [Next]_vars => DataOnly'
  <2> SUFFICES ASSUME DataOnly, [Next]_vars PROVE DataOnly'
    OBVIOUS
  <2>1. ASSUME NEW m \in Messages, ReadMessage(m) PROVE DataOnly'
    <3>1. m \in Message /\ (m.itc => m.tcode = "DATA_ACQUISITION")
      BY MessagesAssumption
    <3>2. nm' = m \/ nm' = SignExtended(m)
      BY <2>1 DEF ReadMessage
    <3> QED
      BY <3>1, <3>2, SignExtendedKeeps DEF DataOnly
  <2>2. CASE UNCHANGED nm
    BY <2>2 DEF DataOnly
  <2>3. (\E m \in Messages : ReadMessage(m)) \/ UNCHANGED nm
    BY DEF Next, vars, Call, Read, ReadBadMessage, ReadEOF, ReadError, Handle, Unread,
           FirstSync, FirstICTWS, FirstOther, FirstError, NextMsgCounts, NextMsgNotDecoding,
           NextMsgICT, NextMsgError, NextMsgData, NextMsgOwnership, NextMsgUnsupported,
           CountsExpired, NoInstruction, ExecuteUndecided, ExecuteFails, Execute,
           RetireMessage, GivenUp, Finish, Fail, Abort, ResetAll, Goto
  <2> QED
    BY <2>1, <2>2, <2>3
<1> QED
  BY <1>1, <1>2, SpecInv, PTL DEF Spec

(* The time of a hart never runs backwards, whatever timestamps arrive and *)
(* however wide the counter is, until the range of times itself ends.      *)
THEOREM TimeNeverRunsBackHolds == Spec => TimeNeverRunsBack
<1> DEFINE P == \A c \in Cores : \/ hart'[c].lastTime >= hart[c].lastTime
                                 \/ hart'[c].state = "GETFIRSTSYNCMSG" /\ hart'[c].lastTime = 0
                                 \/ hart[c].lastTime + TsMod >= TimeMod
<1>1. Inv /\ DataOnly /\ [Next]_vars => [P]_vars
  BY NextStep DEF StepOK, OnTime
<1> QED
  BY <1>1, SpecInv, DataOnlyHolds, PTL DEF Spec, TimeNeverRunsBack

(* No hart loses its position without an error or a message that says why, *)
(* for any number of harts and any messages.                               *)
THEOREM LossIsReportedHolds == Spec => LossIsReported
<1> DEFINE P == \A c \in Cores :
                  /\ hart[c].state \in {"GETNEXTMSG", "GETNEXTINSTRUCTION", "RETIREMESSAGE"}
                  /\ hart'[c].state \notin {"GETNEXTMSG", "GETNEXTINSTRUCTION", "RETIREMESSAGE"}
                  => \/ out'.err
                     \/ out'.msg /\ nm.tcode \in {"ERROR", "CORRELATION", "OWNERSHIP_TRACE"}
                     \/ ret' # "OK"
<1>1. Inv /\ DataOnly /\ [Next]_vars => [P]_vars
  BY NextStep DEF StepOK, Loses, Told, Tracked
<1> QED
  BY <1>1, SpecInv, DataOnlyHolds, PTL DEF Spec, LossIsReported
-----------------------------------------------------------------------------
(***************************************************************************)
(* Counts of a hart that waits for its first sync.  A context message      *)
(* (INCIRCUITTRACE, CONTEXT, tag 2) changes the process without dropping   *)
(* the counts, so what follows is about traces that announce a change of   *)
(* process with ownership messages only.                                   *)
(***************************************************************************)
SwitchesProcess(m) == m.cksrc = "CONTEXT" /\ m.ckdata1 % 4 = 2

NoContextSwitch == \A m \in Messages : ~SwitchesProcess(m)

Spent(h) == getCurrentCountType(h.counts) = "none"

(* A hart has no counts left while it waits for a sync, nor between        *)
(* messages while the process it runs is not decoded.                      *)
Quiet(h) ==
  \/ h.state = "GETFIRSTSYNCMSG"
  \/ h.state \in {"GETNEXTMSG", "RETIREMESSAGE"} /\ h.currentProcessIndex = NoProcess
  => Spent(h)

AllQuiet == ~SwitchesProcess(nm) /\ \A c \in Cores : Quiet(hart[c])

(* resetCounts leaves nothing.                                             *)
LEMMA ResetSpends == \A c : getCurrentCountType(resetCounts(c)) = "none"
BY DEF getCurrentCountType, resetCounts, InitCounts

(* h2 is h after a message that is not about the process.                  *)
SameProcess(h, h2) ==
  /\ h2.state = h.state
  /\ h2.currentProcessIndex = h.currentProcessIndex
  /\ h2.counts \in {h.counts, resetCounts(h.counts)}

(* So is what is known of its counts.                                      *)
LEMMA SameProcessQuiet ==
  ASSUME NEW h, NEW h2, Quiet(h), SameProcess(h, h2)
  PROVE  Quiet(h2)
BY ResetSpends DEF Quiet, SameProcess, Spent

(* Time and address change neither counts nor process.                     *)
LEMMA TimedKeeps ==
  ASSUME NEW h, GoodHart(h), NEW m \in Message, NEW full \in BOOLEAN
  PROVE  /\ Timed(h, m, full).counts = h.counts
         /\ Timed(h, m, full).currentProcessIndex = h.currentProcessIndex
         /\ NotSync(h, m).counts = h.counts
         /\ NotSync(h, m).currentProcessIndex = h.currentProcessIndex
<1>1. ASSUME NEW f \in BOOLEAN
      PROVE  /\ Timed(h, m, f).counts = h.counts
             /\ Timed(h, m, f).currentProcessIndex = h.currentProcessIndex
  BY DEF Timed, GoodHart, Hart
<1>2. GoodHart(Timed(h, m, FALSE))
  BY TimedType DEF Handled
<1>3. /\ NotSync(h, m).counts = Timed(h, m, FALSE).counts
      /\ NotSync(h, m).currentProcessIndex = Timed(h, m, FALSE).currentProcessIndex
  BY <1>2 DEF NotSync, GoodHart, Hart
<1>4. /\ Timed(h, m, FALSE).counts = h.counts
      /\ Timed(h, m, FALSE).currentProcessIndex = h.currentProcessIndex
  BY <1>1
<1> QED
  BY <1>1, <1>3, <1>4

(* Nor does an in-circuit trace message that does not switch the process.  *)
LEMMA AddrKeepsCounts ==
  ASSUME NEW h, GoodHart(h), NEW m \in Message, NEW a \in Address, ~SwitchesProcess(m)
  PROVE  /\ AtAddr(h, a).counts = h.counts
         /\ AtAddr(h, a).currentProcessIndex = h.currentProcessIndex
         /\ ICTContext(ICTAddr(h, m, a), m).counts = h.counts
         /\ ICTContext(ICTAddr(h, m, a), m).currentProcessIndex = h.currentProcessIndex
<1>1. AtAddr(h, a).counts = h.counts /\ AtAddr(h, a).currentProcessIndex = h.currentProcessIndex
  BY DEF AtAddr, GoodHart, Hart
<1> DEFINE g == ICTAddr(h, m, a)
<1>2. g.counts = h.counts /\ g.currentProcessIndex = h.currentProcessIndex
  BY <1>1 DEF ICTAddr, GoodHart, Hart
<1>3. GoodHart(g)
  <2>1. m.ckdata1 \in Address /\ 0 \in Address
    BY NumbersAssumption DEF Message, Address
  <2>2. Xor(a, m.ckdata1) \in Address
    BY <2>1, XorAssumption
  <2>3. Handled(h, AtAddr(h, a))
    BY AddrType
  <2> QED
    BY <2>1, <2>2, <2>3 DEF Handled, ICTAddr, GoodHart, Hart
<1> HIDE DEF g
<1>4. ICTContext(g, m) \in {g, [g EXCEPT !.currentPrv = UnknownPrv]}
  BY DEF ICTContext, SwitchesProcess
<1>5. /\ [g EXCEPT !.currentPrv = UnknownPrv].counts = g.counts
      /\ [g EXCEPT !.currentPrv = UnknownPrv].currentProcessIndex = g.currentProcessIndex
  BY <1>3 DEF GoodHart, Hart
<1> QED
  BY <1>1, <1>2, <1>4, <1>5 DEF g

(* A part of processTraceMessage that is not about the process.            *)
Kept(h, g) == /\ g.counts \in {h.counts, resetCounts(h.counts)}
              /\ g.currentProcessIndex = h.currentProcessIndex

(* processTraceMessage changes the process with an ownership message only, *)
(* and the counts with a sync only.                                        *)
LEMMA ProcessKeeps ==
  ASSUME NEW h, GoodHart(h), NEW m \in Message, ~SwitchesProcess(m)
  PROVE  LET g == processTraceMessage(h, m).h
         IN  /\ g.counts \in {h.counts, resetCounts(h.counts)}
             /\ ~(m.tcode = "OWNERSHIP_TRACE" /\ m.tag = 2)
                  => g.currentProcessIndex = h.currentProcessIndex
<1> DEFINE t == Timed(h, m, FALSE)
           u == Timed(h, m, TRUE)
           n == NotSync(h, m)
<1>1. /\ t.counts = h.counts /\ t.currentProcessIndex = h.currentProcessIndex
      /\ u.counts = h.counts /\ u.currentProcessIndex = h.currentProcessIndex
      /\ n.counts = h.counts /\ n.currentProcessIndex = h.currentProcessIndex
  BY TimedKeeps
<1>2. GoodHart(t) /\ GoodHart(u) /\ GoodHart(n)
  BY TimedType DEF Handled
<1>3. m.addr \in Address /\ 0 \in Address
  BY NumbersAssumption DEF Message, Address
<1> HIDE DEF t, u, n
<1>4. Kept(h, ProcessSync(h, m).h)
  <2> DEFINE g == AtAddr(u, m.addr)
  <2>1. GoodHart(g) /\ g.counts = h.counts /\ g.currentProcessIndex = h.currentProcessIndex
    BY <1>1, <1>2, <1>3, AddrType, AddrKeepsCounts DEF Handled
  <2>2. ProcessSync(h, m).h \in
          {h, [g EXCEPT !.stack = << >>, !.counts = resetCounts(@), !.prevMsgWasSync = TRUE]}
    BY DEF ProcessSync, OK, Err, u
  <2> HIDE DEF g
  <2> DEFINE k == [g EXCEPT !.stack = << >>, !.counts = resetCounts(@), !.prevMsgWasSync = TRUE]
  <2>3. k.counts = resetCounts(g.counts) /\ k.currentProcessIndex = g.currentProcessIndex
    BY <2>1 DEF GoodHart, Hart
  <2> HIDE DEF k
  <2> QED
    BY <2>1, <2>2, <2>3 DEF k, Kept
<1>5. /\ ProcessOwnership(h, m).h.counts = h.counts
      /\ m.tag # 2 => ProcessOwnership(h, m).h.currentProcessIndex = h.currentProcessIndex
  <2>1. ProcessOwnership(h, m).h \in
          {t, [t EXCEPT !.currentPrv = m.prv], processPidPriv(t, m.pid, m.prv)}
        /\ (m.tag # 2 => ProcessOwnership(h, m).h \in {t, [t EXCEPT !.currentPrv = m.prv]})
    BY DEF ProcessOwnership, OK, Err, t
  <2> QED
    BY <1>1, <1>2, <2>1 DEF processPidPriv, GoodHart, Hart
<1>6. Kept(h, ProcessICT(h, m).h)
  <2>1. FullAddr(n, m.addr) \in Address
    BY <1>2, <1>3, AddrType
  <2> DEFINE k == ICTContext(ICTAddr(n, m, FullAddr(n, m.addr)), m)
  <2>2. k.counts = n.counts /\ k.currentProcessIndex = n.currentProcessIndex
    BY <1>2, <2>1, AddrKeepsCounts
  <2>3. ProcessICT(h, m).h \in {n, k}
    BY DEF ProcessICT, OK, Err, n
  <2> HIDE DEF k
  <2> QED
    BY <1>1, <2>2, <2>3 DEF Kept
<1>7. Kept(h, ProcessICTWS(h, m).h)
  <2> DEFINE v == [u EXCEPT !.prevMsgWasSync = TRUE]
             k == ICTContext(ICTAddr(v, m, m.addr), m)
  <2>1. GoodHart(v) /\ v.counts = u.counts /\ v.currentProcessIndex = u.currentProcessIndex
    BY <1>2 DEF GoodHart, Hart
  <2>2. ProcessICTWS(h, m).h \in {v, k}
    BY DEF ProcessICTWS, OK, Err, u
  <2> HIDE DEF v
  <2>3. k.counts = v.counts /\ k.currentProcessIndex = v.currentProcessIndex
    BY <1>3, <2>1, AddrKeepsCounts
  <2> HIDE DEF k
  <2> QED
    BY <1>1, <2>1, <2>2, <2>3 DEF Kept
<1>8. Kept(h, ProcessIndirect(h, m).h)
  <2>1. FullAddr(h, m.addr) \in Address
    BY <1>3, AddrType
  <2>2. /\ AtAddr(n, FullAddr(h, m.addr)).counts = n.counts
        /\ AtAddr(n, FullAddr(h, m.addr)).currentProcessIndex = n.currentProcessIndex
    BY <1>2, <2>1, AddrKeepsCounts
  <2> QED
    BY <1>1, <2>2 DEF ProcessIndirect, OK, n, Kept
<1>9. Kept(h, AtAddr(n, 0)) /\ Kept(h, n) /\ Kept(h, t) /\ Kept(h, h)
  BY <1>1, <1>2, <1>3, AddrKeepsCounts DEF Kept
<1>10. CASE m.tcode # "OWNERSHIP_TRACE"
  <2>1. Kept(h, processTraceMessage(h, m).h)
    BY <1>4, <1>6, <1>7, <1>8, <1>9, <1>10 DEF processTraceMessage, OK, Err, t, n
  <2> QED
    BY <2>1 DEF Kept
<1>11. CASE m.tcode = "OWNERSHIP_TRACE"
  <2>1. processTraceMessage(h, m) = ProcessOwnership(h, m)
    BY <1>11 DEF processTraceMessage, SyncTCodes
  <2> QED
    BY <1>5, <1>11, <2>1
<1> QED
  BY <1>10, <1>11

(* A step that sets the current hart keeps the others quiet.               *)
LEMMA SetHartQuiet ==
  ASSUME Inv, AllQuiet, NEW h, SetHart(h), Quiet(h)
  PROVE  \A c \in Cores : Quiet(hart'[c])
<1>1. hart \in [Cores -> Hart] /\ currentCore \in Cores
  BY DEF Inv, TypeOK
<1>2. /\ hart'[currentCore] = h
      /\ \A c \in Cores : c # currentCore => hart'[c] = hart[c]
  BY <1>1 DEF SetHart
<1> QED
  BY <1>2 DEF AllQuiet

(* A hart that was reset has no counts.                                    *)
LEMMA ResetQuiet ==
  ASSUME NEW h \in Hart
  PROVE  Quiet(ResetAllHart(h)) /\ Quiet(ResetHart(h))
<1> DEFINE g == ResetAllHart(h)
<1>1. g \in Hart /\ ResetHart(h).counts = g.counts
  <2>1. g \in Hart
    BY ResetType DEF GoodHart
  <2> HIDE DEF g
  <2>2. [g EXCEPT !.stack = << >>].counts = g.counts
    BY <2>1 DEF Hart
  <2> QED
    BY <2>1, <2>2 DEF ResetHart, g
<1>2. g.counts = resetCounts(h.counts)
  <2>1. InitialHart \in Hart
    BY InitialHartType DEF GoodHart
  <2> QED
    BY <2>1 DEF ResetAllHart, Hart
<1> QED
  BY <1>1, <1>2, ResetSpends DEF Quiet, Spent

(* Giving up on a message leaves no counts, or a hart that is given up.    *)
LEMMA FailQuiet ==
  ASSUME Inv, AllQuiet, NEW h \in Hart, Fail(h)
  PROVE  \A c \in Cores : Quiet(hart'[c])
<1>1. [h EXCEPT !.state = "ERROR"].state = "ERROR"
  BY DEF Hart
<1>2. Quiet([h EXCEPT !.state = "ERROR"])
  BY <1>1 DEF Quiet
<1>3. SetHart(ResetHart(h)) \/ SetHart([h EXCEPT !.state = "ERROR"])
  BY DEF Fail
<1> QED
  BY <1>2, <1>3, ResetQuiet, SetHartQuiet

(* A hart that is given up, or starts to execute, is quiet.                *)
LEMMA StateQuiet ==
  ASSUME Inv, AllQuiet, NEW s \in {"ERROR", "DONE", "GETNEXTINSTRUCTION"},
         SetHart([hart[currentCore] EXCEPT !.state = s])
  PROVE  \A c \in Cores : Quiet(hart'[c])
<1>1. hart[currentCore] \in Hart
  BY DEF Inv, TypeOK
<1>2. [hart[currentCore] EXCEPT !.state = s].state = s
  BY <1>1 DEF Hart
<1>3. Quiet([hart[currentCore] EXCEPT !.state = s])
  BY <1>2 DEF Quiet
<1> QED
  BY <1>3, SetHartQuiet

(* resetTrace(-1) leaves no counts.                                        *)
LEMMA ResetAllQuiet ==
  ASSUME Inv, hart' = [c \in Cores |-> ResetAllHart(hart[c])]
  PROVE  \A c \in Cores : Quiet(hart'[c])
BY ResetQuiet DEF Inv, TypeOK

(* What processTraceMessage makes of the hart in hand.                     *)
LEMMA CurrentKeeps ==
  ASSUME Inv, AllQuiet
  PROVE  LET h == hart[currentCore]
             p == processTraceMessage(h, nm)
         IN  /\ h \in Hart /\ Quiet(h) /\ p.h \in Hart
             /\ p.h.state = h.state /\ p.h.counts \in {h.counts, resetCounts(h.counts)}
             /\ ~(nm.tcode = "OWNERSHIP_TRACE" /\ nm.tag = 2) => SameProcess(h, p.h)
             /\ ~(nm.tcode = "OWNERSHIP_TRACE" /\ nm.tag = 2) => Quiet(p.h)
<1> DEFINE h == hart[currentCore]
           p == processTraceMessage(h, nm)
<1>1. h \in Hart /\ Quiet(h) /\ GoodHart(h) /\ nm \in Message /\ ~SwitchesProcess(nm)
      /\ p.h \in Hart /\ p.h.state = h.state
  BY CurrentHart DEF AllQuiet, Inv, TypeOK, GoodHart
<1>2. /\ p.h.counts \in {h.counts, resetCounts(h.counts)}
      /\ ~(nm.tcode = "OWNERSHIP_TRACE" /\ nm.tag = 2)
           => p.h.currentProcessIndex = h.currentProcessIndex
  BY <1>1, ProcessKeeps
<1> HIDE DEF h, p
<1>3. ~(nm.tcode = "OWNERSHIP_TRACE" /\ nm.tag = 2) => SameProcess(h, p.h)
  BY <1>1, <1>2 DEF SameProcess
<1>4. ~(nm.tcode = "OWNERSHIP_TRACE" /\ nm.tag = 2) => Quiet(p.h)
  BY <1>1, <1>3, SameProcessQuiet
<1> QED
  BY <1>1, <1>2, <1>3, <1>4 DEF h, p

(* A change of process leaves no counts behind.                            *)
LEMMA AfterOwnershipQuiet ==
  ASSUME NEW old, NEW h \in Hart, Quiet(old), old.state = "GETNEXTMSG",
         h.state = old.state, h.counts \in {old.counts, resetCounts(old.counts)}
  PROVE  Quiet(AfterOwnership(old, h))
<1> DEFINE g == [h EXCEPT !.counts = resetCounts(@), !.stack = << >>, !.state = "GETFIRSTSYNCMSG"]
           k == [h EXCEPT !.state = "GETFIRSTSYNCMSG"]
           was == old.currentProcessIndex # NoProcess
           is == h.currentProcessIndex # NoProcess
<1>1. AfterOwnership(old, h) = CASE was /\ is  -> h
                                 [] was /\ ~is -> g
                                 [] ~was /\ is /\ old.prevMsgWasSync -> h
                                 [] OTHER -> k
  BY Zenon DEF AfterOwnership
<1>2. g.counts = resetCounts(h.counts)
  BY DEF Hart
<1>3. k.counts = h.counts
  BY DEF Hart
<1>4. Quiet(g)
  BY <1>2, ResetSpends DEF Quiet, Spent
<1>5. is => Quiet(h)
  BY DEF Quiet
<1>6. ~was => Spent(h)
  BY ResetSpends DEF Quiet, Spent
<1>7. ~was => Quiet(k)
  BY <1>3, <1>6 DEF Quiet, Spent
<1> HIDE DEF g, k, was, is
<1> QED
  BY <1>1, <1>4, <1>5, <1>7

(* Reading, and the steps without a message, keep the harts quiet.         *)
LEMMA ReadQuiet == Inv /\ AllQuiet /\ (Call \/ Read \/ GivenUp) => \A c \in Cores : Quiet(hart'[c])
<1> SUFFICES ASSUME Inv, AllQuiet, Call \/ Read \/ GivenUp PROVE \A c \in Cores : Quiet(hart'[c])
  OBVIOUS
<1>1. UNCHANGED hart => \A c \in Cores : Quiet(hart'[c])
  BY DEF AllQuiet
<1>2. ASSUME NEW m \in Messages, ReadMessage(m) PROVE \A c \in Cores : Quiet(hart'[c])
  <2>1. CASE hart' = [hart EXCEPT ![m.core].state = "ERROR"]
    <3>1. hart \in [Cores -> Hart] /\ m.core \in Cores
      BY MessagesAssumption DEF Inv, TypeOK, Message
    <3>2. \A c \in Cores : c # m.core => hart'[c] = hart[c]
      BY <2>1, <3>1
    <3>3. hart'[m.core].state = "ERROR"
      BY <2>1, <3>1 DEF Hart
    <3>4. Quiet(hart'[m.core])
      BY <3>3 DEF Quiet
    <3> QED
      BY <3>2, <3>4 DEF AllQuiet
  <2> QED
    BY <1>1, <1>2, <2>1 DEF ReadMessage
<1>3. CASE ReadBadMessage
  BY <1>3, ResetAllQuiet, StateQuiet DEF ReadBadMessage
<1>4. CASE ReadEOF
  BY <1>4, StateQuiet DEF ReadEOF
<1>5. CASE ReadError
  BY <1>5, StateQuiet DEF ReadError
<1> QED
  BY <1>1, <1>2, <1>3, <1>4, <1>5 DEF Read, Call, GivenUp

(* The steps of state GETFIRSTSYNCMSG keep the harts quiet.                *)
LEMMA FirstQuiet ==
  Inv /\ AllQuiet /\ (FirstSync \/ FirstICTWS \/ FirstOther \/ FirstError)
  => \A c \in Cores : Quiet(hart'[c])
<1> SUFFICES ASSUME Inv, AllQuiet, FirstSync \/ FirstICTWS \/ FirstOther \/ FirstError
             PROVE  \A c \in Cores : Quiet(hart'[c])
  OBVIOUS
<1> DEFINE h == hart[currentCore]
           p == processTraceMessage(h, nm)
<1>1. /\ h \in Hart /\ Quiet(h) /\ p.h \in Hart
      /\ p.h.state = h.state /\ p.h.counts \in {h.counts, resetCounts(h.counts)}
  BY CurrentKeeps
<1>2. h.state = "GETFIRSTSYNCMSG"
  BY DEF FirstSync, FirstICTWS, FirstOther, FirstError, Handling, InState
<1>3. Spent(p.h)
  <2> HIDE DEF h, p
  <2> QED
    BY <1>1, <1>2, ResetSpends DEF Quiet, Spent
<1>4. Quiet(p.h)
  BY <1>3 DEF Quiet
<1>5. ASSUME NEW g \in Hart
      PROVE  Quiet([g EXCEPT !.counts = resetCounts(@), !.state = "GETNEXTMSG"])
  <2>1. [g EXCEPT !.counts = resetCounts(@), !.state = "GETNEXTMSG"].counts = resetCounts(g.counts)
    BY DEF Hart
  <2> QED
    BY <2>1, ResetSpends DEF Quiet, Spent
<1>6. CASE FirstSync
  <2>1. \/ Fail(p.h)
        \/ SetHart([p.h EXCEPT !.counts = resetCounts(@), !.state = "GETNEXTMSG"])
    BY <1>6 DEF FirstSync, Finish
  <2> HIDE DEF p, h
  <2> QED
    BY <1>1, <1>5, <2>1, FailQuiet, SetHartQuiet
<1>7. CASE FirstICTWS
  <2> DEFINE g == [p.h EXCEPT !.currentAddress = IF @ = 0 THEN p.h.lastFaddr ELSE @]
  <2>1. \/ Fail(p.h)
        \/ SetHart(g)
        \/ SetHart([g EXCEPT !.counts = resetCounts(@), !.state = "GETNEXTMSG"])
    BY <1>7 DEF FirstICTWS, Finish
  <2> HIDE DEF p, h
  <2>2. g \in Hart /\ g.counts = p.h.counts
    BY <1>1 DEF Hart
  <2> HIDE DEF g
  <2>3. Quiet(g)
    BY <1>3, <2>2 DEF Quiet, Spent
  <2> QED
    BY <1>1, <1>5, <2>1, <2>2, <2>3, FailQuiet, SetHartQuiet
<1>8. CASE FirstOther
  <2>1. SetHart(p.h) \/ Fail(p.h)
    BY <1>8 DEF FirstOther, Finish
  <2> HIDE DEF p, h
  <2> QED
    BY <1>1, <1>4, <2>1, FailQuiet, SetHartQuiet
<1>9. CASE FirstError
  BY <1>9, ResetAllQuiet DEF FirstError, ResetAll
<1> QED
  BY <1>6, <1>7, <1>8, <1>9

(* The steps of state GETNEXTMSG keep the harts quiet.                     *)
LEMMA NextMsgQuiet ==
  Inv /\ AllQuiet /\ (\/ NextMsgCounts \/ NextMsgNotDecoding \/ NextMsgICT \/ NextMsgError
                      \/ NextMsgData \/ NextMsgOwnership \/ NextMsgUnsupported)
  => \A c \in Cores : Quiet(hart'[c])
<1> SUFFICES ASSUME Inv, AllQuiet,
                    \/ NextMsgCounts \/ NextMsgNotDecoding \/ NextMsgICT \/ NextMsgError
                    \/ NextMsgData \/ NextMsgOwnership \/ NextMsgUnsupported
             PROVE  \A c \in Cores : Quiet(hart'[c])
  OBVIOUS
<1> DEFINE h == hart[currentCore]
           p == processTraceMessage(h, nm)
<1>1. /\ h \in Hart /\ Quiet(h) /\ p.h \in Hart
      /\ p.h.state = h.state /\ p.h.counts \in {h.counts, resetCounts(h.counts)}
      /\ ~(nm.tcode = "OWNERSHIP_TRACE" /\ nm.tag = 2) => Quiet(p.h)
  BY CurrentKeeps
<1>2. h.state = "GETNEXTMSG"
  BY DEF NextMsgCounts, NextMsgNotDecoding, NextMsgICT, NextMsgError, NextMsgData,
         NextMsgOwnership, NextMsgUnsupported, Handling, InState
<1>3. CASE NextMsgCounts
  <2> DEFINE k == setCounts(h.counts, nm).c
             g == [h EXCEPT !.counts = k]
             g2 == [h EXCEPT !.counts = k, !.state = "GETNEXTINSTRUCTION"]
  <2>1. Fail(g) \/ SetHart(g2)
    BY <1>3 DEF NextMsgCounts, Goto
  <2>2. k \in CountsType
    <3>1. h.counts \in CountsType /\ nm \in Message
      BY <1>1, CurrentHart DEF Hart
    <3> QED
      BY <3>1, SetCountsType
  <2> HIDE DEF k, h
  <2>3. g \in Hart
    BY <1>1, <2>2 DEF Hart
  <2>4. g2.state = "GETNEXTINSTRUCTION"
    BY <1>1 DEF Hart
  <2>5. Quiet(g2)
    BY <2>4 DEF Quiet
  <2> HIDE DEF g, g2
  <2> QED
    BY <2>1, <2>3, <2>5, FailQuiet, SetHartQuiet
<1>4. CASE NextMsgNotDecoding \/ NextMsgICT \/ NextMsgData
  <2>1. SetHart(p.h) \/ Fail(p.h)
    BY <1>4 DEF NextMsgNotDecoding, NextMsgICT, NextMsgData, Finish
  <2>2. nm.tcode # "OWNERSHIP_TRACE"
    BY <1>4 DEF NextMsgNotDecoding, NextMsgICT, NextMsgData, CountTCodes, SyncTCodes, ICTTCodes
  <2> HIDE DEF p, h
  <2> QED
    BY <1>1, <2>1, <2>2, FailQuiet, SetHartQuiet
<1>5. CASE NextMsgError
  BY <1>5, ResetAllQuiet DEF NextMsgError, ResetAll
<1>6. CASE NextMsgOwnership
  <2> DEFINE g == AfterOwnership(h, p.h)
  <2>1. Fail(p.h) \/ SetHart(g) \/ (SetHart(p.h) /\ nm.tag # 2)
    BY <1>6 DEF NextMsgOwnership, Finish
  <2>2. Quiet(g)
    <3> HIDE DEF p, h
    <3> QED
      BY <1>1, <1>2, AfterOwnershipQuiet
  <2> HIDE DEF p, h, g
  <2> QED
    BY <1>1, <2>1, <2>2, FailQuiet, SetHartQuiet
<1>7. CASE NextMsgUnsupported
  BY <1>7, StateQuiet DEF NextMsgUnsupported, Abort
<1> QED
  BY <1>3, <1>4, <1>5, <1>6, <1>7

(* A hart that executes has a process, or no counts when it stops.         *)
LEMMA InstructionQuiet ==
  ASSUME Inv, AllQuiet,
         \/ CountsExpired \/ NoInstruction
         \/ \E ub \in BOOLEAN : ExecuteUndecided(ub) \/ ExecuteFails(ub) \/ Execute(ub)
  PROVE  \A c \in Cores : Quiet(hart'[c])
<1> DEFINE h == hart[currentCore]
<1>1. h \in Hart
  BY CurrentHart
<1>2. CASE CountsExpired
  <2> DEFINE g == [h EXCEPT !.state = "RETIREMESSAGE"]
  <2>1. SetHart(g) /\ getCurrentCountType(h.counts) = "none"
    BY <1>2 DEF CountsExpired, Goto
  <2> HIDE DEF h
  <2>2. g.counts = h.counts
    BY <1>1 DEF Hart
  <2>3. Quiet(g)
    BY <2>1, <2>2 DEF Quiet, Spent
  <2> HIDE DEF g
  <2> QED
    BY <2>1, <2>3, SetHartQuiet
<1>3. CASE NoInstruction
  <2>1. SetHart([h EXCEPT !.state = "ERROR"]) \/ Fail(h)
    BY <1>3 DEF NoInstruction
  <2> QED
    BY <1>1, <2>1, StateQuiet, FailQuiet
<1>4. ASSUME NEW ub \in BOOLEAN, ExecuteUndecided(ub) \/ ExecuteFails(ub) \/ Execute(ub)
      PROVE  \A c \in Cores : Quiet(hart'[c])
  <2> DEFINE r == Answer(ub)
             a == Advanced(h, r)
  <2>1. Executing
    BY <1>4 DEF ExecuteUndecided, ExecuteFails, Execute
  <2>2. a \in Hart /\ a.currentProcessIndex # NoProcess
    BY <2>1, AnswerType DEF Executing, GoodHart
  <2>3. ASSUME NEW g, g.currentProcessIndex = a.currentProcessIndex,
               g.state \in {"GETNEXTINSTRUCTION", "RETIREMESSAGE"}
        PROVE  Quiet(g)
    <3> HIDE DEF a
    <3> QED
      BY <2>2, <2>3 DEF Quiet
  <2>4. CASE ExecuteUndecided(ub)
    <3> DEFINE g == [a EXCEPT !.state = "RETIREMESSAGE"]
    <3>1. SetHart(g)
      BY <2>4 DEF ExecuteUndecided, Goto
    <3> HIDE DEF a, r, h
    <3>2. g.currentProcessIndex = a.currentProcessIndex /\ g.state = "RETIREMESSAGE"
      BY <2>2 DEF Hart
    <3> HIDE DEF g
    <3> QED
      BY <2>3, <3>1, <3>2, SetHartQuiet
  <2>5. CASE ExecuteFails(ub)
    <3>1. Fail(a)
      BY <2>5 DEF ExecuteFails
    <3> HIDE DEF a, r, h
    <3> QED
      BY <2>2, <3>1, FailQuiet
  <2>6. CASE Execute(ub)
    <3> DEFINE more == getCurrentCountType(r.c) # "none"
               g == [a EXCEPT !.currentAddress = r.pc, !.enterISR = FALSE,
                              !.state = IF more THEN @ ELSE "RETIREMESSAGE"]
    <3>1. SetHart(g)
      BY <2>6 DEF Execute
    <3>2. a.state = "GETNEXTINSTRUCTION"
      BY <2>1, AnswerType
    <3> HIDE DEF a, r, h, more
    <3>3. g.currentProcessIndex = a.currentProcessIndex
      BY <2>2 DEF Hart
    <3>4. g.state \in {"GETNEXTINSTRUCTION", "RETIREMESSAGE"}
      BY <2>2, <3>2 DEF Hart
    <3> HIDE DEF g
    <3> QED
      BY <2>3, <3>1, <3>3, <3>4, SetHartQuiet
  <2> QED
    BY <1>4, <2>4, <2>5, <2>6
<1> QED
  BY <1>2, <1>3, <1>4

(* Retiring a message keeps the harts quiet.                               *)
LEMMA RetireQuiet == Inv /\ AllQuiet /\ RetireMessage => \A c \in Cores : Quiet(hart'[c])
<1> SUFFICES ASSUME Inv, AllQuiet, RetireMessage PROVE \A c \in Cores : Quiet(hart'[c])
  OBVIOUS
<1> DEFINE h == hart[currentCore]
           p == processTraceMessage(h, nm)
           g == [p.h EXCEPT !.enterISR = @ \/ nm.b_type = "EXCEPTION", !.state = "GETNEXTMSG"]
<1>1. /\ p.h \in Hart /\ p.h.state = h.state
      /\ ~(nm.tcode = "OWNERSHIP_TRACE" /\ nm.tag = 2) => Quiet(p.h)
  BY CurrentKeeps
<1>2. \/ Abort
      \/ Fail(p.h)
      \/ SetHart(ResetHart(p.h))
      \/ SetHart(g) /\ nm.tcode \in CountTCodes
  BY DEF RetireMessage, Finish
<1>3. h.state = "RETIREMESSAGE"
  BY DEF RetireMessage, Handling, InState
<1> HIDE DEF p, h
<1>4. g.counts = p.h.counts /\ g.currentProcessIndex = p.h.currentProcessIndex
      /\ g.state = "GETNEXTMSG"
  BY <1>1 DEF Hart
<1>5. nm.tcode \in CountTCodes => Quiet(p.h)
  BY <1>1 DEF CountTCodes, SyncTCodes
<1>6. Quiet(p.h) => Quiet(g)
  BY <1>1, <1>3, <1>4 DEF Quiet, Spent
<1> HIDE DEF g
<1>7. CASE Abort
  BY <1>7, StateQuiet DEF Abort
<1> QED
  BY <1>1, <1>2, <1>5, <1>6, <1>7, FailQuiet, ResetQuiet, SetHartQuiet

(* The message in hand is one that was read, and does not switch.          *)
LEMMA NoSwitchInHand ==
  ASSUME NoContextSwitch, ~SwitchesProcess(nm), [Next]_vars
  PROVE  ~SwitchesProcess(nm')
<1>1. ASSUME NEW m \in Messages, ReadMessage(m) PROVE ~SwitchesProcess(nm')
  <2>1. m \in Message /\ ~SwitchesProcess(m)
    BY MessagesAssumption DEF NoContextSwitch
  <2> DEFINE a == signExtendAddr(m.addr)
             b == IF m.ckdf = 1 THEN signExtendAddr(m.ckdata1) ELSE m.ckdata1
  <2>2. nm' \in {m, [m EXCEPT !.addr = a], [m EXCEPT !.addr = a, !.ckdata1 = b]}
        /\ (nm' = [m EXCEPT !.addr = a, !.ckdata1 = b] => m.cksrc = "INFERABLECALL"
                                                           \/ nm' = m \/ nm' = [m EXCEPT !.addr = a])
    BY <1>1, Zenon DEF ReadMessage, SignExtended
  <2> HIDE DEF a, b
  <2>3. /\ [m EXCEPT !.addr = a].cksrc = m.cksrc
        /\ [m EXCEPT !.addr = a].ckdata1 = m.ckdata1
    BY <2>1 DEF Message
  <2>4. [m EXCEPT !.addr = a, !.ckdata1 = b].cksrc = m.cksrc
    BY <2>1 DEF Message
  <2> QED
    BY <2>1, <2>2, <2>3, <2>4 DEF SwitchesProcess
<1>2. (\E m \in Messages : ReadMessage(m)) \/ UNCHANGED nm
  BY DEF Next, vars, Call, Read, ReadBadMessage, ReadEOF, ReadError, Handle, Unread,
         FirstSync, FirstICTWS, FirstOther, FirstError, NextMsgCounts, NextMsgNotDecoding,
         NextMsgICT, NextMsgError, NextMsgData, NextMsgOwnership, NextMsgUnsupported,
         CountsExpired, NoInstruction, ExecuteUndecided, ExecuteFails, Execute,
         RetireMessage, GivenUp, Finish, Fail, Abort, ResetAll, Goto
<1> QED
  BY <1>1, <1>2

(* A hart that waits for its first sync has no counts left that would make *)
(* processTraceMessage refuse it, when the process changes by ownership    *)
(* messages; for any number of harts, processes and pids to decode.        *)
THEOREM NoCountsWhileUnsyncedHolds ==
  ASSUME NoContextSwitch
  PROVE  Spec => []NoCountsWhileUnsynced
<1>1. Init => AllQuiet
  <2> SUFFICES ASSUME Init PROVE AllQuiet
    OBVIOUS
  <2>1. ~SwitchesProcess(nm)
    BY DEF Init, SwitchesProcess, MessageOf
  <2>2. ASSUME NEW c \in Cores PROVE Quiet(hart[c])
    <3>1. hart[c].counts = InitCounts
      BY DEF Init, InitialHart
    <3> QED
      BY <3>1 DEF Quiet, Spent, InitCounts, getCurrentCountType
  <2> QED
    BY <2>1, <2>2 DEF AllQuiet
<1>2. Inv /\ AllQuiet /\ [Next]_vars => AllQuiet'
  <2> SUFFICES ASSUME Inv, AllQuiet, [Next]_vars PROVE AllQuiet'
    OBVIOUS
  <2>1. ~SwitchesProcess(nm')
    BY NoSwitchInHand DEF AllQuiet
  <2>2. CASE UNCHANGED vars
    BY <2>2 DEF vars, AllQuiet
  <2>3. CASE Next
    <3>1. \A c \in Cores : Quiet(hart'[c])
      BY <2>3, ReadQuiet, FirstQuiet, NextMsgQuiet, InstructionQuiet, RetireQuiet DEF Next, Handle
    <3> QED
      BY <2>1, <3>1 DEF AllQuiet
  <2> QED
    BY <2>2, <2>3
<1>3. AllQuiet => NoCountsWhileUnsynced
  BY DEF AllQuiet, Quiet, Spent, NoCountsWhileUnsynced
<1> QED
  BY <1>1, <1>2, <1>3, SpecInv, PTL DEF Spec
=============================================================================
