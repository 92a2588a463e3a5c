------------------------------ MODULE MCTrace ------------------------------
(***************************************************************************)
(* Small instances of Trace for TLC.                                       *)
(***************************************************************************)
EXTENDS Trace, TLC

B == INSTANCE Bitwise

MCXor(a, b) == B!^^(a, b)

I(type, size, rd, rs1, imm) == [type |-> type, size |-> size, rd |-> rd, rs1 |-> rs1, imm |-> imm]

(* 2: branch over a call to 12; 12 returns, 14 is an indirect call.        *)
Program ==
  (1 :> I("OTHER", 1, 0, 0, 0)) @@ (2 :> I("BRANCH", 1, 0, 0, 4)) @@
  (3 :> I("C_JAL", 1, 1, 0, 9)) @@ (4 :> I("OTHER", 2, 0, 0, 0)) @@
  (6 :> I("BRANCH", 2, 0, 0, -4)) @@ (8 :> I("JALR", 2, 1, 5, 0)) @@
  (10 :> I("TRAP", 1, 0, 0, 0)) @@ (11 :> I("BAD", 1, 0, 0, 0)) @@
  (12 :> I("C_JR", 1, 0, 1, 0)) @@ (13 :> I("C_J", 1, 0, 0, -11)) @@
  (14 :> I("C_JALR", 1, 1, 10, 0))

BareProcesses == 0 :> -1
BareCode == 0 :> Program
NoCode == [a \in {} |-> I("OTHER", 1, 0, 0, 0)]

(* Two processes; the kernel is above 12 and its addresses are sign        *)
(* extended from bit 2: 6 in a message is 14.                              *)
LinuxProcesses == (0 :> 0) @@ (1 :> 1)
UserProgram == (1 :> I("OTHER", 1, 0, 0, 0)) @@ (2 :> I("BRANCH", 1, 0, 0, -1)) @@
               (3 :> I("C_JAL", 1, 1, 0, -2))
LinuxCode == (0 :> UserProgram) @@ (1 :> (2 :> I("OTHER", 1, 0, 0, 0)))
Kernel == (14 :> I("OTHER", 1, 0, 0, 0)) @@ (15 :> I("XRET", 1, 0, 0, 0))

M(t, c) == MessageOf(t, c)
Ws(t, c, i, a) == [M(t, c) EXCEPT !.i_cnt = i, !.addr = a]
Full(c, code, n) == [M("RESOURCEFULL", c) EXCEPT !.rCode = code, !.rData = n]
Ict(t, c, src, df, a) == [M(t, c) EXCEPT !.cksrc = src, !.ckdf = df, !.addr = a]
Own(c, tag, pid) == [M("OWNERSHIP_TRACE", c) EXCEPT !.tag = tag, !.pid = pid]

(* One message of every kind for core c.                                   *)
AllKinds(c) ==
  { Ws("SYNC", c, 0, 2), Ws("SYNC", c, 2, 6), Ws("DIRECT_BRANCH_WS", c, 1, 2),
    Ws("INDIRECT_BRANCH_WS", c, 1, 14),
    [Ws("INDIRECTBRANCHHISTORY_WS", c, 1, 6) EXCEPT !.b_type = "EXCEPTION"],
    Ws("DIRECT_BRANCH", c, 2, 0),
    Ws("INDIRECT_BRANCH", c, 1, 12),
    [Ws("INDIRECTBRANCHHISTORY", c, 2, 8) EXCEPT !.history = 2],
    Full(c, 0, 2), Full(c, 1, 7), Full(c, 9, 1), Full(c, 8, 1),
    [M("CORRELATION", c) EXCEPT !.i_cnt = 1],
    Ict("INCIRCUITTRACE", c, "INFERABLECALL", 1, 8),
    Ict("INCIRCUITTRACE", c, "PC_SAMPLE", 0, 8),
    Ict("INCIRCUITTRACE_WS", c, "CONTROL", 0, 0),
    Ict("INCIRCUITTRACE_WS", c, "EXT_TRIG", 0, 2),
    Ict("INCIRCUITTRACE_WS", c, "OTHER", 0, 2),
    [Ict("INCIRCUITTRACE_WS", c, "INFERABLECALL", 1, 11) EXCEPT !.ckdata1 = 4],
    M("DATA_ACQUISITION", c), [M("DATA_ACQUISITION", c) EXCEPT !.itc = TRUE],
    Own(c, 2, 0), Own(c, 1, 0), M("ERROR", c), M("AUXACCESS_WRITE", c) }

Context(c, tag, pid) ==
  [Ict("INCIRCUITTRACE_WS", c, "CONTEXT", 1, 2) EXCEPT !.ckdata1 = 4 * pid + tag]

LinuxMessages ==
  { Ws("SYNC", 0, 0, 2), Ws("SYNC", 0, 1, 6), Ws("DIRECT_BRANCH_WS", 0, 2, 2),
    Ws("DIRECT_BRANCH", 0, 1, 0),
    [Ws("INDIRECTBRANCHHISTORY", 0, 1, 4) EXCEPT !.history = 2],
    Full(0, 0, 2), Full(0, 1, 7), Full(0, 8, 2),
    [M("CORRELATION", 0) EXCEPT !.i_cnt = 1],
    Own(0, 0, 0), Own(0, 2, 0), Own(0, 2, 1), Own(0, 2, 2),
    Context(0, 0, 0), Context(0, 2, 0), Context(0, 2, 2),
    Ict("INCIRCUITTRACE_WS", 0, "INFERABLECALL", 0, 6),
    Ict("INCIRCUITTRACE", 0, "CONTROL", 0, 0), M("AUXACCESS_WRITE", 0) }

(* Without a change of process by an in-circuit trace message.             *)
OwnershipMessages == {m \in LinuxMessages : m.cksrc = "CONTEXT" => m.ckdata1 % 4 # 2}

At(m, t) == [m EXCEPT !.ts = t]

(* Full and relative timestamps of a two-bit counter.                      *)
TimedMessages ==
  { At(Ws("SYNC", 0, 0, 2), 1), At(Ws("SYNC", 0, 0, 2), 3), At(Ws("SYNC", 1, 0, 2), 2),
    At(M("DATA_ACQUISITION", 0), 1), At(M("DATA_ACQUISITION", 0), 3),
    At(Ict("INCIRCUITTRACE_WS", 0, "CONTROL", 0, 0), 0),
    At(Ws("DIRECT_BRANCH", 0, 1, 0), 2), At(M("ERROR", 1), 1) }

BareMessages == AllKinds(0) \cup {Ws("SYNC", 1, 0, 2), Full(1, 1, 7), Ws("DIRECT_BRANCH", 1, 2, 0)}
BareTimedMessages == BareMessages \cup TimedMessages
=============================================================================
