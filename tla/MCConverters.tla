---------------------------- MODULE MCConverters ----------------------------
(***************************************************************************)
(* Two cores and two processes with a call at 1, a return at 2, a swap at  *)
(* 3, and a call without a name at 5.                                      *)
(***************************************************************************)
EXTENDS Converters

I(type, rd, rs1, imm) == [type |-> type, size |-> 1, rd |-> rd, rs1 |-> rs1, imm |-> imm]
Image0 == (1 :> I("C_JAL", 1, 0, 3)) @@ (2 :> I("C_JR", 0, 1, 0)) @@
          (3 :> I("JALR", 1, 5, 0)) @@ (4 :> I("OTHER", 0, 0, 0)) @@ (5 :> I("C_JAL", 1, 0, 2))
MCProcesses == 0 :> 7 @@ 1 :> 8
MCCode == [i \in {0, 1} |-> Image0]
NoCode == << >>
MCXor(a, b) == (a + b) % 2

M(core, src, ws, ckdf, pc, data, to, dt) ==
  [core |-> core, cksrc |-> src, ws |-> ws, ckdf |-> ckdf, pc |-> pc,
   faddr |-> IF src = "INFERABLECALL" /\ ckdf = 1 THEN 4 ELSE pc, data |-> data, to |-> to, dt |-> dt]

Calls == {M(0, "INFERABLECALL", ws, 1, pc, 0, -1, 3) : ws \in BOOLEAN, pc \in {1, 2}}
         \cup {M(0, "INFERABLECALL", ws, 0, 1, 0, -1, 3) : ws \in BOOLEAN}
         \cup {M(0, "INFERABLECALL", FALSE, 1, pc, 0, -1, 0) : pc \in {3, 4, 5}}
         \cup {M(0, "INFERABLECALL", FALSE, 0, 4, 0, -1, 0), M(1, "INFERABLECALL", TRUE, 1, 1, 0, -1, 5),
               M(1, "INFERABLECALL", FALSE, 0, 5, 0, -1, 0)}
Others == {M(0, "EXT_TRIG", FALSE, 1, 1, 2, -1, 0), M(0, "WATCHPOINT", FALSE, 1, 1, 2, -1, 0),
           M(0, "EXCEPTION", TRUE, 1, 1, 2, -1, 0), M(0, "INTERRUPT", FALSE, 1, 5, 2, -1, 0),
           M(0, "CONTEXT", FALSE, 1, 1, 2, 1, 0), M(1, "CONTEXT", TRUE, 1, 5, 2, -1, 0),
           M(1, "CONTEXT", FALSE, 1, 1, 1, -1, 0), M(0, "PC_SAMPLE", FALSE, 0, 1, 0, -1, 3),
           M(0, "CONTROL", FALSE, 0, 0, 3, -1, 0), M(0, "EXCEPTION", FALSE, 0, 1, 2, -1, 0)}
MCMessages == Calls \cup Others
MCUnopenable == {{}, {"callret", "scontext"}, {"events"}}
=============================================================================
