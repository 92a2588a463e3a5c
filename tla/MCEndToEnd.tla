----------------------------- MODULE MCEndToEnd -----------------------------
(***************************************************************************)
(* Small instances of EndToEnd for TLC.                                    *)
(***************************************************************************)
EXTENDS EndToEnd, TLC

B == INSTANCE Bitwise
MCXor(a, b) == B!^^(a, b)

I(type, size, rd, rs1, imm) == [type |-> type, size |-> size, rd |-> rd, rs1 |-> rs1, imm |-> imm]

(* 1: a branch over a call of the routine at 5; 3: a loop; 4: an indirect  *)
(* call; 8: a trap; 9: a handler.                                          *)
Program ==
  (1 :> I("BRANCH", 1, 0, 0, 2)) @@ (2 :> I("C_JAL", 1, 1, 0, 3)) @@
  (3 :> I("BRANCH", 1, 0, 0, -2)) @@ (4 :> I("C_JALR", 1, 1, 10, 0)) @@
  (5 :> I("OTHER", 2, 0, 0, 0)) @@ (7 :> I("C_JR", 1, 0, 1, 0)) @@
  (8 :> I("TRAP", 1, 0, 0, 0)) @@ (9 :> I("XRET", 1, 0, 0, 0))

BareProcesses == 0 :> -1
BareCode == 0 :> Program
NoCode == [a \in {} |-> I("OTHER", 1, 0, 0, 0)]
NoMessages == {}
=============================================================================
