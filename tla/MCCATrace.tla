------------------------------ MODULE MCCATrace ------------------------------
(***************************************************************************)
(* Small instances of CATrace.                                             *)
(***************************************************************************)
EXTENDS CATrace

I(type, size, rd, rs1, imm) == [type |-> type, size |-> size, rd |-> rd, rs1 |-> rs1, imm |-> imm]

(* 2 calls 6, which stores and returns to 3.                               *)
MCCode == <<I("OTHER", 1, 0, 0, 0), I("C_JAL", 1, 1, 0, 4), I("VECT_ARITH", 1, 0, 0, 0),
            I("BRANCH", 1, 0, 0, -1), I("OTHER", 1, 0, 0, 0), I("VECT_ARITH", 1, 0, 0, 0),
            I("C_JR", 1, 0, 1, 0)>>
MCPath == <<2, 6, 7, 3>>

(* A jump the run ahead cannot follow, behind a vector instruction with    *)
(* three events.                                                           *)
RewindCode == <<I("OTHER", 1, 0, 0, 0), I("VECT_AMO_WW", 1, 0, 0, 0), I("OTHER", 1, 0, 0, 0),
                I("C_JR", 1, 0, 3, 0)>>
RewindPath == <<1, 2, 3, 4>>
=============================================================================
