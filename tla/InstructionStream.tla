------------------------- MODULE InstructionStream -------------------------
(***************************************************************************)
(* What a trace promises its reader: the instructions shown for a hart are *)
(* the ones it executed, in the order it executed them, none skipped, none *)
(* invented and none shown before it was executed.                         *)
(***************************************************************************)
EXTENDS Naturals, Sequences

CONSTANTS Harts, Insts
VARIABLES executed, shown

Init == executed = [c \in Harts |-> << >>] /\ shown = [c \in Harts |-> << >>]

Execute(c) ==
  /\ \E x \in Insts : executed' = [executed EXCEPT ![c] = Append(@, x)]
  /\ UNCHANGED shown

Show(c) ==
  /\ Len(shown[c]) < Len(executed[c])
  /\ shown' = [shown EXCEPT ![c] = Append(@, executed[c][Len(@) + 1])]
  /\ UNCHANGED executed

Next == \E c \in Harts : Execute(c) \/ Show(c)

Spec == Init /\ [][Next]_<<executed, shown>>
=============================================================================
