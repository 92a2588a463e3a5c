------------------------------ MODULE EndToEnd ------------------------------
(***************************************************************************)
(* Harts with their encoders, a trace file, and NextInstruction reading    *)
(* it, either a finished file or one that is still being written (a trace  *)
(* socket, where the reader waits for data).                               *)
(***************************************************************************)
EXTENDS Trace, Encoder

CONSTANT Live       \* the trace is read while it is written

VARIABLES
  closed,           \* nothing more will be written
  shown             \* the instructions NextInstruction handed out, per hart

allVars == <<vars, encVars, closed, shown>>

InitAll ==
  /\ Init /\ EncInit
  /\ closed = FALSE
  /\ shown = [c \in Cores |-> << >>]

Encode ==
  /\ ~closed
  /\ \E c \in Cores : EncStep(c)
  /\ reads + Len(queue') <= MaxReads
  /\ UNCHANGED <<vars, closed, shown>>

(* The trace may end at any message.                                       *)
Close ==
  /\ ~closed
  /\ closed' = TRUE
  /\ UNCHANGED <<vars, encVars, shown>>

(* A call hands out at most one instruction, of the current core.          *)
Shows == out.inst = NoAddr /\ out'.inst # NoAddr

Decode ==
  /\ Live \/ closed
  /\ \/ Call
     \/ queue # << >> /\ ReadMessage(Head(queue))
     \/ queue = << >> /\ closed /\ ReadEOF
     \/ Handle
  /\ queue' = IF reads' > reads THEN Tail(queue) ELSE queue
  /\ shown' = IF ~Shows THEN shown
              ELSE [shown EXCEPT ![currentCore] =
                      Append(@, [inst |-> out'.inst, br |-> out'.br,
                                 isr |-> "interrupt" \in out'.cr])]
  /\ UNCHANGED <<mode, enc, path, closed>>

NextAll == Encode \/ Close \/ Decode
SpecAll == InitAll /\ [][NextAll]_allVars

-----------------------------------------------------------------------------
(* NextInstruction shows the instructions the harts executed: the decoder  *)
(* and the encoders together implement an instruction stream.              *)
ShownInst == [inst : Address, br : BRFlags, isr : BOOLEAN]
Stream == INSTANCE InstructionStream WITH Harts <- Cores, Insts <- ShownInst, executed <- path
ImplementsStream == Stream!Spec

(* A trace that is read to its end has been shown completely, for every    *)
(* hart that was not cut off in the middle, and nothing in it was taken    *)
(* for an error.                                                           *)
AllShown ==
  /\ ret = "EOF" => \A c \in Cores : enc[c].tracing \/ shown[c] = path[c]
  /\ ret # "ERR" /\ ~out.err
=============================================================================
