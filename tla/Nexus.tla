------------------------------- MODULE Nexus -------------------------------
(***************************************************************************)
(* The Nexus trace messages the decoder reads (class NexusMessage) and the *)
(* numbers they carry.                                                     *)
(*                                                                         *)
(* Addresses are counted in 16-bit parcels, the unit of the f_addr, u_addr *)
(* and ckdata fields; the code shifts such a field left by one to make a   *)
(* byte address, so the shift is the change of unit and nothing else.      *)
(* Instruction sizes (inst_size/16) and i-cnts are in the same unit.       *)
(* An address is a number below AddrMod (2^63 in the code), a timestamp a  *)
(* number below TimeMod (2^64 in the code).                                *)
(***************************************************************************)
EXTENDS Integers, Sequences

CONSTANTS
  Cores,        \* ids of the traced harts
  AddrMod,      \* number of addresses; a power of two
  SignBit,      \* 2^(bitsPerAddress-1)
  TimeMod,      \* number of timestamp values; a power of two
  TsMod,        \* 2^tsSize, the range of the hart's timestamp counter
  Xor(_, _)     \* bitwise exclusive or

Address == 0 .. AddrMod - 1
Time    == 0 .. TimeMod - 1

NoAddr == -1    \* the address -1 (all ones): "next address not known"
NoTs   == -1    \* haveTimestamp == false

ASSUME NumbersAssumption ==
  /\ AddrMod \in Nat \ {0}
  /\ SignBit \in 1 .. AddrMod
  /\ TimeMod \in Nat \ {0}
  /\ TsMod \in 1 .. TimeMod

ASSUME CoresAssumption == Cores # {} /\ Cores \subseteq Nat

(* Exclusive or stays within a power of two, and a number below one leaves *)
(* the bits above it alone.                                                *)
ASSUME XorAssumption ==
  /\ \A a, b \in Address : Xor(a, b) \in Address
  /\ \A s, t \in Time    : Xor(s, t) \in Time
  /\ \A s \in Time : \A t \in 0 .. TsMod - 1 : Xor(s, t) \div TsMod = s \div TsMod

(***************************************************************************)
(* Message codes.  The codes SliceFileParser rejects are not messages here;*)
(* AUXACCESS_WRITE is parsed, but NextInstruction has no case for it.      *)
(***************************************************************************)
SyncTCodes  == {"SYNC", "DIRECT_BRANCH_WS", "INDIRECT_BRANCH_WS",
                "INDIRECTBRANCHHISTORY_WS"}
CountTCodes == SyncTCodes \cup
               {"DIRECT_BRANCH", "INDIRECT_BRANCH", "INDIRECTBRANCHHISTORY",
                "RESOURCEFULL", "CORRELATION"}
ICTTCodes   == {"INCIRCUITTRACE", "INCIRCUITTRACE_WS"}
TCodes      == CountTCodes \cup ICTTCodes \cup
               {"DATA_ACQUISITION", "OWNERSHIP_TRACE", "ERROR", "AUXACCESS_WRITE"}

ICTReasons == {"EXT_TRIG", "WATCHPOINT", "INFERABLECALL", "EXCEPTION",
               "INTERRUPT", "CONTEXT", "PC_SAMPLE", "CONTROL", "OTHER"}

(***************************************************************************)
(* A message.  Only the fields of its own tcode are meaningful; the others *)
(* hold the values of NoMessage.                                           *)
(*   addr    f_addr, u_addr or ckdata[0]                                   *)
(*   rData   the union of resourceFull: i_cnt, history, (not)takenCount    *)
(*   itc     the data acquisition is consumed by the ITC print or perf     *)
(*           decoder instead of being handed to the caller                 *)
(***************************************************************************)
Message ==
  [tcode : TCodes, core : Cores, ts : (0 .. TsMod - 1) \cup {NoTs},
   i_cnt : Nat, history : Nat, rCode : Nat, rData : Nat,
   addr : Address, ckdata1 : Address, b_type : {"NONE", "INDIRECT", "EXCEPTION"},
   cdf : {0, 1}, tag : 0 .. 3, pid : Nat, prv : Nat,
   cksrc : ICTReasons, ckdf : Nat, itc : BOOLEAN]

MessageOf(tcode, core) ==
  [tcode |-> tcode, core |-> core, ts |-> NoTs,
   i_cnt |-> 0, history |-> 0, rCode |-> 0, rData |-> 0,
   addr |-> 0, ckdata1 |-> 0, b_type |-> "NONE",
   cdf |-> 0, tag |-> 0, pid |-> 0, prv |-> 0,
   cksrc |-> "CONTROL", ckdf |-> 0, itc |-> FALSE]

(***************************************************************************)
(* Trace::signExtendAddr: a set bit bitsPerAddress-1 is copied to all the  *)
(* bits above it.                                                          *)
(***************************************************************************)
signExtendAddr(a) ==
  IF (a \div SignBit) % 2 = 1
  THEN (a % SignBit) + (AddrMod - SignBit)
  ELSE a

(***************************************************************************)
(* The fields of a message that hold addresses, which a Linux trace sign   *)
(* extends before the message is used.                                     *)
(***************************************************************************)
SignExtended(m) ==
  CASE m.tcode \in SyncTCodes \cup {"INDIRECT_BRANCH", "INDIRECTBRANCHHISTORY"} ->
         [m EXCEPT !.addr = signExtendAddr(@)]
    [] m.tcode \in ICTTCodes /\ m.cksrc = "INFERABLECALL" ->
         [m EXCEPT !.addr = signExtendAddr(@),
                   !.ckdata1 = IF m.ckdf = 1 THEN signExtendAddr(@) ELSE @]
    [] m.tcode \in ICTTCodes /\ m.cksrc \notin {"INFERABLECALL", "CONTROL", "OTHER"} ->
         [m EXCEPT !.addr = signExtendAddr(@)]
    [] OTHER -> m

(* Mutant of processTS: the wrap of the counter is not noticed.            *)
ProcessTSNoWrap(full, lastTs, newTs) ==
  IF full THEN (newTs + (lastTs \div TsMod) * TsMod) % TimeMod
  ELSE IF lastTs # 0 THEN Xor(lastTs, newTs) ELSE 0

(***************************************************************************)
(* Trace::processTS: the time of a message from the last time of its core. *)
(* A full timestamp keeps the wraps counted so far; a relative one is the  *)
(* exclusive or with the last time, and stays 0 until a full one is seen.  *)
(***************************************************************************)
processTS(full, lastTs, newTs) ==
  LET ts == IF full THEN (newTs + (lastTs \div TsMod) * TsMod) % TimeMod
            ELSE IF lastTs # 0 THEN Xor(lastTs, newTs) ELSE 0
  IN  IF ts < lastTs THEN (ts + TsMod) % TimeMod ELSE ts
=============================================================================
