------------------------------- MODULE Slices -------------------------------
(***************************************************************************)
(* A trace message on the wire: a sequence of slices, each with six bits   *)
(* of data and two MSEO bits that say whether a field or the message ends  *)
(* with it; and how SliceFileParser takes its fields out of the slices.    *)
(***************************************************************************)
EXTENDS Integers, Sequences

CONSTANTS
  SrcBits,      \* width of the core id in a message; 0: a single core
  ValBits,      \* width of a field's value (64)
  Garbage       \* what a shift by ValBits or more may leave in a value

ASSUME SlicesAssumption ==
  /\ SrcBits \in Nat /\ ValBits \in Nat \ {0}
  /\ Garbage # {} /\ Garbage \subseteq 0 .. 2^ValBits - 1

(* The reserved MSEO value 2 is treated like VAR_END everywhere.           *)
Slice == [data : 0 .. 63, mseo : {"NORMAL", "VAR_END", "END"}]

(* The data of slices i .. j (counted from 0), the lowest bits first.      *)
DataOf(msg, i, j) ==
  LET d[k \in 0 .. j - i + 1] == IF k = 0 THEN 0 ELSE d[k - 1] + msg[i + k].data * 2^(6 * (k - 1))
  IN  d[j - i + 1]

-----------------------------------------------------------------------------
(***************************************************************************)
(* A cursor: rc of the parse so far, next bit, end of message seen, and    *)
(* the values of the fields parsed.                                        *)
(***************************************************************************)
StartOf == [rc |-> "OK", bit |-> 0, eom |-> FALSE, f |-> << >>]

Field(s, name) == s.f[CHOOSE i \in 1 .. Len(s.f) : s.f[i][1] = name][2]
Failed(s, rc) == [s EXCEPT !.rc = rc]

(* SliceFileParser::parseFixedField.  A field may not end with the         *)
(* message: every message has a variable field after its fixed ones.       *)
parseFixedField(msg, s, name, width) ==
  LET i    == s.bit \div 6
      b    == s.bit % 6
      last == IF b + width > 6 THEN i + 1 + (b + width - 6) \div 6 ELSE i
  IN  IF s.bit + width >= 6 * Len(msg) THEN Failed(s, "EOM")
      ELSE [s EXCEPT !.bit = @ + width, !.eom = @ \/ msg[last + 1].mseo = "END",
                     !.f = Append(@, <<name, (DataOf(msg, i, last) \div 2^b) % 2^width>>)]

(***************************************************************************)
(* SliceFileParser::parseVarField: the field goes on to the first slice    *)
(* that is not NORMAL; the last slice of a message is END.  The check for  *)
(* overflow looks at the two highest bits of the last slice.               *)
(***************************************************************************)
parseVarField(msg, s, name, ub) ==
  LET i    == s.bit \div 6
      b    == s.bit % 6
      last == CHOOSE j \in i .. Len(msg) - 1 :
                /\ msg[j + 1].mseo # "NORMAL"
                /\ \A k \in i .. j - 1 : msg[k + 1].mseo = "NORMAL"
      w    == 6 * (last - i + 1) - b
      v    == IF w - 6 >= ValBits THEN ub ELSE (DataOf(msg, i, last) \div 2^b) % 2^ValBits
  IN  IF i >= Len(msg) THEN Failed(s, "EOM")
      ELSE IF w > ValBits /\ msg[last + 1].data >= 16 THEN Failed(s, "ERR")
      ELSE [s EXCEPT !.bit = @ + w, !.eom = @ \/ msg[last + 1].mseo = "END",
                     !.f = Append(@, <<name, v>>)]

-----------------------------------------------------------------------------
(***************************************************************************)
(* The layout of each message after tcode and core id, one per parse       *)
(* function: fixed and variable fields, fields that another field calls    *)
(* for, and checks of a field's value.                                     *)
(***************************************************************************)
Fixed(name, width)   == [kind |-> "fixed", name |-> name, width |-> width]
Var(name)            == [kind |-> "var", name |-> name]
VarIf(name, sel, in) == [kind |-> "varif", name |-> name, sel |-> sel, in |-> in]
Check(name, in)      == [kind |-> "check", name |-> name, in |-> in]

parseICT               == <<Fixed("cksrc", 4), Fixed("ckdf", 2), Check("ckdf", {0, 1}),
                            Var("addr"), VarIf("ckdata1", "ckdf", {1})>>
parseICTWS             == <<Fixed("cksrc", 4), Fixed("ckdf", 2), Check("ckdf", {0, 1}),
                            Var("addr"), VarIf("ckdata1", "ckdf", {1})>>
parseIndirectHistory   == <<Fixed("b_type", 2), Var("i_cnt"), Var("addr"), Var("history")>>
parseIndirectHistoryWS == <<Fixed("sync", 4), Fixed("b_type", 2), Var("i_cnt"), Var("addr"),
                            Var("history")>>
parseResourceFull      == <<Fixed("rCode", 4), Var("rData"), Check("rCode", {0, 1, 8, 9})>>
parseDirectBranch      == <<Var("i_cnt")>>
parseDirectBranchWS    == <<Fixed("sync", 4), Var("i_cnt"), Var("addr")>>
parseIndirectBranch    == <<Fixed("b_type", 2), Var("i_cnt"), Var("addr")>>
parseIndirectBranchWS  == <<Fixed("sync", 4), Fixed("b_type", 2), Var("i_cnt"), Var("addr")>>
parseSync              == <<Fixed("sync", 4), Var("i_cnt"), Var("addr")>>
parseCorrelation       == <<Fixed("evcode", 4), Fixed("cdf", 2), Var("i_cnt"),
                            VarIf("history", "cdf", {1}), Check("cdf", {0, 1})>>
parseError             == <<Fixed("etype", 4), Var("pad")>>
parseOwnershipTrace    == <<Var("pid")>>
parseAuxAccessWrite    == <<Var("addr"), Var("data")>>
parseDataAcquisition   == <<Var("idTag"), Var("data")>>

(* Other codes are unsupported or unknown.                                 *)
Layouts ==
  [t \in {2, 3, 4, 7, 8, 9, 11, 12, 23, 27, 28, 29, 33, 34, 35} |->
     CASE t = 2  -> parseOwnershipTrace    [] t = 3  -> parseDirectBranch
       [] t = 4  -> parseIndirectBranch    [] t = 7  -> parseDataAcquisition
       [] t = 8  -> parseError             [] t = 9  -> parseSync
       [] t = 11 -> parseDirectBranchWS    [] t = 12 -> parseIndirectBranchWS
       [] t = 23 -> parseAuxAccessWrite    [] t = 27 -> parseResourceFull
       [] t = 28 -> parseIndirectHistory   [] t = 29 -> parseIndirectHistoryWS
       [] t = 33 -> parseCorrelation       [] t = 34 -> parseICT
       [] t = 35 -> parseICTWS]

parseField(msg, s, fld, ub) ==
  IF s.rc # "OK" THEN s
  ELSE CASE fld.kind = "fixed" -> parseFixedField(msg, s, fld.name, fld.width)
         [] fld.kind = "var"   -> parseVarField(msg, s, fld.name, ub)
         [] fld.kind = "varif" -> IF Field(s, fld.sel) \in fld.in
                                  THEN parseVarField(msg, s, fld.name, ub) ELSE s
         [] fld.kind = "check" -> IF Field(s, fld.name) \in fld.in THEN s
                                  ELSE Failed(s, "ERR")

(* What is left after the fields is a timestamp, and then the message ends.*)
parseTimestamp(msg, s, ub) ==
  IF s.rc # "OK" \/ s.eom THEN s
  ELSE LET t == parseVarField(msg, s, "timestamp", ub)
       IN  IF t.rc = "OK" /\ ~t.eom THEN Failed(t, "BM") ELSE t

(***************************************************************************)
(* The switch of readNextTraceMsg on a complete message: its first slice   *)
(* is the tcode.  The parse function of a code it supports takes the       *)
(* fields one after the other; Cursors(m, ub)[k] is the cursor after k.    *)
(***************************************************************************)
Supported(msg) == msg[1].data \in DOMAIN Layouts

Layout(msg) == <<Fixed("tcode", 6)>> \o (IF SrcBits > 0 THEN <<Fixed("src", SrcBits)>> ELSE << >>)
                 \o Layouts[msg[1].data]

Cursors(msg, ub) ==
  LET c[k \in 0 .. Len(Layout(msg))] ==
        IF k = 0 THEN StartOf
        ELSE CHOOSE r \in {parseField(msg, s, Layout(msg)[k], ub) : s \in {c[k - 1]}} : TRUE
  IN  c

parseMessage(msg, ub) ==
  IF ~Supported(msg) THEN Failed(StartOf, "ERR")
  ELSE parseTimestamp(msg, Cursors(msg, ub)[Len(Layout(msg))], ub)
=============================================================================
