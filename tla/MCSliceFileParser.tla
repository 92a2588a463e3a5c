------------------------- MODULE MCSliceFileParser -------------------------
(***************************************************************************)
(* Small instances of SliceFileParser for TLC, and the writer: how the     *)
(* trace encoder packs the fields of a message into slices.  Fixed fields  *)
(* follow each other without a gap, a variable field starts right behind   *)
(* them and fills its last slice.                                          *)
(***************************************************************************)
EXTENDS SliceFileParser

FixedWidth == [tcode |-> 6, src |-> SrcBits, cksrc |-> 4, ckdf |-> 2, b_type |-> 2, sync |-> 4,
               rCode |-> 4, evcode |-> 4, cdf |-> 2, etype |-> 4]

(* As few slices as hold n bits of fixed fields and the number v above.    *)
SlicesFor(v, n) == CHOOSE k \in n \div 6 + 1 .. 6 : v < 2^(6 * k) /\ (k = n \div 6 + 1 \/ v >= 2^(6 * (k - 1)))

VarSlices(v, n) ==
  [i \in 1 .. SlicesFor(v, n) |->
     [data |-> (v \div 2^(6 * (i - 1))) % 64,
      mseo |-> IF i = SlicesFor(v, n) THEN "VAR_END" ELSE "NORMAL"]]

Pack(w, fld) ==
  LET v == w.acc + fld[2] * 2^w.n
  IN  IF fld[1] \in DOMAIN FixedWidth
      THEN [w EXCEPT !.acc = v, !.n = @ + FixedWidth[fld[1]]]
      ELSE [acc |-> 0, n |-> 0, out |-> w.out \o VarSlices(v, w.n)]

Encode(m) ==
  LET s == FoldLeft(Pack, [acc |-> 0, n |-> 0, out |-> << >>], m).out
  IN  [s EXCEPT ![Len(s)].mseo = "END"]

Trace(good, wireOf) == [socket |-> FALSE, written |-> good, wire |-> wireOf]

-----------------------------------------------------------------------------
Msg(t, fields) == <<<<"tcode", t>>>> \o (IF SrcBits > 0 THEN <<<<"src", 1>>>> ELSE << >>) \o fields
WithTime(m, t) == Append(m, <<"timestamp", t>>)
F(name, v) == <<name, v>>

(* A message of every kind, with values at the edges of slices and words.  *)
AllMessages ==
  { Msg(2, <<F("pid", 64)>>), Msg(3, <<F("i_cnt", 0)>>), WithTime(Msg(3, <<F("i_cnt", 63)>>), 64),
    Msg(4, <<F("b_type", 1), F("i_cnt", 4), F("addr", 1023)>>),
    Msg(7, <<F("idTag", 16), F("data", 15)>>), WithTime(Msg(8, <<F("etype", 3), F("pad", 0)>>), 1),
    Msg(9, <<F("sync", 5), F("i_cnt", 64), F("addr", 1)>>),
    WithTime(Msg(11, <<F("sync", 15), F("i_cnt", 1), F("addr", 255)>>), 1023),
    Msg(12, <<F("sync", 2), F("b_type", 3), F("i_cnt", 16), F("addr", 7)>>),
    Msg(23, <<F("addr", 2), F("data", 3)>>),
    Msg(27, <<F("rCode", 0), F("rData", 100)>>), Msg(27, <<F("rCode", 9), F("rData", 1)>>),
    Msg(28, <<F("b_type", 0), F("i_cnt", 3), F("addr", 65), F("history", 1)>>),
    WithTime(Msg(29, <<F("sync", 1), F("b_type", 1), F("i_cnt", 0), F("addr", 8), F("history", 511)>>), 0),
    Msg(33, <<F("evcode", 4), F("cdf", 0), F("i_cnt", 2)>>),
    Msg(33, <<F("evcode", 0), F("cdf", 1), F("i_cnt", 2), F("history", 9)>>),
    Msg(34, <<F("cksrc", 8), F("ckdf", 0), F("addr", 0)>>),
    WithTime(Msg(34, <<F("cksrc", 1), F("ckdf", 1), F("addr", 3), F("ckdata1", 1000)>>), 12),
    Msg(35, <<F("cksrc", 6), F("ckdf", 1), F("addr", 2), F("ckdata1", 33)>>) }

Idle == [data |-> 63, mseo |-> "END"]
Cut  == [data |-> 9, mseo |-> "VAR_END"]
Gaps == { << >>, <<Blank>>, <<Idle, Idle>>, <<Cut, Idle, Blank>> }

(* An unsupported code is skipped: device id.                              *)
DeviceId == Encode(Msg(1, <<F("id", 5)>>))

Sync == Msg(9, <<F("sync", 5), F("i_cnt", 1), F("addr", 1)>>)

(* A message that ends too early, goes on too long, is cut off by the end  *)
(* of the file, or does not fit a buffer of 16 slices.                     *)
Truncated == SubSeq(Encode(Sync), 1, 2) \o <<[data |-> 1, mseo |-> "END"]>>
TooManyFields == Encode(WithTime(WithTime(Sync, 1), 1))
CutOff == SubSeq(Encode(Sync), 1, 2)
TooLong == SubSeq(Encode(Sync), 1, 1) \o [i \in 1 .. 16 |-> [data |-> i, mseo |-> "VAR_END"]] \o <<Idle>>

(* Files of two messages, with something to skip before each, and files of *)
(* one with a bad one behind it.                                           *)
FileTraces ==
  { Trace(<<m, n>>, g \o Encode(m) \o g \o u \o Encode(n) \o g) :
      m \in AllMessages, n \in AllMessages, g \in Gaps, u \in {<< >>, DeviceId} } \cup
  { Trace(<<m>>, Encode(m) \o b \o g) :
      m \in AllMessages, g \in Gaps, b \in {Truncated, TooManyFields, TooLong} } \cup
  { Trace(<<m>>, Encode(m) \o CutOff) : m \in AllMessages }

SocketMessages ==
  { WithTime(Msg(3, <<F("i_cnt", 5)>>), 64), Msg(2, <<F("pid", 7)>>) }
SocketTraces ==
  { [Trace(<<m, n, m>>, Encode(m) \o Encode(n) \o g \o Encode(m)) EXCEPT !.socket = TRUE] :
      m \in SocketMessages, n \in SocketMessages, g \in {<< >>, <<Idle, Blank>>} }

AllTraces == FileTraces \cup SocketTraces
=============================================================================
