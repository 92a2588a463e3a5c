--------------------------- MODULE SliceFileParser ---------------------------
(***************************************************************************)
(* SliceFileParser: the trace, a file or a socket, is read a byte at a     *)
(* time, cut into messages, and each message is parsed.  A call of         *)
(* readNextTraceMsg is one step per byte; NextInstruction calls it until   *)
(* it has a message, or gives up at the end of the file or at an error.    *)
(*                                                                         *)
(* flushMessage is never set, so the loop of readBinaryMsg that it guards  *)
(* is not modelled.                                                        *)
(***************************************************************************)
EXTENDS Slices, SequencesExt

CONSTANTS
  MsgSize,      \* slices the message buffer holds (64)
  BufSize,      \* size of the socket buffer (2048)
  Traces,       \* what may have been written, see socket, written and wire
  MayFail       \* reading the file or the socket may fail

ASSUME ParserAssumption ==
  /\ MayFail \in BOOLEAN
  /\ MsgSize \in Nat /\ MsgSize > 1
  /\ BufSize \in Nat /\ BufSize > 1
  /\ \A t \in Traces : t.socket \in BOOLEAN /\ t.wire \in Seq(Slice)

VARIABLES
  socket,       \* the trace comes from a socket (SWTsock >= 0)
  written,      \* the messages the trace is made of, as parsed fields
  wire,         \* its bytes
  input,        \* bytes not read from the file, or not received
  ring,         \* sockBuffer, bufferInIndex and bufferOutIndex
  msg,          \* the first pendingMsgIndex slices of the message buffer
  status,
  reading,      \* a call of readNextTraceMsg is running
  rc,           \* what the last one returned
  taken,        \* bytes taken out of the file or the socket buffer
  delivered     \* the messages returned

vars == <<socket, written, wire, input, ring, msg, status, reading, rc, taken, delivered>>

Codes == {"OK", "EOF", "EOM", "BM", "ERR"}

(* NextInstruction ends the trace.                                         *)
Over == rc \in {"EOF", "EOM", "ERR"}

Blank == [data |-> 0, mseo |-> "NORMAL"]

Init ==
  /\ \E t \in Traces : socket = t.socket /\ written = t.written /\ wire = t.wire
  /\ input = wire
  /\ ring = [buf |-> [i \in 0 .. BufSize - 1 |-> Blank], in |-> 0, out |-> 0]
  /\ msg = << >> /\ status = "OK" /\ reading = FALSE /\ rc = "OK"
  /\ taken = 0 /\ delivered = << >>

Return(r) == reading' = FALSE /\ rc' = r

(* A parser whose status is not OK refuses every further call.             *)
readNextTraceMsg ==
  /\ ~reading /\ ~Over
  /\ IF status = "OK" THEN reading' = TRUE /\ UNCHANGED rc ELSE Return(status)
  /\ UNCHANGED <<socket, written, wire, input, ring, msg, status, taken, delivered>>

-----------------------------------------------------------------------------
(***************************************************************************)
(* bufferSWT.  recv may return any part of what is under way, or nothing.  *)
(* Received(r, s, at, room) are the outcomes of one recv to index at: the  *)
(* buffer, the number of bytes, and what is still under way.               *)
(***************************************************************************)
Received(r, s, at, room) ==
  {[buf |-> [i \in DOMAIN r.buf |-> IF i \in at .. at + n - 1 THEN s[i - at + 1] ELSE r.buf[i]],
    n |-> n, s |-> SubSeq(s, n + 1, Len(s))] :
     n \in {0} \cup {k \in 1 .. Len(s) : k <= room}}

Filled(r, v, in, out) == [r |-> [buf |-> v.buf, in |-> in, out |-> out], s |-> v.s]

(* Mutant of Room: the buffer may be filled to the last byte.              *)
RoomFull(r) == IF r.in < r.out THEN r.out - r.in - 1 ELSE BufSize - r.in

(* Room for one recv: one byte of the buffer always stays free.            *)
Room(r) ==
  IF r.in < r.out THEN r.out - r.in - 1
  ELSE BufSize - r.in - (IF r.out = 0 THEN 1 ELSE 0)

bufferSWT(r, s) ==
  IF r.in = r.out
  THEN {IF v.n = 0 THEN [r |-> r, s |-> s] ELSE Filled(r, v, v.n, 0) :
          v \in Received(r, s, 0, BufSize - 1)}
  ELSE UNION
    {IF r.in > r.out /\ r.in + v.n >= BufSize
     THEN {Filled(r, u, u.n, r.out) : u \in Received(v, v.s, 0, r.out - 1)}
     ELSE {Filled(r, v, r.in + v.n, r.out)} : v \in Received(r, s, r.in, Room(r))}

(* getNumBytesInSWTQ fills the buffer too, between two reads.              *)
getNumBytesInSWTQ ==
  /\ ~reading /\ socket
  /\ \/ \E u \in bufferSWT(ring, input) : ring' = u.r /\ input' = u.s /\ UNCHANGED status
     \/ MayFail /\ status' = "ERR" /\ UNCHANGED <<ring, input>>
  /\ UNCHANGED <<socket, written, wire, msg, reading, rc, taken, delivered>>

(* The next byte and what taking it leaves: on a socket it comes out of    *)
(* the buffer, which is filled first.                                      *)
NextByte ==
  IF socket
  THEN {[b |-> u.r.buf[u.r.out], ring |-> [u.r EXCEPT !.out = (@ + 1) % BufSize], input |-> u.s] :
          u \in {v \in bufferSWT(ring, input) : v.r.in # v.r.out}}
  ELSE {[b |-> Head(s), ring |-> ring, input |-> Tail(s)] : s \in {input} \ {<< >>}}

Take(u) ==
  /\ ring' = u.ring /\ input' = u.input /\ taken' = taken + 1
  /\ UNCHANGED <<socket, written, wire>>

-----------------------------------------------------------------------------
(* readBinaryMsg: bytes before a message are stripped off: zeros, idle     *)
(* bytes and the ends of messages that a wrapped buffer has cut off.       *)
StartsMessage(b) == b.mseo = "NORMAL" /\ b.data # 0

Skip ==
  /\ reading /\ msg = << >>
  /\ \E u \in NextByte : ~StartsMessage(u.b) /\ Take(u)
  /\ UNCHANGED <<msg, status, reading, rc, delivered>>

FirstSlice ==
  /\ reading /\ msg = << >>
  /\ \E u \in NextByte : StartsMessage(u.b) /\ Take(u) /\ msg' = <<u.b>>
  /\ UNCHANGED <<status, reading, rc, delivered>>

(* Mutant of NextSlice: the size of the message buffer is not checked.     *)
NextSliceUnchecked ==
  /\ reading /\ msg # << >>
  /\ \E u \in NextByte : u.b.mseo # "END" /\ Take(u) /\ msg' = Append(msg, u.b)
  /\ UNCHANGED <<status, reading, rc, delivered>>

NextSlice ==
  /\ reading /\ msg # << >> /\ Len(msg) < MsgSize
  /\ \E u \in NextByte : u.b.mseo # "END" /\ Take(u) /\ msg' = Append(msg, u.b)
  /\ UNCHANGED <<status, reading, rc, delivered>>

(* The last slice: the message is parsed, and skipped if that fails.  A    *)
(* parse function leaves its result in status; a code without one does not.*)
LastSlice ==
  /\ reading /\ msg # << >> /\ Len(msg) < MsgSize
  /\ msg' = << >>
  /\ \E u \in NextByte :
       /\ u.b.mseo = "END" /\ Take(u)
       /\ \E p \in {parseMessage(Append(msg, u.b), ub) : ub \in Garbage} :
            /\ status' = IF Supported(msg) THEN p.rc ELSE "OK"
            /\ Return(IF p.rc = "OK" THEN "OK" ELSE "BM")
            /\ delivered' = IF p.rc = "OK" THEN Append(delivered, p.f) ELSE delivered

(* The message does not fit the buffer.                                    *)
Overflow ==
  /\ reading /\ Len(msg) >= MsgSize
  /\ msg' = << >> /\ status' = "BM" /\ Return("BM")
  /\ UNCHANGED <<socket, written, wire, input, ring, taken, delivered>>

(* Mutants of NoData: the message begun is dropped; it is a bad message.   *)
NoDataDropsMessage ==
  /\ reading /\ socket /\ Len(msg) < MsgSize
  /\ \E u \in bufferSWT(ring, input) :
       u.r.in = u.r.out /\ ring' = u.r /\ input' = u.s
  /\ msg' = << >> /\ Return("OK")
  /\ UNCHANGED <<socket, written, wire, status, taken, delivered>>

NoDataIsBad ==
  /\ reading /\ socket /\ Len(msg) < MsgSize
  /\ \E u \in bufferSWT(ring, input) :
       u.r.in = u.r.out /\ ring' = u.r /\ input' = u.s
  /\ status' = "BM" /\ Return("BM")
  /\ UNCHANGED <<socket, written, wire, msg, taken, delivered>>

(* Nothing has arrived: the call returns without a message, and what there *)
(* is of one is kept.                                                      *)
NoData ==
  /\ reading /\ socket /\ Len(msg) < MsgSize
  /\ \E u \in bufferSWT(ring, input) :
       u.r.in = u.r.out /\ ring' = u.r /\ input' = u.s
  /\ Return("OK")
  /\ UNCHANGED <<socket, written, wire, msg, status, taken, delivered>>

EndOfFile ==
  /\ reading /\ ~socket /\ Len(msg) < MsgSize /\ input = << >>
  /\ status' = "EOF" /\ Return("EOF")
  /\ UNCHANGED <<socket, written, wire, input, ring, msg, taken, delivered>>

ReadFails ==
  /\ MayFail /\ reading /\ Len(msg) < MsgSize
  /\ status' = "ERR" /\ Return("ERR")
  /\ UNCHANGED <<socket, written, wire, input, ring, msg, taken, delivered>>

Next == \/ readNextTraceMsg \/ getNumBytesInSWTQ \/ Skip \/ FirstSlice
        \/ NextSlice \/ LastSlice \/ Overflow \/ NoData \/ EndOfFile \/ ReadFails

Spec == Init /\ [][Next]_vars

(* NextInstruction keeps calling, a call runs until it returns, and bytes  *)
(* under way arrive in the end.                                            *)
FairSpec ==
  /\ Spec
  /\ WF_vars(readNextTraceMsg) /\ WF_vars(Overflow \/ EndOfFile)
  /\ SF_vars(Skip \/ FirstSlice \/ NextSlice \/ LastSlice)

-----------------------------------------------------------------------------
(***************************************************************************)
(* Properties.                                                             *)
(***************************************************************************)
(* The bytes between bufferOutIndex and bufferInIndex.                     *)
RingBytes ==
  [k \in 1 .. (ring.in - ring.out) % BufSize |-> ring.buf[(ring.out + k - 1) % BufSize]]

TypeOK ==
  /\ wire \in Seq(Slice) /\ input \in Seq(Slice) /\ msg \in Seq(Slice)
  /\ Len(msg) <= MsgSize
  /\ ring.in \in 0 .. BufSize - 1 /\ ring.out \in 0 .. BufSize - 1
  /\ status \in Codes /\ rc \in Codes /\ reading \in BOOLEAN
  /\ taken \in 0 .. Len(wire)

(* bufferSWT neither overwrites a byte that has not been read, nor drops,  *)
(* repeats or reorders one, wherever the indices have wrapped and however  *)
(* recv cuts up the stream.                                                *)
BufferHoldsStream == RingBytes \o input = SubSeq(wire, taken + 1, Len(wire))

(* Messages come out with the fields they were written with, in order,     *)
(* each once, whatever lies between them and wherever a call had to stop   *)
(* for want of data; at the end of a file none is missing.                 *)
DeliveredInOrder ==
  /\ IsPrefix(delivered, written)
  /\ rc = "EOF" => delivered = written

(* Every message of the trace is delivered in the end, unless reading      *)
(* fails: no message stays behind in a buffer that is never filled again.  *)
AllDelivered == <>(delivered = written \/ Over)
=============================================================================
