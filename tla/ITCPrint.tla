------------------------------ MODULE ITCPrint ------------------------------
(***************************************************************************)
(* Class ITCPrint (dqr.cpp): the text a target prints through the          *)
(* instrumentation trace.  Data acquisition messages carry a few           *)
(* characters each; per core they are collected in a circular buffer of    *)
(* NUL terminated messages, and the times of the first and the last write  *)
(* of every message in a circular doubly linked list (TsList) whose nodes  *)
(* go back to one free list for all cores.  The two structures are kept    *)
(* apart by the code and have to stay in step.                             *)
(*                                                                         *)
(* Pointers are indices into heap, 0 is nullptr.  A dereferenced nullptr   *)
(* sets crashed and stops the program.  Time is the number of the write.   *)
(***************************************************************************)
EXTENDS Integers, Sequences, SequencesExt, FiniteSetsExt

CONSTANTS
    Cores,       \* the cores that print
    BuffSize,    \* bytes of the buffer of a core
    Chars,       \* what a byte of text may be
    Words,       \* what one write to the print channel carries: sequences of characters
    NlsTexts,    \* what a no-load-string write expands to
    DstLens,     \* sizes of the caller's buffer in getITCPrintMsg
    Eager,       \* the caller reads like main(): after every write, and flushes at the end
    MaxWrites    \* bound: writes in a run

Nul == "NUL"
Eol == "EOL"     \* '\n' or '\r'

ASSUME ITCPrintAssumption ==
    /\ BuffSize \in Nat \ {0} /\ MaxWrites \in Nat /\ Eager \in BOOLEAN
    /\ {Nul, Eol} \subseteq Chars /\ Words \cup NlsTexts \subseteq Seq(Chars)
    /\ \A w \in NlsTexts : Nul \notin ToSet(w)
    /\ DstLens \subseteq Nat \ {0}

VARIABLES
    pbuff, pbi, pbo, numMsgs,   \* per core: buffer, in and out index, complete messages
    tsList,                     \* per core: newest node
    heap, freeList,             \* the nodes ever allocated, and the first free one
    time, crashed,
    lines, current,             \* history: messages not read yet, and the one in progress
    lastRead,                   \* history: what the last read gave, and should have given
    overrun                     \* history: pbi has run into pbo

itc  == <<pbuff, pbi, pbo, numMsgs, tsList, heap, freeList>>
vars == <<itc, time, crashed, lines, current, lastRead, overrun>>

Node == [next: Nat, prev: Nat, terminated: BOOLEAN, startTime: Nat, endTime: Nat]
Line == [text: Seq(Chars), start: Nat, end: Nat]
NoLine == [text |-> <<>>, start |-> 0, end |-> 0]

\* ITCPrint::ITCPrint
Init ==
    /\ pbuff = [c \in Cores |-> [i \in 0..(BuffSize - 1) |-> Nul]]
    /\ pbi = [c \in Cores |-> 0] /\ pbo = [c \in Cores |-> 0]
    /\ numMsgs = [c \in Cores |-> 0]
    /\ tsList = [c \in Cores |-> 0] /\ heap = <<>> /\ freeList = 0
    /\ time = 1 /\ crashed = FALSE
    /\ lines = [c \in Cores |-> <<>>] /\ current = [c \in Cores |-> NoLine]
    /\ lastRead = [got |-> NoLine, expected |-> NoLine]
    /\ overrun = [c \in Cores |-> FALSE]

-----------------------------------------------------------------------------
(* The buffer of a core during one call: [mem, in, room, msgs, done]; done *)
(* says that the message in progress has been terminated, accepted is the  *)
(* text stored so far.                                                     *)

\* Equal indices are taken for an empty buffer.
RoomBetween(in, out) ==
    CASE in > out -> BuffSize - in + out - 1
      [] in < out -> out - in - 1
      [] OTHER    -> BuffSize - 1

roomInITCPrintQ(c) == RoomBetween(pbi[c], pbo[c])

\* Mutant of Advance: the index wraps one byte too late.
AdvanceLate(i) == IF i >= BuffSize THEN 0 ELSE i + 1

Advance(i) == IF i + 1 >= BuffSize THEN 0 ELSE i + 1

Put(b, ch) == [b EXCEPT !.mem[b.in] = ch, !.in = Advance(@), !.room = @ - 1]

\* Mutants of PutChar: a line end does not terminate the text; the room is not checked.
PutCharNoNul(b, ch) ==
    IF b.room < 2 THEN b
    ELSE LET stored == [Put(b, ch) EXCEPT !.accepted = IF ch = Nul THEN @ ELSE Append(@, ch)]
         IN  IF ch \in {Nul, Eol} THEN [stored EXCEPT !.msgs = @ + 1, !.done = TRUE] ELSE stored
PutCharUnchecked(b, ch) ==
    LET stored == [Put(b, ch) EXCEPT !.accepted = IF ch = Nul THEN @ ELSE Append(@, ch)]
    IN  CASE ch = Nul -> [stored EXCEPT !.msgs = @ + 1, !.done = TRUE]
          [] ch = Eol -> [Put(stored, Nul) EXCEPT !.msgs = @ + 1, !.done = TRUE]
          [] OTHER    -> stored

\* One character of a write to the print channel: kept only if a terminator fits too.
PutChar(b, ch) ==
    IF b.room < 2 THEN b
    ELSE LET stored == [Put(b, ch) EXCEPT !.accepted = IF ch = Nul THEN @ ELSE Append(@, ch)]
         IN  CASE ch = Nul -> [stored EXCEPT !.msgs = @ + 1, !.done = TRUE]
               [] ch = Eol -> [Put(stored, Nul) EXCEPT !.msgs = @ + 1, !.done = TRUE]
               [] OTHER    -> stored

\* One character of an expanded no-load string.
PutNlsChar(b, ch) ==
    IF b.room < 2 THEN b ELSE [Put(b, ch) EXCEPT !.accepted = Append(@, ch)]

\* All characters of a write, one after the other.
PutWord(b, w) ==
    LET put[i \in 0..Len(w)] == IF i = 0 THEN b ELSE PutChar(put[i - 1], w[i])
    IN  put[Len(w)]
PutNls(b, dst) ==
    LET put[i \in 0..Len(dst)] == IF i = 0 THEN b ELSE PutNlsChar(put[i - 1], dst[i])
    IN  put[Len(dst)]

BufferOf(c) == [mem |-> pbuff[c], in |-> pbi[c], room |-> roomInITCPrintQ(c),
                msgs |-> numMsgs[c], done |-> FALSE, accepted |-> <<>>]

StoreBuffer(c, b) ==
    /\ pbuff' = [pbuff EXCEPT ![c] = b.mem]
    /\ pbi' = [pbi EXCEPT ![c] = b.in]
    /\ numMsgs' = [numMsgs EXCEPT ![c] = b.msgs]
    /\ UNCHANGED pbo

-----------------------------------------------------------------------------
(* The list of a core: newest node first, newest.prev is the oldest.       *)

\* A node from the free list or a new one, with the list in between: [heap, free, node].
AllocTsList ==
    IF freeList # 0
    THEN [heap |-> heap, free |-> heap[freeList].next, node |-> freeList]
    ELSE [heap |-> Append(heap, [next |-> 0, prev |-> 0, terminated |-> FALSE,
                                 startTime |-> 0, endTime |-> 0]),
          free |-> 0, node |-> Len(heap) + 1]

\* Mutant of LinkTsList: the only node of a list does not point back to itself.
LinkTsListNoPrev(h, n, tlp) ==
    IF tlp = 0
    THEN [heap |-> [h EXCEPT ![n].next = n], ok |-> TRUE]
    ELSE LET h1 == [h EXCEPT ![n].next = tlp, ![n].prev = h[tlp].prev, ![tlp].prev = n]
         IN  [heap |-> h1, ok |-> h1[n].prev # 0]

\* Makes node n the newest of the list that starts at tlp, one assignment after the
\* other; the last one follows n->prev, which must not be nullptr.
LinkTsList(h, n, tlp) ==
    IF tlp = 0
    THEN [heap |-> [h EXCEPT ![n].next = n, ![n].prev = n], ok |-> TRUE]
    ELSE LET h1 == [h EXCEPT ![n].next = tlp]
             h2 == [h1 EXCEPT ![n].prev = h1[tlp].prev]
             h3 == [h2 EXCEPT ![tlp].prev = n]
             p  == h3[n].prev
         IN  IF p = 0 THEN [heap |-> h3, ok |-> FALSE]
             ELSE [heap |-> [h3 EXCEPT ![p].next = n], ok |-> TRUE]

\* The unlinking in consumeTerminatedTsList and consumeOldestTsList: tsl leaves the
\* list of core c and goes to the free list.  Only the newest node's next is mended.
UnlinkTsList(c, tsl) ==
    LET new  == tsList[c]
        only == heap[tsl].next = tsl
        h1   == IF only THEN heap ELSE [heap EXCEPT ![new].prev = heap[tsl].prev]
        h2   == IF ~only /\ h1[new].next = tsl
                THEN [h1 EXCEPT ![new].next = h1[tsl].next] ELSE h1
    IN  /\ tsList' = IF only THEN [tsList EXCEPT ![c] = 0] ELSE tsList
        /\ heap' = [h2 EXCEPT ![tsl].next = freeList, ![tsl].prev = 0]
        /\ freeList' = tsl

-----------------------------------------------------------------------------
(* print()                                                                 *)

Overrun(c, over) == overrun' = [overrun EXCEPT ![c] = @ \/ over]

\* A write to the print channel.
PrintWord(c, w) ==
    LET tlp   == tsList[c]
        fresh == tlp = 0 \/ heap[tlp].terminated
        al    == IF fresh THEN AllocTsList ELSE [heap |-> heap, free |-> freeList, node |-> tlp]
        link  == IF fresh THEN LinkTsList(al.heap, al.node, tlp) ELSE [heap |-> heap, ok |-> TRUE]
        b     == PutWord(BufferOf(c), w)
        start == IF fresh THEN time ELSE current[c].start
        line  == [text |-> current[c].text \o b.accepted, start |-> start, end |-> time]
    IN  IF ~link.ok THEN crashed' = TRUE /\ UNCHANGED <<itc, lines, current, overrun>>
        ELSE /\ freeList' = al.free
             /\ heap' = [link.heap EXCEPT ![al.node].terminated = b.done,
                                          ![al.node].startTime = IF fresh THEN time ELSE @,
                                          ![al.node].endTime = time]
             /\ tsList' = [tsList EXCEPT ![c] = al.node]
             /\ StoreBuffer(c, [b EXCEPT !.mem[b.in] = Nul])
             /\ lines' = IF b.done THEN [lines EXCEPT ![c] = Append(@, line)] ELSE lines
             /\ current' = [current EXCEPT ![c] = IF b.done THEN NoLine ELSE line]
             /\ Overrun(c, b.room < 0)
             /\ UNCHANGED crashed

\* A write that stands for a no-load string: it ends the message in progress, with no
\* regard for the room left, and is a message of its own; the room for it is what the
\* indices say by then.
NlsPrint(c, dst) ==
    LET tlp   == tsList[c]
        ends  == tlp # 0 /\ ~heap[tlp].terminated
        b0    == IF ends THEN [Put(BufferOf(c), Nul) EXCEPT !.msgs = @ + 1] ELSE BufferOf(c)
        al    == AllocTsList
        h0    == IF ends THEN [al.heap EXCEPT ![tlp].terminated = TRUE] ELSE al.heap
        link  == LinkTsList(h0, al.node, tlp)
        b1    == [b0 EXCEPT !.room = RoomBetween(b0.in, pbo[c])]
        b     == [Put(PutNls(b1, dst), Nul) EXCEPT !.msgs = @ + 1]
        done  == IF ends THEN Append(lines[c], current[c]) ELSE lines[c]
    IN  IF ~link.ok THEN crashed' = TRUE /\ UNCHANGED <<itc, lines, current, overrun>>
        ELSE /\ freeList' = al.free
             /\ heap' = [link.heap EXCEPT ![al.node].terminated = TRUE,
                                          ![al.node].startTime = time, ![al.node].endTime = time]
             /\ tsList' = [tsList EXCEPT ![c] = al.node]
             /\ StoreBuffer(c, b)
             /\ lines' = [lines EXCEPT ![c] =
                    Append(done, [text |-> b.accepted, start |-> time, end |-> time])]
             /\ current' = [current EXCEPT ![c] = NoLine]
             /\ Overrun(c, b0.room < 0 \/ b.room < 0)
             /\ UNCHANGED crashed

\* The cores with complete messages, and those with any text.
getITCPrintMask == {c \in Cores : numMsgs[c] # 0}
getITCFlushMask == {c \in Cores : numMsgs[c] > 0 \/ pbo[c] # pbi[c]}

Write ==
    /\ ~crashed /\ time <= MaxWrites /\ (Eager => getITCPrintMask = {})
    /\ time' = time + 1
    /\ \E c \in Cores : \/ \E w \in Words : PrintWord(c, w)
                        \/ \E t \in NlsTexts : NlsPrint(c, t)
    /\ UNCHANGED lastRead

-----------------------------------------------------------------------------
(* Reading.  The text from pbo to the next NUL, at most n characters of it.*)

TextFrom(c, n) ==
    LET ch(i) == pbuff[c][(pbo[c] + i) % BuffSize]
        len   == Min({i \in 0..n : i = n \/ ch(i) = Nul})
    IN  [i \in 1..len |-> ch(i - 1)]

\* Mutant of TerminatedTsList: the newest node is taken.
NewestTsList(c) ==
    LET tsl == tsList[c]
    IN  IF numMsgs[c] > 0 /\ tsl # 0 /\ heap[tsl].terminated THEN tsl ELSE 0

\* The oldest node if it is terminated, else nullptr; tsl->prev must not be nullptr.
TerminatedTsList(c) ==
    LET tsl == IF tsList[c] = 0 THEN 0 ELSE heap[tsList[c]].prev
    IN  IF numMsgs[c] > 0 /\ tsl # 0 /\ heap[tsl].terminated THEN tsl ELSE 0

NoOldest(c) == tsList[c] # 0 /\ heap[tsList[c]].prev = 0

\* getITCPrintStr (limit: BuffSize) and getITCPrintMsg (limit: dstLen - 1)
GetPrint(c, limit) ==
    /\ numMsgs[c] > 0
    /\ crashed' = NoOldest(c)
    /\ LET tsl  == TerminatedTsList(c)
           text == TextFrom(c, limit)
       IN  IF NoOldest(c) \/ tsl = 0   \* "tsl is null": nothing is consumed
           THEN UNCHANGED <<itc, lines, lastRead>>
           ELSE /\ UnlinkTsList(c, tsl)
                /\ numMsgs' = [numMsgs EXCEPT ![c] = @ - 1]
                /\ pbo' = [pbo EXCEPT ![c] = (@ + Len(text) + 1) % BuffSize]
                /\ lastRead' = [got |-> [text |-> text, start |-> heap[tsl].startTime,
                                         end |-> heap[tsl].endTime],
                                expected |-> IF lines[c] = <<>> THEN NoLine ELSE Head(lines[c])]
                /\ lines' = IF lines[c] = <<>> THEN lines ELSE [lines EXCEPT ![c] = Tail(@)]
                /\ UNCHANGED <<pbuff, pbi>>
    /\ UNCHANGED current

\* flushITCPrintStr and flushITCPrintMsg on a core without a complete message: the
\* text in progress is handed out and its node given up.
FlushPrint(c, limit) ==
    /\ numMsgs[c] = 0 /\ pbo[c] # pbi[c] /\ (Eager => time > MaxWrites)
    /\ LET tsl  == tsList[c]    \* consumeOldestTsList; no message is complete
           text == TextFrom(c, limit)
       IN  IF tsl = 0 THEN UNCHANGED <<itc, current, lastRead>>
           ELSE /\ UnlinkTsList(c, tsl)
                /\ IF heap[tsl].terminated
                   THEN UNCHANGED <<pbo, current, lastRead>>
                   ELSE /\ pbo' = [pbo EXCEPT ![c] = (@ + Len(text)) % BuffSize]
                        /\ lastRead' = [got |-> [text |-> text, start |-> heap[tsl].startTime,
                                                 end |-> heap[tsl].endTime],
                                        expected |-> current[c]]
                        /\ current' = [current EXCEPT ![c] = NoLine]
                /\ UNCHANGED <<pbuff, pbi, numMsgs>>
    /\ UNCHANGED <<lines, crashed>>

Read ==
    /\ ~crashed
    /\ \E c \in Cores, limit \in {BuffSize} \cup {n - 1 : n \in DstLens} :
          GetPrint(c, limit) \/ FlushPrint(c, limit)
    /\ UNCHANGED <<time, overrun>>

Next == Write \/ Read
Spec == Init /\ [][Next]_vars

\* main() decodes the trace to its end, asks for the messages the print mask
\* announces after every call and for those of the flush mask at the end.
FairSpec == Spec /\ WF_vars(Next)

\* The target writes as itc_puts() does, a terminator only at the end of a write, and
\* the caller reads as main() does, with room for whatever the buffer may hold.
LikeMain ==
    /\ Eager
    /\ \A w \in Words : \A i \in 1..(Len(w) - 1) : w[i] \notin {Nul, Eol}
    /\ \A n \in DstLens : n >= BuffSize

-----------------------------------------------------------------------------
(* Properties.                                                             *)

\* Every variable has its type.
TypeOK ==
    /\ pbuff \in [Cores -> [0..(BuffSize - 1) -> Chars]]
    /\ pbi \in [Cores -> 0..(BuffSize - 1)] /\ pbo \in [Cores -> 0..(BuffSize - 1)]
    /\ numMsgs \in [Cores -> Nat]
    /\ tsList \in [Cores -> 0..Len(heap)] /\ freeList \in 0..Len(heap)
    /\ \A i \in DOMAIN heap : heap[i] \in Node
    /\ time \in 1..(MaxWrites + 1) /\ crashed \in BOOLEAN
    /\ lines \in [Cores -> Seq(Line)] /\ current \in [Cores -> Line]
    /\ lastRead \in [got: Line, expected: Line] /\ overrun \in [Cores -> BOOLEAN]

\* Unless a no-load string has overrun the buffer, every message read has the text
\* that was written and the times of its first and last write: the buffer and the
\* list of times never get out of step.
MessageMatchesTimes ==
    (\A c \in Cores : ~overrun[c]) => lastRead.got = lastRead.expected

\* "tsl now points to the newest tslist object. We want the oldest, which will be
\* tsl->prev": the list of a core has the unread messages and nothing else, with
\* the newest in front and the oldest behind it.
Unread(c) == lines[c] \o (IF current[c].start = 0 THEN <<>> ELSE <<current[c]>>)
ListHoldsUnread ==
    \A c \in Cores : ~overrun[c] =>
        /\ numMsgs[c] = Len(lines[c])
        /\ tsList[c] = 0 <=> Unread(c) = <<>>
        /\ Unread(c) # <<>> =>
              /\ heap[tsList[c]].startTime = Last(Unread(c)).start
              /\ heap[tsList[c]].prev # 0
              /\ heap[heap[tsList[c]].prev].startTime = Head(Unread(c)).start

\* Only a no-load string written into a buffer without room for it and its
\* terminators overruns what has not been read; it always adds a message, which a
\* write that finds no room does not.
OverrunOnlyByNls ==
    [][\A c \in Cores : overrun'[c] /\ ~overrun[c] =>
          roomInITCPrintQ(c) < 2 /\ Len(lines'[c]) > Len(lines[c])]_vars

\* Everything printed is eventually handed out.
EverythingRead ==
    \A c \in Cores : [](c \in getITCFlushMask => <>(c \notin getITCFlushMask \/ overrun[c]))
=============================================================================
