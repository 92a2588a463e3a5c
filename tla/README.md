# A TLA+ model of the SiFive trace decoder

The decoder turns the trace that RISC-V harts write while they run (Nexus
messages in a file, or arriving over a socket) back into the instructions they
executed, their printed text, performance counts, events and cycles. This
directory holds TLA+ modules for it, TLC configurations that check them on small
instances, and proofs that TLAPS checks for all instances. `PROJECT.json` maps every definition to the source lines it stands
for.

## 1. Inventory

| Component | State | Operations | Interacts with | What makes it correct |
|---|---|---|---|---|
| `SliceFileParser` (dqr.cpp 9463-11948) | status, pending message of at most 64 slices, ring buffer of 2048 bytes | `readNextTraceMsg`, `readBinaryMsg`, `bufferSWT`, `getNumBytesInSWTQ`, one `parse...` per message | called by `NextInstruction`; reads a file or socket | messages come out with the fields written, in order, each once, however the bytes arrive |
| `Trace` (trace.cpp) | per hart: state, pc, last full address, time, process, counts, stack; shared: the message in hand, trace type, status | `NextInstruction`, `processTraceMessage`, `processPidPriv`, `resetTrace`, `getCRBRFlags`, `processTS` | reader, `Count`, images, ITC print, analytics | shows exactly the instructions executed; loses nothing silently |
| `nextAddr` (trace.cpp 7715-8154) | none of its own; changes counts, stack, trace type | one | called per instruction | goes where the hart went |
| `Count`, `AddrStack` (dqr.cpp 9129-9456, 13853-13904) | i-cnt, history word and bit, taken and not-taken count; stack of return addresses | set, consume, reset; push, pop | filled from messages, consumed by `nextAddr` | an outcome is applied to the branch it belongs to |
| `NexusMessage` (dqr.hpp 479-608) | a message | accessors, dumps | made by the parser | - |
| `ITCPrint` (dqr.cpp 4404-5102) | per core: a ring of characters, a list of the times of its messages; one free list | `print`, `getITCPrintMask`, `getITCPrintStr`, `flushITCPrintStr` | fed with data acquisition messages, read by `main` | text comes out whole, once, with its own times |
| `Analytics` (dqr.cpp 5104-7145) | counters | `updateTraceInfo`, `updateInstructionInfo` | fed by parser and decoder | counts add up |
| `CATrace` (trace.cpp 59-1340, 7038, 9790) | block of the file, circular queue of cycles, search in progress | `consume`, `addQ`, `packQ`, `rewind`, `parseNextCATraceRec` | state `SYNCCATE` and every instruction | each instruction gets its own cycles |
| `PerfConverter` (trace.cpp 1460-2546) | a record state machine per core | `processITCPerf`, `emit...` | fed with the ITC writes of the performance library | shows the addresses and counts recorded |
| `EventConverter`, `CTFConverter` (trace.cpp 2548-4084) | files per process and kind; queue of events, packets and sequence number per core | `emit...`; `addCall`, `addRet`, `flushEvents` | fed by `processTraceMessage` | files agree, the stream can be read back |
| `TraceSettings`, `configure`, process maps (trace.cpp 4088-6890) | settings | parsing | builds `Trace` | - |
| `ObjFile`, `ElfReader`, `Symtab`, `fileReader` (dqr.cpp 35-4400) | object and source files | parsing | images | - |
| `KMem`, `Disassembler`, decoding (dqr.cpp 12164-13850) | images | decode | `nextAddr` | - |
| `Simulator`, VCD (dqr.cpp 13907-15174, vcd.cpp) | a VCD dump | step | alternative to a trace | - |
| SWT server (swt.cpp, swt_main.cpp) | connections with byte queues, the device, the threads' handshake | wait, accept, read, queue, recv, send; select thread, serial thread | probe, clients; writes the socket the reader reads | every client gets every byte, nobody waits for ever |
| `dqr` (main.cpp) | options | loop | calls `NextInstruction`, reads the text | - |
| Performance libraries (examples/perf_trace) | mask and type of counters, previous values | `perfInitCntrs`, `perfTraceOn`, records on calls, by hand or by timer | ITC channel | a record can be told apart from the next |

The decoder is one thread, and what is hard about it is order. The SWT server has
three threads, and the performance library may be interrupted by itself.

* **Interleaving of harts.** Messages of several harts share one file, one
  message buffer and one `readNewTraceMessage` flag, while each hart has its
  own state, and a call may return in the middle of a message.
* **Counts across messages.** Histories, counts and i-cnts arrive in pieces; a
  branch may have to wait for a later message, while the i-cnt goes negative.
* **Failure.** Lost messages (error message), malformed messages, addresses
  outside the image: one hart or all are reset and must resynchronise.
* **Sticky state.** Return stack, process, trace type, `enterISR`, reader status
  and timestamps survive some resets and not others.
* **Partial delivery.** A socket delivers any number of bytes at a time through
  a ring buffer, and a call may run dry in the middle of a message.
* **Two structures for one thing.** Text and its times, queued flags and the
  place where the search goes on, sizes in headers and bytes written.
* **Threads.** The answer of `select` is computed without the mutex and used later,
  while descriptors are closed and given out again.

`PROJECT.json` lists the hazards line by line, with the properties for each. Properties
that section 6 lists are proved for all values of the constants, so that a run with
one set of values is enough for them.

## 2. Modules

    Nexus -> Counts -> NextAddr -> Trace --------+--> EndToEnd -> MCEndToEnd
                          |          |           |        |
                          +-> Encoder ----------+     (INSTANCE InstructionStream)
                                     +-> TraceProofs -> TraceStepProofs
                                     +-> MCTrace
    Slices -> SliceFileParser -> MCSliceFileParser, SliceFileParserProofs
    NextAddr -> Converters -> MCConverters, ConvertersProofs
    SwtServer -> MCSwtServer, SwtServerProofs
    ITCPrint -> MCITCPrint, ITCPrintProofs
    CATrace -> MCCATrace, CATraceProofs
    PerfConverter -> Perf -> MCPerf
    DataLemmas -> every module of proofs but TraceProofs and TraceStepProofs

* **Nexus**: messages, address arithmetic, timestamps. Addresses are counted in
  parcels of 16 bits, so the `<< 1` of the code is a change of unit.
* **Counts**: class `Count` and `AddrStack`, as functions from old to new value.
* **NextAddr**: `nextAddr` over an image, a function from addresses to
  instructions that are classified as `decodeInstruction` does. The eight
  conditional branches are one class, and so are the returns from traps.
* **Trace**: `NextInstruction`. A call is `Call`, then one step per turn of its
  loop, to the step that returns. `Read...` is the top of the loop; each
  state has one action per group of message codes: `First...` for
  GETFIRSTSYNCMSG, `NextMsg...` for GETNEXTMSG, `CountsExpired`,
  `NoInstruction` and `Execute...` for GETNEXTINSTRUCTION, `RetireMessage`,
  `GivenUp`. The variables are the fields of class `Trace`, the arrays indexed by
  core being one function `hart`; `inCall`, `ret` and `out` are the call, its
  result and what it hands out, and `reads` and `reported` count messages.
* **Encoder** (external): the hardware that writes traces, from what the decoder
  takes each message to mean, for branch and for history traces.
* **InstructionStream**: the abstract promise. What is shown for a hart is a
  prefix of what it executed, in order, and never ahead of it.
* **EndToEnd**: encoders, a trace, and `Trace` reading it.
* **Slices**: a message on the wire, and the parse functions: one layout per
  `parse...` function, `parseFixedField` and `parseVarField` bit by bit.
* **SliceFileParser**: the reader, one step per byte, with the ring buffer.
* **SwtServer**: `IoConnections` and `main` of the server. The main thread goes
  through its program counter `pc` (loop, wait, sleep, accept, serial, more, recv,
  send); the select thread and the serial thread take a step per critical section
  and per blocking call. Probe, cable and clients are the environment. `since`,
  `withheld`, `seen` and `acted` are history.
* **ITCPrint**: `Write` is `processITCPrintData` with `print`, `Read` the two ways in which
  `main` takes text. `TsList` nodes are records in `heap`, pointers are indexes, and a
  freed node goes back to the free list as in the code.
* **PerfConverter**: one operator per state of `processITCPerf`. **Perf** composes it with
  the two libraries: a library call is a list of steps `todo`, each a write or a
  read of a counter, so that the timer or a thread can come between them.
* **CATrace**: the hardware executes `Path` and records flags per cycle with every
  legal timing. The first instruction may have finished before the recording began
  (`firstSet`): the file then lacks its flag, and the code sets the first bit whatever the
  file says (`DataWord`, trace.cpp:1042-1045, 1116). Then `NextInstruction` aligns the traces (`Sync...`) and calls `consume`,
  which is cut into one step per search of the queue and per word read.
* **Converters**: one message per step, with the part of `processTraceMessage` that
  calls the converters; `Close` and `CloseQueue` are the destructor. The time of a core
  only grows in this module (`Receive`). In the code it is `lastTime` of `Trace`, which
  `resetTrace` zeroes (trace.cpp:9226-9228, 9289): the wraps counted so far are lost, and
  a CTF stream or an event file may then see time run back. `TimeNeverRunsBack` exempts
  such a reset; what the converters do after one is not checked, and `CtfReadsBack` and
  `PacketsWalkable` (its order of begins) say nothing of it.
* **TraceProofs**, **TraceStepProofs**, **SliceFileParserProofs**, **SwtServerProofs**,
  **ConvertersProofs**, **CATraceProofs**, **ITCPrintProofs**: the theorems of section 6. **DataLemmas**: what they need about
  numbers, finite sets, sequences and recursive functions.

Abstractions: text, source lines and disassembly are left out; a data
acquisition is either printed or handed out (`itc`); the shift `1 << histBit` of
an `int` at or above its sign bit, and a shift of a field by 64 or more, have
free outcomes (`ub`, `Garbage`), as the language leaves them undefined.
`flushMessage` is never set to true, so the loop it guards is not modelled. The
narrowing of fields to `int` and the analytics are not modelled in the reader. A
32-bit word of the performance channel has `W` values and a 16-bit one `H`; a word
of the cycle accurate trace has `WordCycles` cycles instead of 5 or 15 and a block
`BlockWords` instead of 32; bytes of the serial line are numbered, so that a lost
or repeated one shows.

## 3. Runs

| Run | Checks | Bounds |
|---|---|---|
| `bare` | `TypeOK`, `OneMessageInFlight`, `BranchCountsSpent`, `EveryMessageOnce`, `LossIsReported`, `TimeNeverRunsBack` | 2 harts, 5 messages in any order of every kind, bad ones included, some with timestamps of a counter of 2 bits, times below 32; no tolerance of errors, control messages filtered; image of all classes of instruction; histories of 4 bits with the undefined shift from bit 1; stack of 2 |
| `linux` | `NoCountsWhileUnsynced`, `CallReturns` | errors tolerated, nothing filtered; processes with a kernel image, sign extension, changes of process by ownership messages; 1 hart, 6 messages |
| `end_to_end` | `AllShown`, `ImplementsStream` | 1 hart, branch or history mode, 5 instructions, 5 messages, i-cnt up to 4, history of 2 outcomes |
| `live` | `ImplementsStream` | 2 harts writing while the decoder reads, 2 instructions each, 4 messages |
| `reader` | `TypeOK`, `BufferHoldsStream`, `DeliveredInOrder`, `AllDelivered` | files: all pairs of 19 messages of all 15 kinds, 4 sorts of gap, an unsupported message, 4 sorts of broken message; socket: 3 messages through a ring of 4 bytes, every way `recv` can cut the stream; reads may fail; word of 10 bits |
| `swt` | `SerialInOrder`, `ClientSeesStream`, `NeverBlocks`, `HandshakeInStep`, `ClosedOnlyWhenUnplugged`, `EveryoneServed`, `Reconnects` | one select, or helper threads; 2 clients, 3 bytes, buffers of 2, withholding above 1 queued byte, 1 fault (cable or client) |
| `itcprint` | `TypeOK`, `MessageMatchesTimes`, `ListHoldsUnread`, `OverrunOnlyByNls`, `EverythingRead` | 2 cores, 5 writes of up to 2 characters, line ends, terminators and a no-load string; buffer of 6 characters |
| `perf` | `TypeOK`, `ShownAsRecorded`, `OnlyLastCountWaits` | both libraries, 3 count types, no counter, one, or a fixed and a raw one; words of 2 bits, counters that stand, carry and wrap; 3 calls, a second context |
| `catrace` | `TypeOK`, `QueueHoldsRest`, `RunAheadRight`, `OwnCycles`, `DepthCounted`, `Ends` | a path of 4 instructions, 2 of them vector, with a call and a return, the first flag in the file or not; 8 cycles, 2 per word, 2 words per block; queue of 5; either trace begins first, so that the cycle accurate one is run ahead over the call and the return |
| `converters` | `TypeOK`, `CtfReadsBack`, `PacketsWalkable`, `CallsAgree` | 2 cores, 2 processes, 4 of 21 messages of all kinds; queues of 2, time stamps of 2 bits; 3 sets of files that cannot be opened |

Why these bounds are enough to be interesting: the decoder keeps at most one
message in hand and one of each count per hart, so five messages give a first
sync, a resource full message, a message while counts are owed, a failure and
one after it. The end to end runs fill i-cnt and history several times over
(their limits are 4 and 2). The ring of the socket is no larger than a message, so
every state of its indices is reached. Words of 10 bits stand for 64: both leave
4 bits over after whole slices. The runs of the reader do not check deadlock,
because it stops at the end of the file or at an error.

The buffers of `swt`, `itcprint` and `catrace` are smaller than what passes through
them, so that indexes wrap, reads stop in the middle and queues are full; two of a
kind (clients, cores, contexts) are the fewest that can get in each other's way.
Most of these runs do not check deadlock: a trace, a program or a list of writes
ends. What must not stand still is stated as liveness instead.

Two runs are expected to fail. Each states what a comment or a document says, and TLC
finds a behaviour of the code against it; `PROJECT.json` quotes the line ("findings").

| Run | Property | What the counterexample shows |
|---|---|---|
| `swt_threads` | `ClearedOnNextIteration` | "WaitForIo clears it on next iteration" (swt.hpp:181): an answer of the select thread already acted upon is valid in the next round too, and `accept` or `recv` blocks |
| `perf_standing` | `DeltasAsCounted` | "the additive delta" (sifive_perf.md:111): a Linux counter that stood still is recorded as one that wrapped |

Further configurations are kept beside the runs. They state something that the passing
run of the same module leaves out by a condition of its property, and TLC finds it violated:

| Configuration (module) | Property | What the counterexample shows |
|---|---|---|
| `LinuxContext` (`MCTrace`) | `NoCountsWhileUnsynced` | "need to reset counts and stack!!" (trace.cpp:10941): a context message changes the process and keeps the i-cnt of the old one; an ownership message then sends the hart to look for a sync |
| `SwtUnplugged` (`MCSwtServer`) | `PickedUpAgain` | "Keep trying to reconnect" (swt_main.cpp:126): the serial thread ignores the failing read, the device is never closed |
| `ITCPrintPiled` (`MCITCPrint`) | `ListHoldsUnread` | "We want the oldest" (dqr.cpp:4863): with three unread messages, taking the oldest leaves the list with a pointer to a freed node |
| `CATraceRewind` (`MCCATrace`) | `RestQueued` | "needs to work for both CA instruction and CA Vector" (trace.cpp:298): `rewind` leaves the records of the queue; after a pack a search goes on among them and takes an old flag |
| `CATracePacked` (`MCCATrace`) | `InSync` | against the same guide: a pack moves the records behind the back of a search (trace.cpp:497) |
| `CATraceSkipped` (`MCCATrace`) | `InSync` | "the cycle information is in sync" (ca trace users guide.md:7): a vector instruction run ahead over as a scalar one leaves its flags to the next one |
| `CATraceWrapped` (`MCCATrace`) | `StartsAtMark` | "find start of first message (in case buffer wrapped)" (trace.cpp:1070): the first word is taken for it |
| `PerfAbsolute` (`MCPerf`) | `CountsAbsolute` | "All counts are absolute" (tracedecoder_perf.md:62): Delta counts are printed as differences |
| `PerfXorStart` (`MCPerf`) | `CountsAbsolute` | DeltaXOR counts of the Linux library are off by those of `perfTraceOn` (sifive_linux_perf.c:885), as the converter starts from zero |
| `PerfXorWrap` (`MCPerf`) | `CountsAbsolute` | "wrap is automatically handled" (sifive_perf.md:111): DeltaXOR counts are off after one |
| `PerfXorAddress` (`MCPerf`) | `AddressesAsRecorded` | "an xor of the last address and the new address" (sifive_perf.md:435): full addresses are written, and XORed when read |
| `PerfRestart` (`MCPerf`) | `EveryRecordShown` | "it is possible to have multiple markers" (sifive_perf.md:325): the second one ends the conversion |
| `PerfTimer` (`MCPerf`) | `EveryRecordShown` | "records following the header" (sifive_perf.md:321): the interrupt writes one before or inside the header (`perfTraceEnabled` is set first, sifive_bare_perf.c:143) |

All of them use the bounds of the passing run, narrowed to the case, except that
`ITCPrintPiled` has a buffer of 12 characters and a caller that need not read
after every write, `CATraceSkipped` a queue of 16, which is never packed, and
`CATraceRewind` a path of its own (`RewindPath`), whose last jump the run ahead cannot follow.

## 4. What the code does against its comments, or short of them

Found while modelling. The definitions named do what the code does. Where a property
meets such a case, the passing runs state it for the behaviours without the case,
and a configuration that fails shows the case (section 3), unless it is said here
that none does.

Decoder and reader:

| The code or a document says | The code does |
|---|---|
| "Messages have been missed. Reset all state" (trace.cpp:10339, 10810) | `resetTrace(-1)` keeps the return stacks (`ResetAll`); a sync empties them, an in-circuit trace message with sync does not |
| "need to reset counts and stack!!" on a change of process (trace.cpp:10941) | a context message changes the process through the same `processPidPriv` and keeps them (`ICTContext`); a hart may then wait for a sync it refuses: `LinuxContext`, which has `LinuxMessages` where `linux` has `OwnershipMessages` |
| "skipping message" (dqr.cpp:11935) | the parse error stays in `status`, and every later call is refused |
| "keep calling to get entire msg" (dqr.cpp:11551) | after a message longer than the buffer every call answers "bad message"; with errors tolerated `NextInstruction` never returns |
| "if the upper two bits of the last slice are 0, it is a 64 bit number" (dqr.cpp:11391) | a field that starts inside a slice, or has more than 11 slices, passes the check with bits lost (`parseVarField`) |

SWT server, with helper threads: a lookahead that is an exact multiple of the
buffer is followed by a read of nothing, taken for an unplugged device; a device
that is unplugged is never noticed by the serial thread (`SwtUnplugged`). In both modes the
withholding flag is stored in the next client, where only a message depends on it,
and after a full buffer the device is read again although it may have nothing.

ITC print: unlinking the oldest node mends the list only up to two unread messages,
so `ListHoldsUnread` needs a caller that reads like `main` (`Eager`), and fails in
`ITCPrintPiled`; the terminator of
a no-load string is written into a full buffer, and the room for the string itself is
then taken from indices that have met, as if the buffer were empty (`RoomBetween`);
a terminator inside a write leaves the rest of the write without a node (the words
of the run end with it, as `itc_puts` sends them); a caller's buffer that is smaller than a
message gets a part of it, and the rest is taken for the next one. `LikeMain` names the
writes and the caller for which none of this happens, up to the overrun.

Performance counts: `ShownAsRecorded` accepts as right only the value read (Raw,
DeltaXOR) or the difference to the last one (Delta), and the address the library was
called with. It says nothing of the cases in which the code shows something else,
and each of them has a configuration of its own: a Linux counter that stood still
(`PerfStanding`), DeltaXOR counts of the Linux library (`PerfXorStart`) or after a
wrap (`PerfXorWrap`), addresses of DeltaXOR traces (`PerfXorAddress`). A record of
the timer or of another thread in the middle of another one is not recognised
(`mixed`; `PerfTimer` for the header), and the header of a second `perfTraceOn`
stops the converter with an error (`PerfRestart`); the last count of a trace is never printed.

Cycle accurate trace: the place where a search goes on is taken before the queue is
packed (`CATracePacked`); vector instructions run ahead over are taken for scalar ones
(`CATraceSkipped`); `rewind` leaves the records of the queue (`rewind`, `CATraceRewind`);
a buffer that wrapped is read from its first word, whatever its mark, because the
word before it counts as empty (`FirstWord`, `CATraceWrapped`). Without a configuration: an error
message before the alignment skips it (`unaligned`); `c.jalr` through x5 saves the
address of the jump and not the one behind it (`nextCAAddr`).

Converters: an inferable call with sync and one field shows its own pc as
destination in the event file; with two fields its event is written only if there
is a CTF converter; without sync events are written although they are switched
off; a watchpoint of the event file has id 0; the end time of a packet keeps the upper
half of its begin; an address without a name leaves out the whole line.

Not covered by a property, and not listed in `PROJECT.json`: `enterISR` survives every
reset (trace.cpp:9219); in a branch trace a return to the instruction behind it is
taken for proof of a history trace (7819); a push on a full return stack is dropped
(dqr.cpp:13883); a closed socket looks like one without data (11419); fields are
narrowed to `int` (10748); `updateTraceInfo` counts taken branches from -1 to make up for
a stop bit its loop leaves out (5334); `perfInitCntrs` of the bare metal library
allocates by position in the list and stores by index (sifive_bare_perf.c:1037).

## 5. Fairness

* `Trace!FairSpec`: weak fairness of the steps of a running call. The code runs
  until it returns. Nothing is assumed of the caller. The environment delivers
  finitely many messages (`MaxReads`), bad ones included; that the real reader may
  answer "bad message" for ever is in section 4.
* `SliceFileParser!FairSpec`: the caller keeps calling (the do-while loop of
  `NextInstruction`), a call runs on, and bytes under way arrive in the end: strong
  fairness of taking a byte, because `recv` may come back empty any number of
  times in between.
* `SwtServer!LiveSpec`: the operating system schedules the three threads, clients that
  are connected read what is sent to them (`send` blocks otherwise), and a pulled
  cable is put back. `EveryoneServed` leaves out the states `Hangs`, in which the main
  thread waits in a call that select did not announce.
* `ITCPrint!FairSpec`: `main` goes on decoding and reading to the end of the trace.
* `CATrace!Spec`: `NextInstruction` runs until it returns.

## 6. Proofs

Every theorem below has the form `Spec => []P`, or `Spec => P` for an action property
`P`, and holds for every value of the constants that the named assumptions allow. TLC
evaluates all of these assumptions in the runs. A theorem that needs more than that
says so in the table ("given"), and the text below says why.

| Module | Theorem | Property |
|---|---|---|
| `TraceProofs` | `TypeCorrect` | `TypeOK` |
| | `MessageInFlight` | `OneMessageInFlight` |
| | `NoBranchCountLeftOver` | `BranchCountsSpent` |
| | `MessagesAccounted` | `EveryMessageOnce` |
| `TraceStepProofs` | `TimeNeverRunsBackHolds` | `TimeNeverRunsBack` (action) |
| | `LossIsReportedHolds` | `LossIsReported` (action) |
| | `NoCountsWhileUnsyncedHolds` | `NoCountsWhileUnsynced`, given `NoContextSwitch` |
| `SliceFileParserProofs` | `BufferHoldsStreamHolds` | `BufferHoldsStream` |
| | `ParserTypeCorrect` | `TypeOK` |
| `SwtServerProofs` | `HandshakeHolds` | `HandshakeInStep` |
| | `SerialInOrderHolds` | `SerialInOrder` |
| | `NeverBlocksHolds` | `NeverBlocks` |
| | `ClosedOnlyWhenUnpluggedHolds` | `ClosedOnlyWhenUnplugged` (action) |
| | `ClientSeesStreamHolds` | `ClientSeesStream` |
| `ConvertersProofs` | `CtfReadsBackHolds` | `CtfReadsBack` |
| | `PacketsWalkableHolds` | `PacketsWalkable` |
| | `CallsAgreeHolds` | `CallsAgree` |
| | `ConvertersTypeCorrect` | `TypeOK` |
| `CATraceProofs` | `CATraceTypeCorrect` | `TypeOK` |
| | `CATraceQueueHoldsRest` | `QueueHoldsRest` |
| | `CATraceOwnCycles` | `OwnCycles`, given `[]RunAheadRight` |
| `ITCPrintProofs` | `ITCPrintTypeCorrect` | `TypeOK` |
| | `OverrunOnlyByNlsHolds` | `OverrunOnlyByNls` (action) |
| | `ListHoldsUnreadHolds` | `ListHoldsUnread`, given `LikeMain` |
| | `MessageMatchesTimesHolds` | `MessageMatchesTimes`, given `LikeMain` |
| | `NeverDereferencesNull` | `~crashed`, given `LikeMain` |

### Assumptions

* `Trace`: `NumbersAssumption`, `CoresAssumption`, `XorAssumption`, `CountsAssumption`,
  `ImageAssumption`, `TraceAssumption`, `MessagesAssumption`. `Xor` is a constant, because
  the provers have no bits; what they are told of it is that it stays within a power
  of two and that a number below one leaves the bits above it alone. A message marked
  `itc` is a data acquisition, as only those reach the ITC print and the performance
  decoder.
* `SliceFileParser`: `ParserAssumption`; a trace is any sequence of slices, well formed
  or not, and both buffers have room for more than one.
* `SwtServer`: `SwtAssumption`; clients are finitely many.
* `Converters`: `ConvertersAssumption`; a queue is flushed at a length within its buffer
  (16 and 20 in the code).
* `CATrace`: `CATraceAssumption`; sizes are positive, the recording is a number of whole
  blocks, what is left of an overwritten block at its start is less than a block, and at
  least one instruction is run before the search for an alignment is given up (16 in
  the code). With none the traces would count as aligned right after a rewind.
* `ITCPrint`: `ITCPrintAssumption`; the buffer has at least one byte, and the text of a
  no-load string has no terminator inside, being a C string.

`OwnCycles` is proved of the behaviours in which `RunAheadRight` holds throughout: the
executed path is the one `nextCAAddr` infers from the instructions. That depends on
the program: it is false of a path that a trap or an interrupt leads away while the
cycle accurate trace is run ahead. For the program of the run TLC checks it.

`OwnCycles` has conditions on the behaviour besides: no lead-in, an alignment that the
addresses decide (`Alignable`), no vector instruction run ahead over
(`ScalarRunAhead`), a queue that was not packed. Without the last two it is false, which
`CATraceSkipped` and `CATracePacked` show. `QueueHoldsRest` has one: not both
rewound and packed, which is false too (`CATraceRewind`).

`LikeMain` is a condition on constants: the caller reads after every write (`Eager`), only
the last character of a write may be a terminator, and the caller's buffer is no smaller
than the one of a core. Run `itcprint` satisfies it (`MCLikeMain`, which TLC evaluates in
each run with `Eager`); `ITCPrintPiled` shows what happens without `Eager`.

`NoCountsWhileUnsynced` is proved under `NoContextSwitch`: no context message that
changes the process is read. Without that it is false, as `LinuxContext` shows.

### The arguments

**Decoder, invariants.** One inductive invariant `Inv`: the four properties and `InHand`, that
the message in hand, if there is one, is the current core's. None is inductive
alone. `OneMessageInFlight` needs `InHand` when a message is loaded, and types for
the process index; `BranchCountsSpent` needs that RETIREMESSAGE is entered
only without a branch count: because `getCurrentCountType` says none, or because a
branch found no outcome, which by the order of its tests means that only i-cnt is
left. `EveryMessageOnce` needs that the message in hand is given up exactly
when `readNewTraceMessage` is set. The proof has a layer of lemmas on what the helpers
return (`TimeType`, `SetCountsType`, `NextAddrType`, `ProcessType`), one on the ways a step
can end (`FinishInv`, `FailInv`, `ResetAllInv`, `StopInv`, `StillInHandInv`), one lemma per
action or group of actions, and `NextInv`, which puts them together.

**Decoder, steps.** `NextStep` shows for each action both that time does not run back and
that a loss is told. For time the point is `processTS`: a full timestamp, and the
exclusive or with a relative one, lie in the same block of `TsMod` times as the last
time, so that one more block puts a smaller one behind it. `DataOnly`, that
only a data acquisition is `itc`, is needed to know which messages are consumed
without being handed out. `NoCountsWhileUnsynced` needs more than itself: a hart also
has no counts left between two messages while the process it runs is not decoded
(`AllQuiet`), since a message of such a process is dropped, and an ownership message
may then send the hart to look for a sync.

**Reader.** `RingBytes \o input` is what is left of the wire. `StreamInv` adds that the ring
has its type and that a file bypasses it (`FileSkipsBuffer`). `bufferSWT` writes in one
piece or in two; the lemmas of the ring say what a ring holds after each piece, in
terms of the distance of its indices modulo its size. `MsgInv` is
the part of the types that is about the message and the codes.

**Server.** `HandshakeInStep` needs `AnswersRetired`: an answer whose request was withdrawn is
acknowledged, and no request finds an old answer. `SerialInOrder` needs that
every byte on its way is below the next one the probe will send, and that
`lookahead` and `held` are empty with one select. `NeverBlocks` needs `Roster` (descriptors are not shared,
every connection is of a client that knows about it) and `ReadyInv`: what select
reported for a descriptor the main thread has not come to yet is still true, because
only the main thread takes it away. That is what fails with helper threads.
`ClientSeesStream` needs `SeesInv`: the place `since` is within what was read, only
bytes that were read are withheld, and a client that is not accepted yet has received
nothing.

**Converters.** `CoreInv` relates, for one core, the queue, the packets in the file and
what was added: the queue begins with a full time and goes on with low parts, no
packet begins after the first time queued, and file and queue read back as what was
added. `CtfReadsBack` alone is not inductive: that a compact time stamp is read as the
right time needs the last time added, and that a flush keeps the order of packets
needs the bound on their begins. `AgreeInv` says that the lines of a core and
the named events added for it match one by one; it needs that in a bare trace every
message belongs to the first process (`ControlInv`).

**Cycle accurate trace.** `QueueInv` says what the ring holds without sequences, of the
slots between the two indexes only (`Inside`), because `rewind` leaves records in the
others: a slot inside that is further from the out index has a later cycle (`Ordered`),
and a flag is in some slot inside exactly if it was read and not given (`Holds`). `addQ`,
`packQ` and a search each keep that, and a word added is later than all that was
there (`AllUnder`). As long as nothing was packed, or nothing rewound, a search starts
and stays inside, or finds nothing outside (`InRange`): that is where the condition
of `QueueHoldsRest` is needed. `QueueHoldsRest` states the same by filters over the list of
slots, which the lemmas on recursive functions relate to the ring.
`OwnCycles` rests on two further invariants. `Executed` is about the recording: an
instruction's events are flags of their cycles, different instructions have different
ones, in the order of the path for a pipe and for each vector unit. `OwnInv` says where
on the path the cycle accurate trace is (`Located`), which is not where the instruction
trace is until both are aligned: it is run ahead (`RunAhead`), level with the traced
instruction (`Traced`), at the end of the recording (`NoMore`), or waits for an instruction
trace that began earlier (`RunUp`). All pipe flags of instructions before that place are
given and none behind it (`PipesDone`, `BitsDone`), likewise those of the vector units
(`VectorsDone`), and a search has passed no flag of the kind it looks for (`SearchRight`). The
first flag it finds is then the instruction's own.

**Text.** `TypeInv` adds to the types that `next` and `prev` of every node are nodes. The
theorem on overruns needs no more: `PutChar` asks for two characters of room, so only the
unconditional terminators can go below none (`PutWordRoomy`, `PutNlsRoomy`, `RoomedIs`).
`ListsInv` has the four shapes a list can have when text is read like `main` does it: empty,
one message in progress, one complete, or two complete ones, which a no-load string
leaves behind if it ended another message. It adds that lists share no node with each
other or with the free list, and that each free node has a successor of its own, so that a
node is never handed out twice. Without the free list the invariant is not
inductive, since a write takes its node from there. `RingsInv` says that a ring that was
not overrun holds, from `pbo` to `pbi`, the texts not read with a terminator behind each
complete one, and that none of these texts has a terminator inside. A read then stops at
the terminator of the oldest message (`RingText`), and by `ListsInv` the node it frees has
the times of the same message.

**Induction over data.** The library's induction rules cannot be used here. The lemmas of
`DataLemmas` argue by a least counterexample instead (`LeastNatural`), and state once
for all what a recursive function on an interval is (`Recursion`, `RecursionUnique`).
With these, and `computeEventSizes`, `writeEvents`, `TimesOf` and `At` written as recursive
functions, what they compute is proved for every input: the size a packet header
promises is the size written (`WrittenAsPromised`), times read back are the times given,
filtering commutes with appending (`AtAppend`).

### Only model-checked

* Liveness (`CallReturns`, `AllDelivered`, `EveryoneServed`, `Reconnects`, `EverythingRead`,
  `Ends`): it rests on fairness, which the prover does not treat.
* `ImplementsStream` and `AllShown` of the end to end runs: that the decoder follows the
  encoder is an invariant over every pair of positions in the program, with counts
  under way in the trace between them.
* `DeliveredInOrder` of the reader: it is about traces written as the MC module writes
  them, and about fields read bit by bit.
* `RunAheadRight` and `DepthCounted` of the cycle accurate trace: the first is about a given
  program (above). The second counts the vector instructions under way at every search,
  over a set of positions on the path whose size changes with each step.
* `ShownAsRecorded`, `OnlyLastCountWaits` and the types of the performance counts: what the
  converter shows is compared with a history through a list of steps that a library call
  still has to do, some of it by folds over operators, which the provers cannot unfold.

## 7. Not modelled, and the plan

Order of the work, most important first:

1. Done: decoder core, reader, end to end refinement, first theorems.
2. Done: SWT server, ITC print, performance libraries with their converter, cycle
   accurate trace, event and CTF converters.
3. Done: theorems on the steps of the decoder, the reader's buffer, the server, the
   event and CTF converters, the cycle accurate trace and the text. Next: the types of
   `Perf`, and `DepthCounted`.
4. `Analytics` (counters, with the taken count of histories against a reference).
5. Composition of `SliceFileParser` with `Trace`, the reader as the environment of the
   decoder, and of `SwtServer` with `SliceFileParser` over the socket.
6. The reassembler of the SWT server for `-itcprint`.

Not planned: object file, symbol, settings and property parsing, source line
lookup, disassembly text, command line options, VCD input, the set-up of counters,
encoders and funnels on the target, the older `sifive_perf.c` and the Tcl scripts. They
are sequential input and output handling without a protocol, or do not belong to
the decoder.

## 8. Running it

    tlc -config Bare.cfg MCTrace              (also Linux.cfg; LinuxContext.cfg fails)
    tlc -config EndToEnd.cfg MCEndToEnd       (also Live.cfg)
    tlc -config Reader.cfg MCSliceFileParser
    tlc -config Swt.cfg MCSwtServer           (SwtThreads.cfg and SwtUnplugged.cfg fail)
    tlc -config ITCPrint.cfg MCITCPrint       (ITCPrintPiled.cfg fails)
    tlc -config Perf.cfg MCPerf               (PerfAbsolute, PerfStanding, PerfXorStart, PerfXorWrap,
                                               PerfXorAddress, PerfRestart, PerfTimer .cfg fail)
    tlc -config CATrace.cfg MCCATrace         (CATraceRewind, CATracePacked, CATraceSkipped,
                                               CATraceWrapped .cfg fail)
    tlc -config Converters.cfg MCConverters
    tlapm TraceProofs.tla                     (also TraceStepProofs, DataLemmas, SliceFileParserProofs,
                                               SwtServerProofs, ConvertersProofs,
                                               CATraceProofs, ITCPrintProofs)
