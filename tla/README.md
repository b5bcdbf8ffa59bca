# TLA+ models of tsn-gen

tsn-gen turns YAML descriptions of network protocols into packets and back. It
reads a corpus of protocol files into databases, builds random packets that
satisfy the declared constraints, decodes captured bytes with the same
descriptions, and sends and receives packets over several transports, among
them a Verilator design under test (DUT) reached through a UNIX socket or
through an ns-3/SystemC co-simulation.

This directory holds models of the parts whose correctness is hard to test, the
TLC configurations that check them, and machine-checked proofs about both packet
codecs, the parser and the validator, the traffic generator, three transports and
the command-line program. Paths below are relative to the repository unless they
end in `.tla` or `.cfg`.

    tlc -workers 2 -config Session.cfg MCSession
    tlapm CodecProofs.tla

`PROJECT.json` lists components, runs, the source lines each definition
translates, the seeded faults each property must detect, the findings and the
hazards.

## 1. The system

| Component | State | Operations | Talks to |
|---|---|---|---|
| ProtocolParser, Database (`parser/`) | databases of variables, interfaces, services; depth of the directory walk | `parse`, `addUniqueElement`, `getElement` | fills what every other part reads |
| ProtocolValidator | list of findings | `validateProtocolFile`, `validateStackFile`, `validateDirectory` | reads the same files; the gate before them |
| PacketBuilder | random engine; bytes, fields, `bitOffset` of the call | `buildWithFields`, `buildWithOverrides`, `pickValue`, `appendBits` | variable database |
| PacketDecoder | none between calls | `decode`, `layerBytes`, `extractBits` | variable database |
| Session, lists and chains | builder, databases | `generate`, `generateChain`, `generateStack(list)`, `decode`, `decodeStack(list)` | builder, decoder |
| StackBuilder, LogicRegistry | registry of logic modules | `build` | service database, stack files |
| Session, bound stacks; Stack, LayerContext | one context per layer, kept from frame to frame; module state | `loadStack`, `generateStack(Stack&)`, `decodeStack(Stack&)`, `populateContext` | logic modules call back into the contexts, up and down the stack |
| Logic modules (Ethernet, AVTP control, AECP AEM) | last decoded selector or length | `onEncode`, `onDecode`, `nextLayer` | LayerContext |
| TrafficGenerator | `mOpen`, sender | `open`, `close`, `send`, `sendFiltered`, `sendAll`, `sendLoop` | an ISender |
| Verilator transport | socket, position inside a beat | `open`, `send`, `receive`, `close` | DUT harness, another process |
| Pcap transport | file, position, byte order | `open`, `send`, `receive`, `close` | file system, other programs |
| Raw-socket transport | descriptor | same | kernel |
| AxisBridge (SystemC) | two threads, FIFO, AXI-Stream ports | `tx_thread`, `rx_thread`, `push_tx_packet` | DUT signals, clocked |
| VerilatorNetDevice (ns-3) | receive callback | `Send`, `DeliverPacket`, `SetReceiveCallback` | AxisBridge, ns-3 events |
| packet_gen command line | arguments, round, stage, packets decoded | `parseArgs`, the modes, rounds of packets, the decode loop, exit codes | all of the above; another packet_gen through a capture, a harness or a network |
| Rendering | - | JSON, hex, log | - |

What is hard in it:

- **Bit offsets.** Builder and decoder each keep an offset over fields of any
  width, across layers that end inside a byte. They are separate loops that
  must agree, also on input that ends early.
- **Reused state.** A bound Stack and its contexts serve every frame; `parse()`
  may be called again on databases that are filled and a depth that is not 0; a
  generator is opened and closed repeatedly.
- **Two readers of one corpus.** Validator and parser are separate programs with
  separate walks and separate ideas of what a file may contain; the parser is
  lenient and silent, so what the validator misses is loaded wrong.
- **Derived fields.** A length is written while the layers above exist only as
  contexts, and must match the bytes produced later.
- **Partial I/O.** `write` and `read` split beats and records anywhere, fail
  between two pieces, and the other end may disappear or still be writing.
- **Concurrency.** Two SystemC threads, a clocked DUT and ns-3 run against each
  other; a blocked FIFO read wakes between clock edges. Generator and decoder
  processes share a capture that grows, a socket that fills, a network that
  loses frames.

What makes each part correct: decoding inverts building; constraints hold in
what is built; a chain carries a value over one connection only; a reused
stack leaks nothing; derived lengths count the octets that really follow;
transports deliver packets whole, once and in order or report why not; a failed
send is reported; every accepted packet gets through; whether a corpus loads
depends on the disk alone, and what the validator accepts is loaded as it is
written; exit code 0 means that the work is done.

## 2. Modules

| Module | Models | Uses |
|---|---|---|
| `Bits` | `uint64_t` values, byte buffers, `appendBits`, `extractBits` | |
| `VarDatabase` | `Database<Var>`, `pickValue` | `Bits` |
| `PacketCodec` | `PacketBuilder`, `PacketDecoder`, `Session` on lists and chains | `VarDatabase` |
| `StackCodec` | `StackBuilder`, bound stacks, `LayerContext`, logic modules | `VarDatabase`, `Loops` |
| `Session` | both codecs over one database, of which a process uses one | composes `PacketCodec`, `StackCodec` |
| `Loops` | loops over a vector that push back some elements, append a vector for each, or count | |
| `PacketChannel` | abstract: packets come out whole, once, in order | |
| `AxiTransport` | `VerilatorSender`, `VerilatorReceiver` | `Loops`; implements `PacketChannel` |
| `AxisBridge` | `AxisBridge`, `VerilatorNetDevice` | `Loops`; implements `PacketChannel`, once per direction |
| `PcapFile` | `PcapSender`, `PcapReceiver` | |
| `TrafficGenerator` | `TrafficGenerator` over any `ISender` | `Loops` |
| `YamlFiles` | external: the directory tree and what ryml finds in a file | |
| `ProtocolParser` | `ProtocolParser`, `Protocol`, `Database` | `YamlFiles`, `Loops` |
| `Validator` | `ProtocolValidator`, `--validate` | `YamlFiles`, `Loops` |
| `Corpus` | the two on one directory, and `StackBuilder` on what was loaded | composes `ProtocolParser`, `Validator` |
| `PacketGen` | `packet_gen`, raw sockets; several processes | `Loops` |
| `SequenceLemmas` | lemmas: induction over the natural numbers, the loops of `Loops`, queues | `Loops` |
| `CodecProofs` | proofs about `PacketCodec`, `StackCodec` and `Session`, which share the lemmas about `Bits` and `VarDatabase` | `Session`, `SequenceLemmas` |
| `AxiTransportProofs`, `AxisBridgeProofs`, `PacketGenProofs`, `PcapFileProofs`, `TrafficGeneratorProofs`, `CorpusProofs` | proofs about the module of that name; `CorpusProofs` about `ProtocolParser` and `Validator` as well | that module, `SequenceLemmas` |
| `MC*` | constants of the instances | |

Operators named after a definition with something added (`BeatAtShort`,
`NextOverridesKept`) and marked "Faulty variant" are plausible bugs. No
specification uses them; each is substituted for the definition it follows to
see that a property notices.

### Bits, VarDatabase, PacketCodec

A word is the set of the positions of its one bits, so masking is intersection
and `WordLeq` is unsigned comparison; `WordBits` stands for 64. A buffer is a
size in bytes and the set of its one bits in wire order; position `p` is the
bit that the code reaches with `bitOffset = p`. `AppendBits` and `ExtractBits`
are what the two bit loops compute, zero bits past the word and past the end of
the buffer included.

A behaviour is one request: a list of interfaces, as a stack (one frame) or as
a chain (one packet per stage). `BuildField` and `BuildSkip` are the iterations
of the builder's loop, `BuildLayer` its end and Session's bookkeeping
(`generateStack`, `generateChain`). `Deliver` hands the bytes to the decoder,
cut after any number of bytes in `Cuts`; `DecodeField`, `DecodeSkip`,
`DecodeLayer` and `DecodeEnd` are the decoder's loop, with `layerBytes`' loop
over the same references alongside. The random engine is a choice among all
values it could return. The variables `curAt`, `at` and `base` record offsets;
no action reads them.

### StackCodec

`LoadStack` is `StackBuilder::build` with its error paths, interface resolution
(`InterfaceForLayer`) and `bypass-logic`. `Generate` starts `generateStack`,
whose three passes over the layers are `Populate`, `Encode` and `Pack`;
`Decode` starts `decodeStack`, whose pass is `DecodeLevel`; `level` is the layer
a pass is at. A layer's context is a sequence of `[name, value, bits]`;
`PopulateContext` fills it, `GetValue`, `SetValue`, `BytesAfter` and `BytesAbove`
are the methods of `LayerContext`. A service is reduced to the family its name's
prefix stands for.

### Session

A Session's two codecs share the databases and the random engine, which is a free
choice, and no other state. `main` decides once which of them a process uses:
`--stack-file` the bound stacks (`UseStack`), anything else lists and chains
(`UseInterfaces`). So a behaviour stays with the codec that made its first step.

### AxiTransport

`Send` fills the first beat, each `Write` is one return of `write(2)` inside
`writeAll`, each `Read` one return of `read(2)` inside `readAll`; both may move
any part of what is left. `WriteError`, `ReadError` and `ReadEof` are the error
paths, `WriteToNobody` is SIGPIPE, `DutGone` the harness ending with bytes not
yet forwarded. A byte is the set of the positions of its one bits, so that
`tkeep` is a set of lanes. `KeepGoing` says whether the caller sends on after a failure
(`sendAll`) or stops (`packet_gen`, `sendLoop`).

### AxisBridge

`Edge` is a rising clock edge at which both threads and the DUT sample the ports
and drive new values; SystemC's evaluate/update phases make the order of
processes within one edge irrelevant. Between edges: `TxWake` (a read of the
FIFO that was blocked resumes), `FifoUpdate` (the FIFO's update phase, so
packets written in a delta cycle become readable and slots read become free),
`Send`, `SetReceiveCallback` and `DeliverPacket`. The DUT chooses TREADY and its
own beats freely.

### PcapFile

The file is a sequence of bytes; headers keep the magic number and `incl_len`,
two digits each, so that byte order matters. At first the file is a capture in
the other byte order. Writer and reader run concurrently; each `Write` and
`Read` moves any part of what is left and may fail.

### TrafficGenerator

One step is one iteration of a call's loop; the sender may fail to open and may
fail any send. Interfaces are reduced to name, direction and whether their
packets are empty.

### YamlFiles, ProtocolParser, Validator, Corpus

The directory tree is chosen at the start and then fixed; what ryml makes of
each file is part of it: maps, lists and scalars, of whose text only what the
two readers tell apart is kept (its components, what `stoull` returns, whether
it is a plain number, whether ryml calls it a number). `Nodes` is the set of
these. A file may also be unreadable, empty, no YAML at all, or fill its last
page.

In `ProtocolParser`, `Parse` is the call of `parse()`. One iteration of
`listProtocolFiles` is `Skip`, `ParseFile` (all of `parseProtocolFile` and the
insertions into the three databases) or `EnterDirectory`; `LeaveDirectory` and
`ParseReturn` are its returns. `frames` is the call stack. A directory lists its
entries in any order, and a link may lead back to an ancestor. Where
`std::filesystem` throws, nobody catches: `calling` is then "never". `VarOf`,
`RefsOf` and `InterfaceOf` keep the parser's leniency: numbers that are none
become 0, items without a name are passed over, a size is cut to 32 bits.

In `Validator` every operator `Validate...` is the number of errors that the
function of that name reports; `findings` is their sum so far. `ValidateFile`, `VisitOther` and `Pop` are the
steps of the recursive iterator, which has no depth limit, does not follow links
and takes `.yml` as well; `ValidateEnd` adds the stack file and yields the count
that `main` turns into the exit code.

`Corpus` puts both on one tree, with `LoadStack` after a successful parse
(`StackBuilder::build` again, here against the services really loaded; in
`StackCodec` it is the codec's starting point). Neither program writes, so a
validation, if there is one, is taken to come first.

### PacketGen

A process reads its command line word by word (`ReadWords`), checks and
completes it (`ArgsRefused`, `Completed`), and goes through `ReadDirectory`,
`Prepare` and `OpenSender` or `OpenReceiver` to its loop. The three generating
loops of `main` (bound stack, list, chain) are one: a round is a sequence of
stages, which is a single one except for a chain (`Stages`); `Generate`,
`PrintStage`, `SendStage` and `EndRound` are its steps. The two decoding loops
are `Receive`, `ReceiveEof`, `ReceiveTorn` and `ReceiveFails`. `Finish` is the end
of either one. A packet is known by its round and stage, and by whether it has any
bytes: its contents are the subject of the codec modules, and a `receive` of the
pcap and Verilator transports, and a `send` of the latter, are single steps, which
`PcapFile` and `AxiTransport` justify. A `send` to a capture is not: `WritePart`
leaves a part of a header or of a body behind the last whole record (`tail`), for
good if the write fails or the generator is killed, and a decoder may come by at
that moment. Where the file ends within a header, `receive` reports EOF and the
decoder ends with 0; within a body, it is an error, as is a body that cannot be
read, and the decoder ends with 2 (`BodyUnread`). A header that cannot be read is
EOF too (`ReceiveFails`, which sets `readError`). The raw-socket transport is modelled here: a frame
reaches any subset of the open sockets, and others send, too. Any process may be
interrupted, and the harness may end, at any time; then the lines in the buffer
of standard output are lost (`Killed`).

## 3. Runs

| Run | Instance | Properties |
|---|---|---|
| `session` | one database with 4-bit words; 4 interface lists of 3 layers, both modes, cuts at 0, 1, 2, 3, 10 bytes; 9 stack files, 4 calls in any order, foreign and cut frames | `RoundTrip`, `LayerSlicesExact`, `ConstraintsHeld`, `ChainCarriesOneStage`, `ContextIsLayout`, `OnlyDerivedFieldsChange`, `LengthCountsOctets`, `CommandsAreClean`, `StackRoundTrip` |
| `axi_transport` | 2-byte beats, packets of 0-3 bytes, 2 sends, a socket holding 6 bytes | `Channel`, `SentArrives`, `ReceiveReturns` |
| `pcap_file` | packets of 0-2 bytes, 3 sends, one open of each end | `ReplaysInOrder`, `EofMeansConsumed` |
| `traffic_generator` | 4 interfaces, counts 0, 1, 3, any 5 calls | `TriedAndReported`, `CallsReturn` |
| `axis` | 2-byte beats, FIFO of 2, packets of 0, 1, 3 bytes; the loads of `MCLoads`: up to 3 sends with a DUT beat, up to 4 DUT beats with every TKEEP and TLAST | `BeatHeldUntilReady`, `TxChannel`, `RxChannel`, `EventuallyThrough` |
| `corpus` | 47 directory trees, 11 stack files, a depth limit of 2, 2 calls of `parse()`, sizes cut at 8 | `OutcomeByTree`, `EverythingLoaded`, `FirstWins`, `GateIsComplete`, `CleanIsUsable`, `CleanIsReadExactly`, `ProgramsReturn` |
| `packet_gen` | a generator and a decoder; 6 sources of packets on 3 transports, 19 odd command lines; a socket of 2 packets, 3 rounds of an endless generator, 1 foreign frame | `SuccessMeansDone`, `PrintedBeforeSent`, `DecodesInOrder`, `DecodesAll`, `ProcessesEnd` |

Every run also checks a type invariant (`session` one of each codec); the bridge's includes that the FIFO
never exceeds its slots, the parser's that the walk never exceeds its depth.

Why the bounds are enough. Widths of 1 to 11 bits with 4-bit words give fields
inside a byte, across a byte, wider than a word and ending a layer inside a
byte; values wider than their field, unresolved references and variables of
size 0 occur as well. Three stages of a chain tell one connection from two. Four
calls on a stack allow load, generate, decode, generate. Two-byte beats and
packets of up to 3 bytes give packets of no beat, a partial, a full, and a full
plus a partial one; two packets in flight suffice for merging and reordering;
the socket holds less than two beats, so writes block inside one. A FIFO of two
with three pushes in one delta cycle reaches its limit. The trees put protocols
in siblings, at the last level allowed, beyond it and below a cycle, and two
calls show what a failed call leaves to the next; beside a good protocol there
is one file with each irregularity that one of the readers tells apart. For
`packet_gen` a count of two and chains of two or three stages, one of them
without bytes, separate rounds from packets; a socket of two packets fills and
empties; a record is torn in its header or in its body, as the last of a capture
that is complete otherwise, or while its writer goes on. Nothing in the code depends on larger numbers than these except the width of `control_data_length`,
which the stack instance makes narrow enough to wrap.

Deadlock is checked for `AxisBridge`, whose clock never stops. In the others
all calls may have been made: stopping is legal.

### Fairness

- `AxisBridge!FairSpec`: weak fairness of `TxWake`, `FifoUpdate` and
  `DeliverPacket` (both schedulers run what is pending), strong fairness of an
  edge after which TREADY is high. The code cannot progress against a DUT that
  refuses forever; the assumption is that it becomes ready again and again.
- `AxiTransport!FairSpec`: weak fairness of `Write`, `WriteToNobody`, `Read`,
  `ReadEof` (both processes run; each is a system call that returns when it
  can), `ReceiverOpen` and `Receive` (`packet_gen` opens the receiver and calls
  `receive` again after each packet). None of sending, closing, errors or
  the harness' end.
- `TrafficGenerator!FairSpec`: weak fairness of a call's next iteration: a
  single-threaded loop whose `sender.send()` returns.
- `Corpus!CorpusFairSpec`: weak fairness of the next iteration or return of a
  program that was started: single-threaded loops over finite directories.
- `PacketGen!FairSpec`: weak fairness of each process's next step, where a system
  call that can succeed is not obliged to fail, and one that blocks is not
  obliged to return (`Returns`). None of signals, the harness' end or the frames
  of others.

### Findings

Five runs are expected to end in a violation: what a comment or a document says
is not what the code does.

| Run | Property | What happens |
|---|---|---|
| `packet_range` | `RangeNeverOverridden` | In a `--connect` chain the previous stage's value is put into a field with a declared `range`, out of the range; the documentation says a constrained field is never overridden. Only `expected` lists are protected (`packet_builder.cpp`, `buildWithOverrides`). |
| `stack_demux` | `DecodeValidatesSelectors` | `AvtpControlLogic::nextLayer` returns the upper layer's own name, whatever subtype was decoded, so the check in `decodeStack` compares the stack with itself. |
| `axi_keep_going` | `ReceivesCompletePackets` | `sendAll` and `sendFiltered` go on after a failed send on the same stream; the torn packet is completed with the next one's beats and a packet nobody sent is received. |
| `corpus_too_deep` | `LoadedIsSuccess` | Every file of the directory conforms and one is nested below the limit on the depth: `listProtocolFiles` fails with UNEXPECTED and breaks off, and `Session::parse` returns false with protocols in its databases. `docs/02_protocol_parser.md` says that files nested deeper "are silently ignored" and names a test for it, which expects UNEXPECTED; `session.h` promises "true when at least one valid protocol was loaded". |
| `packet_gen_delivered` | `Delivered` | A transport of an unknown kind (`pacp:f`) is the same to `main` as none: the packets are printed, none is delivered, the exit code is 0. The manual promises delivery "to the named backend" and exit status 1 for a bad option. |

Smaller divergences met while modelling, visible in the definitions and without
a run of their own: the builder reports a value wider than its field untruncated
while the wire keeps its low bits (`RoundTrip` states exactly this); two
references with one short name in an interface would share the first one's
width in a bound stack (`DeclaredBits`; no interface of the corpus has this); a
failed read of a pcap record header is reported as EOF (`ReadFailed`), so that a
decoder ends with 0 where the manual promises 2 for a receive error;
`sendLoop` on an interface without fields counts iterations, sends nothing and
returns SUCCESS (`LoopReturns`); `write` to a harness that has gone raises
SIGPIPE, which nothing ignores, so `send` does not return (`WriteToNobody`).
`PcapReceiver::open` never resets `mSwap`: reopened on a native capture after a
swapped one, it swaps every length (`TakeGlobalHeader`; with `MaxReaderOpens = 2`
`ReplaysInOrder` fails; the program opens every receiver once).

In the parser, besides `corpus_too_deep`: the failure at the limit leaves the
depth counter one too high for the next call (`EnterDirectory`); one file that
fails does so to the whole parse, too (`Outcome`); a file that cannot be
opened counts as parsed (`FileErr`); a base path that is not a directory ends in
an exception nobody catches (`Parse`); the header speaks of `.yaml` or `.yml`, and only `.yaml` is read;
`docs/03` gives a missing service the code UNEXPECTED, and it is INVALID_FILE,
which is forgiven (`FileErr`); an empty file, and possibly one whose length is a
multiple of the page size, ends the process (`MayDie`).

In the validator: the walk is not "the same tree walk the parser uses"
(`validator.h`; `CleanIsUsable` names the differences); a service called by a
number is accepted and then aborts the parse; a size of 2^63 or more ends the
validator with an exception (`VarDies`); the schemas' `minProperties` of
`expected` and the type of `var_ref` are not enforced (`ValidateExpected`,
`ValidateRefs`).

In packet_gen: a `--count` that is no number ends the process with an exception
(`Give`); an option at the end of the line without its value is reported and then
ignored (`ReadWords`); `--connect` with `--decode` uses the first interface only,
and stacks are decoded to JSON whatever `--output` says; an interrupted
`recvfrom` is the end of the stream (`Eof`); between `socket` and `bind` a raw
receiver collects the frames of every interface; lines printed before a SIGPIPE
or SIGINT may never come out although their packets went out (`Killed`).

## 4. Proofs

Every theorem is proved for all values of the constants that satisfy the named
assumptions of its modules; TLC evaluates those assumptions in the runs. Most
of the properties are not inductive: they speak of what is finished and not of
the loops in progress. So each module states an inductive invariant, proves it
with one lemma per action and derives its theorems from it.

| Module | Theorem | States |
|---|---|---|
| `CodecProofs` | `TypeCorrect` | `TypeOK` of `PacketCodec` |
| | `DecodeInvertsBuild` | `RoundTrip`: every decoded field is the low bits of what the builder recorded, less the bits that did not arrive |
| | `LayersStayAligned` | `LayerSlicesExact`: a layer that arrived whole is decoded from exactly its own bytes |
| | `ValuesHonourConstraints` | `ConstraintsHeld` |
| | `ChainIsStepwise` | `ChainCarriesOneStage` |
| | `StackTypes` | `StackTypeOK` of `StackCodec` |
| | `ContextsHaveTheLayout` | `ContextIsLayout`, if `WidthsAgree` |
| | `OnlyModulesChangeFields` | `OnlyDerivedFieldsChange`: nothing of an earlier frame is left in a new one; if `WidthsAgree` |
| | `LengthOnTheWire` | `LengthCountsOctets`, if `WidthsAgree` and `OneLengthField` |
| | `StackDecodeInvertsGenerate` | `StackRoundTrip`, if `WidthsAgree` |
| | `DecodedCommandsAreClean` | `CommandsAreClean`, if `WidthsAgree` and `SelectorsFit` |
| | `SessionIsSound` | all properties of both codecs in `SessionSpec`, under the three hypotheses |
| `CorpusProofs` | `FirstElementWins` | `FirstWins`: what is in a database stays as it is |
| | `OutcomeIsTheTrees` | `OutcomeByTree`: success depends on the tree alone |
| | `AllIsLoaded` | `EverythingLoaded`: a successful parse loads exactly what the tree declares |
| | `CorpusTypes` | `CorpusTypeOK` of the composition |
| | `ParserAlone` | `CorpusSpec` implements the parser's `Spec`, so the three theorems above hold in the composition |
| | `GateMissesNothing` | `GateIsComplete`: exit code 0 exactly when everything conforms |
| | `UsableIfClean` | `CleanIsUsable`: what passed the validator, `parse` and `build` can use |
| | `ReadExactlyIfClean` | `CleanIsReadExactly`: and it is read as it is written |
| `TrafficGeneratorProofs` | `TypeCorrectness` | `TypeOK` |
| | `FailuresReported` | `TriedAndReported` |
| `AxiTransportProofs` | `TypeCorrectness` | `TypeOK` |
| | `TransportRefinement` | `Channel`, if `KeepGoing` is false |
| `AxisBridgeProofs` | `TypeCorrectness` | `TypeOK`, with the limit of the FIFO |
| | `BeatsAreHeld` | `BeatHeldUntilReady` |
| | `TxRefinement`, `RxRefinement` | `TxChannel`, `RxChannel` |
| `PcapFileProofs` | `TypeCorrectness` | `TypeOK` |
| | `Replay` | `ReplaysInOrder`, if `MaxReaderOpens <= 1` |
| | `EofOnlyAtTheEnd` | `EofMeansConsumed`, likewise |
| `PacketGenProofs` | `TypeCorrectness` | `TypeOK`, with the limits of the loops |
| | `PrintsFirst` | `PrintedBeforeSent` |
| | `SuccessIsDone` | `SuccessMeansDone`: exit code 0 of a generator means every packet of every round printed and sent |
| | `InSendingOrder` | `DecodesInOrder`: a decoder prints what was sent, once and in order |
| | `EndsWhenDone` | `DecodesAll`: a decoder ends with 0 only when it is done, and never at a body that is torn or unreadable |

**Assumptions.** A positive word width; references with short names; a range is
absent or a pair; interface lists over known reference names, resolved or not;
cuts are natural numbers; positive widths, depths and buffers, of which a beat
of the Verilator transport has at most 8 bytes, because `tkeep` has 8 bits;
packets are sequences of bytes and fit the length field of a capture; no
interface of the database has the name of the unknown one; a directory tree is
well formed, and so are the YAML nodes in its files: what is below a node is a
node, a text has at least one component, and a stack file is a node, too; the
widest field allowed fits a `uint32_t`; of the processes of `packet_gen` that run together, one writes the
media and one at most reads the harness' socket (`OneEach`; a second writer
would truncate the first one's capture, a second reader would take a part of the
stream).

**Hypotheses.** Some theorems have hypotheses of their own; the code refutes
their properties without them. `KeepGoing` is false, or it is the finding
`axi_keep_going`. A receiver is opened once, or it keeps the byte order of its
last capture (`mSwap`). `packet_gen` stops at a failed send and opens every
receiver once. Three are about the protocols that a bound stack uses. They are
stated at the end of `StackCodec`, TLC evaluates them on the instance
(`MCHypotheses`), and the corpus in `protocols/` has them:

- `WidthsAgree`: references of one interface that share a short name have one
  width. `populateContext` takes the width of the first of that name, so that
  otherwise a field is packed with a width that the decoder does not use. No
  interface of the corpus has two references with one short name.
- `OneLengthField`: no interface has two fields called `control_data_length`.
  `setValue` writes the first one only.
- `SelectorsFit`: a field called `subtype` or `ethertype` is wide enough for the
  selectors, and no value that may be chosen for an `ethertype` is wider than
  its field: the low bits of a value that is not 0 may be. In the corpus they
  have 8 and 16 bits, and the `ethertype` has an `expected` value.

**Packet codec.** `IInv` adds to the properties what the loops have done so far.
`CurInv` and `BuiltInv`: within a layer, offsets are the running sums of the
sizes, the buffer has the bytes of the last offset, no bit lies past it and every
bit of every recorded field is at its place (`LayerInv`). `FrameInv`: finished
layers are adjacent slices of the frame. `WireInv`: what arrived agrees with
those slices as far as it goes. `SyncInv`: the decoder is at the builder's
recorded offset for the same reference, its `totalBits` is that offset, and the
fields decoded so far are right. `RestInv`: the decoder's counters are 0 while
building. Appending a field preserves `LayerInv` (`LayerGrow`) because new bits
lie past all old ones; `layerBytes` of a layer is the size of the buffer built
for it, so `SyncInv` passes from layer to layer. `ValueInv` says where each
recorded value comes from: an expected value if any is declared; else the
masked override, if there is one under its short name; else a choice within
range and mask. The overrides of a chain are the record of the stage before, no
more.

**Bound stacks.** `TypeInv`: what is bound comes from the database, a bypassed
layer has no module, a call is at one of its layers, and a layer without an
interface never has a field. The rest of the invariant says how far the passes
are (`WorkInv`). `PassInv`: a layer populated has its interface's layout and
chosen values; a layer encoded is `Settled`, that is, its derived fields are
right for the layers above as they will be packed. This is where a length is
written before what it counts: a module changes values and never names or widths
(`Keeps`), so `onEncode` of a layer above leaves every size as it was
(`AboveSame`). `MadeInv`: what is packed is what the contexts held; a finished
frame stays settled after the contexts have been filled by a decode. `SliceInv`:
the frame is the packed layers one after the other, bit by bit. `BackInv`: while
a whole frame is decoded, the decoder is at the byte where its layer begins and
the layers below came back. `PackFacts` says where `PackBytes` puts each bit of
each field, and `FieldReadBack` that `ExtractBits` reads it there; both follow
by induction over the fields with the sums of widths (`SumSplit`,
`SumUpToGrows`). The octets that follow a length field are the rest of its
layer and the layers above, which is the same as the frame without what is
before (`ByteSizeSplit`, `AboveInFrame`).

**Session.** A step of one codec leaves the variables of the other alone, so
`SessionSpec` implements the specifications of both (`CodecsApart`), and the
theorems above hold in it (`SessionIsSound`).

**Parser.** `WalkInv`: the call stack is a path of the tree from the base
directory, one level per frame. `DepthInv`: the depth counter is the height of
the stack, unless the tree is too deep; a call that refuses to go deeper never
gives its level back, but such a tree cannot be loaded anyway. `DoneInv`: while
no error has been met, the entries a call has passed are read with everything
below them; an error is one the tree causes. `LoadInv`: the databases hold what
the files read so far declare. "Everything below" a directory is told by
levels, defined by recursion over their number; `LevelsBelow` says that the
levels below a directory are those below its entries, so that a directory is
done when its last entry is.

**Validator.** Its walk has no limit and follows no link, so that the files it
has to see are those in the least set of directories that contains the base and
is closed under subdirectories (`Below`). `GateInv`: there is a set of
directories that the walk has been in, all of them in `Below`, and every entry
of one of them is still to come or visited: a directory visited is in the set,
and as long as `findings` is 0 a file visited conforms; if it is not 0 some file
in these directories does not. When nothing is left to come the set is closed,
hence it is `Below`. Which directories were visited is part of no variable, so
the set is bound by a quantifier.

**Gate.** The errors of a file are a sum over its parts, each a natural number;
the sum is 0 only if every part is (`SumZero`; one lemma for each function of
the validator, `ExpectedErrors` to `StackErrors`). So a clean file has, part by
part, the form that the parser's operators read without leniency (`ExactVar`,
`ExactInterface`), and a clean tree is one that the parser's theorem
`OutcomeIsTheTrees` calls loadable, up to the exceptions that `CleanIsUsable`
names. What happened earlier is needed as well. `CrashInv`: when the process has
ended, something on the disk can end it. `OriginInv`: every element of a database
is as some file that was read declares it; the first declaration wins, which may
have been read in an earlier call. `BuiltInv`: a stack file that `build` finds
malformed has errors for the validator.

**Traffic generator.** `CallInv`: within a call, the names tried followed by
those still to try are the names of the interfaces due, filtered by the call's
direction and by having any bytes, and `lastErr` is a failure exactly when one
of the sends failed.

**AXI bridge.** The invariant places every packet. Toward the DUT, the accepted
packets (empty ones apart) are those the DUT has completed, the one being
presented and those in the FIFO; the DUT has the first `offset` bytes of the
one presented, and the ports show its beat at `offset`. From the DUT, the
packets sent are those delivered or lost, those scheduled and the one
`rx_thread` has completed; the next one is in the same state on both sides.

**Verilator transport.** The stream has no structure but its bytes, and reads
need not match writes. The invariant therefore says that there is a plan of the
stream: the packets started, the packet and offset of each beat, and each byte
(`Plan`). The bytes not yet written, those in the socket and those of the beat
read so far are consecutive parts of it (`InTransit`), and the receiver's
packet is what the plan has before its place (`ReceiverAt`). The plan grows
when `send` presents a beat (`PlanExtend`). If the last packet of the plan was
not reported, its last byte is never in the socket: hence the receiver cannot
complete a torn packet (`CompleteIsSent`).

**Capture.** The file is a global header and records at offsets that are not
part of the state, so they are bound by a quantifier (`Layout`); behind the last
one there is at most a torn record, strictly shorter than the record would be.
The reader is at one of the offsets, or within the record that begins there.
`HeaderInv` and `OpeningInv` cover the opening of either end, during which the
file may be truncated under the reader; `FileInv` the rest; `OnceInv` says that
no earlier open has left `mSwap` set when a receiver begins to read.

**packet_gen.** The invariant of a process (`Proc`, `Gen`) is a predicate of its
own state, so that steps of other processes keep it. `Gen` says what a generator
has printed and sent to the packet: `Upto(a, r, k)` is the packets of `r` whole
rounds and the first `k` of the next, and a chain is printed a round ahead of
its sends (`Ahead`). `FileInv`: the capture holds exactly what its one writer
sent, and a torn record behind it is no part of its records (`TailStep`,
`TailType`). For decoders, `Dec`: the lines are the non-empty records up to the
position, also when lines have died in a buffer. `Handed`: what went into the
harness is what its reader has printed followed by what is in the socket, as long
as neither has ended; what went in is part of no variable once it was read, so
it is bound by a quantifier. `NetInv`: what a raw socket has queued behind what
was printed is in the order of sending, and before the packet that the
generator sends next, whatever frames were lost between.

**Lemmas.** `SequenceLemmas` holds induction over the natural numbers, stated
for sets (`NatSetInduction`), the existence of functions defined by recursion
(`FiniteRecursion`, `NatRecursion`), and with them what `Filter` computes,
keeps and leaves out, which elements `Flat` has, when `Sum` is 0 and how it
splits, and what moving an element does to a concatenation of queues. Loops over vectors are written as
recursive functions so that these lemmas apply: to the provers `SelectSeq` and
`2 ^ n` are symbols without meaning.

Only model-checked: liveness and everything that needs ENABLED, which are
outside the prover's reach (`ProcessesEnd`, `ProgramsReturn`, `CallsReturn`,
`EventuallyThrough`, `SentArrives`, `ReceiveReturns`), and the findings,
which are counterexamples. Every invariant, every action property and every
refinement that a passing run checks is proved.

## 5. Not modelled

- Protocol files that change while a program reads them. Except in `Corpus` the
  databases are constants.
- The text of YAML and JSON (ryml, schemas), hex and JSON rendering, logging, the
  texts of the help: formatting without state. Whether a `--hex` text is accepted
  is a given of `PacketGen`.
- Several network interfaces, captures or harnesses at once; a second generator
  on one medium.
- `sc_main`: it calls `dev->GetSender()`, which `VerilatorNetDevice` does not have,
  never opens its TrafficGenerator and never runs the ns-3 simulator.
- The schedulers of ns-3 and SystemC: libraries; the parts of SystemC the bridge
  relies on (update phases, `sc_fifo`) are modelled as external.
- The GUI, the protocol corpus and its schemas: data and presentation.
- A second `open` without `close` on a sender or receiver (the old descriptor is
  leaked); descriptors are not counted.
- Timestamps in captures, addresses and MTU of the net device.

## 6. State of the plan

Every component with state of its own is modelled, and every safety property of
the passing runs is proved. When the code changes: a new logic module is a case
of `OnEncode`, `Remembered` and `Derived` and a conjunct of `Settled` in
`CodecProofs`; the lemmas about `SetValue` (`SetValueFacts`, `Keeps`) are the
ones its proof needs. Left open are the ns-3 scheduler around
`VerilatorNetDevice` and the co-simulation's `main`, for the reasons in
section 5.
