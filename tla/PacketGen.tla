----------------------------- MODULE PacketGen -----------------------------
(***************************************************************************)
(* packet_gen, the program: its command line, its modes, the loops that    *)
(* generate rounds of packets or decode what a transport delivers, its     *)
(* exit codes, and the raw-socket transport.  Several processes run at     *)
(* once, typically a generator and a decoder on one medium.                *)
(*                                                                         *)
(* A packet is known by where it comes from (the round and the stage) and  *)
(* by whether it has any bytes: what is in it is the subject of            *)
(* PacketCodec and StackCodec, what the directory holds that of Corpus.    *)
(* send() and receive() of the pcap and Verilator transports are single    *)
(* steps here, which AxiTransport and PcapFile justify, except that part   *)
(* of a record may be in the capture before, or instead of, the record.    *)
(* There is one capture file, new when the generator opens it, one socket  *)
(* of a Verilator harness that hands on what it gets, and one network      *)
(* interface.                                                              *)
(***************************************************************************)
EXTENDS Loops

CONSTANTS
  Procs,         \* the processes; at most one of them generates
  CommandLines,  \* the argument vectors, by process, that may be run together
  Meaning,       \* by text: stoull's result or -1, the names of an interface
                 \* list, the transport kind before the colon, whether it is hex
  Interfaces,    \* by name: whether a packet of the interface has any bytes
  Stacks,        \* by stack file that builds: whether its frame has any bytes
  SocketCapacity,\* packets that fit into the harness' socket
  MaxRounds,     \* bound: rounds or packets of --count 0
  MaxNoise       \* bound: frames of others on the network

ASSUME PacketGenAssumption ==
  /\ CommandLines \subseteq [Procs -> Seq(STRING)]
  /\ \A t \in DOMAIN Meaning : /\ Meaning[t].ull \in Int /\ Meaning[t].ull >= -1
                              /\ Meaning[t].names \in Seq(STRING)
  /\ Interfaces \in [DOMAIN Interfaces -> BOOLEAN] /\ Stacks \in [DOMAIN Stacks -> BOOLEAN]
  /\ SocketCapacity \in Nat \ {0} /\ MaxRounds \in Nat /\ MaxNoise \in Nat

VARIABLES
  argv,    \* by process: the words of its command line
  pc,      \* by process: "start", "args", "parsed", "open", "loop", "print", "send"
  exit,    \* by process: its exit code, Running until it has one
  args,    \* by process: Args
  round,   \* by process: rounds done, or packets decoded (n)
  stage,   \* by process: the stage that is next in this round
  out,     \* by process: the lines on standard output, each a list of packets
  sent,    \* by process: the packets for which send() succeeded
  file,    \* the capture: [made, records]
  tail,    \* what follows its last record: "none", part of a record's "header",
           \* or a header and part of the "body"
  pos,     \* by process: the records read from the capture
  beats,   \* packets in the harness' socket
  harness, \* "up" or "gone"
  sockets, \* by process: the frames queued in its raw socket, Closed when not open
  noise,   \* frames of others so far
  readError\* by process: the read of a record's header failed, which is taken for the end

progVars == <<argv, pc, exit, args, round, stage, out>>
mediumVars == <<sent, file, tail, pos, beats, harness, sockets, noise, readError>>
vars == <<progVars, mediumVars>>

Running == -1
Interrupted == 130   \* SIGINT
Aborted == 134       \* an exception that nobody catches
BrokenPipe == 141    \* SIGPIPE

Closed == [open |-> FALSE, queue |-> <<>>]

NoText == ""

DefaultArgs ==
  [yamlDir |-> NoText, iface |-> NoText, count |-> 1, output |-> "json", transport |-> "none",
   logLevel |-> "warn", listInterfaces |-> FALSE, validate |-> FALSE, decode |-> FALSE,
   hexInput |-> NoText, chain |-> <<>>, stack |-> <<>>, stackFile |-> NoText]

Init ==
  /\ argv \in CommandLines
  /\ pc = [p \in Procs |-> "start"] /\ exit = [p \in Procs |-> Running]
  /\ args = [p \in Procs |-> DefaultArgs]
  /\ round = [p \in Procs |-> 0] /\ stage = [p \in Procs |-> 1]
  /\ out = [p \in Procs |-> <<>>] /\ sent = [p \in Procs |-> <<>>]
  /\ file = [made |-> FALSE, records |-> <<>>] /\ tail = "none" /\ pos = [p \in Procs |-> 0]
  /\ beats = <<>> /\ harness = "up" /\ sockets = [p \in Procs |-> Closed] /\ noise = 0
  /\ readError = [p \in Procs |-> FALSE]
-----------------------------------------------------------------------------
(* parseArgs *)

FieldOf == [o \in {"--yaml-dir", "--interface", "--output", "--transport", "--stack-file",
                   "--log-level", "--hex", "--list-interfaces", "--validate", "--decode"} |->
  CASE o = "--yaml-dir" -> "yamlDir"     [] o = "--interface" -> "iface"
    [] o = "--output" -> "output"        [] o = "--transport" -> "transport"
    [] o = "--stack-file" -> "stackFile" [] o = "--log-level" -> "logLevel"
    [] o = "--hex" -> "hexInput"         [] o = "--list-interfaces" -> "listInterfaces"
    [] o = "--validate" -> "validate"    [] o = "--decode" -> "decode"]

Flags == {"--list-interfaces", "--validate", "--decode"}
Numbered == {"--count", "--seed"}
Valued == (DOMAIN FieldOf \ Flags) \cup Numbered \cup {"--connect", "--stack"}

Means(text) == IF text \in DOMAIN Meaning THEN Meaning[text]
               ELSE [ull |-> -1, names |-> <<text>>, kind |-> NoText, hex |-> FALSE]

Number(text) == Means(text).ull

\* An empty list has no names.
NameList(text) == IF text = NoText THEN <<>> ELSE Means(text).names

\* An option takes the text v; of an empty text --count and --seed make nothing.
Store(a, option, v) ==
  CASE option \in DOMAIN FieldOf -> [a EXCEPT ![FieldOf[option]] = v]
    [] option = "--count" -> IF v = NoText THEN a ELSE [a EXCEPT !.count = Number(v)]
    [] option = "--seed" -> a
    [] option = "--connect" -> [a EXCEPT !.chain = @ \o NameList(v)]
    [] option = "--stack" -> [a EXCEPT !.stack = @ \o NameList(v)]

Give(s, v) ==
  IF s.wants \in Numbered /\ v # NoText /\ Number(v) < 0 THEN [s EXCEPT !.exit = Aborted]
  ELSE [s EXCEPT !.args = Store(@, s.wants, v), !.wants = NoText]

\* The next word: the value of the option before it, whatever it looks like,
\* or an option.
Word(s, w) ==
  CASE s.exit # Running -> s
    [] s.exit = Running /\ s.wants # NoText -> Give(s, w)
    [] s.exit = Running /\ s.wants = NoText ->
         CASE w \in Valued -> [s EXCEPT !.wants = w]
           [] w \in Flags -> [s EXCEPT !.args = [@ EXCEPT ![FieldOf[w]] = TRUE]]
           [] w \in {"--help", "--version"} -> [s EXCEPT !.exit = 0]
           [] OTHER -> [s EXCEPT !.exit = 1]

\* The state after each number of words.
AfterWords(words) ==
  LET s[n \in 0 .. Len(words)] ==
        IF n = 0 THEN [args |-> DefaultArgs, wants |-> NoText, exit |-> Running]
        ELSE Word(s[n - 1], words[n])
  IN  s

\* A value missing at the end is the empty text.
ReadWords(words) ==
  LET s == AfterWords(words)[Len(words)]
  IN  IF s.exit = Running /\ s.wants # NoText THEN Give(s, NoText) ELSE s

ArgsRefused(a) ==
  LET pipelines == (IF a.chain # <<>> THEN 1 ELSE 0) + (IF a.stack # <<>> THEN 1 ELSE 0)
                     + (IF a.stackFile # NoText THEN 1 ELSE 0)
  IN  \/ a.logLevel \notin {"quiet", "error", "warn", "info", "debug"}
      \/ a.yamlDir = NoText \/ pipelines > 1
      \/ ~a.listInterfaces /\ ~a.validate /\ a.iface = NoText /\ pipelines = 0
      \/ a.output \notin {"hex", "json"}

\* --hex implies --decode; --interface comes first in a chain or a stack.
Completed(a) ==
  LET before(names) == IF names # <<>> /\ a.iface # NoText THEN <<a.iface>> \o names ELSE names
  IN  [a EXCEPT !.decode = @ \/ a.hexInput # NoText, !.chain = before(@), !.stack = before(@),
                !.iface = IF a.chain # <<>> \/ a.stack # <<>> THEN NoText ELSE @]

\* parseArgs accepts the words, and returns a.
Accepted(words, a) ==
  LET s == ReadWords(words) IN s.exit = Running /\ ~ArgsRefused(s.args) /\ a = Completed(s.args)

ParseArgs(p) ==
  /\ pc[p] = "start" /\ exit[p] = Running
  /\ LET s == ReadWords(argv[p]) IN
     \/ s.exit # Running /\ exit' = [exit EXCEPT ![p] = s.exit] /\ UNCHANGED <<pc, args>>
     \/ /\ s.exit = Running /\ ArgsRefused(s.args)
        /\ exit' = [exit EXCEPT ![p] = 1] /\ UNCHANGED <<pc, args>>
     \/ /\ s.exit = Running /\ ~ArgsRefused(s.args)
        /\ args' = [args EXCEPT ![p] = Completed(s.args)]
        /\ pc' = [pc EXCEPT ![p] = "args"] /\ UNCHANGED exit
  /\ UNCHANGED <<argv, round, stage, out, mediumVars>>
-----------------------------------------------------------------------------
(* main, up to the loops *)

\* makeSender and makeReceiver: a text without a colon, or an unknown kind,
\* is no transport.
Kind(a) == IF a.transport \in {"none", NoText} THEN "none"
           ELSE IF Means(a.transport).kind \in {"raw", "pcap", "verilator"}
                  THEN Means(a.transport).kind ELSE "none"

\* The words make a generator, or a decoder at the harness' socket.
IsGenerator(words) == LET a == Completed(ReadWords(words).args) IN Accepted(words, a) /\ ~a.decode

IsHarnessReader(words) ==
  LET a == Completed(ReadWords(words).args)
  IN  Accepted(words, a) /\ a.decode /\ Kind(a) = "verilator"

\* One process writes the medium, and one at most reads the harness' socket.
ASSUME OneEach ==
  \A lines \in CommandLines : \A p, q \in Procs :
    /\ IsGenerator(lines[p]) /\ IsGenerator(lines[q]) => p = q
    /\ IsHarnessReader(lines[p]) /\ IsHarnessReader(lines[q]) => p = q

Names(a) == IF a.stack # <<>> THEN a.stack
            ELSE IF a.chain # <<>> THEN a.chain ELSE <<a.iface>>

\* Everything that is named is there.
Resolves(a) == IF a.stackFile # NoText THEN a.stackFile \in DOMAIN Stacks
               ELSE \A i \in DOMAIN Names(a) : Names(a)[i] \in DOMAIN Interfaces

\* For each packet of a round: whether it has any bytes.
Stages(a) ==
  CASE a.stackFile # NoText -> <<Stacks[a.stackFile]>>
    [] a.stackFile = NoText /\ a.stack # <<>> -> <<\E i \in DOMAIN a.stack : Interfaces[a.stack[i]]>>
    [] OTHER -> [i \in DOMAIN Names(a) |-> Interfaces[Names(a)[i]]]

IsChain(a) == a.stackFile = NoText /\ a.stack = <<>> /\ Len(a.chain) > 1

Exits(p, code) == exit' = [exit EXCEPT ![p] = code] /\ UNCHANGED pc

Goes(p, where) == pc' = [pc EXCEPT ![p] = where] /\ UNCHANGED exit

At(p, where) == exit[p] = Running /\ pc[p] = where

\* --validate, or session.parse(); Corpus tells when each fails or ends the process.
ReadDirectory(p) ==
  /\ At(p, "args")
  /\ \/ args[p].validate /\ \E code \in {0, 2, Aborted} : Exits(p, code)
     \/ ~args[p].validate /\ \E code \in {2, Aborted} : Exits(p, code)
     \/ ~args[p].validate /\ Goes(p, "parsed")
  /\ UNCHANGED <<argv, args, round, stage, out, mediumVars>>

HexPacket == [round |-> 0, stage |-> 0, bytes |-> TRUE]

\* The modes that need no transport, and a transport that there is none for.
Prepare(p) ==
  LET a == args[p] IN
  /\ At(p, "parsed")
  /\ \/ a.listInterfaces /\ Exits(p, 0) /\ UNCHANGED out
     \/ /\ ~a.listInterfaces /\ ~Resolves(a)
        /\ Exits(p, 2) /\ UNCHANGED out
     \/ /\ ~a.listInterfaces /\ a.stackFile # NoText /\ ~Resolves(a)   \* no YAML: ryml ends it
        /\ Exits(p, Aborted) /\ UNCHANGED out
     \/ /\ ~a.listInterfaces /\ Resolves(a) /\ a.decode /\ a.hexInput # NoText
        /\ \/ Means(a.hexInput).hex /\ Exits(p, 0) /\ out' = [out EXCEPT ![p] = <<<<HexPacket>>>>]
           \/ ~Means(a.hexInput).hex /\ Exits(p, 1) /\ UNCHANGED out
     \/ /\ ~a.listInterfaces /\ Resolves(a) /\ a.hexInput = NoText /\ Kind(a) = "none"
        /\ IF a.decode THEN Exits(p, 1) ELSE Goes(p, "loop")
        /\ UNCHANGED out
     \/ /\ ~a.listInterfaces /\ Resolves(a) /\ a.hexInput = NoText /\ Kind(a) # "none"
        /\ Goes(p, "open") /\ UNCHANGED out
  /\ UNCHANGED <<argv, args, round, stage, mediumVars>>

OpenFailed(p) ==
  /\ At(p, "open") /\ Exits(p, 2)
  /\ UNCHANGED <<argv, args, round, stage, out, mediumVars>>

\* The raw sockets are of one kind: bound to the interface, both get every
\* frame on it from here on.
Listening(p) == sockets' = [sockets EXCEPT ![p] = [open |-> TRUE, queue |-> <<>>]]

RawSenderOpen(p) == Listening(p)

RawReceiverOpen(p) == Listening(p)

\* The capture is created.
OpenSender(p) ==
  /\ At(p, "open") /\ ~args[p].decode /\ Goes(p, "loop")
  /\ \/ /\ Kind(args[p]) = "pcap"
        /\ file' = [made |-> TRUE, records |-> <<>>] /\ tail' = "none" /\ UNCHANGED sockets
     \/ Kind(args[p]) = "verilator" /\ harness = "up" /\ UNCHANGED <<file, tail, sockets>>
     \/ Kind(args[p]) = "raw" /\ RawSenderOpen(p) /\ UNCHANGED <<file, tail>>
  /\ UNCHANGED <<argv, args, round, stage, out, sent, pos, beats, harness, noise, readError>>

OpenReceiver(p) ==
  /\ At(p, "open") /\ args[p].decode /\ Goes(p, "loop")
  /\ \/ Kind(args[p]) = "pcap" /\ file.made /\ UNCHANGED sockets
     \/ Kind(args[p]) = "verilator" /\ harness = "up" /\ UNCHANGED sockets
     \/ Kind(args[p]) = "raw" /\ RawReceiverOpen(p)
  /\ UNCHANGED <<argv, args, round, stage, out, sent, file, tail, pos, beats, harness, noise, readError>>

\* The socket of an ended process is closed.
Release(p) == sockets' = [sockets EXCEPT ![p] = Closed]
-----------------------------------------------------------------------------
(* The rounds of a generator *)

\* Faulty variant: one round too many.
MoreTooLong(a, n) == a.count = 0 \/ n <= a.count

More(a, n) == a.count = 0 \/ n < a.count

\* Faulty variant: a chain's line is forgotten.
PrintsRoundNever(a) == FALSE

PrintsRound(a) == IsChain(a) /\ a.output = "json"

Packet(p, k) == [round |-> round[p] + 1, stage |-> k, bytes |-> Stages(args[p])[k]]

\* generateChain or generateStack; the line of a whole chain is printed at once.
Generate(p) ==
  LET a == args[p] IN
  /\ At(p, "loop") /\ ~a.decode /\ More(a, round[p])
  /\ a.count = 0 => round[p] < MaxRounds
  /\ out' = IF PrintsRound(a)
              THEN [out EXCEPT ![p] = Append(@, [k \in DOMAIN Stages(a) |-> Packet(p, k)])] ELSE out
  /\ stage' = [stage EXCEPT ![p] = 1]
  /\ Goes(p, "print")
  /\ UNCHANGED <<argv, args, round, mediumVars>>

PrintStage(p) ==
  LET a == args[p] IN
  /\ At(p, "print") /\ stage[p] <= Len(Stages(a))
  /\ out' = IF IsChain(a) /\ a.output = "json" THEN out
            ELSE [out EXCEPT ![p] = Append(@, <<Packet(p, stage[p])>>)]
  /\ Goes(p, "send")
  /\ UNCHANGED <<argv, args, round, stage, mediumVars>>

EndRound(p) ==
  /\ At(p, "print") /\ stage[p] > Len(Stages(args[p]))
  /\ round' = [round EXCEPT ![p] = @ + 1]
  /\ Goes(p, "loop")
  /\ UNCHANGED <<argv, args, stage, out, mediumVars>>

\* sendto(): every other open raw socket gets a copy unless its buffer is full;
\* the kernel refuses an empty frame.
RawSend(p, packet) ==
  /\ packet.bytes
  /\ \E reached \in SUBSET {q \in Procs \ {p} : sockets[q].open} :
       sockets' = [q \in Procs |-> IF q \in reached
                                     THEN [sockets[q] EXCEPT !.queue = Append(@, packet)]
                                     ELSE sockets[q]]

\* What becomes of a packet; an empty one has no beats.
Carry(p, packet) ==
  LET kind == Kind(args[p]) IN
  \/ kind = "none" /\ UNCHANGED <<file, tail, beats, sockets>>
  \/ /\ kind = "pcap" /\ file' = [file EXCEPT !.records = Append(@, packet)] /\ tail' = "none"
     /\ UNCHANGED <<beats, sockets>>
  \/ /\ kind = "verilator" /\ packet.bytes /\ harness = "up" /\ Len(beats) < SocketCapacity
     /\ beats' = Append(beats, packet) /\ UNCHANGED <<file, tail, sockets>>
  \/ kind = "verilator" /\ ~packet.bytes /\ UNCHANGED <<file, tail, beats, sockets>>
  \/ kind = "raw" /\ RawSend(p, packet) /\ UNCHANGED <<file, tail, beats>>

SendStage(p) ==
  LET packet == Packet(p, stage[p]) IN
  /\ At(p, "send") /\ Carry(p, packet)
  /\ sent' = IF Kind(args[p]) = "none" THEN sent ELSE [sent EXCEPT ![p] = Append(@, packet)]
  /\ stage' = [stage EXCEPT ![p] = @ + 1]
  /\ Goes(p, "print")
  /\ UNCHANGED <<argv, args, round, out, pos, harness, noise, readError>>

\* send() writes a record's header and then its body, each in as many pieces
\* as the system likes; the last piece is SendStage.
WritePart(p) ==
  /\ At(p, "send") /\ Kind(args[p]) = "pcap"
  /\ \/ tail = "none" /\ tail' = "header"
     \/ tail # "body" /\ Packet(p, stage[p]).bytes /\ tail' = "body"
  /\ UNCHANGED <<progVars, sent, file, pos, beats, harness, sockets, noise, readError>>

\* Faulty variant: the result of send() is not looked at.
AfterFailureGoOn(p) ==
  stage' = [stage EXCEPT ![p] = @ + 1] /\ Goes(p, "print") /\ UNCHANGED sockets

AfterFailure(p) == Exits(p, 2) /\ Release(p) /\ UNCHANGED stage

\* What is written of a record stays in the capture.
SendFails(p) ==
  /\ At(p, "send") /\ Kind(args[p]) # "none" /\ AfterFailure(p)
  /\ UNCHANGED <<argv, args, round, out, sent, file, tail, pos, beats, harness, noise, readError>>

\* The lines that are still in the buffer are lost.
Killed(p, code) ==
  /\ Exits(p, code) /\ Release(p)
  /\ \E k \in 0 .. Len(out[p]) : out' = [out EXCEPT ![p] = SubSeq(@, 1, k)]
  /\ UNCHANGED <<argv, args, round, stage, sent, file, tail, pos, beats, harness, noise, readError>>

SendToNobody(p) ==
  /\ At(p, "send") /\ Kind(args[p]) = "verilator" /\ harness = "gone"
  /\ Packet(p, stage[p]).bytes
  /\ Killed(p, BrokenPipe)
-----------------------------------------------------------------------------
(* The loop of a decoder *)

Counted(packet) == packet.bytes

\* Faulty variant: a record is read again.
PositionKept(n) == n

Position(n) == n + 1

\* receive() returned a packet.
Decoded(p, packet) ==
  /\ out' = IF packet.bytes THEN [out EXCEPT ![p] = Append(@, <<packet>>)] ELSE out
  /\ round' = IF Counted(packet) THEN [round EXCEPT ![p] = @ + 1] ELSE round
  /\ UNCHANGED <<argv, pc, exit, args, stage, sent, file, tail, harness, noise, readError>>

Receives(p) == /\ At(p, "loop") /\ args[p].decode /\ More(args[p], round[p])
               /\ args[p].count = 0 => round[p] < MaxRounds

\* recvfrom()
RawReceive(p) ==
  /\ sockets[p].queue # <<>>
  /\ Decoded(p, Head(sockets[p].queue))
  /\ sockets' = [sockets EXCEPT ![p].queue = Tail(@)]

Receive(p) ==
  /\ Receives(p)
  /\ \/ /\ Kind(args[p]) = "pcap" /\ pos[p] < Len(file.records)
        /\ Decoded(p, file.records[pos[p] + 1])
        /\ pos' = [pos EXCEPT ![p] = Position(@)] /\ UNCHANGED <<beats, sockets>>
     \/ /\ Kind(args[p]) = "verilator" /\ beats # <<>>
        /\ Decoded(p, Head(beats)) /\ beats' = Tail(beats) /\ UNCHANGED <<pos, sockets>>
     \/ Kind(args[p]) = "raw" /\ RawReceive(p) /\ UNCHANGED <<pos, beats>>

\* The file ends before a whole header.
PcapEof(p) == pos[p] = Len(file.records) /\ tail # "body"

\* The stream ends, also within a packet.
VerilatorEof == beats = <<>> /\ harness = "gone"

\* receive() reports the end; that of a raw socket when a signal interrupts it.
Eof(p) == CASE Kind(args[p]) = "pcap" -> PcapEof(p)
            [] Kind(args[p]) = "verilator" -> VerilatorEof
            [] Kind(args[p]) = "raw" -> TRUE

\* Faulty variant: the loop tries again after the end.
AfterEofAgain(p) == UNCHANGED <<pc, exit, sockets>>

AfterEof(p) == Exits(p, 0) /\ Release(p)

ReceiveEof(p) ==
  /\ Receives(p) /\ Eof(p) /\ AfterEof(p)
  /\ UNCHANGED <<argv, args, round, stage, out, sent, file, tail, pos, beats, harness, noise, readError>>

\* Faulty variant: a body that cannot be read is taken for the end, as a header is.
BodyUnreadIsEof(p) == Exits(p, 0)

BodyUnread(p) == Exits(p, 2)

\* The file ends within the body of a record: its writer failed, was killed, or
\* has not got further yet.
ReceiveTorn(p) ==
  /\ Receives(p) /\ Kind(args[p]) = "pcap" /\ pos[p] = Len(file.records) /\ tail = "body"
  /\ BodyUnread(p) /\ Release(p)
  /\ UNCHANGED <<argv, args, round, stage, out, sent, file, tail, pos, beats, harness, noise, readError>>

\* A system call fails.  In a capture it matters which one: a header that
\* cannot be read is the end, a body is an error.
ReceiveFails(p) ==
  /\ Receives(p)
  /\ \/ Kind(args[p]) = "pcap" /\ Exits(p, 0) /\ readError' = [readError EXCEPT ![p] = TRUE]
     \/ /\ Kind(args[p]) = "pcap" /\ pos[p] < Len(file.records) /\ file.records[pos[p] + 1].bytes
        /\ BodyUnread(p) /\ UNCHANGED readError
     \/ Kind(args[p]) # "pcap" /\ Exits(p, 2) /\ UNCHANGED readError
  /\ Release(p)
  /\ UNCHANGED <<argv, args, round, stage, out, sent, file, tail, pos, beats, harness, noise>>

\* All rounds are done, or as many packets as asked for decoded.
Finish(p) ==
  /\ At(p, "loop") /\ ~More(args[p], round[p])
  /\ Exits(p, 0) /\ Release(p)
  /\ UNCHANGED <<argv, args, round, stage, out, sent, file, tail, pos, beats, harness, noise, readError>>
-----------------------------------------------------------------------------
(* The surroundings *)

Interrupt(p) == exit[p] = Running /\ pc[p] # "start" /\ Killed(p, Interrupted)

\* The harness ends; what it had not handed on is gone.
HarnessGone ==
  /\ harness = "up" /\ harness' = "gone"
  /\ \E k \in 0 .. Len(beats) : beats' = SubSeq(beats, 1, k)
  /\ UNCHANGED <<progVars, sent, file, tail, pos, sockets, noise, readError>>

NoiseFrame == [round |-> 0, stage |-> 1, bytes |-> TRUE]

\* A frame of somebody else.
Noise ==
  /\ noise < MaxNoise /\ noise' = noise + 1
  /\ \E p \in Procs :
       sockets[p].open /\ sockets' = [sockets EXCEPT ![p].queue = Append(@, NoiseFrame)]
  /\ UNCHANGED <<progVars, sent, file, tail, pos, beats, harness, readError>>

Step(p) ==
  \/ ReadDirectory(p) \/ Prepare(p) \/ OpenFailed(p) \/ OpenSender(p) \/ OpenReceiver(p)
  \/ Generate(p) \/ PrintStage(p) \/ EndRound(p)
  \/ WritePart(p) \/ SendStage(p) \/ SendFails(p) \/ SendToNobody(p)
  \/ Receive(p) \/ ReceiveEof(p) \/ ReceiveTorn(p) \/ ReceiveFails(p) \/ Finish(p)

Next == (\E p \in Procs : ParseArgs(p) \/ Step(p) \/ Interrupt(p)) \/ HarnessGone \/ Noise

Spec == Init /\ [][Next]_vars

\* A system call returns: without an error, except where nothing else is
\* possible (a file that is not there, an empty frame, a torn record).
Returns(p) ==
  \/ ReadDirectory(p) \/ Prepare(p) \/ OpenFailed(p) \/ OpenSender(p) \/ OpenReceiver(p)
  \/ Generate(p) \/ PrintStage(p) \/ EndRound(p) \/ SendStage(p) \/ SendToNobody(p)
  \/ Kind(args[p]) = "raw" /\ SendFails(p)
  \/ Receive(p) \/ ReceiveEof(p) \/ ReceiveTorn(p) \/ Finish(p)

\* A process that is started and not blocked runs.
FairSpec == Spec /\ \A p \in Procs : WF_vars(Returns(p))
-----------------------------------------------------------------------------
(* Properties *)

IsPrefix(s, t) == Len(s) <= Len(t) /\ \A i \in 1 .. Len(s) : s[i] = t[i]

Frames == [round : Nat, stage : Nat, bytes : BOOLEAN]

Full == [round : Nat, stage : Nat, bytes : {TRUE}]

NonEmpty(packets) == Filter(packets, Full)

Earlier(x, y) == x.round < y.round \/ (x.round = y.round /\ x.stage < y.stage)

\* p got past its command line and generates.
Generates(p) == /\ pc[p] \notin {"start", "args", "parsed"} /\ ~args[p].decode
                /\ exit[p] \in {Running, 0, 1, 2}

Decodes(p) == pc[p] \notin {"start", "args", "parsed"} /\ args[p].decode

\* Every variable has its type; no loop runs past its count.
TypeOK ==
  /\ \A p \in Procs :
       /\ exit[p] \in {Running, 0, 1, 2, Interrupted, Aborted, BrokenPipe}
       /\ args[p].count \in Nat /\ stage[p] \in Nat \ {0} /\ pos[p] \in 0 .. Len(file.records)
       /\ round[p] \in Nat /\ (args[p].count # 0 => round[p] <= args[p].count)
       /\ sockets[p].open => exit[p] = Running
  /\ tail \in {"none", "header", "body"} /\ Len(beats) <= SocketCapacity /\ noise \in 0 .. MaxNoise

\* Exit code 0 of a generator: --count rounds are complete, every packet of
\* every stage is on standard output, and all of them went out, in that order,
\* if there is a transport; an endless stream never ends with 0.
SuccessMeansDone ==
  \A p \in Procs : Generates(p) /\ exit[p] = 0 =>
    /\ args[p].count # 0
    /\ Flat(out[p]) = Flat([r \in 1 .. args[p].count |->
                              [k \in DOMAIN Stages(args[p]) |->
                                 [round |-> r, stage |-> k, bytes |-> Stages(args[p])[k]]]])
    /\ Kind(args[p]) # "none" => sent[p] = Flat(out[p])

\* What is on the medium has been printed, in the same order, and printing is
\* never more than a round ahead, also when a send fails in the middle of a
\* chain.  (Not so for a process that is killed: lines die in its buffer.)
PrintedBeforeSent ==
  \A p \in Procs : Generates(p) =>
    /\ IsPrefix(sent[p], Flat(out[p]))
    /\ Kind(args[p]) # "none" => Len(Flat(out[p])) - Len(sent[p]) <= Len(Stages(args[p]))

\* A decoder prints the packets that were sent, whole, once each and in order,
\* and skips empty ones only: a prefix of them from a capture or the harness.
\* From a network, where frames are lost and others send, too, never one twice
\* or before an earlier one.
DecodesInOrder ==
  \A p \in Procs : Decodes(p) =>
    LET got == Filter(Flat(out[p]), Frames \ {NoiseFrame})
    IN  /\ Kind(args[p]) \in {"pcap", "verilator"} =>
             \E q \in Procs : IsPrefix(got, NonEmpty(sent[q]))
        /\ Kind(args[p]) = "raw" =>
             \A i, j \in DOMAIN got : i < j => Earlier(got[i], got[j])

\* p is done when its exit code becomes 0.
EndsDone(p) ==
  Decodes(p) /\ exit[p] = Running /\ exit'[p] = 0 =>
    \/ args[p].count # 0 /\ Len(out[p]) = args[p].count
    \/ /\ Kind(args[p]) = "pcap"
       /\ readError'[p] \/ (tail # "body" /\ Flat(out[p]) = NonEmpty(file.records))
    \/ Kind(args[p]) = "verilator" /\ harness = "gone"
    \/ Kind(args[p]) = "raw"

\* A decoder ends with 0 only once it has printed as many packets as asked
\* for, or at the end.  Of a capture it has then printed every packet, and no
\* body is torn or was not readable: those end it with 2.  (Only a failing
\* read of a record's header is taken for the end.)  At a harness' socket the
\* harness is gone.
DecodesAll == [][\A p \in Procs : EndsDone(p)]_vars

\* The documented promise of --transport: "Deliver each generated packet to the
\* named backend in addition to writing to standard output" (packet_gen.1).
Delivered ==
  \A p \in Procs : Generates(p) /\ exit[p] = 0 /\ args[p].transport \notin {"none", NoText} =>
    sent[p] = Flat(out[p])

\* A generator with a count ends, whatever fails, and so does the decoder of a
\* capture; on a harness' socket, where both may wait for the other side, they
\* end once the harness is gone.
ProcessesEnd ==
  \A p \in Procs :
    LET finite == pc[p] # "start" /\ args[p].count # 0
    IN  /\ (finite /\ (~args[p].decode \/ Kind(args[p]) = "pcap") /\ Kind(args[p]) # "verilator")
             ~> (exit[p] # Running)
        /\ (finite /\ Kind(args[p]) = "verilator" /\ harness = "gone") ~> (exit[p] # Running)
=============================================================================
