---------------------------- MODULE AxiTransport ----------------------------
(***************************************************************************)
(* The Verilator transport: VerilatorSender frames a packet into           *)
(* AxiStreamBeat structs and writes them to a UNIX stream socket,          *)
(* VerilatorReceiver reads such structs back into packets.                 *)
(*                                                                         *)
(* The sockets and the design under test between them are external: a      *)
(* harness that forwards the sender's bytes to the receiver unchanged, in  *)
(* pieces of any length, through a buffer of bounded size, and that may    *)
(* end at any moment.  The two ends run in processes of their own, so      *)
(* every write and every read is a step.  A call interrupted by a signal   *)
(* (EINTR) is repeated by the code and changes nothing: it is a stutter.   *)
(***************************************************************************)
EXTENDS Loops

CONSTANTS
  Packets,      \* the packets callers send: sequences of bytes
  TDATA_BYTES,  \* payload bytes of a beat; 8 in the code
  SockBuf,      \* bytes the sockets hold before write() blocks
  MaxSends,     \* bound: calls of send()
  KeepGoing     \* does the caller send on after SEND_FAILED?  sendAll and
                \* sendFiltered do; sendLoop and packet-gen stop

\* A byte is the set of the positions of its one bits.
Byte == SUBSET (0 .. 7)

\* tkeep, one byte, has a bit for every byte of the payload.
ASSUME TransportAssumption ==
  /\ \A p \in Packets : p \in Seq(Byte)
  /\ TDATA_BYTES \in 1 .. 8 /\ SockBuf \in Nat \ {0}
  /\ MaxSends \in Nat /\ KeepGoing \in BOOLEAN

VARIABLES
  tx,           \* the sender: "closed", "open", in a call of send ("sending"),
                \* or "killed" by a signal
  txResult,     \* what its last call returned
  packet, offset, out,  \* send's locals; the beat's bytes not yet written
  wire,         \* bytes written and not yet read
  txEof,        \* has the sender closed its connection?
  dut,          \* "up", or "down" once the harness has ended
  rx, rxResult, \* the receiver, likewise ("receiving" in receive)
  beat, rxPacket   \* receive's locals: the beat's bytes read so far, packet

\* History: packets that send reported sent and receive reported received (an
\* empty packet makes no beat and is not counted), and the calls of send.
VARIABLES sent, got, sends

txVars == <<tx, txResult, packet, offset, out, sent, sends>>
rxVars == <<rx, rxResult, beat, rxPacket, got>>
vars == <<txVars, wire, txEof, dut, rxVars>>

\* sizeof(AxiStreamBeat): the payload, tkeep and tlast.
BeatSize == TDATA_BYTES + 2

Least(a, b) == IF a <= b THEN a ELSE b

Init ==
  /\ tx = "closed" /\ txResult = "none" /\ packet = <<>> /\ offset = 0 /\ out = <<>>
  /\ wire = <<>> /\ txEof = FALSE /\ dut = "up"
  /\ rx = "closed" /\ rxResult = "none" /\ beat = <<>> /\ rxPacket = <<>>
  /\ sent = <<>> /\ got = <<>> /\ sends = 0
-----------------------------------------------------------------------------
(* VerilatorSender *)

ChunkSize(p, o) == Least(Len(p) - o, TDATA_BYTES)

\* Faulty variant: an off-by-one in tlast.
BeatBytesNeverLast(p, o) ==
  LET chunk == ChunkSize(p, o) IN
  [i \in 1 .. TDATA_BYTES |-> IF i <= chunk THEN p[o + i] ELSE {}]
    \o <<0 .. chunk - 1, IF o + chunk > Len(p) THEN {0} ELSE {}>>

\* The packed struct for offset o of packet p: tdata little-endian (its first
\* byte is the packet's), then tkeep, then tlast.
BeatBytes(p, o) ==
  LET chunk == ChunkSize(p, o) IN
  [i \in 1 .. TDATA_BYTES |-> IF i <= chunk THEN p[o + i] ELSE {}]
    \o <<0 .. chunk - 1, IF o + chunk >= Len(p) THEN {0} ELSE {}>>

\* connect() fails once the harness has ended, and it accepts one connection.
SenderOpen ==
  /\ tx = "closed"
  /\ \/ dut = "up" /\ ~txEof /\ tx' = "open" /\ txResult' = "SUCCESS"
     \/ (dut = "down" \/ txEof) /\ tx' = "closed" /\ txResult' = "OPEN_FAILED"
  /\ UNCHANGED <<packet, offset, out, sent, sends, wire, txEof, dut, rxVars>>

\* May the caller call send() again?
CallerGoesOn == sends < MaxSends /\ (KeepGoing \/ txResult # "SEND_FAILED")

\* send() up to its first write: the early returns and the first beat.
Send ==
  /\ tx \in {"closed", "open"} /\ CallerGoesOn
  /\ sends' = sends + 1
  /\ \E p \in Packets :
       \/ tx = "closed" /\ txResult' = "NOT_OPEN" /\ UNCHANGED <<tx, packet, offset, out>>
       \/ tx = "open" /\ p = <<>> /\ txResult' = "SUCCESS" /\ UNCHANGED <<tx, packet, offset, out>>
       \/ /\ tx = "open" /\ p # <<>>
          /\ tx' = "sending" /\ packet' = p /\ offset' = 0 /\ out' = BeatBytes(p, 0)
          /\ UNCHANGED txResult
  /\ UNCHANGED <<sent, wire, txEof, dut, rxVars>>

\* The beat is out: present the next one, or return.
BeatWritten ==
  LET next == offset + ChunkSize(packet, offset) IN
  /\ offset' = next
  /\ IF next < Len(packet)
       THEN out' = BeatBytes(packet, next) /\ UNCHANGED <<tx, txResult, sent>>
       ELSE /\ tx' = "open" /\ txResult' = "SUCCESS" /\ out' = <<>>
            /\ sent' = Append(sent, packet)

\* What writeAll's loop does after write() took n bytes of the beat.
AfterWrite(n) ==
  IF n = Len(out) THEN BeatWritten
  ELSE out' = SubSeq(out, n + 1, Len(out)) /\ UNCHANGED <<tx, txResult, offset, sent>>

\* write() takes a part of what is left of the beat, or all of it.
Write ==
  /\ tx = "sending" /\ dut = "up"
  /\ \E n \in 1 .. Least(Len(out), SockBuf - Len(wire)) :
       wire' = wire \o SubSeq(out, 1, n) /\ AfterWrite(n)
  /\ UNCHANGED <<packet, sends, txEof, dut, rxVars>>

\* write() fails (say, for want of memory): send() returns in mid-packet.
WriteError ==
  /\ tx = "sending" /\ dut = "up"
  /\ tx' = "open" /\ txResult' = "SEND_FAILED" /\ out' = <<>>
  /\ UNCHANGED <<packet, offset, sent, sends, wire, txEof, dut, rxVars>>

\* write() to a connection whose other end is gone raises SIGPIPE, which
\* nothing in the program ignores or handles.
WriteToNobody ==
  /\ tx = "sending" /\ dut = "down"
  /\ tx' = "killed"
  /\ UNCHANGED <<txResult, packet, offset, out, sent, sends, wire, txEof, dut, rxVars>>

SenderClose ==
  /\ tx = "open" /\ tx' = "closed" /\ txEof' = TRUE
  /\ UNCHANGED <<txResult, packet, offset, out, sent, sends, wire, dut, rxVars>>
-----------------------------------------------------------------------------
(* VerilatorReceiver, called until a call does not return SUCCESS *)

\* connect() is attempted once.
ReceiverOpen ==
  /\ rx = "closed" /\ rxResult = "none"
  /\ \/ dut = "up" /\ rx' = "open" /\ rxResult' = "SUCCESS"
     \/ dut = "down" /\ rx' = "closed" /\ rxResult' = "OPEN_FAILED"
  /\ UNCHANGED <<txVars, wire, txEof, dut, beat, rxPacket, got>>

Receive ==
  /\ rx = "open" /\ rxResult = "SUCCESS"
  /\ rx' = "receiving" /\ rxPacket' = <<>> /\ beat' = <<>>
  /\ UNCHANGED <<txVars, wire, txEof, dut, rxResult, got>>

\* The payload bytes of beat b that tkeep keeps, in order.
Kept(b) ==
  LET lanes == Filter([i \in 1 .. TDATA_BYTES |-> i],
                      {i \in 1 .. TDATA_BYTES : i - 1 \in b[TDATA_BYTES + 1]})
  IN  [k \in 1 .. Len(lanes) |-> b[lanes[k]]]

Last(b) == b[TDATA_BYTES + 2] # {}

\* Faulty variant: the beat is declared outside the loop and kept.
TakeBeatNoReset(b) ==
  /\ beat' = b /\ rxPacket' = rxPacket \o Kept(b)
  /\ IF Last(b)
       THEN rx' = "open" /\ got' = Append(got, rxPacket \o Kept(b))
       ELSE UNCHANGED <<rx, got>>

\* What receive does with the whole beat b.
TakeBeat(b) ==
  /\ beat' = <<>> /\ rxPacket' = rxPacket \o Kept(b)
  /\ IF Last(b)
       THEN rx' = "open" /\ got' = Append(got, rxPacket \o Kept(b))
       ELSE UNCHANGED <<rx, got>>

\* Faulty variant: one read() is taken to fill the struct.
AfterReadShort(b) == TakeBeat(b \o [i \in 1 .. BeatSize - Len(b) |-> {}])

\* readAll's loop after read(): go on until the struct is complete.
AfterRead(b) ==
  IF Len(b) = BeatSize THEN TakeBeat(b)
  ELSE beat' = b /\ UNCHANGED <<rx, rxPacket, got>>

Read ==
  /\ rx = "receiving" /\ wire # <<>>
  /\ \E n \in 1 .. Least(Len(wire), BeatSize - Len(beat)) :
       /\ wire' = SubSeq(wire, n + 1, Len(wire))
       /\ AfterRead(beat \o SubSeq(wire, 1, n))
  /\ UNCHANGED <<txVars, txEof, dut, rxResult>>

\* Faulty variant: read() returning 0 is retried like EINTR.
ReadEofRetried ==
  /\ rx = "receiving" /\ wire = <<>> /\ (txEof \/ dut = "down")
  /\ UNCHANGED vars

\* read() returns 0: the stream ended, between packets or inside one.
ReadEof ==
  /\ rx = "receiving" /\ wire = <<>> /\ (txEof \/ dut = "down")
  /\ rx' = "open" /\ rxResult' = "EOF"
  /\ UNCHANGED <<txVars, wire, txEof, dut, beat, rxPacket, got>>

ReadError ==
  /\ rx = "receiving"
  /\ rx' = "open" /\ rxResult' = "RECV_FAILED"
  /\ UNCHANGED <<txVars, wire, txEof, dut, beat, rxPacket, got>>

ReceiverClose ==
  /\ rx = "open" /\ rxResult # "SUCCESS" /\ rx' = "closed"
  /\ UNCHANGED <<txVars, wire, txEof, dut, rxResult, beat, rxPacket, got>>
-----------------------------------------------------------------------------
(* The harness (external) *)

\* It ends: bytes it has not forwarded are gone.
DutGone ==
  /\ dut = "up" /\ dut' = "down"
  /\ \E n \in 0 .. Len(wire) : wire' = SubSeq(wire, 1, n)
  /\ UNCHANGED <<txVars, txEof, rxVars>>

SenderStep == SenderOpen \/ Send \/ Write \/ WriteError \/ WriteToNobody \/ SenderClose

ReceiverStep == ReceiverOpen \/ Receive \/ Read \/ ReadEof \/ ReadError \/ ReceiverClose

Next == SenderStep \/ ReceiverStep \/ DutGone

Spec == Init /\ [][Next]_vars

(***************************************************************************)
(* Both processes run, so a call in progress takes its next step when the  *)
(* socket lets it; the receiver is started and calls receive again after   *)
(* each packet.  No caller has to send, no error has to happen.            *)
(***************************************************************************)
Fairness ==
  /\ WF_vars(Write) /\ WF_vars(WriteToNobody)
  /\ WF_vars(ReceiverOpen) /\ WF_vars(Receive) /\ WF_vars(Read) /\ WF_vars(ReadEof)

FairSpec == Spec /\ Fairness
-----------------------------------------------------------------------------
(* Properties *)

IsBytes(s) == \A i \in DOMAIN s : s[i] \in Byte

\* Every variable has its type; a call in progress has bytes of its beat left
\* to write, or less than a beat read (writeAll and readAll return otherwise).
TypeOK ==
  /\ tx \in {"closed", "open", "sending", "killed"}
  /\ txResult \in {"none", "SUCCESS", "OPEN_FAILED", "NOT_OPEN", "SEND_FAILED"}
  /\ packet \in Packets \cup {<<>>} /\ offset \in 0 .. Len(packet)
  /\ Len(out) \in IF tx \in {"sending", "killed"} THEN 1 .. BeatSize ELSE {0}
  /\ IsBytes(out) /\ IsBytes(wire) /\ Len(wire) <= SockBuf
  /\ txEof \in BOOLEAN /\ dut \in {"up", "down"}
  /\ rx \in {"closed", "open", "receiving"}
  /\ rxResult \in {"none", "SUCCESS", "OPEN_FAILED", "EOF", "RECV_FAILED"}
  /\ Len(beat) < BeatSize /\ IsBytes(beat) /\ IsBytes(rxPacket)
  /\ sends \in 0 .. MaxSends

Chan == INSTANCE PacketChannel WITH Packet <- Packets

\* However write() and read() split the beats, receive() reports exactly the
\* packets that send() reported, whole, once each and in order; a packet torn
\* by a failed write, by the harness ending or by EOF inside it is never
\* reported.
Channel == Chan!Spec

\* A reported packet arrives before receive() reports the end of the stream:
\* EOF never overtakes data, and only a failed read or a harness that ended
\* loses a packet.
SentArrives ==
  \A n \in 1 .. MaxSends :
    (Len(sent) >= n) ~> (Len(got) >= n \/ dut = "down" \/ rxResult = "RECV_FAILED")

\* A call of receive() does not outlive the stream: it returns once the sender
\* closed its side or the harness ended.
ReceiveReturns ==
  (rx = "receiving" /\ (txEof \/ dut = "down")) ~> rx # "receiving"

\* "reassembles them into a complete packet byte buffer": every packet that
\* receive() reports was sent (verilator_receiver.h).
ReceivesCompletePackets ==
  \A i \in DOMAIN got : \E j \in DOMAIN sent : got[i] = sent[j]
=============================================================================
