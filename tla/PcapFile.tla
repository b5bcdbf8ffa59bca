------------------------------ MODULE PcapFile ------------------------------
(***************************************************************************)
(* The pcap transport: PcapSender writes a capture file and PcapReceiver   *)
(* replays one, possibly while the file is still being written, and        *)
(* possibly a capture that another program wrote in the other byte order.  *)
(*                                                                         *)
(* The file is a sequence of bytes.  Of the headers only what the reader   *)
(* looks at is kept: the magic number and a record's incl_len, each as a   *)
(* number of two digits (bytes) in the writer's order.  The file system is *)
(* external: a write takes any part of what is offered or fails (which     *)
(* PcapSender does not tell from an interrupted write), a read returns any *)
(* part of what is there.                                                  *)
(***************************************************************************)
EXTENDS Integers, Sequences

CONSTANTS
  Packets,        \* the packets callers send: sequences of bytes
  Base,           \* one more than the largest digit
  ForeignPackets, \* the packets of the capture that is there at first
  MaxSends,       \* bound: calls of PcapSender::send
  MaxWriterOpens, MaxReaderOpens   \* bounds: calls of open on either end

ASSUME PcapAssumption ==
  /\ Base \in Nat \ {0, 1} /\ ForeignPackets \in Seq(Packets)
  /\ \A p \in Packets : p \in Seq(Nat) /\ Len(p) < Base
  /\ MaxSends \in Nat /\ MaxWriterOpens \in Nat /\ MaxReaderOpens \in Nat

VARIABLES
  file,
  wr, wrResult,   \* the sender: "closed", "open", writing the global header
                  \* ("opening") or a record ("sending"); its last result
  out, packet,    \* the bytes not yet written; send's argument
  rd, rdResult,   \* the receiver, likewise ("opening", "header", "body")
  pos, buf,       \* its file position; the bytes read so far by readAll
  mSwap, inclLen

\* History: the packets the file holds whole, those receive returned since its
\* open, the file's contents the reader opened, and numbers of calls.
VARIABLES sent, got, epoch, rdEpoch, sends, wrOpens, rdOpens

wrVars == <<wr, wrResult, out, packet, sent, epoch, sends, wrOpens>>
rdVars == <<rd, rdResult, pos, buf, mSwap, inclLen, got, rdEpoch, rdOpens>>
vars == <<file, wrVars, rdVars>>

Least(a, b) == IF a <= b THEN a ELSE b

\* A number below Base in the native order, and swap32.
Native(n) == <<n, 0>>

Swap(d) == <<d[2], d[1]>>

ValueOf(d) == d[1] + Base * d[2]

Magic == <<1, 0>>

Record(p) == Native(Len(p)) \o p

ForeignFile ==
  LET at[k \in 0 .. Len(ForeignPackets)] ==
        IF k = 0 THEN Swap(Magic)
        ELSE at[k - 1] \o Swap(Native(Len(ForeignPackets[k]))) \o ForeignPackets[k]
  IN  at[Len(ForeignPackets)]

Init ==
  /\ file = ForeignFile /\ sent = ForeignPackets /\ epoch = 0
  /\ wr = "closed" /\ wrResult = "none" /\ out = <<>> /\ packet = <<>>
  /\ rd = "closed" /\ rdResult = "none" /\ pos = 0 /\ buf = <<>>
  /\ mSwap = FALSE /\ inclLen = 0 /\ got = <<>> /\ rdEpoch = 0
  /\ sends = 0 /\ wrOpens = 0 /\ rdOpens = 0
-----------------------------------------------------------------------------
(* PcapSender *)

\* open() truncates the file and starts on the global header, or fails.
WriterOpen ==
  /\ wr = "closed" /\ wrOpens < MaxWriterOpens /\ wrOpens' = wrOpens + 1
  /\ \/ /\ file' = <<>> /\ sent' = <<>> /\ epoch' = epoch + 1
        /\ wr' = "opening" /\ out' = Magic /\ UNCHANGED wrResult
     \/ wrResult' = "OPEN_FAILED" /\ UNCHANGED <<file, sent, epoch, wr, out>>
  /\ UNCHANGED <<packet, sends, rdVars>>

\* packet-gen and sendLoop send nothing after a failure.
Send ==
  /\ sends < MaxSends /\ wrResult # "SEND_FAILED"
  /\ sends' = sends + 1
  /\ \/ wr = "closed" /\ wrResult' = "NOT_OPEN" /\ UNCHANGED <<wr, out, packet>>
     \/ /\ wr = "open" /\ wr' = "sending"
        /\ \E p \in Packets : packet' = p /\ out' = Record(p)
        /\ UNCHANGED wrResult
  /\ UNCHANGED <<file, sent, epoch, wrOpens, rdVars>>

\* What follows a write() that leaves "rest" of the header or record to write.
AfterWrite(rest) ==
  /\ out' = rest
  /\ IF rest # <<>> THEN UNCHANGED <<wr, wrResult, sent>>
     ELSE /\ wr' = "open" /\ wrResult' = "SUCCESS"
          /\ sent' = IF wr = "sending" THEN Append(sent, packet) ELSE sent

Write ==
  /\ wr \in {"opening", "sending"}
  /\ \E n \in 1 .. Len(out) :
       file' = file \o SubSeq(out, 1, n) /\ AfterWrite(SubSeq(out, n + 1, Len(out)))
  /\ UNCHANGED <<packet, epoch, sends, wrOpens, rdVars>>

\* write() fails: open() closes the file again, send() leaves a torn record.
WriteError ==
  /\ \/ wr = "opening" /\ wr' = "closed" /\ wrResult' = "OPEN_FAILED"
     \/ wr = "sending" /\ wr' = "open" /\ wrResult' = "SEND_FAILED"
  /\ out' = <<>>
  /\ UNCHANGED <<file, packet, sent, epoch, sends, wrOpens, rdVars>>

WriterClose ==
  /\ wr = "open" /\ wr' = "closed"
  /\ UNCHANGED <<file, wrResult, out, packet, sent, epoch, sends, wrOpens, rdVars>>
-----------------------------------------------------------------------------
(* PcapReceiver *)

ReaderOpen ==
  /\ rd = "closed" /\ rdOpens < MaxReaderOpens /\ rdOpens' = rdOpens + 1
  /\ \/ /\ rd' = "opening" /\ pos' = 0 /\ buf' = <<>> /\ got' = <<>> /\ rdEpoch' = epoch
        /\ UNCHANGED rdResult
     \/ rdResult' = "OPEN_FAILED" /\ UNCHANGED <<rd, pos, buf, got, rdEpoch>>
  /\ UNCHANGED <<file, wrVars, mSwap, inclLen>>

\* receive() is called until it does not return SUCCESS.
Receive ==
  /\ rd = "open" /\ rdResult = "SUCCESS"
  /\ rd' = "header" /\ buf' = <<>>
  /\ UNCHANGED <<file, wrVars, rdResult, pos, mSwap, inclLen, got, rdEpoch, rdOpens>>

\* The number of bytes the readAll in progress wants.
Wanted == IF rd = "body" THEN inclLen ELSE 2

\* The global header is there.  Only a swapped magic number sets mSwap.
TakeGlobalHeader(b) ==
  /\ IF b \in {Magic, Swap(Magic)} THEN rd' = "open" /\ rdResult' = "SUCCESS"
                                   ELSE rd' = "closed" /\ rdResult' = "OPEN_FAILED"
  /\ mSwap' = (mSwap \/ b = Swap(Magic))
  /\ UNCHANGED <<inclLen, got>>

\* Faulty variant: the byte order is ignored.
RecordLengthUnswapped(b) == ValueOf(b)

RecordLength(b) == IF mSwap THEN ValueOf(Swap(b)) ELSE ValueOf(b)

\* Faulty variant: no special case for a record of length 0.
TakeRecordHeaderAlwaysBody(b) ==
  /\ inclLen' = RecordLength(b) /\ rd' = "body"
  /\ UNCHANGED <<rdResult, mSwap, got>>

\* Faulty variant: a record of length 0 ends the replay.
TakeRecordHeaderZeroEnds(b) ==
  /\ inclLen' = RecordLength(b)
  /\ IF inclLen' = 0 THEN rd' = "open" /\ rdResult' = "EOF"
                     ELSE rd' = "body" /\ UNCHANGED rdResult
  /\ UNCHANGED <<mSwap, got>>

TakeRecordHeader(b) ==
  /\ inclLen' = RecordLength(b)
  /\ IF inclLen' = 0 THEN rd' = "open" /\ got' = Append(got, <<>>)
                     ELSE rd' = "body" /\ UNCHANGED got
  /\ UNCHANGED <<rdResult, mSwap>>

TakeBody(b) ==
  /\ rd' = "open" /\ got' = Append(got, b)
  /\ UNCHANGED <<rdResult, mSwap, inclLen>>

\* read() returned bytes that make b of what readAll wants.
AfterRead(b) ==
  IF Len(b) < Wanted THEN buf' = b /\ UNCHANGED <<rd, rdResult, mSwap, inclLen, got>>
  ELSE /\ buf' = <<>>
       /\ \/ rd = "opening" /\ TakeGlobalHeader(b)
          \/ rd = "header" /\ TakeRecordHeader(b)
          \/ rd = "body" /\ TakeBody(b)

Read ==
  /\ rd \in {"opening", "header", "body"} /\ pos < Len(file)
  /\ \E n \in 1 .. Least(Len(file) - pos, Wanted - Len(buf)) :
       pos' = pos + n /\ AfterRead(buf \o SubSeq(file, pos + 1, pos + n))
  /\ UNCHANGED <<file, wrVars, rdEpoch, rdOpens>>

\* What open() and receive() return when readAll fails: it does not say whether
\* the file ended or the read went wrong.
ReadFailed ==
  /\ \/ rd = "opening" /\ rd' = "closed" /\ rdResult' = "OPEN_FAILED"
     \/ rd = "header" /\ rd' = "open" /\ rdResult' = "EOF"
     \/ rd = "body" /\ rd' = "open" /\ rdResult' = "RECV_FAILED"
  /\ buf' = <<>>
  /\ UNCHANGED <<file, wrVars, pos, mSwap, inclLen, got, rdEpoch, rdOpens>>

\* read() returns 0: the reader is at, or past, what the file holds now.
ReadEnd == pos >= Len(file) /\ ReadFailed

ReadError == pos < Len(file) /\ ReadFailed

\* packet-gen closes the receiver when receive() did not return SUCCESS, or
\* when it has decoded as many packets as were asked for.
ReaderClose ==
  /\ rd = "open" /\ rd' = "closed"
  /\ UNCHANGED <<file, wrVars, rdResult, pos, buf, mSwap, inclLen, got, rdEpoch, rdOpens>>

WriterStep == WriterOpen \/ Send \/ Write \/ WriteError \/ WriterClose

ReaderStep == ReaderOpen \/ Receive \/ Read \/ ReadEnd \/ ReadError \/ ReaderClose

Next == WriterStep \/ ReaderStep

Spec == Init /\ [][Next]_vars
-----------------------------------------------------------------------------
(* Properties *)

\* Every variable has its type; a loop of writeAll or readAll in progress has
\* something left to do.
TypeOK ==
  /\ wr \in {"closed", "opening", "open", "sending"}
  /\ rd \in {"closed", "opening", "open", "header", "body"}
  /\ wrResult \in {"none", "SUCCESS", "NOT_OPEN", "OPEN_FAILED", "SEND_FAILED"}
  /\ rdResult \in {"none", "SUCCESS", "OPEN_FAILED", "EOF", "RECV_FAILED"}
  /\ out = <<>> <=> wr \in {"closed", "open"}
  /\ rd \in {"opening", "header", "body"} => Len(buf) < Wanted
  /\ mSwap \in BOOLEAN /\ inclLen \in Nat /\ pos \in Nat
  /\ packet \in Packets \cup {<<>>} /\ sent \in Seq(Packets)

\* The reader is on the contents it opened: no writer has truncated the file.
SameFile == rdEpoch = epoch

\* "returns one packet per receive() call in file order": whatever the byte
\* order of the capture, and however far a concurrent writer has got, receive
\* returns the file's whole packets in order and never a torn one.
ReplaysInOrder ==
  SameFile => Len(got) <= Len(sent) /\ got = SubSeq(sent, 1, Len(got))

\* receive() ends a replay.
Ends == rdResult # "EOF" /\ rdResult' = "EOF"

\* "Returns RECEIVER_ERR_EOF when all packets are consumed": EOF at the end of
\* the file means that every packet it holds whole was returned, even when a
\* writer is in the middle of one more.
ConsumedAtEof == Ends /\ pos' >= Len(file) /\ SameFile => got' = sent

EofMeansConsumed == [][ConsumedAtEof]_vars
=============================================================================
