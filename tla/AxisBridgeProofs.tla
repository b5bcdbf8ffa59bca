-------------------------- MODULE AxisBridgeProofs --------------------------
(***************************************************************************)
(* AxisBridge is correct for every packet set, beat width, FIFO depth and  *)
(* bound: its type invariant, the AXI-Stream rule that a beat is held      *)
(* until TREADY, and that both directions implement PacketChannel.         *)
(*                                                                         *)
(* The invariant places every packet.  Toward the DUT, the packets that    *)
(* Send accepted (the empty ones apart) are, in order, those the DUT has   *)
(* completed, the one tx_thread is presenting and those in the FIFO; the   *)
(* DUT holds the first offset bytes of the one being presented, and the    *)
(* ports show its beat at offset.  From the DUT, the packets it sent are   *)
(* those that ns-3 got or lost, those scheduled and the one rx_thread has  *)
(* completed but not handed on; what the DUT has sent of the next packet   *)
(* is what rx_thread has collected of it.                                  *)
(***************************************************************************)
EXTENDS AxisBridge, SequenceLemmas

\* The bytes that the DUT may send.
Byte == 1 .. AXIS_TDATA_BYTES * MaxDutBeats

\* The states of the ports.
Beat == [valid : BOOLEAN, data : [Lanes -> Nat], keep : SUBSET Lanes, last : BOOLEAN]

\* The transmit side's state: what it shows while it waits for TREADY.
TxTypes ==
  /\ Len(fifo) + nread + Len(written) <= FifoDepth
  /\ fifo \in Seq(TxPackets) /\ written \in Seq(TxPackets) /\ nread \in 0 .. 1
  /\ txpc \in {"read", "beat", "idle"} /\ packet \in TxPackets \cup {<<>>}
  /\ offset \in 0 .. Len(packet) /\ m \in Beat
  /\ accepted \in Seq(TxPackets)
  /\ txpc = "read" => nread = 0
  /\ txpc = "beat" => packet \in TxPackets /\ offset < Len(packet) /\ m = BeatAt(packet, offset)
  /\ m.valid => txpc = "beat"

\* The state of the environment.
EnvTypes ==
  /\ m_tready \in BOOLEAN /\ callback \in BOOLEAN /\ load \in Loads
  /\ sends \in 0 .. MaxSends

\* The packet tx_thread is presenting, if any.
InFlight == IF txpc = "beat" THEN <<packet>> ELSE <<>>

\* Where the accepted packets are.
TxInv ==
  /\ dutGot \in Seq(TxPackets)
  /\ dutPart = IF txpc = "beat" THEN SubSeq(packet, 1, offset) ELSE <<>>
  /\ NonEmpty(accepted) = dutGot \o InFlight \o NonEmpty(fifo \o written)

\* The receive side's state.
RxTypes ==
  /\ s \in Beat /\ (s.valid => s.data \in [Lanes -> Byte])
  /\ rxLast \in BOOLEAN /\ dutBeats \in 0 .. MaxDutBeats
  /\ rxPacket \in Seq(Byte)
  /\ events \in Seq(Seq(Byte)) /\ lost \in Seq(Seq(Byte)) /\ delivered \in Seq(Seq(Byte))

\* Where the packets of the DUT are.
RxInv ==
  /\ dutOut = IF rxLast THEN <<>> ELSE rxPacket
  /\ ~callback => delivered = <<>>
  /\ dutSent = (lost \o delivered) \o events \o (IF rxLast THEN <<rxPacket>> ELSE <<>>)

\* The inductive invariant.
IInv == TxTypes /\ EnvTypes /\ TxInv /\ RxTypes /\ RxInv
-----------------------------------------------------------------------------
\* The number of bytes of the beat of packet p at offset o.
ChunkAt(p, o) == IF Len(p) - o >= AXIS_TDATA_BYTES THEN AXIS_TDATA_BYTES ELSE Len(p) - o

\* The kept bytes of a beat are bytes of the beat.
LEMMA KeptBytesType ==
  ASSUME NEW B, NEW b, b.data \in [Lanes -> B]
  PROVE  KeptBytes(b) \in Seq(B)
<1> DEFINE q == [i \in Lanes |-> i]
           kept == Filter(q, b.keep)
<1>1. q \in Seq(Lanes)
  BY BridgeAssumption DEF Lanes
<1>2. kept \in Seq(Lanes)
  <2> HIDE DEF q
  <2> QED
    BY <1>1, FilterType
<1>3. KeptBytes(b) = [k \in 1 .. Len(kept) |-> b.data[kept[k]]]
  BY DEF KeptBytes
<1> HIDE DEF kept
<1>4. Len(kept) \in Nat /\ \A k \in 1 .. Len(kept) : kept[k] \in Lanes
  BY <1>2
<1>5. \A k \in 1 .. Len(kept) : b.data[kept[k]] \in B
  BY <1>4
<1> QED
  BY <1>3, <1>4, <1>5

\* A beat carries the packet's next bytes, at least one, and TLAST exactly when
\* they are its last.
LEMMA BeatAtFields ==
  ASSUME NEW p \in Seq(Nat), NEW o \in 0 .. Len(p), o < Len(p)
  PROVE  /\ BeatAt(p, o) \in Beat /\ BeatAt(p, o).valid
         /\ ChunkAt(p, o) \in 1 .. AXIS_TDATA_BYTES /\ o + ChunkAt(p, o) \in 1 .. Len(p)
         /\ BeatAt(p, o).last <=> o + ChunkAt(p, o) = Len(p)
         /\ KeptBytes(BeatAt(p, o)) = SubSeq(p, o + 1, o + ChunkAt(p, o))
<1> DEFINE c == ChunkAt(p, o)
           N == AXIS_TDATA_BYTES
           data == [i \in Lanes |-> IF i <= c THEN p[o + i] ELSE 0]
           b == BeatAt(p, o)
<1>1. N \in Nat \ {0} /\ Lanes = 1 .. N /\ Len(p) \in Nat
  BY BridgeAssumption DEF Lanes
<1>2. c \in 1 .. N /\ o + c \in 1 .. Len(p) /\ c \in 0 .. N
  BY <1>1 DEF ChunkAt
<1>3. b = [valid |-> TRUE, data |-> data, keep |-> 1 .. c, last |-> o + c >= Len(p)]
  BY DEF BeatAt, ChunkAt
<1> HIDE DEF c, b
<1>4. data \in [Lanes -> Nat]
  <2>1. \A i \in Lanes : i <= c => p[o + i] \in Nat
    BY <1>1, <1>2
  <2> QED
    BY <1>1, <2>1
<1>5. b.valid = TRUE /\ b.data = data /\ b.keep = 1 .. c /\ b.last = (o + c >= Len(p))
  BY <1>3
<1>6. b \in Beat
  <2>1. 1 .. c \subseteq Lanes
    BY <1>1, <1>2
  <2>2. (o + c >= Len(p)) \in BOOLEAN
    BY <1>1, <1>2
  <2> QED
    BY <1>3, <1>4, <2>1, <2>2 DEF Beat
<1>7. b.last <=> o + c = Len(p)
  <2>1. (o + c >= Len(p)) = (o + c = Len(p))
    BY <1>1, <1>2
  <2>2. b.last = (o + c = Len(p))
    BY <1>5, <2>1, Zenon
  <2> QED
    BY <2>2, Zenon
<1>8. KeptBytes(b) = SubSeq(p, o + 1, o + c)
  <2> DEFINE kept == Filter([i \in Lanes |-> i], b.keep)
  <2>1. kept = [i \in 1 .. c |-> i]
    BY <1>1, <1>2, <1>5, FilterInterval
  <2>2. KeptBytes(b) = [k \in 1 .. Len(kept) |-> b.data[kept[k]]]
    BY DEF KeptBytes
  <2> HIDE DEF kept
  <2>3. Len(kept) = c /\ \A k \in 1 .. c : kept[k] = k
    BY <1>2, <2>1
  <2>4. KeptBytes(b) = [k \in 1 .. c |-> b.data[kept[k]]]
    BY <2>2, <2>3
  <2>5. \A k \in 1 .. c : b.data[kept[k]] = p[o + k]
    BY <1>1, <1>2, <1>5, <2>3
  <2>6. KeptBytes(b) = [k \in 1 .. c |-> p[o + k]]
    BY <2>4, <2>5
  <2>7. /\ [k \in 1 .. c |-> p[o + k]] \in Seq(Nat) /\ SubSeq(p, o + 1, o + c) \in Seq(Nat)
        /\ Len([k \in 1 .. c |-> p[o + k]]) = c /\ Len(SubSeq(p, o + 1, o + c)) = c
    BY <1>1, <1>2
  <2>8. \A k \in 1 .. c : [i \in 1 .. c |-> p[o + i]][k] = SubSeq(p, o + 1, o + c)[k]
    BY <1>1, <1>2
  <2> QED
    BY <2>6, <2>7, <2>8, SeqEqual
<1> QED
  BY <1>2, <1>5, <1>6, <1>7, <1>8 DEF c, b

\* A beat extends the part of the packet received before it.
LEMMA PartAfterBeat ==
  ASSUME NEW p \in Seq(Nat), NEW o \in 0 .. Len(p), o < Len(p)
  PROVE  SubSeq(p, 1, o) \o KeptBytes(BeatAt(p, o)) = SubSeq(p, 1, o + ChunkAt(p, o))
<1> DEFINE c == ChunkAt(p, o)
           e == o + c
<1>1. c \in Nat /\ e \in 1 .. Len(p) /\ KeptBytes(BeatAt(p, o)) = SubSeq(p, o + 1, e)
      /\ Len(p) \in Nat /\ e = o + c /\ e >= o
  BY BridgeAssumption, BeatAtFields
<1> HIDE DEF c, e
<1>2. SubSeq(p, 1, o) \o SubSeq(p, o + 1, e) = SubSeq(p, 1, e)
  <2> DEFINE u == SubSeq(p, 1, o) \o SubSeq(p, o + 1, e)
             v == SubSeq(p, 1, e)
  <2>1. u \in Seq(Nat) /\ v \in Seq(Nat) /\ Len(u) = e /\ Len(v) = e
    BY <1>1
  <2>2. \A i \in 1 .. e : u[i] = v[i]
    BY <1>1
  <2> HIDE DEF u, v
  <2>3. u = v
    BY <2>1, <2>2, SeqEqual
  <2> QED
    BY <2>3 DEF u, v
<1> QED
  BY <1>1, <1>2 DEF c, e
-----------------------------------------------------------------------------
\* The non-empty packets of a sequence are packets.
LEMMA NonEmptyType ==
  ASSUME NEW ps \in Seq(TxPackets)
  PROVE  NonEmpty(ps) \in Seq(TxPackets)
BY FilterType DEF NonEmpty

\* A packet more is a non-empty packet more, or none.
LEMMA NonEmptyAppend ==
  ASSUME NEW ps \in Seq(TxPackets), NEW p \in TxPackets
  PROVE  NonEmpty(Append(ps, p)) = AppendIf(NonEmpty(ps), p, TxPackets \ {<<>>})
BY FilterAppend DEF NonEmpty

\* Taking the first packet of the FIFO takes the first non-empty one, or none.
LEMMA NonEmptyTake ==
  ASSUME NEW f \in Seq(TxPackets), f # <<>>, NEW w \in Seq(TxPackets)
  PROVE  NonEmpty(f \o w) = IF Len(Head(f)) > 0 THEN <<Head(f)>> \o NonEmpty(Tail(f) \o w)
                            ELSE NonEmpty(Tail(f) \o w)
<1> DEFINE q == f \o w
           r == Tail(f) \o w
           T == TxPackets \ {<<>>}
<1>1. /\ q \in Seq(TxPackets) /\ r \in Seq(TxPackets) /\ Len(f) \in Nat \ {0}
      /\ Tail(f) \in Seq(TxPackets) /\ Head(f) \in TxPackets
  OBVIOUS
<1>2. q # <<>> /\ Head(q) = Head(f)
  BY <1>1
<1>3. Tail(q) = r
  <2>1. Tail(q) \in Seq(TxPackets) /\ Len(Tail(q)) = Len(r)
    BY <1>1, <1>2
  <2>2. \A i \in 1 .. Len(r) : Tail(q)[i] = r[i]
    BY <1>1, <1>2
  <2> QED
    BY <1>1, <2>1, <2>2, SeqEqual
<1>4. Head(f) \in T <=> Len(Head(f)) > 0
  BY <1>1, BridgeAssumption
<1> HIDE DEF q, r
<1>5. Filter(q, T) = IF Head(q) \in T THEN <<Head(q)>> \o Filter(Tail(q), T)
                     ELSE Filter(Tail(q), T)
  <2> HIDE DEF T
  <2> QED
    BY <1>1, <1>2, FilterCons
<1> QED
  BY <1>2, <1>3, <1>4, <1>5 DEF NonEmpty, q, r

\* StartPacket moves the first packet of the FIFO onto the ports.
LEMMA StartPacketTx ==
  ASSUME TxTypes, TxInv, fifo # <<>>, txpc # "beat", nread = 0,
         StartPacket, UNCHANGED <<accepted, dutGot, dutPart>>
  PROVE  TxTypes' /\ TxInv'
<1> DEFINE h == Head(fifo)
<1>1. h \in TxPackets /\ h \in Seq(Nat) /\ Len(h) \in Nat /\ Tail(fifo) \in Seq(TxPackets)
      /\ Len(Tail(fifo)) = Len(fifo) - 1 /\ Len(fifo) \in Nat /\ Len(written) \in Nat
  BY BridgeAssumption DEF TxTypes
<1>2. /\ packet' = h /\ offset' = 0 /\ fifo' = Tail(fifo) /\ nread' = 1 /\ written' = written
      /\ dutGot' = dutGot /\ dutPart' = <<>> /\ accepted' = accepted
  BY DEF StartPacket, TxInv
<1>3. NonEmpty(accepted) = (dutGot \o <<>>) \o NonEmpty(fifo \o written)
  BY DEF TxInv, InFlight
<1>4. Len(fifo') + nread' + Len(written') <= FifoDepth
  BY <1>1, <1>2, BridgeAssumption DEF TxTypes
<1>5. dutGot \in Seq(TxPackets) /\ NonEmpty(Tail(fifo) \o written) \in Seq(TxPackets)
  <2>1. Tail(fifo) \o written \in Seq(TxPackets)
    BY <1>1 DEF TxTypes
  <2> QED
    BY <2>1, NonEmptyType DEF TxInv
<1>6. CASE Len(h) > 0
  <2>1. m' = BeatAt(h, 0) /\ txpc' = "beat"
    BY <1>6 DEF StartPacket
  <2>2. BeatAt(h, 0) \in Beat
    BY <1>1, <1>6, BeatAtFields
  <2>3. TxTypes'
    BY <1>1, <1>2, <1>4, <1>6, <2>1, <2>2 DEF TxTypes
  <2>4. dutPart' = SubSeq(packet', 1, offset')
    BY <1>1, <1>2
  <2>5. NonEmpty(fifo \o written) = <<h>> \o NonEmpty(Tail(fifo) \o written)
    BY <1>6, NonEmptyTake DEF TxTypes
  <2>6. NonEmpty(accepted) = (dutGot \o <<h>>) \o NonEmpty(Tail(fifo) \o written)
    <3> DEFINE r == NonEmpty(Tail(fifo) \o written)
    <3>1. h \in TxPackets /\ r \in Seq(TxPackets) /\ dutGot \in Seq(TxPackets)
      BY <1>1, <1>5
    <3>2. NonEmpty(accepted) = (dutGot \o <<>>) \o (<<h>> \o r)
      BY <1>3, <2>5
    <3> HIDE DEF h, r
    <3>3. (dutGot \o <<>>) \o (<<h>> \o r) = (dutGot \o <<h>>) \o r
      BY <3>1, EnterFlight
    <3>4. NonEmpty(accepted) = (dutGot \o <<h>>) \o r
      BY <3>2, <3>3, Zenon
    <3> QED
      BY <3>4 DEF r
  <2> QED
    BY <1>2, <1>5, <2>1, <2>3, <2>4, <2>6 DEF TxInv, InFlight
<1>7. CASE ~(Len(h) > 0)
  <2>1. m' = [m EXCEPT !.valid = FALSE, !.last = FALSE] /\ txpc' = "idle"
    BY <1>7 DEF StartPacket
  <2>2. m' \in Beat /\ ~m'.valid
    BY <2>1 DEF TxTypes, Beat
  <2>3. TxTypes'
    BY <1>1, <1>2, <1>4, <2>1, <2>2 DEF TxTypes
  <2>4. NonEmpty(fifo \o written) = NonEmpty(Tail(fifo) \o written)
    BY <1>7, NonEmptyTake DEF TxTypes
  <2> QED
    BY <1>2, <1>3, <1>5, <2>1, <2>3, <2>4 DEF TxInv, InFlight
<1> QED
  BY <1>6, <1>7

\* The DUT and tx_thread agree on every beat: both take it at the same edge.
LEMMA BeatAcceptedTx ==
  ASSUME TxTypes, TxInv, txpc = "beat", m_tready = TRUE, nread = 0,
         BeatAccepted, DutSlaveEdge, UNCHANGED accepted
  PROVE  TxTypes' /\ TxInv'
<1> DEFINE c == ChunkAt(packet, offset)
           e == offset + c
           b == BeatAt(packet, offset)
           rest == NonEmpty(fifo \o written)
<1>1. /\ packet \in TxPackets /\ packet \in Seq(Nat) /\ Len(packet) \in Nat /\ packet # <<>>
      /\ offset \in 0 .. Len(packet) /\ offset < Len(packet) /\ m = b
  BY BridgeAssumption DEF TxTypes
<1>2. /\ b \in Beat /\ b.valid /\ e \in 1 .. Len(packet)
      /\ b.last <=> e = Len(packet)
      /\ SubSeq(packet, 1, offset) \o KeptBytes(b) = SubSeq(packet, 1, e)
  BY <1>1, BeatAtFields, PartAfterBeat
<1>3. /\ offset' = e /\ fifo' = fifo /\ written' = written /\ nread' = nread
      /\ packet' = packet /\ accepted' = accepted
  BY DEF BeatAccepted, Chunk, ChunkAt
<1>4. /\ dutPart = SubSeq(packet, 1, offset)
      /\ NonEmpty(accepted) = (dutGot \o <<packet>>) \o rest
  BY DEF TxInv, InFlight
<1>5. rest \in Seq(TxPackets) /\ dutGot \in Seq(TxPackets)
  <2>1. fifo \o written \in Seq(TxPackets)
    BY DEF TxTypes
  <2> QED
    BY <2>1, NonEmptyType DEF TxInv
<1>6. /\ dutGot' = IF m.last THEN Append(dutGot, dutPart \o KeptBytes(m)) ELSE dutGot
      /\ dutPart' = IF m.last THEN <<>> ELSE dutPart \o KeptBytes(m)
  BY <1>1, <1>2 DEF DutSlaveEdge
<1>7. CASE e < Len(packet)
  <2>1. m' = BeatAt(packet, e) /\ txpc' = "beat"
    BY <1>7 DEF BeatAccepted, Chunk, ChunkAt
  <2>2. BeatAt(packet, e) \in Beat
    BY <1>1, <1>2, <1>7, BeatAtFields
  <2>5. ~b.last
    <3> HIDE DEF e, b
    <3> QED
      BY <1>1, <1>2, <1>7
  <2>3. dutGot' = dutGot /\ dutPart' = SubSeq(packet, 1, e)
    <3> HIDE DEF e, b
    <3> QED
      BY <1>1, <1>2, <1>4, <1>6, <2>5
  <2> HIDE DEF e, rest
  <2>4. TxTypes'
    BY <1>1, <1>2, <1>3, <1>7, <2>1, <2>2 DEF TxTypes
  <2> QED
    BY <1>3, <1>4, <1>5, <2>1, <2>3, <2>4 DEF TxInv, InFlight, rest
<1>8. CASE ~(e < Len(packet))
  <2>1. m' = [m EXCEPT !.valid = FALSE, !.last = FALSE] /\ txpc' = "idle"
    BY <1>8 DEF BeatAccepted, Chunk, ChunkAt
  <2>2. m' \in Beat /\ ~m'.valid
    BY <2>1 DEF TxTypes, Beat
  <2>3. e = Len(packet)
    BY <1>1, <1>2, <1>8
  <2>4. SubSeq(packet, 1, Len(packet)) = packet
    BY <1>1, SubSeqFull
  <2>5. dutGot' = Append(dutGot, packet) /\ dutPart' = <<>>
    BY <1>1, <1>2, <1>4, <1>6, <2>3, <2>4
  <2>6. TxTypes'
    BY <1>1, <1>2, <1>3, <2>1, <2>2, <2>3 DEF TxTypes
  <2>7. NonEmpty(accepted) = (Append(dutGot, packet) \o <<>>) \o rest
    <3> HIDE DEF rest
    <3>1. (dutGot \o <<packet>>) \o rest = (Append(dutGot, packet) \o <<>>) \o rest
      BY <1>1, <1>5, LeaveFlight
    <3> QED
      BY <1>4, <3>1, Zenon
  <2>8. Append(dutGot, packet) \in Seq(TxPackets)
    BY <1>1, <1>5
  <2> QED
    BY <1>3, <2>1, <2>5, <2>6, <2>7, <2>8 DEF TxInv, InFlight
<1> QED
  BY <1>7, <1>8

\* A clock edge preserves the invariant of the transmit side.
LEMMA EdgeTx ==
  ASSUME TxTypes, TxInv, m_tready \in BOOLEAN, Edge
  PROVE  TxTypes' /\ TxInv'
<1>1. nread = 0 /\ accepted' = accepted /\ TxEdge /\ DutSlaveEdge
  BY DEF Edge, Settled
<1>2. CASE txpc = "idle" /\ fifo # <<>> /\ StartPacket
  <2>1. ~m.valid
    BY <1>2 DEF TxTypes
  <2>2. UNCHANGED <<dutGot, dutPart>>
    BY <1>1, <2>1 DEF DutSlaveEdge
  <2> QED
    BY <1>1, <1>2, <2>2, StartPacketTx
<1>3. CASE txpc = "idle" /\ txpc' = "read" /\ UNCHANGED <<fifo, written, nread, packet, offset, m>>
  <2>1. ~m.valid
    BY <1>3 DEF TxTypes
  <2>2. UNCHANGED <<dutGot, dutPart, accepted>>
    BY <1>1, <2>1 DEF DutSlaveEdge
  <2> QED
    BY <1>1, <1>3, <2>1, <2>2 DEF TxTypes, TxInv, InFlight
<1>4. CASE txpc = "beat" /\ m_tready /\ BeatAccepted
  BY <1>1, <1>4, BeatAcceptedTx
<1>5. CASE ~(txpc = "beat" /\ m_tready) /\ UNCHANGED txVars
  <2>1. ~(m.valid /\ m_tready)
    BY <1>5 DEF TxTypes
  <2>2. UNCHANGED <<dutGot, dutPart, accepted>>
    BY <1>1, <2>1 DEF DutSlaveEdge
  <2>3. UNCHANGED <<fifo, written, nread, txpc, packet, offset, m>>
    BY <1>5 DEF txVars
  <2> QED
    BY <2>2, <2>3 DEF TxTypes, TxInv, InFlight
<1> QED
  BY <1>1, <1>2, <1>3, <1>4, <1>5 DEF TxEdge, ReadFifo

\* The FIFO's update phase preserves it.
LEMMA FifoUpdateTx ==
  ASSUME TxTypes, TxInv, FifoUpdate
  PROVE  TxTypes' /\ TxInv'
<1>1. /\ UNCHANGED <<txpc, packet, offset, m, accepted, dutGot, dutPart>>
      /\ fifo' = fifo \o written /\ written' = <<>> /\ nread' = 0
  BY DEF FifoUpdate, nsVars, dutVars
<1>2. /\ fifo' \in Seq(TxPackets) /\ Len(fifo') = Len(fifo) + Len(written)
      /\ Len(fifo) \in Nat /\ Len(written) \in Nat
      /\ Len(written') = 0 /\ written' \in Seq(TxPackets)
  BY <1>1 DEF TxTypes
<1>3. fifo' \o written' = fifo \o written
  BY <1>1, <1>2, ConcatEmptySeq
<1>4. Len(fifo') + nread' + Len(written') <= FifoDepth
  BY <1>1, <1>2, BridgeAssumption DEF TxTypes
<1> QED
  BY <1>1, <1>2, <1>3, <1>4 DEF TxTypes, TxInv, InFlight

\* So does Send when there is room.
LEMMA SendTx ==
  ASSUME TxTypes, TxInv, NEW p \in TxPackets, HasRoom,
         written' = Append(written, p), accepted' = Append(accepted, p),
         UNCHANGED <<fifo, nread, txpc, packet, offset, m, dutGot, dutPart>>
  PROVE  TxTypes' /\ TxInv'
<1> DEFINE T == TxPackets \ {<<>>}
           q == fifo \o written
           d == dutGot \o InFlight
<1>1. /\ written' \in Seq(TxPackets) /\ accepted' \in Seq(TxPackets)
      /\ Len(written') = Len(written) + 1
      /\ Len(fifo) \in Nat /\ Len(written) \in Nat
  BY DEF TxTypes
<1>2. Len(fifo') + nread' + Len(written') <= FifoDepth
  BY <1>1, BridgeAssumption DEF HasRoom, TxTypes
<1>3. TxTypes'
  BY <1>1, <1>2 DEF TxTypes
<1>4. /\ q \in Seq(TxPackets) /\ d \in Seq(TxPackets) /\ InFlight' = InFlight
      /\ InFlight \in Seq(TxPackets)
  BY DEF TxTypes, TxInv, InFlight
<1>5. fifo' \o written' = Append(q, p)
  BY ConcatAppend DEF TxTypes
<1>6. NonEmpty(accepted) = d \o NonEmpty(q)
  BY DEF TxInv
<1> HIDE DEF q, d
<1>7. NonEmpty(accepted') = AppendIf(NonEmpty(accepted), p, T)
  BY NonEmptyAppend DEF TxTypes
<1>8. NonEmpty(fifo' \o written') = AppendIf(NonEmpty(q), p, T)
  BY <1>4, <1>5, NonEmptyAppend
<1> HIDE DEF T
<1>9. AppendIf(d \o NonEmpty(q), p, T) = d \o AppendIf(NonEmpty(q), p, T)
  <2>1. NonEmpty(q) \in Seq(TxPackets)
    BY <1>4, NonEmptyType
  <2> QED
    BY <1>4, <2>1, AppendIfConcat
<1>10. NonEmpty(accepted') = d \o NonEmpty(fifo' \o written')
  BY <1>6, <1>7, <1>8, <1>9
<1> QED
  BY <1>3, <1>4, <1>10 DEF TxInv, d

\* So does every step that leaves the transmit side alone.
LEMMA TxStutter ==
  ASSUME TxTypes, TxInv,
         UNCHANGED <<fifo, written, nread, txpc, packet, offset, m, accepted, dutGot, dutPart>>
  PROVE  TxTypes' /\ TxInv'
BY DEF TxTypes, TxInv, InFlight
-----------------------------------------------------------------------------
\* The bytes of the beat numbered b are at most those of the last beat.
LEMMA BeatNumbering ==
  ASSUME NEW A \in Nat, NEW b \in Nat, NEW M \in Nat, NEW j \in 1 .. A, b + 1 <= M
  PROVE  A * b + j <= A * M
<1>1. A * b + A = A * (b + 1)
  OBVIOUS
<1>2. A * (b + 1) <= A * M
  OBVIOUS
<1>3. A * b \in Nat /\ A * (b + 1) \in Nat /\ A * M \in Nat
  OBVIOUS
<1> QED
  BY <1>1, <1>2, <1>3

\* A clock edge preserves the invariant of the receive side: rx_thread hands on a
\* completed packet and samples the next beat at the same edge, and loses neither.
LEMMA EdgeRx ==
  ASSUME RxTypes, RxInv, EnvTypes, Edge
  PROVE  RxTypes' /\ RxInv'
<1> DEFINE got == lost \o delivered
           part == IF rxLast THEN <<>> ELSE rxPacket
           whole == part \o KeptBytes(s)
           tail == IF rxLast THEN <<rxPacket>> ELSE <<>>
<1>1. RxEdge /\ DutMasterEdge /\ UNCHANGED <<callback, delivered, lost>>
  BY DEF Edge
<1>2. s.valid => KeptBytes(s) \in Seq(Byte)
  BY KeptBytesType DEF RxTypes
<1>3. part \in Seq(Byte) /\ got \in Seq(Seq(Byte)) /\ tail \in Seq(Seq(Byte))
  BY DEF RxTypes
<1>4. /\ events' = IF rxLast THEN Append(events, rxPacket) ELSE events
      /\ rxPacket' = IF s.valid THEN whole ELSE part
      /\ rxLast' = (s.valid /\ s.last)
  BY <1>1 DEF RxEdge
<1>5. s.valid => whole \in Seq(Byte)
  BY <1>2, <1>3
<1>6. events' \in Seq(Seq(Byte)) /\ dutSent = (got \o events') \o <<>>
      /\ (got \o events') \in Seq(Seq(Byte))
  <2>1. dutSent = (got \o events) \o tail
    BY DEF RxInv
  <2>2. events' \in Seq(Seq(Byte))
    BY <1>4 DEF RxTypes
  <2>3. (got \o events) \o tail = (got \o events') \o <<>>
    <3> HIDE DEF got
    <3>1. CASE rxLast
      BY <1>3, <1>4, <3>1, QueueIn DEF RxTypes
    <3>2. CASE ~rxLast
      BY <1>3, <1>4, <3>2 DEF RxTypes
    <3> QED
      BY <3>1, <3>2 DEF RxTypes
  <2>4. dutSent = (got \o events') \o <<>>
    BY <2>1, <2>3, Zenon
  <2>5. got \o events' \in Seq(Seq(Byte))
    <3> HIDE DEF got
    <3> QED
      BY <1>3, <2>2
  <2> QED
    BY <2>2, <2>4, <2>5
<1>7. dutOut = part
  BY DEF RxInv
<1>8. /\ dutSent' = IF s.valid /\ s.last THEN Append(dutSent, whole) ELSE dutSent
      /\ dutOut' = IF s.valid THEN IF s.last THEN <<>> ELSE whole ELSE part
  BY <1>1, <1>7 DEF DutMasterEdge
<1>9. s' \in Beat /\ (s'.valid => s'.data \in [Lanes -> Byte]) /\ dutBeats' \in 0 .. MaxDutBeats
  <2>1. CASE s' = Quiet /\ UNCHANGED dutBeats
    BY <2>1, BridgeAssumption DEF Quiet, Beat, RxTypes
  <2>2. CASE /\ dutBeats < load.beats /\ dutBeats' = dutBeats + 1
             /\ \E k \in SUBSET Lanes, e \in BOOLEAN :
                  s' = [valid |-> TRUE, keep |-> k, last |-> e,
                        data |-> [i \in Lanes |-> AXIS_TDATA_BYTES * dutBeats + i]]
    <3> DEFINE data == [i \in Lanes |-> AXIS_TDATA_BYTES * dutBeats + i]
    <3>1. load.beats \in 0 .. MaxDutBeats
      BY BridgeAssumption DEF EnvTypes
    <3>2. dutBeats' \in 0 .. MaxDutBeats /\ dutBeats + 1 \in 0 .. MaxDutBeats
      BY <2>2, <3>1, BridgeAssumption DEF RxTypes
    <3>3. ASSUME NEW i \in Lanes PROVE AXIS_TDATA_BYTES * dutBeats + i \in Byte
      <4>2. AXIS_TDATA_BYTES \in Nat /\ dutBeats \in Nat /\ MaxDutBeats \in Nat
            /\ i \in 1 .. AXIS_TDATA_BYTES
        BY BridgeAssumption DEF RxTypes, Lanes
      <4>3. AXIS_TDATA_BYTES * dutBeats + i <= AXIS_TDATA_BYTES * MaxDutBeats
        BY <4>2, <3>2, BeatNumbering
      <4>4. AXIS_TDATA_BYTES * dutBeats \in Nat /\ AXIS_TDATA_BYTES * MaxDutBeats \in Nat
        BY <4>2
      <4> QED
        BY <4>2, <4>3, <4>4 DEF Byte
    <3>4. data \in [Lanes -> Byte] /\ data \in [Lanes -> Nat]
      <4>1. \A n \in Byte : n \in Nat
        BY DEF Byte
      <4> QED
        BY <3>3, <4>1
    <3> HIDE DEF data
    <3>5. PICK k \in SUBSET Lanes, e \in BOOLEAN :
             s' = [valid |-> TRUE, keep |-> k, last |-> e, data |-> data]
      BY <2>2 DEF data
    <3> QED
      BY <3>2, <3>4, <3>5 DEF Beat
  <2> QED
    BY <1>1, <2>1, <2>2 DEF DutMasterEdge
<1>10. rxLast' \in BOOLEAN
  BY <1>4 DEF RxTypes, Beat
<1>11. rxPacket' \in Seq(Byte)
  BY <1>3, <1>4, <1>5
<1>12. RxTypes'
  BY <1>1, <1>6, <1>9, <1>10, <1>11 DEF RxTypes
<1>13. dutOut' = IF rxLast' THEN <<>> ELSE rxPacket'
  BY <1>4, <1>8 DEF RxTypes, Beat
<1>14. dutSent' = (got \o events') \o (IF rxLast' THEN <<rxPacket'>> ELSE <<>>)
  <2> HIDE DEF got, whole
  <2>1. CASE s.valid /\ s.last
    <3>1. Append((got \o events') \o <<>>, whole) = (got \o events') \o <<whole>>
      BY <1>5, <1>6, <2>1
    <3> QED
      BY <1>4, <1>6, <1>8, <2>1, <3>1
  <2>2. CASE ~(s.valid /\ s.last)
    BY <1>4, <1>6, <1>8, <2>2
  <2> QED
    BY <2>1, <2>2
<1> QED
  BY <1>1, <1>12, <1>13, <1>14 DEF RxInv

\* An ns-3 event takes the first scheduled packet.
LEMMA DeliverRx ==
  ASSUME RxTypes, RxInv, EnvTypes, DeliverPacket
  PROVE  /\ RxTypes' /\ RxInv'
         /\ lost' \o delivered' = Append(lost \o delivered, Head(events))
<1>1. /\ events # <<>> /\ events' = Tail(events)
      /\ UNCHANGED <<s, rxPacket, rxLast, dutBeats, dutSent, dutOut, callback>>
  BY DEF DeliverPacket, rxVars, dutVars
<1>2. Head(events) \in Seq(Byte) /\ Tail(events) \in Seq(Seq(Byte))
  BY <1>1 DEF RxTypes
<1>3. lost' \in Seq(Seq(Byte)) /\ delivered' \in Seq(Seq(Byte))
      /\ (~callback' => delivered' = <<>>)
  <2>1. CASE callback
    <3>1. lost' = lost /\ delivered' = Append(delivered, Head(events)) /\ callback'
      BY <1>1, <2>1 DEF DeliverPacket
    <3> QED
      BY <1>2, <3>1 DEF RxTypes
  <2>2. CASE ~callback
    <3>1. lost' = Append(lost, Head(events)) /\ delivered' = delivered /\ delivered = <<>>
      BY <2>2 DEF DeliverPacket, RxInv
    <3> QED
      BY <1>2, <3>1 DEF RxTypes
  <2> QED
    BY <2>1, <2>2
<1>4. lost' \o delivered' = Append(lost \o delivered, Head(events))
  <2> DEFINE h == Head(events)
  <2>0. h \in Seq(Byte)
    BY <1>2
  <2>1. CASE callback
    <3>1. lost' = lost /\ delivered' = Append(delivered, h)
      BY <2>1 DEF DeliverPacket
    <3> HIDE DEF h
    <3>2. lost \o Append(delivered, h) = Append(lost \o delivered, h)
      BY <2>0, ConcatAppend DEF RxTypes
    <3> QED
      BY <3>1, <3>2 DEF h
  <2>2. CASE ~callback
    <3>1. lost' = Append(lost, h) /\ delivered' = <<>> /\ delivered = <<>>
      BY <2>2 DEF DeliverPacket, RxInv
    <3>2. lost \o <<>> = lost
      BY DEF RxTypes
    <3> HIDE DEF h
    <3>3. Append(lost, h) \o <<>> = Append(lost, h)
      BY <2>0 DEF RxTypes
    <3> QED
      BY <3>1, <3>2, <3>3 DEF h
  <2> QED
    BY <2>1, <2>2
<1>5. RxTypes'
  BY <1>1, <1>2, <1>3 DEF RxTypes
<1>6. dutSent' = ((lost' \o delivered') \o events') \o (IF rxLast' THEN <<rxPacket'>> ELSE <<>>)
  <2> DEFINE g == lost \o delivered
             t == IF rxLast THEN <<rxPacket>> ELSE <<>>
             B == Seq(Byte)
  <2>1. g \in Seq(B) /\ t \in Seq(B) /\ events \in Seq(B)
    BY DEF RxTypes
  <2>2. dutSent = (g \o events) \o t
    BY DEF RxInv
  <2> HIDE DEF g, t, B
  <2>3. (g \o events) \o t = (Append(g, Head(events)) \o Tail(events)) \o t
    <3>1. events # <<>>
      BY <1>1
    <3> QED
      BY <2>1, <3>1, QueueOut, SMTT(60)
  <2>4. lost' \o delivered' = Append(g, Head(events))
    BY <1>4 DEF g
  <2>5. t' = t
    BY <1>1 DEF t
  <2>6. dutSent' = ((lost' \o delivered') \o events') \o t'
    BY <1>1, <2>2, <2>3, <2>4, <2>5
  <2> QED
    BY <2>6 DEF t
<1> QED
  BY <1>1, <1>3, <1>4, <1>5, <1>6 DEF RxInv

\* A step that leaves the receive side alone preserves its invariant.
LEMMA RxStutter ==
  ASSUME RxTypes, RxInv, callback \in BOOLEAN, callback' \in {callback, TRUE},
         UNCHANGED <<s, rxPacket, rxLast, events, dutSent, dutOut, dutBeats, delivered, lost>>
  PROVE  RxTypes' /\ RxInv'
BY DEF RxTypes, RxInv
-----------------------------------------------------------------------------
\* The invariant holds initially.
LEMMA InitIInv == Init => IInv
<1> SUFFICES ASSUME Init PROVE IInv
  OBVIOUS
<1>1. Quiet \in Beat /\ ~Quiet.valid
  BY BridgeAssumption DEF Quiet, Beat
<1>2. TxTypes
  <2>1. /\ Len(fifo) + nread + Len(written) <= FifoDepth
        /\ fifo \in Seq(TxPackets) /\ written \in Seq(TxPackets) /\ accepted \in Seq(TxPackets)
    BY BridgeAssumption DEF Init
  <2>2. /\ packet \in TxPackets \cup {<<>>} /\ offset \in 0 .. Len(packet) /\ nread \in 0 .. 1
        /\ txpc = "idle" /\ m = Quiet
    BY DEF Init
  <2> QED
    BY <1>1, <2>1, <2>2 DEF TxTypes
<1>3. EnvTypes /\ RxTypes
  <2>4. 0 \in 0 .. MaxSends /\ 0 \in 0 .. MaxDutBeats /\ <<>> \in Seq(Byte)
    BY BridgeAssumption
  <2>1. EnvTypes
    BY <2>4, Zenon DEF Init, EnvTypes
  <2>2. /\ s = Quiet /\ rxLast \in BOOLEAN /\ dutBeats \in 0 .. MaxDutBeats
        /\ rxPacket \in Seq(Byte)
    BY <2>4, Zenon DEF Init
  <2>3. events \in Seq(Seq(Byte)) /\ lost \in Seq(Seq(Byte)) /\ delivered \in Seq(Seq(Byte))
    BY DEF Init
  <2> QED
    BY <1>1, <2>1, <2>2, <2>3 DEF RxTypes
<1>4. TxInv
  <2> DEFINE e == <<>>
  <2>1. NonEmpty(e) = e /\ e \o e = e /\ e \in Seq(TxPackets)
    BY FilterEmpty DEF NonEmpty
  <2>2. accepted = e /\ dutGot = e /\ fifo = e /\ written = e /\ dutPart = e /\ InFlight = e
        /\ txpc # "beat"
    BY DEF Init, InFlight
  <2> HIDE DEF e
  <2>3. NonEmpty(accepted) = dutGot \o InFlight \o NonEmpty(fifo \o written)
    BY <2>1, <2>2
  <2> QED
    BY <2>1, <2>2, <2>3 DEF TxInv, e
<1>5. RxInv
  <2> DEFINE e == <<>>
  <2>1. e \o e = e
    OBVIOUS
  <2>2. lost = e /\ delivered = e /\ events = e /\ dutSent = e /\ dutOut = e /\ rxPacket = e
        /\ rxLast = FALSE
    BY DEF Init
  <2> HIDE DEF e
  <2> QED
    BY <2>1, <2>2 DEF RxInv, e
<1> QED
  BY <1>2, <1>3, <1>4, <1>5 DEF IInv

\* Every step preserves it.
LEMMA NextIInv == IInv /\ [Next]_vars => IInv'
<1> SUFFICES ASSUME IInv, [Next]_vars PROVE IInv'
  OBVIOUS
<1>0. TxTypes /\ EnvTypes /\ TxInv /\ RxTypes /\ RxInv
  BY DEF IInv
<1>1. CASE Edge
  <2>1. EnvTypes'
    BY <1>0, <1>1 DEF EnvTypes, Edge, DutSlaveEdge
  <2> QED
    BY <1>0, <1>1, <2>1, EdgeTx, EdgeRx DEF EnvTypes, IInv
<1>2. CASE TxWake
  <2>1. /\ txpc = "read" /\ fifo # <<>> /\ StartPacket
        /\ UNCHANGED <<accepted, dutGot, dutPart>>
        /\ UNCHANGED <<s, rxPacket, rxLast, events, dutSent, dutOut, dutBeats, delivered, lost>>
        /\ UNCHANGED <<m_tready, callback, load, sends>>
    BY <1>2 DEF TxWake, rxVars, dutVars, nsVars
  <2>2. nread = 0
    BY <1>0, <2>1 DEF TxTypes
  <2>3. TxTypes' /\ TxInv'
    BY <1>0, <2>1, <2>2, StartPacketTx
  <2>4. EnvTypes' /\ callback' \in {callback, TRUE}
    BY <1>0, <2>1 DEF EnvTypes
  <2>5. RxTypes' /\ RxInv'
    BY <1>0, <2>1, <2>4, RxStutter DEF EnvTypes
  <2> QED
    BY <2>3, <2>4, <2>5 DEF IInv
<1>3. CASE FifoUpdate
  <2>1. /\ UNCHANGED <<s, rxPacket, rxLast, events, dutSent, dutOut, dutBeats, delivered, lost>>
        /\ UNCHANGED <<m_tready, callback, load, sends>>
    BY <1>3 DEF FifoUpdate, rxVars, dutVars, nsVars
  <2>2. TxTypes' /\ TxInv'
    BY <1>0, <1>3, FifoUpdateTx
  <2>3. EnvTypes' /\ callback' \in {callback, TRUE}
    BY <1>0, <2>1 DEF EnvTypes
  <2>4. RxTypes' /\ RxInv'
    BY <1>0, <2>1, <2>3, RxStutter DEF EnvTypes
  <2> QED
    BY <2>2, <2>3, <2>4 DEF IInv
<1>4. CASE Send
  <2>1. /\ UNCHANGED <<s, rxPacket, rxLast, events, dutSent, dutOut, dutBeats, delivered, lost>>
        /\ UNCHANGED <<m_tready, callback, load>> /\ sends < load.sends /\ sends' = sends + 1
        /\ UNCHANGED <<fifo, nread, txpc, packet, offset, m, dutGot, dutPart>>
    BY <1>4 DEF Send, rxVars, dutVars
  <2>2. TxTypes' /\ TxInv'
    <3>1. ASSUME NEW p \in TxPackets, HasRoom,
                 written' = Append(written, p), accepted' = Append(accepted, p)
          PROVE  TxTypes' /\ TxInv'
      BY <1>0, <2>1, <3>1, SendTx
    <3>2. ASSUME UNCHANGED <<written, accepted>> PROVE TxTypes' /\ TxInv'
      BY <1>0, <2>1, <3>2, TxStutter
    <3> QED
      BY <1>4, <3>1, <3>2 DEF Send
  <2>3. EnvTypes' /\ callback' \in {callback, TRUE}
    <3>1. load.sends \in 0 .. MaxSends
      BY <1>0, BridgeAssumption DEF EnvTypes
    <3>2. sends' \in 0 .. MaxSends
      BY <1>0, <2>1, <3>1, BridgeAssumption DEF EnvTypes
    <3> QED
      BY <1>0, <2>1, <3>2 DEF EnvTypes
  <2>4. RxTypes' /\ RxInv'
    BY <1>0, <2>1, <2>3, RxStutter DEF EnvTypes
  <2> QED
    BY <2>2, <2>3, <2>4 DEF IInv
<1>5. CASE SetReceiveCallback
  <2>1. /\ UNCHANGED <<s, rxPacket, rxLast, events, dutSent, dutOut, dutBeats, delivered, lost>>
        /\ UNCHANGED <<m_tready, load, sends>> /\ callback' = TRUE
        /\ UNCHANGED <<fifo, written, nread, txpc, packet, offset, m, accepted, dutGot, dutPart>>
    BY <1>5 DEF SetReceiveCallback, txVars, rxVars, dutVars
  <2>2. TxTypes' /\ TxInv'
    BY <1>0, <2>1, TxStutter
  <2>3. EnvTypes' /\ callback' \in {callback, TRUE}
    BY <1>0, <2>1 DEF EnvTypes
  <2>4. RxTypes' /\ RxInv'
    BY <1>0, <2>1, <2>3, RxStutter DEF EnvTypes
  <2> QED
    BY <2>2, <2>3, <2>4 DEF IInv
<1>6. CASE DeliverPacket
  <2>1. /\ UNCHANGED <<m_tready, load, sends, callback>>
        /\ UNCHANGED <<fifo, written, nread, txpc, packet, offset, m, accepted, dutGot, dutPart>>
    BY <1>6 DEF DeliverPacket, txVars, dutVars
  <2>2. TxTypes' /\ TxInv'
    BY <1>0, <2>1, TxStutter
  <2>3. EnvTypes'
    BY <1>0, <2>1 DEF EnvTypes
  <2>4. RxTypes' /\ RxInv'
    BY <1>0, <1>6, DeliverRx
  <2> QED
    BY <2>2, <2>3, <2>4 DEF IInv
<1>7. CASE UNCHANGED vars
  <2>1. /\ UNCHANGED <<s, rxPacket, rxLast, events, dutSent, dutOut, dutBeats, delivered, lost>>
        /\ UNCHANGED <<m_tready, load, sends, callback>>
        /\ UNCHANGED <<fifo, written, nread, txpc, packet, offset, m, accepted, dutGot, dutPart>>
    BY <1>7 DEF vars, txVars, rxVars, dutVars, nsVars
  <2>2. TxTypes' /\ TxInv'
    BY <1>0, <2>1, TxStutter
  <2>3. EnvTypes' /\ callback' \in {callback, TRUE}
    BY <1>0, <2>1 DEF EnvTypes
  <2>4. RxTypes' /\ RxInv'
    BY <1>0, <2>1, <2>3, RxStutter DEF EnvTypes
  <2> QED
    BY <2>2, <2>3, <2>4 DEF IInv
<1> QED
  BY <1>1, <1>2, <1>3, <1>4, <1>5, <1>6, <1>7 DEF Next

\* So it always holds.
LEMMA Invariance == Spec => []IInv
BY InitIInv, NextIInv, PTL DEF Spec

\* The type invariant: in particular, tx_fifo never holds more packets than it has
\* slots, although VerilatorNetDevice::Send and tx_thread use it in the same delta
\* cycle.
THEOREM TypeCorrectness == Spec => []TypeOK
<1>1. IInv => TypeOK
  <2> SUFFICES ASSUME IInv PROVE TypeOK
    OBVIOUS
  <2>1. IsBeat(m) /\ IsBeat(s)
    <3>1. m \in Beat /\ s \in Beat
      BY DEF IInv, TxTypes, RxTypes
    <3> QED
      BY <3>1 DEF Beat, IsBeat
  <2> QED
    BY <2>1 DEF IInv, TypeOK, TxTypes, RxTypes, EnvTypes
<1> QED
  BY <1>1, Invariance, PTL

\* AxisBridge::tx_thread holds TVALID and the beat until the edge with TREADY high,
\* whatever ns-3 and the FIFO do in between.
THEOREM BeatsAreHeld == Spec => BeatHeldUntilReady
<1> DEFINE A == m.valid => m' = m \/ (m_tready /\ Edge)
<1>1. IInv /\ [Next]_vars => [A]_vars
  <2> SUFFICES ASSUME IInv, Next, m.valid PROVE m' = m \/ (m_tready /\ Edge)
    OBVIOUS
  <2>1. txpc = "beat"
    BY DEF IInv, TxTypes
  <2>2. CASE Edge
    BY <2>1, <2>2 DEF Edge, TxEdge, txVars
  <2>3. CASE TxWake
    BY <2>1, <2>3 DEF TxWake
  <2>4. CASE FifoUpdate \/ Send
    BY <2>4 DEF FifoUpdate, Send
  <2>5. CASE SetReceiveCallback \/ DeliverPacket
    BY <2>5 DEF SetReceiveCallback, DeliverPacket, txVars
  <2> QED
    BY <2>2, <2>3, <2>4, <2>5 DEF Next
<1> HIDE DEF A
<1>2. Spec => [][A]_vars
  BY <1>1, Invariance, PTL DEF Spec
<1> QED
  BY <1>2 DEF BeatHeldUntilReady, A
-----------------------------------------------------------------------------
\* Send is a step of the channel, or (an empty packet) none.
LEMMA TxSendStep ==
  ASSUME IInv, NEW p \in TxPackets, accepted' = Append(accepted, p), dutGot' = dutGot
  PROVE  [Tx!Next]_<<NonEmpty(accepted), dutGot>>
<1> DEFINE a == NonEmpty(accepted)
<1>1. accepted \in Seq(TxPackets)
  BY DEF IInv, TxTypes
<1>2. a \in Seq(TxPackets) /\ NonEmpty(accepted') = AppendIf(a, p, TxPackets \ {<<>>})
  BY <1>1, NonEmptyType, NonEmptyAppend
<1>3. a' = NonEmpty(accepted')
  BY DEF NonEmpty
<1> HIDE DEF a
<1>4. CASE p = <<>>
  <2>1. a' = a
    BY <1>2, <1>3, <1>4 DEF AppendIf
  <2> QED
    BY <2>1 DEF a
<1>5. CASE p # <<>>
  <2>1. a' = Append(a, p)
    BY <1>2, <1>3, <1>5 DEF AppendIf
  <2>2. /\ Len(a') = Len(a) + 1 /\ SubSeq(a', 1, Len(a)) = a
        /\ a'[Len(a')] \in TxPackets
    BY <1>2, <2>1, AppendPrefix
  <2> QED
    BY <2>2 DEF a, Tx!Next, Tx!Send
<1> QED
  BY <1>4, <1>5

\* A clock edge delivers the next packet to the DUT, or none.
LEMMA TxEdgeStep ==
  ASSUME IInv, Edge
  PROVE  [Tx!Next]_<<NonEmpty(accepted), dutGot>>
<1> DEFINE a == NonEmpty(accepted)
           rest == NonEmpty(fifo \o written)
<1>1. accepted' = accepted /\ DutSlaveEdge /\ TxTypes /\ TxInv /\ m_tready \in BOOLEAN
  BY DEF Edge, IInv, EnvTypes
<1>2. CASE ~(m.valid /\ m_tready /\ m.last)
  <2>1. dutGot' = dutGot
    BY <1>1, <1>2 DEF DutSlaveEdge
  <2> QED
    BY <1>1, <2>1 DEF NonEmpty
<1>3. CASE m.valid /\ m_tready /\ m.last
  <2> DEFINE e == offset + ChunkAt(packet, offset)
  <2>1. /\ txpc = "beat" /\ packet \in TxPackets /\ packet \in Seq(Nat) /\ packet # <<>>
        /\ offset \in 0 .. Len(packet) /\ offset < Len(packet) /\ m = BeatAt(packet, offset)
    BY <1>1, <1>3, BridgeAssumption DEF TxTypes
  <2>2. /\ e = Len(packet)
        /\ SubSeq(packet, 1, offset) \o KeptBytes(m) = SubSeq(packet, 1, e)
    BY <1>3, <2>1, BeatAtFields, PartAfterBeat
  <2>3. SubSeq(packet, 1, Len(packet)) = packet
    BY <2>1, SubSeqFull
  <2>4. dutPart \o KeptBytes(m) = packet
    BY <1>1, <2>1, <2>2, <2>3 DEF TxInv
  <2>5. dutGot' = Append(dutGot, packet)
    BY <1>1, <1>3, <2>4 DEF DutSlaveEdge
  <2>6. a = (dutGot \o <<packet>>) \o rest /\ dutGot \in Seq(TxPackets)
    BY <1>1, <2>1 DEF TxInv, InFlight
  <2>7. rest \in Seq(TxPackets)
    <3>1. fifo \o written \in Seq(TxPackets)
      BY <1>1 DEF TxTypes
    <3> QED
      BY <3>1, NonEmptyType
  <2>8. a' = a
    BY <1>1 DEF NonEmpty
  <2> HIDE DEF rest, a
  <2>9. /\ Len(dutGot) < Len((dutGot \o <<packet>>) \o rest)
        /\ ((dutGot \o <<packet>>) \o rest)[Len(dutGot) + 1] = packet
    BY <2>1, <2>6, <2>7, LeaveFlight
  <2>10. Len(dutGot) < Len(a) /\ a[Len(dutGot) + 1] = packet
    BY <2>6, <2>9
  <2> QED
    BY <2>5, <2>8, <2>10 DEF Tx!Next, Tx!Receive, a
<1> QED
  BY <1>2, <1>3

\* The transmit side implements PacketChannel: the DUT gets the accepted packets
\* whole, once each and in order, for every width, depth and TREADY pattern.
THEOREM TxRefinement == Spec => TxChannel
<1>1. Init => Tx!Init
  <2>1. NonEmpty(<<>>) = <<>>
    BY FilterEmpty DEF NonEmpty
  <2> QED
    BY <2>1 DEF Init, Tx!Init
<1>2. IInv /\ [Next]_vars => [Tx!Next]_<<NonEmpty(accepted), dutGot>>
  <2> SUFFICES ASSUME IInv, [Next]_vars PROVE [Tx!Next]_<<NonEmpty(accepted), dutGot>>
    OBVIOUS
  <2>1. CASE Edge
    BY <2>1, TxEdgeStep
  <2>2. CASE Send
    <3>1. dutGot' = dutGot
      BY <2>2 DEF Send, dutVars
    <3>2. CASE UNCHANGED accepted
      BY <3>1, <3>2 DEF NonEmpty
    <3>3. ASSUME NEW p \in TxPackets, accepted' = Append(accepted, p)
          PROVE  [Tx!Next]_<<NonEmpty(accepted), dutGot>>
      BY <3>1, <3>3, TxSendStep
    <3> QED
      BY <2>2, <3>2, <3>3 DEF Send
  <2>3. CASE TxWake \/ FifoUpdate \/ SetReceiveCallback \/ DeliverPacket \/ UNCHANGED vars
    <3>1. UNCHANGED <<accepted, dutGot>>
      BY <2>3 DEF TxWake, FifoUpdate, SetReceiveCallback, DeliverPacket, vars, nsVars, dutVars
    <3> QED
      BY <3>1 DEF NonEmpty
  <2> QED
    BY <2>1, <2>2, <2>3 DEF Next
<1> QED
  BY <1>1, <1>2, Invariance, PTL DEF Spec, TxChannel, Tx!Spec

\* A clock edge ends a packet of the DUT, or none.
LEMMA RxEdgeStep ==
  ASSUME IInv, Edge
  PROVE  [Rx!Next]_<<dutSent, lost \o delivered>>
<1>1. /\ UNCHANGED <<lost, delivered>> /\ DutMasterEdge /\ RxTypes /\ RxInv
  BY DEF Edge, IInv
<1>2. CASE ~(s.valid /\ s.last)
  BY <1>1, <1>2 DEF DutMasterEdge
<1>3. CASE s.valid /\ s.last
  <2> DEFINE w == dutOut \o KeptBytes(s)
             B == Seq(Byte)
  <2>1. dutSent' = Append(dutSent, w)
    BY <1>1, <1>3 DEF DutMasterEdge
  <2>2. w \in B
    <3>1. KeptBytes(s) \in Seq(Byte)
      BY <1>1, <1>3, KeptBytesType DEF RxTypes
    <3>2. dutOut \in Seq(Byte)
      BY <1>1 DEF RxTypes, RxInv
    <3> QED
      BY <3>1, <3>2
  <2>3. dutSent \in Seq(B)
    BY <1>1 DEF RxTypes, RxInv
  <2> HIDE DEF w, B
  <2>4. /\ Len(dutSent') = Len(dutSent) + 1 /\ SubSeq(dutSent', 1, Len(dutSent)) = dutSent
        /\ dutSent'[Len(dutSent')] \in B
    BY <2>1, <2>2, <2>3, AppendPrefix
  <2> QED
    BY <1>1, <2>4 DEF Rx!Next, Rx!Send, B, Byte
<1> QED
  BY <1>2, <1>3

\* The ns-3 event delivers the next packet.
LEMMA RxDeliverStep ==
  ASSUME IInv, DeliverPacket
  PROVE  Rx!Receive
<1> DEFINE g == lost \o delivered
           t == IF rxLast THEN <<rxPacket>> ELSE <<>>
           B == Seq(Byte)
<1>1. RxTypes /\ RxInv /\ EnvTypes /\ events # <<>> /\ dutSent' = dutSent
  BY DEF IInv, DeliverPacket, dutVars
<1>2. g' = Append(g, Head(events))
  BY <1>1, DeliverRx
<1>3. g \in Seq(B) /\ t \in Seq(B) /\ events \in Seq(B)
  BY <1>1 DEF RxTypes
<1>4. dutSent = (g \o events) \o t
  BY <1>1 DEF RxInv
<1>5. events # <<>>
  BY <1>1
<1> HIDE DEF g, t, B
<1>6. Len(g) < Len((g \o events) \o t) /\ ((g \o events) \o t)[Len(g) + 1] = Head(events)
  BY <1>3, <1>5, QueueOut, SMTT(60)
<1> QED
  BY <1>1, <1>2, <1>4, <1>6 DEF Rx!Receive, g

\* The receive side implements PacketChannel: ns-3 gets the packets of the DUT
\* reassembled, once each and in order, for every width and every TKEEP and TLAST.
THEOREM RxRefinement == Spec => RxChannel
<1>1. Init => Rx!Init
  BY DEF Init, Rx!Init
<1>2. IInv /\ [Next]_vars => [Rx!Next]_<<dutSent, lost \o delivered>>
  <2> SUFFICES ASSUME IInv, [Next]_vars PROVE [Rx!Next]_<<dutSent, lost \o delivered>>
    OBVIOUS
  <2>1. CASE Edge
    BY <2>1, RxEdgeStep
  <2>2. CASE DeliverPacket
    BY <2>2, RxDeliverStep DEF Rx!Next
  <2>3. CASE TxWake \/ FifoUpdate \/ SetReceiveCallback \/ Send \/ UNCHANGED vars
    BY <2>3 DEF TxWake, FifoUpdate, SetReceiveCallback, Send, vars, nsVars, dutVars
  <2> QED
    BY <2>1, <2>2, <2>3 DEF Next
<1> QED
  BY <1>1, <1>2, Invariance, PTL DEF Spec, RxChannel, Rx!Spec
=============================================================================
