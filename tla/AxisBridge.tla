----------------------------- MODULE AxisBridge -----------------------------
(***************************************************************************)
(* The co-simulation bridge between ns-3 and the Verilator design under    *)
(* test: AxisBridge's two SystemC threads, the packet FIFO between them    *)
(* and VerilatorNetDevice, and the AXI-Stream ports toward the DUT.        *)
(*                                                                         *)
(* One Edge step is a rising clock edge.  Every process samples the        *)
(* signals as they were before the edge and its writes show after it       *)
(* (sc_signal's evaluate/update), so the order in which the kernel runs    *)
(* the processes of one edge does not matter and the edge is one step.     *)
(* Between edges ns-3 pushes packets and runs its events, in any order.    *)
(*                                                                         *)
(* tx_thread blocked in sc_fifo::read() is not waiting for the clock: it   *)
(* resumes (TxWake) as soon as a packet is visible in the FIFO, and drives *)
(* the ports in the middle of the cycle.                                   *)
(***************************************************************************)
EXTENDS Loops

CONSTANTS
  TxPackets,      \* packets ns-3 sends: sequences of bytes
  AXIS_TDATA_BYTES,  \* bytes of a beat; 8 in the code
  FifoDepth,      \* slots of tx_fifo; 4 in the code
  MaxSends,       \* bound: calls of VerilatorNetDevice::Send
  MaxDutBeats,    \* bound: beats the DUT sends
  Loads           \* the pairs of bounds to explore: [sends, beats]

ASSUME BridgeAssumption ==
  /\ \A p \in TxPackets : p \in Seq(Nat)
  /\ AXIS_TDATA_BYTES \in Nat \ {0} /\ FifoDepth \in Nat \ {0}
  /\ MaxSends \in Nat /\ MaxDutBeats \in Nat
  /\ Loads \subseteq [sends : 0 .. MaxSends, beats : 0 .. MaxDutBeats]

Lanes == 1 .. AXIS_TDATA_BYTES

VARIABLES
  fifo,        \* tx_fifo: packets a read can take
  written,     \* packets written in this delta cycle, not yet readable
  nread,       \* packets read in this delta cycle, whose slots are not yet free
  txpc,        \* where tx_thread waits: "read" (for a packet), "beat" (for
               \* TREADY) or "idle" (one cycle; also before the first packet)
  packet, offset,  \* tx_thread's locals
  m,           \* the master ports: [valid, data, keep, last]
  m_tready,
  s,           \* the slave ports, driven by the DUT
  rxPacket, rxLast,  \* rx_thread's locals
  events,      \* ns-3 events scheduled by on_rx: packets to deliver
  callback     \* is m_rxCallback set?

(***************************************************************************)
(* What the environment sees: the packets Send accepted, the packets the   *)
(* DUT completed and the bytes of the one it is receiving; the packets the *)
(* DUT sent, the bytes of the one it is sending and its number of beats;   *)
(* the packets the ns-3 stack got, those that found no callback, the       *)
(* number of calls of Send, and the bounds of this behaviour.              *)
(***************************************************************************)
VARIABLES accepted, dutGot, dutPart, dutSent, dutOut, dutBeats,
          delivered, lost, sends, load

txVars == <<fifo, written, nread, txpc, packet, offset, m>>
rxVars == <<rxPacket, rxLast>>
dutVars == <<m_tready, s, dutGot, dutPart, dutSent, dutOut, dutBeats>>
nsVars == <<events, callback, delivered, lost, accepted, sends, load>>
vars == <<txVars, rxVars, dutVars, nsVars>>

Quiet == [valid |-> FALSE, data |-> [i \in Lanes |-> 0], keep |-> {}, last |-> FALSE]

\* The bytes of a beat that TKEEP keeps, in lane order.
KeptBytes(beat) ==
  LET kept == Filter([i \in Lanes |-> i], beat.keep)
  IN  [k \in 1 .. Len(kept) |-> beat.data[kept[k]]]

\* Faulty variant: an off-by-one in TLAST.
BeatAtShort(p, o) ==
  LET chunk == IF Len(p) - o >= AXIS_TDATA_BYTES THEN AXIS_TDATA_BYTES ELSE Len(p) - o IN
  [valid |-> TRUE,
   data  |-> [i \in Lanes |-> IF i <= chunk THEN p[o + i] ELSE 0],
   keep  |-> 1 .. chunk,
   last  |-> o + chunk > Len(p)]

\* Faulty variant: TLAST one byte early.
BeatAtLastEarly(p, o) ==
  LET chunk == IF Len(p) - o >= AXIS_TDATA_BYTES THEN AXIS_TDATA_BYTES ELSE Len(p) - o IN
  [valid |-> TRUE,
   data  |-> [i \in Lanes |-> IF i <= chunk THEN p[o + i] ELSE 0],
   keep  |-> 1 .. chunk,
   last  |-> o + chunk >= Len(p) - 1]

\* The beat tx_thread presents for packet p at offset o.
BeatAt(p, o) ==
  LET chunk == IF Len(p) - o >= AXIS_TDATA_BYTES THEN AXIS_TDATA_BYTES ELSE Len(p) - o IN
  [valid |-> TRUE,
   data  |-> [i \in Lanes |-> IF i <= chunk THEN p[o + i] ELSE 0],
   keep  |-> 1 .. chunk,
   last  |-> o + chunk >= Len(p)]

Init ==
  /\ fifo = <<>> /\ written = <<>> /\ nread = 0
  /\ txpc = "idle" /\ packet = <<>> /\ offset = 0 /\ m = Quiet
  /\ rxPacket = <<>> /\ rxLast = FALSE
  /\ m_tready \in BOOLEAN /\ s = Quiet
  /\ events = <<>> /\ callback = FALSE /\ delivered = <<>> /\ lost = <<>>
  /\ accepted = <<>> /\ sends = 0
  /\ dutGot = <<>> /\ dutPart = <<>> /\ dutSent = <<>> /\ dutOut = <<>> /\ dutBeats = 0
  /\ load \in Loads
-----------------------------------------------------------------------------
(* tx_thread *)

\* Take the first packet and present its first beat.  An empty packet has no
\* beat: the thread goes straight to the idle cycle.
StartPacket ==
  /\ packet' = Head(fifo) /\ offset' = 0
  /\ fifo' = Tail(fifo) /\ nread' = nread + 1
  /\ IF Len(Head(fifo)) > 0
       THEN m' = BeatAt(Head(fifo), 0) /\ txpc' = "beat"
       ELSE m' = [m EXCEPT !.valid = FALSE, !.last = FALSE] /\ txpc' = "idle"
  /\ UNCHANGED written

\* tx_fifo.read(packet): go on at once, or block until a packet is readable.
ReadFifo ==
  \/ fifo # <<>> /\ StartPacket
  \/ fifo = <<>> /\ txpc' = "read" /\ UNCHANGED <<fifo, written, nread, packet, offset, m>>

\* The number of bytes of the beat on the ports.
Chunk == IF Len(packet) - offset >= AXIS_TDATA_BYTES
           THEN AXIS_TDATA_BYTES ELSE Len(packet) - offset

BeatAccepted ==
  /\ offset' = offset + Chunk
  /\ IF offset + Chunk < Len(packet)
       THEN m' = BeatAt(packet, offset + Chunk) /\ txpc' = "beat"
       ELSE m' = [m EXCEPT !.valid = FALSE, !.last = FALSE] /\ txpc' = "idle"
  /\ UNCHANGED <<fifo, written, nread, packet>>

\* Faulty variant: TREADY is not waited for.
TxEdgeNoHold ==
  \/ txpc = "idle" /\ ReadFifo
  \/ txpc = "beat" /\ BeatAccepted
  \/ txpc = "read" /\ UNCHANGED txVars

\* tx_thread at a clock edge: do { wait(); } while (!m_tready.read()).
TxEdge ==
  \/ txpc = "idle" /\ ReadFifo
  \/ txpc = "beat" /\ m_tready /\ BeatAccepted
  \/ txpc = "beat" /\ ~m_tready /\ UNCHANGED txVars
  \/ txpc = "read" /\ UNCHANGED txVars

\* A packet became readable while tx_thread was blocked in the FIFO's read.
TxWake ==
  /\ txpc = "read" /\ fifo # <<>>
  /\ StartPacket
  /\ UNCHANGED <<rxVars, dutVars, nsVars>>
-----------------------------------------------------------------------------
(* rx_thread *)

\* Faulty variant: the packet is not cleared after on_rx.
RxEdgeNoClear ==
  /\ events' = IF rxLast THEN Append(events, rxPacket) ELSE events
  /\ rxPacket' = IF s.valid THEN rxPacket \o KeptBytes(s) ELSE rxPacket
  /\ rxLast' = (s.valid /\ s.last)

(***************************************************************************)
(* rx_thread at a clock edge.  A packet whose last beat was sampled at the *)
(* previous edge is handed to on_rx, whose handler schedules an ns-3 event *)
(* (SetupRx); then, at the same edge, the ports are sampled for the next   *)
(* beat.                                                                   *)
(***************************************************************************)
RxEdge ==
  LET before == IF rxLast THEN <<>> ELSE rxPacket IN
  /\ events' = IF rxLast THEN Append(events, rxPacket) ELSE events
  /\ rxPacket' = IF s.valid THEN before \o KeptBytes(s) ELSE before
  /\ rxLast' = (s.valid /\ s.last)
-----------------------------------------------------------------------------
(* The DUT (external) *)

\* The DUT's slave side takes the beat on the ports and chooses TREADY afresh.
DutSlaveEdge ==
  /\ m_tready' \in BOOLEAN
  /\ IF m.valid /\ m_tready
       THEN /\ dutGot' = IF m.last THEN Append(dutGot, dutPart \o KeptBytes(m)) ELSE dutGot
            /\ dutPart' = IF m.last THEN <<>> ELSE dutPart \o KeptBytes(m)
       ELSE UNCHANGED <<dutGot, dutPart>>

(***************************************************************************)
(* The DUT's master side.  TREADY is always high, so the beat on the ports *)
(* is taken at this edge; the DUT then drives any next beat or none.  The  *)
(* bytes of a beat carry its number, so that no two are alike.             *)
(***************************************************************************)
DutMasterEdge ==
  /\ IF s.valid
       THEN /\ dutSent' = IF s.last THEN Append(dutSent, dutOut \o KeptBytes(s)) ELSE dutSent
            /\ dutOut' = IF s.last THEN <<>> ELSE dutOut \o KeptBytes(s)
       ELSE UNCHANGED <<dutSent, dutOut>>
  /\ \/ s' = Quiet /\ UNCHANGED dutBeats
     \/ /\ dutBeats < load.beats
        /\ dutBeats' = dutBeats + 1
        /\ \E k \in SUBSET Lanes, e \in BOOLEAN :
             s' = [valid |-> TRUE, keep |-> k, last |-> e,
                   data |-> [i \in Lanes |-> AXIS_TDATA_BYTES * dutBeats + i]]

\* Delta cycles take no time: the clock rises when they have all run.
Settled == written = <<>> /\ nread = 0 /\ ~(txpc = "read" /\ fifo # <<>>)

Edge ==
  /\ Settled
  /\ TxEdge /\ RxEdge /\ DutSlaveEdge /\ DutMasterEdge
  /\ UNCHANGED <<callback, delivered, lost, accepted, sends, load>>
-----------------------------------------------------------------------------
(* sc_fifo's update phase (external) and ns-3 *)

FifoUpdate ==
  /\ written # <<>> \/ nread # 0
  /\ fifo' = fifo \o written /\ written' = <<>> /\ nread' = 0
  /\ UNCHANGED <<txpc, packet, offset, m, rxVars, dutVars, nsVars>>

\* Faulty variant: pending writes are not counted.
HasRoomIgnoringWrites == Len(fifo) + nread < FifoDepth

\* sc_fifo::num_free() > 0: slots read in this delta cycle are not free yet.
HasRoom == Len(fifo) + nread + Len(written) < FifoDepth

\* VerilatorNetDevice::Send: false, and the packet is dropped, when full.
Send ==
  /\ sends < load.sends
  /\ sends' = sends + 1
  /\ \E p \in TxPackets :
       \/ HasRoom /\ written' = Append(written, p) /\ accepted' = Append(accepted, p)
       \/ ~HasRoom /\ UNCHANGED <<written, accepted>>
  /\ UNCHANGED <<fifo, nread, txpc, packet, offset, m, rxVars, dutVars, events, callback,
                 delivered, lost, load>>

SetReceiveCallback ==
  /\ ~callback /\ callback' = TRUE
  /\ UNCHANGED <<txVars, rxVars, dutVars, events, delivered, lost, accepted, sends, load>>

\* The scheduled event runs; without a callback the packet is dropped.
DeliverPacket ==
  /\ events # <<>> /\ events' = Tail(events)
  /\ IF callback THEN delivered' = Append(delivered, Head(events)) /\ UNCHANGED lost
                 ELSE lost' = Append(lost, Head(events)) /\ UNCHANGED delivered
  /\ UNCHANGED <<txVars, rxVars, dutVars, callback, accepted, sends, load>>

Next == Edge \/ TxWake \/ FifoUpdate \/ Send \/ SetReceiveCallback \/ DeliverPacket

Spec == Init /\ [][Next]_vars

(***************************************************************************)
(* The clock keeps rising, delta cycles and ns-3 events run, and the DUT   *)
(* raises TREADY again and again.  ns-3 and the DUT need not send.         *)
(***************************************************************************)
Fairness ==
  /\ SF_vars(Edge /\ m_tready')
  /\ WF_vars(TxWake) /\ WF_vars(FifoUpdate) /\ WF_vars(DeliverPacket)

FairSpec == Spec /\ Fairness
-----------------------------------------------------------------------------
(* Properties *)

IsBeat(b) == /\ b.valid \in BOOLEAN /\ b.last \in BOOLEAN /\ b.keep \subseteq Lanes
             /\ DOMAIN b.data = Lanes

\* Every variable has its type; tx_thread waits for TREADY only inside a packet;
\* tx_fifo never holds more packets than it has slots, whatever is written and
\* read within one delta cycle.
TypeOK ==
  /\ Len(fifo) + nread + Len(written) <= FifoDepth
  /\ fifo \in Seq(TxPackets) /\ written \in Seq(TxPackets) /\ nread \in 0 .. 1
  /\ txpc \in {"read", "beat", "idle"} /\ packet \in TxPackets \cup {<<>>}
  /\ offset \in 0 .. Len(packet) /\ (txpc = "beat" => offset < Len(packet))
  /\ IsBeat(m) /\ IsBeat(s) /\ m_tready \in BOOLEAN
  /\ rxLast \in BOOLEAN /\ callback \in BOOLEAN
  /\ accepted \in Seq(TxPackets) /\ sends \in 0 .. MaxSends /\ dutBeats \in 0 .. MaxDutBeats
  /\ load \in Loads

\* AXI-Stream: a beat on the ports stays there, unchanged, until the edge at
\* which TREADY was high; nothing ns-3 does between edges disturbs it.
BeatHeldUntilReady == [][m.valid => m' = m \/ (m_tready /\ Edge)]_vars

NonEmpty(ps) == Filter(ps, TxPackets \ {<<>>})

Tx == INSTANCE PacketChannel WITH
        Packet <- TxPackets, sent <- NonEmpty(accepted), got <- dutGot

\* The DUT receives exactly the packets that Send accepted, whole, once each
\* and in order, under every TREADY pattern (an empty packet has no beat and
\* never shows on the ports).
TxChannel == Tx!Spec

Rx == INSTANCE PacketChannel WITH
        Packet <- Seq(1 .. AXIS_TDATA_BYTES * MaxDutBeats),
        sent <- dutSent, got <- lost \o delivered

\* ns-3 gets exactly the packets the DUT sent, reassembled by TKEEP and TLAST,
\* whole, once each and in order; only packets whose event ran before a
\* receive callback was set are lost.
RxChannel == Rx!Spec

\* An accepted packet reaches the DUT, and a packet the DUT ended reaches its
\* ns-3 event.
EventuallyThrough ==
  /\ \A n \in 1 .. MaxSends : (Len(NonEmpty(accepted)) >= n) ~> (Len(dutGot) >= n)
  /\ \A n \in 1 .. MaxDutBeats : (Len(dutSent) >= n) ~> (Len(lost \o delivered) >= n)
=============================================================================
