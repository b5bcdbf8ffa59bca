------------------------- MODULE AxiTransportProofs -------------------------
(***************************************************************************)
(* AxiTransport is correct for every packet set, beat width, socket buffer *)
(* and number of sends: its type invariant, and that sender and receiver   *)
(* implement PacketChannel when the caller stops at a failed send.         *)
(*                                                                         *)
(* The invariant is about the whole stream that the sender has started to  *)
(* write: a plan of its packets, of the packet and offset of every beat    *)
(* and of every byte.  Sender and receiver are at two places of the plan;  *)
(* the bytes of the beat not yet written, of the socket and of the beat    *)
(* read so far are the bytes between them.  Whatever write() and read()    *)
(* split, the receiver completes a beat at a place where the plan has one. *)
(* A packet that send() has not reported is never complete: the last byte  *)
(* of the plan is not in the socket then.                                  *)
(***************************************************************************)
EXTENDS AxiTransport, SequenceLemmas

\* Every variable has its type, the histories too.
TypeInv ==
  /\ tx \in {"closed", "open", "sending", "killed"}
  /\ txResult \in {"none", "SUCCESS", "OPEN_FAILED", "NOT_OPEN", "SEND_FAILED"}
  /\ packet \in Packets \cup {<<>>} /\ offset \in 0 .. Len(packet)
  /\ tx = "sending" => offset < Len(packet)
  /\ out \in Seq(Byte)
  /\ Len(out) \in IF tx \in {"sending", "killed"} THEN 1 .. BeatSize ELSE {0}
  /\ wire \in Seq(Byte) /\ Len(wire) <= SockBuf
  /\ txEof \in BOOLEAN /\ dut \in {"up", "down"}
  /\ rx \in {"closed", "open", "receiving"}
  /\ rxResult \in {"none", "SUCCESS", "OPEN_FAILED", "EOF", "RECV_FAILED"}
  /\ rx # "closed" => rxResult # "none"
  /\ beat \in Seq(Byte) /\ Len(beat) < BeatSize /\ rxPacket \in Seq(Byte)
  /\ sent \in Seq(Packets) /\ got \in Seq(Seq(Byte)) /\ sends \in 0 .. MaxSends

\* Where the beat after packet k's beat at offset o is: in packet k2 at o2.
Follows(S, k, o, k2, o2) ==
  LET next == o + ChunkSize(S[k], o) IN
  IF next < Len(S[k]) THEN k2 = k /\ o2 = next ELSE k2 = k + 1 /\ o2 = 0

(***************************************************************************)
(* The stream of n beats of the packets S: beat j shows packet K[j] at     *)
(* offset O[j] and ends off[j] bytes into the stream, whose bytes are H.   *)
(***************************************************************************)
PlanTypes(S, n, K, O, off) ==
  /\ S \in Seq(Packets) /\ n \in Nat
  /\ K \in [1 .. n + 1 -> Nat] /\ O \in [1 .. n + 1 -> Nat] /\ off \in [0 .. n -> Nat]
  /\ K[1] = 1 /\ O[1] = 0 /\ off[0] = 0
  /\ \A j \in 0 .. n : off[j] <= off[n]

\* Beat j, which begins after byte a.
PlannedBeat(S, K, O, H, j, a) ==
  /\ K[j] \in 1 .. Len(S) /\ O[j] < Len(S[K[j]])
  /\ Follows(S, K[j], O[j], K[j + 1], O[j + 1])
  /\ \A i \in 1 .. BeatSize : H[a + i] = BeatBytes(S[K[j]], O[j])[i]

Plan(S, n, K, O, off, H) ==
  /\ PlanTypes(S, n, K, O, off)
  /\ \A j \in 1 .. n : off[j] = off[j - 1] + BeatSize /\ PlannedBeat(S, K, O, H, j, off[j - 1])

\* Does the sender's next packet begin where the plan ends?
Idle == (tx = "open" /\ txResult # "SEND_FAILED") \/ (tx = "closed" /\ ~txEof)

\* The sender in the plan: its last packet is the one being sent, or was torn.
SenderAt(S, n, K, O, off, H) ==
  /\ Len(sent) <= Len(S) /\ Len(S) <= Len(sent) + 1
  /\ \A i \in 1 .. Len(sent) : S[i] = sent[i]
  /\ Idle => Len(S) = Len(sent) /\ K[n + 1] = Len(S) + 1 /\ O[n + 1] = 0
  /\ tx = "sending" =>
       /\ Len(S) = Len(sent) + 1 /\ n >= 1
       /\ K[n] = Len(S) /\ O[n] = offset /\ packet = S[Len(S)]
       /\ \A i \in 1 .. Len(out) : out[i] = H[off[n] - Len(out) + i]

\* Is the receiver between two packets of a stream that has not failed?
Fresh == (rx = "open" /\ rxResult = "SUCCESS") \/ (rx = "closed" /\ rxResult = "none")

\* The bytes between receiver, r beats into the stream, and sender.
InTransit(S, n, off, H, r) ==
  /\ r \in 0 .. n
  /\ off[r] + Len(beat) + Len(wire) <= off[n]
  /\ Len(S) # Len(sent) => off[r] + Len(beat) + Len(wire) < off[n]
  /\ (dut = "up" /\ (Idle \/ tx = "sending"))
       => off[r] + Len(beat) + Len(wire) + Len(out) = off[n]
  /\ \A i \in 1 .. Len(beat) : beat[i] = H[off[r] + i]
  /\ \A i \in 1 .. Len(wire) : wire[i] = H[off[r] + Len(beat) + i]

\* What receive has of the packet.
ReceiverAt(S, K, O, r) ==
  /\ Fresh => beat = <<>> /\ K[r + 1] = Len(got) + 1 /\ O[r + 1] = 0
  /\ rx = "receiving" =>
       /\ K[r + 1] = Len(got) + 1 /\ O[r + 1] = Len(rxPacket)
       /\ \A i \in 1 .. Len(rxPacket) : K[r + 1] <= Len(S) /\ rxPacket[i] = S[K[r + 1]][i]

Placed(S, n, K, O, off, H, r) ==
  /\ Plan(S, n, K, O, off, H) /\ SenderAt(S, n, K, O, off, H)
  /\ InTransit(S, n, off, H, r) /\ ReceiverAt(S, K, O, r)

\* The invariant of the stream.
StreamInv == \E S, n, K, O, off, H, r : Placed(S, n, K, O, off, H, r)
-----------------------------------------------------------------------------
\* The sizes.
LEMMA Sizes ==
  /\ TDATA_BYTES \in 1 .. 8 /\ TDATA_BYTES \in Nat /\ BeatSize = TDATA_BYTES + 2
  /\ BeatSize \in Nat /\ BeatSize >= 3
  /\ {} \in Byte /\ {0} \in Byte /\ \A c \in 0 .. 8 : 0 .. c - 1 \in Byte
<1>1. /\ TDATA_BYTES \in 1 .. 8 /\ TDATA_BYTES \in Nat /\ BeatSize = TDATA_BYTES + 2
      /\ BeatSize \in Nat /\ BeatSize >= 3
  BY TransportAssumption DEF BeatSize
<1>2. ASSUME NEW c \in 0 .. 8 PROVE 0 .. c - 1 \in Byte
  <2>1. \A i \in 0 .. c - 1 : i \in 0 .. 7
    OBVIOUS
  <2> QED
    BY <2>1 DEF Byte
<1>3. {} \in Byte /\ {0} \in Byte
  <2>1. 0 \in 0 .. 7
    OBVIOUS
  <2> QED
    BY <2>1 DEF Byte
<1> QED
  BY <1>1, <1>2, <1>3, Zenon

\* Packets are sequences of bytes.
LEMMA PacketsAreBytes ==
  ASSUME NEW p \in Packets \cup {<<>>}
  PROVE  p \in Seq(Byte) /\ Len(p) \in Nat
<1>1. <<>> \in Seq(Byte)
  OBVIOUS
<1>2. p \in Packets => p \in Seq(Byte)
  BY TransportAssumption, Zenon
<1>3. p \in Seq(Byte)
  BY <1>1, <1>2, Zenon
<1> QED
  BY <1>3

\* A beat carries at least one byte and at most what is left.
LEMMA ChunkFits ==
  ASSUME NEW p \in Seq(Byte), NEW o \in Nat, o < Len(p)
  PROVE  /\ ChunkSize(p, o) \in 1 .. TDATA_BYTES /\ o + ChunkSize(p, o) \in 1 .. Len(p)
         /\ o + ChunkSize(p, o) > o
BY Sizes DEF ChunkSize, Least

\* The fields of a beat.
LEMMA BeatFields ==
  ASSUME NEW p \in Seq(Byte), NEW o \in Nat, o < Len(p)
  PROVE  LET b == BeatBytes(p, o)
             c == ChunkSize(p, o)
             T == TDATA_BYTES IN
         /\ b \in Seq(Byte) /\ Len(b) = BeatSize
         /\ \A i \in 1 .. c : b[i] = p[o + i]
         /\ b[T + 1] = 0 .. c - 1
         /\ b[T + 2] = IF o + c >= Len(p) THEN {0} ELSE {}
<1> DEFINE T == TDATA_BYTES
           c == ChunkSize(p, o)
           d == [i \in 1 .. T |-> IF i <= c THEN p[o + i] ELSE {}]
           x == 0 .. c - 1
           y == IF o + c >= Len(p) THEN {0} ELSE {}
           b == BeatBytes(p, o)
<1>1. T \in Nat /\ T \in 1 .. 8 /\ c \in 1 .. T /\ o + c \in 1 .. Len(p) /\ BeatSize = T + 2
      /\ {} \in Byte /\ {0} \in Byte /\ Len(p) \in Nat
  BY Sizes, ChunkFits
<1>2. c \in 0 .. 8 /\ x \in Byte /\ y \in Byte
  <2>1. c \in 0 .. 8
    BY <1>1
  <2> QED
    BY <1>1, <2>1, Sizes
<1>3. b = d \o <<x, y>>
  BY DEF BeatBytes
<1> HIDE DEF c, x, y, b, T
<1>4. d \in Seq(Byte) /\ Len(d) = T /\ \A i \in 1 .. c : d[i] = p[o + i]
  <2>1. \A i \in 1 .. T : (IF i <= c THEN p[o + i] ELSE {}) \in Byte
    BY <1>1
  <2> QED
    BY <1>1, <2>1
<1> HIDE DEF d
<1>5. b \in Seq(Byte) /\ Len(b) = T + 2 /\ b[T + 1] = x /\ b[T + 2] = y
  BY <1>1, <1>2, <1>3, <1>4
<1>6. \A i \in 1 .. c : b[i] = p[o + i]
  BY <1>1, <1>2, <1>3, <1>4
<1> QED
  BY <1>1, <1>5, <1>6 DEF c, b, x, y, T

\* Kept bytes are bytes.
LEMMA KeptType ==
  ASSUME NEW b \in Seq(Byte), Len(b) = BeatSize
  PROVE  Kept(b) \in Seq(Byte)
<1> DEFINE q == [i \in 1 .. TDATA_BYTES |-> i]
           lanes == Filter(q, {i \in 1 .. TDATA_BYTES : i - 1 \in b[TDATA_BYTES + 1]})
           L == 1 .. TDATA_BYTES
<1>1. q \in Seq(L)
  BY Sizes
<1>2. lanes \in Seq(L)
  <2> HIDE DEF q, L
  <2> QED
    BY <1>1, FilterType
<1>3. Kept(b) = [k \in 1 .. Len(lanes) |-> b[lanes[k]]]
  BY DEF Kept
<1> HIDE DEF lanes
<1>4. Len(lanes) \in Nat /\ \A k \in 1 .. Len(lanes) : lanes[k] \in L
  <2> HIDE DEF L
  <2> QED
    BY <1>2
<1>5. \A k \in 1 .. Len(lanes) : b[lanes[k]] \in Byte
  BY <1>4, Sizes
<1> QED
  BY <1>3, <1>4, <1>5

\* The receiver reads from a beat what the sender put into it.
LEMMA BeatRead ==
  ASSUME NEW p \in Seq(Byte), NEW o \in Nat, o < Len(p)
  PROVE  LET e == o + ChunkSize(p, o) IN
         /\ Kept(BeatBytes(p, o)) = SubSeq(p, o + 1, e)
         /\ Last(BeatBytes(p, o)) <=> e = Len(p)
<1> DEFINE T == TDATA_BYTES
           c == ChunkSize(p, o)
           b == BeatBytes(p, o)
           keep == {i \in 1 .. T : i - 1 \in b[T + 1]}
           lanes == Filter([i \in 1 .. T |-> i], keep)
<1>1. T \in Nat /\ c \in 1 .. T /\ c \in 0 .. T /\ o + c \in 1 .. Len(p) /\ Len(p) \in Nat
  BY Sizes, ChunkFits
<1>2. /\ b[T + 1] = 0 .. c - 1 /\ b[T + 2] = IF o + c >= Len(p) THEN {0} ELSE {}
      /\ \A i \in 1 .. c : b[i] = p[o + i]
  BY BeatFields
<1>3. Kept(b) = [k \in 1 .. Len(lanes) |-> b[lanes[k]]] /\ (Last(b) <=> b[T + 2] # {})
  BY DEF Kept, Last
<1> HIDE DEF T, c, b
<1>4. keep = 1 .. c
  BY <1>1, <1>2
<1>5. lanes = [i \in 1 .. c |-> i]
  <2> HIDE DEF keep
  <2> QED
    BY <1>1, <1>4, FilterInterval
<1> HIDE DEF lanes
<1>6. Len(lanes) = c /\ \A k \in 1 .. c : lanes[k] = k
  BY <1>1, <1>5
<1>7. Kept(b) = [k \in 1 .. c |-> p[o + k]]
  BY <1>2, <1>3, <1>6
<1>8. [k \in 1 .. c |-> p[o + k]] = SubSeq(p, o + 1, o + c)
  <2> DEFINE u == [k \in 1 .. c |-> p[o + k]]
             v == SubSeq(p, o + 1, o + c)
  <2>1. u \in Seq(Byte) /\ v \in Seq(Byte) /\ Len(u) = c /\ Len(v) = c
    BY <1>1
  <2>2. \A k \in 1 .. c : u[k] = v[k]
    BY <1>1
  <2> HIDE DEF u, v
  <2>3. u = v
    BY <1>1, <2>1, <2>2, SeqEqual
  <2> QED
    BY <2>3 DEF u, v
<1>9. Last(b) <=> o + c = Len(p)
  BY <1>1, <1>2, <1>3
<1> QED
  BY <1>7, <1>8, <1>9 DEF b, c

\* A beat extends the part of the packet received before it.
LEMMA PartAfterBeat ==
  ASSUME NEW p \in Seq(Byte), NEW o \in Nat, o < Len(p), NEW part \in Seq(Byte),
         Len(part) = o, \A i \in 1 .. o : part[i] = p[i]
  PROVE  LET e == o + ChunkSize(p, o)
             q == part \o Kept(BeatBytes(p, o)) IN
         /\ q \in Seq(Byte) /\ Len(q) = e /\ \A i \in 1 .. e : q[i] = p[i]
<1> DEFINE e == o + ChunkSize(p, o)
           k == Kept(BeatBytes(p, o))
<1>1. e \in 1 .. Len(p) /\ e > o /\ Len(p) \in Nat /\ k = SubSeq(p, o + 1, e)
  BY ChunkFits, BeatRead
<1> HIDE DEF e, k
<1>2. k \in Seq(Byte) /\ Len(k) = e - o /\ \A i \in 1 .. e - o : k[i] = p[o + i]
  BY <1>1
<1>3. part \o k \in Seq(Byte) /\ Len(part \o k) = e
  BY <1>1, <1>2
<1>4. ASSUME NEW i \in 1 .. e PROVE (part \o k)[i] = p[i]
  <2>1. CASE i <= o
    BY <1>1, <1>2, <2>1
  <2>2. CASE i > o
    <3>1. (part \o k)[i] = k[i - o] /\ i - o \in 1 .. e - o /\ o + (i - o) = i
      <4>1. PICK l : l = i - o
        OBVIOUS
      <4>2. l \in 1 .. e - o /\ o + l = i /\ l \in 1 .. Len(k)
        BY <1>1, <1>2, <2>2, <4>1
      <4>3. (part \o k)[Len(part) + l] = k[l]
        BY <1>2, <4>2
      <4> QED
        BY <4>1, <4>2, <4>3
    <3> QED
      BY <1>2, <3>1
  <2> QED
    BY <1>1, <2>1, <2>2
<1> QED
  BY <1>3, <1>4 DEF e, k
-----------------------------------------------------------------------------
(* The plan *)

\* The empty stream.
NoBeats(K, O, off) == K = [j \in 1 .. 1 |-> 1] /\ O = [j \in 1 .. 1 |-> 0] /\ off = [j \in 0 .. 0 |-> 0]

LEMMA PlanEmpty ==
  ASSUME NEW K, NEW O, NEW off, NEW H, NoBeats(K, O, off)
  PROVE  Plan(<<>>, 0, K, O, off, H) /\ K[1] = 1 /\ O[1] = 0 /\ off[0] = 0
BY DEF NoBeats, Plan, PlanTypes

\* The plans (S2, K2, O2, off2, H2) and (S, K, O, off, H) of n beats agree.
Extends(S, n, K, O, off, H, S2, K2, O2, off2, H2) ==
  /\ Len(S) <= Len(S2) /\ \A i \in 1 .. Len(S) : S2[i] = S[i]
  /\ \A j \in 1 .. n + 1 : K2[j] = K[j] /\ O2[j] = O[j]
  /\ \A j \in 0 .. n : off2[j] = off[j]
  /\ off2[n + 1] = off[n] + BeatSize
  /\ \A x \in 1 .. off[n] : H2[x] = H[x]

\* There is room for beat n + 1 in the packets S2.
NextIn(S, n, K, O, S2) ==
  /\ S2 \in Seq(Packets) /\ Len(S) <= Len(S2) /\ \A i \in 1 .. Len(S) : S2[i] = S[i]
  /\ K[n + 1] \in 1 .. Len(S2) /\ O[n + 1] < Len(S2[K[n + 1]])

\* A beat stays planned in a plan that extends its own.
LEMMA PlannedBeatStays ==
  ASSUME NEW S \in Seq(Packets), NEW S2 \in Seq(Packets), NEW n \in Nat, NEW K, NEW O, NEW off, NEW H,
         NEW K2, NEW O2, NEW off2, NEW H2,
         PlanTypes(S, n, K, O, off),
         Extends(S, n, K, O, off, H, S2, K2, O2, off2, H2),
         NEW j \in 1 .. n, off[j] = off[j - 1] + BeatSize,
         PlannedBeat(S, K, O, H, j, off[j - 1])
  PROVE  off2[j] = off2[j - 1] + BeatSize /\ PlannedBeat(S2, K2, O2, H2, j, off2[j - 1])
<1>1. j \in 1 .. n + 1 /\ j + 1 \in 1 .. n + 1 /\ j \in 0 .. n /\ j - 1 \in 0 .. n
  OBVIOUS
<1>2. K2[j] = K[j] /\ O2[j] = O[j] /\ K2[j + 1] = K[j + 1] /\ O2[j + 1] = O[j + 1]
      /\ off2[j] = off[j] /\ off2[j - 1] = off[j - 1]
  BY <1>1 DEF Extends
<1>3. K[j] \in 1 .. Len(S) /\ S2[K[j]] = S[K[j]] /\ K[j] \in 1 .. Len(S2)
  BY DEF PlannedBeat, Extends
<1>4. off[j - 1] \in Nat /\ off[n] \in Nat /\ off[j - 1] + BeatSize <= off[n]
  BY <1>1 DEF PlanTypes
<1>5. ASSUME NEW i \in 1 .. BeatSize PROVE H2[off[j - 1] + i] = H[off[j - 1] + i]
  <2>1. off[j - 1] + i \in 1 .. off[n]
    BY <1>4, Sizes
  <2> QED
    BY <2>1 DEF Extends
<1>6. O[j] < Len(S[K[j]]) /\ Follows(S, K[j], O[j], K[j + 1], O[j + 1])
      /\ \A i \in 1 .. BeatSize : H[off[j - 1] + i] = BeatBytes(S[K[j]], O[j])[i]
  BY DEF PlannedBeat
<1>7. Follows(S2, K2[j], O2[j], K2[j + 1], O2[j + 1])
  BY <1>2, <1>3, <1>6 DEF Follows
<1>8. \A i \in 1 .. BeatSize : H2[off2[j - 1] + i] = BeatBytes(S2[K2[j]], O2[j])[i]
  BY <1>2, <1>3, <1>5, <1>6
<1> QED
  BY <1>2, <1>3, <1>6, <1>7, <1>8 DEF PlannedBeat

\* A plan is extended by a beat.
LEMMA PlanExtend ==
  ASSUME NEW S, NEW n, NEW K, NEW O, NEW off, NEW H, NEW S2,
         Plan(S, n, K, O, off, H), NextIn(S, n, K, O, S2)
  PROVE  \E K2, O2, off2, H2 : /\ Plan(S2, n + 1, K2, O2, off2, H2)
                               /\ Extends(S, n, K, O, off, H, S2, K2, O2, off2, H2)
<1> DEFINE k == K[n + 1]
           o == O[n + 1]
           next == o + ChunkSize(S2[k], o)
           more == next < Len(S2[k])
           k2 == IF more THEN k ELSE k + 1
           o2 == IF more THEN next ELSE 0
           b == BeatBytes(S2[k], o)
           K2 == [j \in 1 .. n + 2 |-> IF j = n + 2 THEN k2 ELSE K[j]]
           O2 == [j \in 1 .. n + 2 |-> IF j = n + 2 THEN o2 ELSE O[j]]
           off2 == [j \in 0 .. n + 1 |-> IF j = n + 1 THEN off[n] + BeatSize ELSE off[j]]
           H2 == [x \in Nat |-> IF x > off[n] THEN b[x - off[n]] ELSE H[x]]
<1>1. /\ S \in Seq(Packets) /\ n \in Nat /\ PlanTypes(S, n, K, O, off)
      /\ K \in [1 .. n + 1 -> Nat] /\ O \in [1 .. n + 1 -> Nat] /\ off \in [0 .. n -> Nat]
      /\ K[1] = 1 /\ O[1] = 0 /\ off[0] = 0 /\ \A j \in 0 .. n : off[j] <= off[n]
  BY DEF Plan, PlanTypes
<1>2. S2 \in Seq(Packets) /\ k \in 1 .. Len(S2) /\ o < Len(S2[k]) /\ k \in Nat /\ o \in Nat
  BY <1>1 DEF NextIn
<1>3. S2[k] \in Seq(Byte) /\ Len(S2[k]) \in Nat
  BY <1>2, PacketsAreBytes
<1>4. next \in Nat /\ k2 \in Nat /\ o2 \in Nat
  BY <1>2, <1>3, ChunkFits
<1>5. Follows(S2, k, o, k2, o2)
  BY DEF Follows
<1>6. off[n] \in Nat /\ BeatSize \in Nat
  BY <1>1, Sizes
<1> HIDE DEF k, o, k2, o2, b
<1>7. K2 \in [1 .. n + 2 -> Nat] /\ O2 \in [1 .. n + 2 -> Nat] /\ off2 \in [0 .. n + 1 -> Nat]
  BY <1>1, <1>4, <1>6
<1>8. /\ \A j \in 1 .. n + 1 : K2[j] = K[j] /\ O2[j] = O[j]
      /\ K2[n + 2] = k2 /\ O2[n + 2] = o2
      /\ \A j \in 0 .. n : off2[j] = off[j]
      /\ off2[n + 1] = off[n] + BeatSize
  BY <1>1
<1>9. /\ \A x \in 1 .. off[n] : H2[x] = H[x]
      /\ \A i \in 1 .. BeatSize : H2[off[n] + i] = b[i]
  BY <1>6
<1> HIDE DEF K2, O2, off2, H2
<1>10. Extends(S, n, K, O, off, H, S2, K2, O2, off2, H2)
  BY <1>8, <1>9 DEF Extends, NextIn
<1>11. PlanTypes(S2, n + 1, K2, O2, off2)
  <2>1. (n + 1) + 1 = n + 2 /\ n + 1 \in Nat
    BY <1>1
  <2>2. K2[1] = 1 /\ O2[1] = 0 /\ off2[0] = 0
    BY <1>1, <1>8
  <2>3. ASSUME NEW j \in 0 .. n + 1 PROVE off2[j] <= off2[n + 1]
    <3>1. CASE j = n + 1
      BY <1>6, <1>8, <3>1
    <3>2. CASE j # n + 1
      <4>1. j \in 0 .. n /\ off[j] \in Nat /\ off[j] <= off[n] /\ off2[j] = off[j]
        BY <1>1, <1>8, <3>2
      <4> QED
        BY <1>6, <1>8, <4>1
    <3> QED
      BY <3>1, <3>2
  <2> QED
    BY <1>2, <1>7, <2>1, <2>2, <2>3 DEF PlanTypes
<1>12. ASSUME NEW j \in 1 .. n + 1
       PROVE  off2[j] = off2[j - 1] + BeatSize /\ PlannedBeat(S2, K2, O2, H2, j, off2[j - 1])
  <2>1. CASE j = n + 1
    <3>1. /\ j - 1 = n /\ off2[j - 1] = off[n] /\ off2[j] = off[n] + BeatSize
          /\ K2[j] = k /\ O2[j] = o /\ K2[j + 1] = k2 /\ O2[j + 1] = o2
      <4>1. j - 1 = n /\ j + 1 = n + 2 /\ n \in 0 .. n /\ n + 1 \in 1 .. n + 1
        BY <1>1, <2>1
      <4> QED
        BY <1>8, <2>1, <4>1 DEF k, o
    <3>2. PlannedBeat(S2, K2, O2, H2, j, off[n])
      BY <1>2, <1>5, <1>9, <3>1 DEF PlannedBeat, b
    <3> QED
      BY <3>1, <3>2
  <2>2. CASE j # n + 1
    <3>1. j \in 1 .. n
      BY <1>1, <2>2
    <3>2. off[j] = off[j - 1] + BeatSize /\ PlannedBeat(S, K, O, H, j, off[j - 1])
      BY <3>1 DEF Plan
    <3> QED
      BY <1>1, <1>2, <1>10, <3>1, <3>2, PlannedBeatStays
  <2> QED
    BY <2>1, <2>2
<1>13. Plan(S2, n + 1, K2, O2, off2, H2)
  BY <1>11, <1>12 DEF Plan
<1> QED
  BY <1>10, <1>13

\* The bytes that the plan has for beat r + 1 are that beat.
LEMMA Fetched ==
  ASSUME NEW S, NEW n, NEW K, NEW O, NEW off, NEW H, Plan(S, n, K, O, off, H),
         NEW r \in 0 .. n, off[r] + BeatSize <= off[n],
         NEW b \in Seq(Byte), Len(b) = BeatSize, \A i \in 1 .. BeatSize : b[i] = H[off[r] + i]
  PROVE  /\ r + 1 \in 1 .. n /\ K[r + 1] \in 1 .. Len(S) /\ off[r + 1] = off[r] + BeatSize
         /\ O[r + 1] \in Nat /\ S[K[r + 1]] \in Seq(Byte) /\ O[r + 1] < Len(S[K[r + 1]])
         /\ b = BeatBytes(S[K[r + 1]], O[r + 1])
         /\ Follows(S, K[r + 1], O[r + 1], K[r + 2], O[r + 2])
<1>1. n \in Nat /\ off[r] \in Nat /\ off[n] \in Nat /\ BeatSize \in Nat /\ BeatSize >= 3
      /\ S \in Seq(Packets) /\ O \in [1 .. n + 1 -> Nat]
  BY Sizes DEF Plan, PlanTypes
<1>2. r # n
  BY <1>1
<1>3. r + 1 \in 1 .. n /\ (r + 1) - 1 = r /\ (r + 1) + 1 = r + 2 /\ r + 1 \in 1 .. n + 1
  BY <1>1, <1>2
<1>4. off[r + 1] = off[r] + BeatSize /\ PlannedBeat(S, K, O, H, r + 1, off[r])
  BY <1>3 DEF Plan
<1>5. /\ K[r + 1] \in 1 .. Len(S) /\ O[r + 1] < Len(S[K[r + 1]])
      /\ Follows(S, K[r + 1], O[r + 1], K[r + 2], O[r + 2])
      /\ \A i \in 1 .. BeatSize : H[off[r] + i] = BeatBytes(S[K[r + 1]], O[r + 1])[i]
  BY <1>3, <1>4 DEF PlannedBeat
<1>6. O[r + 1] \in Nat /\ S[K[r + 1]] \in Seq(Byte)
  BY <1>1, <1>3, <1>5, PacketsAreBytes
<1>7. BeatBytes(S[K[r + 1]], O[r + 1]) \in Seq(Byte) /\ Len(BeatBytes(S[K[r + 1]], O[r + 1])) = BeatSize
  BY <1>5, <1>6, BeatFields
<1>8. b = BeatBytes(S[K[r + 1]], O[r + 1])
  <2> DEFINE c == BeatBytes(S[K[r + 1]], O[r + 1])
  <2>1. c \in Seq(Byte) /\ Len(c) = Len(b) /\ \A i \in 1 .. Len(b) : b[i] = c[i]
    BY <1>5, <1>7
  <2> HIDE DEF c
  <2>2. b = c
    BY <2>1, SeqEqual
  <2> QED
    BY <2>2 DEF c
<1> QED
  BY <1>3, <1>4, <1>5, <1>6, <1>8
-----------------------------------------------------------------------------
(* The type invariant *)

\* write() took m bytes of the beat.
Wrote(m) ==
  /\ m \in 1 .. Len(out) /\ AfterWrite(m)
  /\ wire' \in Seq(Byte) /\ Len(wire') = Len(wire) + m /\ Len(wire') <= SockBuf
  /\ \A i \in 1 .. Len(wire) : wire'[i] = wire[i]
  /\ \A i \in 1 .. m : wire'[Len(wire) + i] = out[i]

\* What a write does to the socket.
LEMMA WriteMoves ==
  ASSUME TypeInv, Write
  PROVE  \E m : Wrote(m)
<1>1. PICK m \in 1 .. Least(Len(out), SockBuf - Len(wire)) :
        wire' = wire \o SubSeq(out, 1, m) /\ AfterWrite(m)
  BY DEF Write
<1>2. /\ out \in Seq(Byte) /\ wire \in Seq(Byte) /\ Len(out) \in Nat /\ Len(wire) \in Nat
      /\ SockBuf \in Nat /\ Len(wire) <= SockBuf
  BY TransportAssumption DEF TypeInv
<1>3. m \in 1 .. Len(out) /\ m <= SockBuf - Len(wire) /\ m \in Nat
  BY <1>2 DEF Least
<1> DEFINE u == SubSeq(out, 1, m)
<1>4. u \in Seq(Byte) /\ Len(u) = m /\ \A i \in 1 .. m : u[i] = out[i]
  BY <1>2, <1>3
<1> HIDE DEF u
<1>5. /\ wire' \in Seq(Byte) /\ Len(wire') = Len(wire) + m
      /\ \A i \in 1 .. Len(wire) : wire'[i] = wire[i]
  BY <1>1, <1>2, <1>3, <1>4 DEF u
<1>6. ASSUME NEW i \in 1 .. m PROVE wire'[Len(wire) + i] = out[i]
  <2>1. (wire \o u)[Len(wire) + i] = u[i]
    BY <1>2, <1>4
  <2> QED
    BY <1>1, <1>4, <2>1 DEF u
<1>7. Len(wire') <= SockBuf
  BY <1>2, <1>3, <1>5
<1> QED
  BY <1>1, <1>3, <1>5, <1>6, <1>7 DEF Wrote

\* read() took m bytes from the socket, which makes b of the beat.
Took(m, b) ==
  /\ m \in 1 .. Len(wire) /\ AfterRead(b)
  /\ b \in Seq(Byte) /\ Len(b) = Len(beat) + m /\ Len(b) <= BeatSize
  /\ \A i \in 1 .. Len(beat) : b[i] = beat[i]
  /\ \A i \in 1 .. m : b[Len(beat) + i] = wire[i]
  /\ wire' \in Seq(Byte) /\ Len(wire') = Len(wire) - m
  /\ \A i \in 1 .. Len(wire') : wire'[i] = wire[m + i]

\* What a read does to the socket.
LEMMA ReadMoves ==
  ASSUME TypeInv, Read
  PROVE  \E m, b : Took(m, b)
<1>1. PICK m \in 1 .. Least(Len(wire), BeatSize - Len(beat)) :
        /\ wire' = SubSeq(wire, m + 1, Len(wire))
        /\ AfterRead(beat \o SubSeq(wire, 1, m))
  BY DEF Read
<1>2. /\ beat \in Seq(Byte) /\ wire \in Seq(Byte) /\ Len(beat) \in Nat /\ Len(wire) \in Nat
      /\ BeatSize \in Nat /\ Len(beat) < BeatSize
  BY Sizes DEF TypeInv
<1>3. m \in 1 .. Len(wire) /\ m <= BeatSize - Len(beat) /\ m \in Nat
  BY <1>2 DEF Least
<1> DEFINE u == SubSeq(wire, 1, m)
           b == beat \o u
<1>4. u \in Seq(Byte) /\ Len(u) = m /\ \A i \in 1 .. m : u[i] = wire[i]
  BY <1>2, <1>3
<1>5. wire' \in Seq(Byte) /\ Len(wire') = Len(wire) - m
      /\ \A i \in 1 .. Len(wire') : wire'[i] = wire[m + i]
  BY <1>1, <1>2, <1>3
<1>6. AfterRead(b)
  BY <1>1
<1> HIDE DEF u
<1>7. b \in Seq(Byte) /\ Len(b) = Len(beat) + m /\ \A i \in 1 .. Len(beat) : b[i] = beat[i]
  BY <1>2, <1>3, <1>4
<1>8. ASSUME NEW i \in 1 .. m PROVE b[Len(beat) + i] = wire[i]
  BY <1>2, <1>4
<1> HIDE DEF b
<1>9. Len(b) <= BeatSize
  BY <1>2, <1>3, <1>7
<1> QED
  BY <1>3, <1>5, <1>6, <1>7, <1>8, <1>9 DEF Took

\* Initially the types are right.
LEMMA InitType == Init => TypeInv
<1> SUFFICES ASSUME Init PROVE TypeInv
  OBVIOUS
<1> DEFINE e == <<>>
<1>1. /\ e \in Seq(Byte) /\ Len(e) = 0 /\ e \in Seq(Packets) /\ e \in Seq(Seq(Byte))
      /\ BeatSize \in Nat /\ BeatSize >= 3 /\ SockBuf \in Nat /\ 0 \in 0 .. MaxSends
  BY Sizes, TransportAssumption
<1>2. /\ packet = e /\ out = e /\ wire = e /\ beat = e /\ rxPacket = e /\ sent = e /\ got = e
      /\ tx = "closed" /\ txResult = "none" /\ offset = 0 /\ txEof = FALSE /\ dut = "up"
      /\ rx = "closed" /\ rxResult = "none" /\ sends = 0
  BY DEF Init
<1>3. e \in Packets \cup {<<>>}
  BY DEF e
<1> HIDE DEF e
<1>4. offset \in 0 .. Len(packet) /\ Len(wire) <= SockBuf /\ Len(beat) < BeatSize
  BY <1>1, <1>2
<1>5. txEof \in BOOLEAN
  BY <1>2, Zenon
<1>6. Len(out) \in {0}
  BY <1>1, <1>2
<1> QED
  BY <1>1, <1>2, <1>3, <1>4, <1>5, <1>6, Zenon DEF TypeInv

\* A sent beat leaves the types right.
LEMMA WriteType ==
  ASSUME TypeInv, Write
  PROVE  TypeInv'
<1>1. PICK m : Wrote(m)
  BY WriteMoves
<1>2. /\ tx = "sending" /\ packet' = packet /\ sends' = sends
      /\ UNCHANGED <<txEof, dut, rx, rxResult, beat, rxPacket, got>>
  BY DEF Write, rxVars
<1>3. /\ packet \in Packets \cup {<<>>} /\ packet \in Seq(Byte) /\ Len(packet) \in Nat
      /\ offset \in Nat /\ offset < Len(packet) /\ BeatSize \in Nat
  BY <1>2, PacketsAreBytes, Sizes DEF TypeInv
<1>4. packet \in Packets
  BY <1>3
<1>5. wire' \in Seq(Byte) /\ Len(wire') <= SockBuf /\ m \in 1 .. Len(out) /\ AfterWrite(m)
  BY <1>1 DEF Wrote
<1>6. CASE m # Len(out)
  <2>1. out' = SubSeq(out, m + 1, Len(out)) /\ UNCHANGED <<tx, txResult, offset, sent>>
    BY <1>5, <1>6 DEF AfterWrite
  <2>2. out \in Seq(Byte) /\ Len(out) \in 1 .. BeatSize
    BY <1>2 DEF TypeInv
  <2>3. out' \in Seq(Byte) /\ Len(out') \in 1 .. BeatSize
    BY <1>3, <1>5, <1>6, <2>1, <2>2
  <2> QED
    BY <1>2, <1>5, <2>1, <2>3 DEF TypeInv
<1>7. CASE m = Len(out)
  <2> DEFINE next == offset + ChunkSize(packet, offset)
  <2>1. next \in 1 .. Len(packet) /\ next \in Nat
    BY <1>3, ChunkFits
  <2>2. BeatWritten
    BY <1>5, <1>7 DEF AfterWrite
  <2>3. offset' = next
    BY <2>2 DEF BeatWritten
  <2>4. CASE next < Len(packet)
    <3>1. out' = BeatBytes(packet, next) /\ UNCHANGED <<tx, txResult, sent>>
      BY <2>2, <2>4 DEF BeatWritten
    <3> HIDE DEF next
    <3>2. out' \in Seq(Byte) /\ Len(out') = BeatSize
      BY <1>3, <2>1, <2>4, <3>1, BeatFields
    <3>3. Len(out') \in 1 .. BeatSize
      BY <3>2, Sizes
    <3>4. offset' \in 0 .. Len(packet') /\ offset' < Len(packet')
      BY <1>2, <1>3, <2>1, <2>3, <2>4
    <3> QED
      BY <1>2, <1>5, <3>1, <3>2, <3>3, <3>4 DEF TypeInv
  <2>5. CASE ~(next < Len(packet))
    <3>1. tx' = "open" /\ txResult' = "SUCCESS" /\ out' = <<>> /\ sent' = Append(sent, packet)
      BY <2>2, <2>5 DEF BeatWritten
    <3> HIDE DEF next
    <3>2. sent' \in Seq(Packets) /\ out' \in Seq(Byte) /\ Len(out') = 0
      BY <1>4, <3>1 DEF TypeInv
    <3>3. offset' \in 0 .. Len(packet')
      BY <1>2, <1>3, <2>1, <2>3
    <3> QED
      BY <1>2, <1>5, <3>1, <3>2, <3>3 DEF TypeInv
  <2> QED
    BY <2>4, <2>5
<1> QED
  BY <1>6, <1>7

\* So does a read.
LEMMA ReadType ==
  ASSUME TypeInv, Read
  PROVE  TypeInv'
<1>1. PICK m, b : Took(m, b)
  BY ReadMoves
<1>2. /\ UNCHANGED <<tx, txResult, packet, offset, out, sent, sends>>
      /\ UNCHANGED <<txEof, dut, rxResult>>
  BY DEF Read, txVars
<1>3. /\ wire' \in Seq(Byte) /\ Len(wire') = Len(wire) - m /\ m \in 1 .. Len(wire)
      /\ b \in Seq(Byte) /\ Len(b) <= BeatSize /\ AfterRead(b)
  BY <1>1 DEF Took
<1>4. Len(wire') <= SockBuf
  BY <1>3, TransportAssumption DEF TypeInv
<1>5. CASE Len(b) # BeatSize
  <2>1. beat' = b /\ UNCHANGED <<rx, rxPacket, got>>
    BY <1>3, <1>5 DEF AfterRead
  <2>2. Len(b) < BeatSize
    BY <1>3, <1>5, Sizes
  <2> QED
    BY <1>2, <1>3, <1>4, <2>1, <2>2 DEF TypeInv
<1>6. CASE Len(b) = BeatSize
  <2>1. /\ beat' = <<>> /\ rxPacket' = rxPacket \o Kept(b)
        /\ IF Last(b) THEN rx' = "open" /\ got' = Append(got, rxPacket \o Kept(b))
           ELSE UNCHANGED <<rx, got>>
    BY <1>3, <1>6 DEF AfterRead, TakeBeat
  <2>2. Kept(b) \in Seq(Byte)
    BY <1>3, <1>6, KeptType
  <2>3. rxPacket \o Kept(b) \in Seq(Byte)
    BY <2>2 DEF TypeInv
  <2>4. beat' \in Seq(Byte) /\ Len(beat') < BeatSize
    BY <2>1, Sizes
  <2>5. got' \in Seq(Seq(Byte)) /\ rx' \in {"closed", "open", "receiving"}
    <3> DEFINE B == Seq(Byte)
               w == rxPacket \o Kept(b)
    <3>1. got \in Seq(B) /\ w \in B /\ rx \in {"closed", "open", "receiving"}
      BY <2>3 DEF TypeInv
    <3>2. IF Last(b) THEN rx' = "open" /\ got' = Append(got, w) ELSE UNCHANGED <<rx, got>>
      BY <2>1
    <3> HIDE DEF B, w
    <3>3. got' \in Seq(B) /\ rx' \in {"closed", "open", "receiving"}
      BY <3>1, <3>2
    <3> QED
      BY <3>3 DEF B
  <2>6. rxResult' # "none"
    BY <1>2 DEF Read, TypeInv
  <2> QED
    BY <1>2, <1>3, <1>4, <2>1, <2>3, <2>4, <2>5, <2>6 DEF TypeInv
<1> QED
  BY <1>5, <1>6

\* So does the start of a send.
LEMMA SendType ==
  ASSUME TypeInv, Send
  PROVE  TypeInv'
<1>1. /\ sends < MaxSends /\ sends' = sends + 1 /\ tx \in {"closed", "open"}
      /\ UNCHANGED <<sent, wire, txEof, dut, rx, rxResult, beat, rxPacket, got>>
  BY DEF Send, CallerGoesOn, rxVars
<1>2. sends' \in 0 .. MaxSends
  BY <1>1, TransportAssumption DEF TypeInv
<1>3. CASE txResult' \in {"NOT_OPEN", "SUCCESS"} /\ UNCHANGED <<tx, packet, offset, out>>
  BY <1>1, <1>2, <1>3 DEF TypeInv
<1>4. ASSUME NEW p \in Packets, p # <<>>, tx' = "sending", packet' = p, offset' = 0,
             out' = BeatBytes(p, 0), UNCHANGED txResult
      PROVE  TypeInv'
  <2>1. p \in Seq(Byte) /\ Len(p) \in Nat /\ 0 < Len(p)
    BY <1>4, PacketsAreBytes
  <2>2. out' \in Seq(Byte) /\ Len(out') \in 1 .. BeatSize
    <3>1. BeatBytes(p, 0) \in Seq(Byte) /\ Len(BeatBytes(p, 0)) = BeatSize
      BY <2>1, BeatFields
    <3> QED
      BY <1>4, <3>1, Sizes
  <2>3. offset' \in 0 .. Len(packet') /\ offset' < Len(packet')
    BY <1>4, <2>1
  <2> QED
    BY <1>1, <1>2, <1>4, <2>2, <2>3 DEF TypeInv
<1> QED
  BY <1>3, <1>4 DEF Send

\* The harness' end only takes bytes away.
LEMMA DutGoneType ==
  ASSUME TypeInv, DutGone
  PROVE  /\ TypeInv' /\ Len(wire') \in Nat /\ Len(wire') <= Len(wire)
         /\ \A i \in 1 .. Len(wire') : wire'[i] = wire[i]
<1>1. PICK n \in 0 .. Len(wire) : wire' = SubSeq(wire, 1, n)
  BY DEF DutGone
<1>2. wire \in Seq(Byte) /\ Len(wire) \in Nat /\ Len(wire) <= SockBuf
  BY DEF TypeInv
<1>3. wire' \in Seq(Byte) /\ Len(wire') = n /\ \A i \in 1 .. n : wire'[i] = wire[i]
  BY <1>1, <1>2
<1>4. Len(wire') <= SockBuf
  BY <1>2, <1>3, TransportAssumption
<1>5. /\ UNCHANGED <<tx, txResult, packet, offset, out, sent, sends>> /\ dut' = "down"
      /\ UNCHANGED <<txEof, rx, rxResult, beat, rxPacket, got>>
  BY DEF DutGone, txVars, rxVars
<1>6. TypeInv'
  BY <1>3, <1>4, <1>5 DEF TypeInv
<1> QED
  BY <1>2, <1>3, <1>6

\* Every step preserves the types.
LEMMA NextType == TypeInv /\ [Next]_vars => TypeInv'
<1> SUFFICES ASSUME TypeInv, [Next]_vars PROVE TypeInv'
  OBVIOUS
<1>e. <<>> \in Seq(Byte) /\ Len(<<>>) = 0 /\ Len(<<>>) < BeatSize
  BY Sizes
<1>1. CASE SenderOpen
  BY <1>1 DEF SenderOpen, rxVars, TypeInv
<1>2. CASE Send
  BY <1>2, SendType
<1>3. CASE Write
  BY <1>3, WriteType
<1>4. CASE WriteError
  BY <1>e, <1>4 DEF WriteError, rxVars, TypeInv
<1>5. CASE WriteToNobody
  BY <1>5 DEF WriteToNobody, rxVars, TypeInv
<1>6. CASE SenderClose
  BY <1>6 DEF SenderClose, rxVars, TypeInv
<1>7. CASE ReceiverOpen
  BY <1>7 DEF ReceiverOpen, txVars, TypeInv
<1>8. CASE Receive
  BY <1>e, <1>8 DEF Receive, txVars, TypeInv
<1>9. CASE Read
  BY <1>9, ReadType
<1>10. CASE ReadEof \/ ReadError
  BY <1>10 DEF ReadEof, ReadError, txVars, TypeInv
<1>11. CASE ReceiverClose
  BY <1>11 DEF ReceiverClose, txVars, TypeInv
<1>12. CASE DutGone
  BY <1>12, DutGoneType
<1>13. CASE UNCHANGED vars
  BY <1>13 DEF vars, txVars, rxVars, TypeInv
<1> QED
  BY <1>1, <1>2, <1>3, <1>4, <1>5, <1>6, <1>7, <1>8, <1>9, <1>10, <1>11, <1>12, <1>13
  DEF Next, SenderStep, ReceiverStep

\* So they always hold.
LEMMA TypesHold == Spec => []TypeInv
BY InitType, NextType, PTL DEF Spec

\* The type invariant: in particular, VerilatorSender and VerilatorReceiver are never
\* in a call with nothing left of their beat, and the socket holds what it can.
THEOREM TypeCorrectness == Spec => []TypeOK
<1>1. TypeInv => TypeOK
  BY DEF TypeInv, TypeOK, IsBytes
<1> QED
  BY <1>1, TypesHold, PTL
-----------------------------------------------------------------------------
(* The stream *)

\* Initially nothing is planned.
LEMMA InitStream == Init => StreamInv
<1> SUFFICES ASSUME Init PROVE StreamInv
  OBVIOUS
<1> DEFINE e == <<>>
           K == [j \in 1 .. 1 |-> 1]
           O == [j \in 1 .. 1 |-> 0]
           off == [j \in 0 .. 0 |-> 0]
           H == <<>>
<1>1. Plan(e, 0, K, O, off, H) /\ K[1] = 1 /\ O[1] = 0 /\ off[0] = 0
  BY PlanEmpty DEF NoBeats
<1>2. /\ sent = e /\ got = e /\ out = e /\ wire = e /\ beat = e /\ rxPacket = e
      /\ tx = "closed" /\ rx = "closed" /\ Len(e) = 0
  BY DEF Init
<1> HIDE DEF K, O, off, H, e
<1>3. SenderAt(e, 0, K, O, off, H)
  BY <1>1, <1>2 DEF SenderAt
<1>4. InTransit(e, 0, off, H, 0)
  BY <1>1, <1>2 DEF InTransit
<1>5. ReceiverAt(e, K, O, 0)
  BY <1>1, <1>2 DEF ReceiverAt, e
<1>6. Placed(e, 0, K, O, off, H, 0)
  BY <1>1, <1>3, <1>4, <1>5 DEF Placed
<1> QED
  BY <1>6 DEF StreamInv

\* The values that a state's place in a plan relates are numbers.
LEMMA PlacedTypes ==
  ASSUME TypeInv, NEW S, NEW n, NEW K, NEW O, NEW off, NEW H, NEW r,
         Placed(S, n, K, O, off, H, r)
  PROVE  /\ S \in Seq(Packets) /\ Len(S) \in Nat /\ n \in Nat /\ r \in 0 .. n /\ r + 1 \in 1 .. n + 1
         /\ off[r] \in Nat /\ off[n] \in Nat /\ K[r + 1] \in Nat /\ O[r + 1] \in Nat
         /\ Len(sent) \in Nat /\ Len(got) \in Nat /\ Len(out) \in Nat
         /\ Len(wire) \in Nat /\ Len(beat) \in Nat /\ Len(rxPacket) \in Nat
         /\ beat \in Seq(Byte) /\ wire \in Seq(Byte) /\ out \in Seq(Byte) /\ rxPacket \in Seq(Byte)
<1>1. PlanTypes(S, n, K, O, off) /\ r \in 0 .. n
  BY DEF Placed, Plan, InTransit
<1>2. n \in Nat /\ S \in Seq(Packets)
  BY <1>1 DEF PlanTypes
<1>3. r + 1 \in 1 .. n + 1 /\ n \in 0 .. n
  BY <1>1, <1>2
<1>4. off[r] \in Nat /\ off[n] \in Nat /\ K[r + 1] \in Nat /\ O[r + 1] \in Nat
  BY <1>1, <1>3 DEF PlanTypes
<1>5. /\ beat \in Seq(Byte) /\ wire \in Seq(Byte) /\ out \in Seq(Byte) /\ rxPacket \in Seq(Byte)
      /\ sent \in Seq(Packets) /\ got \in Seq(Seq(Byte))
  BY DEF TypeInv
<1>6. Len(sent) \in Nat /\ Len(S) \in Nat
  BY <1>2, <1>5
<1>7. Len(got) \in Nat
  <2> DEFINE B == Seq(Byte)
  <2>1. got \in Seq(B)
    BY <1>5
  <2> HIDE DEF B
  <2> QED
    BY <2>1
<1>8. Len(wire) \in Nat /\ Len(beat) \in Nat /\ Len(out) \in Nat /\ Len(rxPacket) \in Nat
  BY <1>5
<1> QED
  BY <1>1, <1>2, <1>3, <1>4, <1>5, <1>6, <1>7, <1>8

\* A step of the sender that writes nothing.
LEMMA SenderKeepsPlan ==
  ASSUME StreamInv, UNCHANGED <<sent, wire, dut, rx, rxResult, beat, rxPacket, got>>,
         Idle' => Idle /\ out' = out, tx' # "sending"
  PROVE  StreamInv'
<1>1. PICK S, n, K, O, off, H, r : Placed(S, n, K, O, off, H, r)
  BY DEF StreamInv
<1>2. Plan(S, n, K, O, off, H) /\ SenderAt(S, n, K, O, off, H)
      /\ InTransit(S, n, off, H, r) /\ ReceiverAt(S, K, O, r)
  BY <1>1 DEF Placed
<1>3. SenderAt(S, n, K, O, off, H)'
  BY <1>2 DEF SenderAt
<1>4. InTransit(S, n, off, H, r)'
  BY <1>2 DEF InTransit
<1>5. ReceiverAt(S, K, O, r)'
  BY <1>2 DEF ReceiverAt, Fresh
<1>6. Placed(S, n, K, O, off, H, r)'
  BY <1>2, <1>3, <1>4, <1>5 DEF Placed
<1> QED
  BY <1>6 DEF StreamInv

\* A step of the receiver that reads nothing.
LEMMA ReceiverKeepsPlan ==
  ASSUME StreamInv, TypeInv, UNCHANGED <<tx, txResult, packet, offset, out, sent, wire, txEof, dut, got>>,
         beat' = beat \/ (Fresh /\ beat' = <<>>),
         Fresh' => Fresh, rx' = "receiving" => Fresh /\ rxPacket' = <<>>
  PROVE  StreamInv'
<1>1. PICK S, n, K, O, off, H, r : Placed(S, n, K, O, off, H, r)
  BY DEF StreamInv
<1>2. Plan(S, n, K, O, off, H) /\ SenderAt(S, n, K, O, off, H)
      /\ InTransit(S, n, off, H, r) /\ ReceiverAt(S, K, O, r)
  BY <1>1 DEF Placed
<1>3. beat' = beat /\ UNCHANGED Idle
  BY <1>2 DEF ReceiverAt, Idle
<1>4. SenderAt(S, n, K, O, off, H)'
  BY <1>2, <1>3 DEF SenderAt
<1>5. InTransit(S, n, off, H, r)'
  BY <1>2, <1>3 DEF InTransit
<1>6. ReceiverAt(S, K, O, r)'
  <2>1. Fresh => beat = <<>> /\ K[r + 1] = Len(got) + 1 /\ O[r + 1] = 0
    BY <1>2 DEF ReceiverAt
  <2>2. Len(<<>>) = 0
    OBVIOUS
  <2> QED
    BY <1>3, <2>1, <2>2 DEF ReceiverAt
<1>7. Placed(S, n, K, O, off, H, r)'
  BY <1>2, <1>4, <1>5, <1>6 DEF Placed
<1> QED
  BY <1>7 DEF StreamInv

\* The harness' end leaves a prefix of what was in the socket.
LEMMA DutGoneStream ==
  ASSUME TypeInv, StreamInv, DutGone
  PROVE  StreamInv'
<1>1. PICK S, n, K, O, off, H, r : Placed(S, n, K, O, off, H, r)
  BY DEF StreamInv
<1>2. Plan(S, n, K, O, off, H) /\ SenderAt(S, n, K, O, off, H)
      /\ InTransit(S, n, off, H, r) /\ ReceiverAt(S, K, O, r)
  BY <1>1 DEF Placed
<1>3. /\ UNCHANGED <<tx, txResult, packet, offset, out, sent, txEof>> /\ dut' = "down"
      /\ UNCHANGED <<rx, rxResult, beat, rxPacket, got>>
  BY DEF DutGone, txVars, rxVars
<1>4. SenderAt(S, n, K, O, off, H)' /\ ReceiverAt(S, K, O, r)'
  BY <1>2, <1>3 DEF SenderAt, Idle, ReceiverAt, Fresh
<1>5. Len(wire') \in Nat /\ Len(wire') <= Len(wire) /\ \A i \in 1 .. Len(wire') : wire'[i] = wire[i]
  BY DutGoneType
<1>6. InTransit(S, n, off, H, r)'
  <2>1. off[r] \in Nat /\ off[n] \in Nat /\ Len(beat) \in Nat /\ Len(wire) \in Nat
    BY <1>1, PlacedTypes
  <2>2. /\ off[r] + Len(beat) + Len(wire') <= off[n]
        /\ Len(S) # Len(sent) => off[r] + Len(beat) + Len(wire') < off[n]
    BY <1>2, <1>5, <2>1 DEF InTransit
  <2>3. \A i \in 1 .. Len(wire') : wire'[i] = H[off[r] + Len(beat) + i]
    BY <1>2, <1>5, <2>1 DEF InTransit
  <2> QED
    BY <1>2, <1>3, <2>2, <2>3 DEF InTransit
<1>7. Placed(S, n, K, O, off, H, r)'
  BY <1>2, <1>4, <1>6 DEF Placed
<1> QED
  BY <1>7 DEF StreamInv
-----------------------------------------------------------------------------
(* The sender plans another beat *)

\* The bytes of beat and socket are the plan's from byte a on.
Carries(b, w, H, a) ==
  /\ \A i \in 1 .. Len(b) : b[i] = H[a + i]
  /\ \A i \in 1 .. Len(w) : w[i] = H[a + Len(b) + i]

\* A plan's bytes stay when it is extended.
LEMMA CarriesStays ==
  ASSUME NEW b, NEW w, NEW H, NEW H2, NEW a \in Nat, NEW z \in Nat, Carries(b, w, H, a),
         Len(b) \in Nat, Len(w) \in Nat, a + Len(b) + Len(w) <= z,
         \A x \in 1 .. z : H2[x] = H[x]
  PROVE  Carries(b, w, H2, a)
<1>1. PICK l, k : l = Len(b) /\ k = Len(w)
  OBVIOUS
<1>2. l \in Nat /\ k \in Nat /\ a + l + k <= z
  BY <1>1
<1>3. \A i \in 1 .. l : a + i \in 1 .. z
  BY <1>2
<1>4. \A i \in 1 .. k : a + l + i \in 1 .. z
  BY <1>2
<1>5. \A i \in 1 .. l : b[i] = H2[a + i]
  BY <1>1, <1>3 DEF Carries
<1>6. \A i \in 1 .. k : w[i] = H2[a + l + i]
  BY <1>1, <1>4 DEF Carries
<1> QED
  BY <1>1, <1>5, <1>6 DEF Carries

\* The receiver's place stays when the plan is extended.
LEMMA ReceiverStays ==
  ASSUME TypeInv, NEW S, NEW n \in Nat, NEW K, NEW O, NEW off, NEW H,
         NEW S2, NEW K2, NEW O2, NEW off2, NEW H2, NEW r \in 0 .. n,
         Extends(S, n, K, O, off, H, S2, K2, O2, off2, H2), ReceiverAt(S, K, O, r),
         S \in Seq(Packets), S2 \in Seq(Packets),
         UNCHANGED <<rx, rxResult, beat, rxPacket, got>>
  PROVE  ReceiverAt(S2, K2, O2, r)'
<1>1. r + 1 \in 1 .. n + 1
  OBVIOUS
<1>2. K2[r + 1] = K[r + 1] /\ O2[r + 1] = O[r + 1]
  BY <1>1 DEF Extends
<1>3. Fresh' => beat' = <<>> /\ K2[r + 1] = Len(got') + 1 /\ O2[r + 1] = 0
  BY <1>2 DEF ReceiverAt, Fresh
<1>4. ASSUME rx = "receiving"
      PROVE  /\ K2[r + 1] = Len(got') + 1 /\ O2[r + 1] = Len(rxPacket')
             /\ \A i \in 1 .. Len(rxPacket') : K2[r + 1] <= Len(S2) /\ rxPacket'[i] = S2[K2[r + 1]][i]
  <2>1. K[r + 1] = Len(got) + 1 /\ O[r + 1] = Len(rxPacket)
    BY <1>4 DEF ReceiverAt
  <2>2. Len(got) \in Nat /\ Len(S) \in Nat /\ Len(S2) \in Nat
    <3> DEFINE B == Seq(Byte)
    <3>1. got \in Seq(B)
      BY DEF TypeInv
    <3> HIDE DEF B
    <3> QED
      BY <3>1
  <2>3. ASSUME NEW i \in 1 .. Len(rxPacket)
        PROVE  K2[r + 1] <= Len(S2) /\ rxPacket[i] = S2[K2[r + 1]][i]
    <3>1. K[r + 1] <= Len(S) /\ rxPacket[i] = S[K[r + 1]][i]
      BY <1>4 DEF ReceiverAt
    <3>2. K[r + 1] \in 1 .. Len(S)
      BY <2>1, <2>2, <3>1
    <3>3. S2[K[r + 1]] = S[K[r + 1]] /\ Len(S) <= Len(S2)
      BY <3>2 DEF Extends
    <3> QED
      BY <1>2, <2>2, <3>1, <3>2, <3>3
  <2> QED
    BY <1>2, <2>1, <2>3
<1> QED
  BY <1>3, <1>4 DEF ReceiverAt

\* The sender presents the next beat, where the plan ends.
Presents(S, n, K, O, S2) ==
  /\ NextIn(S, n, K, O, S2) /\ tx' = "sending" /\ UNCHANGED <<rx, rxResult, beat, rxPacket, got>>
  /\ Len(S2) = Len(sent') + 1 /\ \A i \in 1 .. Len(sent') : S2[i] = sent'[i]
  /\ K[n + 1] = Len(S2) /\ O[n + 1] = offset' /\ packet' = S2[Len(S2)]
  /\ out' = BeatBytes(packet', offset')

\* Beat and socket are the last bytes of the plan that are written.
AllWritten(n, off, H, r) ==
  /\ off[r] + Len(beat') + Len(wire') <= off[n]
  /\ dut' = "up" => off[r] + Len(beat') + Len(wire') = off[n]
  /\ Carries(beat', wire', H, off[r])

LEMMA BeatPresented ==
  ASSUME TypeInv, TypeInv', NEW S, NEW n, NEW K, NEW O, NEW off, NEW H, NEW r \in 0 .. n, NEW S2,
         Plan(S, n, K, O, off, H), ReceiverAt(S, K, O, r),
         Presents(S, n, K, O, S2), AllWritten(n, off, H, r)
  PROVE  StreamInv'
<1>1. PICK K2, O2, off2, H2 : /\ Plan(S2, n + 1, K2, O2, off2, H2)
                              /\ Extends(S, n, K, O, off, H, S2, K2, O2, off2, H2)
  BY PlanExtend DEF Presents
<1>2. /\ n \in Nat /\ S \in Seq(Packets) /\ S2 \in Seq(Packets) /\ off[r] \in Nat /\ off[n] \in Nat
  BY DEF Plan, PlanTypes, Presents, NextIn
<1>3. /\ K2[n + 1] = K[n + 1] /\ O2[n + 1] = O[n + 1] /\ off2[r] = off[r] /\ off2[n] = off[n]
      /\ off2[n + 1] = off[n] + BeatSize /\ \A x \in 1 .. off[n] : H2[x] = H[x]
  <2>1. n + 1 \in 1 .. n + 1 /\ n \in 0 .. n
    BY <1>2
  <2> QED
    BY <1>1, <2>1 DEF Extends
<1>4. /\ packet' \in Seq(Byte) /\ offset' \in Nat /\ offset' < Len(packet')
      /\ Len(out') = BeatSize /\ BeatSize \in Nat /\ BeatSize >= 3
  <2>1. packet' \in Seq(Byte) /\ offset' \in Nat /\ offset' < Len(packet')
    <3>1. packet' \in Packets \cup {<<>>} /\ offset' \in 0 .. Len(packet') /\ offset' < Len(packet')
      BY DEF TypeInv, Presents
    <3>2. packet' \in Seq(Byte)
      BY <3>1, PacketsAreBytes
    <3> QED
      BY <3>1, <3>2
  <2>2. Len(BeatBytes(packet', offset')) = BeatSize
    BY <2>1, BeatFields
  <2> QED
    BY <2>1, <2>2, Sizes DEF Presents
<1>5. \A i \in 1 .. BeatSize : H2[off[n] + i] = out'[i]
  <2>1. n + 1 \in 1 .. n + 1 /\ (n + 1) - 1 = n
    BY <1>2
  <2>2. PlannedBeat(S2, K2, O2, H2, n + 1, off2[n])
    BY <1>1, <2>1 DEF Plan
  <2>3. \A i \in 1 .. BeatSize : H2[off[n] + i] = BeatBytes(S2[K2[n + 1]], O2[n + 1])[i]
    BY <1>3, <2>2 DEF PlannedBeat
  <2> QED
    BY <1>3, <2>3 DEF Presents
<1>6. SenderAt(S2, n + 1, K2, O2, off2, H2)'
  <2>1. ~Idle' /\ tx' = "sending" /\ n + 1 >= 1
    BY <1>2 DEF Presents, Idle
  <2>2. Len(sent') \in Nat
    BY DEF TypeInv
  <2>3. \A i \in 1 .. Len(out') : out'[i] = H2[off2[n + 1] - Len(out') + i]
    <3>1. off2[n + 1] - Len(out') = off[n]
      BY <1>2, <1>3, <1>4
    <3> QED
      BY <1>4, <1>5, <3>1
  <2>4. /\ Len(S2) = Len(sent') + 1 /\ \A i \in 1 .. Len(sent') : S2[i] = sent'[i]
        /\ K2[n + 1] = Len(S2) /\ O2[n + 1] = offset' /\ packet' = S2[Len(S2)]
    BY <1>3 DEF Presents
  <2> QED
    BY <2>1, <2>2, <2>3, <2>4 DEF SenderAt
<1>7. InTransit(S2, n + 1, off2, H2, r)'
  <2>1. Len(beat') \in Nat /\ Len(wire') \in Nat
    BY DEF TypeInv
  <2>2. /\ off[r] + Len(beat') + Len(wire') <= off[n]
        /\ dut' = "up" => off[r] + Len(beat') + Len(wire') = off[n]
        /\ Carries(beat', wire', H, off[r])
    BY DEF AllWritten
  <2>3. Carries(beat', wire', H2, off[r])
    BY <1>2, <1>3, <2>1, <2>2, CarriesStays
  <2>4. PICK x, y, z, t : /\ x = off[r] /\ y = Len(beat') /\ z = Len(wire') /\ t = off[n]
    OBVIOUS
  <2>5. /\ x \in Nat /\ y \in Nat /\ z \in Nat /\ t \in Nat /\ x + y + z <= t
        /\ dut' = "up" => x + y + z = t
    BY <1>2, <2>1, <2>2, <2>4
  <2>6. /\ x + y + z <= t + BeatSize /\ x + y + z < t + BeatSize
        /\ dut' = "up" => x + y + z + BeatSize = t + BeatSize
    BY <1>4, <2>5
  <2>7. r \in 0 .. n + 1
    BY <1>2
  <2> QED
    BY <1>3, <1>4, <2>3, <2>4, <2>6, <2>7 DEF InTransit, Carries
<1>8. ReceiverAt(S2, K2, O2, r)'
  BY <1>1, <1>2, ReceiverStays DEF Presents
<1>9. Placed(S2, n + 1, K2, O2, off2, H2, r)'
  BY <1>1, <1>6, <1>7, <1>8 DEF Placed
<1> QED
  BY <1>9 DEF StreamInv

\* send() of a packet begins where the plan ends.
LEMMA SendStream ==
  ASSUME TypeInv, TypeInv', StreamInv, KeepGoing = FALSE, Send
  PROVE  StreamInv'
<1>1. /\ tx \in {"closed", "open"} /\ txResult # "SEND_FAILED"
      /\ UNCHANGED <<sent, wire, txEof, dut, rx, rxResult, beat, rxPacket, got>>
  BY DEF Send, CallerGoesOn, rxVars
<1>2. CASE UNCHANGED <<tx, packet, offset, out>>
  <2>1. Idle' => Idle /\ out' = out
    BY <1>1, <1>2 DEF Idle
  <2> QED
    BY <1>1, <1>2, <2>1, SenderKeepsPlan
<1>3. ASSUME NEW p \in Packets, tx = "open", p # <<>>, tx' = "sending", packet' = p, offset' = 0,
             out' = BeatBytes(p, 0)
      PROVE  StreamInv'
  <2>1. PICK S, n, K, O, off, H, r : Placed(S, n, K, O, off, H, r)
    BY DEF StreamInv
  <2>2. Plan(S, n, K, O, off, H) /\ SenderAt(S, n, K, O, off, H)
        /\ InTransit(S, n, off, H, r) /\ ReceiverAt(S, K, O, r)
    BY <2>1 DEF Placed
  <2>3. /\ S \in Seq(Packets) /\ Len(S) \in Nat /\ r \in 0 .. n /\ off[r] \in Nat
        /\ off[n] \in Nat /\ Len(beat) \in Nat /\ Len(wire) \in Nat
    BY <2>1, PlacedTypes
  <2>4. /\ Idle /\ Len(S) = Len(sent) /\ K[n + 1] = Len(S) + 1 /\ O[n + 1] = 0
        /\ \A i \in 1 .. Len(sent) : S[i] = sent[i]
    BY <1>1, <1>3, <2>2 DEF Idle, SenderAt
  <2>5. 0 < Len(p)
    BY <1>3, PacketsAreBytes
  <2> DEFINE S2 == Append(S, p)
  <2>6. /\ S2 \in Seq(Packets) /\ Len(S2) = Len(S) + 1 /\ S2[Len(S) + 1] = p
        /\ \A i \in 1 .. Len(S) : S2[i] = S[i]
    BY <2>3
  <2> HIDE DEF S2
  <2>7. NextIn(S, n, K, O, S2)
    BY <2>3, <2>4, <2>5, <2>6 DEF NextIn
  <2>8. Presents(S, n, K, O, S2)
    BY <1>1, <1>3, <2>4, <2>6, <2>7 DEF Presents
  <2>9. AllWritten(n, off, H, r)
    <3>1. Len(out) = 0
      BY <1>3 DEF TypeInv
    <3>2. dut = "up" => off[r] + Len(beat) + Len(wire) = off[n]
      BY <2>2, <2>3, <2>4, <3>1 DEF InTransit
    <3> QED
      BY <1>1, <2>2, <3>2 DEF AllWritten, InTransit, Carries
  <2> QED
    BY <2>2, <2>3, <2>8, <2>9, BeatPresented
<1> QED
  BY <1>2, <1>3 DEF Send

\* The bytes written go to the end of the socket.
LEMMA WriteTransit ==
  ASSUME TypeInv, NEW S, NEW n, NEW K, NEW O, NEW off, NEW H, NEW r,
         Placed(S, n, K, O, off, H, r), NEW m, Wrote(m), tx = "sending", dut = "up", beat' = beat
  PROVE  /\ Carries(beat', wire', H, off[r])
         /\ off[r] + Len(beat') + Len(wire') + (Len(out) - m) = off[n]
<1>1. PICK a, x, y, z, t : /\ a = off[r] /\ x = Len(beat) /\ y = Len(wire) /\ z = Len(out)
                           /\ t = off[n]
  OBVIOUS
<1>2. a \in Nat /\ x \in Nat /\ y \in Nat /\ z \in Nat /\ t \in Nat
  BY <1>1, PlacedTypes
<1>3. /\ a + x + y + z = t
      /\ \A i \in 1 .. x : beat[i] = H[a + i]
      /\ \A i \in 1 .. y : wire[i] = H[a + x + i]
      /\ \A i \in 1 .. z : out[i] = H[t - z + i]
  BY <1>1 DEF Placed, InTransit, SenderAt
<1>4. /\ m \in 1 .. z /\ Len(wire') = y + m /\ \A i \in 1 .. y : wire'[i] = wire[i]
      /\ \A i \in 1 .. m : wire'[y + i] = out[i]
  BY <1>1 DEF Wrote
<1>5. ASSUME NEW i \in 1 .. y + m PROVE wire'[i] = H[a + x + i]
  <2>1. CASE i <= y
    BY <1>2, <1>3, <1>4, <2>1
  <2>2. CASE i > y
    <3>1. PICK j : j = i - y
      OBVIOUS
    <3>2. j \in 1 .. m /\ y + j = i /\ j \in 1 .. z /\ t - z + j = a + x + i
      BY <1>2, <1>3, <1>4, <2>2, <3>1
    <3>3. wire'[y + j] = out[j] /\ out[j] = H[t - z + j]
      BY <1>3, <1>4, <3>2
    <3> QED
      BY <3>2, <3>3
  <2> QED
    BY <1>2, <1>4, <2>1, <2>2
<1>6. a + x + (y + m) + (z - m) = t
  BY <1>2, <1>3, <1>4
<1> QED
  BY <1>1, <1>3, <1>4, <1>5, <1>6 DEF Carries

\* writeAll writes the stream of the plan.
LEMMA WriteStream ==
  ASSUME TypeInv, TypeInv', StreamInv, Write
  PROVE  StreamInv'
<1>1. PICK m : Wrote(m)
  BY WriteMoves
<1>2. PICK S, n, K, O, off, H, r : Placed(S, n, K, O, off, H, r)
  BY DEF StreamInv
<1>3. Plan(S, n, K, O, off, H) /\ SenderAt(S, n, K, O, off, H)
      /\ InTransit(S, n, off, H, r) /\ ReceiverAt(S, K, O, r)
  BY <1>2 DEF Placed
<1>4. /\ S \in Seq(Packets) /\ Len(S) \in Nat /\ n \in Nat /\ r \in 0 .. n /\ off[r] \in Nat
      /\ off[n] \in Nat /\ Len(beat) \in Nat /\ Len(out) \in Nat /\ Len(sent) \in Nat
  BY <1>2, PlacedTypes
<1>5. /\ tx = "sending" /\ dut = "up" /\ UNCHANGED <<packet, txEof, dut>>
      /\ UNCHANGED <<rx, rxResult, beat, rxPacket, got>>
  BY DEF Write, rxVars
<1>6. /\ Len(S) = Len(sent) + 1 /\ n >= 1 /\ K[n] = Len(S) /\ O[n] = offset /\ packet = S[Len(S)]
      /\ \A i \in 1 .. Len(sent) : S[i] = sent[i]
      /\ \A i \in 1 .. Len(out) : out[i] = H[off[n] - Len(out) + i]
  BY <1>3, <1>5 DEF SenderAt
<1>7. /\ Carries(beat', wire', H, off[r])
      /\ off[r] + Len(beat') + Len(wire') + (Len(out) - m) = off[n]
  BY <1>1, <1>2, <1>5, WriteTransit
<1>8. m \in 1 .. Len(out) /\ AfterWrite(m) /\ Len(wire') \in Nat
  BY <1>1 DEF Wrote
<1>9. Follows(S, K[n], O[n], K[n + 1], O[n + 1])
  <2>1. n \in 1 .. n
    BY <1>4, <1>6
  <2> QED
    BY <1>3, <2>1 DEF Plan, PlannedBeat
<1>10. CASE m # Len(out)
  <2>1. out' = SubSeq(out, m + 1, Len(out)) /\ UNCHANGED <<tx, txResult, offset, sent>>
    BY <1>8, <1>10 DEF AfterWrite
  <2>2. /\ out \in Seq(Byte) /\ Len(out') = Len(out) - m
        /\ \A i \in 1 .. Len(out) - m : out'[i] = out[m + i]
    <3>1. out \in Seq(Byte)
      BY DEF TypeInv
    <3> QED
      BY <1>8, <2>1, <3>1
  <2>3. ASSUME NEW i \in 1 .. Len(out') PROVE out'[i] = H[off[n] - Len(out') + i]
    <3>1. PICK z, t : z = Len(out) /\ t = off[n]
      OBVIOUS
    <3>2. m + i \in 1 .. z /\ t - (z - m) + i = t - z + (m + i)
      <4>1. z \in Nat /\ t \in Nat /\ m \in 1 .. z /\ i \in 1 .. z - m
        BY <1>4, <1>8, <2>2, <3>1
      <4> QED
        BY <4>1
    <3>3. out[m + i] = H[t - z + (m + i)]
      BY <1>6, <3>1, <3>2
    <3> QED
      BY <2>2, <3>1, <3>2, <3>3
  <2>4. SenderAt(S, n, K, O, off, H)'
    <3>1. ~Idle' /\ tx' = "sending"
      BY <1>5, <2>1 DEF Idle
    <3>2. /\ Len(sent') <= Len(S) /\ Len(S) <= Len(sent') + 1 /\ Len(S) = Len(sent') + 1
          /\ \A i \in 1 .. Len(sent') : S[i] = sent'[i]
      BY <1>4, <1>6, <2>1
    <3>3. n >= 1 /\ K[n] = Len(S) /\ O[n] = offset' /\ packet' = S[Len(S)]
      BY <1>5, <1>6, <2>1
    <3> QED
      BY <2>3, <3>1, <3>2, <3>3 DEF SenderAt
  <2>5. InTransit(S, n, off, H, r)'
    <3>1. PICK x, y, z, t : /\ x = off[r] /\ y = Len(beat') /\ z = Len(wire') /\ t = off[n]
      OBVIOUS
    <3>2. /\ x + y + z + Len(out') = t /\ x \in Nat /\ y \in Nat /\ z \in Nat /\ t \in Nat
          /\ Len(out') \in Nat /\ Len(out') >= 1
      BY <1>4, <1>5, <1>7, <1>8, <1>10, <2>2, <3>1
    <3>3. x + y + z <= t /\ x + y + z < t
      BY <3>2
    <3> QED
      BY <1>4, <1>7, <3>1, <3>2, <3>3 DEF InTransit, Carries
  <2>6. ReceiverAt(S, K, O, r)'
    BY <1>3, <1>5 DEF ReceiverAt, Fresh
  <2>7. Placed(S, n, K, O, off, H, r)'
    BY <1>3, <2>4, <2>5, <2>6 DEF Placed
  <2> QED
    BY <2>7 DEF StreamInv
<1>11. CASE m = Len(out)
  <2> DEFINE next == offset + ChunkSize(packet, offset)
  <2>1. BeatWritten /\ offset' = next
    BY <1>8, <1>11 DEF AfterWrite, BeatWritten
  <2>2. off[r] + Len(beat') + Len(wire') = off[n]
    BY <1>4, <1>5, <1>7, <1>8, <1>11
  <2>3. CASE next < Len(packet)
    <3>1. out' = BeatBytes(packet, next) /\ UNCHANGED <<tx, txResult, sent>>
      BY <2>1, <2>3 DEF BeatWritten
    <3>2. K[n + 1] = Len(S) /\ O[n + 1] = next
      BY <1>6, <1>9, <2>3 DEF Follows
    <3>3. NextIn(S, n, K, O, S)
      BY <1>4, <1>6, <2>3, <3>2 DEF NextIn
    <3> HIDE DEF next
    <3>4. Presents(S, n, K, O, S)
      BY <1>5, <1>6, <2>1, <3>1, <3>2, <3>3 DEF Presents
    <3>5. AllWritten(n, off, H, r)
      <4>1. off[r] + Len(beat') + Len(wire') <= off[n]
        BY <1>4, <2>2
      <4> QED
        BY <1>7, <2>2, <4>1 DEF AllWritten
    <3> QED
      BY <1>3, <1>4, <3>4, <3>5, BeatPresented
  <2>4. CASE ~(next < Len(packet))
    <3>1. tx' = "open" /\ txResult' = "SUCCESS" /\ out' = <<>> /\ sent' = Append(sent, packet)
      BY <2>1, <2>4 DEF BeatWritten
    <3>2. K[n + 1] = Len(S) + 1 /\ O[n + 1] = 0
      BY <1>6, <1>9, <2>4 DEF Follows
    <3>3. /\ Len(sent') = Len(S) /\ \A i \in 1 .. Len(sent') : S[i] = sent'[i]
      <4>1. sent \in Seq(Packets) /\ packet \in Packets
        BY <1>4, <1>6 DEF TypeInv
      <4>2. /\ Len(sent') = Len(sent) + 1 /\ sent'[Len(sent) + 1] = packet
            /\ \A i \in 1 .. Len(sent) : sent'[i] = sent[i]
        BY <3>1, <4>1
      <4>3. ASSUME NEW i \in 1 .. Len(sent) + 1 PROVE S[i] = sent'[i]
        <5>1. CASE i = Len(sent) + 1
          BY <1>6, <4>2, <5>1
        <5>2. CASE i # Len(sent) + 1
          BY <1>4, <1>6, <4>2, <5>2
        <5> QED
          BY <5>1, <5>2
      <4> QED
        BY <1>6, <4>2, <4>3
    <3>4. SenderAt(S, n, K, O, off, H)'
      BY <1>4, <3>1, <3>2, <3>3 DEF SenderAt
    <3>5. InTransit(S, n, off, H, r)'
      <4>1. Len(out') = 0
        BY <3>1
      <4>2. PICK x : x = off[r] + Len(beat') + Len(wire')
        OBVIOUS
      <4>3. x \in Nat /\ x <= off[n] /\ x + Len(out') = off[n]
        BY <1>4, <2>2, <4>1, <4>2
      <4> QED
        BY <1>4, <1>7, <3>3, <4>2, <4>3 DEF InTransit, Carries
    <3>6. ReceiverAt(S, K, O, r)'
      BY <1>3, <1>5 DEF ReceiverAt, Fresh
    <3>7. Placed(S, n, K, O, off, H, r)'
      BY <1>3, <3>4, <3>5, <3>6 DEF Placed
    <3> QED
      BY <3>7 DEF StreamInv
  <2> QED
    BY <2>3, <2>4
<1> QED
  BY <1>10, <1>11
-----------------------------------------------------------------------------
(* The receiver *)

\* read() moves bytes from the socket to the beat.
LEMMA ReadTransit ==
  ASSUME TypeInv, NEW S, NEW n, NEW K, NEW O, NEW off, NEW H, NEW r,
         Placed(S, n, K, O, off, H, r), NEW m, NEW b, Took(m, b)
  PROVE  /\ Carries(b, wire', H, off[r])
         /\ Len(b) + Len(wire') = Len(beat) + Len(wire)
<1>1. PICK a, x, y : a = off[r] /\ x = Len(beat) /\ y = Len(wire)
  OBVIOUS
<1>2. a \in Nat /\ x \in Nat /\ y \in Nat
  BY <1>1, PlacedTypes
<1>3. /\ \A i \in 1 .. x : beat[i] = H[a + i]
      /\ \A i \in 1 .. y : wire[i] = H[a + x + i]
  BY <1>1 DEF Placed, InTransit
<1>4. /\ m \in 1 .. y /\ Len(b) = x + m /\ Len(wire') = y - m
      /\ \A i \in 1 .. x : b[i] = beat[i]
      /\ \A i \in 1 .. m : b[x + i] = wire[i]
      /\ \A i \in 1 .. y - m : wire'[i] = wire[m + i]
  BY <1>1 DEF Took
<1>5. ASSUME NEW i \in 1 .. x + m PROVE b[i] = H[a + i]
  <2>1. CASE i <= x
    BY <1>2, <1>3, <1>4, <2>1
  <2>2. CASE i > x
    <3>1. PICK j : j = i - x
      OBVIOUS
    <3>2. j \in 1 .. m /\ x + j = i /\ j \in 1 .. y /\ a + x + j = a + i
      BY <1>2, <1>4, <2>2, <3>1
    <3>3. b[x + j] = wire[j] /\ wire[j] = H[a + x + j]
      BY <1>3, <1>4, <3>2
    <3> QED
      BY <3>2, <3>3
  <2> QED
    BY <1>2, <1>4, <2>1, <2>2
<1>6. ASSUME NEW i \in 1 .. y - m PROVE wire'[i] = H[a + (x + m) + i]
  <2>1. m + i \in 1 .. y /\ a + x + (m + i) = a + (x + m) + i
    BY <1>2, <1>4
  <2>2. wire'[i] = wire[m + i] /\ wire[m + i] = H[a + x + (m + i)]
    BY <1>3, <1>4, <2>1
  <2> QED
    BY <2>1, <2>2
<1>7. (x + m) + (y - m) = x + y
  BY <1>2, <1>4
<1> QED
  BY <1>1, <1>4, <1>5, <1>6, <1>7 DEF Carries

\* Of the plan's packets only the reported ones can be complete at the receiver:
\* the next one, if read to its end, is the next reported one.
LEMMA CompleteIsSent ==
  ASSUME TypeInv, NEW S, NEW n, NEW K, NEW O, NEW off, NEW H, NEW r,
         Placed(S, n, K, O, off, H, r), r + 1 \in 1 .. n, K[r + 1] \in 1 .. Len(S),
         off[r + 1] = off[r] + BeatSize, off[r + 1] <= off[r] + Len(beat) + Len(wire),
         K[r + 2] = K[r + 1] + 1
  PROVE  K[r + 1] \in 1 .. Len(sent) /\ S[K[r + 1]] = sent[K[r + 1]]
<1>1. /\ Len(S) \in Nat /\ Len(sent) \in Nat /\ n \in Nat /\ r \in 0 .. n /\ off[r] \in Nat
      /\ off[n] \in Nat /\ Len(beat) \in Nat /\ Len(wire) \in Nat /\ BeatSize \in Nat
  BY PlacedTypes, Sizes
<1>2. /\ Len(sent) <= Len(S) /\ Len(S) <= Len(sent) + 1
      /\ \A i \in 1 .. Len(sent) : S[i] = sent[i]
      /\ Len(S) # Len(sent) => off[r] + Len(beat) + Len(wire) < off[n]
  BY DEF Placed, SenderAt, InTransit
<1>3. CASE Len(S) = Len(sent)
  BY <1>2, <1>3
<1>4. CASE Len(S) # Len(sent)
  <2>1. r + 1 # n
    BY <1>1, <1>2, <1>4
  <2>2. r + 2 \in 1 .. n
    BY <1>1, <2>1
  <2>3. K[r + 2] \in 1 .. Len(S)
    BY <2>2 DEF Placed, Plan, PlannedBeat
  <2>4. K[r + 1] \in 1 .. Len(sent)
    BY <1>1, <1>2, <2>3
  <2> QED
    BY <1>2, <2>4
<1> QED
  BY <1>3, <1>4

\* A whole beat of the stream: the receiver is one beat further in the plan, and
\* when it reports a packet, it is the next one that send() reported.
LEMMA BeatTaken ==
  ASSUME TypeInv, StreamInv, NEW m, NEW b, Took(m, b), Len(b) = BeatSize, rx = "receiving",
         UNCHANGED <<tx, txResult, packet, offset, out, sent, txEof, dut, rxResult>>
  PROVE  /\ StreamInv'
         /\ got' # got => /\ Len(got) < Len(sent)
                          /\ got' = Append(got, sent[Len(got) + 1])
<1>1. PICK S, n, K, O, off, H, r : Placed(S, n, K, O, off, H, r)
  BY DEF StreamInv
<1>2. Plan(S, n, K, O, off, H) /\ SenderAt(S, n, K, O, off, H)
      /\ InTransit(S, n, off, H, r) /\ ReceiverAt(S, K, O, r)
  BY <1>1 DEF Placed
<1>3. /\ S \in Seq(Packets) /\ Len(S) \in Nat /\ n \in Nat /\ r \in 0 .. n /\ off[r] \in Nat
      /\ off[n] \in Nat /\ Len(beat) \in Nat /\ Len(wire) \in Nat /\ Len(out) \in Nat
      /\ Len(got) \in Nat /\ Len(rxPacket) \in Nat /\ rxPacket \in Seq(Byte) /\ Len(sent) \in Nat
  BY <1>1, PlacedTypes
<1>4. b \in Seq(Byte) /\ AfterRead(b) /\ Len(wire') \in Nat
  BY DEF Took
<1>5. Carries(b, wire', H, off[r]) /\ BeatSize + Len(wire') = Len(beat) + Len(wire)
  BY <1>1, ReadTransit
<1>6. off[r] + BeatSize + Len(wire') = off[r] + Len(beat) + Len(wire)
      /\ off[r] + BeatSize <= off[n] /\ BeatSize \in Nat
  <2>1. off[r] + Len(beat) + Len(wire) <= off[n]
    BY <1>2 DEF InTransit
  <2>2. PICK a, x, y, z, t : /\ a = off[r] /\ x = Len(beat) /\ y = Len(wire) /\ z = Len(wire')
                             /\ t = off[n]
    OBVIOUS
  <2>3. /\ a \in Nat /\ x \in Nat /\ y \in Nat /\ z \in Nat /\ t \in Nat /\ BeatSize \in Nat
        /\ a + x + y <= t /\ BeatSize + z = x + y
    BY <1>3, <1>4, <1>5, <2>1, <2>2, Sizes
  <2>4. a + BeatSize + z = a + x + y /\ a + BeatSize <= t
    BY <2>3
  <2> QED
    BY <2>2, <2>3, <2>4
<1> DEFINE k == K[r + 1]
           o == O[r + 1]
           p == S[k]
           e == o + ChunkSize(p, o)
           q == rxPacket \o Kept(b)
<1>7. /\ r + 1 \in 1 .. n /\ k \in 1 .. Len(S) /\ off[r + 1] = off[r] + BeatSize
      /\ o \in Nat /\ p \in Seq(Byte) /\ o < Len(p) /\ b = BeatBytes(p, o)
      /\ Follows(S, k, o, K[r + 2], O[r + 2])
  <2>1. \A i \in 1 .. BeatSize : b[i] = H[off[r] + i]
    BY <1>5 DEF Carries
  <2>2. Plan(S, n, K, O, off, H) /\ r \in 0 .. n /\ off[r] + BeatSize <= off[n] /\ b \in Seq(Byte)
    BY <1>2, <1>3, <1>4, <1>6
  <2>3. /\ r + 1 \in 1 .. n /\ K[r + 1] \in 1 .. Len(S) /\ off[r + 1] = off[r] + BeatSize
        /\ O[r + 1] \in Nat /\ S[K[r + 1]] \in Seq(Byte) /\ O[r + 1] < Len(S[K[r + 1]])
        /\ b = BeatBytes(S[K[r + 1]], O[r + 1])
        /\ Follows(S, K[r + 1], O[r + 1], K[r + 2], O[r + 2])
    BY <2>1, <2>2, Fetched
  <2> QED
    BY <2>3, Zenon
<1>8. k = Len(got) + 1 /\ o = Len(rxPacket) /\ \A i \in 1 .. o : rxPacket[i] = p[i]
  BY <1>2 DEF ReceiverAt
<1>9. q \in Seq(Byte) /\ Len(q) = e /\ \A i \in 1 .. e : q[i] = p[i]
  <2> HIDE DEF k, o, p
  <2> QED
    <3>1. q = rxPacket \o Kept(BeatBytes(p, o))
      BY <1>7
    <3>2. /\ p \in Seq(Byte) /\ o \in Nat /\ o < Len(p) /\ rxPacket \in Seq(Byte)
          /\ Len(rxPacket) = o /\ \A i \in 1 .. o : rxPacket[i] = p[i]
      BY <1>3, <1>7, <1>8
    <3> HIDE DEF q
    <3>3. LET w == rxPacket \o Kept(BeatBytes(p, o)) IN
          w \in Seq(Byte) /\ Len(w) = e /\ \A i \in 1 .. e : w[i] = p[i]
      BY <3>2, PartAfterBeat
    <3> QED
      BY <3>1, <3>3
<1>10. (Last(b) <=> e = Len(p)) /\ e \in 1 .. Len(p) /\ Len(p) \in Nat
  <2> HIDE DEF k, o, p
  <2> QED
    BY <1>7, BeatRead, ChunkFits
<1>11. /\ beat' = <<>> /\ rxPacket' = q
       /\ IF Last(b) THEN rx' = "open" /\ got' = Append(got, q) ELSE UNCHANGED <<rx, got>>
  BY <1>4 DEF AfterRead, TakeBeat
<1>12. SenderAt(S, n, K, O, off, H)'
  BY <1>2 DEF SenderAt, Idle
<1>13. InTransit(S, n, off, H, r + 1)'
  <2>1. Len(beat') = 0
    BY <1>11
  <2>2. off[r + 1] + Len(beat') + Len(wire') = off[r] + Len(beat) + Len(wire)
    BY <1>3, <1>4, <1>6, <1>7, <2>1
  <2>3. \A i \in 1 .. Len(wire') : wire'[i] = H[off[r + 1] + Len(beat') + i]
    <3>1. off[r + 1] + Len(beat') = off[r] + Len(b)
      BY <1>3, <1>6, <1>7, <2>1
    <3> QED
      BY <1>5, <3>1 DEF Carries
  <2>4. \A i \in 1 .. Len(beat') : beat'[i] = H[off[r + 1] + i]
    BY <2>1
  <2>5. r + 1 \in 0 .. n
    BY <1>7
  <2>6. UNCHANGED Idle
    BY DEF Idle
  <2> QED
    BY <1>2, <2>2, <2>3, <2>4, <2>5, <2>6 DEF InTransit
<1>14. (r + 1) + 1 = r + 2
  BY <1>3
<1> HIDE DEF q
<1>15. CASE Last(b)
  <2>1. K[r + 2] = k + 1 /\ O[r + 2] = 0
    BY <1>7, <1>10, <1>15 DEF Follows
  <2>2. q = p
    <3> HIDE DEF p, e
    <3> QED
      BY <1>7, <1>9, <1>10, <1>15, SeqEqual
  <2>3. off[r + 1] <= off[r] + Len(beat) + Len(wire)
    <3>1. PICK a, c, x, y, z : /\ a = off[r] /\ c = off[r + 1] /\ x = Len(beat) /\ y = Len(wire)
                               /\ z = Len(wire')
      OBVIOUS
    <3>2. c = a + BeatSize /\ a + BeatSize + z = a + x + y
      BY <1>6, <1>7, <3>1
    <3>3. a \in Nat /\ x \in Nat /\ y \in Nat /\ z \in Nat /\ BeatSize \in Nat
      BY <1>3, <1>4, <1>6, <3>1
    <3>4. c <= a + x + y
      BY <3>2, <3>3
    <3> QED
      BY <3>1, <3>4
  <2>4. k \in 1 .. Len(sent) /\ S[k] = sent[k]
    BY <1>1, <1>7, <2>1, <2>3, CompleteIsSent
  <2>5. got' = Append(got, sent[Len(got) + 1]) /\ Len(got) < Len(sent) /\ rx' = "open"
    BY <1>3, <1>8, <1>11, <1>15, <2>2, <2>4
  <2>6. Len(got') = Len(got) + 1
    <3> DEFINE B == Seq(Byte)
    <3>1. got \in Seq(B) /\ q \in B /\ got' = Append(got, q)
      BY <1>9, <1>11, <1>15 DEF TypeInv
    <3> HIDE DEF B
    <3> QED
      BY <3>1
  <2>7. ReceiverAt(S, K, O, r + 1)'
    BY <1>8, <1>11, <1>14, <2>1, <2>5, <2>6 DEF ReceiverAt
  <2>8. Placed(S, n, K, O, off, H, r + 1)'
    BY <1>2, <1>12, <1>13, <2>7 DEF Placed
  <2> QED
    BY <2>5, <2>8 DEF StreamInv
<1>16. CASE ~Last(b)
  <2>1. e < Len(p) /\ UNCHANGED <<rx, got>>
    BY <1>10, <1>11, <1>16
  <2>2. K[r + 2] = k /\ O[r + 2] = e
    BY <1>7, <2>1 DEF Follows
  <2>3. ReceiverAt(S, K, O, r + 1)'
    <3>1. ~Fresh'
      BY <2>1 DEF Fresh
    <3>2. K[r + 2] = Len(got') + 1 /\ O[r + 2] = Len(rxPacket')
      BY <1>8, <1>9, <1>11, <2>1, <2>2
    <3>3. \A i \in 1 .. Len(rxPacket') : K[r + 2] <= Len(S) /\ rxPacket'[i] = S[K[r + 2]][i]
      BY <1>7, <1>9, <1>11, <2>2
    <3> QED
      BY <1>14, <3>1, <3>2, <3>3 DEF ReceiverAt
  <2>4. Placed(S, n, K, O, off, H, r + 1)'
    BY <1>2, <1>12, <1>13, <2>3 DEF Placed
  <2> QED
    BY <2>1, <2>4 DEF StreamInv
<1> QED
  BY <1>15, <1>16

\* readAll reads the stream of the plan.
LEMMA ReadStream ==
  ASSUME TypeInv, StreamInv, Read
  PROVE  /\ StreamInv'
         /\ got' # got => /\ Len(got) < Len(sent)
                          /\ got' = Append(got, sent[Len(got) + 1])
<1>1. PICK m, b : Took(m, b)
  BY ReadMoves
<1>2. /\ UNCHANGED <<tx, txResult, packet, offset, out, sent, txEof, dut, rxResult>>
      /\ rx = "receiving"
  BY DEF Read, txVars
<1>3. CASE Len(b) = BeatSize
  BY <1>1, <1>2, <1>3, BeatTaken
<1>4. CASE Len(b) # BeatSize
  <2>1. beat' = b /\ UNCHANGED <<rx, rxPacket, got>>
    BY <1>1, <1>4 DEF Took, AfterRead
  <2>2. PICK S, n, K, O, off, H, r : Placed(S, n, K, O, off, H, r)
    BY DEF StreamInv
  <2>3. Plan(S, n, K, O, off, H) /\ SenderAt(S, n, K, O, off, H)
        /\ InTransit(S, n, off, H, r) /\ ReceiverAt(S, K, O, r)
    BY <2>2 DEF Placed
  <2>4. SenderAt(S, n, K, O, off, H)' /\ UNCHANGED Idle
    BY <1>2, <2>3 DEF SenderAt, Idle
  <2>5. Carries(beat', wire', H, off[r]) /\ Len(beat') + Len(wire') = Len(beat) + Len(wire)
    BY <1>1, <2>1, <2>2, ReadTransit
  <2>6. InTransit(S, n, off, H, r)'
    <3>1. /\ off[r] \in Nat /\ Len(beat) \in Nat /\ Len(wire) \in Nat
          /\ Len(beat') \in Nat /\ Len(wire') \in Nat
      BY <1>1, <2>1, <2>2, PlacedTypes DEF Took
    <3>2. off[r] + Len(beat') + Len(wire') = off[r] + Len(beat) + Len(wire)
      BY <2>5, <3>1
    <3> QED
      BY <1>2, <2>3, <2>4, <2>5, <3>2 DEF InTransit, Carries
  <2>7. ReceiverAt(S, K, O, r)'
    BY <1>2, <2>1, <2>3 DEF ReceiverAt, Fresh
  <2>8. Placed(S, n, K, O, off, H, r)'
    BY <2>3, <2>4, <2>6, <2>7 DEF Placed
  <2> QED
    BY <2>1, <2>8 DEF StreamInv
<1> QED
  BY <1>3, <1>4
-----------------------------------------------------------------------------
(* The refinement *)

\* Every step preserves the invariant of the stream.
LEMMA NextStream ==
  KeepGoing = FALSE /\ TypeInv /\ TypeInv' /\ StreamInv /\ [Next]_vars => StreamInv'
<1> SUFFICES ASSUME KeepGoing = FALSE, TypeInv, TypeInv', StreamInv, [Next]_vars
             PROVE  StreamInv'
  OBVIOUS
<1>1. CASE SenderOpen \/ WriteError \/ WriteToNobody \/ SenderClose
  <2>1. UNCHANGED <<sent, wire, dut, rx, rxResult, beat, rxPacket, got>>
    BY <1>1 DEF SenderOpen, WriteError, WriteToNobody, SenderClose, rxVars
  <2>2. (Idle' => Idle /\ out' = out) /\ tx' # "sending"
    BY <1>1 DEF SenderOpen, WriteError, WriteToNobody, SenderClose, Idle
  <2> QED
    BY <2>1, <2>2, SenderKeepsPlan
<1>2. CASE Send
  BY <1>2, SendStream
<1>3. CASE Write
  BY <1>3, WriteStream
<1>4. CASE ReceiverOpen \/ Receive \/ ReadEof \/ ReadError \/ ReceiverClose
  <2>1. UNCHANGED <<tx, txResult, packet, offset, out, sent, wire, txEof, dut, got>>
    BY <1>4 DEF ReceiverOpen, Receive, ReadEof, ReadError, ReceiverClose, txVars
  <2>2. /\ beat' = beat \/ (Fresh /\ beat' = <<>>)
        /\ Fresh' => Fresh
        /\ rx' = "receiving" => Fresh /\ rxPacket' = <<>>
    <3>1. CASE ReceiverOpen
      BY <3>1 DEF ReceiverOpen, Fresh
    <3>2. CASE Receive
      BY <3>2 DEF Receive, Fresh
    <3>3. CASE ReadEof
      BY <3>3 DEF ReadEof, Fresh
    <3>4. CASE ReadError
      BY <3>4 DEF ReadError, Fresh
    <3>5. CASE ReceiverClose
      BY <3>5 DEF ReceiverClose, Fresh, TypeInv
    <3> QED
      BY <1>4, <3>1, <3>2, <3>3, <3>4, <3>5
  <2> QED
    BY <2>1, <2>2, ReceiverKeepsPlan
<1>5. CASE Read
  BY <1>5, ReadStream
<1>6. CASE DutGone
  BY <1>6, DutGoneStream
<1>7. CASE UNCHANGED vars
  <2>1. /\ UNCHANGED <<tx, txResult, packet, offset, out, sent, wire, txEof, dut>>
        /\ UNCHANGED <<rx, rxResult, beat, rxPacket, got>>
    BY <1>7 DEF vars, txVars, rxVars
  <2>2. PICK S, n, K, O, off, H, r : Placed(S, n, K, O, off, H, r)
    BY DEF StreamInv
  <2>3. SenderAt(S, n, K, O, off, H)' /\ InTransit(S, n, off, H, r)'
    BY <2>1, <2>2 DEF Placed, SenderAt, InTransit, Idle
  <2>4. ReceiverAt(S, K, O, r)'
    BY <2>1, <2>2 DEF Placed, ReceiverAt, Fresh
  <2>5. Placed(S, n, K, O, off, H, r)'
    BY <2>2, <2>3, <2>4 DEF Placed
  <2> QED
    BY <2>5 DEF StreamInv
<1> QED
  BY <1>1, <1>2, <1>3, <1>4, <1>5, <1>6, <1>7 DEF Next, SenderStep, ReceiverStep

\* Every step is one of the channel, or none.
LEMMA ChannelStep ==
  TypeInv /\ StreamInv /\ [Next]_vars => [Chan!Next]_<<sent, got>>
<1> SUFFICES ASSUME TypeInv, StreamInv, [Next]_vars PROVE [Chan!Next]_<<sent, got>>
  OBVIOUS
<1>1. CASE Write
  <2>1. got' = got
    BY <1>1 DEF Write, rxVars
  <2>2. CASE sent' = sent
    BY <2>1, <2>2
  <2>3. CASE sent' = Append(sent, packet)
    <3>1. sent \in Seq(Packets) /\ packet \in Packets
      <4>1. packet \in Packets \cup {<<>>} /\ offset \in 0 .. Len(packet) /\ offset < Len(packet)
        BY <1>1 DEF Write, TypeInv
      <4> QED
        BY <4>1 DEF TypeInv
    <3>2. /\ Len(sent') = Len(sent) + 1 /\ SubSeq(sent', 1, Len(sent)) = sent
          /\ sent'[Len(sent')] \in Packets
      BY <2>3, <3>1, AppendPrefix
    <3> QED
      BY <2>1, <3>2 DEF Chan!Next, Chan!Send
  <2> QED
    BY <1>1, <2>2, <2>3 DEF Write, AfterWrite, BeatWritten
<1>2. CASE Read
  <2>1. sent' = sent
    BY <1>2 DEF Read, txVars
  <2>2. got' # got => Len(got) < Len(sent) /\ got' = Append(got, sent[Len(got) + 1])
    BY <1>2, ReadStream
  <2> QED
    BY <2>1, <2>2 DEF Chan!Next, Chan!Receive
<1>3. CASE SenderOpen \/ Send \/ WriteError \/ WriteToNobody \/ SenderClose
  BY <1>3 DEF SenderOpen, Send, WriteError, WriteToNobody, SenderClose, rxVars
<1>4. CASE ReceiverOpen \/ Receive \/ ReadEof \/ ReadError \/ ReceiverClose
  BY <1>4 DEF ReceiverOpen, Receive, ReadEof, ReadError, ReceiverClose, txVars
<1>5. CASE DutGone \/ UNCHANGED vars
  BY <1>5 DEF DutGone, vars, txVars, rxVars
<1> QED
  BY <1>1, <1>2, <1>3, <1>4, <1>5 DEF Next, SenderStep, ReceiverStep

\* VerilatorSender and VerilatorReceiver implement PacketChannel when the caller stops
\* at a failed send, as packet-gen and sendLoop do: however write() and read() split
\* the beats, receive() reports the packets that send() reported, whole, once and in
\* order, and never one that was torn.
THEOREM TransportRefinement == KeepGoing = FALSE => (Spec => Channel)
<1> SUFFICES ASSUME KeepGoing = FALSE PROVE Spec => Channel
  OBVIOUS
<1>1. Init => Chan!Init
  BY DEF Init, Chan!Init
<1>2. TypeInv /\ TypeInv' /\ StreamInv /\ [Next]_vars => StreamInv'
  BY NextStream
<1>3. Spec => []StreamInv
  BY <1>2, InitStream, TypesHold, PTL DEF Spec
<1> QED
  BY <1>1, <1>3, ChannelStep, TypesHold, PTL DEF Spec, Channel, Chan!Spec
=============================================================================
