--------------------------- MODULE PcapFileProofs ---------------------------
(***************************************************************************)
(* What the pcap transport promises, for every set of packets, every base  *)
(* of the length's digits and every number of packets, opens and calls.    *)
(*                                                                         *)
(* The invariant is the layout of the file: there are offsets off such     *)
(* that the record of packet k lies between off[k - 1] and off[k], and     *)
(* what follows the last one is a proper start of one more record.  The    *)
(* reader has returned some m packets, and what it has in hand is what the *)
(* file holds from off[m].  A write extends the file, so it disturbs       *)
(* neither; a read that completes a packet moves the reader to off[m + 1], *)
(* and cannot complete the torn one, because the file ends before it does. *)
(***************************************************************************)
EXTENDS PcapFile, SequenceLemmas

-----------------------------------------------------------------------------
(* The inductive invariant *)

\* A byte, opaque to the provers where its value does not matter.
Bytes == Nat

\* The bytes that lead the file, and a record's: another program wrote the
\* capture of epoch 0, in the other order.
Lead == IF epoch = 0 THEN Swap(Magic) ELSE Magic

HeaderAt(o, n) == IF epoch = 0 THEN file[o + 1] = 0 /\ file[o + 2] = n
                               ELSE file[o + 1] = n /\ file[o + 2] = 0

\* The types, and what the calls in progress have left to do.
TypeInv ==
  /\ TypeOK
  /\ file \in Seq(Bytes) /\ out \in Seq(Bytes) /\ buf \in Seq(Bytes) /\ got \in Seq(Seq(Bytes))
  /\ epoch \in Nat /\ rdEpoch \in Nat /\ rdEpoch <= epoch
  /\ (epoch = 0 => wr = "closed") /\ (wr = "sending" => packet \in Packets)

\* The receiver is opened once, so nothing is left in mSwap of an earlier open.
OnceInv ==
  /\ rdOpens \in Nat
  /\ rdOpens = 0 => rd = "closed" /\ got = <<>>
  /\ rdOpens = 0 \/ rd = "opening" => mSwap = FALSE

\* Until the global header is written the file holds nothing else.
HeaderInv ==
  Len(file) < 2 =>
    /\ sent = <<>> /\ wr \in {"opening", "closed"} /\ epoch # 0
    /\ wr = "opening" => Len(file) + Len(out) = 2
    /\ \A i \in 1 .. Len(file) : file[i] = Magic[i]
    /\ wr = "opening" => \A i \in 1 .. Len(out) : out[i] = Magic[Len(file) + i]
    /\ SameFile => got = <<>> /\ rd \in {"closed", "opening"}

\* The file is the records of the packets sent, packet k from off[k - 1] to
\* off[k], and at most the start of one more.
Layout(off) ==
  /\ off[0] = 2 /\ \A i \in 1 .. 2 : file[i] = Lead[i]
  /\ \A k \in 1 .. Len(sent) :
       /\ off[k] = off[k - 1] + 2 + Len(sent[k]) /\ HeaderAt(off[k - 1], Len(sent[k]))
       /\ \A i \in 1 .. Len(sent[k]) : file[off[k - 1] + 2 + i] = sent[k][i]

\* The tail bytes from end are a proper start of the record of send's argument.
Torn(tail, end) ==
  /\ epoch # 0 /\ packet \in Packets /\ tail < 2 + Len(packet)
  /\ \A i \in 1 .. tail : file[end + i] = Record(packet)[i]

\* What follows the whole records, and what the writer has left of it.
TailInv(off) ==
  LET end == off[Len(sent)]
      tail == Len(file) - end
  IN  /\ tail = 0 \/ Torn(tail, end)
      /\ wr # "opening"
      /\ wr = "open" /\ wrResult # "SEND_FAILED" => tail = 0
      /\ wr = "sending" => /\ Torn(tail, end) /\ tail + Len(out) = 2 + Len(packet)
                           /\ \A i \in 1 .. Len(out) : out[i] = Record(packet)[tail + i]

\* What the reader has in hand: buf is what follows position o.
Reads(o) == pos = o + Len(buf) /\ pos <= Len(file) /\ \A i \in 1 .. Len(buf) : buf[i] = file[o + i]

\* The packet whose record the reader is at after m packets: a whole one, or the torn one at the end.
Current(m) == IF m < Len(sent) THEN sent[m + 1] ELSE packet

\* Where the reader is.
ReaderInv(off) ==
  SameFile =>
    LET m == Len(got) IN
    /\ m <= Len(sent) /\ \A i \in 1 .. m : got[i] = sent[i]
    /\ rd = "open" /\ rdResult = "SUCCESS" => pos = off[m] /\ (mSwap <=> epoch = 0)
    /\ rd = "header" => rdResult = "SUCCESS" /\ Reads(off[m]) /\ (mSwap <=> epoch = 0)
    /\ rd = "body" => /\ rdResult = "SUCCESS" /\ Reads(off[m] + 2) /\ (mSwap <=> epoch = 0)
                      /\ inclLen = Len(Current(m))

\* The reader is at the global header.
OpeningInv == SameFile /\ rd = "opening" => got = <<>> /\ Reads(0)

Offsets == [0 .. Len(sent) -> 0 .. Len(file)]

\* The file is laid out, and the reader is somewhere in it.
FileInv == Len(file) >= 2 => \E off \in Offsets : Layout(off) /\ TailInv(off) /\ ReaderInv(off)

\* Together with OnceInv, which mSwap needs, it is inductive.
Inv == TypeInv /\ HeaderInv /\ OpeningInv /\ FileInv
-----------------------------------------------------------------------------
(* Bytes *)

\* A header is two bytes, and so is the magic number, in either order.
LEMMA HeaderBytes ==
  /\ Magic \in Seq(Bytes) /\ Len(Magic) = 2 /\ Magic[1] = 1 /\ Magic[2] = 0 /\ Magic # <<>>
  /\ Swap(Magic) \in Seq(Bytes) /\ Len(Swap(Magic)) = 2 /\ Swap(Magic)[1] = 0 /\ Swap(Magic)[2] = 1
BY DEF Magic, Swap, Bytes

\* A record is the length of its packet and the packet.
LEMMA RecordBytes ==
  ASSUME NEW p \in Packets
  PROVE  /\ p \in Seq(Bytes) /\ Len(p) \in Nat
         /\ Record(p) \in Seq(Bytes) /\ Len(Record(p)) = 2 + Len(p)
         /\ Record(p)[1] = Len(p) /\ Record(p)[2] = 0
         /\ \A i \in 1 .. Len(p) : Record(p)[2 + i] = p[i]
<1>1. p \in Seq(Bytes) /\ Len(p) \in Nat
  <2>1. p \in Seq(Bytes)
    BY PcapAssumption DEF Bytes
  <2> QED
    BY <2>1
<1>2. Native(Len(p)) \in Seq(Bytes) /\ Len(Native(Len(p))) = 2
      /\ Native(Len(p))[1] = Len(p) /\ Native(Len(p))[2] = 0
  BY <1>1 DEF Native, Bytes
<1> DEFINE h == Native(Len(p))
<1> HIDE DEF h
<1>3. h \in Seq(Bytes) /\ Len(h) = 2 /\ h[1] = Len(p) /\ h[2] = 0 /\ Record(p) = h \o p
  BY <1>2 DEF h, Record
<1> DEFINE r == h \o p
<1>4. /\ r \in Seq(Bytes) /\ Len(r) = Len(h) + Len(p)
      /\ \A i \in 1 .. Len(h) : r[i] = h[i]
      /\ \A i \in 1 .. Len(p) : r[Len(h) + i] = p[i]
  <2>1. h \in Seq(Bytes) /\ p \in Seq(Bytes)
    BY <1>1, <1>3
  <2> QED
    BY <2>1
<1> HIDE DEF r
<1>5. Record(p) = r
  BY <1>3 DEF r
<1> QED
  BY <1>1, <1>3, <1>4, <1>5

\* The length that a header says is a natural number.
LEMMA LengthType ==
  ASSUME NEW b \in Seq(Bytes), Len(b) = 2, mSwap \in BOOLEAN
  PROVE  RecordLength(b) \in Nat
<1>1. b[1] \in Nat /\ b[2] \in Nat
  <2>1. b[1] \in Bytes /\ b[2] \in Bytes
    OBVIOUS
  <2> QED
    BY <2>1 DEF Bytes
<1>5. Base \in Nat
  BY PcapAssumption
<1>2. \A x, y \in Nat : x + Base * y \in Nat
  BY <1>5
<1>3. ValueOf(b) \in Nat
  BY <1>1, <1>2 DEF ValueOf
<1>4. ValueOf(Swap(b)) \in Nat
  <2>1. Swap(b)[1] = b[2] /\ Swap(b)[2] = b[1]
    BY DEF Swap
  <2> QED
    BY <1>1, <1>2, <2>1 DEF ValueOf
<1> QED
  BY <1>3, <1>4 DEF RecordLength

\* c is one sequence after another.
Joins(a, b, c) ==
  /\ Len(a) \in Nat /\ Len(b) \in Nat /\ Len(c) = Len(a) + Len(b)
  /\ \A i \in 1 .. Len(a) : c[i] = a[i]
  /\ \A i \in 1 .. Len(b) : c[Len(a) + i] = b[i]

\* Concatenation joins two sequences.
LEMMA ConcatJoins ==
  ASSUME NEW R, NEW a \in Seq(R), NEW b \in Seq(R)
  PROVE  a \o b \in Seq(R) /\ Joins(a, b, a \o b)
BY DEF Joins

\* c is b and the n bytes of f after q.
Fetched(f, q, b, n, c) ==
  /\ c \in Seq(Bytes) /\ Len(c) = Len(b) + n
  /\ \A i \in 1 .. Len(b) : c[i] = b[i]
  /\ \A i \in 1 .. n : c[Len(b) + i] = f[q + i]

\* What readAll has after a read.
LEMMA ReadBytes ==
  ASSUME NEW f \in Seq(Bytes), NEW b \in Seq(Bytes), NEW q \in Nat, NEW n \in Nat, q + n <= Len(f)
  PROVE  Fetched(f, q, b, n, b \o SubSeq(f, q + 1, q + n))
<1> DEFINE s == SubSeq(f, q + 1, q + n)
<1>1. s \in Seq(Bytes) /\ Len(s) = n /\ \A i \in 1 .. n : s[i] = f[q + i]
  OBVIOUS
<1> HIDE DEF s
<1> DEFINE c == b \o s
<1>2. c \in Seq(Bytes) /\ Len(c) = Len(b) + n /\ (\A i \in 1 .. Len(b) : c[i] = b[i])
      /\ \A i \in 1 .. n : c[Len(b) + i] = s[i]
  <2>1. c \in Seq(Bytes) /\ Joins(b, s, c)
    BY <1>1, ConcatJoins
  <2> HIDE DEF c
  <2> QED
    BY <1>1, <2>1 DEF Joins
<1> HIDE DEF c
<1>3. Fetched(f, q, b, n, c)
  BY <1>1, <1>2 DEF Fetched
<1> QED
  BY <1>3 DEF s, c

\* A sequence grows by an element of its type.
LEMMA AppendType ==
  ASSUME NEW R, NEW s \in Seq(R), NEW x \in R
  PROVE  Append(s, x) \in Seq(R)
OBVIOUS
-----------------------------------------------------------------------------
(* The capture that is there at first *)

\* A number in the other order.
LEMMA SwappedBytes ==
  ASSUME NEW n \in Nat
  PROVE  /\ Swap(Native(n)) \in Seq(Bytes) /\ Len(Swap(Native(n))) = 2
         /\ Swap(Native(n))[1] = 0 /\ Swap(Native(n))[2] = n
BY DEF Swap, Native, Bytes

\* The file is written record by record.
LEMMA ForeignRecursion ==
  \E h \in [0 .. Len(ForeignPackets) -> Seq(Bytes)] :
    /\ ForeignFile = h[Len(ForeignPackets)] /\ h[0] = Swap(Magic)
    /\ \A k \in 1 .. Len(ForeignPackets) :
         h[k] = h[k - 1] \o Swap(Native(Len(ForeignPackets[k]))) \o ForeignPackets[k]
<1> DEFINE P == ForeignPackets
           N == Len(ForeignPackets)
           S == Seq(Bytes)
           e == Swap(Magic)
           Grown(y, k) == y \o Swap(Native(Len(P[k]))) \o P[k]
           step == [q \in (1 .. N) \X S |-> Grown(q[2], q[1])]
           Is(g) == g = [k \in 0 .. N |-> IF k = 0 THEN e ELSE Grown(g[k - 1], k)]
           h == CHOOSE g : Is(g)
<1>1. N \in Nat /\ e \in S
  BY PcapAssumption, HeaderBytes
<1>2. ASSUME NEW k \in 1 .. N, NEW y \in S PROVE Grown(y, k) \in S
  <2>1. P[k] \in Packets
    BY PcapAssumption
  <2>2. P[k] \in Seq(Bytes) /\ Len(P[k]) \in Nat
    BY <2>1, RecordBytes
  <2>3. Swap(Native(Len(P[k]))) \in Seq(Bytes)
    BY <2>2, SwappedBytes
  <2> QED
    BY <2>2, <2>3
<1>3. ForeignFile = h[N]
  BY Zenon DEF ForeignFile
<1> HIDE DEF N, S, e, Grown, h
<1>4. step \in Steps(N, S) /\ \A k \in 1 .. N, y \in S : step[<<k, y>>] = Grown(y, k)
  BY <1>1, <1>2 DEF Steps
<1> HIDE DEF step
<1>5. PICK f \in [0 .. N -> S] : Iterates(f, e, N, step)
  BY <1>1, <1>4, FiniteRecursion
<1>6. Is(f)
  <2>1. ASSUME NEW k \in 1 .. N PROVE f[k] = Grown(f[k - 1], k)
    <3>1. k - 1 \in 0 .. N
      BY <1>1
    <3> QED
      BY <1>4, <1>5, <3>1 DEF Iterates
  <2> DEFINE G == [k \in 0 .. N |-> IF k = 0 THEN e ELSE Grown(f[k - 1], k)]
  <2>2. \A k \in 0 .. N : f[k] = G[k]
    BY <1>1, <1>5, <2>1 DEF Iterates
  <2>3. DOMAIN G = 0 .. N /\ G = [k \in DOMAIN G |-> G[k]]
    BY Zenon
  <2>4. f = G
    <3> HIDE DEF G
    <3> QED
      BY <2>2, <2>3
  <2> QED
    BY <2>4
<1>7. Is(h)
  <2>1. h = CHOOSE g : Is(g)
    BY DEF h
  <2> HIDE DEF Is
  <2> QED
    BY <1>6, <2>1
<1>8. DOMAIN h = 0 .. N /\ h = [k \in DOMAIN h |-> h[k]]
  BY <1>7, Zenon
<1>9. \A k \in 0 .. N : h[k] = IF k = 0 THEN e ELSE Grown(h[k - 1], k)
  BY <1>7, Zenon
<1>10. h[0] = e
  BY <1>1, <1>9
<1>11. ASSUME NEW k \in 1 .. N PROVE h[k] = Grown(h[k - 1], k)
  <2>1. k \in 0 .. N /\ k # 0
    BY <1>1
  <2> QED
    BY <1>9, <2>1
<1>12. \A k \in 0 .. N : h[k] \in S
  <2> DEFINE K == {k \in Nat : k <= N => h[k] \in S}
  <2>1. 0 \in K
    BY <1>1, <1>10
  <2>2. ASSUME NEW k \in Nat, k \in K PROVE k + 1 \in K
    <3> SUFFICES ASSUME k + 1 <= N PROVE h[k + 1] \in S
      OBVIOUS
    <3>1. k + 1 \in 1 .. N /\ (k + 1) - 1 = k /\ k <= N
      BY <1>1
    <3> QED
      BY <1>2, <1>11, <2>2, <3>1
  <2>3. \A k \in Nat : k \in K
    <3> HIDE DEF K
    <3> QED
      BY <2>1, <2>2, NatSetInduction
  <2> QED
    BY <1>1, <2>3
<1>13. h \in [0 .. N -> S]
  BY <1>8, <1>12
<1> QED
  BY <1>3, <1>10, <1>11, <1>13 DEF N, S, e, Grown

\* z is y and one more record.
Grows(y, h, p, z) ==
  /\ Len(y) \in Nat /\ Len(p) \in Nat /\ Len(z) = Len(y) + 2 + Len(p)
  /\ \A i \in 1 .. Len(y) : z[i] = y[i]
  /\ z[Len(y) + 1] = h[1] /\ z[Len(y) + 2] = h[2]
  /\ \A i \in 1 .. Len(p) : z[Len(y) + 2 + i] = p[i]

\* A header and a packet, appended to y, are one more record.
LEMMA RecordGrows ==
  ASSUME NEW y \in Seq(Bytes), NEW h \in Seq(Bytes), Len(h) = 2, NEW p \in Seq(Bytes)
  PROVE  Grows(y, h, p, y \o h \o p)
<1> DEFINE x == y \o h
           z == x \o p
<1>1. x \in Seq(Bytes) /\ Joins(y, h, x)
  BY ConcatJoins
<1> HIDE DEF x
<1>2. Joins(x, p, z)
  BY <1>1, ConcatJoins
<1> HIDE DEF z
<1>3. Len(y) \in Nat /\ Len(p) \in Nat /\ Len(x) = Len(y) + 2 /\ Len(z) = Len(y) + 2 + Len(p)
  BY <1>1, <1>2 DEF Joins
<1>4. \A i \in 1 .. Len(y) : z[i] = y[i]
  BY <1>1, <1>2, <1>3 DEF Joins
<1>5. z[Len(y) + 1] = h[1] /\ z[Len(y) + 2] = h[2]
  <2>1. x[Len(y) + 1] = h[1] /\ x[Len(y) + 2] = h[2]
    BY <1>1 DEF Joins
  <2> QED
    BY <1>2, <1>3, <2>1 DEF Joins
<1>6. \A i \in 1 .. Len(p) : z[Len(y) + 2 + i] = p[i]
  BY <1>2, <1>3 DEF Joins
<1>7. Grows(y, h, p, z)
  BY <1>3, <1>4, <1>5, <1>6 DEF Grows
<1> QED
  BY <1>7 DEF x, z

\* So the file is a header and the records of its packets, one after another.
LEMMA ForeignLayout ==
  /\ ForeignFile \in Seq(Bytes)
  /\ \E off \in [0 .. Len(ForeignPackets) -> 0 .. Len(ForeignFile)] :
       /\ off[0] = 2 /\ ForeignFile[1] = 0 /\ ForeignFile[2] = 1
       /\ off[Len(ForeignPackets)] = Len(ForeignFile)
       /\ \A k \in 1 .. Len(ForeignPackets) :
            /\ off[k] = off[k - 1] + 2 + Len(ForeignPackets[k])
            /\ ForeignFile[off[k - 1] + 1] = 0
            /\ ForeignFile[off[k - 1] + 2] = Len(ForeignPackets[k])
            /\ \A i \in 1 .. Len(ForeignPackets[k]) :
                 ForeignFile[off[k - 1] + 2 + i] = ForeignPackets[k][i]
<1> DEFINE P == ForeignPackets
           N == Len(ForeignPackets)
           F == ForeignFile
<1>1. N \in Nat
  BY PcapAssumption
<1>2. PICK h \in [0 .. N -> Seq(Bytes)] :
         /\ F = h[N] /\ h[0] = Swap(Magic)
         /\ \A k \in 1 .. N : h[k] = h[k - 1] \o Swap(Native(Len(P[k]))) \o P[k]
  BY ForeignRecursion
<1>3. ASSUME NEW k \in 1 .. N PROVE P[k] \in Seq(Bytes) /\ Len(P[k]) \in Nat
  <2>1. P[k] \in Packets
    BY PcapAssumption
  <2> QED
    BY <2>1, RecordBytes
<1> HIDE DEF P, N, F
<1>4. ASSUME NEW k \in 0 .. N PROVE h[k] \in Seq(Bytes) /\ Len(h[k]) \in Nat
  <2>1. h[k] \in Seq(Bytes)
    BY <1>2
  <2> QED
    BY <2>1
<1> DEFINE g(k) == Swap(Native(Len(P[k])))
           G(j, k) == Grows(h[j], g(k), P[k], h[k])
<1>5. ASSUME NEW k \in 1 .. N PROVE G(k - 1, k) /\ g(k)[1] = 0 /\ g(k)[2] = Len(P[k])
  <2>1. k - 1 \in 0 .. N /\ k \in 0 .. N
    BY <1>1
  <2>2. h[k - 1] \in Seq(Bytes) /\ P[k] \in Seq(Bytes)
    BY <1>3, <1>4, <2>1
  <2>3. g(k) \in Seq(Bytes) /\ Len(g(k)) = 2 /\ g(k)[1] = 0 /\ g(k)[2] = Len(P[k])
    BY <1>3, SwappedBytes
  <2>4. h[k] = h[k - 1] \o g(k) \o P[k]
    BY <1>2
  <2> HIDE DEF g
  <2> QED
    BY <2>2, <2>3, <2>4, RecordGrows
<1> HIDE DEF g, G
<1> DEFINE Prefix(j, k) == Len(h[j]) <= Len(h[k]) /\ \A i \in 1 .. Len(h[j]) : h[j][i] = h[k][i]
           K == {k \in Nat : k <= N => \A j \in 0 .. k : Prefix(j, k)}
<1>6. 0 \in K
  <2>1. \A j \in 0 .. 0 : j = 0
    OBVIOUS
  <2> QED
    BY <1>1, <1>4, <2>1
<1>7. ASSUME NEW k \in Nat, k \in K PROVE k + 1 \in K
  <2> SUFFICES ASSUME k + 1 <= N, NEW j \in 0 .. k + 1 PROVE Prefix(j, k + 1)
    OBVIOUS
  <2>1. k + 1 \in 1 .. N /\ (k + 1) - 1 = k /\ k \in 0 .. N /\ k + 1 \in 0 .. N /\ j \in 0 .. N
    BY <1>1
  <2>2. Len(h[k]) \in Nat /\ Len(h[k + 1]) \in Nat /\ Len(h[j]) \in Nat
    BY <1>4, <2>1
  <2>3. Len(h[k]) <= Len(h[k + 1]) /\ \A i \in 1 .. Len(h[k]) : h[k + 1][i] = h[k][i]
    <3>1. G(k, k + 1)
      BY <1>5, <2>1
    <3>2. Len(h[k + 1]) = Len(h[k]) + 2 + Len(P[k + 1]) /\ Len(P[k + 1]) \in Nat
      BY <3>1 DEF G, Grows
    <3>3. \A i \in 1 .. Len(h[k]) : h[k + 1][i] = h[k][i]
      BY <3>1 DEF G, Grows
    <3>4. Len(h[k]) <= Len(h[k + 1])
      <4> DEFINE a == Len(h[k])
                 b == Len(h[k + 1])
                 c == Len(P[k + 1])
      <4>1. a \in Nat /\ c \in Nat /\ b = a + 2 + c
        BY <2>2, <3>2
      <4> HIDE DEF a, b, c
      <4>2. a <= b
        BY <4>1
      <4> QED
        BY <4>2 DEF a, b
    <3> QED
      BY <3>3, <3>4
  <2>4. CASE j = k + 1
    BY <2>2, <2>4
  <2>5. CASE j # k + 1
    <3>1. j \in 0 .. k /\ k <= N
      BY <2>1, <2>5
    <3>2. Prefix(j, k)
      BY <1>7, <3>1
    <3> QED
      BY <2>2, <2>3, <3>2
  <2> QED
    BY <2>4, <2>5
<1>8. \A j \in 0 .. N : Prefix(j, N)
  <2>1. N \in K
    <3> HIDE DEF K
    <3> QED
      BY <1>1, <1>6, <1>7, NatSetInduction
  <2> HIDE DEF Prefix
  <2> QED
    BY <1>1, <2>1
<1> DEFINE off == [k \in 0 .. N |-> Len(h[k])]
<1>9. F \in Seq(Bytes) /\ off \in [0 .. N -> 0 .. Len(F)] /\ off[N] = Len(F)
  BY <1>1, <1>2, <1>4, <1>8
<1>10. off[0] = 2 /\ F[1] = 0 /\ F[2] = 1
  <2>1. off[0] = 2 /\ Len(h[0]) = 2 /\ h[0][1] = 0 /\ h[0][2] = 1
    BY <1>1, <1>2, HeaderBytes
  <2>2. Prefix(0, N)
    BY <1>1, <1>8
  <2> QED
    BY <1>2, <2>1, <2>2
<1>11. ASSUME NEW k \in 1 .. N
       PROVE  /\ off[k] = off[k - 1] + 2 + Len(P[k])
              /\ F[off[k - 1] + 1] = 0 /\ F[off[k - 1] + 2] = Len(P[k])
              /\ \A i \in 1 .. Len(P[k]) : F[off[k - 1] + 2 + i] = P[k][i]
  <2>1. k - 1 \in 0 .. N /\ k \in 0 .. N /\ Prefix(k, N)
    BY <1>1, <1>8
  <2>2. off[k] = Len(h[k]) /\ off[k - 1] = Len(h[k - 1]) /\ Len(h[k - 1]) \in Nat /\ Len(P[k]) \in Nat
    BY <1>3, <1>4, <2>1
  <2> HIDE DEF off
  <2>7. G(k - 1, k) /\ g(k)[1] = 0 /\ g(k)[2] = Len(P[k])
    BY <1>5
  <2>3. off[k - 1] + 1 \in 1 .. Len(h[k]) /\ off[k - 1] + 2 \in 1 .. Len(h[k])
        /\ \A i \in 1 .. Len(P[k]) : off[k - 1] + 2 + i \in 1 .. Len(h[k])
    <3>1. Len(h[k]) = off[k - 1] + 2 + Len(P[k]) /\ off[k - 1] \in Nat /\ Len(P[k]) \in Nat
      BY <2>2, <2>7 DEF G, Grows
    <3>2. PICK x, y, z : x = off[k - 1] /\ y = Len(P[k]) /\ z = Len(h[k])
      OBVIOUS
    <3>3. /\ x + 1 \in 1 .. z /\ x + 2 \in 1 .. z /\ \A i \in 1 .. y : x + 2 + i \in 1 .. z
      <4>1. z = x + 2 + y /\ x \in Nat /\ y \in Nat
        BY <3>1, <3>2, Zenon
      <4> QED
        BY <4>1
    <3> QED
      BY <3>2, <3>3, Zenon
  <2>4. \A i \in 1 .. Len(h[k]) : F[i] = h[k][i]
    BY <1>2, <2>1
  <2> HIDE DEF Prefix
  <2>5. F[off[k - 1] + 1] = 0 /\ F[off[k - 1] + 2] = Len(P[k])
    BY <2>2, <2>3, <2>4, <2>7 DEF G, Grows
  <2>6. \A i \in 1 .. Len(P[k]) : F[off[k - 1] + 2 + i] = P[k][i]
    BY <2>2, <2>3, <2>4, <2>7 DEF G, Grows
  <2>8. off[k] = off[k - 1] + 2 + Len(P[k])
    BY <2>2, <2>7 DEF G, Grows
  <2> QED
    BY <2>5, <2>6, <2>8
<1> HIDE DEF off
<1> QED
  BY <1>9, <1>10, <1>11 DEF P, N, F

-----------------------------------------------------------------------------
(* The types *)

\* The sender's steps keep the types.
LEMMA WriterTypes ==
  ASSUME TypeInv, WriterStep PROVE TypeInv'
<1> USE PcapAssumption DEF TypeInv, TypeOK
<1>1. rdVars' = rdVars
  BY DEF WriterStep, WriterOpen, Send, Write, WriteError, WriterClose
<1>2. /\ rd \in {"closed", "opening", "open", "header", "body"}
      /\ rdResult \in {"none", "SUCCESS", "OPEN_FAILED", "EOF", "RECV_FAILED"}
      /\ rd \in {"opening", "header", "body"} => Len(buf) < Wanted
      /\ inclLen \in Nat /\ pos \in Nat /\ buf \in Seq(Bytes) /\ got \in Seq(Seq(Bytes)) /\ rdEpoch \in Nat
  OBVIOUS
<1>3. mSwap' \in BOOLEAN
  BY <1>1, Zenon DEF rdVars
<1>4. Wanted' = Wanted
  BY <1>1 DEF rdVars, Wanted
<1>5. /\ wr' \in {"closed", "opening", "open", "sending"}
      /\ wrResult' \in {"none", "SUCCESS", "NOT_OPEN", "OPEN_FAILED", "SEND_FAILED"}
      /\ out' = <<>> <=> wr' \in {"closed", "open"}
      /\ packet' \in Packets \cup {<<>>} /\ sent' \in Seq(Packets)
      /\ file' \in Seq(Bytes) /\ out' \in Seq(Bytes) /\ epoch' \in Nat /\ rdEpoch <= epoch'
      /\ (epoch' = 0 => wr' = "closed") /\ (wr' = "sending" => packet' \in Packets)
  <2>1. CASE WriterOpen
    <3>1. CASE /\ file' = <<>> /\ sent' = <<>> /\ epoch' = epoch + 1 /\ packet' = packet
               /\ wr' = "opening" /\ out' = Magic /\ wrResult' = wrResult
      <4>1. sent' \in Seq(Packets) /\ file' \in Seq(Bytes)
        BY <3>1
      <4>2. out' \in Seq(Bytes) /\ out' # <<>>
        BY <3>1, HeaderBytes
      <4>3. epoch' \in Nat /\ epoch' # 0 /\ rdEpoch <= epoch'
        BY <3>1
      <4> QED
        BY <3>1, <4>1, <4>2, <4>3
    <3>2. CASE wrResult' = "OPEN_FAILED" /\ UNCHANGED <<file, sent, epoch, wr, out, packet>>
      BY <3>2
    <3> QED
      BY <2>1, <3>1, <3>2 DEF WriterOpen
  <2>2. CASE Send
    <3>1. ASSUME NEW p \in Packets PROVE Record(p) \in Seq(Bytes) /\ Record(p) # <<>>
      BY RecordBytes
    <3> QED
      BY <2>2, <3>1 DEF Send
  <2>3. CASE Write
    <3>1. PICK n \in 1 .. Len(out) :
            file' = file \o SubSeq(out, 1, n) /\ AfterWrite(SubSeq(out, n + 1, Len(out)))
      BY <2>3 DEF Write
    <3>2. /\ SubSeq(out, 1, n) \in Seq(Bytes) /\ SubSeq(out, n + 1, Len(out)) \in Seq(Bytes)
      OBVIOUS
    <3>3. file' \in Seq(Bytes)
      BY <3>1, <3>2
    <3>4. wr = "sending" => Append(sent, packet) \in Seq(Packets)
      OBVIOUS
    <3> QED
      BY <2>3, <3>1, <3>2, <3>3, <3>4 DEF Write, AfterWrite
  <2>4. CASE WriteError
    BY <2>4 DEF WriteError
  <2>5. CASE WriterClose
    BY <2>5 DEF WriterClose
  <2> QED
    BY <2>1, <2>2, <2>3, <2>4, <2>5 DEF WriterStep
<1> QED
  BY <1>1, <1>2, <1>3, <1>4, <1>5 DEF rdVars

\* The receiver's steps keep the types.
LEMMA ReaderTypes ==
  ASSUME TypeInv, ReaderStep PROVE TypeInv'
<1> USE PcapAssumption DEF TypeInv, TypeOK
<1>1. wrVars' = wrVars /\ file' = file
  BY DEF ReaderStep, ReaderOpen, Receive, Read, ReadEnd, ReadError, ReadFailed, ReaderClose
<1>2. /\ wr \in {"closed", "opening", "open", "sending"}
      /\ wrResult \in {"none", "SUCCESS", "NOT_OPEN", "OPEN_FAILED", "SEND_FAILED"}
      /\ out = <<>> <=> wr \in {"closed", "open"}
      /\ packet \in Packets \cup {<<>>} /\ sent \in Seq(Packets)
      /\ file \in Seq(Bytes) /\ out \in Seq(Bytes) /\ epoch \in Nat
      /\ (epoch = 0 => wr = "closed") /\ (wr = "sending" => packet \in Packets)
  OBVIOUS
<1> DEFINE Types == /\ rd' \in {"closed", "opening", "open", "header", "body"}
                    /\ rdResult' \in {"none", "SUCCESS", "OPEN_FAILED", "EOF", "RECV_FAILED"}
                    /\ rd' \in {"opening", "header", "body"} => Len(buf') < Wanted'
                    /\ inclLen' \in Nat /\ pos' \in Nat /\ buf' \in Seq(Bytes)
                    /\ got' \in Seq(Seq(Bytes)) /\ rdEpoch' \in Nat /\ rdEpoch' <= epoch
           e == <<>>
<1>3. e \in Seq(Bytes) /\ Len(e) = 0 /\ e \in Seq(Seq(Bytes)) /\ e = <<>>
  OBVIOUS
<1>4. mSwap' \in BOOLEAN
  <2>1. mSwap' = mSwap \/ \E b : mSwap' = (mSwap \/ b = Swap(Magic))
    BY DEF ReaderStep, ReaderOpen, Receive, Read, ReadEnd, ReadError, ReadFailed, ReaderClose,
           AfterRead, TakeGlobalHeader, TakeRecordHeader, TakeBody
  <2> QED
    BY <2>1, Zenon
<1>5. ASSUME ReaderOpen \/ Receive \/ ReadEnd \/ ReadError \/ ReaderClose PROVE Types
  <2> HIDE DEF e
  <2>1. CASE ReaderOpen
    <3>1. CASE /\ rd' = "opening" /\ pos' = 0 /\ buf' = e /\ got' = e /\ rdEpoch' = epoch
               /\ rdResult' = rdResult /\ inclLen' = inclLen
      BY <1>3, <3>1 DEF Wanted
    <3>2. CASE rdResult' = "OPEN_FAILED" /\ UNCHANGED <<rd, pos, buf, got, rdEpoch, inclLen>>
      BY <3>2 DEF Wanted
    <3> QED
      BY <1>3, <2>1, <3>1, <3>2 DEF ReaderOpen
  <2>2. CASE Receive
    BY <1>3, <2>2 DEF Receive, Wanted
  <2>3. CASE ReadFailed
    BY <1>3, <2>3 DEF ReadFailed, Wanted
  <2>4. CASE ReaderClose
    BY <1>3, <2>4 DEF ReaderClose, Wanted
  <2> QED
    BY <1>5, <2>1, <2>2, <2>3, <2>4 DEF ReadEnd, ReadError
<1>6. ASSUME Read PROVE Types
  <2>1. PICK n \in 1 .. Least(Len(file) - pos, Wanted - Len(buf)) :
          pos' = pos + n /\ AfterRead(buf \o SubSeq(file, pos + 1, pos + n))
    BY <1>6 DEF Read
  <2>2. n \in Nat /\ pos + n <= Len(file) /\ pos' \in Nat /\ Wanted \in Nat /\ n <= Wanted - Len(buf)
        /\ rdEpoch' = rdEpoch
    BY <1>6, <2>1 DEF Least, Wanted, Read
  <2> DEFINE b == buf \o SubSeq(file, pos + 1, pos + n)
  <2>3. b \in Seq(Bytes) /\ Len(b) = Len(buf) + n
    <3>1. Fetched(file, pos, buf, n, b)
      BY <2>2, ReadBytes
    <3> QED
      BY <3>1 DEF Fetched
  <2> HIDE DEF b
  <2>4. AfterRead(b)
    BY <2>1 DEF b
  <2>5. CASE Len(b) < Wanted
    BY <2>2, <2>3, <2>4, <2>5 DEF AfterRead, Wanted
  <2>6. CASE ~(Len(b) < Wanted)
    <3> HIDE DEF e
    <3>1. Len(b) = Wanted /\ buf' = e
      BY <1>3, <2>2, <2>3, <2>4, <2>6 DEF AfterRead
    <3>2. CASE rd = "opening" /\ TakeGlobalHeader(b)
      BY <1>3, <2>2, <3>1, <3>2 DEF TakeGlobalHeader, Wanted
    <3>3. CASE rd = "header" /\ TakeRecordHeader(b)
      <4>1. inclLen' \in Nat
        BY <2>3, <3>1, <3>3, LengthType DEF TakeRecordHeader, Wanted
      <4>2. got' \in Seq(Seq(Bytes))
        <5> DEFINE Q == Seq(Bytes)
        <5>1. e \in Q /\ got \in Seq(Q)
          BY <1>3
        <5>2. got' = got \/ got' = Append(got, e)
          BY <1>3, <3>3 DEF TakeRecordHeader
        <5> DEFINE g == got
        <5> HIDE DEF Q, g, TypeInv, TypeOK
        <5>3. g \in Seq(Q) /\ (got' = g \/ got' = Append(g, e))
          BY <5>1, <5>2 DEF g
        <5>4. Append(g, e) \in Seq(Q)
          BY <5>1, <5>3, AppendType
        <5>5. got' \in Seq(Q)
          BY <5>3, <5>4
        <5> QED
          BY <5>5 DEF Q
      <4> QED
        BY <1>3, <2>2, <3>1, <3>3, <4>1, <4>2 DEF TakeRecordHeader, Wanted
    <3>4. CASE rd = "body" /\ TakeBody(b)
      BY <1>3, <2>2, <2>3, <3>1, <3>4 DEF TakeBody, Wanted
    <3> QED
      BY <2>4, <2>6, <3>2, <3>3, <3>4 DEF AfterRead
  <2> QED
    BY <2>5, <2>6
<1>7. Types
  BY <1>5, <1>6 DEF ReaderStep
<1> QED
  BY <1>1, <1>2, <1>4, <1>7 DEF wrVars

\* The types are an inductive invariant by themselves.
LEMMA TypesInductive ==
  /\ Init => TypeInv
  /\ TypeInv /\ [Next]_vars => TypeInv'
<1>1. Init => TypeInv
  <2> SUFFICES ASSUME Init PROVE TypeInv
    OBVIOUS
  <2>1. file \in Seq(Bytes) /\ sent \in Seq(Packets)
    BY ForeignLayout, PcapAssumption DEF Init
  <2>2. out \in Seq(Bytes) /\ buf \in Seq(Bytes) /\ got \in Seq(Seq(Bytes)) /\ packet \in {<<>>}
    BY DEF Init
  <2>3. mSwap \in BOOLEAN
    BY Zenon DEF Init
  <2> QED
    BY <2>1, <2>2, <2>3 DEF Init, TypeInv, TypeOK
<1>2. ASSUME TypeInv, UNCHANGED vars PROVE TypeInv'
  <2>1. mSwap' \in BOOLEAN
    BY <1>2, Zenon DEF vars, rdVars, TypeInv, TypeOK
  <2>2. Wanted' = Wanted
    BY <1>2 DEF vars, rdVars, Wanted
  <2> QED
    BY <1>2, <2>1, <2>2 DEF vars, rdVars, wrVars, TypeInv, TypeOK
<1> QED
  BY <1>1, <1>2, WriterTypes, ReaderTypes DEF Next

\* Every variable of both ends has its type, and a loop of writeAll or readAll
\* that is in progress has something left to do.
THEOREM TypeCorrectness == Spec => []TypeOK
<1>1. TypeInv => TypeOK
  BY DEF TypeInv
<1> QED
  BY <1>1, TypesInductive, PTL DEF Spec
-----------------------------------------------------------------------------
(* The writer's steps *)

\* The file only grows.
Grown == Len(file') >= Len(file) /\ \A i \in 1 .. Len(file) : file'[i] = file[i]

\* The places that the layout speaks of are in the file.
LEMMA Places ==
  ASSUME TypeInv, NEW off \in Offsets, Layout(off)
  PROVE  /\ Len(sent) \in Nat /\ Len(file) \in Nat
         /\ \A k \in 0 .. Len(sent) : off[k] \in Nat /\ off[k] <= Len(file)
         /\ \A k \in 1 .. Len(sent) :
              /\ k - 1 \in 0 .. Len(sent) /\ sent[k] \in Packets
              /\ Len(sent[k]) \in Nat /\ off[k - 1] + 2 + Len(sent[k]) <= Len(file)
<1>1. Len(sent) \in Nat /\ Len(file) \in Nat
  BY DEF TypeInv, TypeOK
<1>2. \A k \in 0 .. Len(sent) : off[k] \in Nat /\ off[k] <= Len(file)
  BY <1>1 DEF Offsets
<1>3. ASSUME NEW k \in 1 .. Len(sent)
      PROVE  /\ k - 1 \in 0 .. Len(sent) /\ sent[k] \in Packets
             /\ Len(sent[k]) \in Nat /\ off[k - 1] + 2 + Len(sent[k]) <= Len(file)
  <2>1. k - 1 \in 0 .. Len(sent) /\ k \in 0 .. Len(sent)
    BY <1>1
  <2>2. sent[k] \in Packets
    BY DEF TypeInv, TypeOK
  <2>3. Len(sent[k]) \in Nat
    BY <2>2, RecordBytes
  <2>4. off[k] = off[k - 1] + 2 + Len(sent[k])
    BY DEF Layout
  <2> QED
    BY <1>2, <2>1, <2>2, <2>3, <2>4
<1> QED
  BY <1>1, <1>2, <1>3

\* The layout of the packets sent stays when the file grows.
LEMMA LayoutGrows ==
  ASSUME TypeInv, NEW off \in Offsets, Layout(off), Len(file) >= 2, Grown, epoch' = epoch,
         sent' = sent, file' \in Seq(Bytes)
  PROVE  Layout(off)' /\ off \in Offsets'
<1>1. Len(file') \in Nat /\ Len(file) \in Nat
  BY DEF TypeInv
<1>2. off[0] = 2 /\ \A i \in 1 .. 2 : file'[i] = Lead'[i]
  <2>1. Lead' = Lead
    BY DEF Lead
  <2> QED
    BY <1>1, <2>1 DEF Layout, Grown
<1>3. ASSUME NEW k \in 1 .. Len(sent)
      PROVE  /\ off[k] = off[k - 1] + 2 + Len(sent[k]) /\ HeaderAt(off[k - 1], Len(sent[k]))'
             /\ \A i \in 1 .. Len(sent[k]) : file'[off[k - 1] + 2 + i] = sent[k][i]
  <2>1. /\ k - 1 \in 0 .. Len(sent) /\ off[k - 1] \in Nat
        /\ Len(sent[k]) \in Nat /\ off[k - 1] + 2 + Len(sent[k]) <= Len(file)
    BY Places
  <2>2. off[k - 1] + 1 \in 1 .. Len(file) /\ off[k - 1] + 2 \in 1 .. Len(file)
    <3>1. PICK x, y, z : x = off[k - 1] /\ y = Len(sent[k]) /\ z = Len(file)
      OBVIOUS
    <3>2. z \in Nat /\ x \in Nat /\ y \in Nat /\ x + 2 + y <= z
      BY <1>1, <2>1, <3>1, Zenon
    <3>3. x + 1 \in 1 .. z /\ x + 2 \in 1 .. z
      BY <3>2
    <3> QED
      BY <3>1, <3>3, Zenon
  <2>3. HeaderAt(off[k - 1], Len(sent[k]))'
    <3>1. HeaderAt(off[k - 1], Len(sent[k]))
      BY DEF Layout
    <3>2. file'[off[k - 1] + 1] = file[off[k - 1] + 1] /\ file'[off[k - 1] + 2] = file[off[k - 1] + 2]
      BY <2>2 DEF Grown
    <3> QED
      BY <3>1, <3>2 DEF HeaderAt
  <2>4. ASSUME NEW i \in 1 .. Len(sent[k]) PROVE file'[off[k - 1] + 2 + i] = sent[k][i]
    <3>1. off[k - 1] + 2 + i \in 1 .. Len(file)
      BY <1>1, <2>1
    <3>2. file'[off[k - 1] + 2 + i] = file[off[k - 1] + 2 + i]
      BY <3>1 DEF Grown
    <3> QED
      BY <3>2 DEF Layout
  <2> QED
    BY <2>3, <2>4 DEF Layout
<1>4. off \in Offsets'
  BY <1>1 DEF Offsets, Grown
<1> QED
  BY <1>2, <1>3, <1>4 DEF Layout

\* So does what the reader has in hand.
LEMMA ReadsGrows ==
  ASSUME TypeInv, NEW o \in Nat, Reads(o), Grown, file' \in Seq(Bytes), rdVars' = rdVars
  PROVE  Reads(o)'
<1>1. Len(file') \in Nat /\ Len(file) \in Nat /\ Len(buf) \in Nat /\ pos \in Nat
  BY DEF TypeInv, TypeOK
<1>2. pos = o + Len(buf) /\ pos <= Len(file)
  BY DEF Reads
<1>3. ASSUME NEW i \in 1 .. Len(buf) PROVE buf[i] = file'[o + i]
  <2>1. o + i \in 1 .. Len(file)
    BY <1>1, <1>2
  <2>2. file'[o + i] = file[o + i]
    BY <2>1 DEF Grown
  <2> QED
    BY <2>2 DEF Reads
<1>4. pos <= Len(file')
  BY <1>1, <1>2 DEF Grown
<1> QED
  BY <1>2, <1>3, <1>4 DEF Reads, rdVars

\* And where it is, even when the packet that it is in becomes whole.
LEMMA ReaderGrows ==
  ASSUME TypeInv, NEW off \in Offsets, Layout(off), ReaderInv(off), Grown, file' \in Seq(Bytes),
         rdVars' = rdVars, epoch' = epoch, packet' = packet,
         NEW off2, \A k \in 0 .. Len(sent) : off2[k] = off[k],
         sent' = sent \/ sent' = Append(sent, packet)
  PROVE  ReaderInv(off2)'
<1> SUFFICES ASSUME SameFile' PROVE ReaderInv(off2)'
  BY DEF ReaderInv
<1>1. /\ rd' = rd /\ rdResult' = rdResult /\ got' = got /\ pos' = pos /\ mSwap' = mSwap
      /\ inclLen' = inclLen /\ rdEpoch' = rdEpoch
  BY DEF rdVars
<1>2. SameFile
  BY <1>1 DEF SameFile
<1>12. PICK m : m = Len(got)
  OBVIOUS
<1>3. /\ m <= Len(sent) /\ \A i \in 1 .. m : got[i] = sent[i]
      /\ rd = "open" /\ rdResult = "SUCCESS" => pos = off[m] /\ (mSwap <=> epoch = 0)
      /\ rd = "header" => rdResult = "SUCCESS" /\ Reads(off[m]) /\ (mSwap <=> epoch = 0)
      /\ rd = "body" => /\ rdResult = "SUCCESS" /\ Reads(off[m] + 2) /\ (mSwap <=> epoch = 0)
                        /\ inclLen = Len(Current(m))
  BY <1>2, <1>12 DEF ReaderInv
<1>4. m \in Nat /\ Len(sent) \in Nat /\ sent \in Seq(Packets)
  BY <1>12 DEF TypeInv, TypeOK
<1>5. off2[m] = off[m] /\ off[m] \in Nat
  <2>1. m \in 0 .. Len(sent)
    BY <1>3, <1>4
  <2> QED
    BY <2>1, Places
<1>6. /\ Len(sent') \in {Len(sent), Len(sent) + 1}
      /\ \A i \in 1 .. Len(sent) : sent'[i] = sent[i]
      /\ Len(sent') = Len(sent) + 1 => sent'[Len(sent) + 1] = packet
  BY <1>4
<1>7. m <= Len(sent') /\ \A i \in 1 .. m : got'[i] = sent'[i]
  BY <1>1, <1>3, <1>4, <1>6
<1>8. rd = "header" => Reads(off2[m])'
  BY <1>3, <1>5, ReadsGrows
<1>9. rd = "body" => Reads(off2[m] + 2)'
  <2>1. off[m] + 2 \in Nat
    BY <1>5
  <2> QED
    BY <1>3, <1>5, <2>1, ReadsGrows
<1>10. Current(m)' = Current(m)
  <2>1. CASE m < Len(sent)
    <3>1. m + 1 \in 1 .. Len(sent) /\ m < Len(sent')
      BY <1>4, <1>6, <2>1
    <3> QED
      BY <1>6, <2>1, <3>1 DEF Current
  <2>2. CASE m = Len(sent)
    BY <1>4, <1>6, <2>2 DEF Current
  <2> QED
    BY <1>3, <1>4, <2>1, <2>2
<1>11. m = Len(got')
  BY <1>1, <1>12
<1> QED
  BY <1>1, <1>3, <1>5, <1>7, <1>8, <1>9, <1>10, <1>11 DEF ReaderInv

\* What the reader's invariants become when the writer does not touch the file.
LEMMA FileKept ==
  ASSUME TypeInv, HeaderInv, OpeningInv, file' = file, sent' = sent, epoch' = epoch, rdVars' = rdVars
  PROVE  /\ OpeningInv' /\ Grown
         /\ Len(file) < 2 /\ SameFile' => got' = <<>> /\ rd' \in {"closed", "opening"}
         /\ \A off : Layout(off) => Layout(off)'
         /\ Offsets' = Offsets
<1>1. OpeningInv'
  BY DEF OpeningInv, Reads, SameFile, rdVars
<1>2. Grown
  BY DEF Grown, TypeInv
<1>3. \A off : Layout(off) => Layout(off)'
  BY DEF Layout, Lead, HeaderAt
<1>4. Len(file) < 2 /\ SameFile' => got' = <<>> /\ rd' \in {"closed", "opening"}
  BY DEF HeaderInv, SameFile, rdVars
<1>5. Offsets' = Offsets
  BY DEF Offsets
<1> QED
  BY <1>1, <1>2, <1>3, <1>4, <1>5

\* A writer's step that leaves the file, and what the reader knows of it.
LEMMA WriterRests ==
  ASSUME Inv, TypeInv', file' = file, sent' = sent, epoch' = epoch, rdVars' = rdVars, packet' = packet,
         Len(file) < 2 => wr' \in {"opening", "closed"} /\ (wr' = "opening" => wr = "opening" /\ out' = out),
         \A off \in Offsets : TailInv(off) => TailInv(off)'
  PROVE  Inv'
<1>1. TypeInv /\ HeaderInv /\ OpeningInv /\ FileInv
  BY DEF Inv
<1>2. /\ OpeningInv' /\ Grown /\ file' \in Seq(Bytes)
      /\ Len(file) < 2 /\ SameFile' => got' = <<>> /\ rd' \in {"closed", "opening"}
      /\ \A off : Layout(off) => Layout(off)'
      /\ Offsets' = Offsets
  BY <1>1, FileKept DEF TypeInv
<1>3. HeaderInv'
  BY <1>1, <1>2 DEF HeaderInv
<1>4. FileInv'
  <2> SUFFICES ASSUME Len(file) >= 2 PROVE \E off \in Offsets : Layout(off)' /\ TailInv(off)' /\ ReaderInv(off)'
    BY <1>2 DEF FileInv
  <2>1. PICK off \in Offsets : Layout(off) /\ TailInv(off) /\ ReaderInv(off)
    BY <1>1 DEF FileInv
  <2>2. ReaderInv(off)'
    BY <1>1, <1>2, <2>1, ReaderGrows
  <2> QED
    BY <1>2, <2>1, <2>2
<1> QED
  BY <1>2, <1>3, <1>4 DEF Inv

\* open() of the sender truncates the file under the reader, or fails.
LEMMA WriterOpenKeeps ==
  ASSUME Inv, TypeInv', WriterOpen PROVE Inv'
<1>1. rdVars' = rdVars /\ wr = "closed" /\ packet' = packet
  BY DEF WriterOpen
<1>2. CASE /\ file' = <<>> /\ sent' = <<>> /\ epoch' = epoch + 1
           /\ wr' = "opening" /\ out' = Magic
  <2>1. ~SameFile' /\ epoch' # 0
    BY <1>1, <1>2 DEF SameFile, Inv, TypeInv, rdVars
  <2>2. Len(file') = 0
    BY <1>2
  <2>3. HeaderInv'
    <3>1. Len(out') = 2 /\ \A i \in 1 .. 2 : out'[i] = Magic[0 + i]
      BY <1>2, HeaderBytes
    <3>2. \A i \in 1 .. 0 : FALSE
      OBVIOUS
    <3> QED
      BY <1>2, <2>1, <2>2, <3>1, <3>2 DEF HeaderInv
  <2>4. OpeningInv' /\ FileInv'
    BY <2>1, <2>2 DEF OpeningInv, FileInv
  <2> QED
    BY <2>3, <2>4 DEF Inv
<1>3. CASE wrResult' = "OPEN_FAILED" /\ UNCHANGED <<file, sent, epoch, wr, out>>
  <2>1. ASSUME NEW off \in Offsets, TailInv(off) PROVE TailInv(off)'
    BY <1>1, <1>3, <2>1 DEF TailInv, Torn
  <2> QED
    BY <1>1, <1>3, <2>1, WriterRests
<1> QED
  BY <1>2, <1>3 DEF WriterOpen

\* A write that fails, and close(), leave the file as it is, torn or not.
LEMMA WriteErrorKeeps ==
  ASSUME Inv, TypeInv', WriteError \/ WriterClose PROVE Inv'
<1>1. /\ file' = file /\ sent' = sent /\ epoch' = epoch /\ rdVars' = rdVars /\ packet' = packet
      /\ \/ wr = "opening" /\ wr' = "closed"
         \/ wr = "sending" /\ wr' = "open" /\ wrResult' = "SEND_FAILED"
         \/ wr = "open" /\ wr' = "closed"
  BY DEF WriteError, WriterClose
<1>2. ASSUME NEW off \in Offsets, TailInv(off) PROVE TailInv(off)'
  BY <1>1, <1>2 DEF TailInv, Torn
<1>3. Len(file) < 2 => wr' = "closed"
  BY <1>1 DEF Inv, HeaderInv
<1> QED
  BY <1>1, <1>2, <1>3, WriterRests

\* send() starts on a record: nothing of it is in the file yet.
LEMMA SendKeeps ==
  ASSUME Inv, TypeInv', Send PROVE Inv'
<1>1. file' = file /\ sent' = sent /\ epoch' = epoch /\ rdVars' = rdVars /\ wrResult # "SEND_FAILED"
  BY DEF Send
<1>2. CASE wr = "closed" /\ wr' = wr /\ out' = out /\ packet' = packet
  <2>1. ASSUME NEW off \in Offsets, TailInv(off) PROVE TailInv(off)'
    BY <1>1, <1>2, <2>1 DEF TailInv, Torn
  <2> QED
    BY <1>1, <1>2, <2>1, WriterRests
<1>3. CASE wr = "open" /\ wr' = "sending" /\ \E p \in Packets : packet' = p /\ out' = Record(p)
  <2>1. TypeInv /\ HeaderInv /\ OpeningInv /\ FileInv
    BY DEF Inv
  <2>2. /\ OpeningInv' /\ Grown /\ file' \in Seq(Bytes)
        /\ \A off : Layout(off) => Layout(off)'
        /\ Offsets' = Offsets /\ Len(file) \in Nat
    BY <1>1, <2>1, FileKept DEF TypeInv
  <2>3. Len(file) >= 2
    BY <1>3, <2>1, <2>2 DEF HeaderInv
  <2>4. PICK p \in Packets : packet' = p /\ out' = Record(p)
    BY <1>3
  <2>5. Len(p) \in Nat /\ Len(Record(p)) = 2 + Len(p)
    BY RecordBytes
  <2>6. PICK off \in Offsets : Layout(off) /\ TailInv(off) /\ ReaderInv(off)
    BY <2>1, <2>3 DEF FileInv
  <2>7. Len(file) - off[Len(sent)] = 0 /\ off[Len(sent)] \in Nat /\ off[Len(sent)] = Len(file)
    <3>1. Len(file) - off[Len(sent)] = 0
      BY <1>1, <1>3, <2>6 DEF TailInv
    <3>2. off[Len(sent)] \in Nat
      BY <2>1, <2>6, Places
    <3> QED
      BY <2>2, <3>1, <3>2
  <2>8. TailInv(off)'
    <3>1. \A i \in 1 .. 0 : FALSE
      OBVIOUS
    <3>2. epoch # 0
      BY <1>3, <2>1 DEF TypeInv
    <3>3. Torn(0, off[Len(sent)])'
      BY <1>1, <2>4, <2>5, <3>1, <3>2 DEF Torn
    <3>4. \A i \in 1 .. Len(out') : out'[i] = Record(packet')[0 + i]
      BY <2>4, <2>5
    <3> QED
      BY <1>1, <1>3, <2>4, <2>5, <2>7, <3>3, <3>4 DEF TailInv, Torn
  <2>9. ReaderInv(off)'
    <3> SUFFICES ASSUME SameFile' PROVE ReaderInv(off)'
      BY DEF ReaderInv
    <3>1. SameFile
      BY <1>1 DEF SameFile, rdVars
    <3>2. rd = "body" => Len(got) < Len(sent)
      <4> SUFFICES ASSUME rd = "body" PROVE Len(got) < Len(sent)
        OBVIOUS
      <4>1. Len(got) <= Len(sent) /\ pos = off[Len(got)] + 2 + Len(buf) /\ pos <= Len(file)
        BY <2>6, <3>1 DEF ReaderInv, Reads
      <4>2. Len(got) \in Nat /\ Len(sent) \in Nat /\ Len(buf) \in Nat
        BY <2>1 DEF TypeInv, TypeOK
      <4>3. CASE Len(got) = Len(sent)
        BY <2>2, <2>7, <4>1, <4>2, <4>3
      <4> QED
        BY <4>1, <4>2, <4>3
    <3> QED
      BY <1>1, <2>6, <3>1, <3>2 DEF ReaderInv, Reads, rdVars, Current
  <2>10. HeaderInv' /\ FileInv'
    BY <1>1, <2>2, <2>3, <2>6, <2>8, <2>9 DEF HeaderInv, FileInv
  <2> QED
    BY <2>2, <2>10 DEF Inv
<1> QED
  BY <1>2, <1>3 DEF Send

\* What a write() of n of the bytes of out does to the file.
Written(n, w, rest) ==
  /\ n \in 1 .. Len(out) /\ file' \in Seq(Bytes) /\ Len(file') = Len(file) + n
  /\ \A i \in 1 .. Len(file) : file'[i] = file[i]
  /\ \A i \in 1 .. n : file'[Len(file) + i] = out[i]
  /\ rest \in Seq(Bytes) /\ Len(rest) = Len(out) - n /\ (rest = <<>> <=> n = Len(out))
  /\ \A i \in 1 .. Len(rest) : rest[i] = out[n + i]

\* The file and the rest of out after a write.
LEMMA WriteBytes ==
  ASSUME TypeInv, NEW n \in 1 .. Len(out), file' = file \o SubSeq(out, 1, n)
  PROVE  Written(n, SubSeq(out, 1, n), SubSeq(out, n + 1, Len(out)))
<1> DEFINE w == SubSeq(out, 1, n)
           rest == SubSeq(out, n + 1, Len(out))
<1>1. file \in Seq(Bytes) /\ out \in Seq(Bytes) /\ Len(out) \in Nat /\ Len(file) \in Nat
  BY DEF TypeInv
<1>2. w \in Seq(Bytes) /\ Len(w) = n /\ \A i \in 1 .. n : w[i] = out[i]
  BY <1>1
<1>3. rest \in Seq(Bytes) /\ Len(rest) = Len(out) - n /\ \A i \in 1 .. Len(rest) : rest[i] = out[n + i]
  BY <1>1
<1> HIDE DEF w, rest
<1>4. file' = file \o w
  BY DEF w
<1>5. file' \in Seq(Bytes) /\ Joins(file, w, file')
  BY <1>1, <1>2, <1>4, ConcatJoins
<1>6. rest = <<>> <=> n = Len(out)
  BY <1>1, <1>3
<1>7. Written(n, w, rest)
  BY <1>1, <1>2, <1>3, <1>5, <1>6 DEF Written, Joins
<1> QED
  BY <1>7 DEF w, rest

\* A write of the global header.
LEMMA WriteHeaderKeeps ==
  ASSUME Inv, TypeInv', wr = "opening", rdVars' = rdVars, packet' = packet, epoch' = epoch,
         NEW n, NEW w, NEW rest, Written(n, w, rest), AfterWrite(rest), OpeningInv'
  PROVE  Inv'
<1>1. TypeInv /\ HeaderInv /\ OpeningInv /\ FileInv /\ epoch # 0
  BY DEF Inv, TypeInv
<1>2. Len(file) \in Nat /\ Len(out) \in Nat /\ n \in Nat /\ n >= 1 /\ n <= Len(out) /\ Len(file') = Len(file) + n
  BY <1>1 DEF Written, TypeInv
<1>3. Len(file) < 2
  BY <1>1, <1>2 DEF FileInv, TailInv
<1>4. /\ sent = <<>> /\ Len(file) + Len(out) = 2
      /\ \A i \in 1 .. Len(file) : file[i] = Magic[i]
      /\ \A i \in 1 .. Len(out) : out[i] = Magic[Len(file) + i]
      /\ SameFile => got = <<>> /\ rd \in {"closed", "opening"}
  BY <1>1, <1>3 DEF HeaderInv
<1>5. \A i \in 1 .. Len(file') : file'[i] = Magic[i]
  <2> SUFFICES ASSUME NEW i \in 1 .. Len(file') PROVE file'[i] = Magic[i]
    OBVIOUS
  <2>1. CASE i <= Len(file)
    BY <1>2, <1>4, <2>1 DEF Written
  <2>2. CASE i > Len(file)
    <3>1. PICK j \in 1 .. n : i = Len(file) + j
      <4>1. i - Len(file) \in 1 .. n /\ i = Len(file) + (i - Len(file))
        BY <1>2, <2>2
      <4> QED
        BY <4>1
    <3> QED
      BY <1>2, <1>4, <3>1 DEF Written
  <2> QED
    BY <1>2, <2>1, <2>2
<1>6. SameFile' => got' = <<>> /\ rd' \in {"closed", "opening"}
  BY <1>4 DEF SameFile, rdVars
<1>7. CASE rest # <<>>
  <2>1. out' = rest /\ wr' = wr /\ sent' = sent /\ n # Len(out)
    BY <1>7 DEF AfterWrite, Written
  <2>2. Len(file') < 2 /\ Len(out') = Len(out) - n
    BY <1>2, <1>4, <2>1 DEF Written
  <2>3. \A i \in 1 .. Len(out') : out'[i] = Magic[Len(file') + i]
    <3> SUFFICES ASSUME NEW i \in 1 .. Len(out') PROVE out'[i] = Magic[Len(file') + i]
      OBVIOUS
    <3>1. n + i \in 1 .. Len(out) /\ Len(file) + (n + i) = Len(file') + i
      BY <1>2, <2>2
    <3>2. out'[i] = out[n + i]
      BY <2>1 DEF Written
    <3>3. out[n + i] = Magic[Len(file) + (n + i)]
      BY <1>4, <3>1
    <3> QED
      BY <3>1, <3>2, <3>3
  <2>4. HeaderInv'
    BY <1>1, <1>2, <1>4, <1>5, <1>6, <2>1, <2>2, <2>3 DEF HeaderInv
  <2>5. FileInv'
    BY <1>2, <2>2 DEF FileInv
  <2> QED
    BY <2>4, <2>5 DEF Inv
<1>8. CASE rest = <<>>
  <2>1. wr' = "open" /\ wrResult' = "SUCCESS" /\ sent' = <<>> /\ n = Len(out) /\ Len(sent') = 0
    BY <1>4, <1>8 DEF AfterWrite, Written
  <2>2. Len(file') = 2
    BY <1>2, <1>4, <2>1
  <2> DEFINE off == [k \in 0 .. 0 |-> 2]
  <2>3. off \in Offsets' /\ off[0] = 2
    BY <2>1, <2>2 DEF Offsets
  <2> HIDE DEF off
  <2>4. Layout(off)'
    BY <1>1, <1>5, <2>1, <2>2, <2>3 DEF Layout, Lead
  <2>5. TailInv(off)'
    BY <2>1, <2>2, <2>3 DEF TailInv
  <2>6. ReaderInv(off)'
    <3> SUFFICES ASSUME SameFile' PROVE ReaderInv(off)'
      BY DEF ReaderInv
    <3>1. Len(got') = 0 /\ rd' \in {"closed", "opening"}
      BY <1>6
    <3> QED
      BY <2>1, <3>1 DEF ReaderInv
  <2>7. HeaderInv' /\ FileInv'
    BY <2>2, <2>3, <2>4, <2>5, <2>6 DEF HeaderInv, FileInv
  <2> QED
    BY <2>7 DEF Inv
<1> QED
  BY <1>7, <1>8

\* A write of a record, or of the rest of one.
LEMMA WriteRecordKeeps ==
  ASSUME Inv, TypeInv', wr = "sending", rdVars' = rdVars, packet' = packet, epoch' = epoch,
         NEW n, NEW w, NEW rest, Written(n, w, rest), AfterWrite(rest), OpeningInv', Grown
  PROVE  Inv'
<1>1. TypeInv /\ HeaderInv /\ OpeningInv /\ FileInv /\ epoch # 0 /\ packet \in Packets
  BY DEF Inv, TypeInv
<1>2. Len(file) \in Nat /\ Len(out) \in Nat /\ n \in Nat /\ n >= 1 /\ n <= Len(out) /\ Len(file') = Len(file) + n
      /\ file' \in Seq(Bytes)
  BY <1>1 DEF Written, TypeInv
<1>3. Len(file) >= 2
  BY <1>1, <1>2 DEF HeaderInv
<1>4. PICK off \in Offsets : Layout(off) /\ TailInv(off) /\ ReaderInv(off)
  BY <1>1, <1>3 DEF FileInv
<1>5. PICK end : end = off[Len(sent)]
  OBVIOUS
<1>6. PICK tail : tail = Len(file) - end
  OBVIOUS
<1>7. PICK len : len = Len(packet)
  OBVIOUS
<1> DEFINE r == Record(packet)
<1> HIDE DEF r
<1>8. /\ r = Record(packet) /\ len \in Nat /\ Len(r) = 2 + len /\ r[1] = len /\ r[2] = 0
      /\ \A i \in 1 .. len : r[2 + i] = packet[i]
  BY <1>1, <1>7, RecordBytes DEF r
<1>9. /\ Len(sent) \in Nat /\ sent \in Seq(Packets) /\ end \in Nat /\ end <= Len(file)
      /\ tail \in Nat /\ end + tail = Len(file)
  <2>1. Len(sent) \in Nat /\ sent \in Seq(Packets) /\ end \in Nat /\ end <= Len(file)
    BY <1>1, <1>4, <1>5, Places DEF TypeInv, TypeOK
  <2> QED
    BY <1>2, <1>6, <2>1
<1>10. /\ tail < 2 + len /\ (\A i \in 1 .. tail : file[end + i] = r[i])
       /\ tail + Len(out) = 2 + len
       /\ \A i \in 1 .. Len(out) : out[i] = r[tail + i]
  BY <1>4, <1>5, <1>6, <1>7, <1>8 DEF TailInv, Torn
<1>11. /\ tail < 2 + len /\ tail + Len(out) = 2 + len
       /\ Len(file') - end = tail + n /\ Len(file') = end + (tail + n)
       /\ Len(file') \in Nat /\ Len(file) <= Len(file')
  <2>1. PICK F, F2, L : F = Len(file) /\ F2 = Len(file') /\ L = Len(out)
    OBVIOUS
  <2>2. F \in Nat /\ n \in Nat /\ F2 = F + n /\ end \in Nat /\ tail \in Nat /\ end + tail = F
    BY <1>2, <1>9, <2>1
  <2>3. F2 - end = tail + n /\ F2 = end + (tail + n) /\ F2 \in Nat /\ F <= F2
    BY <2>2
  <2> QED
    BY <1>10, <2>1, <2>3
<1>12. len \in Nat
  BY <1>8
<1>13. \A i \in 1 .. tail + n : file'[end + i] = r[i]
  <2> SUFFICES ASSUME NEW i \in 1 .. tail + n PROVE file'[end + i] = r[i]
    OBVIOUS
  <2>1. CASE i <= tail
    <3>1. end + i \in 1 .. Len(file) /\ i \in 1 .. tail
      BY <1>2, <1>9, <2>1
    <3> QED
      BY <1>10, <3>1 DEF Written
  <2>2. CASE i > tail
    <3>1. PICK j \in 1 .. n : i = tail + j
      <4>1. i - tail \in 1 .. n /\ i = tail + (i - tail)
        BY <1>2, <1>9, <2>2
      <4> QED
        BY <4>1
    <3>2. end + i = Len(file) + j /\ j \in 1 .. Len(out)
      BY <1>2, <1>9, <3>1
    <3> QED
      BY <1>10, <3>1, <3>2 DEF Written
  <2> QED
    BY <1>2, <1>9, <2>1, <2>2
<1>14. CASE rest # <<>>
  <2>1. out' = rest /\ wr' = wr /\ sent' = sent /\ n # Len(out) /\ Len(out') = Len(out) - n
    BY <1>14 DEF AfterWrite, Written
  <2>2. Layout(off)' /\ off \in Offsets'
    BY <1>1, <1>2, <1>3, <1>4, <2>1, LayoutGrows
  <2>3. ReaderInv(off)'
    BY <1>1, <1>2, <1>4, <2>1, ReaderGrows
  <2>4. Len(file') - end = tail + n /\ tail + n < 2 + len /\ (tail + n) + Len(out') = 2 + len
    <3>1. PICK L : L = Len(out)
      OBVIOUS
    <3>2. /\ L \in Nat /\ n \in Nat /\ n <= L /\ n # L /\ tail \in Nat /\ len \in Nat
          /\ tail + L = 2 + len /\ Len(out') = L - n
      BY <1>2, <1>9, <1>11, <1>12, <2>1, <3>1
    <3>3. tail + n < 2 + len /\ (tail + n) + (L - n) = 2 + len
      BY <3>2
    <3> QED
      BY <1>11, <3>2, <3>3
  <2>5. \A i \in 1 .. Len(out') : out'[i] = r[(tail + n) + i]
    <3> SUFFICES ASSUME NEW i \in 1 .. Len(out') PROVE out'[i] = r[(tail + n) + i]
      OBVIOUS
    <3>1. n + i \in 1 .. Len(out) /\ tail + (n + i) = (tail + n) + i
      BY <1>2, <1>9, <2>1
    <3>2. out'[i] = out[n + i]
      BY <2>1 DEF Written
    <3> QED
      BY <1>10, <3>1, <3>2
  <2>6. TailInv(off)'
    <3>1. Torn(tail + n, end)'
      BY <1>1, <1>7, <1>8, <1>13, <2>4 DEF Torn
    <3>2. off[Len(sent')] = end
      BY <1>5, <2>1
    <3> QED
      BY <1>7, <1>8, <2>1, <2>4, <2>5, <3>1, <3>2 DEF TailInv
  <2>7. HeaderInv' /\ FileInv'
    BY <1>2, <1>3, <2>2, <2>3, <2>6 DEF HeaderInv, FileInv
  <2> QED
    BY <2>7 DEF Inv
<1>15. CASE rest = <<>>
  <2>1. /\ wr' = "open" /\ sent' = Append(sent, packet) /\ n = Len(out)
    BY <1>15 DEF AfterWrite, Written
  <2>2. PICK N : N = Len(sent)
    OBVIOUS
  <2>3. /\ Len(sent') = N + 1 /\ sent'[N + 1] = packet /\ N \in Nat
        /\ \A i \in 1 .. N : sent'[i] = sent[i]
    BY <1>9, <2>1, <2>2
  <2>4. Len(file') = end + 2 + len /\ tail + n = 2 + len
    <3>1. tail + n = 2 + len /\ Len(file') = end + (tail + n)
      BY <1>11, <2>1
    <3> QED
      BY <1>9, <1>12, <3>1
  <2> DEFINE off2 == [k \in 0 .. N + 1 |-> IF k <= N THEN off[k] ELSE end + 2 + len]
  <2>5. /\ off2 \in [0 .. N + 1 -> 0 .. Len(file')]
        /\ \A k \in 0 .. N : off2[k] = off[k]
        /\ off2[N + 1] = end + 2 + len /\ off2[N] = end
    <3>1. N \in Nat /\ end + 2 + len \in Nat /\ Len(file') = end + 2 + len /\ off[N] = end /\ Len(file) <= Len(file')
      <4>1. end + 2 + len \in Nat
        BY <1>9, <1>12
      <4> QED
        BY <1>5, <1>11, <2>2, <2>3, <2>4, <4>1
    <3>2. \A k \in 0 .. N : off[k] \in 0 .. Len(file')
      BY <1>2, <1>4, <2>2, <3>1 DEF Offsets
    <3> QED
      BY <3>1, <3>2
  <2> HIDE DEF off2
  <2>6. off2 \in Offsets'
    BY <2>3, <2>5 DEF Offsets
  <2>7. Layout(off2)'
    <3>1. off2[0] = 2 /\ \A i \in 1 .. 2 : file'[i] = Lead'[i]
      BY <1>2, <1>3, <1>4, <2>3, <2>5 DEF Layout, Lead, Written
    <3>2. ASSUME NEW k \in 1 .. N
          PROVE  /\ off2[k] = off2[k - 1] + 2 + Len(sent'[k]) /\ HeaderAt(off2[k - 1], Len(sent[k]))'
                 /\ \A i \in 1 .. Len(sent'[k]) : file'[off2[k - 1] + 2 + i] = sent'[k][i]
      <4>1. k - 1 \in 0 .. N /\ k \in 0 .. N /\ sent'[k] = sent[k] /\ off2[k] = off[k] /\ off2[k - 1] = off[k - 1]
        BY <2>3, <2>5
      <4>2. /\ off[k - 1] \in Nat
            /\ Len(sent[k]) \in Nat /\ off[k - 1] + 2 + Len(sent[k]) <= Len(file)
        BY <1>1, <1>4, <2>2, <4>1, Places
      <4>3. /\ off[k] = off[k - 1] + 2 + Len(sent[k]) /\ HeaderAt(off[k - 1], Len(sent[k]))
            /\ \A i \in 1 .. Len(sent[k]) : file[off[k - 1] + 2 + i] = sent[k][i]
        BY <1>4, <2>2 DEF Layout
      <4>4. HeaderAt(off[k - 1], Len(sent[k]))'
        <5>1. off[k - 1] + 1 \in 1 .. Len(file) /\ off[k - 1] + 2 \in 1 .. Len(file)
          BY <1>9, <4>2
        <5>2. file'[off[k - 1] + 1] = file[off[k - 1] + 1] /\ file'[off[k - 1] + 2] = file[off[k - 1] + 2]
          BY <5>1 DEF Written
        <5> QED
          BY <4>1, <4>3, <5>2 DEF HeaderAt
      <4>5. ASSUME NEW i \in 1 .. Len(sent[k]) PROVE file'[off[k - 1] + 2 + i] = sent[k][i]
        <5>1. off[k - 1] + 2 + i \in 1 .. Len(file)
          BY <1>9, <4>2
        <5> QED
          BY <4>3, <5>1 DEF Written
      <4> QED
        BY <4>1, <4>3, <4>4, <4>5
    <3>3. ASSUME NEW k, k = N + 1
          PROVE  /\ off2[k] = off2[k - 1] + 2 + Len(sent'[k]) /\ HeaderAt(off2[k - 1], Len(sent[k]))'
                 /\ \A i \in 1 .. Len(sent'[k]) : file'[off2[k - 1] + 2 + i] = sent'[k][i]
      <4>1. k - 1 = N /\ sent'[k] = packet /\ Len(sent'[k]) = len /\ off2[k - 1] = end
            /\ off2[k] = end + 2 + len
        BY <1>7, <2>3, <2>5, <3>3
      <4>2. file'[end + 1] = len /\ file'[end + 2] = 0
        BY <1>8, <1>13, <2>4
      <4>3. ASSUME NEW i \in 1 .. len PROVE file'[end + 2 + i] = packet[i]
        <5>1. 2 + i \in 1 .. tail + n /\ end + 2 + i = end + (2 + i)
          BY <1>8, <1>9, <2>4
        <5> QED
          BY <1>8, <1>13, <5>1
      <4>4. HeaderAt(end, len)'
        BY <1>1, <4>2 DEF HeaderAt
      <4> QED
        BY <4>1, <4>3, <4>4
    <3>4. \A k \in 1 .. N + 1 : k \in 1 .. N \/ k = N + 1
      BY <2>3
    <3> QED
      BY <2>3, <3>1, <3>2, <3>3, <3>4 DEF Layout
  <2>8. ReaderInv(off2)'
    BY <1>1, <1>2, <1>4, <2>1, <2>2, <2>5, ReaderGrows
  <2>9. TailInv(off2)'
    <3>1. off2[Len(sent')] = Len(file')
      BY <2>3, <2>4, <2>5
    <3>2. Len(file') - off2[Len(sent')] = 0
      BY <1>2, <3>1
    <3> QED
      BY <2>1, <3>2 DEF TailInv
  <2>10. HeaderInv' /\ FileInv'
    BY <1>2, <1>3, <2>6, <2>7, <2>8, <2>9 DEF HeaderInv, FileInv
  <2> QED
    BY <2>10 DEF Inv
<1> QED
  BY <1>14, <1>15

\* A write leaves the file well formed, however many bytes it takes.
LEMMA WriteKeeps ==
  ASSUME Inv, TypeInv', Write PROVE Inv'
<1>1. TypeInv /\ OpeningInv
  BY DEF Inv
<1>2. PICK n \in 1 .. Len(out) :
         file' = file \o SubSeq(out, 1, n) /\ AfterWrite(SubSeq(out, n + 1, Len(out)))
  BY DEF Write
<1> DEFINE w == SubSeq(out, 1, n)
           rest == SubSeq(out, n + 1, Len(out))
<1>3. Written(n, w, rest) /\ AfterWrite(rest)
  BY <1>1, <1>2, WriteBytes
<1> HIDE DEF w, rest
<1>4. rdVars' = rdVars /\ packet' = packet /\ epoch' = epoch /\ wr \in {"opening", "sending"}
  BY DEF Write
<1>5. Grown /\ file' \in Seq(Bytes)
  <2>1. n \in Nat /\ Len(file) \in Nat /\ Len(file') = Len(file) + n
    BY <1>1, <1>3 DEF Written, TypeInv
  <2>2. Len(file') >= Len(file)
    BY <2>1
  <2> QED
    BY <1>3, <2>2 DEF Written, Grown
<1>6. OpeningInv'
  <2> SUFFICES ASSUME SameFile', rd' = "opening" PROVE got' = <<>> /\ Reads(0)'
    BY DEF OpeningInv
  <2>1. SameFile /\ rd = "opening"
    BY <1>4 DEF SameFile, rdVars
  <2>2. got = <<>> /\ Reads(0)
    BY <1>1, <2>1 DEF OpeningInv
  <2>3. Reads(0)'
    BY <1>1, <1>4, <1>5, <2>2, ReadsGrows
  <2> QED
    BY <1>4, <2>2, <2>3 DEF rdVars
<1> QED
  BY <1>3, <1>4, <1>5, <1>6, WriteHeaderKeeps, WriteRecordKeeps
-----------------------------------------------------------------------------
(* The reader's steps *)

\* A reader's step leaves the file and its layout alone.
LEMMA FileRests ==
  ASSUME Inv, TypeInv', file' = file, wrVars' = wrVars, OpeningInv',
         Len(file) < 2 /\ SameFile' => got' = <<>> /\ rd' \in {"closed", "opening"},
         \A off \in Offsets :
           Len(file) >= 2 /\ Layout(off) /\ TailInv(off) /\ ReaderInv(off) => ReaderInv(off)'
  PROVE  Inv'
<1>1. TypeInv /\ HeaderInv /\ OpeningInv /\ FileInv
  BY DEF Inv
<1>2. wr' = wr /\ wrResult' = wrResult /\ out' = out /\ packet' = packet /\ sent' = sent /\ epoch' = epoch
  BY DEF wrVars
<1>3. HeaderInv'
  BY <1>1, <1>2 DEF HeaderInv
<1>4. FileInv'
  <2> SUFFICES ASSUME Len(file) >= 2 PROVE \E off \in Offsets' : Layout(off)' /\ TailInv(off)' /\ ReaderInv(off)'
    BY DEF FileInv
  <2>1. PICK off \in Offsets : Layout(off) /\ TailInv(off) /\ ReaderInv(off)
    BY <1>1 DEF FileInv
  <2>2. off \in Offsets'
    BY <1>2, <2>1 DEF Offsets
  <2>3. Layout(off)'
    BY <1>2, <2>1 DEF Layout, Lead, HeaderAt
  <2>4. TailInv(off)'
    BY <1>2, <2>1 DEF TailInv, Torn
  <2>5. ReaderInv(off)'
    BY <2>1
  <2> QED
    BY <2>2, <2>3, <2>4, <2>5
<1> QED
  BY <1>3, <1>4 DEF Inv

\* The calls that read nothing, and reads that fail.
LEMMA ReaderCallsKeep ==
  ASSUME Inv, TypeInv', ReaderOpen \/ Receive \/ ReadFailed \/ ReaderClose
  PROVE  Inv'
<1>1. TypeInv /\ HeaderInv /\ OpeningInv /\ FileInv
  BY DEF Inv
<1>2. file' = file /\ wrVars' = wrVars /\ epoch' = epoch /\ sent' = sent
  BY DEF ReaderOpen, Receive, ReadFailed, ReaderClose, wrVars
<1>3. CASE rd' = "opening" /\ pos' = 0 /\ buf' = <<>> /\ got' = <<>> /\ rdEpoch' = epoch
  <2>1. Len(got') = 0 /\ Len(buf') = 0 /\ Len(file) \in Nat /\ Len(sent) \in Nat
    BY <1>1, <1>3 DEF TypeInv, TypeOK
  <2>2. OpeningInv'
    BY <1>2, <1>3, <2>1 DEF OpeningInv, Reads
  <2>3. ASSUME NEW off \in Offsets PROVE ReaderInv(off)'
    BY <1>2, <1>3, <2>1 DEF ReaderInv
  <2> QED
    BY <1>2, <1>3, <2>2, <2>3, FileRests
<1>4. CASE /\ (rd = "closed" \/ rd = "opening") => rd' = "closed"
           /\ rd' = "closed" \/ (rd' = "open" /\ rdResult' # "SUCCESS")
           /\ got' = got /\ rdEpoch' = rdEpoch
  <2>1. OpeningInv'
    BY <1>4 DEF OpeningInv
  <2>2. Len(file) < 2 /\ SameFile' => got' = <<>> /\ rd' \in {"closed", "opening"}
    BY <1>1, <1>2, <1>4 DEF HeaderInv, SameFile
  <2>3. ASSUME NEW off \in Offsets, ReaderInv(off) PROVE ReaderInv(off)'
    BY <1>2, <1>4, <2>3 DEF ReaderInv, SameFile
  <2> QED
    BY <1>2, <2>1, <2>2, <2>3, FileRests
<1>5. CASE Receive
  <2>1. /\ rd = "open" /\ rdResult = "SUCCESS" /\ rd' = "header" /\ buf' = <<>> /\ rdResult' = "SUCCESS"
        /\ pos' = pos /\ mSwap' = mSwap /\ got' = got /\ rdEpoch' = rdEpoch
    BY <1>5 DEF Receive
  <2>2. OpeningInv'
    BY <2>1 DEF OpeningInv
  <2>3. Len(file) < 2 => ~SameFile'
    BY <1>1, <1>2, <2>1 DEF HeaderInv, SameFile
  <2>4. ASSUME NEW off \in Offsets, Layout(off), ReaderInv(off) PROVE ReaderInv(off)'
    <3> SUFFICES ASSUME SameFile' PROVE ReaderInv(off)'
      BY DEF ReaderInv
    <3>1. PICK m : m = Len(got)
      OBVIOUS
    <3>2. m <= Len(sent) /\ (\A i \in 1 .. m : got[i] = sent[i]) /\ pos = off[m] /\ (mSwap <=> epoch = 0)
      BY <1>2, <2>1, <2>4, <3>1 DEF ReaderInv, SameFile
    <3>3. m \in 0 .. Len(sent)
      BY <1>1, <3>1, <3>2 DEF TypeInv, TypeOK
    <3>4. off[m] \in Nat /\ off[m] <= Len(file)
      BY <1>1, <2>4, <3>3, Places
    <3>5. Len(buf') = 0 /\ \A i \in 1 .. 0 : FALSE
      BY <2>1
    <3>6. Reads(off[m])'
      BY <1>2, <2>1, <3>2, <3>4, <3>5 DEF Reads
    <3>7. m = Len(got')
      BY <2>1, <3>1
    <3> QED
      BY <1>2, <2>1, <3>2, <3>6, <3>7 DEF ReaderInv
  <2> QED
    BY <1>2, <2>2, <2>3, <2>4, FileRests
<1>6. CASE ReaderOpen
  BY <1>3, <1>4, <1>6 DEF ReaderOpen
<1>7. CASE ReadFailed
  BY <1>4, <1>7 DEF ReadFailed
<1>8. CASE ReaderClose
  BY <1>4, <1>8 DEF ReaderClose
<1> QED
  BY <1>5, <1>6, <1>7, <1>8

\* What readAll has in hand after a read of n bytes at pos.
HasRead(n, b) ==
  /\ n \in Nat /\ pos + n <= Len(file) /\ Len(buf) + n <= Wanted /\ Wanted \in Nat
  /\ b \in Seq(Bytes) /\ Len(b) = Len(buf) + n
  /\ \A i \in 1 .. Len(buf) : b[i] = buf[i]
  /\ \A i \in 1 .. n : b[Len(buf) + i] = file[pos + i]

\* b is what the file holds from position o, up to n bytes further than pos.
HoldsFrom(o, n, b) ==
  pos + n = o + Len(b) /\ pos + n <= Len(file) /\ \A i \in 1 .. Len(b) : b[i] = file[o + i]

\* It is what the file holds from where the reader started.
LEMMA ReadsOn ==
  ASSUME TypeInv, NEW o \in Nat, Reads(o), NEW n, NEW b, HasRead(n, b)
  PROVE  HoldsFrom(o, n, b)
<1>1. pos \in Nat /\ n \in Nat /\ Len(buf) \in Nat /\ pos = o + Len(buf) /\ Len(b) = Len(buf) + n
  BY DEF TypeInv, TypeOK, Reads, HasRead
<1>2. pos + n = o + Len(b)
  BY <1>1
<1>3. ASSUME NEW i \in 1 .. Len(b) PROVE b[i] = file[o + i]
  <2>1. CASE i <= Len(buf)
    <3>1. i \in 1 .. Len(buf)
      BY <1>1, <2>1
    <3> QED
      BY <3>1 DEF HasRead, Reads
  <2>2. CASE i > Len(buf)
    <3>1. PICK j \in 1 .. n : i = Len(buf) + j
      <4>1. i - Len(buf) \in 1 .. n /\ i = Len(buf) + (i - Len(buf))
        BY <1>1, <2>2
      <4> QED
        BY <4>1
    <3>2. o + i = pos + j
      BY <1>1, <3>1
    <3> QED
      BY <3>1, <3>2 DEF HasRead
  <2> QED
    BY <1>1, <2>1, <2>2
<1> QED
  BY <1>2, <1>3 DEF HasRead, HoldsFrom

\* A read that does not complete what readAll wants.
LEMMA PartialKeeps ==
  ASSUME Inv, TypeInv', rd \in {"opening", "header", "body"}, file' = file, wrVars' = wrVars, rdEpoch' = rdEpoch,
         NEW n, NEW b, HasRead(n, b), pos' = pos + n, buf' = b,
         UNCHANGED <<rd, rdResult, mSwap, inclLen, got>>
  PROVE  Inv'
<1>1. TypeInv /\ HeaderInv /\ OpeningInv /\ FileInv
  BY DEF Inv
<1>2. /\ epoch' = epoch /\ sent' = sent /\ packet' = packet
      /\ rd' = rd /\ rdResult' = rdResult /\ mSwap' = mSwap /\ inclLen' = inclLen /\ got' = got
  BY DEF wrVars
<1>3. ASSUME NEW o \in Nat, Reads(o) PROVE Reads(o)'
  BY <1>1, <1>3, ReadsOn DEF Reads, HoldsFrom
<1>4. OpeningInv'
  BY <1>1, <1>2, <1>3 DEF OpeningInv, SameFile
<1>5. Len(file) < 2 /\ SameFile' => got' = <<>> /\ rd' \in {"closed", "opening"}
  BY <1>1, <1>2 DEF HeaderInv, SameFile
<1>6. ASSUME NEW off \in Offsets, Layout(off), ReaderInv(off) PROVE ReaderInv(off)'
  <2> SUFFICES ASSUME SameFile' PROVE ReaderInv(off)'
    BY DEF ReaderInv
  <2>1. PICK m : m = Len(got)
    OBVIOUS
  <2>2. /\ m <= Len(sent) /\ \A i \in 1 .. m : got[i] = sent[i]
        /\ rd = "header" => rdResult = "SUCCESS" /\ Reads(off[m]) /\ (mSwap <=> epoch = 0)
        /\ rd = "body" => /\ rdResult = "SUCCESS" /\ Reads(off[m] + 2) /\ (mSwap <=> epoch = 0)
                          /\ inclLen = Len(Current(m))
    BY <1>2, <1>6, <2>1 DEF ReaderInv, SameFile
  <2>3. m \in 0 .. Len(sent)
    BY <1>1, <2>1, <2>2 DEF TypeInv, TypeOK
  <2>4. off[m] \in Nat /\ off[m] + 2 \in Nat
    BY <1>1, <1>6, <2>3, Places
  <2>5. (rd = "header" => Reads(off[m])') /\ (rd = "body" => Reads(off[m] + 2)')
    BY <1>3, <2>2, <2>4
  <2>6. m = Len(got')
    BY <1>2, <2>1
  <2> QED
    BY <1>2, <2>2, <2>5, <2>6 DEF ReaderInv, Current
<1> QED
  BY <1>4, <1>5, <1>6, FileRests

\* The global header says in which byte order the capture was written.
LEMMA GlobalHeaderKeeps ==
  ASSUME Inv, OnceInv, TypeInv', rd = "opening", file' = file, wrVars' = wrVars, rdEpoch' = rdEpoch,
         NEW n, NEW b, HasRead(n, b), Len(b) = 2, pos' = pos + n, TakeGlobalHeader(b)
  PROVE  Inv'
<1>1. TypeInv /\ HeaderInv /\ OpeningInv /\ FileInv /\ mSwap = FALSE
  BY DEF Inv, OnceInv
<1>2. epoch' = epoch /\ sent' = sent /\ got' = got /\ rd' \in {"open", "closed"}
  BY DEF wrVars, TakeGlobalHeader
<1>3. OpeningInv'
  BY <1>2 DEF OpeningInv
<1>4. SameFile => got = <<>> /\ pos' = 2 /\ Len(file) >= 2 /\ b[1] = file[1] /\ b[2] = file[2]
  <2> SUFFICES ASSUME SameFile PROVE got = <<>> /\ pos' = 2 /\ Len(file) >= 2 /\ b[1] = file[1] /\ b[2] = file[2]
    OBVIOUS
  <2>1. got = <<>> /\ Reads(0)
    BY <1>1 DEF OpeningInv
  <2>2. PICK o : o = 0
    OBVIOUS
  <2>3. o \in Nat /\ Reads(o)
    BY <2>1, <2>2
  <2>4. HoldsFrom(o, n, b)
    BY <1>1, <2>3, ReadsOn
  <2>5. pos' = 2 /\ 2 <= Len(file) /\ b[1] = file[1] /\ b[2] = file[2]
    BY <2>2, <2>4 DEF HoldsFrom
  <2>6. Len(file) >= 2
    BY <1>1, <2>5 DEF TypeInv
  <2> QED
    BY <2>1, <2>5, <2>6
<1>5. Len(file) < 2 => ~SameFile'
  <2>1. Len(file) \in Nat
    BY <1>1 DEF TypeInv
  <2> QED
    BY <1>2, <1>4, <2>1 DEF SameFile
<1>6. ASSUME NEW off \in Offsets, Layout(off), ReaderInv(off) PROVE ReaderInv(off)'
  <2> SUFFICES ASSUME SameFile' PROVE ReaderInv(off)'
    BY DEF ReaderInv
  <2>1. got' = <<>> /\ pos' = 2 /\ b[1] = file[1] /\ b[2] = file[2]
    BY <1>2, <1>4 DEF SameFile
  <2>2. file[1] = Lead[1] /\ file[2] = Lead[2] /\ off[0] = 2
    BY <1>6 DEF Layout
  <2>3. Len(b) = 2 /\ b \in Seq(Bytes)
    BY DEF HasRead
  <2>6. Len(got') = 0 /\ Len(sent) \in Nat
    BY <1>1, <2>1 DEF TypeInv, TypeOK
  <2>4. CASE epoch = 0
    <3>1. b[1] = 0 /\ b[2] = 1
      BY <2>1, <2>2, <2>4, HeaderBytes DEF Lead
    <3>2. b = Swap(Magic)
      BY <2>3, <3>1 DEF Swap, Magic
    <3>3. rd' = "open" /\ mSwap'
      BY <3>2 DEF TakeGlobalHeader
    <3> QED
      BY <1>2, <2>1, <2>2, <2>4, <2>6, <3>3 DEF ReaderInv
  <2>5. CASE epoch # 0
    <3>1. b[1] = 1 /\ b[2] = 0
      BY <2>1, <2>2, <2>5, HeaderBytes DEF Lead
    <3>2. b = Magic /\ b # Swap(Magic)
      BY <2>3, <3>1 DEF Swap, Magic
    <3>3. rd' = "open" /\ ~mSwap'
      BY <1>1, <3>2 DEF TakeGlobalHeader
    <3> QED
      BY <1>2, <2>1, <2>2, <2>5, <2>6, <3>3 DEF ReaderInv
  <2> QED
    BY <2>4, <2>5
<1> QED
  BY <1>3, <1>5, <1>6, FileRests

\* The number that a record's header holds.
LEMMA HeaderValue ==
  ASSUME mSwap \in BOOLEAN, mSwap <=> epoch = 0,
         NEW b \in Seq(Bytes), Len(b) = 2, NEW len \in Nat,
         IF epoch = 0 THEN b[1] = 0 /\ b[2] = len ELSE b[1] = len /\ b[2] = 0
  PROVE  RecordLength(b) = len
<1>1. Base \in Nat
  BY PcapAssumption
<1>2. len + Base * 0 = len
  BY <1>1
<1>3. CASE epoch = 0
  <2>1. Swap(b)[1] = len /\ Swap(b)[2] = 0
    BY <1>3 DEF Swap
  <2>2. ValueOf(Swap(b)) = len
    BY <1>2, <2>1 DEF ValueOf
  <2> QED
    BY <1>3, <2>2 DEF RecordLength
<1>4. CASE epoch # 0
  <2>1. ValueOf(b) = len
    BY <1>2, <1>4 DEF ValueOf
  <2> QED
    BY <1>4, <2>1 DEF RecordLength
<1> QED
  BY <1>3, <1>4

\* What the file holds where the reader is, when there is a record header there.
LEMMA CurrentRecord ==
  ASSUME TypeInv, NEW off \in Offsets, Layout(off), TailInv(off),
         NEW m \in Nat, m <= Len(sent), off[m] + 2 <= Len(file)
  PROVE  /\ off[m] \in Nat /\ Current(m) \in Packets /\ HeaderAt(off[m], Len(Current(m)))
         /\ off[m] + 2 + Len(Current(m)) <= Len(file) =>
              /\ m < Len(sent) /\ off[m + 1] = off[m] + 2 + Len(Current(m))
              /\ \A i \in 1 .. Len(Current(m)) : file[off[m] + 2 + i] = Current(m)[i]
<1>1. m \in 0 .. Len(sent) /\ Len(sent) \in Nat /\ Len(file) \in Nat
  BY DEF TypeInv, TypeOK
<1>2. off[m] \in Nat
  BY <1>1, Places
<1>3. CASE m < Len(sent)
  <2>1. PICK k \in 1 .. Len(sent) : k = m + 1 /\ k - 1 = m
    <3>1. m + 1 \in 1 .. Len(sent) /\ (m + 1) - 1 = m
      BY <1>1, <1>3
    <3> QED
      BY <3>1
  <2>2. Current(m) = sent[k] /\ sent[k] \in Packets
    BY <1>3, <2>1 DEF Current, TypeInv, TypeOK
  <2>3. /\ off[k] = off[k - 1] + 2 + Len(sent[k]) /\ HeaderAt(off[k - 1], Len(sent[k]))
        /\ \A i \in 1 .. Len(sent[k]) : file[off[k - 1] + 2 + i] = sent[k][i]
    BY DEF Layout
  <2> QED
    BY <1>2, <1>3, <2>1, <2>2, <2>3
<1>4. CASE m = Len(sent)
  <2>1. PICK tail : tail = Len(file) - off[m]
    OBVIOUS
  <2>2. tail >= 2 /\ tail \in Nat /\ off[m] + tail = Len(file)
    BY <1>1, <1>2, <2>1
  <2>3. Torn(tail, off[m])
    BY <1>4, <2>1, <2>2 DEF TailInv
  <2>4. Current(m) = packet /\ packet \in Packets /\ epoch # 0 /\ tail < 2 + Len(packet)
    BY <1>1, <1>4, <2>3 DEF Current, Torn
  <2>5. file[off[m] + 1] = Len(packet) /\ file[off[m] + 2] = 0 /\ Len(packet) \in Nat
    <3>1. Len(packet) \in Nat /\ Record(packet)[1] = Len(packet) /\ Record(packet)[2] = 0
      BY <2>4, RecordBytes
    <3>2. 1 \in 1 .. tail /\ 2 \in 1 .. tail
      BY <2>2
    <3>3. \A i \in 1 .. tail : file[off[m] + i] = Record(packet)[i]
      BY <2>3 DEF Torn
    <3> QED
      BY <3>1, <3>2, <3>3
  <2>6. ~(off[m] + 2 + Len(packet) <= Len(file))
    BY <1>1, <1>2, <2>2, <2>4, <2>5
  <2> QED
    BY <1>2, <2>4, <2>5, <2>6 DEF HeaderAt
<1> QED
  BY <1>1, <1>3, <1>4

\* What the reader's invariant says while a record is read.
LEMMA ReaderAt ==
  ASSUME TypeInv, NEW off \in Offsets, Layout(off), TailInv(off), ReaderInv(off), SameFile,
         rd \in {"header", "body"}, NEW m, m = Len(got)
  PROVE  /\ m \in Nat /\ m <= Len(sent) /\ (\A i \in 1 .. m : got[i] = sent[i]) /\ off[m] \in Nat
         /\ rdResult = "SUCCESS" /\ (mSwap <=> epoch = 0)
         /\ rd = "header" => Reads(off[m])
         /\ rd = "body" => Reads(off[m] + 2) /\ inclLen = Len(Current(m))
<1>1. /\ m <= Len(sent) /\ (\A i \in 1 .. m : got[i] = sent[i])
      /\ rdResult = "SUCCESS" /\ (mSwap <=> epoch = 0)
      /\ rd = "header" => Reads(off[m])
      /\ rd = "body" => Reads(off[m] + 2) /\ inclLen = Len(Current(m))
  BY DEF ReaderInv
<1>2. m \in Nat /\ m \in 0 .. Len(sent)
  BY <1>1 DEF TypeInv, TypeOK
<1>3. off[m] \in Nat
  BY <1>2, Places
<1> QED
  BY <1>1, <1>2, <1>3

\* A packet is returned: it is the next one of the file.
LEMMA PacketReturned ==
  ASSUME TypeInv, NEW m \in Nat, m = Len(got), m < Len(sent), \A i \in 1 .. m : got[i] = sent[i],
         NEW off, pos' = off[m + 1], mSwap <=> epoch = 0, mSwap' = mSwap, epoch' = epoch, sent' = sent,
         rd' = "open", NEW p, p = sent[m + 1], got' = Append(got, p)
  PROVE  ReaderInv(off)'
<1>1. got \in Seq(Seq(Bytes)) /\ Len(sent) \in Nat
  BY DEF TypeInv, TypeOK
<1>2. Len(got') = m + 1 /\ got'[m + 1] = p /\ \A i \in 1 .. m : got'[i] = got[i]
  <2> DEFINE g == got
             Q == Seq(Bytes)
  <2>1. g \in Seq(Q) /\ got' = Append(g, p) /\ m = Len(g)
    BY <1>1
  <2> HIDE DEF g, Q
  <2>2. Len(got') = m + 1 /\ got'[m + 1] = p /\ \A i \in 1 .. m : got'[i] = g[i]
    BY <2>1
  <2> QED
    BY <2>2 DEF g
<1>3. ASSUME NEW i \in 1 .. m + 1 PROVE got'[i] = sent'[i]
  <2>1. i \in 1 .. m \/ i = m + 1
    OBVIOUS
  <2> QED
    BY <1>2, <2>1
<1>4. PICK k : k = m + 1
  OBVIOUS
<1>5. k = Len(got') /\ k <= Len(sent') /\ (\A i \in 1 .. k : got'[i] = sent'[i]) /\ pos' = off[k]
  BY <1>1, <1>2, <1>3, <1>4
<1> QED
  BY <1>5 DEF ReaderInv

\* The header of a record is read.
LEMMA RecordHeaderKeeps ==
  ASSUME Inv, TypeInv', rd = "header", file' = file, wrVars' = wrVars, rdEpoch' = rdEpoch,
         NEW n, NEW b, HasRead(n, b), Len(b) = 2, pos' = pos + n, buf' = <<>>, TakeRecordHeader(b)
  PROVE  Inv'
<1>1. TypeInv /\ HeaderInv /\ OpeningInv /\ FileInv
  BY DEF Inv
<1>2. /\ epoch' = epoch /\ sent' = sent /\ packet' = packet /\ rdResult' = rdResult /\ mSwap' = mSwap
      /\ rd' \in {"open", "body"} /\ inclLen' = RecordLength(b)
      /\ IF inclLen' = 0 THEN rd' = "open" /\ got' = Append(got, <<>>) ELSE rd' = "body" /\ got' = got
  BY DEF wrVars, TakeRecordHeader
<1>3. OpeningInv'
  BY <1>2 DEF OpeningInv
<1>4. Len(file) < 2 => ~SameFile'
  BY <1>1, <1>2 DEF HeaderInv, SameFile
<1>5. ASSUME NEW off \in Offsets, Layout(off), TailInv(off), ReaderInv(off) PROVE ReaderInv(off)'
  <2> SUFFICES ASSUME SameFile' PROVE ReaderInv(off)'
    BY DEF ReaderInv
  <2>1. SameFile
    BY <1>2 DEF SameFile
  <2>2. PICK m : m = Len(got)
    OBVIOUS
  <2>3. /\ m \in Nat /\ m <= Len(sent) /\ (\A i \in 1 .. m : got[i] = sent[i]) /\ off[m] \in Nat
        /\ rdResult = "SUCCESS" /\ (mSwap <=> epoch = 0) /\ Reads(off[m])
    BY <1>1, <1>5, <2>1, <2>2, ReaderAt
  <2>4. PICK o \in Nat : o = off[m]
    BY <2>3
  <2>5. HoldsFrom(o, n, b)
    BY <1>1, <2>3, <2>4, ReadsOn
  <2>6. pos' = o + 2 /\ o + 2 <= Len(file) /\ b[1] = file[o + 1] /\ b[2] = file[o + 2]
    BY <2>5 DEF HoldsFrom
  <2>7. PICK len : len = Len(Current(m))
    OBVIOUS
  <2>8. /\ Current(m) \in Packets /\ HeaderAt(o, len)
        /\ o + 2 + len <= Len(file) =>
             /\ m < Len(sent) /\ off[m + 1] = o + 2 + len
             /\ \A i \in 1 .. len : file[o + 2 + i] = Current(m)[i]
    BY <1>1, <1>5, <2>3, <2>4, <2>6, <2>7, CurrentRecord
  <2>9. len \in Nat /\ Current(m) \in Seq(Bytes)
    BY <2>7, <2>8, RecordBytes
  <2>10. inclLen' = len
    <3>1. IF epoch = 0 THEN b[1] = 0 /\ b[2] = len ELSE b[1] = len /\ b[2] = 0
      BY <2>6, <2>8 DEF HeaderAt
    <3>2. b \in Seq(Bytes) /\ mSwap \in BOOLEAN
      BY <1>1 DEF HasRead, TypeInv, TypeOK
    <3> QED
      BY <1>2, <2>3, <2>9, <3>1, <3>2, HeaderValue
  <2>11. CASE len = 0
    <3>1. m < Len(sent) /\ off[m + 1] = o + 2
      BY <2>6, <2>8, <2>11
    <3>2. Current(m) = <<>> /\ Current(m) = sent[m + 1]
      BY <2>7, <2>9, <2>11, <3>1 DEF Current
    <3>3. rd' = "open" /\ got' = Append(got, <<>>) /\ pos' = off[m + 1]
      BY <1>2, <2>6, <2>10, <2>11, <3>1
    <3>4. PICK p : p = <<>>
      OBVIOUS
    <3>5. p = sent[m + 1] /\ got' = Append(got, p)
      BY <3>2, <3>3, <3>4
    <3> QED
      BY <1>1, <1>2, <2>2, <2>3, <3>1, <3>3, <3>5, PacketReturned
  <2>12. CASE len # 0
    <3>1. rd' = "body" /\ got' = got /\ Len(got') = m
      BY <1>2, <2>2, <2>10, <2>12
    <3>2. Len(buf') = 0 /\ \A i \in 1 .. 0 : FALSE
      OBVIOUS
    <3>3. Reads(off[m] + 2)'
      BY <2>4, <2>6, <3>2 DEF Reads
    <3>4. inclLen' = Len(Current(m)')
      BY <1>2, <2>7, <2>10 DEF Current
    <3> QED
      BY <1>2, <2>3, <3>1, <3>3, <3>4 DEF ReaderInv
  <2> QED
    BY <2>11, <2>12
<1> QED
  BY <1>3, <1>4, <1>5, FileRests

\* The packet of a record is read.
LEMMA BodyKeeps ==
  ASSUME Inv, TypeInv', rd = "body", file' = file, wrVars' = wrVars, rdEpoch' = rdEpoch,
         NEW n, NEW b, HasRead(n, b), Len(b) = inclLen, pos' = pos + n, TakeBody(b)
  PROVE  Inv'
<1>1. TypeInv /\ HeaderInv /\ OpeningInv /\ FileInv
  BY DEF Inv
<1>2. /\ epoch' = epoch /\ sent' = sent /\ rdResult' = rdResult /\ mSwap' = mSwap
      /\ rd' = "open" /\ got' = Append(got, b)
  BY DEF wrVars, TakeBody
<1>3. OpeningInv'
  BY <1>2 DEF OpeningInv
<1>4. Len(file) < 2 => ~SameFile'
  BY <1>1, <1>2 DEF HeaderInv, SameFile
<1>5. ASSUME NEW off \in Offsets, Layout(off), TailInv(off), ReaderInv(off) PROVE ReaderInv(off)'
  <2> SUFFICES ASSUME SameFile' PROVE ReaderInv(off)'
    BY DEF ReaderInv
  <2>1. SameFile
    BY <1>2 DEF SameFile
  <2>2. PICK m : m = Len(got)
    OBVIOUS
  <2>3. /\ m \in Nat /\ m <= Len(sent) /\ (\A i \in 1 .. m : got[i] = sent[i]) /\ off[m] \in Nat
        /\ rdResult = "SUCCESS" /\ (mSwap <=> epoch = 0) /\ Reads(off[m] + 2) /\ inclLen = Len(Current(m))
    BY <1>1, <1>5, <2>1, <2>2, ReaderAt
  <2>4. PICK o \in Nat : o = off[m] + 2
    BY <2>3
  <2>5. HoldsFrom(o, n, b)
    BY <1>1, <2>3, <2>4, ReadsOn
  <2>6. PICK len \in Nat : len = Len(b)
    BY DEF HasRead
  <2>7. pos' = o + len /\ o + len <= Len(file) /\ \A i \in 1 .. len : b[i] = file[o + i]
    BY <2>5, <2>6 DEF HoldsFrom
  <2>8. len = Len(Current(m)) /\ off[m] + 2 <= Len(file) /\ Len(file) \in Nat
    <3>1. Len(file) \in Nat /\ len = Len(Current(m))
      BY <1>1, <2>3, <2>6 DEF TypeInv
    <3>2. o <= Len(file)
      BY <2>6, <2>7, <3>1
    <3> QED
      BY <2>4, <3>1, <3>2
  <2>9. /\ Current(m) \in Packets /\ m < Len(sent) /\ off[m + 1] = o + len
        /\ \A i \in 1 .. len : file[o + i] = Current(m)[i]
    BY <1>1, <1>5, <2>3, <2>4, <2>7, <2>8, CurrentRecord
  <2>10. b = sent[m + 1]
    <3>1. Current(m) \in Seq(Bytes) /\ b \in Seq(Bytes) /\ Current(m) = sent[m + 1]
      BY <2>9, RecordBytes DEF HasRead, Current
    <3> DEFINE c == Current(m)
    <3> HIDE DEF c
    <3>2. c \in Seq(Bytes) /\ Len(c) = Len(b) /\ \A i \in 1 .. Len(b) : b[i] = c[i]
      BY <2>6, <2>7, <2>8, <2>9, <3>1 DEF c
    <3>3. b = c
      BY <3>1, <3>2
    <3> QED
      BY <3>1, <3>3 DEF c
  <2> QED
    BY <1>1, <1>2, <2>2, <2>3, <2>7, <2>9, <2>10, PacketReturned
<1> QED
  BY <1>3, <1>4, <1>5, FileRests

\* A read keeps the invariant, whatever it completes.
LEMMA ReadKeeps ==
  ASSUME Inv, OnceInv, TypeInv', Read
  PROVE  Inv'
<1>1. TypeInv
  BY DEF Inv
<1>2. rd \in {"opening", "header", "body"} /\ file' = file /\ wrVars' = wrVars /\ rdEpoch' = rdEpoch
  BY DEF Read
<1>3. PICK n \in 1 .. Least(Len(file) - pos, Wanted - Len(buf)) :
         pos' = pos + n /\ AfterRead(buf \o SubSeq(file, pos + 1, pos + n))
  BY DEF Read
<1>4. file \in Seq(Bytes) /\ buf \in Seq(Bytes) /\ Len(file) \in Nat /\ Len(buf) \in Nat /\ pos \in Nat
  BY <1>1 DEF TypeInv, TypeOK
<1>5. n \in Nat /\ pos + n <= Len(file) /\ Wanted \in Nat /\ Len(buf) + n <= Wanted
  <2>1. Wanted \in Nat
    BY <1>1 DEF Wanted, TypeInv, TypeOK
  <2>2. n \in Nat /\ n <= Len(file) - pos /\ n <= Wanted - Len(buf)
    BY <1>3, <1>4, <2>1 DEF Least
  <2> QED
    BY <1>4, <2>1, <2>2
<1> DEFINE b == buf \o SubSeq(file, pos + 1, pos + n)
<1>6. /\ b \in Seq(Bytes) /\ Len(b) = Len(buf) + n
      /\ \A i \in 1 .. Len(buf) : b[i] = buf[i]
      /\ \A i \in 1 .. n : b[Len(buf) + i] = file[pos + i]
  <2>1. Fetched(file, pos, buf, n, b)
    BY <1>4, <1>5, ReadBytes
  <2> HIDE DEF b
  <2> QED
    BY <2>1 DEF Fetched
<1>7. AfterRead(b)
  BY <1>3
<1> HIDE DEF b
<1>8. HasRead(n, b)
  BY <1>5, <1>6 DEF HasRead
<1>9. CASE Len(b) < Wanted
  <2>1. buf' = b /\ UNCHANGED <<rd, rdResult, mSwap, inclLen, got>>
    BY <1>7, <1>9 DEF AfterRead
  <2> QED
    BY <1>2, <1>3, <1>8, <2>1, PartialKeeps
<1>10. CASE ~(Len(b) < Wanted)
  <2>1. Len(b) = Wanted
    BY <1>4, <1>5, <1>6, <1>10
  <2>2. /\ buf' = <<>>
        /\ \/ rd = "opening" /\ TakeGlobalHeader(b)
           \/ rd = "header" /\ TakeRecordHeader(b)
           \/ rd = "body" /\ TakeBody(b)
    BY <1>7, <1>10 DEF AfterRead
  <2>3. CASE rd = "opening" /\ TakeGlobalHeader(b)
    <3>1. Len(b) = 2
      BY <2>1, <2>3 DEF Wanted
    <3> QED
      BY <1>2, <1>3, <1>8, <2>3, <3>1, GlobalHeaderKeeps
  <2>4. CASE rd = "header" /\ TakeRecordHeader(b)
    <3>1. Len(b) = 2
      BY <2>1, <2>4 DEF Wanted
    <3> QED
      BY <1>2, <1>3, <1>8, <2>2, <2>4, <3>1, RecordHeaderKeeps
  <2>5. CASE rd = "body" /\ TakeBody(b)
    <3>1. Len(b) = inclLen
      BY <2>1, <2>5 DEF Wanted
    <3> QED
      BY <1>2, <1>3, <1>8, <2>5, <3>1, BodyKeeps
  <2> QED
    BY <2>2, <2>3, <2>4, <2>5
<1> QED
  BY <1>9, <1>10
-----------------------------------------------------------------------------
(* The theorems *)

\* A receiver that is opened at most once starts with mSwap as the constructor
\* left it.
LEMMA OnceInductive ==
  ASSUME MaxReaderOpens <= 1
  PROVE  /\ Init => OnceInv
         /\ OnceInv /\ [Next]_vars => OnceInv'
<1>1. Init => OnceInv
  BY DEF Init, OnceInv
<1>2. ASSUME OnceInv, rdVars' = rdVars PROVE OnceInv'
  BY <1>2 DEF OnceInv, rdVars
<1>3. ASSUME OnceInv, ReaderOpen PROVE OnceInv'
  <2>1. rdOpens \in Nat /\ rdOpens < 1 /\ rdOpens' = rdOpens + 1 /\ mSwap' = mSwap
    BY <1>3, PcapAssumption DEF ReaderOpen, OnceInv
  <2>2. mSwap = FALSE /\ rdOpens' \in Nat /\ rdOpens' # 0
    BY <1>3, <2>1 DEF OnceInv
  <2> QED
    BY <2>1, <2>2 DEF OnceInv
<1>4. ASSUME OnceInv, Receive \/ Read \/ ReadFailed \/ ReaderClose PROVE OnceInv'
  <2>1. rdOpens' = rdOpens /\ rdOpens \in Nat
    BY <1>4 DEF OnceInv, Receive, Read, ReadFailed, ReaderClose
  <2>2. rd # "closed"
    BY <1>4 DEF Receive, Read, ReadFailed, ReaderClose
  <2>3. rdOpens # 0
    BY <1>4, <2>2 DEF OnceInv
  <2>4. rd' = "opening" => mSwap' = mSwap /\ rd = "opening"
    <3>1. CASE Read
      BY <3>1 DEF Read, AfterRead, TakeGlobalHeader, TakeRecordHeader, TakeBody
    <3>2. CASE Receive \/ ReadFailed \/ ReaderClose
      BY <3>2 DEF Receive, ReadFailed, ReaderClose
    <3> QED
      BY <1>4, <3>1, <3>2
  <2> QED
    BY <1>4, <2>1, <2>3, <2>4 DEF OnceInv
<1>5. ASSUME WriterStep \/ UNCHANGED vars PROVE rdVars' = rdVars
  BY <1>5 DEF WriterStep, WriterOpen, Send, Write, WriteError, WriterClose, vars
<1> QED
  BY <1>1, <1>2, <1>3, <1>4, <1>5 DEF Next, ReaderStep, ReadEnd, ReadError

\* The capture that is there at first is laid out, and nobody reads it.
LEMMA FileInit ==
  ASSUME Init PROVE Inv
<1>1. TypeInv
  BY TypesInductive
<1>2. /\ file = ForeignFile /\ sent = ForeignPackets /\ epoch = 0 /\ wr = "closed" /\ rd = "closed"
      /\ got = <<>> /\ Len(got) = 0
  BY DEF Init
<1>3. PICK off \in [0 .. Len(ForeignPackets) -> 0 .. Len(ForeignFile)] :
         /\ off[0] = 2 /\ ForeignFile[1] = 0 /\ ForeignFile[2] = 1
         /\ off[Len(ForeignPackets)] = Len(ForeignFile)
         /\ \A k \in 1 .. Len(ForeignPackets) :
              /\ off[k] = off[k - 1] + 2 + Len(ForeignPackets[k])
              /\ ForeignFile[off[k - 1] + 1] = 0
              /\ ForeignFile[off[k - 1] + 2] = Len(ForeignPackets[k])
              /\ \A i \in 1 .. Len(ForeignPackets[k]) :
                   ForeignFile[off[k - 1] + 2 + i] = ForeignPackets[k][i]
  BY ForeignLayout
<1>4. off \in Offsets /\ Len(file) \in Nat /\ Len(sent) \in Nat
  BY <1>1, <1>2, <1>3 DEF Offsets, TypeInv, TypeOK
<1>5. Layout(off)
  BY <1>2, <1>3, HeaderBytes DEF Layout, Lead, HeaderAt
<1>6. TailInv(off)
  BY <1>2, <1>3, <1>4 DEF TailInv
<1>7. ReaderInv(off)
  BY <1>2, <1>4 DEF ReaderInv
<1>8. Len(file) >= 2
  <2>1. off[0] = 2 /\ off[0] \in 0 .. Len(file)
    BY <1>3, <1>4 DEF Offsets
  <2> QED
    BY <1>4, <2>1
<1>9. HeaderInv /\ OpeningInv
  BY <1>2, <1>4, <1>8 DEF HeaderInv, OpeningInv
<1> QED
  BY <1>1, <1>4, <1>5, <1>6, <1>7, <1>9 DEF Inv, FileInv

\* Every step of either end keeps the invariant.
LEMMA FileInductive ==
  ASSUME Inv, OnceInv, [Next]_vars PROVE Inv'
<1>1. TypeInv'
  BY TypesInductive DEF Inv
<1>2. CASE WriterStep
  BY <1>1, <1>2, WriterOpenKeeps, SendKeeps, WriteKeeps, WriteErrorKeeps DEF WriterStep
<1>3. CASE ReaderStep
  BY <1>1, <1>3, ReaderCallsKeep, ReadKeeps DEF ReaderStep, ReadEnd, ReadError
<1>4. CASE UNCHANGED vars
  <2>1. /\ file' = file /\ sent' = sent /\ epoch' = epoch /\ rdVars' = rdVars /\ packet' = packet
        /\ wr' = wr /\ wrResult' = wrResult /\ out' = out
    BY <1>4 DEF vars, wrVars
  <2>2. ASSUME NEW off \in Offsets, TailInv(off) PROVE TailInv(off)'
    BY <2>1, <2>2 DEF TailInv, Torn
  <2>3. Len(file) < 2 => wr' \in {"opening", "closed"} /\ (wr' = "opening" => wr = "opening" /\ out' = out)
    BY <2>1 DEF Inv, HeaderInv
  <2> QED
    BY <1>1, <2>1, <2>2, <2>3, WriterRests
<1> QED
  BY <1>2, <1>3, <1>4 DEF Next

\* What the invariant says of the packets returned.
LEMMA ReturnedInOrder ==
  ASSUME Inv, SameFile
  PROVE  Len(got) <= Len(sent) /\ \A i \in 1 .. Len(got) : got[i] = sent[i]
<1>1. TypeInv /\ HeaderInv /\ FileInv
  BY DEF Inv
<1>2. Len(file) \in Nat /\ Len(sent) \in Nat
  BY <1>1 DEF TypeInv, TypeOK
<1>3. CASE Len(file) < 2
  <2>1. Len(got) = 0
    BY <1>1, <1>3 DEF HeaderInv
  <2> QED
    BY <1>2, <2>1
<1>4. CASE Len(file) >= 2
  BY <1>1, <1>4 DEF FileInv, ReaderInv
<1> QED
  BY <1>2, <1>3, <1>4

\* A replay ends at the end of the file with every whole packet returned.
LEMMA EofConsumed ==
  ASSUME Inv, [Next]_vars, Ends, pos' >= Len(file), SameFile PROVE got' = sent
<1>1. TypeInv /\ HeaderInv /\ FileInv
  BY DEF Inv
<1>2. rd = "header" /\ got' = got /\ pos' = pos
  <2>1. CASE WriterStep \/ UNCHANGED vars
    BY <2>1 DEF WriterStep, WriterOpen, Send, Write, WriteError, WriterClose, vars, rdVars, Ends
  <2>2. CASE Read
    BY <2>2 DEF Read, AfterRead, TakeGlobalHeader, TakeRecordHeader, TakeBody, Ends
  <2>3. CASE ReaderOpen \/ Receive \/ ReaderClose
    BY <2>3 DEF ReaderOpen, Receive, ReaderClose, Ends
  <2>4. CASE ReadFailed
    BY <2>4 DEF ReadFailed, Ends
  <2> QED
    BY <2>1, <2>2, <2>3, <2>4 DEF Next, ReaderStep, ReadEnd, ReadError
<1>3. /\ Len(file) \in Nat /\ Len(sent) \in Nat /\ Len(buf) \in Nat /\ Len(buf) < 2 /\ pos \in Nat
      /\ got \in Seq(Seq(Bytes)) /\ sent \in Seq(Packets)
  BY <1>1, <1>2 DEF TypeInv, TypeOK, Wanted
<1>4. Len(file) >= 2
  BY <1>1, <1>2, <1>3 DEF HeaderInv
<1>5. PICK off \in Offsets : Layout(off) /\ TailInv(off) /\ ReaderInv(off)
  BY <1>1, <1>4 DEF FileInv
<1>6. PICK m : m = Len(got)
  OBVIOUS
<1>7. m \in Nat /\ m <= Len(sent) /\ (\A i \in 1 .. m : got[i] = sent[i]) /\ off[m] \in Nat /\ Reads(off[m])
  BY <1>1, <1>2, <1>5, <1>6, ReaderAt
<1>8. off[m] + 2 > Len(file)
  BY <1>2, <1>3, <1>7 DEF Reads
<1>9. m = Len(sent)
  <2>1. CASE m < Len(sent)
    <3>1. m + 1 \in 1 .. Len(sent) /\ (m + 1) - 1 = m
      BY <1>3, <1>7, <2>1
    <3>2. Len(sent[m + 1]) \in Nat /\ off[m] + 2 + Len(sent[m + 1]) <= Len(file)
      BY <1>1, <1>5, <3>1, Places
    <3> QED
      BY <1>3, <1>7, <1>8, <3>2
  <2> QED
    BY <1>3, <1>7, <2>1
<1>10. got = sent
  <2>1. Len(got) = Len(sent) /\ \A i \in 1 .. Len(got) : got[i] = sent[i]
    BY <1>6, <1>7, <1>9
  <2> DEFINE g == got
             Q == Seq(Bytes)
  <2> HIDE DEF g, Q
  <2>2. g \in Seq(Q) /\ Len(g) = Len(sent) /\ \A i \in 1 .. Len(g) : g[i] = sent[i]
    BY <1>3, <2>1 DEF g, Q
  <2>3. g = sent
    BY <1>3, <2>2
  <2> QED
    BY <2>3 DEF g
<1> QED
  BY <1>2, <1>10

\* receive() returns the file's whole packets in order, in either byte order and
\* however far a writer of the same file has got, for every number of packets:
\* the promise of pcap_receiver.h, for a receiver that is opened once (as
\* packet-gen opens it; over a reopen PcapReceiver keeps mSwap).
THEOREM Replay == MaxReaderOpens <= 1 => (Spec => []ReplaysInOrder)
<1> SUFFICES ASSUME MaxReaderOpens <= 1 PROVE Spec => []ReplaysInOrder
  OBVIOUS
<1>1. Inv => ReplaysInOrder
  <2> SUFFICES ASSUME Inv, SameFile PROVE Len(got) <= Len(sent) /\ got = SubSeq(sent, 1, Len(got))
    BY DEF ReplaysInOrder
  <2>1. Len(got) <= Len(sent) /\ \A i \in 1 .. Len(got) : got[i] = sent[i]
    BY ReturnedInOrder
  <2>2. got \in Seq(Seq(Bytes)) /\ sent \in Seq(Packets)
    BY DEF Inv, TypeInv, TypeOK
  <2> DEFINE p == SubSeq(sent, 1, Len(got))
  <2>3. p \in Seq(Packets) /\ Len(p) = Len(got) /\ \A i \in 1 .. Len(p) : p[i] = sent[i]
    BY <2>1, <2>2
  <2> HIDE DEF p
  <2>4. got = p
    BY <2>1, <2>2, <2>3
  <2> QED
    BY <2>1, <2>4 DEF p
<1>2. Init => Inv /\ OnceInv
  BY FileInit, OnceInductive
<1>3. Inv /\ OnceInv /\ [Next]_vars => Inv' /\ OnceInv'
  BY FileInductive, OnceInductive
<1> QED
  BY <1>1, <1>2, <1>3, PTL DEF Spec

\* receive() returns RECEIVER_ERR_EOF at the end of the file only when every
\* packet that the file holds whole was returned, for a receiver opened once.
THEOREM EofOnlyAtTheEnd == MaxReaderOpens <= 1 => (Spec => EofMeansConsumed)
<1> SUFFICES ASSUME MaxReaderOpens <= 1 PROVE Spec => EofMeansConsumed
  OBVIOUS
<1>1. Init => Inv /\ OnceInv
  BY FileInit, OnceInductive
<1>2. Inv /\ OnceInv /\ [Next]_vars => Inv' /\ OnceInv'
  BY FileInductive, OnceInductive
<1>3. Inv /\ [Next]_vars => [ConsumedAtEof]_vars
  BY EofConsumed DEF ConsumedAtEof
<1> QED
  BY <1>1, <1>2, <1>3, PTL DEF Spec, EofMeansConsumed
=============================================================================
