---------------------------- MODULE CodecProofs ----------------------------
(***************************************************************************)
(* Proofs about the two codecs of Session, for every database of           *)
(* variables, every list of interfaces and every word width.               *)
(*                                                                         *)
(* PacketCodec.  RoundTrip is not inductive: it speaks of layers already   *)
(* decoded.  The invariant ties the loops together through the recorded    *)
(* offsets:                                                                *)
(*   - LayerInv: within a layer the builder's buffer holds exactly the     *)
(*     bits of the fields recorded so far, at the recorded offsets;        *)
(*   - FrameInv: each finished layer is a slice of the frame, and the      *)
(*     slices follow one another;                                          *)
(*   - WireInv: what arrived agrees with those slices as far as it goes;   *)
(*   - SyncInv: the decoder's loop is at the builder's offset.             *)
(* What the builder writes into the fields is a second invariant,          *)
(* ValueInv: while a stage is built its fields are recorded by short name, *)
(* and the overrides are the record of the stage before.                   *)
(*                                                                         *)
(* StackCodec.  The properties speak of finished frames and of decoded     *)
(* layers, so the invariant says how far each pass has come:               *)
(*   - TypeInv: types, and what the stack is bound to;                     *)
(*   - PassInv: below the layer a pass is at, the contexts have the        *)
(*     interface's layout, chosen values and then derived ones;            *)
(*   - MadeInv: what was packed is what the contexts held;                 *)
(*   - SliceInv: the frame is the packed layers, one after the other;      *)
(*   - BackInv: decodeStack is at the byte where its layer begins, and the *)
(*     layers below came back.                                             *)
(***************************************************************************)
EXTENDS Session, SequenceLemmas, TLAPS

\* The first n references of iface are laid out at the offsets a, and the
\* packet pkt holds their bits.
LayerInv(iface, n, a, pkt) ==
  /\ DOMAIN a = 1 .. n + 1
  /\ \A k \in 1 .. n + 1 : a[k] \in Nat
  /\ a[1] = 0
  /\ \A k \in 1 .. n : a[k + 1] = a[k] + Size(iface[k])
  /\ \A k \in 1 .. n + 1 : a[k] <= a[n + 1]
  /\ pkt.bytes.size = CeilBytes(a[n + 1])
  /\ \A p \in pkt.bytes.ones : p < a[n + 1]
  /\ \A j \in LivePos(iface, n), i \in 0 .. WordBits - 1 :
       i < Size(iface[j]) =>
         (a[j] + (Size(iface[j]) - 1 - i) \in pkt.bytes.ones <=> i \in pkt.fields[j])

CurInv ==
  phase = "build" =>
    /\ LayerInv(IF li <= Len(layers) THEN Iface ELSE <<>>, ri - 1, curAt, cur)
    /\ curAt[ri] = bitOffset

BuiltInv ==
  /\ DOMAIN at = DOMAIN built /\ DOMAIN base = DOMAIN built
  /\ \A l \in DOMAIN built : /\ LayerInv(layers[l], Len(layers[l]), at[l], built[l])
                             /\ base[l] \in Nat

\* The byte after the last byte of the layers built so far.
EndOf(l) == IF l + 1 \in DOMAIN built THEN base[l + 1] ELSE bytes.size

FrameInv ==
  /\ \A p \in bytes.ones : p < 8 * bytes.size
  /\ mode = "chain" => \A l \in DOMAIN built : base[l] = 0
  /\ mode = "stack" =>
       /\ DOMAIN built = {} => bytes.size = 0
       /\ 1 \in DOMAIN built => base[1] = 0
       /\ \A l \in DOMAIN built :
            /\ base[l] + built[l].bytes.size = EndOf(l)
            /\ base[l] + built[l].bytes.size <= bytes.size
            /\ \A p \in 0 .. 8 * built[l].bytes.size - 1 :
                 8 * base[l] + p \in bytes.ones <=> p \in built[l].bytes.ones

WireInv ==
  phase # "build" =>
    \A l \in 1 .. Len(layers) :
      /\ \A p \in received[l].ones : p < 8 * received[l].size
      /\ \A p \in 0 .. 8 * built[l].bytes.size - 1 :
           8 * base[l] + p < 8 * received[l].size =>
             (8 * base[l] + p \in received[l].ones <=> p \in built[l].bytes.ones)

\* What the decoder must return for field j of layer l.
Arrived(l, j) ==
  {i \in Low(built[l].fields[j], Size(layers[l][j])) :
     WirePos(l, j, i) < 8 * received[l].size}

SyncInv ==
  phase = "decode" /\ li <= Len(layers) =>
    /\ offset = base[li]
    /\ totalBits = at[li][ri]
    /\ bitOffset = 8 * base[li] + at[li][ri]
    /\ \A j \in LivePos(Iface, ri - 1) : cur.fields[j] = Arrived(li, j)

\* While building, the decoder's variables are at rest.
RestInv ==
  /\ phase = "build" => offset = 0 /\ totalBits = 0
  /\ phase = "build" /\ li > Len(layers) => bitOffset = 0

IInv == TypeOK /\ CurInv /\ BuiltInv /\ FrameInv /\ WireInv /\ SyncInv
          /\ RestInv /\ RoundTrip /\ LayerSlicesExact
-----------------------------------------------------------------------------
(* The layout of one layer *)

LEMMA SizeNat == \A r \in Refs : Size(r) \in Nat
BY RefsAssumption DEF Size, Var

LEMMA LivePosFacts ==
  ASSUME NEW iface, NEW n \in Nat
  PROVE  /\ Live(iface[n + 1]) => LivePos(iface, n + 1) = LivePos(iface, n) \cup {n + 1}
         /\ ~Live(iface[n + 1]) => LivePos(iface, n + 1) = LivePos(iface, n)
         /\ LivePos(iface, 0) = {}
         /\ n + 1 \notin LivePos(iface, n)
BY DEF LivePos

\* Appending a field keeps the bits of the earlier ones and adds its own.
LEMMA LayerGrow ==
  ASSUME NEW iface \in Seq(Refs), NEW n \in Nat, n + 1 <= Len(iface),
         NEW a, NEW pkt, pkt.bytes \in Buffer, LayerInv(iface, n, a, pkt),
         NEW v \in Word, Live(iface[n + 1]), DOMAIN pkt.fields = LivePos(iface, n)
  PROVE  LayerInv(iface, n + 1, Extend(a, n + 2, a[n + 1] + Size(iface[n + 1])),
                  [bytes  |-> AppendBits(pkt.bytes, a[n + 1], v, Size(iface[n + 1])),
                   fields |-> Extend(pkt.fields, n + 1, v)])
<1> DEFINE s == Size(iface[n + 1])
           o == a[n + 1]
           b == Extend(a, n + 2, o + s)
           new == [bytes  |-> AppendBits(pkt.bytes, o, v, s),
                   fields |-> Extend(pkt.fields, n + 1, v)]
<1>1. /\ iface[n + 1] \in Refs /\ \A k \in 1 .. n : iface[k] \in Refs
  OBVIOUS
<1>2. s \in Nat /\ s # 0 /\ \A k \in 1 .. n : Size(iface[k]) \in Nat
  BY <1>1, SizeNat DEF Live
<1>3. o \in Nat
  BY DEF LayerInv
<1>4. /\ DOMAIN b = 1 .. (n + 1) + 1
      /\ \A k \in 1 .. n + 1 : b[k] = a[k]
      /\ b[(n + 1) + 1] = o + s
  BY DEF LayerInv, Extend
<1>5. /\ \A k \in 1 .. (n + 1) + 1 : b[k] \in Nat
      /\ b[1] = 0
      /\ \A k \in 1 .. n + 1 : b[k + 1] = b[k] + Size(iface[k])
      /\ \A k \in 1 .. (n + 1) + 1 : b[k] <= b[(n + 1) + 1]
  <2>1. \A k \in 1 .. n + 1 : a[k] \in Nat /\ a[k] <= o
    BY DEF LayerInv
  <2>2. \A k \in 1 .. (n + 1) + 1 : k \in 1 .. n + 1 \/ k = (n + 1) + 1
    OBVIOUS
  <2>4. \A k \in 1 .. n : a[k + 1] = a[k] + Size(iface[k])
    BY DEF LayerInv
  <2>5. b[1] = 0
    BY <1>4 DEF LayerInv
  <2>6. ASSUME NEW k \in 1 .. n + 1 PROVE b[k + 1] = b[k] + Size(iface[k])
    <3> HIDE DEF b
    <3>1. CASE k = n + 1
      BY <3>1, <1>4
    <3>2. CASE k \in 1 .. n
      BY <3>2, <2>4, <1>4
    <3> QED
      BY <3>1, <3>2
  <2>7. ASSUME NEW k \in 1 .. (n + 1) + 1 PROVE b[k] \in Nat /\ b[k] <= b[(n + 1) + 1]
    <3> HIDE DEF b, o, s
    <3>1. CASE k \in 1 .. n + 1
      <4>1. b[k] = a[k] /\ b[(n + 1) + 1] = o + s
        BY <3>1, <1>4
      <4>2. a[k] \in Nat /\ a[k] <= o
        BY <3>1, <2>1
      <4> QED
        BY <4>1, <4>2, <1>2, <1>3
    <3>2. CASE k = (n + 1) + 1
      BY <3>2, <1>2, <1>3, <1>4
    <3> QED
      BY <3>1, <3>2, <2>2
  <2> QED
    BY <2>5, <2>6, <2>7
<1>6. new.bytes.size = CeilBytes(b[(n + 1) + 1])
  <2>1. pkt.bytes.size = CeilBytes(o)
    BY DEF LayerInv
  <2>2. new.bytes.size = IF CeilBytes(o + s) > pkt.bytes.size
                           THEN CeilBytes(o + s) ELSE pkt.bytes.size
    BY DEF AppendBits
  <2> HIDE DEF o, s, b, new
  <2>3. CeilBytes(o + s) > CeilBytes(o) \/ CeilBytes(o + s) = CeilBytes(o)
    BY <1>2, <1>3 DEF CeilBytes
  <2> QED
    BY <2>1, <2>2, <2>3, <1>4
<1> DEFINE added == {o + (s - 1 - i) : i \in Low(v, s)}
<1>7. new.bytes.ones = pkt.bytes.ones \cup added
  BY DEF AppendBits
<1>8. ASSUME NEW p \in added PROVE p \in Nat /\ o <= p /\ p < o + s
  <2> HIDE DEF o, s
  <2>1. PICK i \in Low(v, s) : p = o + (s - 1 - i)
    OBVIOUS
  <2>2. i \in v /\ i < s
    BY DEF Low
  <2>3. i \in Nat
    BY <2>2 DEF Word
  <2> QED
    BY <2>1, <2>2, <2>3, <1>2, <1>3
<1>9. \A p \in pkt.bytes.ones : p \in Nat /\ p < o
  BY DEF LayerInv, Buffer
<1>10. \A p \in new.bytes.ones : p < b[(n + 1) + 1]
  <2> HIDE DEF o, s, b, new, added
  <2> QED
    BY <1>2, <1>3, <1>4, <1>7, <1>8, <1>9
<1>11. ASSUME NEW j \in LivePos(iface, n + 1), NEW i \in 0 .. WordBits - 1,
              i < Size(iface[j])
       PROVE  b[j] + (Size(iface[j]) - 1 - i) \in new.bytes.ones <=> i \in new.fields[j]
  <2>1. j \in LivePos(iface, n) \/ j = n + 1
    BY LivePosFacts
  <2>2. CASE j \in LivePos(iface, n)
    <3>1. j \in 1 .. n /\ j # n + 1
      BY <2>2 DEF LivePos
    <3>2. new.fields[j] = pkt.fields[j]
      BY <2>2, <3>1 DEF Extend
    <3>3. a[j + 1] = a[j] + Size(iface[j]) /\ a[j + 1] <= o /\ a[j] \in Nat
      BY <3>1 DEF LayerInv
    <3>4. a[j] + (Size(iface[j]) - 1 - i) < o
      <4> HIDE DEF o
      <4>1. Size(iface[j]) \in Nat /\ i \in Nat
        BY <3>1, <1>2, WordBitsAssumption
      <4> QED
        BY <4>1, <3>3, <1>3
    <3>5. a[j] + (Size(iface[j]) - 1 - i) \notin added
      <4> HIDE DEF o, s, added
      <4>1. ASSUME a[j] + (Size(iface[j]) - 1 - i) \in added PROVE FALSE
        BY <4>1, <3>4, <1>8, <1>3
      <4> QED
        BY <4>1
    <3>6. a[j] + (Size(iface[j]) - 1 - i) \in pkt.bytes.ones <=> i \in pkt.fields[j]
      BY <2>2, <1>11 DEF LayerInv
    <3> QED
      BY <3>1, <3>2, <3>5, <3>6, <1>4, <1>7
  <2>3. CASE j = n + 1
    <3>1. new.fields[j] = v
      BY <2>3 DEF Extend
    <3>2. b[j] = o
      BY <2>3, <1>4
    <3>3. o + (s - 1 - i) \notin pkt.bytes.ones
      BY <1>9, <1>11, <2>3, <1>2, <1>3, WordBitsAssumption
    <3>4. i \in v => o + (s - 1 - i) \in added
      BY <1>11, <2>3 DEF Low
    <3>5. ASSUME o + (s - 1 - i) \in added PROVE i \in v
      <4>1. PICK m \in Low(v, s) : o + (s - 1 - i) = o + (s - 1 - m)
        BY <3>5
      <4>2. m \in Int
        BY WordBitsAssumption DEF Low, Word
      <4>3. m = i
        BY <4>1, <4>2, <1>2, <1>3, WordBitsAssumption
      <4> QED
        BY <4>3 DEF Low
    <3> QED
      BY <3>1, <3>2, <3>3, <3>4, <3>5, <1>7, <2>3
  <2> QED
    BY <2>1, <2>2, <2>3
<1> QED
  BY <1>4, <1>5, <1>6, <1>10, <1>11 DEF LayerInv

\* A skipped reference leaves the layout alone.
LEMMA LayerSkip ==
  ASSUME NEW iface \in Seq(Refs), NEW n \in Nat, n + 1 <= Len(iface),
         NEW a, NEW pkt, LayerInv(iface, n, a, pkt), ~Live(iface[n + 1])
  PROVE  LayerInv(iface, n + 1, Extend(a, n + 2, a[n + 1]), pkt)
<1> DEFINE b == Extend(a, n + 2, a[n + 1])
<1>1. Size(iface[n + 1]) = 0
  BY DEF Live
<1>2. /\ DOMAIN b = 1 .. (n + 1) + 1
      /\ \A k \in 1 .. n + 1 : b[k] = a[k]
      /\ b[n + 2] = a[n + 1]
  BY DEF LayerInv, Extend
<1>3. \A k \in 1 .. n + 1 : a[k] \in Nat /\ a[k] <= a[n + 1]
  BY DEF LayerInv
<1>4. \A k \in 1 .. (n + 1) + 1 : k \in 1 .. n + 1 \/ k = n + 2
  OBVIOUS
<1>5. \A k \in 1 .. n + 1 : b[k + 1] = b[k] + Size(iface[k])
  <2>1. \A k \in 1 .. n + 1 : k \in 1 .. n \/ k = n + 1
    OBVIOUS
  <2>2. \A k \in 1 .. n : a[k + 1] = a[k] + Size(iface[k])
    BY DEF LayerInv
  <2> QED
    BY <2>1, <2>2, <1>1, <1>2, <1>3
<1>6. \A j \in LivePos(iface, n + 1) : j \in LivePos(iface, n) /\ b[j] = a[j]
  BY LivePosFacts, <1>2 DEF LivePos
<1>7. \A k \in 1 .. (n + 1) + 1 : b[k] \in Nat /\ b[k] <= b[(n + 1) + 1]
  BY <1>2, <1>3, <1>4
<1>8. b[1] = 0 /\ b[(n + 1) + 1] = a[n + 1]
  BY <1>2 DEF LayerInv
<1>9. /\ pkt.bytes.size = CeilBytes(a[n + 1])
      /\ \A p \in pkt.bytes.ones : p < a[n + 1]
      /\ \A j \in LivePos(iface, n + 1), i \in 0 .. WordBits - 1 :
           i < Size(iface[j]) =>
             (b[j] + (Size(iface[j]) - 1 - i) \in pkt.bytes.ones <=> i \in pkt.fields[j])
  BY <1>6 DEF LayerInv
<1> QED
  BY <1>2, <1>5, <1>7, <1>8, <1>9 DEF LayerInv

\* A layer's one bits lie within its bytes.
LEMMA LayerWithin ==
  ASSUME NEW iface \in Seq(Refs), NEW n \in Nat, n <= Len(iface),
         NEW a, NEW pkt, pkt.bytes \in Buffer, LayerInv(iface, n, a, pkt)
  PROVE  \A p \in pkt.bytes.ones : p \in 0 .. 8 * pkt.bytes.size - 1
<1>1. a[n + 1] \in Nat
  BY DEF LayerInv
<1>2. \A p \in pkt.bytes.ones : p \in Nat /\ p < a[n + 1]
  BY DEF LayerInv, Buffer
<1>3. a[n + 1] <= 8 * CeilBytes(a[n + 1])
  BY <1>1 DEF CeilBytes
<1>4. pkt.bytes.size = CeilBytes(a[n + 1]) /\ pkt.bytes.size \in Nat
  BY DEF LayerInv, Buffer
<1> QED
  BY <1>1, <1>2, <1>3, <1>4

LEMMA LayerEmpty ==
  ASSUME NEW iface PROVE LayerInv(iface, 0, Start, EmptyPacket)
BY DEF LayerInv, Start, EmptyPacket, EmptyBuffer, CeilBytes, LivePos
-----------------------------------------------------------------------------
(* Types *)

LEMMA LayersFacts ==
  ASSUME layers \in Programs
  PROVE  /\ layers \in Seq(Seq(Refs)) /\ Len(layers) \in Nat
         /\ \A l \in 1 .. Len(layers) :
              /\ layers[l] \in Seq(Refs) /\ Len(layers[l]) \in Nat
              /\ \A k \in 1 .. Len(layers[l]) : layers[l][k] \in Refs
<1>1. layers \in Seq(Seq(Refs))
  BY ProgramsAssumption
<1>2. Len(layers) \in Nat /\ \A l \in 1 .. Len(layers) : layers[l] \in Seq(Refs)
  BY <1>1
<1>3. \A l \in 1 .. Len(layers) : Len(layers[l]) \in Nat
  BY <1>2
<1>4. ASSUME NEW l \in 1 .. Len(layers), NEW k \in 1 .. Len(layers[l])
      PROVE  layers[l][k] \in Refs
  BY <1>2
<1> QED
  BY <1>1, <1>2, <1>3, <1>4

LEMMA LiveResolves == \A r \in Refs : Live(r) => r \in DOMAIN VarDb /\ VarDb[r] \in Var
BY RefsAssumption DEF Live, Size

LEMMA PickValueType ==
  ASSUME NEW var \in Var PROVE PickValue(var) \subseteq Word
BY DEF PickValue, Var, Word

LEMMA FieldValueType ==
  ASSUME IsNameMap(overrides), NEW ref \in Refs, Live(ref)
  PROVE  FieldValue(ref) \subseteq Word
<1> DEFINE var == VarDb[ref]  name == ShortName[ref]
<1>1. var \in Var /\ var.mask \in Word
  BY LiveResolves DEF Var
<1>2. PickValue(var) \subseteq Word
  BY <1>1, PickValueType
<1>3. name \in DOMAIN overrides => overrides[name] \in Word
  BY DEF IsNameMap
<1>4. name \in DOMAIN overrides => overrides[name] \cap var.mask \in Word
  BY <1>1, <1>3 DEF Word
<1> QED
  BY <1>2, <1>4 DEF FieldValue

LEMMA ExtendType ==
  ASSUME NEW D, NEW S, NEW f \in [D -> S], NEW x, NEW y \in S
  PROVE  Extend(f, x, y) \in [D \cup {x} -> S]
BY DEF Extend

LEMMA NameMapExtend ==
  ASSUME NEW f, IsNameMap(f), NEW n \in Names, NEW v \in Word
  PROVE  IsNameMap(Extend(f, n, v))
<1>1. DOMAIN f \subseteq Names /\ f \in [DOMAIN f -> Word]
  BY DEF IsNameMap
<1>2. Extend(f, n, v) \in [DOMAIN f \cup {n} -> Word]
  BY <1>1, ExtendType
<1>3. DOMAIN Extend(f, n, v) = DOMAIN f \cup {n}
  BY <1>2
<1> QED
  BY <1>1, <1>2, <1>3 DEF IsNameMap

LEMMA NameMapEmpty == IsNameMap(EmptyMap)
<1>1. EmptyMap \in [{} -> Word]
  BY DEF EmptyMap
<1> QED
  BY <1>1 DEF IsNameMap

LEMMA AppendBitsType ==
  ASSUME NEW buf \in Buffer, NEW o \in Nat, NEW v \in Word, NEW n \in Nat
  PROVE  AppendBits(buf, o, v, n) \in Buffer
<1>1. \A i \in Low(v, n) : i \in Nat /\ i < n
  BY WordBitsAssumption DEF Low, Word
<1>2. \A i \in Low(v, n) : o + (n - 1 - i) \in Nat
  BY <1>1
<1>3. CeilBytes(o + n) \in Nat
  BY DEF CeilBytes
<1> QED
  BY <1>2, <1>3 DEF AppendBits, Buffer

LEMMA EmptyPacketType ==
  ASSUME NEW iface PROVE EmptyPacket \in PacketOf(iface, 0)
BY LivePosFacts DEF EmptyPacket, EmptyBuffer, EmptyMap, PacketOf, Buffer
-----------------------------------------------------------------------------
(* The invariant holds initially and is preserved by the builder's steps *)

LEMMA InitIInv == Init => IInv
<1> SUFFICES ASSUME Init PROVE IInv
  OBVIOUS
<1> USE DEF Init
<1>1. layers \in Programs /\ Len(layers) \in Nat
  BY LayersFacts
<1>2. DOMAIN built = {} /\ DOMAIN decoded = {} /\ DOMAIN at = {} /\ DOMAIN base = {}
  BY DEF EmptyMap
<1>3. TypeOK
  <2>1. cur \in PacketOf(IF li <= Len(layers) THEN Iface ELSE <<>>, ri - 1)
    BY EmptyPacketType
  <2>2. IsNameMap(carry) /\ IsNameMap(overrides)
    BY NameMapEmpty
  <2>3. bytes \in Buffer
    BY DEF EmptyBuffer, Buffer
  <2>4. received \in [1 .. (IF phase = "build" THEN 0 ELSE Len(layers)) -> Buffer]
    BY DEF EmptyMap
  <2>5. 1 \in 1 .. (IF li <= Len(layers) THEN Len(Iface) ELSE 0) + 1
    <3>1. CASE 1 <= Len(layers)
      BY <3>1, <1>1, LayersFacts DEF Iface
    <3>2. CASE ~(1 <= Len(layers))
      BY <3>2
    <3> QED
      BY <3>1, <3>2
  <2> QED
    BY <1>1, <1>2, <2>1, <2>2, <2>3, <2>4, <2>5 DEF TypeOK
<1>4. CurInv
  BY LayerEmpty DEF CurInv, Start
<1>5. BuiltInv /\ FrameInv
  BY <1>2 DEF BuiltInv, FrameInv, EmptyBuffer
<1>6. WireInv /\ SyncInv /\ RestInv
  BY <1>1 DEF WireInv, SyncInv, RestInv
<1>7. RoundTrip /\ LayerSlicesExact
  BY <1>2 DEF RoundTrip, LayerSlicesExact
<1> QED
  BY <1>3, <1>4, <1>5, <1>6, <1>7 DEF IInv

\* Facts about the reference the loops are at.
LEMMA AtRefFacts ==
  ASSUME TypeOK, AtRef
  PROVE  /\ li \in 1 .. Len(layers) /\ Iface \in Seq(Refs) /\ Len(Iface) \in Nat
         /\ ri \in 1 .. Len(Iface) /\ ri - 1 \in Nat /\ (ri - 1) + 1 = ri
         /\ Ref \in Refs /\ Size(Ref) \in Nat
         /\ cur \in PacketOf(Iface, ri - 1)
<1>1. li \in 1 .. Len(layers)
  BY LayersFacts DEF TypeOK, AtRef
<1>2. Iface \in Seq(Refs) /\ Len(Iface) \in Nat
  BY <1>1, LayersFacts DEF TypeOK, Iface
<1>3. ri \in 1 .. Len(Iface)
  BY <1>1, <1>2 DEF TypeOK, AtRef
<1>4. Ref \in Refs /\ Size(Ref) \in Nat
  BY <1>2, <1>3, SizeNat DEF Ref
<1>5. cur \in PacketOf(Iface, ri - 1)
  BY <1>1 DEF TypeOK
<1> QED
  BY <1>1, <1>2, <1>3, <1>4, <1>5

LEMMA BuildFieldIInv == IInv /\ BuildField => IInv'
<1> SUFFICES ASSUME IInv, BuildField PROVE IInv'
  OBVIOUS
<1>1. TypeOK /\ AtRef /\ phase = "build" /\ Live(Ref)
  BY DEF IInv, BuildField
<1>2. UNCHANGED <<mode, layers, phase, li, overrides, built, bytes, at, base,
                  received, offset, totalBits, decoded>> /\ ri' = ri + 1
  BY DEF BuildField, decodeVars
<1>3. PICK v \in FieldValue(Ref) :
         /\ cur' = [bytes  |-> AppendBits(cur.bytes, bitOffset, v, Size(Ref)),
                    fields |-> Extend(cur.fields, ri, v)]
         /\ carry' = Extend(carry, ShortName[Ref], v)
  BY DEF BuildField
<1>4. /\ li \in 1 .. Len(layers) /\ Iface \in Seq(Refs) /\ Len(Iface) \in Nat
      /\ ri \in 1 .. Len(Iface) /\ ri - 1 \in Nat /\ (ri - 1) + 1 = ri
      /\ Ref \in Refs /\ Size(Ref) \in Nat
      /\ cur \in PacketOf(Iface, ri - 1)
  BY <1>1, AtRefFacts
<1>5. v \in Word
  BY <1>1, <1>3, <1>4, FieldValueType DEF TypeOK
<1>6. Len(layers) \in Nat
  BY <1>1, LayersFacts DEF TypeOK
<1>7. Iface' = Iface
  BY <1>2 DEF Iface
<1>8. TypeOK'
  <2>1. cur' \in PacketOf(Iface, ri)
    <3>1. AppendBits(cur.bytes, bitOffset, v, Size(Ref)) \in Buffer
      BY <1>1, <1>4, <1>5, AppendBitsType DEF TypeOK, PacketOf
    <3>2. Extend(cur.fields, ri, v) \in [LivePos(Iface, ri - 1) \cup {ri} -> Word]
      BY <1>4, <1>5, ExtendType DEF PacketOf
    <3>3. LivePos(Iface, ri) = LivePos(Iface, ri - 1) \cup {ri}
      BY <1>1, <1>4, LivePosFacts DEF Ref
    <3> QED
      BY <1>3, <3>1, <3>2, <3>3 DEF PacketOf
  <2>2. IsNameMap(carry')
    <3>1. ShortName[Ref] \in Names
      BY <1>4, RefsAssumption
    <3> QED
      BY <1>1, <1>3, <1>5, <3>1, NameMapExtend DEF TypeOK
  <2>3. bitOffset' \in Nat
    BY <1>1, <1>4 DEF BuildField, TypeOK
  <2>4. ri' \in 1 .. (IF li' <= Len(layers') THEN Len(Iface') ELSE 0) + 1
    BY <1>2, <1>4, <1>7
  <2>5. cur' \in PacketOf(IF li' <= Len(layers') THEN Iface' ELSE <<>>, ri' - 1)
    <3>1. ri' - 1 = ri /\ li' <= Len(layers')
      BY <1>2, <1>4
    <3> QED
      BY <2>1, <3>1, <1>7
  <2> QED
    BY <1>1, <1>2, <2>2, <2>3, <2>4, <2>5 DEF TypeOK
<1>9. CurInv'
  <2> DEFINE n == ri - 1
  <2>1. LayerInv(Iface, n, curAt, cur) /\ curAt[n + 1] = bitOffset
    BY <1>1, <1>4 DEF IInv, CurInv
  <2>2. n + 1 <= Len(Iface) /\ cur.bytes \in Buffer /\ Live(Iface[n + 1])
    BY <1>1, <1>4 DEF PacketOf, Ref
  <2>3. DOMAIN cur.fields = LivePos(Iface, n)
    BY <1>4 DEF PacketOf
  <2>4. LayerInv(Iface, n + 1, Extend(curAt, n + 2, curAt[n + 1] + Size(Iface[n + 1])),
                 [bytes  |-> AppendBits(cur.bytes, curAt[n + 1], v, Size(Iface[n + 1])),
                  fields |-> Extend(cur.fields, n + 1, v)])
    <3> HIDE DEF n
    <3>1. n \in Nat
      BY <1>4 DEF n
    <3> QED
      BY <1>4, <1>5, <2>1, <2>2, <2>3, <3>1, LayerGrow
  <2>5. curAt' = Extend(curAt, ri + 1, bitOffset + Size(Ref))
    BY DEF BuildField
  <2>6. n + 1 = ri /\ n + 2 = ri + 1 /\ Iface[n + 1] = Ref /\ ri' - 1 = ri
    BY <1>2, <1>4 DEF Ref
  <2>7. LayerInv(Iface, ri, curAt', cur')
    BY <1>3, <2>1, <2>4, <2>5, <2>6
  <2>8. curAt'[ri'] = bitOffset'
    BY <1>2, <2>5 DEF BuildField, Extend
  <2>9. li' <= Len(layers')
    BY <1>2, <1>4
  <2> QED
    BY <2>6, <2>7, <2>8, <2>9, <1>7 DEF CurInv
<1>10. BuiltInv' /\ FrameInv'
  BY <1>2 DEF IInv, BuiltInv, FrameInv, EndOf, LayerInv
<1>11. WireInv' /\ SyncInv' /\ RestInv'
  BY <1>1, <1>2, <1>4, <1>6 DEF IInv, WireInv, SyncInv, RestInv
<1>12. RoundTrip' /\ LayerSlicesExact'
  BY <1>2 DEF IInv, RoundTrip, LayerSlicesExact, WirePos
<1> QED
  BY <1>8, <1>9, <1>10, <1>11, <1>12 DEF IInv

LEMMA BuildSkipIInv == IInv /\ BuildSkip => IInv'
<1> SUFFICES ASSUME IInv, BuildSkip PROVE IInv'
  OBVIOUS
<1>1. TypeOK /\ AtRef /\ phase = "build" /\ ~Live(Ref)
  BY DEF IInv, BuildSkip
<1>2. UNCHANGED <<mode, layers, phase, li, bitOffset, cur, carry, overrides, built, bytes,
                  at, base, received, offset, totalBits, decoded>> /\ ri' = ri + 1
  BY DEF BuildSkip, decodeVars
<1>3. /\ li \in 1 .. Len(layers) /\ Iface \in Seq(Refs) /\ Len(Iface) \in Nat
      /\ ri \in 1 .. Len(Iface) /\ ri - 1 \in Nat /\ (ri - 1) + 1 = ri
      /\ cur \in PacketOf(Iface, ri - 1)
  BY <1>1, AtRefFacts
<1>4. Len(layers) \in Nat /\ Iface' = Iface
  BY <1>1, <1>2, LayersFacts DEF TypeOK, Iface
<1>5. ri' - 1 = ri /\ li' <= Len(layers')
  BY <1>2, <1>3
<1>6. TypeOK'
  <2>1. LivePos(Iface, ri) = LivePos(Iface, ri - 1)
    BY <1>1, <1>3, LivePosFacts DEF Ref
  <2>2. cur' \in PacketOf(IF li' <= Len(layers') THEN Iface' ELSE <<>>, ri' - 1)
    BY <1>2, <1>3, <1>4, <1>5, <2>1 DEF PacketOf
  <2>3. ri' \in 1 .. (IF li' <= Len(layers') THEN Len(Iface') ELSE 0) + 1
    BY <1>2, <1>3, <1>4
  <2> QED
    BY <1>1, <1>2, <2>2, <2>3 DEF TypeOK
<1>7. CurInv'
  <2> DEFINE n == ri - 1
  <2>1. LayerInv(Iface, n, curAt, cur) /\ curAt[n + 1] = bitOffset
    BY <1>1, <1>3 DEF IInv, CurInv
  <2>2. n + 1 <= Len(Iface) /\ ~Live(Iface[n + 1]) /\ n \in Nat
    BY <1>1, <1>3 DEF Ref
  <2>3. LayerInv(Iface, n + 1, Extend(curAt, n + 2, curAt[n + 1]), cur)
    <3> HIDE DEF n
    <3> QED
      BY <1>3, <2>1, <2>2, LayerSkip
  <2>4. n + 1 = ri /\ n + 2 = ri + 1
    BY <1>3
  <2>5. curAt' = Extend(curAt, ri + 1, bitOffset)
    BY DEF BuildSkip
  <2>6. LayerInv(Iface, ri, curAt', cur')
    BY <1>2, <2>1, <2>3, <2>4, <2>5
  <2>7. curAt'[ri'] = bitOffset'
    BY <1>2, <2>5 DEF Extend
  <2> QED
    BY <2>6, <2>7, <1>4, <1>5 DEF CurInv
<1>8. BuiltInv' /\ FrameInv'
  BY <1>2 DEF IInv, BuiltInv, FrameInv, EndOf, LayerInv
<1>9. WireInv' /\ SyncInv' /\ RestInv'
  BY <1>1, <1>2, <1>3, <1>4 DEF IInv, WireInv, SyncInv, RestInv
<1>10. RoundTrip' /\ LayerSlicesExact'
  BY <1>2 DEF IInv, RoundTrip, LayerSlicesExact, WirePos
<1> QED
  BY <1>6, <1>7, <1>8, <1>9, <1>10 DEF IInv

\* Facts at the end of a layer.
LEMMA AtEndFacts ==
  ASSUME TypeOK, AtEnd
  PROVE  /\ li \in 1 .. Len(layers) /\ Len(layers) \in Nat
         /\ layers[li] \in Seq(Refs) /\ Len(layers[li]) \in Nat
         /\ ri = Len(layers[li]) + 1 /\ ri - 1 = Len(layers[li])
         /\ cur \in PacketOf(layers[li], Len(layers[li]))
<1>1. li \in 1 .. Len(layers) /\ Len(layers) \in Nat
  BY LayersFacts DEF TypeOK, AtEnd
<1>2. layers[li] \in Seq(Refs) /\ Len(layers[li]) \in Nat
  BY <1>1, LayersFacts DEF TypeOK
<1>3. ri = Len(layers[li]) + 1
  BY <1>1, <1>2 DEF TypeOK, AtEnd, Iface
<1>4. ri - 1 = Len(layers[li])
  BY <1>2, <1>3
<1>5. cur \in PacketOf(layers[li], Len(layers[li]))
  BY <1>1, <1>4 DEF TypeOK, Iface
<1> QED
  BY <1>1, <1>2, <1>3, <1>4, <1>5

\* The loops start a layer, or stand behind the last one.
LEMMA FreshLayerType ==
  ASSUME NEW p \in Programs, NEW l \in 1 .. Len(p) + 1
  PROVE  1 \in 1 .. (IF l <= Len(p) THEN Len(p[l]) ELSE 0) + 1
<1>1. p \in Seq(Seq(Refs)) /\ Len(p) \in Nat
  BY ProgramsAssumption
<1>2. l <= Len(p) => Len(p[l]) \in Nat
  <2>1. l <= Len(p) => p[l] \in Seq(Refs)
    BY <1>1
  <2> QED
    BY <2>1
<1> QED
  BY <1>2

\* The slice facts of FrameInv survive the insertion of a layer.
LEMMA ConcatSlices ==
  ASSUME NEW a \in Buffer, NEW b \in Buffer,
         \A p \in a.ones : p < 8 * a.size,
         \A p \in b.ones : p < 8 * b.size
  PROVE  /\ Concat(a, b) \in Buffer
         /\ Concat(a, b).size = a.size + b.size
         /\ \A p \in Concat(a, b).ones : p < 8 * Concat(a, b).size
         /\ \A p \in Nat : p < 8 * a.size => (p \in Concat(a, b).ones <=> p \in a.ones)
         /\ \A p \in Nat : 8 * a.size + p \in Concat(a, b).ones <=> p \in b.ones
<1> DEFINE shifted == {8 * a.size + q : q \in b.ones}
<1>1. a.size \in Nat /\ b.size \in Nat /\ a.ones \subseteq Nat /\ b.ones \subseteq Nat
  BY DEF Buffer
<1>2. Concat(a, b).size = a.size + b.size /\ Concat(a, b).ones = a.ones \cup shifted
  BY DEF Concat
<1>3. \A p \in shifted : p \in Nat /\ 8 * a.size <= p /\ p < 8 * (a.size + b.size)
  BY <1>1
<1>4. \A p \in Nat : 8 * a.size + p \in shifted <=> p \in b.ones
  BY <1>1
<1>5. \A p \in Nat : 8 * a.size + p \notin a.ones
  BY <1>1
<1>6. Concat(a, b) \in Buffer
  <2>1. shifted \subseteq Nat
    BY <1>3
  <2> QED
    BY <1>1, <2>1 DEF Concat, Buffer
<1> HIDE DEF shifted
<1>7. \A p \in a.ones : p \in Nat /\ p < 8 * (a.size + b.size)
  BY <1>1
<1>8. \A p \in Nat : p < 8 * a.size => p \notin shifted
  BY <1>1, <1>3
<1> QED
  BY <1>1, <1>2, <1>3, <1>4, <1>5, <1>6, <1>7, <1>8

LEMMA BuildLayerIInv == IInv /\ BuildLayer => IInv'
<1> SUFFICES ASSUME IInv, BuildLayer PROVE IInv'
  OBVIOUS
<1>1. TypeOK /\ AtEnd /\ phase = "build"
  BY DEF IInv, BuildLayer
<1>2. /\ UNCHANGED <<mode, layers, phase, received, offset, totalBits, decoded>>
      /\ li' = li + 1 /\ ri' = 1 /\ bitOffset' = 0 /\ cur' = EmptyPacket /\ curAt' = Start
      /\ carry' = EmptyMap
  BY DEF BuildLayer, decodeVars
<1>3. /\ li \in 1 .. Len(layers) /\ Len(layers) \in Nat
      /\ layers[li] \in Seq(Refs) /\ Len(layers[li]) \in Nat
      /\ ri = Len(layers[li]) + 1 /\ ri - 1 = Len(layers[li])
      /\ cur \in PacketOf(layers[li], Len(layers[li]))
  BY <1>1, AtEndFacts
<1>4. DOMAIN built = 1 .. li - 1 /\ li \notin DOMAIN built
  BY <1>1, <1>3 DEF TypeOK
<1>5. /\ DOMAIN built' = 1 .. li
      /\ built'[li] = cur
      /\ \A l \in DOMAIN built : built'[l] = built[l]
  <2>1. DOMAIN built' = DOMAIN built \cup {li}
    BY DEF BuildLayer, Extend
  <2> QED
    BY <1>3, <1>4, <2>1 DEF BuildLayer, Extend
<1>6. /\ DOMAIN at = DOMAIN built => /\ DOMAIN at' = DOMAIN built'
                                     /\ at'[li] = curAt
                                     /\ \A l \in DOMAIN built : at'[l] = at[l]
      /\ DOMAIN base = DOMAIN built =>
           /\ DOMAIN base' = DOMAIN built'
           /\ base'[li] = IF mode = "stack" THEN bytes.size ELSE 0
           /\ \A l \in DOMAIN built : base'[l] = base[l]
  BY <1>4 DEF BuildLayer, Extend
<1>7. DOMAIN at = DOMAIN built /\ DOMAIN base = DOMAIN built
  BY DEF IInv, BuiltInv
<1>8. \A l \in DOMAIN built' : l = li \/ l \in DOMAIN built
  BY <1>3, <1>4, <1>5
<1>9. LayerInv(layers[li], Len(layers[li]), curAt, cur)
  BY <1>1, <1>3 DEF IInv, CurInv, Iface
<1>10. bytes \in Buffer /\ cur.bytes \in Buffer
  BY <1>1, <1>3 DEF TypeOK, PacketOf
<1>11. /\ \A p \in bytes.ones : p < 8 * bytes.size
       /\ \A p \in cur.bytes.ones : p \in Nat /\ p < 8 * cur.bytes.size
  <2>1. \A p \in cur.bytes.ones : p \in 0 .. 8 * cur.bytes.size - 1
    BY <1>3, <1>9, <1>10, LayerWithin
  <2>2. cur.bytes.size \in Nat
    BY <1>10 DEF Buffer
  <2> QED
    BY <2>1, <2>2 DEF IInv, FrameInv
<1>12. /\ Concat(bytes, cur.bytes) \in Buffer
       /\ Concat(bytes, cur.bytes).size = bytes.size + cur.bytes.size
       /\ \A p \in Concat(bytes, cur.bytes).ones : p < 8 * Concat(bytes, cur.bytes).size
       /\ \A p \in Nat : p < 8 * bytes.size =>
            (p \in Concat(bytes, cur.bytes).ones <=> p \in bytes.ones)
       /\ \A p \in Nat : 8 * bytes.size + p \in Concat(bytes, cur.bytes).ones
                           <=> p \in cur.bytes.ones
  BY <1>10, <1>11, ConcatSlices
<1>13. bytes' = IF mode = "stack" THEN Concat(bytes, cur.bytes) ELSE bytes
  BY DEF BuildLayer
<1>14. TypeOK'
  <2>1. li' \in 1 .. Len(layers') + 1
    BY <1>2, <1>3
  <2>2. ri' \in 1 .. (IF li' <= Len(layers') THEN Len(Iface') ELSE 0) + 1
    <3>1. layers' \in Programs
      BY <1>1, <1>2 DEF TypeOK
    <3>2. 1 \in 1 .. (IF li' <= Len(layers') THEN Len(layers'[li']) ELSE 0) + 1
      BY <2>1, <3>1, FreshLayerType
    <3> QED
      BY <1>2, <3>2 DEF Iface
  <2>3. cur' \in PacketOf(IF li' <= Len(layers') THEN Iface' ELSE <<>>, ri' - 1)
    BY <1>2, EmptyPacketType
  <2>4. IsNameMap(carry') /\ IsNameMap(overrides')
    BY <1>1, NameMapEmpty DEF TypeOK, BuildLayer, NextOverrides
  <2>5. bytes' \in Buffer
    BY <1>10, <1>12, <1>13
  <2>6. DOMAIN built' = 1 .. (IF phase' = "build" THEN li' - 1 ELSE Len(layers'))
    BY <1>1, <1>2, <1>3, <1>5
  <2>7. \A l \in DOMAIN built' : built'[l] \in PacketOf(layers'[l], Len(layers'[l]))
    BY <1>1, <1>2, <1>3, <1>5, <1>8 DEF TypeOK
  <2> QED
    BY <1>1, <1>2, <2>1, <2>2, <2>3, <2>4, <2>5, <2>6, <2>7 DEF TypeOK
<1>15. CurInv'
  BY <1>2, LayerEmpty DEF CurInv, Start
<1>16. BuiltInv'
  <2>1. \A l \in DOMAIN built : /\ LayerInv(layers[l], Len(layers[l]), at[l], built[l])
                                /\ base[l] \in Nat
    BY DEF IInv, BuiltInv
  <2>2. bytes.size \in Nat
    BY <1>10 DEF Buffer
  <2>3. \A l \in DOMAIN built' : /\ LayerInv(layers[l], Len(layers[l]), at'[l], built'[l])
                                 /\ base'[l] \in Nat
    BY <1>5, <1>6, <1>7, <1>8, <1>9, <2>1, <2>2
  <2> QED
    BY <1>2, <1>6, <1>7, <2>3 DEF BuiltInv
<1>17. FrameInv'
  <2>1. \A p \in bytes'.ones : p < 8 * bytes'.size
    BY <1>11, <1>12, <1>13
  <2>2. ASSUME mode' = "chain" PROVE \A l \in DOMAIN built' : base'[l] = 0
    BY <2>2, <1>2, <1>6, <1>7, <1>8 DEF IInv, FrameInv
  <2>3. ASSUME mode' = "stack"
        PROVE  /\ DOMAIN built' = {} => bytes'.size = 0
               /\ 1 \in DOMAIN built' => base'[1] = 0
               /\ \A l \in DOMAIN built' :
                    /\ base'[l] + built'[l].bytes.size = EndOf(l)'
                    /\ base'[l] + built'[l].bytes.size <= bytes'.size
                    /\ \A p \in 0 .. 8 * built'[l].bytes.size - 1 :
                         8 * base'[l] + p \in bytes'.ones <=> p \in built'[l].bytes.ones
    <3>1. mode = "stack" /\ bytes' = Concat(bytes, cur.bytes) /\ base'[li] = bytes.size
      BY <2>3, <1>2, <1>6, <1>7, <1>13
    <3>2. /\ DOMAIN built = {} => bytes.size = 0
          /\ 1 \in DOMAIN built => base[1] = 0
          /\ \A l \in DOMAIN built :
               /\ base[l] + built[l].bytes.size = EndOf(l)
               /\ base[l] + built[l].bytes.size <= bytes.size
               /\ \A p \in 0 .. 8 * built[l].bytes.size - 1 :
                    8 * base[l] + p \in bytes.ones <=> p \in built[l].bytes.ones
      BY <3>1 DEF IInv, FrameInv
    <3>3. li \in DOMAIN built' /\ DOMAIN built' # {}
      BY <1>3, <1>5
    <3>4. 1 \in DOMAIN built' => base'[1] = 0
      <4>1. CASE li = 1
        BY <4>1, <3>1, <3>2, <1>4
      <4>2. CASE li # 1
        <5>1. 1 \in DOMAIN built
          BY <4>2, <1>3, <1>4
        <5> QED
          BY <5>1, <3>2, <1>6, <1>7
      <4> QED
        BY <4>1, <4>2
    <3>5. bytes.size \in Nat /\ cur.bytes.size \in Nat
      BY <1>10 DEF Buffer
    <3>6. ASSUME NEW l \in DOMAIN built', l = li
          PROVE  /\ base'[l] + built'[l].bytes.size = EndOf(l)'
                 /\ base'[l] + built'[l].bytes.size <= bytes'.size
                 /\ \A p \in 0 .. 8 * built'[l].bytes.size - 1 :
                      8 * base'[l] + p \in bytes'.ones <=> p \in built'[l].bytes.ones
      <4>1. l + 1 \notin DOMAIN built'
        BY <3>6, <1>3, <1>5
      <4>2. bytes'.size = bytes.size + cur.bytes.size
        BY <3>1, <1>12
      <4>3. \A p \in 0 .. 8 * cur.bytes.size - 1 : p \in Nat
        BY <3>5
      <4>4. base'[l] = bytes.size /\ built'[l].bytes = cur.bytes
        BY <3>1, <3>6, <1>5
      <4>5. EndOf(l)' = bytes'.size
        BY <4>1 DEF EndOf
      <4>6. \A p \in 0 .. 8 * cur.bytes.size - 1 :
              8 * bytes.size + p \in bytes'.ones <=> p \in cur.bytes.ones
        BY <4>3, <3>1, <1>12
      <4>7. bytes.size + cur.bytes.size <= bytes'.size
        BY <4>2, <3>5
      <4> QED
        BY <4>2, <4>4, <4>5, <4>6, <4>7
    <3>7. ASSUME NEW l \in DOMAIN built', l \in DOMAIN built
          PROVE  /\ base'[l] + built'[l].bytes.size = EndOf(l)'
                 /\ base'[l] + built'[l].bytes.size <= bytes'.size
                 /\ \A p \in 0 .. 8 * built'[l].bytes.size - 1 :
                      8 * base'[l] + p \in bytes'.ones <=> p \in built'[l].bytes.ones
      <4>1. base'[l] = base[l] /\ built'[l] = built[l]
        BY <3>7, <1>5, <1>6, <1>7
      <4>2. base[l] \in Nat /\ built[l].bytes.size \in Nat
        BY <3>7, <1>1 DEF IInv, BuiltInv, TypeOK, PacketOf, Buffer
      <4>3. EndOf(l)' = EndOf(l)
        <5>1. CASE l + 1 \in DOMAIN built
          <6>1. l + 1 \in DOMAIN built'
            BY <5>1, <1>3, <1>4, <1>5
          <6> QED
            BY <5>1, <6>1, <1>6, <1>7 DEF EndOf
        <5>2. CASE l + 1 \notin DOMAIN built
          <6>1. l + 1 = li
            BY <5>2, <3>7, <1>3, <1>4
          <6> QED
            BY <5>2, <6>1, <3>1, <3>3 DEF EndOf
        <5> QED
          BY <5>1, <5>2
      <4>4. bytes'.size = bytes.size + cur.bytes.size
        BY <3>1, <1>12
      <4>5. ASSUME NEW p \in 0 .. 8 * built[l].bytes.size - 1
            PROVE  8 * base[l] + p \in bytes'.ones <=> p \in built[l].bytes.ones
        <5>1. base[l] + built[l].bytes.size <= bytes.size
          BY <3>2, <3>7
        <5>2. 8 * base[l] + p \in Nat /\ 8 * base[l] + p < 8 * bytes.size
          BY <5>1, <4>2, <3>5
        <5>3. 8 * base[l] + p \in bytes'.ones <=> 8 * base[l] + p \in bytes.ones
          BY <5>2, <3>1, <1>12
        <5> QED
          BY <5>3, <3>2, <3>7
      <4>6. base[l] + built[l].bytes.size <= bytes'.size
        BY <4>2, <4>4, <3>2, <3>5, <3>7
      <4>7. base[l] + built[l].bytes.size = EndOf(l)
        BY <3>2, <3>7
      <4> QED
        BY <4>1, <4>3, <4>5, <4>6, <4>7
    <3> QED
      BY <3>3, <3>4, <3>6, <3>7, <1>8
  <2> QED
    BY <2>1, <2>2, <2>3 DEF FrameInv
<1>18. WireInv' /\ SyncInv' /\ RestInv'
  BY <1>1, <1>2 DEF IInv, WireInv, SyncInv, RestInv
<1>19. RoundTrip' /\ LayerSlicesExact'
  <2>1. DOMAIN decoded' = {}
    BY <1>1, <1>2 DEF TypeOK
  <2> QED
    BY <2>1 DEF RoundTrip, LayerSlicesExact
<1> QED
  BY <1>14, <1>15, <1>16, <1>17, <1>18, <1>19 DEF IInv

LEMMA TruncateFacts ==
  ASSUME NEW b \in Buffer, NEW n \in Nat, \A p \in b.ones : p < 8 * b.size
  PROVE  /\ Truncate(b, n) \in Buffer
         /\ \A p \in Truncate(b, n).ones : p < 8 * Truncate(b, n).size
         /\ \A p \in Nat : p < 8 * Truncate(b, n).size =>
              (p \in Truncate(b, n).ones <=> p \in b.ones)
<1>1. b.size \in Nat /\ b.ones \subseteq Nat
  BY DEF Buffer
<1>2. /\ Truncate(b, n).size = IF n < b.size THEN n ELSE b.size
      /\ Truncate(b, n).ones = {p \in b.ones : p < 8 * n}
  BY DEF Truncate
<1>3. Truncate(b, n) \in Buffer
  BY <1>1 DEF Truncate, Buffer
<1>4. CASE n < b.size
  BY <1>1, <1>2, <1>3, <1>4
<1>5. CASE ~(n < b.size)
  BY <1>1, <1>2, <1>3, <1>5
<1> QED
  BY <1>4, <1>5

LEMMA DeliverIInv == IInv /\ Deliver => IInv'
<1> SUFFICES ASSUME IInv, Deliver PROVE IInv'
  OBVIOUS
<1>1. TypeOK /\ phase = "build" /\ li > Len(layers) /\ Len(layers) \in Nat
  BY LayersFacts DEF IInv, Deliver, TypeOK
<1>2. /\ UNCHANGED <<mode, layers, ri, bitOffset, cur, carry, overrides, built, bytes,
                     curAt, at, base, offset, totalBits, decoded>>
      /\ phase' = "decode" /\ li' = 1
  BY DEF Deliver, buildVars
<1>3. li = Len(layers) + 1 /\ ri = 1 /\ ri - 1 = 0
  BY <1>1 DEF TypeOK
<1>4. DOMAIN built = 1 .. Len(layers) /\ DOMAIN decoded = {}
  BY <1>1, <1>3 DEF TypeOK
<1> DEFINE sent(l) == IF mode = "stack" THEN bytes ELSE built[l].bytes
<1>5. PICK n \in Cuts : received' = [l \in 1 .. Len(layers) |-> Truncate(sent(l), n)]
  BY DEF Deliver
<1>6. n \in Nat
  BY CutsAssumption
<1>7. ASSUME NEW l \in 1 .. Len(layers)
      PROVE  /\ sent(l) \in Buffer
             /\ \A p \in sent(l).ones : p < 8 * sent(l).size
             /\ \A p \in 0 .. 8 * built[l].bytes.size - 1 :
                  8 * base[l] + p \in sent(l).ones <=> p \in built[l].bytes.ones
             /\ built[l].bytes.size \in Nat /\ base[l] \in Nat
  <2>1. built[l] \in PacketOf(layers[l], Len(layers[l])) /\ built[l].bytes \in Buffer
    BY <1>1, <1>4 DEF TypeOK, PacketOf
  <2>2. built[l].bytes.size \in Nat /\ base[l] \in Nat
    BY <2>1, <1>4 DEF Buffer, IInv, BuiltInv
  <2>3. CASE mode = "stack"
    BY <2>1, <2>2, <2>3, <1>1, <1>4 DEF IInv, FrameInv, TypeOK
  <2>4. CASE mode # "stack"
    <3>1. base[l] = 0
      BY <2>4, <1>1, <1>4 DEF IInv, FrameInv, TypeOK
    <3>2. layers[l] \in Seq(Refs) /\ Len(layers[l]) \in Nat
      BY <1>1, LayersFacts DEF TypeOK
    <3>3. LayerInv(layers[l], Len(layers[l]), at[l], built[l])
      BY <1>4 DEF IInv, BuiltInv
    <3>4. \A p \in built[l].bytes.ones : p \in 0 .. 8 * built[l].bytes.size - 1
      BY <2>1, <3>2, <3>3, LayerWithin
    <3> QED
      BY <2>1, <2>2, <2>4, <3>1, <3>4
  <2> QED
    BY <2>3, <2>4
<1> HIDE DEF sent
<1>8. ASSUME NEW l \in 1 .. Len(layers)
      PROVE  /\ received'[l] \in Buffer
             /\ \A p \in received'[l].ones : p < 8 * received'[l].size
             /\ \A p \in Nat : p < 8 * received'[l].size =>
                  (p \in received'[l].ones <=> p \in sent(l).ones)
  BY <1>5, <1>6, <1>7, TruncateFacts
<1>9. TypeOK'
  <2>1. li' \in 1 .. Len(layers') + 1
    BY <1>1, <1>2
  <2>2. ri' \in 1 .. (IF li' <= Len(layers') THEN Len(Iface') ELSE 0) + 1
    <3>1. layers' \in Programs
      BY <1>1, <1>2 DEF TypeOK
    <3>2. 1 \in 1 .. (IF li' <= Len(layers') THEN Len(layers'[li']) ELSE 0) + 1
      BY <2>1, <3>1, FreshLayerType
    <3> QED
      BY <1>2, <1>3, <3>2 DEF Iface
  <2>3. cur' \in PacketOf(IF li' <= Len(layers') THEN Iface' ELSE <<>>, ri' - 1)
    <3>1. cur \in PacketOf(<<>>, 0)
      BY <1>1, <1>3 DEF TypeOK
    <3>2. \A f : LivePos(f, 0) = {}
      BY LivePosFacts
    <3> QED
      BY <1>2, <1>3, <3>1, <3>2 DEF PacketOf
  <2>4. received' \in [1 .. (IF phase' = "build" THEN 0 ELSE Len(layers')) -> Buffer]
    BY <1>2, <1>5, <1>8
  <2>5. DOMAIN decoded' = 1 .. (IF phase' = "build" THEN 0 ELSE li' - 1)
    BY <1>2, <1>4
  <2>6. DOMAIN built' = 1 .. (IF phase' = "build" THEN li' - 1 ELSE Len(layers'))
    BY <1>2, <1>4
  <2> QED
    BY <1>1, <1>2, <1>4, <2>1, <2>2, <2>3, <2>4, <2>5, <2>6 DEF TypeOK
<1>10. CurInv' /\ RestInv'
  BY <1>2 DEF CurInv, RestInv
<1>11. BuiltInv' /\ FrameInv'
  BY <1>2 DEF IInv, BuiltInv, FrameInv, EndOf, LayerInv
<1>12. WireInv'
  <2>1. ASSUME NEW l \in 1 .. Len(layers), NEW p \in 0 .. 8 * built[l].bytes.size - 1,
               8 * base[l] + p < 8 * received'[l].size
        PROVE  8 * base[l] + p \in received'[l].ones <=> p \in built[l].bytes.ones
    <3>1. 8 * base[l] + p \in Nat
      BY <1>7
    <3> QED
      BY <2>1, <3>1, <1>7, <1>8
  <2> QED
    BY <1>2, <1>8, <2>1 DEF WireInv
<1>13. SyncInv'
  <2> SUFFICES ASSUME 1 <= Len(layers)
               PROVE  /\ offset = base[1] /\ totalBits = at[1][1]
                      /\ bitOffset = 8 * base[1] + at[1][1]
                      /\ LivePos(layers[1], 0) = {}
    BY <1>2, <1>3 DEF SyncInv, Iface
  <2>1. 1 \in DOMAIN built /\ 1 \in 1 .. Len(layers)
    BY <1>1, <1>4
  <2>2. base[1] = 0
    BY <2>1, <1>1 DEF IInv, FrameInv, TypeOK
  <2>3. at[1][1] = 0
    BY <2>1 DEF IInv, BuiltInv, LayerInv
  <2>4. offset = 0 /\ totalBits = 0 /\ bitOffset = 0
    BY <1>1 DEF IInv, RestInv
  <2>5. LivePos(layers[1], 0) = {}
    BY LivePosFacts
  <2> QED
    BY <2>2, <2>3, <2>4, <2>5
<1>14. RoundTrip' /\ LayerSlicesExact'
  BY <1>2, <1>4 DEF RoundTrip, LayerSlicesExact
<1> QED
  BY <1>9, <1>10, <1>11, <1>12, <1>13, <1>14 DEF IInv
-----------------------------------------------------------------------------
(* The decoder's steps *)

\* The decoder is where the builder was, so it reads the builder's bits.
LEMMA ExtractArrived ==
  ASSUME IInv, phase = "decode", AtRef, Live(Ref)
  PROVE  ExtractBits(received[li], bitOffset, Size(Ref)) = Arrived(li, ri)
<1> DEFINE s == Size(Ref)
           R == received[li]
           o == at[li][ri]
           last == at[li][Len(Iface) + 1]
<1>1. TypeOK
  BY DEF IInv
<1>2. /\ li \in 1 .. Len(layers) /\ Len(Iface) \in Nat /\ ri \in 1 .. Len(Iface)
      /\ s \in Nat /\ Ref = layers[li][ri] /\ Iface = layers[li]
  BY <1>1, AtRefFacts DEF Ref, Iface
<1>3. li \in DOMAIN built /\ ri \in LivePos(layers[li], Len(layers[li]))
  BY <1>1, <1>2 DEF TypeOK, LivePos
<1>4. LayerInv(layers[li], Len(layers[li]), at[li], built[li]) /\ base[li] \in Nat
  BY <1>3 DEF IInv, BuiltInv
<1>5. /\ o \in Nat /\ last \in Nat /\ o + s <= last
      /\ built[li].bytes.size = CeilBytes(last)
  <2>1. ri + 1 \in 1 .. Len(Iface) + 1 /\ ri \in 1 .. Len(Iface) + 1
    BY <1>2
  <2>2. at[li][ri + 1] = o + s /\ at[li][ri + 1] <= last
    BY <1>2, <1>4, <2>1 DEF LayerInv
  <2> QED
    BY <1>2, <1>4, <2>1, <2>2 DEF LayerInv
<1>6. last <= 8 * built[li].bytes.size /\ built[li].bytes.size \in Nat
  BY <1>5 DEF CeilBytes
<1>7. built[li].fields[ri] \in Word
  BY <1>1, <1>3 DEF TypeOK, PacketOf
<1>8. R.size \in Nat
  BY <1>1, <1>2 DEF TypeOK, Buffer
<1>9. bitOffset = 8 * base[li] + o
  BY <1>2 DEF IInv, SyncInv
<1>10. ASSUME NEW i \in 0 .. WordBits - 1, i < s
       PROVE  /\ bitOffset + (s - 1 - i) = WirePos(li, ri, i)
              /\ WirePos(li, ri, i) = 8 * base[li] + (o + (s - 1 - i))
              /\ o + (s - 1 - i) \in 0 .. 8 * built[li].bytes.size - 1
              /\ o + (s - 1 - i) \in built[li].bytes.ones <=> i \in built[li].fields[ri]
  <2>1. i \in Nat
    BY WordBitsAssumption
  <2>2. WirePos(li, ri, i) = 8 * base[li] + o + (s - 1 - i)
    BY <1>2 DEF WirePos
  <2>3. o + (s - 1 - i) \in built[li].bytes.ones <=> i \in built[li].fields[ri]
    BY <1>2, <1>3, <1>4, <1>10 DEF LayerInv
  <2> HIDE DEF s, o, last
  <2>4. bitOffset + (s - 1 - i) = WirePos(li, ri, i)
    BY <1>2, <1>4, <1>5, <1>9, <2>1, <2>2
  <2>5. WirePos(li, ri, i) = 8 * base[li] + (o + (s - 1 - i))
    BY <1>2, <1>4, <1>5, <2>1, <2>2
  <2>6. o + (s - 1 - i) \in 0 .. 8 * built[li].bytes.size - 1
    BY <1>2, <1>5, <1>6, <1>10, <2>1
  <2> QED
    BY <2>3, <2>4, <2>5, <2>6
<1>11. \A q \in 0 .. 8 * built[li].bytes.size - 1 :
         8 * base[li] + q < 8 * R.size =>
           (8 * base[li] + q \in R.ones <=> q \in built[li].bytes.ones)
  BY <1>2 DEF IInv, WireInv
<1>12. ASSUME NEW i \in 0 .. WordBits - 1, i < s
       PROVE  (/\ (bitOffset + (s - 1 - i)) \div 8 < R.size
               /\ bitOffset + (s - 1 - i) \in R.ones)
              <=> (i \in built[li].fields[ri] /\ WirePos(li, ri, i) < 8 * R.size)
  <2> DEFINE w == WirePos(li, ri, i)
  <2>1. /\ bitOffset + (s - 1 - i) = w
        /\ w = 8 * base[li] + (o + (s - 1 - i))
        /\ o + (s - 1 - i) \in 0 .. 8 * built[li].bytes.size - 1
        /\ o + (s - 1 - i) \in built[li].bytes.ones <=> i \in built[li].fields[ri]
    BY <1>10, <1>12
  <2> HIDE DEF w, s, o, R, last
  <2>2. w \in Nat
    BY <2>1, <1>4
  <2>3. w \div 8 < R.size <=> w < 8 * R.size
    BY <2>2, <1>8
  <2>4. w < 8 * R.size => (w \in R.ones <=> i \in built[li].fields[ri])
    BY <2>1, <1>11
  <2>5. (w \div 8 < R.size /\ w \in R.ones) <=> (i \in built[li].fields[ri] /\ w < 8 * R.size)
    BY <2>3, <2>4
  <2> QED
    BY <2>1, <2>5 DEF w
<1>13. ExtractBits(R, bitOffset, s) =
         {i \in 0 .. WordBits - 1 :
            i < s /\ i \in built[li].fields[ri] /\ WirePos(li, ri, i) < 8 * R.size}
  <2> HIDE DEF s, R
  <2> QED
    BY <1>12 DEF ExtractBits
<1>14. Arrived(li, ri) =
         {i \in 0 .. WordBits - 1 :
            i < s /\ i \in built[li].fields[ri] /\ WirePos(li, ri, i) < 8 * R.size}
  BY <1>2, <1>7 DEF Arrived, Low, Word
<1> QED
  BY <1>13, <1>14

LEMMA ArrivedType ==
  ASSUME TypeOK, NEW l \in DOMAIN built, NEW j \in LivePos(layers[l], Len(layers[l]))
  PROVE  Arrived(l, j) \in Word
BY DEF TypeOK, PacketOf, Arrived, Low, Word

LEMMA DecodeFieldIInv == IInv /\ DecodeField => IInv'
<1> SUFFICES ASSUME IInv, DecodeField PROVE IInv'
  OBVIOUS
<1>1. TypeOK /\ AtRef /\ phase = "decode" /\ Live(Ref)
  BY DEF IInv, DecodeField
<1>2. /\ UNCHANGED <<mode, layers, phase, li, carry, overrides, built, bytes, curAt, at, base,
                     received, offset, decoded>>
      /\ ri' = ri + 1 /\ bitOffset' = bitOffset + Size(Ref)
      /\ totalBits' = totalBits + Size(Ref)
      /\ cur' = [cur EXCEPT !.fields =
                   Extend(@, ri, ExtractBits(received[li], bitOffset, Size(Ref)))]
  BY DEF DecodeField, buildVars
<1>3. /\ li \in 1 .. Len(layers) /\ Iface \in Seq(Refs) /\ Len(Iface) \in Nat
      /\ ri \in 1 .. Len(Iface) /\ ri - 1 \in Nat /\ (ri - 1) + 1 = ri
      /\ Ref \in Refs /\ Size(Ref) \in Nat
      /\ cur \in PacketOf(Iface, ri - 1)
  BY <1>1, AtRefFacts
<1>4. Len(layers) \in Nat /\ Iface' = Iface
  BY <1>1, <1>2, LayersFacts DEF TypeOK, Iface
<1>5. ri' - 1 = ri /\ li' <= Len(layers')
  BY <1>2, <1>3
<1>6. li \in DOMAIN built /\ ri \in LivePos(layers[li], Len(layers[li]))
  BY <1>1, <1>3 DEF TypeOK, LivePos, Iface, Ref
<1>7. Arrived(li, ri) \in Word
  BY <1>1, <1>6, ArrivedType
<1>8. cur' = [bytes |-> cur.bytes, fields |-> Extend(cur.fields, ri, Arrived(li, ri))]
  <2>1. ExtractBits(received[li], bitOffset, Size(Ref)) = Arrived(li, ri)
    BY <1>1, ExtractArrived
  <2> QED
    BY <1>2, <1>3, <2>1 DEF PacketOf
<1>9. LivePos(Iface, ri) = LivePos(Iface, ri - 1) \cup {ri} /\ ri \notin LivePos(Iface, ri - 1)
  BY <1>1, <1>3, LivePosFacts DEF Ref
<1>10. TypeOK'
  <2>1. Extend(cur.fields, ri, Arrived(li, ri)) \in [LivePos(Iface, ri - 1) \cup {ri} -> Word]
    BY <1>3, <1>7, ExtendType DEF PacketOf
  <2>2. cur' \in PacketOf(Iface, ri)
    BY <1>3, <1>8, <1>9, <2>1 DEF PacketOf
  <2>3. cur' \in PacketOf(IF li' <= Len(layers') THEN Iface' ELSE <<>>, ri' - 1)
    BY <1>4, <1>5, <2>2
  <2>4. ri' \in 1 .. (IF li' <= Len(layers') THEN Len(Iface') ELSE 0) + 1
    BY <1>2, <1>3, <1>4
  <2>5. bitOffset' \in Nat /\ totalBits' \in Nat
    BY <1>1, <1>2, <1>3 DEF TypeOK
  <2> QED
    BY <1>1, <1>2, <2>3, <2>4, <2>5 DEF TypeOK
<1>11. CurInv' /\ RestInv' /\ BuiltInv' /\ FrameInv'
  BY <1>1, <1>2 DEF IInv, CurInv, RestInv, BuiltInv, FrameInv, EndOf, LayerInv
<1>12. WireInv'
  BY <1>1, <1>2 DEF IInv, WireInv
<1>13. SyncInv'
  <2>1. /\ offset = base[li] /\ totalBits = at[li][ri]
        /\ bitOffset = 8 * base[li] + at[li][ri]
        /\ \A j \in LivePos(Iface, ri - 1) : cur.fields[j] = Arrived(li, j)
    BY <1>1, <1>3 DEF IInv, SyncInv
  <2>2. at[li][ri + 1] = at[li][ri] + Size(Ref) /\ at[li][ri] \in Nat /\ base[li] \in Nat
    <3>1. LayerInv(layers[li], Len(layers[li]), at[li], built[li]) /\ base[li] \in Nat
      BY <1>6 DEF IInv, BuiltInv
    <3>2. ri \in 1 .. Len(layers[li]) /\ Iface = layers[li] /\ Ref = layers[li][ri]
      BY <1>3 DEF Iface, Ref
    <3>3. /\ ri \in 1 .. Len(layers[li]) + 1 /\ at[li][ri] \in Nat
          /\ at[li][ri + 1] = at[li][ri] + Size(layers[li][ri])
      BY <3>1, <3>2, SMTT(30) DEF LayerInv
    <3> QED
      BY <3>1, <3>2, <3>3
  <2>3. \A j : Arrived(li, j)' = Arrived(li, j)
    BY <1>2 DEF Arrived, WirePos
  <2>4. \A j \in LivePos(Iface, ri) : cur'.fields[j] = Arrived(li, j)
    <3>1. DOMAIN cur.fields = LivePos(Iface, ri - 1)
      BY <1>3 DEF PacketOf
    <3> QED
      BY <2>1, <1>8, <1>9, <3>1 DEF Extend
  <2>5. bitOffset' = 8 * base[li] + at[li][ri + 1] /\ totalBits' = at[li][ri + 1]
    BY <2>1, <2>2, <1>2, <1>3
  <2> QED
    BY <1>2, <1>4, <1>5, <2>1, <2>3, <2>4, <2>5 DEF SyncInv
<1>14. RoundTrip' /\ LayerSlicesExact'
  BY <1>2 DEF IInv, RoundTrip, LayerSlicesExact, WirePos
<1> QED
  BY <1>10, <1>11, <1>12, <1>13, <1>14 DEF IInv

LEMMA DecodeSkipIInv == IInv /\ DecodeSkip => IInv'
<1> SUFFICES ASSUME IInv, DecodeSkip PROVE IInv'
  OBVIOUS
<1>1. TypeOK /\ AtRef /\ phase = "decode" /\ ~Live(Ref)
  BY DEF IInv, DecodeSkip
<1>2. /\ UNCHANGED <<mode, layers, phase, li, bitOffset, cur, carry, overrides, built, bytes,
                     curAt, at, base, received, offset, totalBits, decoded>>
      /\ ri' = ri + 1
  BY DEF DecodeSkip, buildVars, decodeVars
<1>3. /\ li \in 1 .. Len(layers) /\ Len(Iface) \in Nat /\ ri \in 1 .. Len(Iface)
      /\ ri - 1 \in Nat /\ (ri - 1) + 1 = ri /\ cur \in PacketOf(Iface, ri - 1)
  BY <1>1, AtRefFacts
<1>4. Len(layers) \in Nat /\ Iface' = Iface
  BY <1>1, <1>2, LayersFacts DEF TypeOK, Iface
<1>5. ri' - 1 = ri /\ li' <= Len(layers')
  BY <1>2, <1>3
<1>6. LivePos(Iface, ri) = LivePos(Iface, ri - 1)
  BY <1>1, <1>3, LivePosFacts DEF Ref
<1>7. TypeOK'
  <2>1. cur' \in PacketOf(IF li' <= Len(layers') THEN Iface' ELSE <<>>, ri' - 1)
    BY <1>2, <1>3, <1>4, <1>5, <1>6 DEF PacketOf
  <2>2. ri' \in 1 .. (IF li' <= Len(layers') THEN Len(Iface') ELSE 0) + 1
    BY <1>2, <1>3, <1>4
  <2> QED
    BY <1>1, <1>2, <2>1, <2>2 DEF TypeOK
<1>8. CurInv' /\ RestInv' /\ BuiltInv' /\ FrameInv'
  BY <1>1, <1>2 DEF IInv, CurInv, RestInv, BuiltInv, FrameInv, EndOf, LayerInv
<1>9. WireInv'
  BY <1>1, <1>2 DEF IInv, WireInv
<1>10. SyncInv'
  <2>1. /\ offset = base[li] /\ totalBits = at[li][ri]
        /\ bitOffset = 8 * base[li] + at[li][ri]
        /\ \A j \in LivePos(Iface, ri - 1) : cur.fields[j] = Arrived(li, j)
    BY <1>1, <1>3 DEF IInv, SyncInv
  <2>2. at[li][ri + 1] = at[li][ri]
    <3>1. li \in DOMAIN built
      BY <1>1, <1>3 DEF TypeOK
    <3>2. LayerInv(layers[li], Len(layers[li]), at[li], built[li])
      BY <3>1 DEF IInv, BuiltInv
    <3>3. Size(Ref) = 0
      BY <1>1 DEF Live
    <3>4. at[li][ri + 1] = at[li][ri] + 0 /\ at[li][ri] \in Nat
      BY <3>2, <3>3, <1>3 DEF LayerInv, Iface, Ref
    <3> QED
      BY <3>4
  <2>3. \A j : Arrived(li, j)' = Arrived(li, j)
    BY <1>2 DEF Arrived, WirePos
  <2> QED
    BY <1>2, <1>4, <1>5, <1>6, <2>1, <2>2, <2>3 DEF SyncInv
<1>11. RoundTrip' /\ LayerSlicesExact'
  BY <1>2 DEF IInv, RoundTrip, LayerSlicesExact, WirePos
<1> QED
  BY <1>7, <1>8, <1>9, <1>10, <1>11 DEF IInv

LEMMA SliceType ==
  ASSUME NEW b, NEW from \in Nat, NEW to \in Nat, from <= to
  PROVE  Slice(b, from, to) \in Buffer
BY DEF Slice, Buffer

LEMMA DecodeLayerIInv == IInv /\ DecodeLayer => IInv'
<1> SUFFICES ASSUME IInv, DecodeLayer PROVE IInv'
  OBVIOUS
<1>1. TypeOK /\ AtEnd /\ phase = "decode"
  BY DEF IInv, DecodeLayer
<1>2. /\ UNCHANGED <<mode, layers, phase, carry, overrides, built, bytes, curAt, at, base,
                     received>>
      /\ li' = li + 1 /\ ri' = 1 /\ totalBits' = 0 /\ cur' = EmptyPacket
      /\ offset' = NextOffset /\ bitOffset' = 8 * NextOffset
      /\ decoded' = Extend(decoded, li, [cur EXCEPT !.bytes = LayerSlice])
  BY DEF DecodeLayer, buildVars
<1>3. /\ li \in 1 .. Len(layers) /\ Len(layers) \in Nat
      /\ layers[li] \in Seq(Refs) /\ Len(layers[li]) \in Nat
      /\ ri = Len(layers[li]) + 1 /\ ri - 1 = Len(layers[li])
      /\ cur \in PacketOf(layers[li], Len(layers[li]))
  BY <1>1, AtEndFacts
<1>4. DOMAIN built = 1 .. Len(layers) /\ DOMAIN decoded = 1 .. li - 1
  BY <1>1 DEF TypeOK
<1>5. /\ DOMAIN decoded' = 1 .. li
      /\ decoded'[li] = [cur EXCEPT !.bytes = LayerSlice]
      /\ \A l \in DOMAIN decoded : decoded'[l] = decoded[l]
      /\ \A l \in DOMAIN decoded' : l = li \/ l \in DOMAIN decoded
  <2>1. DOMAIN decoded' = DOMAIN decoded \cup {li} /\ li \notin DOMAIN decoded
    BY <1>2, <1>3, <1>4 DEF Extend
  <2> QED
    BY <1>2, <1>3, <1>4, <2>1 DEF Extend
<1>6. /\ offset = base[li] /\ totalBits = at[li][ri]
      /\ bitOffset = 8 * base[li] + at[li][ri]
      /\ \A j \in LivePos(layers[li], Len(layers[li])) : cur.fields[j] = Arrived(li, j)
  BY <1>1, <1>3 DEF IInv, SyncInv, Iface
<1>7. LayerInv(layers[li], Len(layers[li]), at[li], built[li]) /\ base[li] \in Nat
  BY <1>3, <1>4 DEF IInv, BuiltInv
<1>8. LayerBytes = built[li].bytes.size /\ LayerBytes \in Nat
  <2>1. totalBits \in Nat
    BY <1>1 DEF TypeOK
  <2>2. built[li].bytes.size = CeilBytes(at[li][Len(layers[li]) + 1])
    BY <1>7 DEF LayerInv
  <2>3. LayerBytes = built[li].bytes.size
    BY <1>3, <1>6, <2>2 DEF LayerBytes
  <2>4. CeilBytes(totalBits) \in Nat
    BY <2>1 DEF CeilBytes
  <2> QED
    BY <2>3, <2>4 DEF LayerBytes
<1>9. received[li].size \in Nat /\ received[li] \in Buffer
  BY <1>1, <1>3 DEF TypeOK, Buffer
<1>10. NextOffset \in Nat
  BY <1>1, <1>8 DEF NextOffset, TypeOK
<1>11. LayerSlice \in Buffer
  <2> DEFINE end == IF offset + LayerBytes < received[li].size
                      THEN offset + LayerBytes ELSE received[li].size
  <2>1. end \in Nat /\ offset \in Nat
    BY <1>1, <1>8, <1>9 DEF TypeOK
  <2>2. LayerSlice = IF offset < end THEN Slice(received[li], offset, end) ELSE EmptyBuffer
    BY DEF LayerSlice
  <2>3. EmptyBuffer \in Buffer
    BY DEF EmptyBuffer, Buffer
  <2> HIDE DEF end
  <2> QED
    BY <2>1, <2>2, <2>3, SliceType
<1>12. TypeOK'
  <2>1. li' \in 1 .. Len(layers') + 1
    BY <1>2, <1>3
  <2>2. ri' \in 1 .. (IF li' <= Len(layers') THEN Len(Iface') ELSE 0) + 1
    <3>1. layers' \in Programs
      BY <1>1, <1>2 DEF TypeOK
    <3>2. 1 \in 1 .. (IF li' <= Len(layers') THEN Len(layers'[li']) ELSE 0) + 1
      BY <2>1, <3>1, FreshLayerType
    <3> QED
      BY <1>2, <3>2 DEF Iface
  <2>3. cur' \in PacketOf(IF li' <= Len(layers') THEN Iface' ELSE <<>>, ri' - 1)
    BY <1>2, EmptyPacketType
  <2>4. offset' \in Nat /\ bitOffset' \in Nat /\ totalBits' \in Nat
    BY <1>2, <1>10
  <2>5. DOMAIN decoded' = 1 .. (IF phase' = "build" THEN 0 ELSE li' - 1)
    BY <1>1, <1>2, <1>3, <1>5
  <2>6. decoded'[li] \in PacketOf(layers[li], Len(layers[li]))
    BY <1>3, <1>5, <1>11 DEF PacketOf
  <2>7. \A l \in DOMAIN decoded' : decoded'[l] \in PacketOf(layers'[l], Len(layers'[l]))
    BY <1>1, <1>2, <1>5, <2>6 DEF TypeOK
  <2>8. DOMAIN built' = 1 .. (IF phase' = "build" THEN li' - 1 ELSE Len(layers'))
    BY <1>1, <1>2, <1>4
  <2> QED
    BY <1>1, <1>2, <2>1, <2>2, <2>3, <2>4, <2>5, <2>7, <2>8 DEF TypeOK
<1>13. CurInv' /\ RestInv' /\ BuiltInv' /\ FrameInv'
  BY <1>1, <1>2 DEF IInv, CurInv, RestInv, BuiltInv, FrameInv, EndOf, LayerInv
<1>14. WireInv'
  BY <1>1, <1>2 DEF IInv, WireInv
<1>15. SyncInv'
  <2> SUFFICES ASSUME li + 1 <= Len(layers)
               PROVE  /\ NextOffset = base[li + 1] /\ 0 = at[li + 1][1]
                      /\ 8 * NextOffset = 8 * base[li + 1] + at[li + 1][1]
                      /\ LivePos(layers[li + 1], 0) = {}
    BY <1>2 DEF SyncInv, Iface
  <2>1. li + 1 \in DOMAIN built
    BY <1>3, <1>4
  <2>2. at[li + 1][1] = 0 /\ base[li + 1] \in Nat
    BY <2>1 DEF IInv, BuiltInv, LayerInv
  <2>3. LivePos(layers[li + 1], 0) = {}
    BY LivePosFacts
  <2>4. NextOffset = base[li + 1]
    <3>1. CASE mode = "stack"
      <4>1. base[li] + built[li].bytes.size = EndOf(li)
        BY <3>1, <1>3, <1>4 DEF IInv, FrameInv
      <4>2. EndOf(li) = base[li + 1]
        BY <2>1 DEF EndOf
      <4> QED
        BY <3>1, <4>1, <4>2, <1>6, <1>8 DEF NextOffset
    <3>2. CASE mode # "stack"
      BY <3>2, <1>1, <2>1 DEF NextOffset, IInv, FrameInv, TypeOK
    <3> QED
      BY <3>1, <3>2
  <2> QED
    BY <2>2, <2>3, <2>4, <1>10
<1>16. RoundTrip'
  <2>1. \A l \in DOMAIN decoded : \A j \in LivePos(layers[l], Len(layers[l])) :
          decoded[l].fields[j] = Arrived(l, j)
    BY DEF IInv, RoundTrip, Arrived
  <2>2. decoded'[li].fields = cur.fields
    BY <1>3, <1>5 DEF PacketOf
  <2>3. \A l, j : Arrived(l, j)' = Arrived(l, j)
    BY <1>2 DEF Arrived, WirePos
  <2>4. \A l \in DOMAIN decoded' : \A j \in LivePos(layers[l], Len(layers[l])) :
          decoded'[l].fields[j] = Arrived(l, j)'
    BY <2>1, <2>2, <2>3, <1>5, <1>6
  <2> QED
    BY <1>2, <2>4 DEF RoundTrip, Arrived
<1>17. LayerSlicesExact'
  <2>1. ASSUME base[li] + built[li].bytes.size <= received[li].size
        PROVE  LayerSlice = built[li].bytes
    <3> DEFINE n == built[li].bytes.size
               R == received[li]
    <3>1. built[li].bytes \in Buffer
      BY <1>1, <1>3, <1>4 DEF TypeOK, PacketOf
    <3>2. \A p \in built[li].bytes.ones : p \in 0 .. 8 * n - 1
      BY <1>3, <1>7, <3>1, LayerWithin
    <3>3. \A p \in 0 .. 8 * n - 1 :
            8 * base[li] + p < 8 * R.size =>
              (8 * base[li] + p \in R.ones <=> p \in built[li].bytes.ones)
      BY <1>1, <1>3 DEF IInv, WireInv
    <3>4. n \in Nat /\ R.size \in Nat /\ built[li].bytes = [size |-> n, ones |-> built[li].bytes.ones]
      BY <3>1, <1>9 DEF Buffer
    <3> HIDE DEF n, R
    <3>5. \A p \in 0 .. 8 * n - 1 : 8 * base[li] + p < 8 * R.size
      BY <2>1, <3>4, <1>7 DEF n, R
    <3>6. LayerSlice = IF base[li] < base[li] + n
                         THEN Slice(R, base[li], base[li] + n) ELSE EmptyBuffer
      BY <2>1, <1>6, <1>7, <1>8, <3>4 DEF LayerSlice, n, R
    <3>7. CASE n = 0
      <4>1. built[li].bytes.ones = {}
        BY <3>2, <3>7
      <4> QED
        BY <3>4, <3>6, <3>7, <4>1, <1>7 DEF EmptyBuffer
    <3>8. CASE n # 0
      <4>1. LayerSlice = Slice(R, base[li], base[li] + n)
        BY <3>4, <3>6, <3>8, <1>7
      <4>2. (base[li] + n) - base[li] = n
        BY <3>4, <1>7
      <4>3. Slice(R, base[li], base[li] + n) =
              [size |-> n, ones |-> {p \in 0 .. 8 * n - 1 : 8 * base[li] + p \in R.ones}]
        BY <4>2 DEF Slice
      <4>4. {p \in 0 .. 8 * n - 1 : 8 * base[li] + p \in R.ones} = built[li].bytes.ones
        BY <3>2, <3>3, <3>5
      <4> QED
        BY <3>4, <4>1, <4>3, <4>4
    <3> QED
      BY <3>7, <3>8
  <2>2. decoded'[li].bytes = LayerSlice
    BY <1>3, <1>5 DEF PacketOf
  <2> QED
    BY <1>2, <1>5, <2>1, <2>2 DEF IInv, LayerSlicesExact
<1> QED
  BY <1>12, <1>13, <1>14, <1>15, <1>16, <1>17 DEF IInv

LEMMA DecodeEndIInv == IInv /\ DecodeEnd => IInv'
<1> SUFFICES ASSUME IInv, DecodeEnd PROVE IInv'
  OBVIOUS
<1>1. TypeOK /\ phase = "decode" /\ phase' = "done"
  BY DEF IInv, DecodeEnd
<1>2. UNCHANGED <<mode, layers, li, ri, bitOffset, cur, carry, overrides, built, bytes,
                  curAt, at, base, received, offset, totalBits, decoded>>
  BY DEF DecodeEnd, buildVars, decodeVars
<1>3. TypeOK'
  BY <1>1, <1>2 DEF TypeOK, Iface
<1>4. CurInv' /\ RestInv' /\ BuiltInv' /\ FrameInv' /\ WireInv' /\ SyncInv'
  BY <1>1, <1>2 DEF IInv, CurInv, RestInv, BuiltInv, FrameInv, EndOf, LayerInv, WireInv, SyncInv
<1>5. RoundTrip' /\ LayerSlicesExact'
  BY <1>2 DEF IInv, RoundTrip, LayerSlicesExact, WirePos
<1> QED
  BY <1>3, <1>4, <1>5 DEF IInv

LEMMA StutterIInv == IInv /\ UNCHANGED vars => IInv'
<1> SUFFICES ASSUME IInv, UNCHANGED vars PROVE IInv'
  OBVIOUS
<1>1. UNCHANGED <<mode, layers, phase, li, ri, bitOffset, cur, carry, overrides, built, bytes,
                  curAt, at, base, received, offset, totalBits, decoded>>
  BY DEF vars, buildVars, decodeVars
<1>2. TypeOK'
  BY <1>1 DEF IInv, TypeOK, Iface
<1>3. CurInv' /\ RestInv'
  BY <1>1 DEF IInv, CurInv, RestInv, Iface, LayerInv
<1>4. BuiltInv' /\ FrameInv'
  BY <1>1 DEF IInv, BuiltInv, FrameInv, EndOf, LayerInv
<1>5. WireInv'
  BY <1>1 DEF IInv, WireInv
<1>6. SyncInv'
  BY <1>1 DEF IInv, SyncInv, Iface, Arrived, WirePos
<1>7. RoundTrip' /\ LayerSlicesExact'
  BY <1>1 DEF IInv, RoundTrip, LayerSlicesExact, WirePos
<1> QED
  BY <1>2, <1>3, <1>4, <1>5, <1>6, <1>7 DEF IInv
-----------------------------------------------------------------------------
(* Theorems *)

LEMMA NextIInv == IInv /\ [Next]_vars => IInv'
BY BuildFieldIInv, BuildSkipIInv, BuildLayerIInv, DeliverIInv, DecodeFieldIInv,
   DecodeSkipIInv, DecodeLayerIInv, DecodeEndIInv, StutterIInv DEF Next

LEMMA Invariance == Spec => []IInv
BY InitIInv, NextIInv, PTL DEF Spec

\* Every packet, at every point of the builder's and the decoder's loops, has
\* one word-sized field per live reference passed, and the loop counters stay
\* within the interface lists.
THEOREM TypeCorrect == Spec => []TypeOK
<1>1. IInv => TypeOK
  BY DEF IInv
<1> QED
  BY <1>1, Invariance, PTL

\* PacketDecoder::decode returns, for every database, every list of interfaces
\* and every truncation of the frame, the low bits of the values that
\* PacketBuilder recorded, as far as the bits arrived.
THEOREM DecodeInvertsBuild == Spec => []RoundTrip
<1>1. IInv => RoundTrip
  BY DEF IInv
<1> QED
  BY <1>1, Invariance, PTL

\* layerBytes and the builder agree on the length of every layer, so that the
\* decoder of a stack finds each layer where generateStack put it.
THEOREM LayersStayAligned == Spec => []LayerSlicesExact
<1>1. IInv => LayerSlicesExact
  BY DEF IInv
<1> QED
  BY <1>1, Invariance, PTL
-----------------------------------------------------------------------------
(* The values of the fields *)

\* What ConstraintsHeld asks of the value v of one reference.
Honours(ref, v) ==
  LET var == VarDb[ref] IN
  /\ var.expected # {} => v \in var.expected
  /\ var.expected = {} /\ var.range = <<>> => v \subseteq var.mask

\* map has the last value of every short name among the fields.
Records(iface, fields, map) ==
  /\ DOMAIN map = {ShortName[iface[j]] : j \in DOMAIN fields}
  /\ \A n \in DOMAIN map :
       \E k \in DOMAIN fields :
         /\ ShortName[iface[k]] = n /\ map[n] = fields[k]
         /\ \A m \in DOMAIN fields : ShortName[iface[m]] = n => m <= k

\* v is the value of ref under the overrides map, or a choice of its own.
Follows(ref, v, map) ==
  VarDb[ref].expected = {} =>
    IF ShortName[ref] \in DOMAIN map
      THEN v = map[ShortName[ref]] \cap VarDb[ref].mask
      ELSE v \in PickValue(VarDb[ref])

(***************************************************************************)
(* The fields of the stage being built are recorded in carry and follow    *)
(* the overrides, and these are the record of the previous stage.          *)
(***************************************************************************)
StageInv ==
  phase = "build" =>
    /\ li <= Len(layers) =>
         /\ Records(Iface, cur.fields, carry)
         /\ \A j \in DOMAIN cur.fields : /\ Honours(Iface[j], cur.fields[j])
                                         /\ Follows(Iface[j], cur.fields[j], overrides)
    /\ IF mode = "chain" /\ li > 1
         THEN Records(layers[li - 1], built[li - 1].fields, overrides)
         ELSE overrides = EmptyMap

ValueInv == StageInv /\ ConstraintsHeld /\ ChainCarriesOneStage

\* A choice honours the constraints, overridden or not.
LEMMA FieldValueFacts ==
  ASSUME NEW ref, NEW v \in FieldValue(ref)
  PROVE  Honours(ref, v) /\ Follows(ref, v, overrides)
<1>1. VarDb[ref].expected = {} /\ ShortName[ref] \in DOMAIN overrides
        => v = overrides[ShortName[ref]] \cap VarDb[ref].mask
  BY DEF FieldValue
<1>2. ~(VarDb[ref].expected = {} /\ ShortName[ref] \in DOMAIN overrides)
        => v \in PickValue(VarDb[ref])
  BY DEF FieldValue
<1>3. Follows(ref, v, overrides)
  BY <1>1, <1>2 DEF Follows
<1>4. v \in PickValue(VarDb[ref]) => Honours(ref, v)
  BY DEF PickValue, Honours
<1>5. v \subseteq VarDb[ref].mask /\ VarDb[ref].expected = {} => Honours(ref, v)
  BY DEF Honours
<1> QED
  BY <1>1, <1>2, <1>3, <1>4, <1>5

\* Recording one more field, behind the others.
LEMMA RecordsGrow ==
  ASSUME NEW iface, NEW fields, NEW map, Records(iface, fields, map),
         NEW k, NEW v, \A m \in DOMAIN fields : m \in Nat /\ m < k, k \in Nat
  PROVE  Records(iface, Extend(fields, k, v), Extend(map, ShortName[iface[k]], v))
<1> DEFINE name == ShortName[iface[k]]
           F == Extend(fields, k, v)
           M == Extend(map, name, v)
<1>1. DOMAIN F = DOMAIN fields \cup {k} /\ DOMAIN M = DOMAIN map \cup {name}
  BY DEF Extend
<1>2. F[k] = v /\ M[name] = v
  BY DEF Extend
<1>3. \A m \in DOMAIN fields : F[m] = fields[m]
  BY DEF Extend
<1>4. \A n \in DOMAIN map : n # name => M[n] = map[n]
  BY DEF Extend
<1>5. DOMAIN M = {ShortName[iface[j]] : j \in DOMAIN F}
  BY <1>1 DEF Records
<1> HIDE DEF F, M, name
<1>6. ASSUME NEW n \in DOMAIN M
      PROVE  \E q \in DOMAIN F :
               /\ ShortName[iface[q]] = n /\ M[n] = F[q]
               /\ \A m \in DOMAIN F : ShortName[iface[m]] = n => m <= q
  <2>1. CASE n = name
    BY <2>1, <1>1, <1>2 DEF name
  <2>2. CASE n # name
    <3>1. PICK q \in DOMAIN fields :
            /\ ShortName[iface[q]] = n /\ map[n] = fields[q]
            /\ \A m \in DOMAIN fields : ShortName[iface[m]] = n => m <= q
      BY <2>2, <1>1 DEF Records
    <3>2. \A m \in DOMAIN F : ShortName[iface[m]] = n => m <= q
      BY <2>2, <3>1, <1>1 DEF name
    <3> QED
      BY <2>2, <3>1, <3>2, <1>1, <1>3, <1>4
  <2> QED
    BY <2>1, <2>2
<1> QED
  BY <1>5, <1>6 DEF Records, F, M, name

LEMMA RecordsEmpty ==
  ASSUME NEW iface PROVE Records(iface, EmptyMap, EmptyMap)
BY DEF Records, EmptyMap

\* Both properties are about finished layers only.
LEMMA FinishedKept ==
  ASSUME ConstraintsHeld, ChainCarriesOneStage, UNCHANGED <<mode, layers, built>>
  PROVE  ConstraintsHeld' /\ ChainCarriesOneStage'
<1>1. \A l, n : Named(l, n)' = Named(l, n)
  BY DEF Named
<1>2. ConstraintsHeld'
  BY DEF ConstraintsHeld
<1>3. ChainCarriesOneStage'
  BY <1>1 DEF ChainCarriesOneStage
<1> QED
  BY <1>2, <1>3

LEMMA InitValueInv == Init => ValueInv
<1> SUFFICES ASSUME Init PROVE ValueInv
  OBVIOUS
<1>1. DOMAIN built = {} /\ DOMAIN cur.fields = {} /\ li = 1 /\ phase = "build"
      /\ overrides = EmptyMap /\ cur.fields = EmptyMap /\ carry = EmptyMap
  BY DEF Init, EmptyMap, EmptyPacket
<1>2. StageInv
  BY <1>1, RecordsEmpty DEF StageInv
<1>3. ConstraintsHeld /\ ChainCarriesOneStage
  BY <1>1 DEF ConstraintsHeld, ChainCarriesOneStage
<1> QED
  BY <1>2, <1>3 DEF ValueInv

LEMMA BuildFieldValueInv == TypeOK /\ ValueInv /\ BuildField => ValueInv'
<1> SUFFICES ASSUME TypeOK, ValueInv, BuildField PROVE ValueInv'
  OBVIOUS
<1>1. AtRef /\ phase = "build" /\ Live(Ref)
  BY DEF BuildField
<1>2. UNCHANGED <<mode, layers, phase, li, overrides, built>>
  BY DEF BuildField
<1>3. PICK v \in FieldValue(Ref) :
        cur'.fields = Extend(cur.fields, ri, v) /\ carry' = Extend(carry, ShortName[Ref], v)
  BY DEF BuildField
<1>4. ri \in 1 .. Len(Iface) /\ Len(Iface) \in Nat /\ cur \in PacketOf(Iface, ri - 1)
      /\ li <= Len(layers)
  BY <1>1, AtRefFacts DEF AtRef
<1>5. \A m \in DOMAIN cur.fields : m \in Nat /\ m < ri
  BY <1>4 DEF PacketOf, LivePos
<1>6. Records(Iface, cur.fields, carry)
  BY <1>1, <1>4 DEF ValueInv, StageInv
<1>7. Records(Iface, cur'.fields, carry')
  BY <1>3, <1>4, <1>5, <1>6, RecordsGrow DEF Ref
<1>8. ASSUME NEW j \in DOMAIN cur'.fields
      PROVE  Honours(Iface[j], cur'.fields[j]) /\ Follows(Iface[j], cur'.fields[j], overrides)
  <2>1. CASE j = ri
    <3>1. cur'.fields[j] = v /\ Iface[j] = Ref
      BY <2>1, <1>3 DEF Extend, Ref
    <3> QED
      BY <3>1, FieldValueFacts
  <2>2. CASE j # ri
    <3>1. j \in DOMAIN cur.fields /\ cur'.fields[j] = cur.fields[j]
      BY <2>2, <1>3 DEF Extend
    <3> QED
      BY <3>1, <1>1, <1>4 DEF ValueInv, StageInv
  <2> QED
    BY <2>1, <2>2
<1>9. Iface' = Iface
  BY <1>2 DEF Iface
<1>10. IF mode = "chain" /\ li > 1
         THEN Records(layers[li - 1], built[li - 1].fields, overrides)
         ELSE overrides = EmptyMap
  BY <1>1 DEF ValueInv, StageInv
<1>11. StageInv'
  <2>1. Records(Iface', cur'.fields, carry')
    BY <1>7, <1>9
  <2>2. \A j \in DOMAIN cur'.fields :
          Honours(Iface'[j], cur'.fields[j]) /\ Follows(Iface'[j], cur'.fields[j], overrides')
    BY <1>2, <1>8, <1>9
  <2>3. IF mode' = "chain" /\ li' > 1
          THEN Records(layers'[li' - 1], built'[li' - 1].fields, overrides')
          ELSE overrides' = EmptyMap
    BY <1>2, <1>10
  <2> QED
    BY <2>1, <2>2, <2>3 DEF StageInv
<1>12. ConstraintsHeld' /\ ChainCarriesOneStage'
  BY <1>2, FinishedKept DEF ValueInv
<1> QED
  BY <1>11, <1>12 DEF ValueInv

\* The steps that leave the packets, the carried values and the layer alone.
LEMMA QuietValueInv ==
  ValueInv /\ UNCHANGED <<mode, layers, phase, li, cur, carry, overrides, built>> => ValueInv'
<1> SUFFICES ASSUME ValueInv,
                    UNCHANGED <<mode, layers, phase, li, cur, carry, overrides, built>>
             PROVE  ValueInv'
  OBVIOUS
<1>1. StageInv'
  BY DEF ValueInv, StageInv, Iface
<1>2. ConstraintsHeld' /\ ChainCarriesOneStage'
  BY FinishedKept DEF ValueInv
<1> QED
  BY <1>1, <1>2 DEF ValueInv

\* The steps of the decoder, and the delivery.
LEMMA DecodingValueInv ==
  ValueInv /\ phase' # "build" /\ UNCHANGED <<mode, layers, built>> => ValueInv'
BY FinishedKept DEF ValueInv, StageInv

LEMMA BuildLayerValueInv == TypeOK /\ ValueInv /\ BuildLayer => ValueInv'
<1> SUFFICES ASSUME TypeOK, ValueInv, BuildLayer PROVE ValueInv'
  OBVIOUS
<1>1. AtEnd /\ phase = "build"
  BY DEF BuildLayer
<1>2. UNCHANGED <<mode, layers, phase>> /\ li' = li + 1
      /\ built' = Extend(built, li, cur) /\ carry' = EmptyMap
      /\ cur'.fields = EmptyMap
  BY DEF BuildLayer, EmptyPacket
<1>3. overrides' = IF mode = "chain" THEN carry ELSE EmptyMap
  BY DEF BuildLayer, NextOverrides
<1>4. li \in 1 .. Len(layers) /\ Len(layers) \in Nat /\ DOMAIN built = 1 .. li - 1
  BY <1>1, AtEndFacts DEF TypeOK
<1>5. DOMAIN built' = DOMAIN built \cup {li} /\ built'[li] = cur
      /\ \A l \in DOMAIN built : built'[l] = built[l]
  BY <1>2, <1>4 DEF Extend
<1>6. /\ Records(layers[li], cur.fields, carry)
      /\ \A j \in DOMAIN cur.fields : /\ Honours(layers[li][j], cur.fields[j])
                                      /\ Follows(layers[li][j], cur.fields[j], overrides)
      /\ IF mode = "chain" /\ li > 1
           THEN Records(layers[li - 1], built[li - 1].fields, overrides)
           ELSE overrides = EmptyMap
  BY <1>1, <1>4 DEF ValueInv, StageInv, Iface
<1>7. StageInv'
  <2>1. Records(Iface', cur'.fields, carry') /\ DOMAIN cur'.fields = {}
    BY <1>2, RecordsEmpty DEF EmptyMap
  <2>2. IF mode' = "chain" /\ li' > 1
          THEN Records(layers'[li' - 1], built'[li' - 1].fields, overrides')
          ELSE overrides' = EmptyMap
    <3>1. li' - 1 = li /\ li' > 1
      BY <1>2, <1>4
    <3> QED
      BY <3>1, <1>2, <1>3, <1>5, <1>6
  <2> QED
    BY <2>1, <2>2 DEF StageInv
<1>8. ConstraintsHeld'
  <2> SUFFICES ASSUME NEW l \in DOMAIN built', NEW j \in DOMAIN built'[l].fields
               PROVE  Honours(layers[l][j], built'[l].fields[j])
    BY <1>2 DEF ConstraintsHeld, Honours
  <2>1. CASE l = li
    BY <2>1, <1>5, <1>6
  <2>2. CASE l # li
    BY <2>2, <1>5 DEF ValueInv, ConstraintsHeld, Honours
  <2> QED
    BY <2>1, <2>2
<1>9. ChainCarriesOneStage'
  <2> SUFFICES ASSUME mode = "chain", NEW l \in DOMAIN built' \ {1},
                      NEW j \in DOMAIN built'[l].fields,
                      VarDb[layers[l][j]].expected = {}
               PROVE  LET var == VarDb[layers[l][j]]
                          from == Named(l - 1, ShortName[layers[l][j]])'
                          v == built'[l].fields[j] IN
                      IF from = {} THEN v \in PickValue(var)
                      ELSE \E k \in from : /\ \A m \in from : m <= k
                                           /\ v = built'[l - 1].fields[k] \cap var.mask
    BY <1>2 DEF ChainCarriesOneStage
  <2>1. l - 1 \in DOMAIN built /\ l \in 2 .. li
    BY <1>4, <1>5
  <2>2. Named(l - 1, ShortName[layers[l][j]])' = Named(l - 1, ShortName[layers[l][j]])
    BY <1>2, <1>5, <2>1 DEF Named
  <2>3. CASE l = li
    <3> DEFINE n == ShortName[layers[l][j]]
               fs == built[l - 1].fields
    <3>1. Records(layers[l - 1], fs, overrides)
      BY <2>1, <2>3, <1>6
    <3>2. built'[l].fields[j] = cur.fields[j] /\ j \in DOMAIN cur.fields
      BY <2>3, <1>5
    <3>3. Follows(layers[l][j], built'[l].fields[j], overrides)
      BY <2>3, <3>2, <1>6
    <3>4. Named(l - 1, n) = {k \in DOMAIN fs : ShortName[layers[l - 1][k]] = n}
      BY DEF Named
    <3>5. CASE n \in DOMAIN overrides
      <4>1. PICK k \in DOMAIN fs :
              /\ ShortName[layers[l - 1][k]] = n /\ overrides[n] = fs[k]
              /\ \A m \in DOMAIN fs : ShortName[layers[l - 1][m]] = n => m <= k
        BY <3>1, <3>5 DEF Records
      <4>2. built'[l].fields[j] = fs[k] \cap VarDb[layers[l][j]].mask
        BY <3>3, <3>5, <4>1 DEF Follows
      <4>3. k \in Named(l - 1, n) /\ \A m \in Named(l - 1, n) : m <= k
        BY <4>1, <3>4
      <4> QED
        BY <4>2, <4>3, <2>1, <2>2, <1>5
    <3>6. CASE n \notin DOMAIN overrides
      <4>1. Named(l - 1, n) = {}
        BY <3>1, <3>4, <3>6 DEF Records
      <4>2. built'[l].fields[j] \in PickValue(VarDb[layers[l][j]])
        BY <3>3, <3>6 DEF Follows
      <4> QED
        BY <4>1, <4>2, <2>2
    <3> QED
      BY <3>5, <3>6
  <2>4. CASE l # li
    <3>1. l \in DOMAIN built \ {1} /\ built'[l] = built[l] /\ built'[l - 1] = built[l - 1]
      BY <2>4, <2>1, <1>5
    <3> DEFINE from == Named(l - 1, ShortName[layers[l][j]])
    <3>2. IF from = {} THEN built[l].fields[j] \in PickValue(VarDb[layers[l][j]])
          ELSE \E k \in from :
                 /\ \A m \in from : m <= k
                 /\ built[l].fields[j] = built[l - 1].fields[k] \cap VarDb[layers[l][j]].mask
      BY <3>1 DEF ValueInv, ChainCarriesOneStage
    <3> HIDE DEF from
    <3> QED
      BY <3>1, <3>2, <2>2 DEF from
  <2> QED
    BY <2>3, <2>4
<1> QED
  BY <1>7, <1>8, <1>9 DEF ValueInv

LEMMA NextValueInv == TypeOK /\ ValueInv /\ [Next]_vars => ValueInv'
<1> SUFFICES ASSUME TypeOK, ValueInv, [Next]_vars PROVE ValueInv'
  OBVIOUS
<1>1. CASE BuildField
  BY <1>1, BuildFieldValueInv
<1>2. CASE BuildLayer
  BY <1>2, BuildLayerValueInv
<1>3. CASE BuildSkip \/ UNCHANGED vars
  BY <1>3, QuietValueInv DEF BuildSkip, vars, buildVars
<1>4. CASE Deliver \/ DecodeField \/ DecodeSkip \/ DecodeLayer \/ DecodeEnd
  BY <1>4, DecodingValueInv DEF Deliver, DecodeField, DecodeSkip, DecodeLayer, DecodeEnd, buildVars
<1> QED
  BY <1>1, <1>2, <1>3, <1>4 DEF Next

LEMMA ValueInvariance == Spec => []ValueInv
BY InitValueInv, NextValueInv, TypeCorrect, PTL DEF Spec

\* Whatever the previous stage carries over, the builder writes an expected
\* value where the variable lists some, and stays within the mask where
\* neither list nor range decides (pickValue, buildWithOverrides).
THEOREM ValuesHonourConstraints == Spec => []ConstraintsHeld
<1>1. ValueInv => ConstraintsHeld
  BY DEF ValueInv
<1> QED
  BY <1>1, ValueInvariance, PTL

\* generateChain hands each stage the values of the stage before it and of no
\* other: the last equally named field, under the receiver's mask.
THEOREM ChainIsStepwise == Spec => []ChainCarriesOneStage
<1>1. ValueInv => ChainCarriesOneStage
  BY DEF ValueInv
<1> QED
  BY <1>1, ValueInvariance, PTL
-----------------------------------------------------------------------------
(* StackCodec: the invariant *)

Ifaces == [found : BOOLEAN, refs : Seq(Refs)]

StackLayer == [service : DOMAIN ServiceLogic, iface : Ifaces, bypass : BOOLEAN,
               logic : {ServiceLogic[v] : v \in DOMAIN ServiceLogic} \cup {NoText}]

Decoded == [name : Names, value : Word]

\* A call is at one of its layers; between calls there is no layer.
CursorInv ==
  /\ stage \in {"idle", "populate", "encode", "pack", "decode"}
  /\ level \in Nat \ {0} /\ calls \in 0 .. MaxCalls /\ rxOffset \in Nat
  /\ IF stage = "idle" THEN level = 1 ELSE level <= Len(stack)
  /\ loadErr # "SUCCESS" => stack = <<>> /\ stage = "idle"

\* iface is what a layer is bound to: an interface of the database, or none.
FromDatabase(iface) ==
  IF iface.found THEN \E n \in DOMAIN Interfaces : iface.refs = Interfaces[n].refs
                 ELSE iface.refs = <<>>

\* What is bound: a bypassed layer has no module.
BoundInv ==
  /\ stack \in Seq(StackLayer)
  /\ \A l \in 1 .. Len(stack) :
       /\ stack[l].bypass => stack[l].logic = NoText
       /\ FromDatabase(stack[l].iface)

\* A layer without an interface never has a field.
ContextInv ==
  /\ ctx \in Seq(Seq(Field)) /\ Len(ctx) = Len(stack)
  /\ seen \in Seq(Word) /\ Len(seen) = Len(stack)
  /\ \A l \in 1 .. Len(stack) : ~stack[l].iface.found => ctx[l] = <<>>

ResultInv ==
  /\ frame \in Buffer /\ input \in Buffer
  /\ made \in Seq([bytes : Buffer, fields : Seq(Field)])
  /\ back \in Seq([bytes : Buffer, fields : Seq(Decoded)])

TypeInv == CursorInv /\ BoundInv /\ ContextInv /\ ResultInv

\* The references of a bound layer that make fields.
FieldRefs(y) == FieldsOfInterface(y.iface)

\* The fields of layer y are those of its interface.
Layout(y, fields) ==
  /\ Len(fields) = Len(FieldRefs(y))
  /\ \A k \in 1 .. Len(fields) : /\ fields[k].name = ShortName[FieldRefs(y)[k]]
                                 /\ fields[k].bits = Size(FieldRefs(y)[k])

\* Field k has a value that the builder chose.
Chosen(y, fields, k) == fields[k].value \in PickValue(VarDb[FieldRefs(y)[k]])

\* What holds of layer y's fields after its module's onEncode, when the layer
\* above asks for the subtype given and the layers above take some bytes.
Settled(y, subtype, above, fs) ==
  /\ \A k \in 1 .. Len(fs) : \/ ~y.bypass /\ fs[k].name \in Derived(y.logic)
                             \/ Chosen(y, fs, k)
  /\ y.logic = "aecp_aem" =>
       /\ HasField(fs, "control_data_length") =>
            GetValue(fs, "control_data_length")
              = ToWord(BytesAfter(fs, "control_data_length") + above)
       /\ HasField(fs, "message_type") /\ HasField(fs, "status") =>
            0 \in GetValue(fs, "message_type") \/ GetValue(fs, "status") = {}
  /\ y.logic = "avtp_control" /\ HasField(fs, "subtype") =>
       subtype \in {{}, GetValue(fs, "subtype")}
  /\ y.logic = "ethernet_mac_frame" /\ HasField(fs, "ethertype") =>
       LET k == First(Having(fs, "ethertype")) IN
       fs[k].value = kEthertype1722 \/ (fs[k].value # {} /\ Chosen(y, fs, k))

\* The bytes of the layers above layer l.
Above(contexts, l) == Sum(SubSeq(ByteSizes(contexts), l + 1, Len(contexts)))

\* During a generateStack, layer by layer.
PassInv ==
  \A l \in 1 .. Len(stack) :
    /\ (stage = "populate" /\ l < level) \/ stage \in {"encode", "pack"} => Layout(stack[l], ctx[l])
    /\ (stage = "populate" /\ l < level) \/ (stage = "encode" /\ l >= level) =>
         \A k \in 1 .. Len(ctx[l]) : Chosen(stack[l], ctx[l], k)
    /\ (stage = "encode" /\ l < level) \/ stage = "pack" =>
         Settled(stack[l], SubtypeForUpper(l), Above(ctx, l), ctx[l])

FieldsOf(packed) == [l \in 1 .. Len(packed) |-> packed[l].fields]

\* What has been packed; a frame that is finished keeps its fields, whatever
\* happens to the contexts.
MadeInv ==
  /\ stage \in {"populate", "encode"} => made = <<>>
  /\ stage = "pack" => Len(made) = level - 1 /\ \A l \in 1 .. Len(made) : made[l].fields = ctx[l]
  /\ stage \in {"idle", "decode"} /\ made # <<>> =>
       /\ Len(made) = Len(stack)
       /\ \A l \in 1 .. Len(made) :
            /\ Layout(stack[l], made[l].fields)
            /\ Settled(stack[l], SubtypeForUpper(l), Above(FieldsOf(made), l), made[l].fields)
  /\ \A l \in 1 .. Len(made) : made[l].bytes = PackBytes(made[l].fields)

SizesOf(packed) == [l \in 1 .. Len(packed) |-> packed[l].bytes.size]

\* The byte of the frame at which layer l begins.
StartOf(packed, l) == SumUpTo(SizesOf(packed))[l - 1]

\* The buffer is the layers packed, one after the other.
Slices(buf, packed) ==
  /\ buf.size = Sum(SizesOf(packed)) /\ \A p \in buf.ones : p < 8 * buf.size
  /\ \A l \in 1 .. Len(packed) : \A p \in 0 .. 8 * packed[l].bytes.size - 1 :
       8 * StartOf(packed, l) + p \in buf.ones <=> p \in packed[l].bytes.ones

SliceInv == Slices(frame, made)

\* A layer was decoded to what had been packed.
Returned(b, m) ==
  /\ b.bytes = m.bytes /\ Len(b.fields) = Len(m.fields)
  /\ \A k \in 1 .. Len(b.fields) :
       /\ b.fields[k].name = m.fields[k].name
       /\ b.fields[k].value = Low(m.fields[k].value, m.fields[k].bits)

BackInv ==
  /\ stage \in {"populate", "encode", "pack"} => back = <<>>
  /\ stage = "decode" => Len(back) = level - 1
  /\ Len(back) <= Len(stack)
  /\ input = frame /\ made # <<>> =>
       /\ stage = "decode" => rxOffset = StartOf(made, level)
       /\ \A l \in 1 .. Len(back) : Returned(back[l], made[l])
-----------------------------------------------------------------------------
(* What the helpers return *)

\* The first of a set of positions is in it, and no member is before it.
LEMMA FirstFacts ==
  ASSUME NEW T \in SUBSET Nat, T # {}
  PROVE  First(T) \in T /\ \A j \in T : First(T) <= j
BY NatMinimum DEF First

\* NoText is none of the names that the modules ask for.
LEMMA NoTextFacts ==
  /\ NoText # "ethernet_mac_frame" /\ NoText # "avtp_control" /\ NoText # "aecp_aem"
  /\ NoText # "ethertype" /\ NoText # "subtype" /\ NoText # "control_data_length"
BY Zenon DEF NoText

\* The references that make a field are references, and each resolves to a
\* variable of non-zero size.
LEMMA LiveRefs ==
  ASSUME NEW refs \in Seq(Refs)
  PROVE  LET fs == Filter(refs, {r \in Refs : Live(r)}) IN
         /\ fs \in Seq(Refs)
         /\ \A k \in 1 .. Len(fs) :
              /\ fs[k] \in Refs /\ Live(fs[k]) /\ Size(fs[k]) \in Nat \ {0}
              /\ fs[k] \in DOMAIN VarDb /\ VarDb[fs[k]] \in Var
              /\ ShortName[fs[k]] \in Names
              /\ \E i \in 1 .. Len(refs) : fs[k] = refs[i]
<1> DEFINE T == {r \in Refs : Live(r)}
           fs == Filter(refs, T)
<1>1. fs \in Seq(Refs)
  BY FilterType
<1>2. ASSUME NEW k \in 1 .. Len(fs)
      PROVE  fs[k] \in Refs /\ Live(fs[k]) /\ \E i \in 1 .. Len(refs) : fs[k] = refs[i]
  <2>1. \E i \in 1 .. Len(refs) : refs[i] \in T /\ fs[k] = refs[i]
    <3> HIDE DEF T
    <3> QED
      BY FilterElements
  <2> QED
    BY <2>1
<1> HIDE DEF T, fs
<1>3. ASSUME NEW k \in 1 .. Len(fs)
      PROVE  /\ Size(fs[k]) \in Nat \ {0} /\ fs[k] \in DOMAIN VarDb /\ VarDb[fs[k]] \in Var
             /\ ShortName[fs[k]] \in Names
  <2>1. Size(fs[k]) \in Nat /\ fs[k] \in DOMAIN VarDb /\ VarDb[fs[k]] \in Var
    BY <1>2, SizeNat, LiveResolves
  <2> QED
    BY <1>2, <2>1, RefsAssumption DEF Live
<1> QED
  BY <1>1, <1>2, <1>3 DEF fs, T

\* Every reference makes a field.
AllLive(refs) == \A k \in 1 .. Len(refs) : Live(refs[k])

\* One more value, for a reference.
AddChoice(s, ref, v) == Append(s, [name |-> ShortName[ref], value |-> v])

MoreChoices(lists, ref) == {AddChoice(s, ref, v) : s \in lists, v \in PickValue(VarDb[ref])}

\* A list with one more value is one of the lists, and one of the values.
LEMMA MoreChoicesFacts ==
  ASSUME NEW lists, NEW ref, NEW t \in MoreChoices(lists, ref)
  PROVE  \E s \in lists, v \in PickValue(VarDb[ref]) : t = AddChoice(s, ref, v)
BY DEF MoreChoices

\* The lists of values for the first n references are what the recursive
\* definition says.
LEMMA ChoicesUpToDef ==
  ASSUME NEW refs \in Seq(Refs), AllLive(refs)
  PROVE  LET f == ChoicesUpTo(refs) IN
         /\ f \in [0 .. Len(refs) -> SUBSET Seq(Decoded)]
         /\ f[0] = {<<>>}
         /\ \A n \in 1 .. Len(refs) : f[n] = MoreChoices(f[n - 1], refs[n])
<1> DEFINE N == Len(refs)
           S == SUBSET Seq(Decoded)
           Join(y, n) == MoreChoices(y, refs[n])
           e == {<<>>}
           step == [q \in (1 .. N) \X S |-> Join(q[2], q[1])]
           Is(g) == g = [n \in 0 .. N |-> IF n = 0 THEN e ELSE Join(g[n - 1], n)]
           h == ChoicesUpTo(refs)
<1>1. N \in Nat /\ e \in S /\ \A n \in 1 .. N, y \in S : Join(y, n) \in S
  <2>1. N \in Nat /\ e \in S
    OBVIOUS
  <2>2. ASSUME NEW n \in 1 .. N, NEW y \in S, NEW s \in y, NEW v \in PickValue(VarDb[refs[n]])
        PROVE  AddChoice(s, refs[n], v) \in Seq(Decoded)
    <3>1. refs[n] \in Refs /\ VarDb[refs[n]] \in Var
      BY LiveResolves DEF AllLive
    <3>2. v \in Word
      BY <3>1, PickValueType
    <3>3. [name |-> ShortName[refs[n]], value |-> v] \in Decoded
      BY <3>1, <3>2, RefsAssumption DEF Decoded
    <3>4. s \in Seq(Decoded)
      BY DEF S
    <3> QED
      BY <3>3, <3>4 DEF AddChoice
  <2>3. ASSUME NEW n \in 1 .. N, NEW y \in S PROVE Join(y, n) \in S
    <3>1. ASSUME NEW z \in Join(y, n) PROVE z \in Seq(Decoded)
      <4>1. PICK s \in y, v \in PickValue(VarDb[refs[n]]) : z = AddChoice(s, refs[n], v)
        BY MoreChoicesFacts
      <4> QED
        BY <2>2, <4>1
    <3> HIDE DEF Join
    <3> QED
      BY <3>1
  <2> HIDE DEF Join, S, e, N
  <2> QED
    BY <2>1, <2>3
<1>2. h = CHOOSE g : Is(g)
  BY DEF ChoicesUpTo, MoreChoices, AddChoice
<1> HIDE DEF N, S, h, e, Join
<1>3. step \in Steps(N, S)
  BY <1>1 DEF Steps
<1>4. \A n \in 1 .. N, y \in S : step[<<n, y>>] = Join(y, n)
  BY <1>1
<1> HIDE DEF step
<1>5. PICK f \in [0 .. N -> S] : Iterates(f, e, N, step)
  BY <1>1, <1>3, FiniteRecursion
<1>6. Is(f)
  <2>1. ASSUME NEW n \in 1 .. N PROVE f[n] = Join(f[n - 1], n)
    <3>1. n - 1 \in 0 .. N
      BY <1>1
    <3> QED
      BY <1>4, <1>5, <3>1 DEF Iterates
  <2>2. \A n \in 0 .. N : f[n] = IF n = 0 THEN e ELSE Join(f[n - 1], n)
    BY <1>1, <1>5, <2>1 DEF Iterates
  <2> DEFINE G == [n \in 0 .. N |-> IF n = 0 THEN e ELSE Join(f[n - 1], n)]
  <2>3. \A n \in 0 .. N : f[n] = G[n]
    BY <2>2
  <2>4. DOMAIN G = 0 .. N /\ G = [n \in DOMAIN G |-> G[n]]
    BY Zenon
  <2>5. f = G
    <3> HIDE DEF G
    <3> QED
      BY <2>3, <2>4
  <2> QED
    BY <2>5
<1>7. Is(h)
  <2> HIDE DEF Is
  <2> QED
    BY <1>2, <1>6
<1>8. /\ DOMAIN h = 0 .. N /\ h[0] = e
      /\ \A n \in 1 .. N : h[n] = Join(h[n - 1], n)
  <2>1. DOMAIN h = 0 .. N
    BY <1>7
  <2>2. \A n \in 0 .. N : h[n] = IF n = 0 THEN e ELSE Join(h[n - 1], n)
    BY <1>7, Zenon
  <2>3. h[0] = e
    BY <1>1, <2>2
  <2>4. ASSUME NEW n \in 1 .. N PROVE h[n] = Join(h[n - 1], n)
    <3>1. n \in 0 .. N /\ n # 0
      BY <1>1
    <3> QED
      BY <2>2, <3>1
  <2> QED
    BY <2>1, <2>3, <2>4
<1>9. h \in [0 .. N -> S]
  <2> DEFINE K == {n \in Nat : n <= N => h[n] \in S}
  <2>1. 0 \in K
    BY <1>1, <1>8
  <2>2. ASSUME NEW n \in Nat, n \in K PROVE n + 1 \in K
    <3> SUFFICES ASSUME n + 1 <= N PROVE h[n + 1] \in S
      OBVIOUS
    <3>1. n + 1 \in 1 .. N /\ (n + 1) - 1 = n
      BY <1>1
    <3>2. h[n + 1] = Join(h[n], n + 1)
      BY <1>8, <3>1
    <3>3. h[n] \in S
      <4>1. n <= N
        BY <1>1
      <4> QED
        BY <2>2, <4>1
    <3> HIDE DEF K
    <3> QED
      BY <1>1, <3>1, <3>2, <3>3
  <2>3. \A n \in 0 .. N : h[n] \in S
    <3> HIDE DEF K
    <3>1. Nat \subseteq K
      BY <2>1, <2>2, NatSetInduction
    <3> QED
      BY <3>1, <1>1 DEF K
  <2>4. h = [n \in 0 .. N |-> h[n]]
    BY <1>7, <1>8
  <2> QED
    BY <2>3, <2>4
<1> QED
  BY <1>8, <1>9 DEF N, S, h, e, Join

\* The components of a field.
LEMMA FieldFacts ==
  \A f \in Field : f.name \in Names /\ f.value \in Word /\ f.bits \in Nat /\ f.bits # 0
BY DEF Field

\* The widths of a context's fields, and where its fields begin.
LEMMA WidthsFacts ==
  ASSUME NEW fields \in Seq(Field)
  PROVE  /\ Widths(fields) \in Seq(Nat) /\ Len(Widths(fields)) = Len(fields)
         /\ \A k \in 1 .. Len(fields) : Widths(fields)[k] = fields[k].bits
         /\ BitLength(fields) \in Nat /\ ByteSize(fields) \in Nat
<1>1. \A k \in 1 .. Len(fields) : fields[k].bits \in Nat
  BY FieldFacts
<1>2. /\ Widths(fields) \in Seq(Nat) /\ Len(Widths(fields)) = Len(fields)
      /\ \A k \in 1 .. Len(fields) : Widths(fields)[k] = fields[k].bits
  BY <1>1 DEF Widths
<1>3. BitLength(fields) \in Nat
  BY <1>2, SumZero DEF BitLength
<1> QED
  BY <1>2, <1>3 DEF ByteSize, CeilBytes

\* A layer is packed field by field, as the recursive definition says.
LEMMA PackUpToDef ==
  ASSUME NEW fields \in Seq(Field)
  PROVE  LET f == PackUpTo(fields) IN
         /\ f \in [0 .. Len(fields) -> Buffer]
         /\ f[0] = EmptyBuffer
         /\ \A n \in 1 .. Len(fields) :
              f[n] = AppendBits(f[n - 1], SumUpTo(Widths(fields))[n - 1], fields[n].value, fields[n].bits)
<1> DEFINE N == Len(fields)
           S == Buffer
           Join(y, n) == AppendBits(y, SumUpTo(Widths(fields))[n - 1], fields[n].value, fields[n].bits)
           e == EmptyBuffer
           step == [q \in (1 .. N) \X S |-> Join(q[2], q[1])]
           Is(g) == g = [n \in 0 .. N |-> IF n = 0 THEN e ELSE Join(g[n - 1], n)]
           h == PackUpTo(fields)
<1>1. N \in Nat /\ e \in S /\ \A n \in 1 .. N, y \in S : Join(y, n) \in S
  <2>1. N \in Nat /\ e \in S
    BY DEF EmptyBuffer, Buffer
  <2>2. ASSUME NEW n \in 1 .. N, NEW y \in S
        PROVE  Join(y, n) \in S
    <3>1. SumUpTo(Widths(fields))[n - 1] \in Nat
      BY WidthsFacts, SumUpToGrows
    <3>2. fields[n].value \in Word /\ fields[n].bits \in Nat
      BY FieldFacts
    <3> QED
      BY <3>1, <3>2, AppendBitsType
  <2> QED
    BY <2>1, <2>2
<1>2. h = CHOOSE g : Is(g)
  BY DEF PackUpTo
<1> HIDE DEF N, S, h, e, Join
<1>3. step \in Steps(N, S)
  BY <1>1 DEF Steps
<1>4. \A n \in 1 .. N, y \in S : step[<<n, y>>] = Join(y, n)
  BY <1>1
<1> HIDE DEF step
<1>5. PICK f \in [0 .. N -> S] : Iterates(f, e, N, step)
  BY <1>1, <1>3, FiniteRecursion
<1>6. Is(f)
  <2>1. ASSUME NEW n \in 1 .. N PROVE f[n] = Join(f[n - 1], n)
    <3>1. n - 1 \in 0 .. N
      BY <1>1
    <3> QED
      BY <1>4, <1>5, <3>1 DEF Iterates
  <2>2. \A n \in 0 .. N : f[n] = IF n = 0 THEN e ELSE Join(f[n - 1], n)
    BY <1>1, <1>5, <2>1 DEF Iterates
  <2> DEFINE G == [n \in 0 .. N |-> IF n = 0 THEN e ELSE Join(f[n - 1], n)]
  <2>3. \A n \in 0 .. N : f[n] = G[n]
    BY <2>2
  <2>4. DOMAIN G = 0 .. N /\ G = [n \in DOMAIN G |-> G[n]]
    BY Zenon
  <2>5. f = G
    <3> HIDE DEF G
    <3> QED
      BY <2>3, <2>4
  <2> QED
    BY <2>5
<1>7. Is(h)
  <2> HIDE DEF Is
  <2> QED
    BY <1>2, <1>6
<1>8. /\ DOMAIN h = 0 .. N /\ h[0] = e
      /\ \A n \in 1 .. N : h[n] = Join(h[n - 1], n)
  <2>1. DOMAIN h = 0 .. N
    BY <1>7
  <2>2. \A n \in 0 .. N : h[n] = IF n = 0 THEN e ELSE Join(h[n - 1], n)
    BY <1>7, Zenon
  <2>3. h[0] = e
    BY <1>1, <2>2
  <2>4. ASSUME NEW n \in 1 .. N PROVE h[n] = Join(h[n - 1], n)
    <3>1. n \in 0 .. N /\ n # 0
      BY <1>1
    <3> QED
      BY <2>2, <3>1
  <2> QED
    BY <2>1, <2>3, <2>4
<1>9. h \in [0 .. N -> S]
  <2> DEFINE K == {n \in Nat : n <= N => h[n] \in S}
  <2>1. 0 \in K
    BY <1>1, <1>8
  <2>2. ASSUME NEW n \in Nat, n \in K PROVE n + 1 \in K
    <3> SUFFICES ASSUME n + 1 <= N PROVE h[n + 1] \in S
      OBVIOUS
    <3>1. n + 1 \in 1 .. N /\ (n + 1) - 1 = n
      BY <1>1
    <3>2. h[n + 1] = Join(h[n], n + 1)
      BY <1>8, <3>1
    <3>3. h[n] \in S
      <4>1. n <= N
        BY <1>1
      <4> QED
        BY <2>2, <4>1
    <3> HIDE DEF K
    <3> QED
      BY <1>1, <3>1, <3>2, <3>3
  <2>3. \A n \in 0 .. N : h[n] \in S
    <3> HIDE DEF K
    <3>1. Nat \subseteq K
      BY <2>1, <2>2, NatSetInduction
    <3> QED
      BY <3>1, <1>1 DEF K
  <2>4. h = [n \in 0 .. N |-> h[n]]
    BY <1>7, <1>8
  <2> QED
    BY <2>3, <2>4
<1> QED
  BY <1>8, <1>9 DEF N, S, h, e, Join

\* What buildWithFields may choose: one value per reference, in order, each
\* within the variable's constraints.
LEMMA ChoicesFacts ==
  ASSUME NEW refs \in Seq(Refs), AllLive(refs), NEW vs \in ValueChoices(refs)
  PROVE  /\ vs \in Seq(Decoded) /\ Len(vs) = Len(refs)
         /\ \A k \in 1 .. Len(vs) : /\ vs[k].name = ShortName[refs[k]]
                                    /\ vs[k].value \in PickValue(VarDb[refs[k]])
<1> DEFINE N == Len(refs)
           f == ChoicesUpTo(refs)
           Good(s, n) == /\ s \in Seq(Decoded) /\ Len(s) = n
                         /\ \A k \in 1 .. n : /\ s[k].name = ShortName[refs[k]]
                                              /\ s[k].value \in PickValue(VarDb[refs[k]])
           K == {n \in Nat : n <= N => \A s \in f[n] : Good(s, n)}
           Rec(v, n) == [name |-> ShortName[refs[n]], value |-> v]
<1>1. /\ N \in Nat /\ f[0] = {<<>>} /\ f \in [0 .. N -> SUBSET Seq(Decoded)]
      /\ \A n \in 1 .. N : f[n] = MoreChoices(f[n - 1], refs[n])
  BY ChoicesUpToDef
<1>2. vs \in f[N]
  BY DEF ValueChoices
<1> HIDE DEF N, f
<1>3. 0 \in K
  BY <1>1
<1>4. ASSUME NEW n \in Nat, n \in K PROVE n + 1 \in K
  <2> SUFFICES ASSUME n + 1 <= N, NEW t \in f[n + 1] PROVE Good(t, n + 1)
    OBVIOUS
  <2>1. n + 1 \in 1 .. N /\ n \in 0 .. N /\ (n + 1) - 1 = n /\ n <= N
    BY <1>1
  <2>2. PICK s \in f[n], v \in PickValue(VarDb[refs[n + 1]]) : t = AddChoice(s, refs[n + 1], v)
    <3>1. f[n + 1] = MoreChoices(f[n], refs[n + 1])
      BY <1>1, <2>1
    <3> QED
      BY <3>1, MoreChoicesFacts
  <2>3. Good(s, n)
    <3> HIDE DEF Good
    <3> QED
      BY <1>4, <2>1, <2>2
  <2>4. t \in Seq(Decoded)
    <3>1. f[n + 1] \in SUBSET Seq(Decoded)
      BY <1>1, <2>1
    <3> QED
      BY <3>1
  <2>5. /\ Len(t) = n + 1 /\ \A k \in 1 .. n : t[k] = s[k]
        /\ t[n + 1] = Rec(v, n + 1)
    <3>1. t = Append(s, Rec(v, n + 1))
      BY <2>2 DEF AddChoice
    <3> HIDE DEF Rec
    <3> QED
      BY <2>3, <3>1
  <2>6. t[n + 1].name = ShortName[refs[n + 1]] /\ t[n + 1].value = v
    BY <2>5
  <2>7. ASSUME NEW k \in 1 .. n + 1
        PROVE  t[k].name = ShortName[refs[k]] /\ t[k].value \in PickValue(VarDb[refs[k]])
    <3>1. CASE k = n + 1
      BY <2>2, <2>6, <3>1
    <3>2. CASE k \in 1 .. n
      BY <2>3, <2>5, <3>2
    <3> QED
      BY <3>1, <3>2
  <2> QED
    BY <2>4, <2>5, <2>7
<1>5. N \in K
  <2> HIDE DEF K
  <2> QED
    BY <1>1, <1>3, <1>4, NatSetInduction
<1>6. Good(vs, N)
  BY <1>1, <1>2, <1>5
<1> QED
  BY <1>6 DEF N

\* The buffer ends with the byte of bit o, and has no bits from there on.
Filled(buf, o) == buf.size = CeilBytes(o) /\ \A p \in buf.ones : p < o

\* r is the buffer with the n bits of v after its first o bits.
Added(r, buf, o, v, n) ==
  /\ Filled(r, o + n)
  /\ \A p \in Nat : p < o => (p \in r.ones <=> p \in buf.ones)
  /\ \A i \in Nat : i < n => (o + (n - 1 - i) \in r.ones <=> i \in v)

\* appendBits at the end of the bits written: it keeps them, and adds its own.
LEMMA AppendBitsFacts ==
  ASSUME NEW buf \in Buffer, NEW o \in Nat, NEW v \in Word, NEW n \in Nat, Filled(buf, o)
  PROVE  Added(AppendBits(buf, o, v, n), buf, o, v, n)
<1> DEFINE r == AppendBits(buf, o, v, n)
<1>0. buf.size = CeilBytes(o) /\ \A p \in buf.ones : p < o
  BY DEF Filled
<1> DEFINE new == {o + (n - 1 - i) : i \in Low(v, n)}
<1>1. \A i \in Low(v, n) : i \in Nat /\ i < n /\ i \in v
  BY WordBitsAssumption DEF Low, Word
<1>2. buf.ones \subseteq Nat
  BY DEF Buffer
<1>3. r.size = CeilBytes(o + n)
  <2>1. CeilBytes(o) \in Nat /\ CeilBytes(o + n) \in Nat /\ CeilBytes(o) <= CeilBytes(o + n)
    BY DEF CeilBytes
  <2> QED
    BY <1>0, <2>1 DEF AppendBits
<1>4. r.ones = buf.ones \cup new
  BY DEF AppendBits
<1>5. \A p \in new : p \in Nat /\ o <= p /\ p < o + n
  BY <1>1
<1>6. \A i \in Nat : i < n => (o + (n - 1 - i) \in new <=> i \in v)
  <2>1. ASSUME NEW i \in Nat, i < n, i \in v PROVE o + (n - 1 - i) \in new
    <3>1. i \in Low(v, n)
      BY <2>1 DEF Low
    <3> QED
      BY <3>1
  <2>2. ASSUME NEW i \in Nat, i < n, o + (n - 1 - i) \in new PROVE i \in v
    <3>1. PICK j \in Low(v, n) : o + (n - 1 - i) = o + (n - 1 - j)
      BY <2>2
    <3>2. j \in Nat /\ j < n /\ j \in v
      BY <1>1
    <3>3. i = j
      BY <3>1, <3>2
    <3> QED
      BY <3>2, <3>3
  <2> QED
    BY <2>1, <2>2
<1> HIDE DEF new, r
<1>7. \A p \in r.ones : p < o + n
  BY <1>0, <1>2, <1>4, <1>5
<1>8. \A p \in Nat : p < o => (p \in r.ones <=> p \in buf.ones)
  BY <1>4, <1>5
<1>9. ASSUME NEW i \in Nat, i < n PROVE o + (n - 1 - i) \in r.ones <=> i \in v
  <2>1. o + (n - 1 - i) \notin buf.ones
    BY <1>0, <1>9
  <2> QED
    BY <1>4, <1>6, <1>9, <2>1
<1> QED
  BY <1>3, <1>7, <1>8, <1>9 DEF Added, Filled, r

\* A bit of a field is within the field.
LEMMA BitWithin ==
  \A a, b, c, i \in Nat : i < b /\ a + b <= c => a + (b - 1 - i) \in Nat /\ a + (b - 1 - i) < c
OBVIOUS

\* The layer packed: it has the bytes of the context's widths, field k is at
\* the sum of the widths before it, and there are no other bits.
LEMMA PackFacts ==
  ASSUME NEW fields \in Seq(Field)
  PROVE  LET b == PackBytes(fields)
             o == SumUpTo(Widths(fields)) IN
         /\ b \in Buffer /\ b.size = ByteSize(fields)
         /\ \A p \in b.ones : p < BitLength(fields)
         /\ \A k \in 1 .. Len(fields) : \A i \in Nat :
              i < fields[k].bits =>
                (o[k - 1] + (fields[k].bits - 1 - i) \in b.ones <=> i \in fields[k].value)
<1> DEFINE N == Len(fields)
           w == Widths(fields)
           o == SumUpTo(w)
           f == PackUpTo(fields)
           At(k, i) == o[k - 1] + (fields[k].bits - 1 - i)
           Good(n) == /\ f[n].size = CeilBytes(o[n]) /\ \A p \in f[n].ones : p < o[n]
                      /\ \A k \in 1 .. n : \A i \in Nat :
                           i < fields[k].bits => (At(k, i) \in f[n].ones <=> i \in fields[k].value)
           K == {n \in Nat : n <= N => Good(n)}
<1>1. N \in Nat /\ \A k \in 1 .. N : fields[k].bits \in Nat /\ fields[k].value \in Word
  BY FieldFacts
<1>2. w \in Seq(Nat) /\ Len(w) = N /\ \A k \in 1 .. N : w[k] = fields[k].bits
  BY WidthsFacts
<1>3. /\ f \in [0 .. N -> Buffer] /\ f[0] = EmptyBuffer
      /\ \A n \in 1 .. N : f[n] = AppendBits(f[n - 1], o[n - 1], fields[n].value, fields[n].bits)
  BY PackUpToDef
<1>4. o \in [0 .. N -> Nat] /\ o[0] = 0 /\ \A n \in 1 .. N : o[n] = o[n - 1] + w[n]
  <2> HIDE DEF w
  <2> QED
    BY <1>2, SumUpToDef
<1>5. PackBytes(fields) = f[N] /\ BitLength(fields) = o[N] /\ ByteSize(fields) = CeilBytes(o[N])
  BY <1>2 DEF PackBytes, BitLength, ByteSize, Sum
<1> HIDE DEF N, w, o, f, Good
<1>6. 0 \in K
  <2>1. CeilBytes(0) = 0
    BY DEF CeilBytes
  <2>2. Good(0)
    BY <1>3, <1>4, <2>1 DEF Good, EmptyBuffer
  <2> QED
    BY <2>2
<1>7. ASSUME NEW n \in Nat, n \in K PROVE n + 1 \in K
  <2> SUFFICES ASSUME n + 1 <= N PROVE Good(n + 1)
    OBVIOUS
  <2> DEFINE v == fields[n + 1].value
             m == fields[n + 1].bits
  <2>1. n + 1 \in 1 .. N /\ n \in 0 .. N /\ (n + 1) - 1 = n /\ n <= N
    BY <1>1
  <2>2. Good(n)
    BY <1>7, <2>1
  <2>3. f[n] \in Buffer /\ o[n] \in Nat /\ v \in Word /\ m \in Nat
    BY <1>1, <1>3, <1>4, <2>1
  <2>4. f[n + 1] = AppendBits(f[n], o[n], v, m) /\ o[n + 1] = o[n] + m
    BY <1>2, <1>3, <1>4, <2>1
  <2>5. /\ f[n + 1].size = CeilBytes(o[n + 1]) /\ \A p \in f[n + 1].ones : p < o[n + 1]
        /\ \A p \in Nat : p < o[n] => (p \in f[n + 1].ones <=> p \in f[n].ones)
        /\ \A i \in Nat : i < m => (o[n] + (m - 1 - i) \in f[n + 1].ones <=> i \in v)
    <3>1. Filled(f[n], o[n])
      BY <2>2 DEF Good, Filled
    <3> HIDE DEF v, m
    <3>2. Added(f[n + 1], f[n], o[n], v, m)
      BY <2>3, <2>4, <3>1, AppendBitsFacts
    <3> QED
      BY <2>4, <3>2 DEF Added, Filled
  <2>6. ASSUME NEW k \in 1 .. n + 1, NEW i \in Nat, i < fields[k].bits
        PROVE  At(k, i) \in f[n + 1].ones <=> i \in fields[k].value
    <3>1. CASE k = n + 1
      BY <2>1, <2>5, <2>6, <3>1
    <3>2. CASE k \in 1 .. n
      <4>1. k \in 1 .. N /\ k - 1 \in 0 .. N /\ k \in 0 .. N /\ fields[k].bits \in Nat
        BY <1>1, <2>1, <3>2
      <4>2. o[k - 1] \in Nat /\ o[k] \in Nat
        BY <1>4, <4>1
      <4>6. o[k] = o[k - 1] + fields[k].bits
        BY <1>2, <1>4, <4>1
      <4>3. o[k] <= o[n]
        BY <1>2, <2>1, <3>2, SumUpToOrder DEF o
      <4>4. At(k, i) \in Nat /\ At(k, i) < o[n]
        <5>1. o[n] \in Nat /\ o[k - 1] + fields[k].bits <= o[n]
          BY <2>3, <4>3, <4>6
        <5> QED
          BY <2>6, <4>1, <4>2, <5>1, BitWithin
      <4>5. At(k, i) \in f[n].ones <=> i \in fields[k].value
        BY <2>2, <2>6, <3>2 DEF Good
      <4> HIDE DEF At
      <4> QED
        BY <2>5, <4>4, <4>5
    <3> QED
      BY <3>1, <3>2
  <2> HIDE DEF At
  <2> QED
    BY <2>5, <2>6 DEF Good
<1>8. Good(N)
  <2>1. N \in K
    <3> HIDE DEF K
    <3> QED
      BY <1>1, <1>6, <1>7, NatSetInduction
  <2> QED
    BY <1>1, <2>1
<1>9. f[N] \in Buffer
  BY <1>1, <1>3
<1> QED
  BY <1>5, <1>8, <1>9 DEF Good, N, w, o, f
-----------------------------------------------------------------------------
(* Looking fields up, and changing their values *)

\* The first field of a name, if there is one.
LEMMA HavingFacts ==
  ASSUME NEW R, NEW fields \in Seq(R), NEW name
  PROVE  /\ Having(fields, name) \in SUBSET Nat
         /\ \A k : k \in Having(fields, name) <=> k \in 1 .. Len(fields) /\ fields[k].name = name
         /\ HasField(fields, name) =>
              LET k == First(Having(fields, name)) IN
              /\ k \in 1 .. Len(fields) /\ fields[k].name = name
              /\ \A j \in 1 .. Len(fields) : fields[j].name = name => k <= j
<1>1. \A k : k \in Having(fields, name) <=> k \in 1 .. Len(fields) /\ fields[k].name = name
  BY DEF Having
<1>2. Having(fields, name) \in SUBSET Nat
  BY <1>1
<1>3. ASSUME HasField(fields, name)
      PROVE  /\ First(Having(fields, name)) \in Having(fields, name)
             /\ \A j \in Having(fields, name) : First(Having(fields, name)) <= j
  BY <1>2, <1>3, FirstFacts DEF HasField
<1> QED
  BY <1>1, <1>2, <1>3

\* g has the fields of f, with other values perhaps.
SameShape(f, g) ==
  Len(g) = Len(f) /\ \A k \in 1 .. Len(f) : g[k].name = f[k].name /\ g[k].bits = f[k].bits

\* ... and only of fields with a name in T.
Keeps(f, g, T) ==
  /\ g \in Seq(Field) /\ SameShape(f, g)
  /\ \A k \in 1 .. Len(f) : g[k].value = f[k].value \/ f[k].name \in T

\* The widths of a part of the fields.
LEMMA WidthsSub ==
  ASSUME NEW fields \in Seq(Field), NEW a \in 1 .. Len(fields) + 1, NEW b \in 0 .. Len(fields)
  PROVE  Widths(SubSeq(fields, a, b)) = SubSeq(Widths(fields), a, b)
<1> DEFINE u == SubSeq(fields, a, b)
           v == SubSeq(Widths(fields), a, b)
           w == Widths(fields)
<1>1. w \in Seq(Nat) /\ Len(w) = Len(fields) /\ \A k \in 1 .. Len(fields) : w[k] = fields[k].bits
  BY WidthsFacts
<1>2. u \in Seq(Field) /\ \A k \in 1 .. Len(u) : u[k] = fields[a + k - 1] /\ a + k - 1 \in 1 .. Len(fields)
  OBVIOUS
<1>3. Widths(u) \in Seq(Nat) /\ Len(Widths(u)) = Len(u) /\ \A k \in 1 .. Len(u) : Widths(u)[k] = u[k].bits
  BY <1>2, WidthsFacts
<1>4. v \in Seq(Nat) /\ Len(v) = Len(u) /\ \A k \in 1 .. Len(u) : v[k] = w[a + k - 1]
  <2> HIDE DEF w
  <2>1. Len(u) = IF a <= b THEN b - a + 1 ELSE 0
    OBVIOUS
  <2>2. SubSeq(w, a, b) \in Seq(Nat) /\ Len(SubSeq(w, a, b)) = IF a <= b THEN b - a + 1 ELSE 0
    BY <1>1
  <2>3. \A k \in 1 .. Len(SubSeq(w, a, b)) : SubSeq(w, a, b)[k] = w[a + k - 1]
    BY <1>1
  <2> HIDE DEF u
  <2> QED
    BY <2>1, <2>2, <2>3 DEF w
<1> HIDE DEF u, v, w
<1>5. \A k \in 1 .. Len(u) : Widths(u)[k] = v[k]
  BY <1>1, <1>2, <1>3, <1>4
<1>6. Widths(u) = v
  BY <1>3, <1>4, <1>5, SeqEqual
<1> QED
  BY <1>6 DEF u, v, w

\* What depends on names and widths only.
LEMMA SameShapeFacts ==
  ASSUME NEW f \in Seq(Field), NEW g \in Seq(Field), SameShape(f, g)
  PROVE  /\ \A n : Having(g, n) = Having(f, n)
         /\ Widths(g) = Widths(f) /\ BitLength(g) = BitLength(f) /\ ByteSize(g) = ByteSize(f)
         /\ \A n : HasField(f, n) => BytesAfter(g, n) = BytesAfter(f, n)
<1>1. Len(g) = Len(f) /\ \A k \in 1 .. Len(f) : g[k].name = f[k].name /\ g[k].bits = f[k].bits
  BY DEF SameShape
<1>2. ASSUME NEW n PROVE Having(g, n) = Having(f, n)
  BY <1>1 DEF Having
<1>3. Widths(g) = Widths(f)
  <2> DEFINE v == Widths(f)
             w == Widths(g)
  <2>1. v \in Seq(Nat) /\ Len(v) = Len(f) /\ \A k \in 1 .. Len(f) : v[k] = f[k].bits
    BY WidthsFacts
  <2>2. w \in Seq(Nat) /\ Len(w) = Len(g) /\ \A k \in 1 .. Len(g) : w[k] = g[k].bits
    BY WidthsFacts
  <2> HIDE DEF v, w
  <2>3. Len(v) = Len(w) /\ \A k \in 1 .. Len(v) : v[k] = w[k]
    BY <1>1, <2>1, <2>2
  <2>4. v = w
    BY <2>1, <2>2, <2>3, SeqEqual
  <2> QED
    BY <2>4 DEF v, w
<1>4. ASSUME NEW n, HasField(f, n) PROVE BytesAfter(g, n) = BytesAfter(f, n)
  <2> DEFINE a == First(Having(f, n)) + 1
  <2>1. a \in 1 .. Len(f) + 1 /\ Len(f) \in 0 .. Len(f)
    BY <1>4, HavingFacts
  <2>2. Having(g, n) = Having(f, n)
    BY <1>2
  <2> HIDE DEF a
  <2>3. Widths(SubSeq(f, a, Len(f))) = SubSeq(Widths(f), a, Len(f))
    BY <2>1, WidthsSub
  <2>4. Widths(SubSeq(g, a, Len(g))) = SubSeq(Widths(g), a, Len(g))
    BY <1>1, <2>1, WidthsSub
  <2> QED
    BY <1>1, <1>3, <2>2, <2>3, <2>4 DEF BytesAfter, BitLength, a
<1> QED
  BY <1>2, <1>3, <1>4 DEF BitLength, ByteSize

\* Leaving the fields alone keeps them; so do two changes after one another.
LEMMA KeepsSelf ==
  ASSUME NEW f \in Seq(Field), NEW T PROVE Keeps(f, f, T)
BY DEF Keeps, SameShape

LEMMA KeepsTrans ==
  ASSUME NEW f \in Seq(Field), NEW g, NEW h, NEW T, NEW U, Keeps(f, g, T), Keeps(g, h, U)
  PROVE  Keeps(f, h, T \cup U)
BY DEF Keeps, SameShape

\* A value of another name stays what it was.
LEMMA KeepsValue ==
  ASSUME NEW f \in Seq(Field), NEW g, NEW T, Keeps(f, g, T), NEW n, HasField(f, n)
  PROVE  /\ HasField(g, n) /\ First(Having(g, n)) = First(Having(f, n))
         /\ n \notin T => GetValue(g, n) = GetValue(f, n)
<1>1. g \in Seq(Field) /\ SameShape(f, g) /\ \A k \in 1 .. Len(f) : g[k].value = f[k].value \/ f[k].name \in T
  BY DEF Keeps
<1>2. Having(g, n) = Having(f, n)
  BY <1>1, SameShapeFacts
<1>3. First(Having(f, n)) \in 1 .. Len(f) /\ f[First(Having(f, n))].name = n
  BY HavingFacts
<1> QED
  BY <1>1, <1>2, <1>3 DEF HasField, GetValue

LEMMA KeepsHas ==
  ASSUME NEW f \in Seq(Field), NEW g, NEW T, Keeps(f, g, T), NEW n
  PROVE  HasField(g, n) <=> HasField(f, n)
BY SameShapeFacts DEF Keeps, HasField

\* setValue changes one value, and then that is the value.
LEMMA SetValueFacts ==
  ASSUME NEW fields \in Seq(Field), NEW name, NEW value \in Word
  PROVE  LET r == SetValue(fields, name, value) IN
         /\ Keeps(fields, r, {name})
         /\ HasField(fields, name) => GetValue(r, name) = value
<1> DEFINE r == SetValue(fields, name, value)
           k == First(Having(fields, name))
<1>1. CASE ~HasField(fields, name)
  BY <1>1, KeepsSelf DEF SetValue
<1>2. CASE HasField(fields, name)
  <2>1. k \in 1 .. Len(fields) /\ fields[k].name = name
    BY <1>2, HavingFacts
  <2> DEFINE new == [fields[k] EXCEPT !.value = value]
  <2>2. r = [fields EXCEPT ![k] = new]
    BY <1>2 DEF SetValue
  <2>3. fields[k] \in Field
    BY <2>1
  <2>4. new \in Field /\ new.name = fields[k].name /\ new.bits = fields[k].bits /\ new.value = value
    <3> HIDE DEF k
    <3> QED
      BY <2>3 DEF Field
  <2> HIDE DEF new, k
  <2>5. r \in Seq(Field) /\ Len(r) = Len(fields) /\ r[k] = new
        /\ \A j \in 1 .. Len(fields) : j # k => r[j] = fields[j]
    BY <2>1, <2>2, <2>4
  <2> HIDE DEF r
  <2>6. SameShape(fields, r)
    BY <2>4, <2>5 DEF SameShape
  <2>7. \A j \in 1 .. Len(fields) : r[j].value = fields[j].value \/ fields[j].name \in {name}
    BY <2>1, <2>5
  <2>8. Keeps(fields, r, {name})
    BY <2>5, <2>6, <2>7 DEF Keeps
  <2>9. First(Having(r, name)) = k
    BY <1>2, <2>8, KeepsValue DEF k
  <2>10. GetValue(r, name) = value
    BY <2>4, <2>5, <2>9 DEF GetValue
  <2> QED
    BY <2>8, <2>10 DEF r
<1> QED
  BY <1>1, <1>2
-----------------------------------------------------------------------------
(* The logic modules *)

\* Words that the modules write.
LEMMA WordFacts ==
  /\ kSubtypeAecp \in Word /\ kSubtypeAecp # {} /\ kSubtypeAdp \in Word /\ kSubtypeAdp # {}
  /\ kEthertype1722 \in Word /\ kEthertype1722 # {} /\ {} \in Word
  /\ \A n : ToWord(n) \in Word
<1>1. \A n : ToWord(n) \in Word
  BY DEF ToWord, Word
<1>2. {} \in Word
  BY DEF Word
<1> QED
  BY <1>1, <1>2, StackAssumption

\* A module may change the fields it derives; an ethertype is then not 0.
LEMMA EthernetFacts ==
  ASSUME NEW fs \in Seq(Field)
  PROVE  LET r == EthernetOnEncode(fs) IN
         /\ Keeps(fs, r, {"ethertype"})
         /\ HasField(r, "ethertype") =>
              \/ GetValue(r, "ethertype") = kEthertype1722
              \/ GetValue(r, "ethertype") # {} /\ GetValue(r, "ethertype") = GetValue(fs, "ethertype")
<1> DEFINE s == SetValue(fs, "ethertype", kEthertype1722)
<1>1. /\ Keeps(fs, s, {"ethertype"})
      /\ HasField(fs, "ethertype") => GetValue(s, "ethertype") = kEthertype1722
  BY SetValueFacts, WordFacts
<1>2. HasField(s, "ethertype") => HasField(fs, "ethertype")
  <2> HIDE DEF s
  <2> QED
    BY <1>1, KeepsHas
<1>3. Keeps(fs, fs, {"ethertype"})
  BY KeepsSelf
<1> HIDE DEF s
<1> QED
  BY <1>1, <1>2, <1>3 DEF EthernetOnEncode, s

LEMMA SubtypeWord == \A l : SubtypeForUpper(l) \in Word
<1>1. \A l : SubtypeForUpper(l) \in {kSubtypeAecp, kSubtypeAdp, {}}
  BY DEF SubtypeForUpper
<1> QED
  BY <1>1, WordFacts

\* A selector says which layer is above.
LEMMA AvtpFacts ==
  ASSUME NEW l, NEW fs \in Seq(Field)
  PROVE  LET r == AvtpOnEncode(l, fs) IN
         /\ Keeps(fs, r, {"subtype", "sv", "version", "reserved"})
         /\ HasField(r, "subtype") => SubtypeForUpper(l) \in {{}, GetValue(r, "subtype")}
<1> DEFINE s == IF SubtypeForUpper(l) # {} THEN SetValue(fs, "subtype", SubtypeForUpper(l)) ELSE fs
           a == SetValue(s, "sv", {})
           b == SetValue(a, "version", {})
           c == SetValue(b, "reserved", {})
<1>0. {} \in Word /\ SubtypeForUpper(l) \in Word
  BY WordFacts, SubtypeWord
<1>1. Keeps(fs, s, {"subtype"}) /\ (HasField(fs, "subtype") => SubtypeForUpper(l) \in {{}, GetValue(s, "subtype")})
  BY <1>0, SetValueFacts, KeepsSelf
<1> HIDE DEF s
<1>2. s \in Seq(Field)
  BY <1>1 DEF Keeps
<1>3. Keeps(s, a, {"sv"})
  BY <1>0, <1>2, SetValueFacts
<1> HIDE DEF a
<1>4. a \in Seq(Field)
  BY <1>3 DEF Keeps
<1>5. Keeps(a, b, {"version"})
  BY <1>0, <1>4, SetValueFacts
<1> HIDE DEF b
<1>6. b \in Seq(Field)
  BY <1>5 DEF Keeps
<1>7. Keeps(b, c, {"reserved"})
  BY <1>0, <1>6, SetValueFacts
<1> HIDE DEF c
<1>8. Keeps(s, b, {"sv"} \cup {"version"})
  BY <1>2, <1>3, <1>5, KeepsTrans
<1>9. Keeps(s, c, ({"sv"} \cup {"version"}) \cup {"reserved"})
  BY <1>2, <1>7, <1>8, KeepsTrans
<1>10. Keeps(fs, c, {"subtype"} \cup (({"sv"} \cup {"version"}) \cup {"reserved"}))
  BY <1>1, <1>9, KeepsTrans
<1>11. {"subtype"} \cup (({"sv"} \cup {"version"}) \cup {"reserved"}) = {"subtype", "sv", "version", "reserved"}
  OBVIOUS
<1>12. ASSUME HasField(c, "subtype") PROVE SubtypeForUpper(l) \in {{}, GetValue(c, "subtype")}
  <2>1. HasField(fs, "subtype")
    BY <1>10, <1>12, KeepsHas
  <2>2. HasField(s, "subtype")
    BY <1>1, <2>1, KeepsHas
  <2>3. "subtype" \notin (({"sv"} \cup {"version"}) \cup {"reserved"})
    OBVIOUS
  <2>4. GetValue(c, "subtype") = GetValue(s, "subtype")
    BY <1>2, <1>9, <2>2, <2>3, KeepsValue
  <2> QED
    BY <1>1, <2>1, <2>4
<1>13. AvtpOnEncode(l, fs) = c
  BY DEF AvtpOnEncode, s, a, b, c
<1> QED
  BY <1>10, <1>11, <1>12, <1>13

\* The length counts what follows, and a command has status 0.
LEMMA AecpFacts ==
  ASSUME NEW l, NEW fs \in Seq(Field)
  PROVE  LET r == AecpOnEncode(l, fs) IN
         /\ Keeps(fs, r, {"control_data_length", "status"})
         /\ HasField(r, "control_data_length") =>
              GetValue(r, "control_data_length")
                = ToWord(BytesAfter(r, "control_data_length") + BytesAbove(l))
         /\ HasField(r, "message_type") /\ HasField(r, "status") =>
              0 \in GetValue(r, "message_type") \/ GetValue(r, "status") = {}
<1> DEFINE cdl == "control_data_length"
           n == ToWord(BytesAfter(fs, cdl) + BytesAbove(l))
           s == IF HasField(fs, cdl) THEN SetValue(fs, cdl, n) ELSE fs
           r == IF HasField(s, "message_type") /\ 0 \notin GetValue(s, "message_type")
                  THEN SetValue(s, "status", {}) ELSE s
<1>0. {} \in Word /\ n \in Word
  BY WordFacts
<1>1. Keeps(fs, s, {cdl}) /\ (HasField(fs, cdl) => GetValue(s, cdl) = n)
  <2> HIDE DEF n
  <2> QED
    BY <1>0, SetValueFacts, KeepsSelf
<1> HIDE DEF s
<1>2. s \in Seq(Field)
  BY <1>1 DEF Keeps
<1>3. /\ Keeps(s, r, {"status"})
      /\ HasField(s, "message_type") /\ HasField(s, "status") =>
              0 \in GetValue(s, "message_type") \/ GetValue(r, "status") = {}
  BY <1>0, <1>2, SetValueFacts, KeepsSelf
<1> HIDE DEF r
<1>4. Keeps(fs, r, {cdl} \cup {"status"})
  BY <1>1, <1>3, KeepsTrans
<1>5. {cdl} \cup {"status"} = {"control_data_length", "status"}
  OBVIOUS
<1>6. ASSUME HasField(r, "message_type"), HasField(r, "status")
      PROVE  0 \in GetValue(r, "message_type") \/ GetValue(r, "status") = {}
  <2>1. HasField(s, "message_type") /\ HasField(s, "status")
    BY <1>2, <1>3, <1>6, KeepsHas
  <2>2. GetValue(r, "message_type") = GetValue(s, "message_type")
    <3>1. "message_type" \notin {"status"}
      OBVIOUS
    <3> QED
      BY <1>2, <1>3, <2>1, <3>1, KeepsValue
  <2> QED
    BY <1>3, <2>1, <2>2
<1>7. ASSUME HasField(r, cdl)
      PROVE  GetValue(r, cdl) = ToWord(BytesAfter(r, cdl) + BytesAbove(l))
  <2>1. HasField(fs, cdl) /\ HasField(s, cdl)
    BY <1>1, <1>2, <1>3, <1>7, KeepsHas
  <2>2. GetValue(r, cdl) = GetValue(s, cdl)
    <3>1. cdl \notin {"status"}
      OBVIOUS
    <3> HIDE DEF cdl
    <3> QED
      BY <1>2, <1>3, <2>1, <3>1, KeepsValue
  <2>3. BytesAfter(r, cdl) = BytesAfter(fs, cdl)
    BY <1>4, <2>1, SameShapeFacts DEF Keeps
  <2> QED
    BY <1>1, <2>1, <2>2, <2>3
<1>8. AecpOnEncode(l, fs) = r
  BY DEF AecpOnEncode, s, r
<1> QED
  BY <1>4, <1>5, <1>6, <1>7, <1>8
-----------------------------------------------------------------------------
(* populateContext and the decoder's field loop *)

\* What passes a filter.
LEMMA FilterInto ==
  ASSUME NEW R, NEW s \in Seq(R), NEW T
  PROVE  Filter(s, T) \in Seq(T)
<1> DEFINE g == Filter(s, T)
<1>1. g \in Seq(R)
  BY FilterType
<1>2. ASSUME NEW j \in 1 .. Len(g) PROVE g[j] \in T
  BY FilterElements
<1> HIDE DEF g
<1>3. Len(g) \in Nat /\ g = [j \in 1 .. Len(g) |-> g[j]]
  BY <1>1
<1>4. g \in [1 .. Len(g) -> T]
  BY <1>2, <1>3
<1> QED
  BY <1>3, <1>4 DEF g

\* The components of a decoded field.
LEMMA DecodedFacts == \A d \in Decoded : d.name \in Names /\ d.value \in Word
BY DEF Decoded

LEMMA SizeIsNat == \A r : Size(r) \in Nat
<1>1. \A r \in DOMAIN VarDb : VarDb[r] \in Var
  BY RefsAssumption
<1>2. \A v \in Var : v.size \in Nat
  BY DEF Var
<1> QED
  BY <1>1, <1>2 DEF Size

\* Whatever it is given, populateContext makes fields.
LEMMA PopulateType ==
  ASSUME NEW l, NEW iface, NEW vs \in Seq(Decoded)
  PROVE  PopulateContext(l, iface, vs) \in Seq(Field)
<1> DEFINE Entry(k) == [name |-> vs[k].name, value |-> vs[k].value,
                        bits |-> DeclaredBits(iface, vs[k].name)]
           s == [k \in DOMAIN vs |-> Entry(k)]
           R == [name : Names, value : Word, bits : Nat]
<1>1. ASSUME NEW k \in 1 .. Len(vs) PROVE Entry(k) \in R
  <2>1. vs[k] \in Decoded
    OBVIOUS
  <2>2. vs[k].name \in Names /\ vs[k].value \in Word
    BY <2>1, DecodedFacts
  <2>3. DeclaredBits(iface, vs[k].name) \in Nat
    BY SizeIsNat DEF DeclaredBits
  <2> QED
    BY <2>2, <2>3
<1> HIDE DEF Entry, R
<1>2. s \in Seq(R)
  <2>1. Len(vs) \in Nat /\ DOMAIN vs = 1 .. Len(vs)
    OBVIOUS
  <2>2. s \in [1 .. Len(vs) -> R]
    BY <1>1, <2>1
  <2> QED
    BY <2>1, <2>2
<1>3. PopulateContext(l, iface, vs) = Filter(s, Field)
  BY DEF PopulateContext, Entry
<1> HIDE DEF s
<1> QED
  BY <1>2, <1>3, FilterInto

\* The fields of an interface, as LiveRefs has them.
LEMMA InterfaceFacts ==
  ASSUME NEW iface, iface.refs \in Seq(Refs)
  PROVE  LET fs == FieldsOfInterface(iface) IN
         /\ fs \in Seq(Refs) /\ AllLive(fs)
         /\ \A k \in 1 .. Len(fs) :
              /\ fs[k] \in Refs /\ Size(fs[k]) \in Nat \ {0} /\ ShortName[fs[k]] \in Names
              /\ fs[k] \in DOMAIN VarDb /\ VarDb[fs[k]] \in Var
              /\ \E i \in 1 .. Len(iface.refs) : fs[k] = iface.refs[i]
BY LiveRefs DEF FieldsOfInterface, AllLive

\* The width that is found for a field's short name is the field's.
LEMMA DeclaredFacts ==
  ASSUME WidthsAgree, NEW iface, iface.refs \in Seq(Refs), FromDatabase(iface),
         NEW k \in 1 .. Len(FieldsOfInterface(iface))
  PROVE  DeclaredBits(iface, ShortName[FieldsOfInterface(iface)[k]]) = Size(FieldsOfInterface(iface)[k])
<1> DEFINE r == FieldsOfInterface(iface)[k]
           refs == iface.refs
           D == {j \in DOMAIN refs : ShortName[refs[j]] = ShortName[r]}
<1>1. PICK i \in 1 .. Len(refs) : r = refs[i]
  BY InterfaceFacts
<1>2. Live(r)
  BY InterfaceFacts DEF AllLive
<1> HIDE DEF r
<1>3. D \in SUBSET Nat /\ i \in D /\ D # {}
  BY <1>1
<1>4. First(D) \in D /\ First(D) <= i
  BY <1>3, FirstFacts
<1>5. PICK n \in DOMAIN Interfaces : refs = Interfaces[n].refs
  <2>1. refs # <<>>
    BY <1>1
  <2> QED
    BY <2>1 DEF FromDatabase
<1>6. First(D) < i => Size(refs[First(D)]) = Size(refs[i])
  <2>1. \A a, b \in DOMAIN refs : a < b /\ Live(refs[b]) /\ ShortName[refs[a]] = ShortName[refs[b]]
                                   => Size(refs[a]) = Size(refs[b])
    <3> HIDE DEF refs
    <3> QED
      BY <1>5 DEF WidthsAgree
  <2>2. i \in DOMAIN refs /\ First(D) \in DOMAIN refs /\ ShortName[refs[First(D)]] = ShortName[refs[i]]
    BY <1>1, <1>4
  <2> HIDE DEF refs, D
  <2> QED
    BY <1>1, <1>2, <2>1, <2>2
<1>7. First(D) < i \/ First(D) = i
  BY <1>4
<1>8. DeclaredBits(iface, ShortName[r]) = Size(refs[First(D)])
  BY DEF DeclaredBits
<1> QED
  BY <1>1, <1>6, <1>7, <1>8 DEF r

\* Populating with a value for each field of the interface gives the layout.
LEMMA PopulateLayout ==
  ASSUME WidthsAgree, NEW l, NEW iface, iface.refs \in Seq(Refs), FromDatabase(iface),
         NEW vs \in Seq(Decoded), Len(vs) = Len(FieldsOfInterface(iface)),
         \A k \in 1 .. Len(vs) : vs[k].name = ShortName[FieldsOfInterface(iface)[k]]
  PROVE  LET c == PopulateContext(l, iface, vs) IN
         /\ Len(c) = Len(vs)
         /\ \A k \in 1 .. Len(vs) : /\ c[k].name = ShortName[FieldsOfInterface(iface)[k]]
                                    /\ c[k].bits = Size(FieldsOfInterface(iface)[k])
                                    /\ c[k].value = vs[k].value
<1> DEFINE fs == FieldsOfInterface(iface)
           Entry(k) == [name |-> vs[k].name, value |-> vs[k].value,
                        bits |-> DeclaredBits(iface, vs[k].name)]
           s == [k \in DOMAIN vs |-> Entry(k)]
<1>1. ASSUME NEW k \in 1 .. Len(vs)
      PROVE  /\ Entry(k) \in Field /\ Entry(k).name = ShortName[fs[k]]
             /\ Entry(k).bits = Size(fs[k]) /\ Entry(k).value = vs[k].value
  <2>1. vs[k].name \in Names /\ vs[k].value \in Word
    BY DecodedFacts
  <2>2. vs[k].name = ShortName[fs[k]] /\ k \in 1 .. Len(fs)
    OBVIOUS
  <2>3. DeclaredBits(iface, vs[k].name) = Size(fs[k])
    BY <2>2, DeclaredFacts
  <2>4. Size(fs[k]) \in Nat \ {0}
    BY <2>2, InterfaceFacts
  <2> HIDE DEF fs
  <2>5. Entry(k) \in Field
    BY <2>1, <2>3, <2>4 DEF Field
  <2> QED
    BY <2>2, <2>3, <2>5
<1> HIDE DEF Entry, fs
<1>2. Len(vs) \in Nat /\ DOMAIN vs = 1 .. Len(vs)
  OBVIOUS
<1>3. s \in Seq(Field) /\ Len(s) = Len(vs) /\ \A k \in 1 .. Len(vs) : s[k] = Entry(k)
  <2>1. s \in [1 .. Len(vs) -> Field]
    BY <1>1, <1>2
  <2> QED
    BY <1>2, <2>1
<1>4. PopulateContext(l, iface, vs) = Filter(s, Field)
  BY DEF PopulateContext, Entry
<1> HIDE DEF s
<1>5. PopulateContext(l, iface, vs) = s
  BY <1>3, <1>4, FilterAll
<1> QED
  BY <1>1, <1>3, <1>5 DEF fs

\* What is read from a buffer is a word.
LEMMA ExtractType == \A buf, o, n : ExtractBits(buf, o, n) \in Word
BY DEF ExtractBits, Word

\* The widths of an interface's fields.
LEMMA SizesFacts ==
  ASSUME NEW refs \in Seq(Refs)
  PROVE  /\ Sizes(refs) \in Seq(Nat) /\ Len(Sizes(refs)) = Len(refs)
         /\ \A k \in 1 .. Len(refs) : Sizes(refs)[k] = Size(refs[k])
         /\ Sum(Sizes(refs)) \in Nat /\ BytesOf(refs) \in Nat
<1>1. /\ Sizes(refs) \in Seq(Nat) /\ Len(Sizes(refs)) = Len(refs)
      /\ \A k \in 1 .. Len(refs) : Sizes(refs)[k] = Size(refs[k])
  BY SizeIsNat DEF Sizes
<1>2. Sum(Sizes(refs)) \in Nat
  BY <1>1, SumZero
<1> QED
  BY <1>1, <1>2 DEF BytesOf, CeilBytes

\* The decoder makes one field per reference.
LEMMA DecodedFieldsFacts ==
  ASSUME NEW refs \in Seq(Refs), NEW from
  PROVE  LET fs == DecodedFields(refs, from) IN
         /\ fs \in Seq(Decoded) /\ Len(fs) = Len(refs)
         /\ \A k \in 1 .. Len(refs) :
              /\ fs[k].name = ShortName[refs[k]]
              /\ fs[k].value = ExtractBits(input, 8 * from + SumUpTo(Sizes(refs))[k - 1], Size(refs[k]))
<1> DEFINE Value(k) == ExtractBits(input, 8 * from + SumUpTo(Sizes(refs))[k - 1], Size(refs[k]))
           Entry(k) == [name |-> ShortName[refs[k]], value |-> Value(k)]
           fs == [k \in DOMAIN refs |-> Entry(k)]
<1>1. ASSUME NEW k \in 1 .. Len(refs)
      PROVE  Entry(k) \in Decoded /\ Entry(k).name = ShortName[refs[k]] /\ Entry(k).value = Value(k)
  <2>1. Value(k) \in Word
    BY ExtractType
  <2>2. ShortName[refs[k]] \in Names
    BY RefsAssumption
  <2> HIDE DEF Value
  <2> QED
    BY <2>1, <2>2 DEF Decoded
<1>2. DecodedFields(refs, from) = fs
  BY DEF DecodedFields
<1>3. Len(refs) \in Nat /\ DOMAIN refs = 1 .. Len(refs)
  OBVIOUS
<1> HIDE DEF Entry
<1>4. fs \in Seq(Decoded) /\ Len(fs) = Len(refs) /\ \A k \in 1 .. Len(refs) : fs[k] = Entry(k)
  <2>1. fs \in [1 .. Len(refs) -> Decoded]
    BY <1>1, <1>3
  <2> QED
    BY <1>3, <2>1
<1> HIDE DEF fs, Value
<1> QED
  BY <1>1, <1>2, <1>4 DEF Value
-----------------------------------------------------------------------------
(* Types *)

\* One step per action.
LEMMA InitTypeInv == StackInit => TypeInv
<1> SUFFICES ASSUME StackInit PROVE TypeInv
  OBVIOUS
<1>1. CursorInv
  BY StackAssumption DEF StackInit, CursorInv
<1>2. BoundInv
  BY DEF StackInit, BoundInv
<1>3. ContextInv
  BY DEF StackInit, ContextInv
<1>4. ResultInv
  BY DEF StackInit, ResultInv, EmptyBuffer, Buffer
<1> QED
  BY <1>1, <1>2, <1>3, <1>4 DEF TypeInv

\* The layers that are handed out can be bound.
LEMMA BuiltLayers ==
  ASSUME NEW f \in StackFiles
  PROVE  /\ LayersBuilt(f) \in Seq([service : STRING, entity : STRING,
                                    interface : STRING, bypass : BOOLEAN])
         /\ BuildErr(f) # "SUCCESS" => LayersBuilt(f) = <<>>
         /\ \A k \in 1 .. Len(LayersBuilt(f)) : LayersBuilt(f)[k].service \in DOMAIN ServiceLogic
<1> DEFINE R == [service : STRING, entity : STRING, interface : STRING, bypass : BOOLEAN]
           bad == {k \in DOMAIN f.layers : LayerErr(f.layers[k]) # "SUCCESS"}
<1>1. f.layers \in Seq(R)
  BY StackAssumption
<1> HIDE DEF R
<1>2. LayersBuilt(f) \in Seq(R)
  BY <1>1 DEF LayersBuilt
<1>3. ASSUME BuildErr(f) = "SUCCESS" PROVE bad = {}
  <2>1. SUFFICES ASSUME bad # {} PROVE FALSE
    OBVIOUS
  <2>2. bad \in SUBSET Nat
    BY <1>1
  <2>3. First(bad) \in bad
    BY <2>1, <2>2, FirstFacts
  <2>4. LayerErr(f.layers[First(bad)]) # "SUCCESS"
    BY <2>3
  <2> HIDE DEF bad
  <2> QED
    BY <1>3, <2>1, <2>4 DEF BuildErr, bad
<1>4. ASSUME BuildErr(f) = "SUCCESS", NEW k \in 1 .. Len(f.layers)
      PROVE  f.layers[k].service \in DOMAIN ServiceLogic
  <2>1. LayerErr(f.layers[k]) = "SUCCESS"
    BY <1>1, <1>3, <1>4
  <2> QED
    BY <2>1 DEF LayerErr
<1> QED
  BY <1>2, <1>4 DEF LayersBuilt, R

\* What a layer of a stack file is bound to.
LEMMA BoundFacts ==
  ASSUME NEW y \in [service : STRING, entity : STRING, interface : STRING, bypass : BOOLEAN],
         y.service \in DOMAIN ServiceLogic
  PROVE  /\ Bound(y) \in StackLayer /\ (Bound(y).bypass => Bound(y).logic = NoText)
         /\ FromDatabase(Bound(y).iface)
<1> DEFINE i == InterfaceForLayer(y)
<1>1. i \in Ifaces /\ FromDatabase(i)
  <2> DEFINE Fits(j) == /\ j.service = y.service
                        /\ IF y.interface # NoText THEN j.entity = y.entity /\ j.name = y.interface
                                                   ELSE y.entity \in {NoText, j.entity}
             matches == {k \in DOMAIN Interfaces : Fits(Interfaces[k])}
  <2>1. i = IF matches = {} THEN [found |-> FALSE, refs |-> <<>>]
            ELSE [found |-> TRUE, refs |-> Interfaces[First(matches)].refs]
    BY DEF InterfaceForLayer
  <2> HIDE DEF Fits
  <2>2. CASE matches = {}
    <3>1. i = [found |-> FALSE, refs |-> <<>>]
      BY <2>1, <2>2
    <3> HIDE DEF i
    <3> QED
      BY <3>1 DEF Ifaces, FromDatabase
  <2>3. CASE matches # {}
    <3>1. Interfaces \in Seq([service : STRING, entity : STRING, name : STRING, refs : Seq(Refs)])
      BY StackAssumption
    <3>2. matches \in SUBSET Nat /\ matches \subseteq DOMAIN Interfaces
      BY <3>1
    <3>3. First(matches) \in DOMAIN Interfaces
      <4> HIDE DEF matches
      <4> QED
        BY <2>3, <3>2, FirstFacts
    <3>4. i = [found |-> TRUE, refs |-> Interfaces[First(matches)].refs]
      BY <2>1, <2>3
    <3> DEFINE m == First(matches)
    <3> HIDE DEF matches, i, m
    <3>5. Interfaces[m].refs \in Seq(Refs)
      <4> DEFINE R == [service : STRING, entity : STRING, name : STRING, refs : Seq(Refs)]
      <4>1. \A x \in R : x.refs \in Seq(Refs)
        OBVIOUS
      <4> HIDE DEF R
      <4>2. Interfaces \in Seq(R) /\ m \in DOMAIN Interfaces
        BY <3>1, <3>3 DEF R, m
      <4>3. Interfaces[m] \in R
        BY <4>2
      <4> QED
        BY <4>1, <4>3
    <3>6. i.found = TRUE /\ i.refs = Interfaces[m].refs /\ i \in Ifaces
      BY <3>4, <3>5 DEF Ifaces, m
    <3> QED
      BY <3>3, <3>6 DEF FromDatabase, m
  <2> QED
    BY <2>2, <2>3
<1>2. LogicFor(y) \in {ServiceLogic[v] : v \in DOMAIN ServiceLogic} \cup {NoText}
      /\ (y.bypass => LogicFor(y) = NoText)
  BY DEF LogicFor
<1> HIDE DEF i
<1>3. Bound(y) = [service |-> y.service, iface |-> i, bypass |-> y.bypass, logic |-> LogicFor(y)]
  BY DEF Bound, i
<1>4. y.bypass \in BOOLEAN
  OBVIOUS
<1>5. Bound(y) \in StackLayer
  BY <1>1, <1>2, <1>3, <1>4 DEF StackLayer
<1> QED
  BY <1>1, <1>2, <1>3, <1>5

\* What a step over a layer leaves alone.
Fixed == loadErr' = loadErr /\ stack' = stack /\ calls' = calls

\* A pass goes on to the next layer, or ends at the last.
LEMMA AdvanceCursor ==
  ASSUME TypeInv, stage # "idle", NEW next \in {"idle", "encode", "pack"}, Advance(next), Fixed,
         rxOffset' \in Nat
  PROVE  /\ CursorInv' /\ level \in 1 .. Len(stack)
         /\ Len(stack) \in Nat
<1>1. level \in Nat \ {0} /\ level <= Len(stack) /\ Len(stack) \in Nat
  BY DEF TypeInv, CursorInv, BoundInv
<1>2. /\ stage \in {"idle", "populate", "encode", "pack", "decode"} /\ calls \in 0 .. MaxCalls
      /\ (loadErr # "SUCCESS" => stack = <<>> /\ stage = "idle")
  BY DEF TypeInv, CursorInv
<1>3. CASE level < Len(stack)
  BY <1>1, <1>2, <1>3 DEF Advance, Fixed, CursorInv
<1>4. CASE ~(level < Len(stack))
  BY <1>1, <1>2, <1>4 DEF Advance, Fixed, CursorInv
<1> QED
  BY <1>1, <1>3, <1>4

\* A function over an interval from 1 is a sequence.
LEMMA SeqOfFunction ==
  ASSUME NEW S, NEW n \in Nat, NEW f \in [1 .. n -> S]
  PROVE  f \in Seq(S) /\ Len(f) = n
OBVIOUS

LEMMA LoadTypeInv == TypeInv /\ LoadStack => TypeInv'
<1> SUFFICES ASSUME TypeInv, LoadStack PROVE TypeInv'
  OBVIOUS
<1> USE DEF LoadStack
<1>1. PICK f \in StackFiles :
        /\ loadErr' = BuildErr(f)
        /\ stack' = [k \in 1 .. Len(LayersBuilt(f)) |-> Bound(LayersBuilt(f)[k])]
        /\ ctx' = [k \in 1 .. Len(LayersBuilt(f)) |-> <<>>]
        /\ seen' = [k \in 1 .. Len(LayersBuilt(f)) |-> {}]
  OBVIOUS
<1> DEFINE ys == LayersBuilt(f)
           R == [service : STRING, entity : STRING, interface : STRING, bypass : BOOLEAN]
<1>2. /\ ys \in Seq(R) /\ (BuildErr(f) # "SUCCESS" => ys = <<>>)
      /\ \A k \in 1 .. Len(ys) : ys[k].service \in DOMAIN ServiceLogic
  BY BuiltLayers
<1>3. ASSUME NEW k \in 1 .. Len(ys)
      PROVE  /\ Bound(ys[k]) \in StackLayer /\ (Bound(ys[k]).bypass => Bound(ys[k]).logic = NoText)
             /\ FromDatabase(Bound(ys[k]).iface)
  <2>1. ys[k] \in R
    <3> HIDE DEF R, ys
    <3> QED
      BY <1>2
  <2> QED
    BY <1>2, <2>1, BoundFacts
<1>4. Len(ys) \in Nat
  BY <1>2
<1> HIDE DEF ys, R
<1>5. /\ stack' \in Seq(StackLayer) /\ Len(stack') = Len(ys)
      /\ \A k \in 1 .. Len(ys) : stack'[k] = Bound(ys[k])
  <2>1. stack' \in [1 .. Len(ys) -> StackLayer]
    BY <1>1, <1>3 DEF ys
  <2>2. \A k \in 1 .. Len(ys) : stack'[k] = Bound(ys[k])
    BY <1>1 DEF ys
  <2> QED
    BY <1>4, <2>1, <2>2, SeqOfFunction
<1>6. BoundInv'
  <2>1. ASSUME NEW l \in 1 .. Len(stack')
        PROVE  (stack'[l].bypass => stack'[l].logic = NoText) /\ FromDatabase(stack'[l].iface)
    <3>1. l \in 1 .. Len(ys) /\ stack'[l] = Bound(ys[l])
      BY <1>5
    <3> QED
      BY <1>3, <3>1
  <2> QED
    BY <1>5, <2>1 DEF BoundInv, FromDatabase
<1>7. CursorInv'
  <2>1. loadErr' # "SUCCESS" => stack' = <<>>
    <3>1. loadErr' # "SUCCESS" => Len(ys) = 0
      BY <1>1, <1>2
    <3> QED
      BY <1>5, <3>1
  <2>2. /\ stage = "idle" /\ stage' = stage /\ level' = level /\ calls' = calls + 1
        /\ rxOffset' = rxOffset /\ calls < MaxCalls
    OBVIOUS
  <2>3. level = 1 /\ rxOffset \in Nat /\ calls \in 0 .. MaxCalls /\ MaxCalls \in Nat
    BY <2>2, StackAssumption DEF TypeInv, CursorInv
  <2> QED
    BY <2>1, <2>2, <2>3 DEF CursorInv
<1>8. ContextInv'
  <2>1. ctx' \in [1 .. Len(ys) -> Seq(Field)] /\ \A k \in 1 .. Len(ys) : ctx'[k] = <<>>
    BY <1>1 DEF ys
  <2>2. seen' \in [1 .. Len(ys) -> Word]
    BY <1>1, WordFacts DEF ys
  <2> QED
    BY <1>4, <1>5, <2>1, <2>2 DEF ContextInv
<1>9. ResultInv'
  BY DEF TypeInv, ResultInv, EmptyBuffer, Buffer
<1> QED
  BY <1>6, <1>7, <1>8, <1>9 DEF TypeInv

LEMMA GenerateTypeInv == TypeInv /\ Generate => TypeInv'
<1> SUFFICES ASSUME TypeInv, Generate PROVE TypeInv'
  OBVIOUS
<1> USE DEF Generate
<1>1. stack \in Seq(StackLayer) /\ MaxCalls \in Nat
  BY StackAssumption DEF TypeInv, BoundInv
<1>2. CursorInv'
  BY <1>1 DEF TypeInv, CursorInv, FirstPass
<1>3. BoundInv' /\ ContextInv'
  BY DEF TypeInv, BoundInv, ContextInv
<1>4. ResultInv'
  BY DEF TypeInv, ResultInv, EmptyBuffer, Buffer
<1> QED
  BY <1>2, <1>3, <1>4 DEF TypeInv

LEMMA DecodeTypeInv == TypeInv /\ Decode => TypeInv'
<1> SUFFICES ASSUME TypeInv, Decode PROVE TypeInv'
  OBVIOUS
<1> USE DEF Decode
<1>1. stack \in Seq(StackLayer) /\ MaxCalls \in Nat
  BY StackAssumption DEF TypeInv, BoundInv
<1>2. CursorInv'
  BY <1>1 DEF TypeInv, CursorInv, FirstPass
<1>3. BoundInv' /\ ContextInv'
  BY DEF TypeInv, BoundInv, ContextInv
<1>4. input' \in Buffer
  <2>1. frame \in Buffer
    BY DEF TypeInv, ResultInv
  <2>2. \A n \in FrameCuts : Truncate(frame, n) \in Buffer
    BY <2>1, StackAssumption DEF Truncate, Buffer
  <2> QED
    BY <2>2, StackAssumption
<1>5. ResultInv'
  BY <1>4 DEF TypeInv, ResultInv
<1> QED
  BY <1>2, <1>3, <1>5 DEF TypeInv

\* A bound layer and its context.
LEMMA LayerFacts ==
  ASSUME TypeInv, NEW l \in 1 .. Len(stack)
  PROVE  /\ stack[l].iface.found \in BOOLEAN /\ stack[l].iface.refs \in Seq(Refs)
         /\ FromDatabase(stack[l].iface) /\ (stack[l].bypass => stack[l].logic = NoText)
         /\ ctx[l] \in Seq(Field) /\ seen[l] \in Word
         /\ FieldRefs(stack[l]) \in Seq(Refs) /\ AllLive(FieldRefs(stack[l]))
         /\ \A k \in 1 .. Len(FieldRefs(stack[l])) :
              /\ FieldRefs(stack[l])[k] \in Refs /\ Size(FieldRefs(stack[l])[k]) \in Nat \ {0}
              /\ FieldRefs(stack[l])[k] \in DOMAIN VarDb /\ VarDb[FieldRefs(stack[l])[k]] \in Var
              /\ ShortName[FieldRefs(stack[l])[k]] \in Names
         /\ ~stack[l].iface.found =>
              ctx[l] = <<>> /\ stack[l].iface.refs = <<>> /\ FieldRefs(stack[l]) = <<>>
<1>1. stack[l] \in StackLayer /\ (stack[l].bypass => stack[l].logic = NoText) /\ FromDatabase(stack[l].iface)
  BY DEF TypeInv, BoundInv
<1>2. \A y \in StackLayer : y.iface.found \in BOOLEAN /\ y.iface.refs \in Seq(Refs)
  BY DEF StackLayer, Ifaces
<1>3. stack[l].iface.found \in BOOLEAN /\ stack[l].iface.refs \in Seq(Refs)
  BY <1>1, <1>2
<1>4. ctx[l] \in Seq(Field) /\ seen[l] \in Word /\ (~stack[l].iface.found => ctx[l] = <<>>)
  <2>1. ctx \in Seq(Seq(Field)) /\ seen \in Seq(Word) /\ l \in 1 .. Len(ctx) /\ l \in 1 .. Len(seen)
    BY DEF TypeInv, ContextInv
  <2> QED
    BY <2>1 DEF TypeInv, ContextInv
<1>5. ~stack[l].iface.found => stack[l].iface.refs = <<>>
  BY <1>1 DEF FromDatabase
<1>6. ~stack[l].iface.found => FieldRefs(stack[l]) = <<>>
  BY <1>5, FilterEmpty DEF FieldRefs, FieldsOfInterface
<1>7. /\ FieldRefs(stack[l]) \in Seq(Refs) /\ AllLive(FieldRefs(stack[l]))
      /\ \A k \in 1 .. Len(FieldRefs(stack[l])) :
              /\ FieldRefs(stack[l])[k] \in Refs /\ Size(FieldRefs(stack[l])[k]) \in Nat \ {0}
              /\ FieldRefs(stack[l])[k] \in DOMAIN VarDb /\ VarDb[FieldRefs(stack[l])[k]] \in Var
              /\ ShortName[FieldRefs(stack[l])[k]] \in Names
  BY <1>3, InterfaceFacts DEF FieldRefs
<1> QED
  BY <1>1, <1>3, <1>4, <1>5, <1>6, <1>7

\* onEncode changes only the values that the module derives.
LEMMA OnEncodeKeeps ==
  ASSUME TypeInv, NEW l \in 1 .. Len(stack)
  PROVE  Keeps(ctx[l], OnEncode(l), Derived(stack[l].logic))
<1>1. ctx[l] \in Seq(Field)
  BY LayerFacts
<1>2. CASE stack[l].logic = "ethernet_mac_frame"
  BY <1>1, <1>2, EthernetFacts DEF OnEncode, Derived
<1>3. CASE stack[l].logic = "avtp_control"
  BY <1>1, <1>3, AvtpFacts DEF OnEncode, Derived
<1>4. CASE stack[l].logic = "aecp_aem"
  BY <1>1, <1>4, AecpFacts DEF OnEncode, Derived
<1>5. CASE stack[l].logic \notin {"ethernet_mac_frame", "avtp_control", "aecp_aem"}
  <2>1. OnEncode(l) = ctx[l]
    BY <1>5 DEF OnEncode
  <2> QED
    BY <1>1, <2>1, KeepsSelf
<1> QED
  BY <1>2, <1>3, <1>4, <1>5

\* A context is replaced by fields; a layer without an interface has none.
LEMMA ContextUpdate ==
  ASSUME TypeInv, stack' = stack, level \in 1 .. Len(stack), NEW c \in Seq(Field),
         ~stack[level].iface.found => c = <<>>,
         ctx' = [ctx EXCEPT ![level] = c], seen' \in Seq(Word), Len(seen') = Len(stack)
  PROVE  /\ ContextInv' /\ ctx'[level] = c
         /\ \A l \in 1 .. Len(stack) : l # level => ctx'[l] = ctx[l]
<1>1. ctx \in Seq(Seq(Field)) /\ Len(ctx) = Len(stack) /\ level \in 1 .. Len(ctx)
  BY DEF TypeInv, ContextInv
<1>2. /\ ctx' \in Seq(Seq(Field)) /\ Len(ctx') = Len(ctx)
      /\ \A l \in 1 .. Len(ctx) : ctx'[l] = IF l = level THEN c ELSE ctx[l]
  BY <1>1, ExceptSeq
<1>3. \A l \in 1 .. Len(stack) : ~stack[l].iface.found => ctx[l] = <<>>
  BY DEF TypeInv, ContextInv
<1> QED
  BY <1>1, <1>2, <1>3 DEF ContextInv

LEMMA PopulateTypeInv == TypeInv /\ Populate => TypeInv'
<1> SUFFICES ASSUME TypeInv, Populate PROVE TypeInv'
  OBVIOUS
<1> USE DEF Populate
<1>1. /\ Fixed /\ stage # "idle" /\ Advance("encode") /\ seen' = seen /\ rxOffset' = rxOffset
      /\ frame' = frame /\ made' = made /\ input' = input /\ back' = back
  BY DEF Fixed
<1>2. rxOffset' \in Nat
  BY <1>1 DEF TypeInv, CursorInv
<1>3. CursorInv' /\ level \in 1 .. Len(stack)
  BY <1>1, <1>2, AdvanceCursor
<1>4. BoundInv' /\ ResultInv'
  BY <1>1 DEF TypeInv, BoundInv, ResultInv, Fixed
<1>5. seen' \in Seq(Word) /\ Len(seen') = Len(stack)
  BY <1>1 DEF TypeInv, ContextInv
<1>6. ContextInv'
  <2>1. CASE ~stack[level].iface.found
    BY <1>1, <2>1 DEF TypeInv, ContextInv, Fixed
  <2>2. CASE stack[level].iface.found
    <3>1. PICK vs \in ValueChoices(FieldRefs(stack[level])) :
            ctx' = [ctx EXCEPT ![level] = PopulateContext(level, stack[level].iface, vs)]
      BY <2>2 DEF FieldRefs
    <3>2. vs \in Seq(Decoded)
      BY <1>3, LayerFacts, ChoicesFacts
    <3>3. PopulateContext(level, stack[level].iface, vs) \in Seq(Field)
      BY <3>2, PopulateType
    <3> QED
      BY <1>1, <1>3, <1>5, <2>2, <3>1, <3>3, ContextUpdate DEF Fixed
  <2> QED
    BY <2>1, <2>2
<1> QED
  BY <1>3, <1>4, <1>6 DEF TypeInv

LEMMA EncodeTypeInv == TypeInv /\ Encode => TypeInv'
<1> SUFFICES ASSUME TypeInv, Encode PROVE TypeInv'
  OBVIOUS
<1> USE DEF Encode
<1>1. /\ Fixed /\ stage # "idle" /\ Advance("pack") /\ seen' = seen /\ rxOffset' = rxOffset
      /\ frame' = frame /\ made' = made /\ input' = input /\ back' = back
      /\ ctx' = [ctx EXCEPT ![level] = OnEncode(level)]
  BY DEF Fixed
<1>2. rxOffset' \in Nat
  BY <1>1 DEF TypeInv, CursorInv
<1>3. CursorInv' /\ level \in 1 .. Len(stack)
  BY <1>1, <1>2, AdvanceCursor
<1>4. BoundInv' /\ ResultInv'
  BY <1>1 DEF TypeInv, BoundInv, ResultInv, Fixed
<1>5. seen' \in Seq(Word) /\ Len(seen') = Len(stack)
  BY <1>1 DEF TypeInv, ContextInv
<1>6. ContextInv'
  <2>1. OnEncode(level) \in Seq(Field) /\ Len(OnEncode(level)) = Len(ctx[level])
    BY <1>3, OnEncodeKeeps DEF Keeps, SameShape
  <2>2. ~stack[level].iface.found => OnEncode(level) = <<>>
    BY <1>3, <2>1, LayerFacts
  <2> QED
    BY <1>1, <1>3, <1>5, <2>1, <2>2, ContextUpdate DEF Fixed
<1> QED
  BY <1>3, <1>4, <1>6 DEF TypeInv

LEMMA ConcatType ==
  ASSUME NEW a \in Buffer, NEW b \in Buffer PROVE Concat(a, b) \in Buffer
<1>1. a.size \in Nat /\ b.size \in Nat /\ a.ones \subseteq Nat /\ b.ones \subseteq Nat
  BY DEF Buffer
<1>2. {8 * a.size + p : p \in b.ones} \subseteq Nat
  BY <1>1
<1> QED
  BY <1>1, <1>2 DEF Concat, Buffer

LEMMA PackTypeInv == TypeInv /\ Pack => TypeInv'
<1> SUFFICES ASSUME TypeInv, Pack PROVE TypeInv'
  OBVIOUS
<1> USE DEF Pack
<1> DEFINE b == PackBytes(ctx[level])
           e == [bytes |-> b, fields |-> ctx[level]]
<1>1. /\ Fixed /\ stage # "idle" /\ Advance("idle") /\ seen' = seen /\ rxOffset' = rxOffset
      /\ input' = input /\ back' = back /\ ctx' = ctx
      /\ frame' = Concat(frame, b) /\ made' = Append(made, e)
  BY DEF Fixed
<1>2. rxOffset' \in Nat
  BY <1>1 DEF TypeInv, CursorInv
<1>3. CursorInv' /\ level \in 1 .. Len(stack)
  BY <1>1, <1>2, AdvanceCursor
<1>4. BoundInv' /\ ContextInv'
  BY <1>1 DEF TypeInv, BoundInv, ContextInv, Fixed
<1>5. ctx[level] \in Seq(Field) /\ b \in Buffer
  BY <1>3, LayerFacts, PackFacts
<1>6. ResultInv'
  <2>1. e \in [bytes : Buffer, fields : Seq(Field)]
    BY <1>5
  <2> HIDE DEF e, b
  <2>2. /\ frame \in Buffer /\ input \in Buffer
        /\ made \in Seq([bytes : Buffer, fields : Seq(Field)])
        /\ back \in Seq([bytes : Buffer, fields : Seq(Decoded)])
    BY DEF TypeInv, ResultInv
  <2>3. Concat(frame, b) \in Buffer
    BY <1>5, <2>2, ConcatType
  <2>4. Append(made, e) \in Seq([bytes : Buffer, fields : Seq(Field)])
    BY <2>1, <2>2
  <2> QED
    BY <1>1, <2>2, <2>3, <2>4 DEF ResultInv
<1> QED
  BY <1>3, <1>4, <1>6 DEF TypeInv

LEMMA DecodeLevelTypeInv == TypeInv /\ DecodeLevel => TypeInv'
<1> SUFFICES ASSUME TypeInv, DecodeLevel PROVE TypeInv'
  OBVIOUS
<1> USE DEF DecodeLevel
<1> DEFINE iface == stack[level].iface
           refs == FieldsOfInterface(iface)
           fields == DecodedFields(refs, rxOffset)
           context == PopulateContext(level, iface, fields)
           kept == Remembered(level)
           B == [bytes : Buffer, fields : Seq(Decoded)]
<1>1. /\ Fixed /\ stage # "idle" /\ Advance("idle") /\ frame' = frame /\ made' = made /\ input' = input
  BY DEF Fixed
<1>2. /\ rxOffset \in Nat /\ level \in 1 .. Len(stack) /\ back \in Seq(B) /\ input \in Buffer
      /\ frame \in Buffer /\ made \in Seq([bytes : Buffer, fields : Seq(Field)])
      /\ seen \in Seq(Word) /\ Len(seen) = Len(stack) /\ Len(stack) \in Nat
  BY <1>1 DEF TypeInv, CursorInv, BoundInv, ContextInv, ResultInv
<1>3. iface.refs \in Seq(Refs) /\ refs \in Seq(Refs)
  BY <1>2, LayerFacts DEF FieldRefs
<1>4. BoundInv'
  BY <1>1 DEF TypeInv, BoundInv, Fixed
<1>5. CASE ~iface.found
  <2>1. /\ back' = Append(back, [bytes |-> EmptyBuffer, fields |-> <<>>])
        /\ ctx' = ctx /\ rxOffset' = rxOffset /\ seen' = seen
    BY <1>5
  <2>2. [bytes |-> EmptyBuffer, fields |-> <<>>] \in B
    BY DEF EmptyBuffer, Buffer
  <2>3. back' \in Seq(B)
    <3> HIDE DEF B
    <3> QED
      BY <1>2, <2>1, <2>2
  <2>4. CursorInv'
    BY <1>1, <1>2, <2>1, AdvanceCursor
  <2>5. ContextInv'
    BY <1>1, <2>1 DEF TypeInv, ContextInv, Fixed
  <2>6. ResultInv'
    BY <1>1, <1>2, <2>3 DEF ResultInv
  <2> QED
    BY <1>4, <2>4, <2>5, <2>6 DEF TypeInv
<1>6. CASE iface.found
  <2>1. /\ back' = Append(back, [bytes |-> SliceOf(refs), fields |-> fields])
        /\ rxOffset' = OffsetAfter(refs) /\ ctx' = [ctx EXCEPT ![level] = context]
        /\ seen' = IF kept # NoText /\ HasField(context, kept)
                     THEN [seen EXCEPT ![level] = GetValue(context, kept)] ELSE seen
    BY <1>6
  <2>2. fields \in Seq(Decoded)
    BY <1>3, DecodedFieldsFacts
  <2>3. OffsetAfter(refs) \in Nat
    BY <1>2, <1>3, SizesFacts DEF OffsetAfter
  <2>4. SliceOf(refs) \in Buffer
    <3> DEFINE end == IF OffsetAfter(refs) < input.size THEN OffsetAfter(refs) ELSE input.size
    <3>1. input.size \in Nat
      BY <1>2 DEF Buffer
    <3>2. end \in Nat
      BY <2>3, <3>1
    <3>3. SliceOf(refs) = IF rxOffset < end THEN Slice(input, rxOffset, end) ELSE EmptyBuffer
      BY DEF SliceOf
    <3> HIDE DEF end
    <3>4. rxOffset < end => Slice(input, rxOffset, end) \in Buffer
      BY <1>2, <3>2, SliceType
    <3> QED
      BY <3>3, <3>4 DEF EmptyBuffer, Buffer
  <2>5. context \in Seq(Field)
    <3> HIDE DEF fields
    <3> QED
      BY <2>2, PopulateType
  <2>6. seen' \in Seq(Word) /\ Len(seen') = Len(stack)
    <3> HIDE DEF context, kept
    <3>1. HasField(context, kept) => GetValue(context, kept) \in Word
      <4>1. HasField(context, kept) => First(Having(context, kept)) \in 1 .. Len(context)
        BY <2>5, HavingFacts
      <4>2. \A k \in 1 .. Len(context) : context[k].value \in Word
        BY <2>5, FieldFacts
      <4> QED
        BY <4>1, <4>2 DEF GetValue
    <3> DEFINE v == GetValue(context, kept)
    <3> HIDE DEF v
    <3>2. v \in Word => [seen EXCEPT ![level] = v] \in Seq(Word) /\ Len([seen EXCEPT ![level] = v]) = Len(seen)
      BY <1>2
    <3> QED
      BY <1>2, <2>1, <3>1, <3>2 DEF v
  <2>7. back' \in Seq(B)
    <3> DEFINE e == [bytes |-> SliceOf(refs), fields |-> fields]
    <3>1. e \in B
      <4> HIDE DEF fields, refs
      <4> QED
        BY <2>2, <2>4
    <3> HIDE DEF e, B
    <3> QED
      BY <1>2, <2>1, <3>1 DEF e
  <2> HIDE DEF context, fields, refs
  <2>8. CursorInv'
    BY <1>1, <2>1, <2>3, AdvanceCursor
  <2>9. ContextInv'
    BY <1>1, <1>2, <1>6, <2>1, <2>5, <2>6, ContextUpdate DEF Fixed
  <2>10. ResultInv'
    BY <1>1, <1>2, <2>7 DEF ResultInv
  <2> QED
    BY <1>4, <2>8, <2>9, <2>10 DEF TypeInv
<1> QED
  BY <1>5, <1>6

LEMMA StutterTypeInv == TypeInv /\ UNCHANGED stackVars => TypeInv'
BY DEF TypeInv, CursorInv, BoundInv, ContextInv, ResultInv, stackVars

LEMMA NextTypeInv == TypeInv /\ [StackNext]_stackVars => TypeInv'
BY LoadTypeInv, GenerateTypeInv, PopulateTypeInv, EncodeTypeInv, PackTypeInv, DecodeTypeInv,
   DecodeLevelTypeInv, StutterTypeInv DEF StackNext

LEMMA TypeInvariance == StackSpec => []TypeInv
<1>1. StackInit => TypeInv
  BY InitTypeInv
<1>2. TypeInv /\ [StackNext]_stackVars => TypeInv'
  BY NextTypeInv
<1> QED
  BY <1>1, <1>2, PTL DEF StackSpec

\* The layers that were packed, and those that came back.
LEMMA MadeFacts ==
  ASSUME TypeInv
  PROVE  /\ Len(made) \in Nat /\ DOMAIN made = 1 .. Len(made)
         /\ \A l \in 1 .. Len(made) : made[l].bytes \in Buffer /\ made[l].fields \in Seq(Field)
<1> DEFINE R == [bytes : Buffer, fields : Seq(Field)]
<1>1. made \in Seq(R)
  BY DEF TypeInv, ResultInv
<1>2. \A x \in R : x.bytes \in Buffer /\ x.fields \in Seq(Field)
  OBVIOUS
<1> HIDE DEF R
<1> QED
  BY <1>1, <1>2

LEMMA BackFacts ==
  ASSUME TypeInv
  PROVE  /\ Len(back) \in Nat /\ DOMAIN back = 1 .. Len(back)
         /\ \A l \in 1 .. Len(back) : back[l].bytes \in Buffer /\ back[l].fields \in Seq(Decoded)
<1> DEFINE R == [bytes : Buffer, fields : Seq(Decoded)]
<1>1. back \in Seq(R)
  BY DEF TypeInv, ResultInv
<1>2. \A x \in R : x.bytes \in Buffer /\ x.fields \in Seq(Decoded)
  OBVIOUS
<1> HIDE DEF R
<1> QED
  BY <1>1, <1>2

LEMMA TypeInvTypes == TypeInv => StackTypeOK
<1> SUFFICES ASSUME TypeInv PROVE StackTypeOK
  OBVIOUS
<1>1. /\ stage \in {"idle", "populate", "encode", "pack", "decode"}
      /\ calls \in 0 .. MaxCalls /\ rxOffset \in Nat
      /\ loadErr # "SUCCESS" => stack = <<>> /\ stage = "idle"
  BY DEF TypeInv, CursorInv
<1>2. level \in 1 .. Len(stack) + 1
  <2>1. Len(stack) \in Nat
    BY DEF TypeInv, BoundInv
  <2> QED
    BY <2>1 DEF TypeInv, CursorInv
<1>3. Len(ctx) = Len(stack) /\ Len(seen) = Len(stack) /\ DOMAIN ctx = 1 .. Len(stack)
  BY DEF TypeInv, ContextInv
<1>4. ASSUME NEW l \in DOMAIN ctx
      PROVE  IsFields(ctx[l]) /\ seen[l] \in Word /\ \A k \in DOMAIN ctx[l] : ctx[l][k].bits \in Nat \ {0}
  <2>1. ctx[l] \in Seq(Field) /\ seen[l] \in Word
    BY <1>3, LayerFacts
  <2>2. \A k \in DOMAIN ctx[l] : ctx[l][k] \in Field
    BY <2>1
  <2> QED
    BY <2>1, <2>2, FieldFacts DEF IsFields
<1>5. frame \in Buffer /\ input \in Buffer
  BY DEF TypeInv, ResultInv
<1>6. ASSUME NEW l \in DOMAIN made PROVE made[l].bytes \in Buffer /\ IsFields(made[l].fields)
  <2>2. made[l].bytes \in Buffer /\ made[l].fields \in Seq(Field)
    BY MadeFacts
  <2>3. \A k \in DOMAIN made[l].fields : made[l].fields[k] \in Field
    BY <2>2
  <2> QED
    BY <2>2, <2>3, FieldFacts DEF IsFields
<1>7. ASSUME NEW l \in DOMAIN back PROVE back[l].bytes \in Buffer /\ IsFields(back[l].fields)
  <2>2. back[l].bytes \in Buffer /\ back[l].fields \in Seq(Decoded)
    BY BackFacts
  <2>3. \A k \in DOMAIN back[l].fields : back[l].fields[k] \in Decoded
    BY <2>2
  <2> QED
    BY <2>2, <2>3, DecodedFacts DEF IsFields
<1> QED
  BY <1>1, <1>2, <1>3, <1>4, <1>5, <1>6, <1>7 DEF StackTypeOK

\* StackTypeOK holds of every run of loads, generate and decode calls: the
\* contexts of a reused stack always hold fields of a width, there is a context
\* per layer, and no stack survives a failed build.
THEOREM StackTypes == StackSpec => []StackTypeOK
<1>1. StackSpec => []TypeInv
  BY TypeInvariance
<1>2. TypeInv => StackTypeOK
  BY TypeInvTypes
<1> QED
  BY <1>1, <1>2, PTL
-----------------------------------------------------------------------------
(* generateStack *)

\* The bytes above a layer depend on the sizes of the contexts only.
LEMMA AboveSame ==
  ASSUME NEW c \in Seq(Seq(Field)), NEW d \in Seq(Seq(Field)), Len(d) = Len(c),
         \A l \in 1 .. Len(c) : ByteSize(d[l]) = ByteSize(c[l])
  PROVE  \A l : Above(d, l) = Above(c, l)
<1>1. ASSUME NEW e \in Seq(Seq(Field))
      PROVE  /\ ByteSizes(e) \in Seq(Nat) /\ Len(ByteSizes(e)) = Len(e)
             /\ \A l \in 1 .. Len(e) : ByteSizes(e)[l] = ByteSize(e[l])
  <2>1. Len(e) \in Nat /\ DOMAIN e = 1 .. Len(e) /\ \A l \in 1 .. Len(e) : e[l] \in Seq(Field)
    OBVIOUS
  <2>2. \A l \in 1 .. Len(e) : ByteSize(e[l]) \in Nat
    BY <2>1, WidthsFacts
  <2>3. ByteSizes(e) \in [1 .. Len(e) -> Nat] /\ \A l \in 1 .. Len(e) : ByteSizes(e)[l] = ByteSize(e[l])
    BY <2>1, <2>2 DEF ByteSizes
  <2> QED
    BY <2>1, <2>3, SeqOfFunction
<1> DEFINE s == ByteSizes(c)
           t == ByteSizes(d)
<1>2. s \in Seq(Nat) /\ Len(s) = Len(c) /\ \A l \in 1 .. Len(c) : s[l] = ByteSize(c[l])
  BY <1>1
<1>3. t \in Seq(Nat) /\ Len(t) = Len(d) /\ \A l \in 1 .. Len(d) : t[l] = ByteSize(d[l])
  BY <1>1
<1> HIDE DEF s, t
<1>4. Len(t) = Len(s) /\ \A l \in 1 .. Len(t) : t[l] = s[l]
  BY <1>2, <1>3
<1>5. t = s
  BY <1>2, <1>3, <1>4, SeqEqual
<1> QED
  BY <1>5 DEF Above, s, t

\* After its module's onEncode, a layer is settled.
LEMMA EncodeSettled ==
  ASSUME TypeInv, NEW l \in 1 .. Len(stack),
         \A k \in 1 .. Len(ctx[l]) : Chosen(stack[l], ctx[l], k)
  PROVE  Settled(stack[l], SubtypeForUpper(l), Above(ctx, l), OnEncode(l))
<1> DEFINE y == stack[l]
           f == ctx[l]
           r == OnEncode(l)
<1>1. f \in Seq(Field) /\ (y.bypass => y.logic = NoText)
  BY LayerFacts
<1>2. Keeps(f, r, Derived(y.logic))
  BY OnEncodeKeeps
<1>3. /\ r \in Seq(Field) /\ Len(r) = Len(f)
      /\ \A k \in 1 .. Len(f) : r[k].name = f[k].name
      /\ \A k \in 1 .. Len(f) : r[k].value = f[k].value \/ f[k].name \in Derived(y.logic)
  BY <1>2 DEF Keeps, SameShape
<1>4. y.bypass => Derived(y.logic) = {}
  BY <1>1, NoTextFacts DEF Derived
<1>5. ASSUME NEW k \in 1 .. Len(r)
      PROVE  (~y.bypass /\ r[k].name \in Derived(y.logic)) \/ Chosen(y, r, k)
  <2>1. k \in 1 .. Len(f) /\ Chosen(y, f, k)
    BY <1>3
  <2> HIDE DEF y, f, r
  <2> QED
    BY <1>3, <1>4, <2>1 DEF Chosen
<1>6. ASSUME y.logic = "aecp_aem"
      PROVE  /\ HasField(r, "control_data_length") =>
                  GetValue(r, "control_data_length")
                    = ToWord(BytesAfter(r, "control_data_length") + Above(ctx, l))
             /\ HasField(r, "message_type") /\ HasField(r, "status") =>
                  0 \in GetValue(r, "message_type") \/ GetValue(r, "status") = {}
  <2>1. r = AecpOnEncode(l, f)
    BY <1>6 DEF OnEncode
  <2>2. BytesAbove(l) = Above(ctx, l)
    BY DEF BytesAbove, Above
  <2> HIDE DEF r, f
  <2> QED
    BY <1>1, <2>1, <2>2, AecpFacts
<1>7. ASSUME y.logic = "avtp_control", HasField(r, "subtype")
      PROVE  SubtypeForUpper(l) \in {{}, GetValue(r, "subtype")}
  <2>1. r = AvtpOnEncode(l, f)
    BY <1>7 DEF OnEncode
  <2> HIDE DEF r, f
  <2> QED
    BY <1>1, <1>7, <2>1, AvtpFacts
<1>8. ASSUME y.logic = "ethernet_mac_frame", HasField(r, "ethertype")
      PROVE  LET k == First(Having(r, "ethertype")) IN
             r[k].value = kEthertype1722 \/ (r[k].value # {} /\ Chosen(y, r, k))
  <2> DEFINE k == First(Having(r, "ethertype"))
  <2>1. r = EthernetOnEncode(f)
    BY <1>8 DEF OnEncode
  <2>2. HasField(f, "ethertype") /\ First(Having(f, "ethertype")) = k /\ k \in 1 .. Len(f)
    <3> HIDE DEF r, f, y
    <3>1. HasField(f, "ethertype")
      BY <1>1, <1>2, <1>8, KeepsHas
    <3> QED
      BY <1>1, <1>2, <3>1, KeepsValue, HavingFacts
  <2>3. Chosen(y, f, k)
    BY <2>2
  <2>4. GetValue(r, "ethertype") = r[k].value /\ GetValue(f, "ethertype") = f[k].value
    BY <2>2 DEF GetValue
  <2> HIDE DEF r, f, y, k
  <2>5. r[k].value = kEthertype1722 \/ (r[k].value # {} /\ r[k].value = f[k].value)
    BY <1>1, <1>8, <2>1, <2>4, EthernetFacts
  <2>6. r[k].value = kEthertype1722 \/ (r[k].value # {} /\ Chosen(y, r, k))
    BY <2>3, <2>5 DEF Chosen
  <2> QED
    BY <2>6 DEF k
<1> HIDE DEF r, y, f
<1>9. Settled(y, SubtypeForUpper(l), Above(ctx, l), r)
  BY <1>5, <1>6, <1>7, <1>8 DEF Settled
<1> QED
  BY <1>9 DEF r, y

\* Layers that have been packed.
Packed == [bytes : Buffer, fields : Seq(Field)]

\* The sizes of packed layers.
LEMMA SizesOfFacts ==
  ASSUME NEW packed \in Seq(Packed)
  PROVE  /\ SizesOf(packed) \in Seq(Nat) /\ Len(SizesOf(packed)) = Len(packed)
         /\ \A l \in 1 .. Len(packed) : /\ SizesOf(packed)[l] = packed[l].bytes.size
                                        /\ packed[l].bytes \in Buffer /\ packed[l].fields \in Seq(Field)
                                        /\ packed[l].bytes.size \in Nat
<1>1. \A x \in Packed : x.bytes \in Buffer /\ x.fields \in Seq(Field)
  BY DEF Packed
<1>2. \A b \in Buffer : b.size \in Nat
  BY DEF Buffer
<1>3. Len(packed) \in Nat /\ \A l \in 1 .. Len(packed) : packed[l] \in Packed
  OBVIOUS
<1>4. \A l \in 1 .. Len(packed) : /\ packed[l].bytes \in Buffer /\ packed[l].fields \in Seq(Field)
                                  /\ packed[l].bytes.size \in Nat
  BY <1>1, <1>2, <1>3
<1>5. /\ SizesOf(packed) \in [1 .. Len(packed) -> Nat]
      /\ \A l \in 1 .. Len(packed) : SizesOf(packed)[l] = packed[l].bytes.size
  BY <1>4 DEF SizesOf
<1> QED
  BY <1>3, <1>4, <1>5, SeqOfFunction

\* No layer, no byte.
LEMMA SlicesEmpty == Slices(EmptyBuffer, <<>>)
<1>1. <<>> \in Seq(Packed) /\ Len(<<>>) = 0
  OBVIOUS
<1>2. SizesOf(<<>>) \in Seq(Nat) /\ Len(SizesOf(<<>>)) = 0
  BY <1>1, SizesOfFacts
<1>3. Sum(SizesOf(<<>>)) = 0
  BY <1>2, SumUpToDef DEF Sum
<1> QED
  BY <1>1, <1>3 DEF Slices, EmptyBuffer

\* Where layer l begins, and that it ends within the frame.
LEMMA StartFacts ==
  ASSUME NEW packed \in Seq(Packed), NEW l \in 1 .. Len(packed)
  PROVE  /\ StartOf(packed, l) \in Nat /\ packed[l].bytes.size \in Nat
         /\ StartOf(packed, l + 1) = StartOf(packed, l) + packed[l].bytes.size
         /\ StartOf(packed, l) + packed[l].bytes.size <= Sum(SizesOf(packed))
         /\ Sum(SizesOf(packed)) \in Nat
<1> DEFINE s == SizesOf(packed)
<1>1. s \in Seq(Nat) /\ l \in 1 .. Len(s) /\ s[l] = packed[l].bytes.size
  BY SizesOfFacts
<1>2. (l + 1) - 1 = l
  OBVIOUS
<1>3. /\ SumUpTo(s)[l - 1] \in Nat /\ s[l] \in Nat /\ SumUpTo(s)[l] = SumUpTo(s)[l - 1] + s[l]
      /\ SumUpTo(s)[l - 1] + s[l] <= Sum(s)
  <2> HIDE DEF s
  <2> QED
    BY <1>1, SumUpToGrows
<1>4. Sum(s) \in Nat
  BY <1>1, SumZero
<1> QED
  BY <1>1, <1>2, <1>3, <1>4 DEF StartOf

\* A layer packed and inserted at the end of the frame.
LEMMA SlicesAppend ==
  ASSUME NEW packed \in Seq(Packed), NEW e \in Packed, NEW buf \in Buffer, Slices(buf, packed),
         \A p \in e.bytes.ones : p < 8 * e.bytes.size
  PROVE  Slices(Concat(buf, e.bytes), Append(packed, e))
<1> DEFINE s == SizesOf(packed)
           q == Append(packed, e)
           t == SizesOf(q)
           b == e.bytes
           c == Concat(buf, b)
           N == Len(packed)
<1>1. N \in Nat /\ q \in Seq(Packed) /\ Len(q) = N + 1 /\ q[N + 1] = e /\ \A l \in 1 .. N : q[l] = packed[l]
  OBVIOUS
<1>2. b \in Buffer /\ b.size \in Nat /\ buf.size \in Nat
  BY DEF Packed, Buffer
<1>3. s \in Seq(Nat) /\ Len(s) = N /\ \A l \in 1 .. N : s[l] = packed[l].bytes.size
  BY SizesOfFacts
<1>4. t = Append(s, b.size)
  <2>1. t \in Seq(Nat) /\ Len(t) = N + 1 /\ \A l \in 1 .. N + 1 : t[l] = q[l].bytes.size
    <3> HIDE DEF q
    <3> QED
      BY <1>1, SizesOfFacts
  <2> HIDE DEF s, t, q, N
  <2>2. Append(s, b.size) \in Seq(Nat) /\ Len(Append(s, b.size)) = N + 1
        /\ Append(s, b.size)[N + 1] = b.size /\ \A l \in 1 .. N : Append(s, b.size)[l] = s[l]
    BY <1>2, <1>3
  <2>3. ASSUME NEW l \in 1 .. N + 1 PROVE t[l] = Append(s, b.size)[l]
    <3>1. CASE l = N + 1
      BY <1>1, <2>1, <2>2, <3>1
    <3>2. CASE l \in 1 .. N
      BY <1>1, <1>3, <2>1, <2>2, <3>2
    <3>3. N \in Nat
      BY <1>1
    <3>4. l = N + 1 \/ l \in 1 .. N
      BY <3>3
    <3> QED
      BY <3>1, <3>2, <3>4
  <2> QED
    BY <2>1, <2>2, <2>3, SeqEqual
<1>5. /\ Sum(t) = Sum(s) + b.size
      /\ \A k \in 0 .. N : SumUpTo(t)[k] = SumUpTo(s)[k]
  <2> HIDE DEF s, t
  <2> QED
    BY <1>2, <1>3, <1>4, SumAppend
<1>6. buf.size = Sum(s) /\ \A p \in buf.ones : p < 8 * buf.size
  BY DEF Slices
<1>7. /\ c.size = buf.size + b.size
      /\ \A p \in c.ones : p < 8 * c.size
      /\ \A p \in Nat : p < 8 * buf.size => (p \in c.ones <=> p \in buf.ones)
      /\ \A p \in Nat : 8 * buf.size + p \in c.ones <=> p \in b.ones
  BY <1>2, <1>6, ConcatSlices
<1>8. ASSUME NEW l \in 1 .. N PROVE StartOf(q, l) = StartOf(packed, l)
  <2>1. l - 1 \in 0 .. N
    BY <1>1
  <2> QED
    BY <1>5, <2>1 DEF StartOf
<1>9. StartOf(q, N + 1) = buf.size
  <2>1. (N + 1) - 1 = N /\ N \in 0 .. N
    BY <1>1
  <2>2. SumUpTo(t)[N] = SumUpTo(s)[N]
    BY <1>5, <2>1
  <2>3. Sum(s) = SumUpTo(s)[N]
    BY <1>3 DEF Sum
  <2> QED
    BY <1>6, <2>1, <2>2, <2>3 DEF StartOf
<1>10. ASSUME NEW l \in 1 .. N + 1, NEW p \in 0 .. 8 * q[l].bytes.size - 1
       PROVE  8 * StartOf(q, l) + p \in c.ones <=> p \in q[l].bytes.ones
  <2>1. CASE l = N + 1
    <3>1. p \in Nat /\ q[l] = e /\ StartOf(q, l) = buf.size
      BY <1>1, <1>9, <2>1
    <3> HIDE DEF c, q
    <3> QED
      BY <1>7, <3>1
  <2>2. CASE l \in 1 .. N
    <3> DEFINE m == StartOf(packed, l)
               z == packed[l].bytes.size
    <3>1. q[l] = packed[l] /\ StartOf(q, l) = m
      BY <1>1, <1>8, <2>2
    <3>2. m \in Nat /\ z \in Nat /\ m + z <= buf.size
      BY <1>6, <2>2, StartFacts
    <3>3. p \in 0 .. 8 * z - 1
      BY <3>1
    <3>4. 8 * m + p \in buf.ones <=> p \in packed[l].bytes.ones
      BY <2>2, <3>3 DEF Slices
    <3> HIDE DEF m, z, c, q
    <3>5. 8 * m + p \in Nat /\ 8 * m + p < 8 * buf.size
      BY <1>2, <3>2, <3>3
    <3>6. 8 * m + p \in c.ones <=> 8 * m + p \in buf.ones
      BY <1>7, <3>5
    <3> QED
      BY <3>1, <3>4, <3>6
  <2> QED
    BY <1>1, <2>1, <2>2
<1>11. c.size = Sum(t)
  BY <1>5, <1>6, <1>7
<1> HIDE DEF c, q, t
<1>12. Slices(c, q)
  BY <1>1, <1>7, <1>10, <1>11 DEF Slices, t
<1> QED
  BY <1>12 DEF c, q
-----------------------------------------------------------------------------
(* decodeStack *)

\* A layer has the size of its layout, and its bits are within it.
LEMMA PackedLayer ==
  ASSUME NEW y, FieldRefs(y) \in Seq(Refs), NEW fields \in Seq(Field), Layout(y, fields)
  PROVE  /\ Sizes(FieldRefs(y)) = Widths(fields)
         /\ PackBytes(fields) \in Buffer /\ PackBytes(fields).size = BytesOf(FieldRefs(y))
         /\ BitLength(fields) \in Nat /\ BitLength(fields) <= 8 * PackBytes(fields).size
         /\ \A p \in PackBytes(fields).ones : p < 8 * PackBytes(fields).size
<1> DEFINE refs == FieldRefs(y)
           s == Sizes(refs)
           w == Widths(fields)
           b == PackBytes(fields)
<1>1. s \in Seq(Nat) /\ Len(s) = Len(refs) /\ \A k \in 1 .. Len(refs) : s[k] = Size(refs[k])
  BY SizesFacts
<1>2. w \in Seq(Nat) /\ Len(w) = Len(fields) /\ \A k \in 1 .. Len(fields) : w[k] = fields[k].bits
  BY WidthsFacts
<1>3. Len(fields) = Len(refs) /\ \A k \in 1 .. Len(fields) : fields[k].bits = Size(refs[k])
  BY DEF Layout
<1>4. s = w
  <2> HIDE DEF s, w, refs
  <2>1. Len(s) = Len(w) /\ \A k \in 1 .. Len(s) : s[k] = w[k]
    BY <1>1, <1>2, <1>3
  <2> QED
    BY <1>1, <1>2, <2>1, SeqEqual
<1>5. b \in Buffer /\ b.size = ByteSize(fields) /\ \A p \in b.ones : p < BitLength(fields)
  BY PackFacts
<1>6. BitLength(fields) \in Nat
  BY WidthsFacts
<1>7. ByteSize(fields) = CeilBytes(BitLength(fields)) /\ BytesOf(refs) = CeilBytes(BitLength(fields))
  BY <1>4 DEF ByteSize, BytesOf, BitLength
<1> DEFINE n == BitLength(fields)
<1>8. n <= 8 * CeilBytes(n) /\ CeilBytes(n) \in Nat
  <2> HIDE DEF n
  <2> QED
    BY <1>6 DEF CeilBytes, n
<1>9. b.ones \subseteq Nat
  BY <1>5 DEF Buffer
<1> HIDE DEF n, b, refs
<1>10. \A p \in b.ones : p < 8 * b.size
  BY <1>5, <1>6, <1>7, <1>8, <1>9 DEF n
<1> QED
  BY <1>4, <1>5, <1>6, <1>7, <1>8, <1>10 DEF n, b, refs

\* A field that was packed is read back, as far as its width goes.
LEMMA FieldReadBack ==
  ASSUME NEW buf \in Buffer, NEW packed \in Seq(Packed), Slices(buf, packed), NEW l \in 1 .. Len(packed),
         packed[l].bytes = PackBytes(packed[l].fields), NEW k \in 1 .. Len(packed[l].fields)
  PROVE  LET f == packed[l].fields IN
         ExtractBits(buf, 8 * StartOf(packed, l) + SumUpTo(Widths(f))[k - 1], f[k].bits)
           = Low(f[k].value, f[k].bits)
<1> DEFINE f == packed[l].fields
           w == Widths(f)
           o == SumUpTo(w)[k - 1]
           n == f[k].bits
           v == f[k].value
           m == StartOf(packed, l)
           z == packed[l].bytes.size
           ones == packed[l].bytes.ones
<1>1. f \in Seq(Field) /\ z \in Nat
  BY SizesOfFacts
<1>2. f[k] \in Field
  BY <1>1
<1>3. n \in Nat /\ v \in Word
  BY <1>2, FieldFacts
<1>4. o \in Nat /\ o + n <= BitLength(f)
  <2>1. w \in Seq(Nat) /\ Len(w) = Len(f) /\ w[k] = n
    BY <1>1, WidthsFacts
  <2>2. BitLength(f) = Sum(w)
    BY DEF BitLength
  <2>3. k \in 1 .. Len(w)
    BY <2>1
  <2> HIDE DEF w, n
  <2> QED
    BY <2>1, <2>2, <2>3, SumUpToGrows
<1>5. BitLength(f) <= 8 * z /\ BitLength(f) \in Nat
  <2>1. z = CeilBytes(BitLength(f))
    BY <1>1, PackFacts DEF ByteSize
  <2>2. BitLength(f) \in Nat
    BY <1>1, WidthsFacts
  <2> DEFINE bl == BitLength(f)
  <2> HIDE DEF bl, z
  <2>3. bl \in Nat /\ z = CeilBytes(bl)
    BY <2>1, <2>2 DEF bl
  <2>4. bl <= 8 * z
    BY <2>3 DEF CeilBytes
  <2> QED
    BY <2>2, <2>4 DEF bl
<1>6. m \in Nat /\ m + z <= buf.size /\ buf.size \in Nat
  <2>1. buf.size = Sum(SizesOf(packed)) /\ buf.size \in Nat
    BY DEF Slices, Buffer
  <2> QED
    BY <2>1, StartFacts
<1>7. \A i \in Nat : i < n => (o + (n - 1 - i) \in ones <=> i \in v)
  BY <1>1, PackFacts
<1>8. \A p \in 0 .. 8 * z - 1 : 8 * m + p \in buf.ones <=> p \in ones
  BY DEF Slices
<1> HIDE DEF f, w, o, n, v, m, z, ones
<1>9. ASSUME NEW i \in 0 .. WordBits - 1, i < n
      PROVE  (/\ (8 * m + o + (n - 1 - i)) \div 8 < buf.size
              /\ 8 * m + o + (n - 1 - i) \in buf.ones) <=> i \in v
  <2> DEFINE p == o + (n - 1 - i)
             q == 8 * m + o + (n - 1 - i)
  <2>1. i \in Nat
    BY WordBitsAssumption
  <2>2. o + n <= 8 * z
    BY <1>1, <1>3, <1>4, <1>5
  <2>3. p \in Nat /\ p < 8 * z
    BY <1>1, <1>3, <1>4, <1>9, <2>1, <2>2, BitWithin
  <2>4. q = 8 * m + p /\ q \in Nat /\ q < 8 * buf.size
    BY <1>1, <1>3, <1>4, <1>6, <1>9, <2>1, <2>3
  <2>5. p \in ones <=> i \in v
    BY <1>7, <1>9, <2>1
  <2> HIDE DEF p, q
  <2>6. q \div 8 < buf.size
    BY <1>6, <2>4
  <2>7. q \in buf.ones <=> p \in ones
    BY <1>1, <1>8, <2>3, <2>4
  <2>8. (q \div 8 < buf.size /\ q \in buf.ones) <=> i \in v
    BY <2>5, <2>6, <2>7
  <2> QED
    BY <2>8 DEF q
<1>10. ExtractBits(buf, 8 * m + o, n) = {i \in 0 .. WordBits - 1 : i < n /\ i \in v}
  BY <1>9 DEF ExtractBits
<1>11. Low(v, n) = {i \in 0 .. WordBits - 1 : i < n /\ i \in v}
  BY <1>3 DEF Low, Word
<1> QED
  BY <1>10, <1>11 DEF f, w, o, n, v, m

\* The slice of the frame that a layer used is the layer.
LEMMA SliceReadBack ==
  ASSUME NEW buf \in Buffer, NEW packed \in Seq(Packed), Slices(buf, packed), NEW l \in 1 .. Len(packed),
         \A p \in packed[l].bytes.ones : p < 8 * packed[l].bytes.size,
         NEW from, from = StartOf(packed, l), NEW end, end = from + packed[l].bytes.size
  PROVE  (IF from < end THEN Slice(buf, from, end) ELSE EmptyBuffer) = packed[l].bytes
<1> DEFINE b == packed[l].bytes
<1>1. b \in Buffer /\ b.size \in Nat /\ b.ones \subseteq Nat
  BY SizesOfFacts DEF Buffer
<1>2. from \in Nat
  BY StartFacts
<1>3. \A p \in 0 .. 8 * b.size - 1 : 8 * from + p \in buf.ones <=> p \in b.ones
  BY DEF Slices
<1>4. b = [size |-> b.size, ones |-> b.ones]
  BY <1>1 DEF Buffer
<1> HIDE DEF b
<1>5. CASE from < end
  <2>1. end - from = b.size
    BY <1>1, <1>2 DEF b
  <2>2. {p \in 0 .. 8 * b.size - 1 : 8 * from + p \in buf.ones} = b.ones
    BY <1>1, <1>3 DEF b
  <2>3. Slice(buf, from, end) = [size |-> b.size, ones |-> b.ones]
    BY <2>1, <2>2 DEF Slice
  <2> QED
    BY <1>4, <1>5, <2>3 DEF b
<1>6. CASE ~(from < end)
  <2>1. b.size = 0
    BY <1>1, <1>2, <1>6 DEF b
  <2>2. b.ones = {}
    BY <1>1, <2>1 DEF b
  <2> QED
    BY <1>4, <1>6, <2>1, <2>2 DEF b, EmptyBuffer
<1> QED
  BY <1>5, <1>6
-----------------------------------------------------------------------------
(* The invariant of a stack, call by call *)

WorkInv == PassInv /\ MadeInv /\ SliceInv /\ BackInv

LEMMA SameUpper == stack' = stack => \A l : SubtypeForUpper(l)' = SubtypeForUpper(l)
BY DEF SubtypeForUpper

LEMMA InitWorkInv == StackInit => WorkInv
<1> SUFFICES ASSUME StackInit PROVE WorkInv
  OBVIOUS
<1> USE DEF StackInit
<1>1. PassInv
  BY DEF PassInv
<1>2. MadeInv
  BY DEF MadeInv
<1>3. SliceInv
  BY SlicesEmpty DEF SliceInv
<1>4. BackInv
  BY DEF BackInv
<1> QED
  BY <1>1, <1>2, <1>3, <1>4 DEF WorkInv

\* At the beginning of a call that forgets the last results.
LEMMA FreshWorkInv ==
  ASSUME stage' \in {"idle", "populate"}, level' = 1, made' = <<>>, back' = <<>>, frame' = EmptyBuffer,
         Len(stack') \in Nat
  PROVE  WorkInv'
<1>1. PassInv'
  <2>1. ASSUME NEW l \in 1 .. Len(stack') PROVE ~(l < level')
    OBVIOUS
  <2> QED
    BY <2>1 DEF PassInv
<1>2. MadeInv'
  BY DEF MadeInv
<1>3. SliceInv'
  BY SlicesEmpty DEF SliceInv
<1>4. BackInv'
  BY DEF BackInv
<1> QED
  BY <1>1, <1>2, <1>3, <1>4 DEF WorkInv

\* Loading a stack, or beginning a call, empties what the invariant speaks of.
LEMMA LoadWorkInv == TypeInv /\ TypeInv' /\ LoadStack => WorkInv'
<1> SUFFICES ASSUME TypeInv, TypeInv', LoadStack PROVE WorkInv'
  OBVIOUS
<1>1. stage' = "idle" /\ level' = 1
  BY DEF LoadStack, TypeInv, CursorInv
<1>2. made' = <<>> /\ back' = <<>> /\ frame' = EmptyBuffer
  BY DEF LoadStack
<1>3. Len(stack') \in Nat
  BY DEF TypeInv, BoundInv
<1> QED
  BY <1>1, <1>2, <1>3, FreshWorkInv

LEMMA GenerateWorkInv == TypeInv' /\ Generate => WorkInv'
<1> SUFFICES ASSUME TypeInv', Generate PROVE WorkInv'
  OBVIOUS
<1>1. stage' \in {"idle", "populate"} /\ level' = 1
  BY DEF Generate, FirstPass
<1>2. made' = <<>> /\ back' = <<>> /\ frame' = EmptyBuffer
  BY DEF Generate
<1>3. Len(stack') \in Nat
  BY DEF TypeInv, BoundInv
<1> QED
  BY <1>1, <1>2, <1>3, FreshWorkInv

LEMMA DecodeWorkInv == TypeInv /\ WorkInv /\ Decode => WorkInv'
<1> SUFFICES ASSUME TypeInv, WorkInv, Decode PROVE WorkInv'
  OBVIOUS
<1>1. /\ stage = "idle" /\ stage' \in {"idle", "decode"} /\ level' = 1 /\ rxOffset' = 0 /\ back' = <<>>
      /\ stack' = stack /\ ctx' = ctx /\ frame' = frame /\ made' = made
  BY DEF Decode, FirstPass
<1>2. Len(stack) \in Nat /\ made \in Seq(Packed)
  BY DEF TypeInv, BoundInv, ResultInv, Packed
<1>3. PassInv'
  <2>1. stage' \notin {"populate", "encode", "pack"}
    BY <1>1
  <2> QED
    BY <2>1 DEF PassInv
<1>4. MadeInv'
  <2>1. \A l : SubtypeForUpper(l)' = SubtypeForUpper(l)
    BY <1>1, SameUpper
  <2> QED
    BY <1>1, <2>1 DEF WorkInv, MadeInv
<1>5. SliceInv'
  BY <1>1 DEF WorkInv, SliceInv
<1>6. StartOf(made, 1) = 0
  <2>1. SizesOf(made) \in Seq(Nat)
    BY <1>2, SizesOfFacts
  <2>2. SumUpTo(SizesOf(made))[0] = 0 /\ 1 - 1 = 0
    BY <2>1, SumUpToDef
  <2> QED
    BY <2>2 DEF StartOf
<1>7. BackInv'
  BY <1>1, <1>2, <1>6 DEF BackInv
<1> QED
  BY <1>3, <1>4, <1>5, <1>7 DEF WorkInv

\* A populated layer has the layout, and a chosen value in every field.
LEMMA PopulateWorkInv ==
  ASSUME WidthsAgree, TypeInv, WorkInv, Populate
  PROVE  WorkInv'
<1>1. /\ stage = "populate" /\ Fixed /\ Advance("encode")
      /\ frame' = frame /\ made' = made /\ input' = input /\ back' = back
  BY DEF Populate, Fixed
<1>2. level \in 1 .. Len(stack) /\ Len(stack) \in Nat
  BY <1>1 DEF TypeInv, CursorInv, BoundInv
<1>3. made = <<>> /\ back = <<>>
  BY <1>1 DEF WorkInv, MadeInv, BackInv
<1>4. /\ Layout(stack[level], ctx'[level])
      /\ \A k \in 1 .. Len(ctx'[level]) : Chosen(stack[level], ctx'[level], k)
      /\ \A l \in 1 .. Len(stack) : l # level => ctx'[l] = ctx[l]
  <2> DEFINE y == stack[level]
             refs == FieldRefs(y)
  <2>1. CASE ~y.iface.found
    <3>1. ctx' = ctx
      BY <2>1 DEF Populate
    <3>2. ctx[level] = <<>> /\ refs = <<>>
      BY <1>2, <2>1, LayerFacts
    <3> QED
      BY <3>1, <3>2 DEF Layout
  <2>2. CASE y.iface.found
    <3>1. PICK vs \in ValueChoices(refs) :
            ctx' = [ctx EXCEPT ![level] = PopulateContext(level, y.iface, vs)]
      BY <2>2 DEF Populate, FieldRefs
    <3> DEFINE c == PopulateContext(level, y.iface, vs)
    <3>2. refs \in Seq(Refs) /\ AllLive(refs) /\ y.iface.refs \in Seq(Refs) /\ FromDatabase(y.iface)
      BY <1>2, LayerFacts
    <3>3. /\ vs \in Seq(Decoded) /\ Len(vs) = Len(refs)
          /\ \A k \in 1 .. Len(vs) : /\ vs[k].name = ShortName[refs[k]]
                                     /\ vs[k].value \in PickValue(VarDb[refs[k]])
      <4> HIDE DEF refs
      <4> QED
        BY <3>2, ChoicesFacts
    <3>4. /\ Len(c) = Len(vs)
          /\ \A k \in 1 .. Len(vs) : /\ c[k].name = ShortName[refs[k]]
                                     /\ c[k].bits = Size(refs[k]) /\ c[k].value = vs[k].value
      <4> HIDE DEF y
      <4>1. refs = FieldsOfInterface(y.iface)
        BY DEF FieldRefs
      <4> QED
        BY <3>2, <3>3, <4>1, PopulateLayout
    <3>5. ctx'[level] = c /\ \A l \in 1 .. Len(stack) : l # level => ctx'[l] = ctx[l]
      <4>1. ctx \in Seq(Seq(Field)) /\ Len(ctx) = Len(stack)
        BY DEF TypeInv, ContextInv
      <4> HIDE DEF c
      <4> QED
        BY <1>2, <3>1, <4>1 DEF c
    <3> HIDE DEF c, y, refs
    <3>6. Layout(y, c)
      BY <3>3, <3>4 DEF Layout, refs
    <3>7. \A k \in 1 .. Len(c) : Chosen(y, c, k)
      BY <3>3, <3>4 DEF Chosen, refs
    <3> QED
      BY <3>5, <3>6, <3>7 DEF y
  <2> QED
    BY <2>1, <2>2
<1>5. ASSUME NEW l \in 1 .. Len(stack), l <= level
      PROVE  Layout(stack[l], ctx'[l]) /\ \A k \in 1 .. Len(ctx'[l]) : Chosen(stack[l], ctx'[l], k)
  <2>1. CASE l = level
    BY <1>4, <2>1
  <2>2. CASE l # level
    <3>1. l < level /\ ctx'[l] = ctx[l]
      BY <1>2, <1>4, <1>5, <2>2
    <3> QED
      BY <1>1, <3>1 DEF WorkInv, PassInv
  <2> QED
    BY <2>1, <2>2
<1>6. PassInv'
  <2>1. CASE level < Len(stack)
    <3>1. stage' = "populate" /\ level' = level + 1 /\ stack' = stack
      BY <1>1, <2>1 DEF Advance, Fixed
    <3>2. \A l \in 1 .. Len(stack) : l < level' => l <= level
      BY <1>2, <3>1
    <3> QED
      BY <1>5, <3>1, <3>2 DEF PassInv
  <2>2. CASE ~(level < Len(stack))
    <3>1. stage' = "encode" /\ level' = 1 /\ stack' = stack
      BY <1>1, <2>2 DEF Advance, Fixed
    <3>2. \A l \in 1 .. Len(stack) : l <= level /\ ~(l < level')
      BY <1>2, <2>2, <3>1
    <3> QED
      BY <1>5, <3>1, <3>2 DEF PassInv
  <2> QED
    BY <2>1, <2>2
<1>7. stage' \in {"populate", "encode"}
  BY <1>1 DEF Advance
<1>8. MadeInv' /\ BackInv'
  BY <1>1, <1>2, <1>3, <1>7 DEF MadeInv, BackInv, Fixed
<1>9. SliceInv'
  BY <1>1 DEF WorkInv, SliceInv
<1> QED
  BY <1>6, <1>8, <1>9 DEF WorkInv

\* An encoded layer is settled, and its size, which those below count, is the same.
LEMMA EncodeWorkInv ==
  ASSUME TypeInv, TypeInv', WorkInv, Encode
  PROVE  WorkInv'
<1>1. /\ stage = "encode" /\ Fixed /\ Advance("pack") /\ ctx' = [ctx EXCEPT ![level] = OnEncode(level)]
      /\ frame' = frame /\ made' = made /\ input' = input /\ back' = back
  BY DEF Encode, Fixed
<1>2. level \in 1 .. Len(stack) /\ Len(stack) \in Nat
  BY <1>1 DEF TypeInv, CursorInv, BoundInv
<1>3. made = <<>> /\ back = <<>>
  BY <1>1 DEF WorkInv, MadeInv, BackInv
<1>4. /\ ctx \in Seq(Seq(Field)) /\ ctx' \in Seq(Seq(Field))
      /\ Len(ctx) = Len(stack) /\ Len(ctx') = Len(stack) /\ stack' = stack
  BY <1>1 DEF TypeInv, ContextInv, Fixed
<1>5. ctx'[level] = OnEncode(level) /\ \A l \in 1 .. Len(stack) : l # level => ctx'[l] = ctx[l]
  BY <1>1, <1>2, <1>4
<1>6. Keeps(ctx[level], OnEncode(level), Derived(stack[level].logic))
  BY <1>2, OnEncodeKeeps
<1>7. \A l \in 1 .. Len(stack) : ctx[l] \in Seq(Field) /\ ctx'[l] \in Seq(Field)
  BY <1>4
<1>8. ASSUME NEW l \in 1 .. Len(stack) PROVE SameShape(ctx[l], ctx'[l])
  <2>1. CASE l = level
    BY <1>5, <1>6, <2>1 DEF Keeps
  <2>2. CASE l # level
    <3>1. ctx'[l] = ctx[l]
      BY <1>5, <2>2
    <3> QED
      BY <3>1 DEF SameShape
  <2> QED
    BY <2>1, <2>2
<1>9. \A l \in 1 .. Len(stack) : Layout(stack[l], ctx'[l])
  <2>1. ASSUME NEW l \in 1 .. Len(stack) PROVE Layout(stack[l], ctx'[l])
    <3>1. Layout(stack[l], ctx[l])
      BY <1>1 DEF WorkInv, PassInv
    <3> QED
      BY <1>8, <3>1 DEF Layout, SameShape
  <2> QED
    BY <2>1
<1>10. \A l : Above(ctx', l) = Above(ctx, l)
  <2>1. \A l \in 1 .. Len(ctx) : ByteSize(ctx'[l]) = ByteSize(ctx[l])
    BY <1>4, <1>7, <1>8, SameShapeFacts
  <2> QED
    BY <1>4, <2>1, AboveSame
<1>11. ASSUME NEW l \in 1 .. Len(stack), l <= level
       PROVE  Settled(stack[l], SubtypeForUpper(l), Above(ctx', l), ctx'[l])
  <2>1. CASE l = level
    <3>1. \A k \in 1 .. Len(ctx[level]) : Chosen(stack[level], ctx[level], k)
      <4>1. level >= level
        BY <1>2
      <4> QED
        BY <1>1, <1>2, <4>1 DEF WorkInv, PassInv
    <3>2. Settled(stack[level], SubtypeForUpper(level), Above(ctx, level), OnEncode(level))
      BY <1>2, <3>1, EncodeSettled
    <3> QED
      BY <1>5, <1>10, <2>1, <3>2
  <2>2. CASE l # level
    <3>1. l < level /\ ctx'[l] = ctx[l]
      BY <1>2, <1>5, <1>11, <2>2
    <3>2. Settled(stack[l], SubtypeForUpper(l), Above(ctx, l), ctx[l])
      BY <1>1, <3>1 DEF WorkInv, PassInv
    <3> QED
      BY <1>10, <3>1, <3>2
  <2> QED
    BY <2>1, <2>2
<1>12. ASSUME NEW l \in 1 .. Len(stack), l > level
       PROVE  \A k \in 1 .. Len(ctx'[l]) : Chosen(stack[l], ctx'[l], k)
  <2>1. ctx'[l] = ctx[l] /\ l >= level
    BY <1>2, <1>5, <1>12
  <2> QED
    BY <1>1, <2>1 DEF WorkInv, PassInv
<1>13. \A l : SubtypeForUpper(l)' = SubtypeForUpper(l)
  BY <1>4, SameUpper
<1>14. PassInv'
  <2>1. CASE level < Len(stack)
    <3>1. stage' = "encode" /\ level' = level + 1
      BY <1>1, <2>1 DEF Advance
    <3>2. \A l \in 1 .. Len(stack) : (l < level' => l <= level) /\ (l >= level' => l > level)
      BY <1>2, <3>1
    <3> QED
      BY <1>4, <1>9, <1>11, <1>12, <1>13, <3>1, <3>2 DEF PassInv
  <2>2. CASE ~(level < Len(stack))
    <3>1. stage' = "pack"
      BY <1>1, <2>2 DEF Advance
    <3>2. \A l \in 1 .. Len(stack) : l <= level
      BY <1>2, <2>2
    <3> QED
      BY <1>4, <1>9, <1>11, <1>13, <3>1, <3>2 DEF PassInv
  <2> QED
    BY <2>1, <2>2
<1>15. CASE level < Len(stack)
  <2>1. stage' = "encode"
    BY <1>1, <1>15 DEF Advance
  <2>2. MadeInv' /\ BackInv'
    BY <1>1, <1>2, <1>3, <1>4, <2>1 DEF MadeInv, BackInv
  <2> QED
    BY <1>1, <1>14, <2>2 DEF WorkInv, SliceInv
<1>16. CASE ~(level < Len(stack))
  <2>1. stage' = "pack" /\ level' = 1
    BY <1>1, <1>16 DEF Advance
  <2>2. MadeInv' /\ BackInv'
    BY <1>1, <1>2, <1>3, <1>4, <2>1 DEF MadeInv, BackInv
  <2> QED
    BY <1>1, <1>14, <2>2 DEF WorkInv, SliceInv
<1> QED
  BY <1>15, <1>16

\* A packed layer is at the end of the frame, and its fields are the context's.
LEMMA PackWorkInv ==
  ASSUME TypeInv, TypeInv', WorkInv, Pack
  PROVE  WorkInv'
<1> DEFINE f == ctx[level]
           b == PackBytes(f)
           e == [bytes |-> b, fields |-> f]
<1>1. /\ stage = "pack" /\ Fixed /\ Advance("idle") /\ ctx' = ctx /\ stack' = stack
      /\ frame' = Concat(frame, b) /\ made' = Append(made, e) /\ input' = input /\ back' = back
  BY DEF Pack, Fixed
<1>2. level \in 1 .. Len(stack) /\ Len(stack) \in Nat
  BY <1>1 DEF TypeInv, CursorInv, BoundInv
<1>3. /\ made \in Seq(Packed) /\ frame \in Buffer /\ back = <<>>
      /\ Len(made) = level - 1 /\ \A l \in 1 .. Len(made) : made[l].fields = ctx[l]
  BY <1>1 DEF TypeInv, ResultInv, WorkInv, MadeInv, BackInv, Packed
<1>4. f \in Seq(Field) /\ FieldRefs(stack[level]) \in Seq(Refs) /\ Layout(stack[level], f)
  <2>1. f \in Seq(Field) /\ FieldRefs(stack[level]) \in Seq(Refs)
    BY <1>2, LayerFacts
  <2> QED
    BY <1>1, <1>2, <2>1 DEF WorkInv, PassInv
<1>5. b \in Buffer /\ \A p \in b.ones : p < 8 * b.size
  <2> HIDE DEF f
  <2> QED
    BY <1>4, PackedLayer
<1>6. e \in Packed /\ e.bytes = b /\ e.fields = f
  <2> HIDE DEF b, f
  <2> QED
    BY <1>4, <1>5 DEF Packed
<1> HIDE DEF e, b, f
<1>7. SliceInv'
  <2>1. Slices(frame, made)
    BY DEF WorkInv, SliceInv
  <2>2. Slices(Concat(frame, e.bytes), Append(made, e))
    BY <1>3, <1>5, <1>6, <2>1, SlicesAppend
  <2> QED
    BY <1>1, <1>6, <2>2 DEF SliceInv
<1>8. /\ Len(made') = level /\ made' \in Seq(Packed)
      /\ \A l \in 1 .. level : made'[l].fields = ctx[l] /\ made'[l].bytes = PackBytes(made'[l].fields)
  <2>1. /\ Len(made') = level /\ made' \in Seq(Packed) /\ made'[level] = e
        /\ \A l \in 1 .. Len(made) : made'[l] = made[l]
    BY <1>1, <1>2, <1>3, <1>6
  <2>2. ASSUME NEW l \in 1 .. level
        PROVE  made'[l].fields = ctx[l] /\ made'[l].bytes = PackBytes(made'[l].fields)
    <3>1. CASE l = level
      BY <1>6, <2>1, <3>1 DEF f, b
    <3>2. CASE l # level
      <4>1. l \in 1 .. Len(made) /\ made'[l] = made[l]
        BY <1>2, <1>3, <2>1, <3>2
      <4> QED
        BY <1>3, <4>1 DEF WorkInv, MadeInv
    <3> QED
      BY <3>1, <3>2
  <2> QED
    BY <2>1, <2>2
<1>9. \A l : SubtypeForUpper(l)' = SubtypeForUpper(l)
  BY <1>1, SameUpper
<1>10. CASE level < Len(stack)
  <2>1. stage' = "pack" /\ level' = level + 1
    BY <1>1, <1>10 DEF Advance
  <2>2. PassInv'
    BY <1>1, <1>9, <2>1 DEF WorkInv, PassInv
  <2>3. Len(made') = level' - 1
    BY <1>2, <1>8, <2>1
  <2>4. MadeInv'
    BY <1>1, <1>8, <2>1, <2>3 DEF MadeInv
  <2>5. BackInv'
    BY <1>1, <1>2, <1>3, <2>1 DEF BackInv
  <2> QED
    BY <1>7, <2>2, <2>4, <2>5 DEF WorkInv
<1>11. CASE ~(level < Len(stack))
  <2>1. stage' = "idle" /\ level = Len(stack)
    BY <1>1, <1>2, <1>11 DEF Advance
  <2>2. PassInv'
    BY <2>1 DEF PassInv
  <2>3. FieldsOf(made') = ctx
    <3> DEFINE g == FieldsOf(made')
    <3>1. ctx \in Seq(Seq(Field)) /\ Len(ctx) = level
      BY <2>1 DEF TypeInv, ContextInv
    <3>2. g \in [1 .. level -> Seq(Field)] /\ \A l \in 1 .. level : g[l] = ctx[l]
      BY <1>8, <3>1 DEF FieldsOf
    <3>3. g \in Seq(Seq(Field)) /\ Len(g) = level
      <4>1. level \in Nat
        BY <1>2
      <4> HIDE DEF g
      <4> QED
        BY <3>2, <4>1, SeqOfFunction
    <3> HIDE DEF g
    <3>4. g = ctx
      BY <3>1, <3>2, <3>3, SeqEqual
    <3> QED
      BY <3>4 DEF g
  <2>4. ASSUME NEW l \in 1 .. level
        PROVE  /\ Layout(stack[l], made'[l].fields)
               /\ Settled(stack[l], SubtypeForUpper(l), Above(FieldsOf(made'), l), made'[l].fields)
    <3>1. Layout(stack[l], ctx[l]) /\ Settled(stack[l], SubtypeForUpper(l), Above(ctx, l), ctx[l])
      BY <1>1, <2>1 DEF WorkInv, PassInv
    <3> QED
      BY <1>8, <2>3, <3>1
  <2>5. MadeInv'
    BY <1>1, <1>8, <1>9, <2>1, <2>4 DEF MadeInv
  <2>6. BackInv'
    BY <1>1, <1>2, <1>3, <2>1 DEF BackInv
  <2> QED
    BY <1>7, <2>2, <2>5, <2>6 DEF WorkInv
<1> QED
  BY <1>10, <1>11

\* What decodeStack does at a layer of the frame made last: the layer comes back
\* and the next one is where it was put.
LEMMA LayerReturned ==
  ASSUME TypeInv, WorkInv, DecodeLevel, input = frame, made # <<>>
  PROVE  /\ rxOffset' = StartOf(made, level + 1) /\ Len(back') = level
         /\ \A l \in 1 .. level : Returned(back'[l], made[l])
<1> DEFINE y == stack[level]
           refs == FieldRefs(y)
           f == made[level].fields
           b == made[level].bytes
           fields == DecodedFields(refs, rxOffset)
<1>1. stage = "decode"
  BY DEF DecodeLevel
<1>2. level \in 1 .. Len(stack) /\ Len(stack) \in Nat /\ rxOffset \in Nat
  BY <1>1 DEF TypeInv, CursorInv, BoundInv
<1>3. /\ made \in Seq(Packed) /\ frame \in Buffer
      /\ back \in Seq([bytes : Buffer, fields : Seq(Decoded)])
  BY DEF TypeInv, ResultInv, Packed
<1>4. /\ Len(made) = Len(stack) /\ Layout(y, f) /\ b = PackBytes(f) /\ level \in 1 .. Len(made)
  BY <1>1, <1>2 DEF WorkInv, MadeInv
<1>5. f \in Seq(Field) /\ b \in Buffer /\ b.size \in Nat
  BY <1>3, <1>4, SizesOfFacts
<1>6. refs \in Seq(Refs) /\ (~y.iface.found => refs = <<>>)
  BY <1>2, LayerFacts
<1>7. Slices(frame, made)
  BY DEF WorkInv, SliceInv
<1>8. /\ Len(back) = level - 1 /\ rxOffset = StartOf(made, level)
      /\ \A l \in 1 .. Len(back) : Returned(back[l], made[l])
  BY <1>1 DEF WorkInv, BackInv
<1>9. /\ Sizes(refs) = Widths(f) /\ b.size = BytesOf(refs)
      /\ \A p \in b.ones : p < 8 * b.size
  <2> HIDE DEF y, f
  <2> QED
    BY <1>4, <1>5, <1>6, PackedLayer
<1>10. /\ StartOf(made, level) \in Nat
       /\ StartOf(made, level + 1) = StartOf(made, level) + b.size
       /\ StartOf(made, level) + b.size <= frame.size
  <2>1. frame.size = Sum(SizesOf(made))
    BY <1>7 DEF Slices
  <2> QED
    BY <1>3, <1>4, <2>1, StartFacts
<1>11. Len(f) = Len(refs) /\ \A k \in 1 .. Len(f) : f[k].name = ShortName[refs[k]] /\ f[k].bits = Size(refs[k])
  BY <1>4 DEF Layout
<1>12. ASSUME NEW x, back' = Append(back, x), Returned(x, made[level])
       PROVE  Len(back') = level /\ \A l \in 1 .. level : Returned(back'[l], made[l])
  <2>1. /\ Len(back') = level /\ back'[level] = x /\ \A l \in 1 .. level - 1 : back'[l] = back[l]
    BY <1>2, <1>3, <1>8, <1>12
  <2>2. ASSUME NEW l \in 1 .. level PROVE Returned(back'[l], made[l])
    <3>1. CASE l = level
      BY <1>12, <2>1, <3>1
    <3>2. CASE l # level
      <4>1. l \in 1 .. level - 1
        BY <1>2, <3>2
      <4> QED
        BY <1>8, <2>1, <4>1
    <3> QED
      BY <3>1, <3>2
  <2> QED
    BY <2>1, <2>2
<1>13. CASE ~y.iface.found
  <2> DEFINE x == [bytes |-> EmptyBuffer, fields |-> <<>>]
  <2>1. back' = Append(back, x) /\ rxOffset' = rxOffset
    BY <1>13 DEF DecodeLevel
  <2>2. Len(f) = 0 /\ BytesOf(refs) = 0
    <3>1. refs = <<>>
      BY <1>6, <1>13
    <3>2. Sizes(refs) \in Seq(Nat) /\ Len(Sizes(refs)) = 0
      BY <3>1, <1>6, SizesFacts
    <3>3. Sum(Sizes(refs)) = 0
      BY <3>2, SumUpToDef DEF Sum
    <3> QED
      BY <1>11, <3>1, <3>3 DEF BytesOf, CeilBytes
  <2>3. b = EmptyBuffer
    <3>1. b = [size |-> b.size, ones |-> b.ones] /\ b.ones \subseteq Nat
      BY <1>5 DEF Buffer
    <3>2. b.size = 0
      BY <1>9, <2>2
    <3>3. b.ones = {}
      BY <1>9, <3>1, <3>2
    <3> QED
      BY <3>1, <3>2, <3>3 DEF EmptyBuffer
  <2>4. Returned(x, made[level])
    BY <2>2, <2>3 DEF Returned
  <2>5. rxOffset' = StartOf(made, level + 1)
    BY <1>8, <1>9, <1>10, <2>1, <2>2
  <2> HIDE DEF x
  <2> QED
    BY <1>12, <2>1, <2>4, <2>5
<1>14. CASE y.iface.found
  <2> DEFINE x == [bytes |-> SliceOf(refs), fields |-> fields]
  <2>1. back' = Append(back, x) /\ rxOffset' = OffsetAfter(refs)
    BY <1>14 DEF DecodeLevel, FieldRefs
  <2> HIDE DEF y, refs, f, b
  <2>2. OffsetAfter(refs) = rxOffset + b.size
    BY <1>9 DEF OffsetAfter
  <2>3. SliceOf(refs) = b
    <3> DEFINE end == OffsetAfter(refs)
    <3>1. frame.size \in Nat
      BY <1>3 DEF Buffer
    <3>2. (IF end < frame.size THEN end ELSE frame.size) = end
      BY <1>5, <1>8, <1>10, <2>2, <3>1
    <3>3. SliceOf(refs) = IF rxOffset < end THEN Slice(frame, rxOffset, end) ELSE EmptyBuffer
      BY <3>2 DEF SliceOf
    <3>4. end = rxOffset + made[level].bytes.size
      BY <2>2 DEF b
    <3>5. \A p \in made[level].bytes.ones : p < 8 * made[level].bytes.size
      BY <1>9 DEF b
    <3> HIDE DEF end
    <3>6. (IF rxOffset < end THEN Slice(frame, rxOffset, end) ELSE EmptyBuffer) = made[level].bytes
      BY <1>3, <1>4, <1>7, <1>8, <3>4, <3>5, SliceReadBack
    <3> QED
      BY <3>3, <3>6 DEF b
  <2>4. /\ Len(fields) = Len(refs)
        /\ \A k \in 1 .. Len(refs) :
             /\ fields[k].name = ShortName[refs[k]]
             /\ fields[k].value = ExtractBits(input, 8 * rxOffset + SumUpTo(Sizes(refs))[k - 1], Size(refs[k]))
    BY <1>6, DecodedFieldsFacts
  <2> HIDE DEF fields
  <2>5. ASSUME NEW k \in 1 .. Len(fields)
        PROVE  fields[k].name = f[k].name /\ fields[k].value = Low(f[k].value, f[k].bits)
    <3>1. k \in 1 .. Len(refs) /\ k \in 1 .. Len(f)
      BY <1>11, <2>4
    <3>2. fields[k].value = ExtractBits(frame, 8 * StartOf(made, level) + SumUpTo(Widths(f))[k - 1], f[k].bits)
      BY <1>8, <1>9, <1>11, <2>4, <3>1
    <3>3. ExtractBits(frame, 8 * StartOf(made, level) + SumUpTo(Widths(f))[k - 1], f[k].bits)
            = Low(f[k].value, f[k].bits)
      BY <1>3, <1>4, <1>7, <3>1, FieldReadBack DEF f, b
    <3> QED
      BY <1>11, <2>4, <3>1, <3>2, <3>3
  <2>6. x.bytes = SliceOf(refs) /\ x.fields = fields
    OBVIOUS
  <2> HIDE DEF x
  <2>7. Returned(x, made[level])
    BY <1>11, <2>3, <2>4, <2>5, <2>6 DEF Returned, f, b
  <2>8. rxOffset' = StartOf(made, level + 1)
    BY <1>8, <1>10, <2>1, <2>2
  <2> QED
    BY <1>12, <2>1, <2>7, <2>8
<1> QED
  BY <1>13, <1>14

\* A decoded layer is returned as it was packed.
LEMMA DecodeLevelWorkInv ==
  ASSUME TypeInv, TypeInv', WorkInv, DecodeLevel
  PROVE  WorkInv'
<1>1. /\ stage = "decode" /\ stage' \in {"idle", "decode"} /\ Advance("idle") /\ stack' = stack
      /\ frame' = frame /\ made' = made /\ input' = input
  BY DEF DecodeLevel, Advance
<1>2. level \in 1 .. Len(stack) /\ Len(stack) \in Nat
  BY <1>1 DEF TypeInv, CursorInv, BoundInv
<1>3. Len(back') = level
  <2>1. \E x : back' = Append(back, x)
    BY DEF DecodeLevel
  <2>2. Len(back) = level - 1 /\ back \in Seq([bytes : Buffer, fields : Seq(Decoded)])
    BY <1>1 DEF TypeInv, ResultInv, WorkInv, BackInv
  <2> QED
    BY <1>2, <2>1, <2>2
<1>4. PassInv'
  BY <1>1 DEF PassInv
<1>5. MadeInv'
  <2>1. \A l : SubtypeForUpper(l)' = SubtypeForUpper(l)
    BY <1>1, SameUpper
  <2> QED
    BY <1>1, <2>1 DEF WorkInv, MadeInv
<1>6. SliceInv'
  BY <1>1 DEF WorkInv, SliceInv
<1>7. stage' = "decode" => level' = level + 1
  BY <1>1 DEF Advance
<1>8. input = frame /\ made # <<>> =>
        rxOffset' = StartOf(made, level + 1) /\ \A l \in 1 .. level : Returned(back'[l], made[l])
  BY LayerReturned
<1>9. BackInv'
  <2>1. stage' = "decode" => Len(back') = level' - 1
    BY <1>2, <1>3, <1>7
  <2>2. Len(back') <= Len(stack')
    BY <1>1, <1>2, <1>3
  <2>3. ASSUME input' = frame', made' # <<>>
        PROVE  /\ stage' = "decode" => rxOffset' = StartOf(made', level')
               /\ \A l \in 1 .. Len(back') : Returned(back'[l], made'[l])
    BY <1>1, <1>3, <1>7, <1>8, <2>3
  <2> QED
    BY <1>1, <2>1, <2>2, <2>3 DEF BackInv
<1> QED
  BY <1>4, <1>5, <1>6, <1>9 DEF WorkInv

LEMMA StutterWorkInv == WorkInv /\ UNCHANGED stackVars => WorkInv'
<1> SUFFICES ASSUME WorkInv, UNCHANGED stackVars PROVE WorkInv'
  OBVIOUS
<1>1. /\ stack' = stack /\ ctx' = ctx /\ stage' = stage /\ level' = level /\ frame' = frame
      /\ made' = made /\ input' = input /\ rxOffset' = rxOffset /\ back' = back
  BY DEF stackVars
<1>2. \A l : SubtypeForUpper(l)' = SubtypeForUpper(l)
  BY <1>1, SameUpper
<1>3. PassInv'
  BY <1>1, <1>2 DEF WorkInv, PassInv
<1>4. MadeInv'
  BY <1>1, <1>2 DEF WorkInv, MadeInv
<1>5. SliceInv' /\ BackInv'
  BY <1>1 DEF WorkInv, SliceInv, BackInv
<1> QED
  BY <1>3, <1>4, <1>5 DEF WorkInv

LEMMA NextWorkInv ==
  ASSUME WidthsAgree, TypeInv, TypeInv', WorkInv, [StackNext]_stackVars
  PROVE  WorkInv'
BY LoadWorkInv, GenerateWorkInv, PopulateWorkInv, EncodeWorkInv, PackWorkInv, DecodeWorkInv,
   DecodeLevelWorkInv, StutterWorkInv DEF StackNext

\* The four parts together, for the protocols whose widths agree.
LEMMA WorkInvariance ==
  ASSUME WidthsAgree PROVE StackSpec => [](TypeInv /\ WorkInv)
<1>1. StackInit => TypeInv /\ WorkInv
  BY InitTypeInv, InitWorkInv
<1>2. TypeInv /\ WorkInv /\ [StackNext]_stackVars => (TypeInv /\ WorkInv)'
  BY NextTypeInv, NextWorkInv
<1> QED
  BY <1>1, <1>2, PTL DEF StackSpec
-----------------------------------------------------------------------------
(* What the invariant says *)

\* When the protocols' widths agree, a context that is being encoded or packed
\* has the fields that the YAML declares, in order and with their widths,
\* whatever the reused stack held before.
THEOREM ContextsHaveTheLayout ==
  ASSUME WidthsAgree PROVE StackSpec => []ContextIsLayout
<1>1. TypeInv /\ WorkInv => ContextIsLayout
  <2> SUFFICES ASSUME TypeInv, WorkInv, stage \in {"encode", "pack"}, NEW l \in DOMAIN stack
               PROVE  LET refs == FieldsOfInterface(stack[l].iface) IN
                      /\ Len(ctx[l]) = Len(refs)
                      /\ \A k \in DOMAIN refs : /\ ctx[l][k].name = ShortName[refs[k]]
                                                /\ ctx[l][k].bits = Size(refs[k])
    BY DEF ContextIsLayout
  <2>1. l \in 1 .. Len(stack)
    BY DEF TypeInv, BoundInv
  <2>2. Layout(stack[l], ctx[l])
    BY <2>1 DEF WorkInv, PassInv
  <2>3. DOMAIN FieldRefs(stack[l]) = 1 .. Len(FieldRefs(stack[l]))
    BY <2>1, LayerFacts
  <2> QED
    BY <2>2, <2>3 DEF Layout, FieldRefs
<1>2. StackSpec => [](TypeInv /\ WorkInv)
  BY WorkInvariance
<1> QED
  BY <1>1, <1>2, PTL

\* In a finished frame every field has a fresh value within its variable's
\* constraints, unless the layer's own module derives it: nothing of an earlier
\* frame, or of one that was decoded, is left in it.
THEOREM OnlyModulesChangeFields ==
  ASSUME WidthsAgree PROVE StackSpec => []OnlyDerivedFieldsChange
<1>1. TypeInv /\ WorkInv => OnlyDerivedFieldsChange
  <2> SUFFICES ASSUME TypeInv, WorkInv, stage = "idle", made # <<>>, NEW l \in DOMAIN made,
                      NEW k \in DOMAIN made[l].fields
               PROVE  \/ ~stack[l].bypass /\ made[l].fields[k].name \in Derived(stack[l].logic)
                      \/ made[l].fields[k].value \in PickValue(VarDb[FieldsOfInterface(stack[l].iface)[k]])
    BY DEF OnlyDerivedFieldsChange, Made
  <2>1. l \in 1 .. Len(made) /\ k \in 1 .. Len(made[l].fields)
    BY MadeFacts
  <2>2. Settled(stack[l], SubtypeForUpper(l), Above(FieldsOf(made), l), made[l].fields)
    BY <2>1 DEF WorkInv, MadeInv
  <2> QED
    BY <2>1, <2>2 DEF Settled, Chosen, FieldRefs
<1>2. StackSpec => [](TypeInv /\ WorkInv)
  BY WorkInvariance
<1> QED
  BY <1>1, <1>2, PTL

\* decodeStack inverts generateStack on a whole frame: the bytes of each layer,
\* and each value as far as its field's width goes.
THEOREM StackDecodeInvertsGenerate ==
  ASSUME WidthsAgree PROVE StackSpec => []StackRoundTrip
<1>1. TypeInv /\ WorkInv => StackRoundTrip
  <2> SUFFICES ASSUME TypeInv, WorkInv, input = frame, made # <<>>, NEW l \in DOMAIN back
               PROVE  /\ back[l].bytes = made[l].bytes
                      /\ \A k \in DOMAIN back[l].fields :
                           back[l].fields[k].value = Low(made[l].fields[k].value, made[l].fields[k].bits)
    BY DEF StackRoundTrip
  <2>1. l \in 1 .. Len(back) /\ DOMAIN back[l].fields = 1 .. Len(back[l].fields)
    BY BackFacts
  <2>2. Returned(back[l], made[l])
    BY <2>1 DEF WorkInv, BackInv
  <2> QED
    BY <2>1, <2>2 DEF Returned
<1>2. StackSpec => [](TypeInv /\ WorkInv)
  BY WorkInvariance
<1> QED
  BY <1>1, <1>2, PTL

\* A value that came back, looked up by name.
LEMMA ReturnedValue ==
  ASSUME NEW b, b.fields \in Seq(Decoded), NEW m, m.fields \in Seq(Field), Returned(b, m),
         NEW n, HasField(b.fields, n)
  PROVE  LET k == First(Having(m.fields, n)) IN
         /\ HasField(m.fields, n) /\ k \in 1 .. Len(m.fields) /\ m.fields[k].name = n
         /\ m.fields[k].bits \in Nat /\ m.fields[k].bits # 0 /\ m.fields[k].value \in Word
         /\ GetValue(m.fields, n) = m.fields[k].value
         /\ GetValue(b.fields, n) = Low(m.fields[k].value, m.fields[k].bits)
<1> DEFINE f == b.fields
           g == m.fields
           k == First(Having(g, n))
<1>1. /\ Len(f) = Len(g)
      /\ \A j \in 1 .. Len(f) : f[j].name = g[j].name /\ f[j].value = Low(g[j].value, g[j].bits)
  BY DEF Returned
<1>2. \A j : j \in Having(f, n) <=> j \in 1 .. Len(f) /\ f[j].name = n
  BY HavingFacts
<1>3. \A j : j \in Having(g, n) <=> j \in 1 .. Len(g) /\ g[j].name = n
  BY HavingFacts
<1>4. Having(f, n) = Having(g, n)
  <2> HIDE DEF f, g
  <2> QED
    BY <1>1, <1>2, <1>3
<1>5. HasField(g, n)
  BY <1>4 DEF HasField
<1>6. k \in 1 .. Len(g) /\ g[k].name = n
  BY <1>5, HavingFacts
<1>7. g[k] \in Field
  <2> HIDE DEF k
  <2> QED
    BY <1>6
<1>8. g[k].bits \in Nat /\ g[k].bits # 0 /\ g[k].value \in Word
  BY <1>7, FieldFacts
<1>9. GetValue(g, n) = g[k].value /\ GetValue(f, n) = f[k].value
  BY <1>4 DEF GetValue
<1> HIDE DEF f, g, k
<1>10. f[k].value = Low(g[k].value, g[k].bits)
  BY <1>1, <1>6
<1> QED
  BY <1>5, <1>6, <1>8, <1>9, <1>10 DEF f, g, k

\* Where a selector's field is as wide as its values, what the other end decodes
\* from a whole frame is clean: a command has status 0, an AVTP control header
\* the subtype of the layer above, a frame an ethertype.
THEOREM DecodedCommandsAreClean ==
  ASSUME WidthsAgree, SelectorsFit PROVE StackSpec => []CommandsAreClean
<1>1. TypeInv /\ WorkInv => CommandsAreClean
  <2> SUFFICES ASSUME TypeInv, WorkInv, NEW l \in DOMAIN back, input = frame, made # <<>>
               PROVE  LET fs == back[l].fields IN
                      /\ stack[l].logic = "aecp_aem" /\ HasField(fs, "message_type") /\ HasField(fs, "status")
                           => 0 \in GetValue(fs, "message_type") \/ GetValue(fs, "status") = {}
                      /\ stack[l].logic = "avtp_control" /\ HasField(fs, "subtype")
                           => SubtypeForUpper(l) \in {{}, GetValue(fs, "subtype")}
                      /\ stack[l].logic = "ethernet_mac_frame" /\ HasField(fs, "ethertype")
                           => GetValue(fs, "ethertype") # {}
    BY DEF CommandsAreClean
  <2> DEFINE y == stack[l]
             fs == back[l].fields
             g == made[l].fields
             refs == FieldRefs(y)
  <2>1. l \in 1 .. Len(back) /\ fs \in Seq(Decoded) /\ Len(back) \in Nat
    BY BackFacts
  <2>2. stage \in {"idle", "decode"}
    <3>1. back # <<>>
      BY <2>1
    <3> QED
      BY <3>1 DEF TypeInv, CursorInv, WorkInv, BackInv
  <2>3. l \in 1 .. Len(made) /\ l \in 1 .. Len(stack)
    <3>1. Len(made) = Len(stack) /\ Len(back) <= Len(stack) /\ Len(stack) \in Nat
      BY <2>2 DEF TypeInv, BoundInv, WorkInv, MadeInv, BackInv
    <3> QED
      BY <2>1, <3>1
  <2>4. g \in Seq(Field) /\ Returned(back[l], made[l])
    BY <2>1, <2>3, MadeFacts DEF WorkInv, BackInv
  <2>5. Layout(y, g) /\ Settled(y, SubtypeForUpper(l), Above(FieldsOf(made), l), g)
    BY <2>2, <2>3 DEF WorkInv, MadeInv
  <2>6. \A n : HasField(fs, n) =>
          LET k == First(Having(g, n)) IN
          /\ HasField(g, n) /\ k \in 1 .. Len(g) /\ g[k].name = n
          /\ g[k].bits \in Nat /\ g[k].bits # 0 /\ g[k].value \in Word
          /\ GetValue(g, n) = g[k].value
          /\ GetValue(fs, n) = Low(g[k].value, g[k].bits)
    BY <2>1, <2>4, ReturnedValue
  <2>7. \A k \in 1 .. Len(g) :
          /\ refs[k] \in DOMAIN VarDb /\ g[k].name = ShortName[refs[k]] /\ g[k].bits = VarDb[refs[k]].size
    BY <2>3, <2>5, LayerFacts DEF Layout, Size
  <2> DEFINE Wide(n) == {i \in 0 .. WordBits - 1 : i < n}
  <2>8. \A v \in Word, n \in Nat : v \subseteq Wide(n) => Low(v, n) = v
    BY DEF Low, Word
  <2> HIDE DEF y, fs, g, refs
  <2>9. ASSUME y.logic = "aecp_aem", HasField(fs, "message_type"), HasField(fs, "status")
        PROVE  0 \in GetValue(fs, "message_type") \/ GetValue(fs, "status") = {}
    <3>1. HasField(g, "message_type") /\ HasField(g, "status")
      BY <2>6, <2>9
    <3>2. 0 \in GetValue(g, "message_type") \/ GetValue(g, "status") = {}
      BY <2>5, <2>9, <3>1 DEF Settled
    <3>3. 0 \in GetValue(g, "message_type") => 0 \in GetValue(fs, "message_type")
      BY <2>6, <2>9 DEF Low
    <3>4. GetValue(g, "status") = {} => GetValue(fs, "status") = {}
      BY <2>6, <2>9 DEF Low
    <3> QED
      BY <3>2, <3>3, <3>4
  <2>10. ASSUME y.logic = "avtp_control", HasField(fs, "subtype")
         PROVE  SubtypeForUpper(l) \in {{}, GetValue(fs, "subtype")}
    <3> DEFINE k == First(Having(g, "subtype"))
    <3>1. /\ HasField(g, "subtype") /\ k \in 1 .. Len(g) /\ g[k].name = "subtype" /\ g[k].bits \in Nat
          /\ g[k].value \in Word /\ GetValue(g, "subtype") = g[k].value
          /\ GetValue(fs, "subtype") = Low(g[k].value, g[k].bits)
      BY <2>6, <2>10
    <3> HIDE DEF k
    <3>2. SubtypeForUpper(l) \in {{}, g[k].value}
      BY <2>5, <2>10, <3>1 DEF Settled
    <3>3. SubtypeForUpper(l) \in {kSubtypeAecp, kSubtypeAdp, {}}
      BY DEF SubtypeForUpper
    <3>4. kSubtypeAecp \subseteq Wide(g[k].bits) /\ kSubtypeAdp \subseteq Wide(g[k].bits)
      BY <2>7, <3>1 DEF SelectorsFit
    <3> HIDE DEF Wide
    <3>5. SubtypeForUpper(l) # {} => GetValue(fs, "subtype") = SubtypeForUpper(l)
      BY <2>8, <3>1, <3>2, <3>3, <3>4
    <3> QED
      BY <3>5
  <2>11. ASSUME y.logic = "ethernet_mac_frame", HasField(fs, "ethertype")
         PROVE  GetValue(fs, "ethertype") # {}
    <3> DEFINE k == First(Having(g, "ethertype"))
    <3>1. /\ HasField(g, "ethertype") /\ k \in 1 .. Len(g) /\ g[k].name = "ethertype" /\ g[k].bits \in Nat
          /\ g[k].value \in Word /\ GetValue(fs, "ethertype") = Low(g[k].value, g[k].bits)
      BY <2>6, <2>11
    <3>2. g[k].value = kEthertype1722 \/ (g[k].value # {} /\ Chosen(y, g, k))
      BY <2>5, <2>11, <3>1 DEF Settled
    <3> HIDE DEF k
    <3>3. /\ kEthertype1722 \subseteq Wide(g[k].bits)
          /\ PickValue(VarDb[refs[k]]) \subseteq SUBSET Wide(g[k].bits)
      BY <2>7, <3>1 DEF SelectorsFit
    <3> HIDE DEF Wide
    <3>4. g[k].value \subseteq Wide(g[k].bits) /\ g[k].value # {}
      BY <3>2, <3>3, WordFacts DEF Chosen, refs
    <3> QED
      BY <2>8, <3>1, <3>4
  <2> QED
    BY <2>9, <2>10, <2>11 DEF y, fs
<1>2. StackSpec => [](TypeInv /\ WorkInv)
  BY WorkInvariance
<1> QED
  BY <1>1, <1>2, PTL

\* The bytes of two parts, when the first ends at an octet boundary.
LEMMA CeilBytesSplit ==
  ASSUME NEW p \in Nat, NEW r \in Nat, p % 8 = 0
  PROVE  /\ CeilBytes(p + r) = CeilBytes(p) + CeilBytes(r)
         /\ CeilBytes(p) \in Nat /\ CeilBytes(r) \in Nat
BY DEF CeilBytes

\* A layer's bytes: those up to field k, and those after it.
LEMMA ByteSizeSplit ==
  ASSUME NEW fields \in Seq(Field), NEW k \in 1 .. Len(fields),
         BitLength(SubSeq(fields, 1, k)) % 8 = 0
  PROVE  LET p == CeilBytes(BitLength(SubSeq(fields, 1, k)))
             r == CeilBytes(BitLength(SubSeq(fields, k + 1, Len(fields)))) IN
         p \in Nat /\ r \in Nat /\ ByteSize(fields) = p + r
<1> DEFINE w == Widths(fields)
           N == Len(fields)
           P == BitLength(SubSeq(fields, 1, k))
           R == BitLength(SubSeq(fields, k + 1, N))
<1>1. /\ N \in Nat /\ k \in 0 .. N /\ k + 1 \in 1 .. N + 1 /\ 1 \in 1 .. N + 1 /\ N \in 0 .. N
  OBVIOUS
<1>2. w \in Seq(Nat) /\ Len(w) = N
  BY WidthsFacts
<1>3. P = Sum(SubSeq(w, 1, k)) /\ R = Sum(SubSeq(w, k + 1, N))
  BY <1>1, WidthsSub DEF BitLength
<1>4. BitLength(fields) = Sum(w)
  BY DEF BitLength
<1>5. SumUpTo(w)[k] \in Nat /\ P = SumUpTo(w)[k] /\ R \in Nat /\ Sum(w) = SumUpTo(w)[k] + R
  <2> HIDE DEF w, P, R
  <2>1. /\ SumUpTo(w)[k] \in Nat /\ Sum(SubSeq(w, 1, k)) = SumUpTo(w)[k]
        /\ Sum(SubSeq(w, k + 1, Len(w))) \in Nat
        /\ Sum(w) = SumUpTo(w)[k] + Sum(SubSeq(w, k + 1, Len(w)))
    BY <1>1, <1>2, SumSplit
  <2> QED
    BY <1>2, <1>3, <2>1
<1>6. P % 8 = 0
  OBVIOUS
<1> HIDE DEF P, R, w
<1>7. P \in Nat /\ R \in Nat /\ BitLength(fields) = P + R
  BY <1>4, <1>5
<1>8. CeilBytes(P + R) = CeilBytes(P) + CeilBytes(R) /\ CeilBytes(P) \in Nat /\ CeilBytes(R) \in Nat
  BY <1>6, <1>7, CeilBytesSplit
<1> QED
  BY <1>7, <1>8 DEF ByteSize, P, R

\* The bytes of the layers above layer l of a frame, from the frame's size.
LEMMA AboveInFrame ==
  ASSUME TypeInv, WorkInv, stage = "idle", made # <<>>, NEW l \in 1 .. Len(made)
  PROVE  LET sizes == [m \in DOMAIN made |-> made[m].bytes.size] IN
         /\ Above(FieldsOf(made), l) \in Nat /\ Sum(SubSeq(sizes, 1, l - 1)) \in Nat
         /\ frame.size = Sum(SubSeq(sizes, 1, l - 1)) + ByteSize(made[l].fields)
                           + Above(FieldsOf(made), l)
<1> DEFINE s == SizesOf(made)
           c == FieldsOf(made)
           t == ByteSizes(c)
           N == Len(made)
<1>1. /\ N \in Nat /\ DOMAIN made = 1 .. N
      /\ \A m \in 1 .. N : made[m].bytes \in Buffer /\ made[m].fields \in Seq(Field)
  BY MadeFacts
<1>2. \A m \in 1 .. N : made[m].bytes.size = ByteSize(made[m].fields)
  <2>1. \A m \in 1 .. N : made[m].bytes = PackBytes(made[m].fields)
    BY DEF WorkInv, MadeInv
  <2> QED
    BY <1>1, <2>1, PackFacts
<1>3. made \in Seq(Packed)
  BY DEF TypeInv, ResultInv, Packed
<1>4. s \in Seq(Nat) /\ Len(s) = N /\ \A m \in 1 .. N : s[m] = made[m].bytes.size
  BY <1>3, SizesOfFacts
<1>5. c \in Seq(Seq(Field)) /\ Len(c) = N /\ DOMAIN c = 1 .. N /\ \A m \in 1 .. N : c[m] = made[m].fields
  <2>1. c \in [1 .. N -> Seq(Field)] /\ \A m \in 1 .. N : c[m] = made[m].fields
    BY <1>1 DEF FieldsOf
  <2> QED
    BY <1>1, <2>1, SeqOfFunction
<1>6. [m \in DOMAIN made |-> made[m].bytes.size] = s
  BY <1>1 DEF SizesOf
<1>7. t = s
  <2>1. t = [m \in 1 .. N |-> ByteSize(made[m].fields)]
    BY <1>5 DEF ByteSizes
  <2>2. s = [m \in 1 .. N |-> made[m].bytes.size]
    BY DEF SizesOf
  <2> QED
    BY <1>2, <2>1, <2>2
<1>8. frame.size = Sum(s)
  BY DEF WorkInv, SliceInv, Slices
<1> HIDE DEF s, c, t
<1>9. Above(c, l) = Sum(SubSeq(s, l + 1, N))
  BY <1>5, <1>7 DEF Above, t
<1> DEFINE before == Sum(SubSeq(s, 1, l - 1))
           above == Sum(SubSeq(s, l + 1, N))
<1>10. l \in 0 .. Len(s) /\ l - 1 \in 0 .. Len(s) /\ l \in 1 .. Len(s)
  BY <1>1, <1>4
<1>11. before \in Nat /\ before = SumUpTo(s)[l - 1]
  BY <1>4, <1>10, SumSplit
<1>12. above \in Nat /\ Sum(s) = SumUpTo(s)[l] + above
  BY <1>4, <1>10, SumSplit
<1>13. SumUpTo(s)[l] = SumUpTo(s)[l - 1] + s[l] /\ s[l] \in Nat
  BY <1>4, <1>10, SumUpToGrows
<1> HIDE DEF before, above
<1>14. frame.size = before + s[l] + above
  BY <1>8, <1>11, <1>12, <1>13
<1>15. s[l] = ByteSize(made[l].fields)
  BY <1>2, <1>4
<1> QED
  BY <1>6, <1>9, <1>11, <1>12, <1>14, <1>15 DEF before, above, c

\* An interface's only field called control_data_length is the first one.
LEMMA OnlyLengthField ==
  ASSUME OneLengthField, NEW y, FromDatabase(y.iface), y.iface.refs \in Seq(Refs),
         NEW fields \in Seq(Field), Layout(y, fields),
         NEW k \in Having(fields, "control_data_length")
  PROVE  HasField(fields, "control_data_length") /\ First(Having(fields, "control_data_length")) = k
<1> DEFINE name == "control_data_length"
           j == First(Having(fields, name))
           refs == FieldsOfInterface(y.iface)
<1>1. k \in 1 .. Len(fields) /\ fields[k].name = name
  BY DEF Having
<1>2. HasField(fields, name)
  BY DEF HasField
<1>3. j \in 1 .. Len(fields) /\ fields[j].name = name
  BY <1>2, HavingFacts
<1>4. refs \in Seq(Refs) /\ DOMAIN refs = 1 .. Len(refs)
  BY InterfaceFacts
<1>5. Len(refs) = Len(fields) /\ \A i \in 1 .. Len(fields) : fields[i].name = ShortName[refs[i]]
  BY DEF Layout, FieldRefs
<1>6. PICK n \in DOMAIN Interfaces : y.iface.refs = Interfaces[n].refs
  <2>1. y.iface.refs # <<>>
    <3>1. \E i \in 1 .. Len(y.iface.refs) : refs[k] = y.iface.refs[i]
      BY <1>1, <1>5, InterfaceFacts
    <3> QED
      BY <3>1
  <2> QED
    BY <2>1 DEF FromDatabase
<1>7. refs = FieldsOfInterface(Interfaces[n])
  BY <1>6 DEF FieldsOfInterface
<1>8. \A a, b \in DOMAIN refs : ShortName[refs[a]] = name /\ ShortName[refs[b]] = name => a = b
  BY <1>7 DEF OneLengthField
<1> HIDE DEF j, refs
<1>9. j = k
  BY <1>1, <1>3, <1>4, <1>5, <1>8
<1> QED
  BY <1>2, <1>9 DEF j

\* Where no interface has two such fields, control_data_length on the wire is
\* the number of octets that follow it in the finished frame, the layers above
\* included, as far as the field's width can say it.
THEOREM LengthOnTheWire ==
  ASSUME WidthsAgree, OneLengthField PROVE StackSpec => []LengthCountsOctets
<1>1. TypeInv /\ WorkInv => LengthCountsOctets
  <2> SUFFICES ASSUME TypeInv, WorkInv, stage = "idle", made # <<>>, NEW l \in DOMAIN made,
                      stack[l].logic = "aecp_aem",
                      NEW k \in Having(made[l].fields, "control_data_length"),
                      BitLength(SubSeq(made[l].fields, 1, k)) % 8 = 0
               PROVE  made[l].fields[k].value = ToWord(OctetsFollowing(l, k))
    BY DEF LengthCountsOctets, Made
  <2> DEFINE f == made[l].fields
             name == "control_data_length"
             above == Above(FieldsOf(made), l)
             before == Sum(SubSeq([m \in DOMAIN made |-> made[m].bytes.size], 1, l - 1))
             p == CeilBytes(BitLength(SubSeq(f, 1, k)))
             r == CeilBytes(BitLength(SubSeq(f, k + 1, Len(f))))
  <2>1. l \in 1 .. Len(made) /\ f \in Seq(Field)
    BY MadeFacts
  <2>2. l \in 1 .. Len(stack)
    BY <2>1 DEF WorkInv, MadeInv
  <2>3. Layout(stack[l], f) /\ Settled(stack[l], SubtypeForUpper(l), above, f)
    BY <2>1 DEF WorkInv, MadeInv
  <2>4. HasField(f, name) /\ First(Having(f, name)) = k
    <3>1. FromDatabase(stack[l].iface) /\ stack[l].iface.refs \in Seq(Refs)
      BY <2>2, LayerFacts DEF TypeInv, BoundInv
    <3> QED
      BY <2>1, <2>3, <3>1, OnlyLengthField
  <2>5. f[k].value = ToWord(r + above)
    BY <2>3, <2>4 DEF Settled, GetValue, BytesAfter
  <2>6. p \in Nat /\ r \in Nat /\ ByteSize(f) = p + r
    <3>1. k \in 1 .. Len(f)
      BY <2>1 DEF Having
    <3> QED
      BY <2>1, <3>1, ByteSizeSplit
  <2>7. above \in Nat /\ before \in Nat /\ frame.size = before + ByteSize(f) + above
    BY <2>1, AboveInFrame
  <2>8. OctetsFollowing(l, k) = frame.size - before - p
    BY DEF OctetsFollowing
  <2> HIDE DEF above, before, p, r
  <2>9. OctetsFollowing(l, k) = r + above
    BY <2>6, <2>7, <2>8
  <2> QED
    BY <2>5, <2>9
<1>2. StackSpec => [](TypeInv /\ WorkInv)
  BY WorkInvariance
<1> QED
  BY <1>1, <1>2, PTL
-----------------------------------------------------------------------------
(* Session *)

\* The codecs do not disturb each other.
LEMMA CodecsApart ==
  SessionSpec => Spec /\ StackSpec
<1>1. SessionInit => Init /\ StackInit
  BY DEF SessionInit
<1>2. [SessionNext]_<<vars, stackVars>> => [Next]_vars /\ [StackNext]_stackVars
  BY DEF SessionNext, UseInterfaces, UseStack
<1> QED
  BY <1>1, <1>2, PTL DEF SessionSpec, Spec, StackSpec

\* All that is said of either codec holds of a Session with both.
THEOREM SessionIsSound ==
  ASSUME WidthsAgree, OneLengthField, SelectorsFit
  PROVE  SessionSpec => []( /\ TypeOK /\ RoundTrip /\ LayerSlicesExact
                            /\ ConstraintsHeld /\ ChainCarriesOneStage
                            /\ StackTypeOK /\ ContextIsLayout /\ OnlyDerivedFieldsChange
                            /\ LengthCountsOctets /\ CommandsAreClean /\ StackRoundTrip )
<1>1. Spec => []TypeOK /\ []RoundTrip /\ []LayerSlicesExact /\ []ConstraintsHeld /\ []ChainCarriesOneStage
  BY TypeCorrect, DecodeInvertsBuild, LayersStayAligned, ValuesHonourConstraints, ChainIsStepwise
<1>2. StackSpec => []StackTypeOK /\ []ContextIsLayout /\ []OnlyDerivedFieldsChange
  BY StackTypes, ContextsHaveTheLayout, OnlyModulesChangeFields
<1>3. StackSpec => []LengthCountsOctets /\ []CommandsAreClean /\ []StackRoundTrip
  BY LengthOnTheWire, DecodedCommandsAreClean, StackDecodeInvertsGenerate
<1> QED
  BY <1>1, <1>2, <1>3, CodecsApart, PTL
=============================================================================
