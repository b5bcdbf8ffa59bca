---------------------------- MODULE PacketCodec ----------------------------
(***************************************************************************)
(* The packet builder and the packet decoder, driven the way Session       *)
(* drives them: a list of interfaces is built layer by layer, its bytes    *)
(* cross a wire on which the tail of a frame may be missing, and the same  *)
(* list of interfaces decodes what arrived.                                *)
(*                                                                         *)
(* mode = "stack" is Session::generateStack / decodeStack on a list of     *)
(* interfaces: the layers' bytes are concatenated into one frame.          *)
(* mode = "chain" is Session::generateChain: every stage is a packet of    *)
(* its own, and the fields of a stage override the equally named fields of *)
(* the next.  Each of its packets is decoded by Session::decode.           *)
(*                                                                         *)
(* The loops over var_refs are steps of the state machine: one step builds *)
(* or decodes one reference.  A call leaves no state behind but the random *)
(* generator's, so a behaviour is one call and its decoding.               *)
(***************************************************************************)
EXTENDS VarDatabase

CONSTANTS
  Programs,   \* the interface lists a user may ask for
  Cuts        \* numbers of bytes after which a captured frame may end

ASSUME ProgramsAssumption == Programs \subseteq Seq(Seq(Refs))

ASSUME CutsAssumption == Cuts \subseteq Nat

VARIABLES
  mode, layers,       \* what the user asked for
  phase,              \* "build", "decode" or "done"
  li, ri,             \* the layer and the var_ref the loops are at
  bitOffset,          \* of the builder's or the decoder's loop
  cur,                \* the BuiltPacket being filled
  carry, overrides,   \* fields of this stage and of the previous one, by name
  built, bytes,       \* finished packets; their concatenation
  received, offset,   \* the buffer handed to each decode call; its byteOffset
  totalBits,          \* PacketDecoder::layerBytes' sum
  decoded             \* finished decoded packets

(***************************************************************************)
(* History, read by no action: the builder's bitOffset before each         *)
(* reference of the current layer and of the finished ones, and the byte   *)
(* at which each finished layer starts in its frame.                       *)
(***************************************************************************)
VARIABLES curAt, at, base

buildVars == <<carry, overrides, built, bytes, curAt, at, base>>
decodeVars == <<received, offset, totalBits, decoded>>
vars == <<mode, layers, phase, li, ri, bitOffset, cur, buildVars, decodeVars>>

EmptyMap == [x \in {} |-> {}]

Start == [k \in {1} |-> 0]

EmptyPacket == [bytes |-> EmptyBuffer, fields |-> EmptyMap]

\* The function f, with argument x mapped to y.
Extend(f, x, y) == [z \in DOMAIN f \cup {x} |-> IF z = x THEN y ELSE f[z]]

Iface == layers[li]

Ref == Iface[ri]
-----------------------------------------------------------------------------
(* Values *)

\* Faulty variant: the previous stage's value beats even an expected list.
FieldValueOverrideWins(ref) ==
  LET var == VarDb[ref]  name == ShortName[ref] IN
  IF name \in DOMAIN overrides THEN {overrides[name] \cap var.mask} ELSE PickValue(var)

(***************************************************************************)
(* The value of a field: an expected list wins, then the previous stage's  *)
(* value under the field's mask, then a fresh choice.  With no overrides   *)
(* this is buildWithFields.                                                *)
(***************************************************************************)
FieldValue(ref) ==
  LET var == VarDb[ref]  name == ShortName[ref] IN
  IF var.expected = {} /\ name \in DOMAIN overrides
    THEN {overrides[name] \cap var.mask}
    ELSE PickValue(var)
-----------------------------------------------------------------------------
(* Building *)

Init ==
  /\ mode \in {"stack", "chain"} /\ layers \in Programs /\ phase = "build"
  /\ li = 1 /\ ri = 1 /\ bitOffset = 0 /\ cur = EmptyPacket
  /\ carry = EmptyMap /\ overrides = EmptyMap /\ built = EmptyMap /\ bytes = EmptyBuffer
  /\ received = EmptyMap /\ offset = 0 /\ totalBits = 0 /\ decoded = EmptyMap
  /\ curAt = Start /\ at = EmptyMap /\ base = EmptyMap

AtRef == li <= Len(layers) /\ ri <= Len(Iface)

AtEnd == li <= Len(layers) /\ ri > Len(Iface)

\* One live reference: choose its value, append its bits, record the field.
BuildField ==
  /\ phase = "build" /\ AtRef /\ Live(Ref)
  /\ \E v \in FieldValue(Ref) :
       /\ cur' = [bytes  |-> AppendBits(cur.bytes, bitOffset, v, Size(Ref)),
                  fields |-> Extend(cur.fields, ri, v)]
       /\ carry' = Extend(carry, ShortName[Ref], v)
  /\ bitOffset' = bitOffset + Size(Ref)
  /\ curAt' = Extend(curAt, ri + 1, bitOffset + Size(Ref))
  /\ ri' = ri + 1
  /\ UNCHANGED <<mode, layers, phase, li, overrides, built, bytes, at, base, decodeVars>>

\* Faulty variant: an unresolved reference still records a field.
BuildSkipWithField ==
  /\ phase = "build" /\ AtRef /\ ~Live(Ref)
  /\ cur' = [cur EXCEPT !.fields = Extend(@, ri, {})]
  /\ curAt' = Extend(curAt, ri + 1, bitOffset)
  /\ ri' = ri + 1
  /\ UNCHANGED <<mode, layers, phase, li, bitOffset, carry, overrides,
                 built, bytes, at, base, decodeVars>>

\* A reference that does not resolve, or resolves to a variable of size 0.
BuildSkip ==
  /\ phase = "build" /\ AtRef /\ ~Live(Ref)
  /\ curAt' = Extend(curAt, ri + 1, bitOffset)
  /\ ri' = ri + 1
  /\ UNCHANGED <<mode, layers, phase, li, bitOffset, cur, carry, overrides,
                 built, bytes, at, base, decodeVars>>

\* Faulty variant: fields of earlier stages stay among the overrides.
NextOverridesKept == IF mode = "chain"
  THEN [n \in DOMAIN carry \cup DOMAIN overrides |->
          IF n \in DOMAIN carry THEN carry[n] ELSE overrides[n]]
  ELSE EmptyMap

\* The overrides of the next stage are exactly the fields of this one.
NextOverrides == IF mode = "chain" THEN carry ELSE EmptyMap

\* End of a layer: the packet is moved to the result.
BuildLayer ==
  /\ phase = "build" /\ AtEnd
  /\ built' = Extend(built, li, cur)
  /\ bytes' = IF mode = "stack" THEN Concat(bytes, cur.bytes) ELSE bytes
  /\ overrides' = NextOverrides
  /\ carry' = EmptyMap
  /\ at' = Extend(at, li, curAt)
  /\ base' = Extend(base, li, IF mode = "stack" THEN bytes.size ELSE 0)
  /\ li' = li + 1 /\ ri' = 1 /\ bitOffset' = 0
  /\ cur' = EmptyPacket /\ curAt' = Start
  /\ UNCHANGED <<mode, layers, phase, decodeVars>>

(***************************************************************************)
(* The bytes reach the decoder, whole or cut short: one frame for a stack, *)
(* one packet per stage for a chain.                                       *)
(***************************************************************************)
Deliver ==
  /\ phase = "build" /\ li > Len(layers)
  /\ \E n \in Cuts :
       received' = [l \in 1 .. Len(layers) |->
                      Truncate(IF mode = "stack" THEN bytes ELSE built[l].bytes, n)]
  /\ phase' = "decode"
  /\ li' = 1
  /\ UNCHANGED <<mode, layers, ri, bitOffset, cur, buildVars, offset, totalBits, decoded>>
-----------------------------------------------------------------------------
(* Decoding *)

\* One live reference; layerBytes' loop over the same list runs alongside.
DecodeField ==
  /\ phase = "decode" /\ AtRef /\ Live(Ref)
  /\ cur' = [cur EXCEPT !.fields =
               Extend(@, ri, ExtractBits(received[li], bitOffset, Size(Ref)))]
  /\ bitOffset' = bitOffset + Size(Ref)
  /\ totalBits' = totalBits + Size(Ref)
  /\ ri' = ri + 1
  /\ UNCHANGED <<mode, layers, phase, li, buildVars, received, offset, decoded>>

DecodeSkip ==
  /\ phase = "decode" /\ AtRef /\ ~Live(Ref)
  /\ ri' = ri + 1
  /\ UNCHANGED <<mode, layers, phase, li, bitOffset, cur, buildVars, decodeVars>>

\* Faulty variant: a last partial byte is not counted.
LayerBytesRoundedDown == totalBits \div 8

LayerBytes == CeilBytes(totalBits)

\* Faulty variant: a layer claims all the bytes up to the end.
LayerSliceToEnd == Slice(received[li], offset, received[li].size)

\* The bytes of the input that this layer used, as many as there are.
LayerSlice ==
  LET end == IF offset + LayerBytes < received[li].size
               THEN offset + LayerBytes ELSE received[li].size IN
  IF offset < end THEN Slice(received[li], offset, end) ELSE EmptyBuffer

\* The byteOffset of the next decode call; Session::decode always passes 0.
NextOffset == IF mode = "stack" THEN offset + LayerBytes ELSE 0

DecodeLayer ==
  /\ phase = "decode" /\ AtEnd
  /\ decoded' = Extend(decoded, li, [cur EXCEPT !.bytes = LayerSlice])
  /\ offset' = NextOffset
  /\ bitOffset' = 8 * NextOffset
  /\ li' = li + 1 /\ ri' = 1 /\ totalBits' = 0 /\ cur' = EmptyPacket
  /\ UNCHANGED <<mode, layers, phase, buildVars, received>>

DecodeEnd ==
  /\ phase = "decode" /\ li > Len(layers)
  /\ phase' = "done"
  /\ UNCHANGED <<mode, layers, li, ri, bitOffset, cur, buildVars, decodeVars>>

Next == BuildField \/ BuildSkip \/ BuildLayer \/ Deliver
          \/ DecodeField \/ DecodeSkip \/ DecodeLayer \/ DecodeEnd

Spec == Init /\ [][Next]_vars
-----------------------------------------------------------------------------
(* Properties *)

PacketOf(iface, n) == [bytes : Buffer, fields : [LivePos(iface, n) -> Word]]

IsNameMap(f) == DOMAIN f \subseteq Names /\ f \in [DOMAIN f -> Word]

\* Every variable has its type; a packet has one field per live reference the
\* loops have passed (buildWithFields, buildWithOverrides, decode).
TypeOK ==
  /\ mode \in {"stack", "chain"} /\ layers \in Programs
  /\ phase \in {"build", "decode", "done"}
  /\ li \in 1 .. Len(layers) + 1
  /\ ri \in 1 .. (IF li <= Len(layers) THEN Len(Iface) ELSE 0) + 1
  /\ bitOffset \in Nat /\ offset \in Nat /\ totalBits \in Nat
  /\ cur \in PacketOf(IF li <= Len(layers) THEN Iface ELSE <<>>, ri - 1)
  /\ IsNameMap(carry) /\ IsNameMap(overrides)
  /\ bytes \in Buffer
  /\ DOMAIN built = 1 .. (IF phase = "build" THEN li - 1 ELSE Len(layers))
  /\ \A l \in DOMAIN built : built[l] \in PacketOf(layers[l], Len(layers[l]))
  /\ DOMAIN decoded = 1 .. (IF phase = "build" THEN 0 ELSE li - 1)
  /\ \A l \in DOMAIN decoded : decoded[l] \in PacketOf(layers[l], Len(layers[l]))
  /\ received \in [1 .. (IF phase = "build" THEN 0 ELSE Len(layers)) -> Buffer]

\* The wire position at which the builder put bit i of field j of layer l.
WirePos(l, j, i) == 8 * base[l] + at[l][j] + (Size(layers[l][j]) - 1 - i)

\* Decoding inverts building, bit by bit and across layers: every decoded field
\* is the low bits of the value the builder recorded, whatever the widths and
\* the alignment, and in a frame cut short (a short --decode hex string, a
\* short capture) exactly the missing bits read as zero.
RoundTrip ==
  \A l \in DOMAIN decoded :
    \A j \in LivePos(layers[l], Len(layers[l])) :
      decoded[l].fields[j] =
        {i \in Low(built[l].fields[j], Size(layers[l][j])) :
           WirePos(l, j, i) < 8 * received[l].size}

\* A layer's decoded bytes are the bytes that were built for it: layerBytes
\* advances the decoder over as many bytes as the builder emitted, in every
\* layer of the stack whose bytes all arrived.
LayerSlicesExact ==
  \A l \in DOMAIN decoded :
    base[l] + built[l].bytes.size <= received[l].size
      => decoded[l].bytes = built[l].bytes

\* What the builder writes honours the variable's list of expected values even
\* under an override, and its mask where neither list nor range decides.
ConstraintsHeld ==
  \A l \in DOMAIN built : \A j \in DOMAIN built[l].fields :
    LET var == VarDb[layers[l][j]]  v == built[l].fields[j] IN
    /\ var.expected # {} => v \in var.expected
    /\ var.expected = {} /\ var.range = <<>> => v \subseteq var.mask

\* The fields of layer l with the short name n.
Named(l, n) == {j \in DOMAIN built[l].fields : ShortName[layers[l][j]] = n}

\* generateChain carries a value over exactly one connection: a field without
\* an expected list equals the last equally named field of the previous stage,
\* under its mask, and a name the previous stage lacks is chosen afresh even
\* when an earlier stage had it.
ChainCarriesOneStage ==
  mode = "chain" =>
    \A l \in DOMAIN built \ {1} : \A j \in DOMAIN built[l].fields :
      LET var == VarDb[layers[l][j]]
          from == Named(l - 1, ShortName[layers[l][j]])
          v == built[l].fields[j] IN
      var.expected = {} =>
        IF from = {} THEN v \in PickValue(var)
        ELSE \E k \in from : /\ \A m \in from : m <= k
                            /\ v = built[l - 1].fields[k] \cap var.mask

\* "a hard-constrained field is never overridden by a previous stage's value":
\* a field with a range and no expected list has a value of its range.
RangeNeverOverridden ==
  \A l \in DOMAIN built : \A j \in DOMAIN built[l].fields :
    LET var == VarDb[layers[l][j]] IN
    var.range # <<>> => built[l].fields[j] \in PickValue(var)
=============================================================================
