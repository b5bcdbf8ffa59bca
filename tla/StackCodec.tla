----------------------------- MODULE StackCodec -----------------------------
(***************************************************************************)
(* The logic-driven stack runtime (packet_gen --stack-file): StackBuilder  *)
(* binds each layer of a stack file to a service and to that service's     *)
(* logic module, and Session::generateStack / decodeStack run a bound      *)
(* Stack: load every layer's context, let the modules derive fields, pack; *)
(* and the other way round.                                                *)
(*                                                                         *)
(* A Stack is kept and reused for every frame, so its layer contexts carry *)
(* state from call to call: a behaviour is a sequence of loads, generate   *)
(* and decode calls.  Each pass over the layers is one step per layer.     *)
(***************************************************************************)
EXTENDS VarDatabase, Loops

CONSTANTS
  Interfaces,     \* Database<ProtocolInterface> in key order:
                  \* [service, entity, name, refs]
  ServiceLogic,   \* Database<ProtocolService>: the logic each declares, or none
  Registry,       \* names in LogicRegistry
  Family,         \* by service: "aecp", "adp" or "other" (its name's prefix)
  kSubtypeAecp, kSubtypeAdp, kEthertype1722,
  StackFiles,     \* stack files: [err, layers]; err is what reading the file
                  \* itself returns, layers the YAML maps
  ForeignFrames,  \* frames that another program put on the wire
  FrameCuts,      \* numbers of bytes after which a frame may end
  MaxCalls        \* bound: calls of generateStack and decodeStack

ASSUME StackAssumption ==
  /\ Interfaces \in Seq([service : STRING, entity : STRING, name : STRING, refs : Seq(Refs)])
  /\ \A f \in StackFiles : f.layers \in Seq([service : STRING, entity : STRING,
                                            interface : STRING, bypass : BOOLEAN])
  /\ Family \in [DOMAIN ServiceLogic -> {"aecp", "adp", "other"}]
  /\ {kSubtypeAecp, kSubtypeAdp, kEthertype1722} \subseteq Word \ {{}}
  /\ ForeignFrames \subseteq Buffer /\ FrameCuts \subseteq Nat /\ MaxCalls \in Nat

VARIABLES
  loadErr,    \* what the last StackBuilder::build returned
  stack,      \* the bound layers, bottom first: [service, iface, bypass, logic]
  ctx,        \* their LayerContexts' fields: [name, value, bits]
  stage,      \* the loop a call is in: "idle", "populate", "encode", "pack",
              \* "decode"
  level,      \* the layer it is at
  frame, made,         \* generateStack's result: bytes and layers
  input, rxOffset, back, \* decodeStack's argument, position and result
  seen,       \* by layer: the module's mLastEthertype / mLastSubtype / mLastCdl
  diverged,   \* layers whose demux check reported a divergence
  calls

stackVars == <<loadErr, stack, ctx, stage, level, frame, made, input, rxOffset, back, seen,
               diverged, calls>>

\* No name, or PassthroughLogic.
NoText == ""
-----------------------------------------------------------------------------
(* StackBuilder and Session::interfaceForLayer *)

First(S) == CHOOSE k \in S : \A j \in S : k <= j

LayerErr(y) ==
  IF y.service = NoText THEN "MISSING_KEY"
  ELSE IF y.service \notin DOMAIN ServiceLogic THEN "UNKNOWN_SERVICE"
  ELSE IF ~y.bypass /\ ServiceLogic[y.service] \notin Registry \cup {NoText} THEN "UNKNOWN_LOGIC"
  ELSE "SUCCESS"

\* The first error of the file, or SUCCESS.
BuildErr(f) ==
  LET bad == {k \in DOMAIN f.layers : LayerErr(f.layers[k]) # "SUCCESS"}
  IN  IF f.err # "SUCCESS" THEN f.err
      ELSE IF bad = {} THEN "SUCCESS" ELSE LayerErr(f.layers[First(bad)])

\* Faulty variant: bypass-logic has no effect.
LogicForIgnoringBypass(y) == ServiceLogic[y.service]

\* The module bound to a layer.
LogicFor(y) == IF y.bypass THEN NoText ELSE ServiceLogic[y.service]

(***************************************************************************)
(* An explicit interface is looked up under its full name, with whatever   *)
(* entity the layer names; otherwise the first interface under the         *)
(* layer's service, and entity if it names one, is taken.                  *)
(***************************************************************************)
InterfaceForLayer(y) ==
  LET Fits(i) == /\ i.service = y.service
                 /\ IF y.interface # NoText THEN i.entity = y.entity /\ i.name = y.interface
                                           ELSE y.entity \in {NoText, i.entity}
      matches == {k \in DOMAIN Interfaces : Fits(Interfaces[k])}
  IN  IF matches = {} THEN [found |-> FALSE, refs |-> <<>>]
      ELSE [found |-> TRUE, refs |-> Interfaces[First(matches)].refs]

Bound(y) == [service |-> y.service, iface |-> InterfaceForLayer(y),
             bypass |-> y.bypass, logic |-> LogicFor(y)]

\* Faulty variant: the stack is handed out before it is complete.
LayersSoFar(f) ==
  Filter(f.layers, {f.layers[k] : k \in {j \in DOMAIN f.layers : LayerErr(f.layers[j]) = "SUCCESS"}})

\* The layers of the stack that build() hands out: on any error, none.
LayersBuilt(f) == IF BuildErr(f) = "SUCCESS" THEN f.layers ELSE <<>>

StackInit ==
  /\ loadErr = "none" /\ stack = <<>> /\ ctx = <<>> /\ stage = "idle" /\ level = 1
  /\ frame = EmptyBuffer /\ made = <<>>
  /\ input = EmptyBuffer /\ rxOffset = 0 /\ back = <<>>
  /\ seen = <<>> /\ diverged = {} /\ calls = 0

\* Session::loadStack: a failed build leaves no stack, not even the old one.
LoadStack ==
  /\ stage = "idle" /\ calls < MaxCalls
  /\ \E f \in StackFiles :
       LET ys == LayersBuilt(f) IN
       /\ loadErr' = BuildErr(f)
       /\ stack' = [k \in 1 .. Len(ys) |-> Bound(ys[k])]
       /\ ctx' = [k \in 1 .. Len(ys) |-> <<>>]
       /\ seen' = [k \in 1 .. Len(ys) |-> {}]
  /\ frame' = EmptyBuffer /\ made' = <<>> /\ back' = <<>> /\ diverged' = {}
  /\ calls' = calls + 1
  /\ UNCHANGED <<stage, level, input, rxOffset>>
-----------------------------------------------------------------------------
(* LayerContext *)

Field == [name : Names, value : Word, bits : Nat \ {0}]

FieldsOfInterface(iface) == Filter(iface.refs, {r \in Refs : Live(r)})

\* The declared width that populateContext finds for a short name: that of
\* the first reference with this name, 0 when it does not resolve.
DeclaredBits(iface, name) ==
  Size(iface.refs[First({j \in DOMAIN iface.refs : ShortName[iface.refs[j]] = name})])

\* Faulty variant: clearFields() is missing.
PopulateContextKept(l, iface, fieldValues) ==
  ctx[l] \o [k \in DOMAIN fieldValues |->
               [name |-> fieldValues[k].name, value |-> fieldValues[k].value,
                bits |-> DeclaredBits(iface, fieldValues[k].name)]]

\* populateContext(layer l's context, ...): the fields it holds afterwards; a
\* width of 0 makes no field.
PopulateContext(l, iface, fieldValues) ==
  Filter([k \in DOMAIN fieldValues |->
            [name |-> fieldValues[k].name, value |-> fieldValues[k].value,
             bits |-> DeclaredBits(iface, fieldValues[k].name)]],
         Field)

Having(fields, name) == {k \in DOMAIN fields : fields[k].name = name}

HasField(fields, name) == Having(fields, name) # {}

GetValue(fields, name) == fields[First(Having(fields, name))].value

\* setValue: the first field of that name, if there is one.
SetValue(fields, name, value) ==
  IF HasField(fields, name)
    THEN [fields EXCEPT ![First(Having(fields, name))].value = value]
    ELSE fields

Widths(fields) == [k \in DOMAIN fields |-> fields[k].bits]

BitLength(fields) == Sum(Widths(fields))

ByteSize(fields) == CeilBytes(BitLength(fields))

ByteSizes(contexts) == [l \in DOMAIN contexts |-> ByteSize(contexts[l])]

BytesAfter(fields, name) ==
  CeilBytes(BitLength(SubSeq(fields, First(Having(fields, name)) + 1, Len(fields))))

\* Faulty variant: the walk starts at the layer itself.
BytesAboveWithSelf(l) == Sum(SubSeq(ByteSizes(ctx), l, Len(ctx)))

BytesAbove(l) == Sum(SubSeq(ByteSizes(ctx), l + 1, Len(ctx)))
-----------------------------------------------------------------------------
(* The logic modules *)

\* The uint64_t with value n.
ToWord(n) == {i \in 0 .. WordBits - 1 : (n \div 2 ^ i) % 2 = 1}

EthernetOnEncode(fields) ==
  IF ~HasField(fields, "ethertype") \/ GetValue(fields, "ethertype") = {}
    THEN SetValue(fields, "ethertype", kEthertype1722)
    ELSE fields

SubtypeForUpper(l) ==
  IF l = Len(stack) THEN {}
  ELSE CASE Family[stack[l + 1].service] = "aecp" -> kSubtypeAecp
         [] Family[stack[l + 1].service] = "adp" -> kSubtypeAdp
         [] OTHER -> {}

AvtpOnEncode(l, fields) ==
  LET fs == IF SubtypeForUpper(l) # {}
              THEN SetValue(fields, "subtype", SubtypeForUpper(l)) ELSE fields
  IN  SetValue(SetValue(SetValue(fs, "sv", {}), "version", {}), "reserved", {})

\* Faulty variant: status is left as generated.
AecpOnEncodeStatusKept(l, fields) ==
  IF HasField(fields, "control_data_length")
    THEN SetValue(fields, "control_data_length",
                  ToWord(BytesAfter(fields, "control_data_length") + BytesAbove(l)))
    ELSE fields

\* An even message_type is a command; its status is 0.
AecpOnEncode(l, fields) ==
  LET fs == IF HasField(fields, "control_data_length")
              THEN SetValue(fields, "control_data_length",
                            ToWord(BytesAfter(fields, "control_data_length") + BytesAbove(l)))
              ELSE fields
  IN  IF HasField(fs, "message_type") /\ 0 \notin GetValue(fs, "message_type")
        THEN SetValue(fs, "status", {}) ELSE fs

\* Layer l's fields after its module's onEncode.
OnEncode(l) ==
  CASE stack[l].logic = "ethernet_mac_frame" -> EthernetOnEncode(ctx[l])
    [] stack[l].logic = "avtp_control" -> AvtpOnEncode(l, ctx[l])
    [] stack[l].logic = "aecp_aem" -> AecpOnEncode(l, ctx[l])
    [] OTHER -> ctx[l]

\* The field whose value onDecode remembers, if any.
Remembered(l) ==
  CASE stack[l].logic = "ethernet_mac_frame" -> "ethertype"
    [] stack[l].logic = "avtp_control" -> "subtype"
    [] stack[l].logic = "aecp_aem" -> "control_data_length"
    [] OTHER -> NoText

\* nextLayer: the service above, if there is one (Ethernet has a default).
NextLayer(l) ==
  IF stack[l].logic = NoText THEN NoText
  ELSE IF l < Len(stack) THEN stack[l + 1].service
  ELSE IF stack[l].logic = "ethernet_mac_frame" THEN "1722_avtp_common_stream" ELSE NoText
-----------------------------------------------------------------------------
(* Session::generateStack(Stack&) *)

\* A call on a stack of no layers returns at once.
FirstPass(pass) == IF stack = <<>> THEN "idle" ELSE pass

Generate ==
  /\ stage = "idle" /\ loadErr = "SUCCESS" /\ calls < MaxCalls
  /\ calls' = calls + 1
  /\ stage' = FirstPass("populate") /\ level' = 1
  /\ frame' = EmptyBuffer /\ made' = <<>> /\ back' = <<>> /\ diverged' = {}
  /\ UNCHANGED <<loadErr, stack, ctx, input, rxOffset, seen>>

\* The next layer of this pass, or the next pass.
Advance(next) ==
  IF level < Len(stack) THEN level' = level + 1 /\ stage' = stage
                     ELSE level' = 1 /\ stage' = next

\* Every list of values that buildWithFields may choose.
ChoicesUpTo(refs) ==
  LET f[n \in 0 .. Len(refs)] ==
        IF n = 0 THEN {<<>>}
        ELSE {Append(s, [name |-> ShortName[refs[n]], value |-> v])
                : s \in f[n - 1], v \in PickValue(VarDb[refs[n]])}
  IN  f

ValueChoices(refs) == ChoicesUpTo(refs)[Len(refs)]

Populate ==
  /\ stage = "populate"
  /\ LET iface == stack[level].iface IN
     \/ ~iface.found /\ UNCHANGED ctx
     \/ /\ iface.found
        /\ \E vs \in ValueChoices(FieldsOfInterface(iface)) :
             ctx' = [ctx EXCEPT ![level] = PopulateContext(level, iface, vs)]
  /\ Advance("encode")
  /\ UNCHANGED <<loadErr, stack, frame, made, input, rxOffset, back, seen, diverged, calls>>

Encode ==
  /\ stage = "encode"
  /\ ctx' = [ctx EXCEPT ![level] = OnEncode(level)]
  /\ Advance("pack")
  /\ UNCHANGED <<loadErr, stack, frame, made, input, rxOffset, back, seen, diverged, calls>>

\* The bytes of a layer, from its context.
PackUpTo(fields) ==
  LET offsets == SumUpTo(Widths(fields))
      f[n \in 0 .. Len(fields)] ==
        IF n = 0 THEN EmptyBuffer
        ELSE AppendBits(f[n - 1], offsets[n - 1], fields[n].value, fields[n].bits)
  IN  f

PackBytes(fields) == PackUpTo(fields)[Len(fields)]

Pack ==
  /\ stage = "pack"
  /\ frame' = Concat(frame, PackBytes(ctx[level]))
  /\ made' = Append(made, [bytes |-> PackBytes(ctx[level]), fields |-> ctx[level]])
  /\ Advance("idle")
  /\ UNCHANGED <<loadErr, stack, ctx, input, rxOffset, back, seen, diverged, calls>>
-----------------------------------------------------------------------------
(* Session::decodeStack(Stack&, bytes) *)

\* A frame arrives: the one made last, whole or cut short, or a foreign one.
Decode ==
  /\ stage = "idle" /\ loadErr = "SUCCESS" /\ calls < MaxCalls
  /\ calls' = calls + 1
  /\ \/ \E n \in FrameCuts : input' = Truncate(frame, n)
     \/ input' \in ForeignFrames
  /\ stage' = FirstPass("decode") /\ level' = 1 /\ rxOffset' = 0 /\ back' = <<>> /\ diverged' = {}
  /\ UNCHANGED <<loadErr, stack, ctx, frame, made, seen>>

Sizes(refs) == [k \in DOMAIN refs |-> Size(refs[k])]

\* PacketDecoder::decode's field loop, from a byte rxOffset.
DecodedFields(refs, from) ==
  LET offsets == SumUpTo(Sizes(refs))
  IN  [k \in DOMAIN refs |->
         [name  |-> ShortName[refs[k]],
          value |-> ExtractBits(input, 8 * from + offsets[k - 1], Size(refs[k]))]]

\* PacketDecoder::layerBytes
BytesOf(refs) == CeilBytes(Sum(Sizes(refs)))

\* Faulty variant: a layer's last partial byte is not skipped.
OffsetAfterUnpadded(refs) == rxOffset + Sum(Sizes(refs)) \div 8

OffsetAfter(refs) == rxOffset + BytesOf(refs)

\* The bytes of the input that the layer used, as many as there are.
SliceOf(refs) ==
  LET end == IF OffsetAfter(refs) < input.size THEN OffsetAfter(refs) ELSE input.size
  IN  IF rxOffset < end THEN Slice(input, rxOffset, end) ELSE EmptyBuffer

DecodeLevel ==
  /\ stage = "decode"
  /\ LET iface == stack[level].iface
         refs == FieldsOfInterface(iface)
         fields == DecodedFields(refs, rxOffset)
         context == PopulateContext(level, iface, fields)
         kept == Remembered(level) IN
     \/ /\ ~iface.found
        /\ back' = Append(back, [bytes |-> EmptyBuffer, fields |-> <<>>])
        /\ UNCHANGED <<ctx, rxOffset, seen, diverged>>
     \/ /\ iface.found
        /\ back' = Append(back, [bytes |-> SliceOf(refs), fields |-> fields])
        /\ rxOffset' = OffsetAfter(refs)
        /\ ctx' = [ctx EXCEPT ![level] = context]
        /\ seen' = IF kept # NoText /\ HasField(context, kept)
                     THEN [seen EXCEPT ![level] = GetValue(context, kept)] ELSE seen
        /\ diverged' = IF level < Len(stack) /\ NextLayer(level) \notin {NoText, stack[level + 1].service}
                         THEN diverged \cup {level} ELSE diverged
  /\ Advance("idle")
  /\ UNCHANGED <<loadErr, stack, frame, made, input, calls>>

StackNext == LoadStack \/ Generate \/ Populate \/ Encode \/ Pack \/ Decode \/ DecodeLevel

StackSpec == StackInit /\ [][StackNext]_stackVars
-----------------------------------------------------------------------------
(* Properties *)

IsFields(fields) == \A k \in DOMAIN fields : fields[k].value \in Word

\* Every variable has its type; there is a stack exactly after a successful
\* build, with one context per layer.
StackTypeOK ==
  /\ stage \in {"idle", "populate", "encode", "pack", "decode"}
  /\ level \in 1 .. Len(stack) + 1 /\ calls \in 0 .. MaxCalls /\ rxOffset \in Nat
  /\ loadErr # "SUCCESS" => stack = <<>> /\ stage = "idle"
  /\ Len(ctx) = Len(stack) /\ Len(seen) = Len(stack)
  /\ \A l \in DOMAIN ctx : /\ IsFields(ctx[l]) /\ seen[l] \in Word
                           /\ \A k \in DOMAIN ctx[l] : ctx[l][k].bits \in Nat \ {0}
  /\ frame \in Buffer /\ input \in Buffer
  /\ \A l \in DOMAIN made : made[l].bytes \in Buffer /\ IsFields(made[l].fields)
  /\ \A l \in DOMAIN back : back[l].bytes \in Buffer /\ IsFields(back[l].fields)

\* A frame is complete.
Made == stage = "idle" /\ made # <<>>

\* "the same fields the YAML declared, each with its bit width": while a frame
\* is made, a layer's context holds exactly the interface's fields, in order
\* and with their declared widths, whatever the reused stack did before.
ContextIsLayout ==
  stage \in {"encode", "pack"} =>
    \A l \in DOMAIN stack :
      LET refs == FieldsOfInterface(stack[l].iface) IN
      /\ Len(ctx[l]) = Len(refs)
      /\ \A k \in DOMAIN refs : ctx[l][k].name = ShortName[refs[k]] /\ ctx[l][k].bits = Size(refs[k])

Derived(logic) ==
  CASE logic = "ethernet_mac_frame" -> {"ethertype"}
    [] logic = "avtp_control" -> {"subtype", "sv", "version", "reserved"}
    [] logic = "aecp_aem" -> {"control_data_length", "status"}
    [] OTHER -> {}

\* A frame's fields are fresh choices within the variables' constraints, save
\* those the layer's module derives; a bypassed layer's module changes none,
\* and nothing of an earlier frame, or of a decoded one, is left in it.
OnlyDerivedFieldsChange ==
  Made => \A l \in DOMAIN made :
            LET refs == FieldsOfInterface(stack[l].iface) IN
            \A k \in DOMAIN made[l].fields :
              \/ ~stack[l].bypass /\ made[l].fields[k].name \in Derived(stack[l].logic)
              \/ made[l].fields[k].value \in PickValue(VarDb[refs[k]])

\* The octets of the frame from the end of field k of layer l on.
OctetsFollowing(l, k) ==
  LET sizes == [m \in DOMAIN made |-> made[m].bytes.size]
  IN  frame.size - Sum(SubSeq(sizes, 1, l - 1)) - CeilBytes(BitLength(SubSeq(made[l].fields, 1, k)))

\* AecpAemLogic: control_data_length on the wire is the number of octets that
\* follow it in the finished frame, the layers above included, as far as the
\* field's width can say it (for a field that ends at an octet boundary).
LengthCountsOctets ==
  Made => \A l \in DOMAIN made :
            stack[l].logic = "aecp_aem" =>
              \A k \in Having(made[l].fields, "control_data_length") :
                BitLength(SubSeq(made[l].fields, 1, k)) % 8 = 0 =>
                  Low(made[l].fields[k].value, made[l].fields[k].bits)
                    = Low(ToWord(OctetsFollowing(l, k)), made[l].fields[k].bits)

\* "A controller must not leak a random status code onto the wire": what the
\* other end decodes from a whole frame as a command has status 0, an AVTP
\* control header has the subtype of the layer above, and a frame has an
\* ethertype.
CommandsAreClean ==
  \A l \in DOMAIN back :
    input = frame /\ made # <<>> =>
      LET fs == back[l].fields IN
      /\ stack[l].logic = "aecp_aem" /\ HasField(fs, "message_type") /\ HasField(fs, "status")
           => 0 \in GetValue(fs, "message_type") \/ GetValue(fs, "status") = {}
      /\ stack[l].logic = "avtp_control" /\ HasField(fs, "subtype")
           => SubtypeForUpper(l) \in {{}, GetValue(fs, "subtype")}
      /\ stack[l].logic = "ethernet_mac_frame" /\ HasField(fs, "ethertype")
           => GetValue(fs, "ethertype") # {}

\* decodeStack inverts generateStack: a whole frame decodes, layer by layer, to
\* the bytes and the (width-limited) values that were packed, through layers
\* without an interface and layers that end inside a byte.
StackRoundTrip ==
  input = frame /\ made # <<>> =>
    \A l \in DOMAIN back :
      /\ back[l].bytes = made[l].bytes
      /\ \A k \in DOMAIN back[l].fields :
           back[l].fields[k].value = Low(made[l].fields[k].value, made[l].fields[k].bits)

\* "derived fields (lengths, demux selectors) are filled on encode and validated
\* on decode": a frame whose AVTP subtype contradicts the layer above is
\* reported by the demux check (packet_gen's help, decodeStack).
DecodeValidatesSelectors ==
  \A l \in DOMAIN back :
    /\ stack[l].logic = "avtp_control" /\ HasField(back[l].fields, "subtype")
    /\ SubtypeForUpper(l) \notin {{}, GetValue(back[l].fields, "subtype")}
    => l \in diverged
-----------------------------------------------------------------------------
(* What the proofs ask of the protocols; the corpus in protocols/ has it *)

\* A field has the width of the first reference with its short name.
WidthsAgree ==
  \A n \in DOMAIN Interfaces :
    LET refs == Interfaces[n].refs IN
    \A i, j \in DOMAIN refs : i < j /\ Live(refs[j]) /\ ShortName[refs[i]] = ShortName[refs[j]]
                              => Size(refs[i]) = Size(refs[j])

\* No interface has two fields called control_data_length.
OneLengthField ==
  \A n \in DOMAIN Interfaces :
    LET fields == FieldsOfInterface(Interfaces[n]) IN
    \A i, j \in DOMAIN fields :
      /\ ShortName[fields[i]] = "control_data_length"
      /\ ShortName[fields[j]] = "control_data_length"
      => i = j

\* The field of a selector is wide enough for the selector's values.
SelectorsFit ==
  \A r \in DOMAIN VarDb :
    LET wide == {i \in 0 .. WordBits - 1 : i < VarDb[r].size} IN
    /\ ShortName[r] = "subtype" => kSubtypeAecp \subseteq wide /\ kSubtypeAdp \subseteq wide
    /\ ShortName[r] = "ethertype" => kEthertype1722 \subseteq wide /\ PickValue(VarDb[r]) \subseteq SUBSET wide
=============================================================================
