----------------------------- MODULE MCSession -----------------------------
(***************************************************************************)
(* Small instances of the two codecs, over one database.  Words have 4     *)
(* bits.  The sizes include fields narrower than their values, fields      *)
(* wider than a word, fields that cross byte boundaries, a variable of     *)
(* size 0 and an unresolved reference.  The stack of                       *)
(* stacks/aecp_acquire_entity.yaml is cut down to a few fields per layer;  *)
(* control_data_length ends at an octet boundary, the layers above it end  *)
(* inside one.                                                             *)
(***************************************************************************)
EXTENDS Session

\* The variables of lists and chains, and those of the stacks.
ListRefs == {"s::a", "t::a", "s::b", "t::b", "s::c", "s::p", "s::z", "s::none"}

StackNames == {"ethertype", "subtype", "sv", "version", "reserved", "message_type",
               "status", "control_data_length", "x", "y"}

StackRefs == StackNames \cup {"cdl2", "t::x", "none"}

MCNames == {"a", "b", "c", "p"} \cup StackNames

MCRefs == ListRefs \cup StackRefs

MCShortName ==
  [r \in MCRefs |-> CASE r \in {"s::a", "t::a"} -> "a"
                      [] r \in {"s::b", "t::b", "s::z"} -> "b"
                      [] r \in {"s::c", "s::none"} -> "c"
                      [] r = "s::p" -> "p"
                      [] r = "cdl2" -> "control_data_length"
                      [] r = "t::x" -> "x"
                      [] r = "none" -> "y"
                      [] OTHER -> r]

Any == 0 .. WordBits - 1

Plain(n) == [size |-> n, expected |-> {}, range |-> <<>>, mask |-> Any]

Zero(n) == [Plain(n) EXCEPT !.expected = {{}}]

MCVarDb ==
  [r \in MCRefs \ {"s::none", "none"} |->
     CASE r = "s::a" -> [Plain(2) EXCEPT !.mask = {0, 1, 2}]
       [] r = "t::a" -> [Plain(5) EXCEPT !.mask = {0, 2}]
       [] r = "s::b" -> [Plain(2) EXCEPT !.expected = {{0, 1}, {2}}]
       [] r = "t::b" -> [Plain(3) EXCEPT !.range = <<{1, 2}, {2}>>, !.mask = {0, 1, 2}]
       [] r = "s::c" -> [Plain(3) EXCEPT !.expected = {{}, {0, 2}}]
       [] r = "s::p" -> [Plain(11) EXCEPT !.expected = {{1}}]
       [] r = "s::z" -> Plain(0)
       [] r = "ethertype" -> [Plain(8) EXCEPT !.mask = {1}]
       [] r = "subtype" -> [Plain(4) EXCEPT !.mask = {0}]
       [] r = "sv" -> Plain(1)
       [] r = "version" -> [Plain(2) EXCEPT !.expected = {{0}}]
       [] r = "reserved" -> [Plain(2) EXCEPT !.expected = {{1}}]
       [] r = "message_type" -> [Plain(2) EXCEPT !.range = <<{0}, {1}>>]
       [] r = "status" -> [Plain(2) EXCEPT !.mask = {1}]
       [] r = "control_data_length" -> Zero(4)
       [] r = "cdl2" -> [Plain(2) EXCEPT !.expected = {{0, 1, 2}}]
       [] r = "x" -> [Plain(5) EXCEPT !.mask = {3}]
       [] r = "t::x" -> Zero(9)
       [] OTHER -> Zero(3)]

MCPrograms ==
  { << <<"s::a", "s::none", "s::p", "s::z", "t::a">>, <<"t::b", "s::c">>, <<"s::b">> >>,
    << <<"s::p">>, <<"t::b", "s::b">>, <<"s::b">> >>,
    << <<"s::a", "s::b">>, <<"t::a", "t::b">>, <<"t::b", "s::a">> >>,
    << <<"s::a", "t::a">>, <<"s::c">>, <<"s::a", "s::c">> >> }

MCCuts == {0, 1, 2, 3, 10}

Interface(service, entity, name, refs) ==
  [service |-> service, entity |-> entity, name |-> name, refs |-> refs]

MCInterfaces ==
  << Interface("adp", "ADP", "IF", <<"x">>),
     Interface("aecp", "AECP", "IF", <<"message_type", "status", "control_data_length", "x">>),
     Interface("aecp", "AECP", "SHORT", <<"y", "none", "sv", "status", "cdl2", "message_type", "x">>),
     Interface("avtp", "AVTP", "IF", <<"subtype", "sv", "reserved", "version">>),
     Interface("eth", "ETH", "IF", <<"ethertype", "y">>),
     Interface("payload", "P", "IF", <<"t::x">>) >>

MCServiceLogic ==
  [v \in {"eth", "avtp", "aecp", "adp", "payload", "odd", "empty"} |->
     CASE v = "eth" -> "ethernet_mac_frame" [] v = "avtp" -> "avtp_control"
       [] v = "aecp" -> "aecp_aem" [] v = "odd" -> "unregistered" [] OTHER -> ""]

MCRegistry == {"ethernet_mac_frame", "avtp_control", "aecp_aem"}

MCFamily == [v \in DOMAIN MCServiceLogic |->
               CASE v = "aecp" -> "aecp" [] v = "adp" -> "adp" [] OTHER -> "other"]

Layer(service) == [service |-> service, entity |-> "", interface |-> "", bypass |-> FALSE]

Chosen(service, entity, name) ==
  [Layer(service) EXCEPT !.entity = entity, !.interface = name]

File(ys) == [err |-> "SUCCESS", layers |-> ys]

Payload == Chosen("payload", "P", "IF")

MCStackFiles ==
  { File(<<Layer("eth"), Layer("avtp"), Layer("aecp"), Payload>>),
    File(<<Layer("avtp"), Chosen("aecp", "AECP", "SHORT"), Layer("empty"), Payload, Payload>>),
    File(<<[Layer("avtp") EXCEPT !.bypass = TRUE], Layer("adp")>>),
    File(<<Chosen("avtp", "", "IF"), Layer("avtp"), Layer("adp"),
           [Layer("odd") EXCEPT !.bypass = TRUE], Layer("eth")>>),
    File(<<Layer("eth"), Layer("odd")>>),
    File(<<Layer("nobody")>>),
    File(<<Layer("eth"), Layer("")>>),
    File(<<>>),
    [err |-> "INVALID_FILE", layers |-> <<>>] }

MCSubtypeAecp == {0, 1}

MCSubtypeAdp == {1}

MCEthertype == {2}

MCForeignFrames == { [size |-> 2, ones |-> {0, 3, 5, 12}] }

MCFrameCuts == {0, 2, 20}

\* The hypotheses of the theorems about StackCodec hold of this instance.
ASSUME MCHypotheses == WidthsAgree /\ OneLengthField /\ SelectorsFit
=============================================================================
