---------------------------- MODULE MCPacketGen ----------------------------
(***************************************************************************)
(* A generator and a decoder of packet_gen.  The generator's command lines *)
(* cover the sources of packets, the formats, the transports and what can  *)
(* be wrong with them; an interface without bytes is among the stages.     *)
(***************************************************************************)
EXTENDS PacketGen, TLC

MCMeaning ==
  LET Text(ull, names, kind, hex) == [ull |-> ull, names |-> names, kind |-> kind, hex |-> hex] IN
     "0" :> Text(0, <<"0">>, "", FALSE) @@ "1" :> Text(1, <<"1">>, "", FALSE)
  @@ "2" :> Text(2, <<"2">>, "", FALSE) @@ "22ff" :> Text(22, <<"22ff">>, "", TRUE)
  @@ "E:A" :> Text(-1, <<"E", "A">>, "E", FALSE) @@ "A:B" :> Text(-1, <<"A", "B">>, "A", FALSE)
  @@ "pcap:f" :> Text(-1, <<"pcap", "f">>, "pcap", FALSE)
  @@ "verilator:s" :> Text(-1, <<"verilator", "s">>, "verilator", FALSE)
  @@ "raw:eth0" :> Text(-1, <<"raw", "eth0">>, "raw", FALSE)
  @@ "pacp:f" :> Text(-1, <<"pacp", "f">>, "pacp", FALSE)

MCInterfaces == "A" :> TRUE @@ "B" :> TRUE @@ "E" :> FALSE

MCStacks == "k.yaml" :> TRUE

Dir == <<"--yaml-dir", "d">>

Sources ==
  { <<"--interface", "A", "--count", "2">>, <<"--interface", "A", "--count", "0", "--output", "hex">>,
    <<"--connect", "E:A", "--interface", "A">>, <<"--connect", "A:B", "--output", "hex">>,
    <<"--stack", "E:A", "--count", "2", "--seed", "1">>, <<"--stack-file", "k.yaml">> }

Targets == {<<"--transport", "pcap:f">>, <<"--transport", "verilator:s">>, <<"--transport", "raw:eth0">>}

\* Lines that do not get to a loop, or not to a transport.
OddLines ==
  { <<"--help">>, <<"--colour">>, Dir \o <<"--interface", "A", "--count", "x">>, Dir,
    <<"--interface", "A">>, Dir \o <<"--stack", "E:A", "--connect", "A:B">>,
    Dir \o <<"--interface", "A", "--output", "--decode">>, Dir \o <<"--interface", "C">>,
    Dir \o <<"--interface", "A", "--log-level", "loud">>, Dir \o <<"--validate">>,
    Dir \o <<"--list-interfaces">>, Dir \o <<"--interface", "A", "--transport">>,
    Dir \o <<"--stack-file", "none.yaml">>, Dir \o <<"--interface", "A", "--hex", "22ff">>,
    Dir \o <<"--interface", "A", "--hex", "abc">>, Dir \o <<"--interface", "A", "--decode">>,
    Dir \o <<"--interface", "A", "--count">>, Dir \o <<"--interface", "A", "--connect">> }

\* A transport of no known kind.
Misspelt == Dir \o <<"--interface", "A", "--transport", "pacp:f">>

MisspeltLine == {"gen" :> Misspelt @@ "dec" :> <<>>}

Pair(g, d) == "gen" :> Dir \o g @@ "dec" :> Dir \o <<"--interface", "A", "--decode">> \o d

MCCommandLines ==
       {Pair(s \o t, <<"--count", n>> \o t) : s \in Sources, t \in Targets, n \in {"0", "2"}}
  \cup {"gen" :> l @@ "dec" :> <<>> : l \in OddLines} \cup MisspeltLine
=============================================================================
