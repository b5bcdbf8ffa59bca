----------------------------- MODULE MCPcapFile -----------------------------
(* Packets of no byte, one and two bytes, lengths of two digits below 4.    *)
EXTENDS PcapFile

MCPackets == {<<>>, <<1>>, <<2, 3>>}

MCForeignPackets == <<<<1>>, <<2, 3>>>>
=============================================================================
