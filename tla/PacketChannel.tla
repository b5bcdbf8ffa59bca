--------------------------- MODULE PacketChannel ---------------------------
(***************************************************************************)
(* What a packet transport promises: packets come out whole, once each and *)
(* in the order in which they went in.  The two directions of the AXI      *)
(* bridge and the beat stream between VerilatorSender and VerilatorReceiver*)
(* implement it.                                                           *)
(***************************************************************************)
EXTENDS Naturals, Sequences

CONSTANT Packet

VARIABLES sent, got

Init == sent = <<>> /\ got = <<>>

Send ==
  /\ Len(sent') = Len(sent) + 1
  /\ SubSeq(sent', 1, Len(sent)) = sent
  /\ sent'[Len(sent')] \in Packet
  /\ UNCHANGED got

Receive ==
  /\ Len(got) < Len(sent)
  /\ got' = Append(got, sent[Len(got) + 1])
  /\ UNCHANGED sent

Next == Send \/ Receive

Spec == Init /\ [][Next]_<<sent, got>>
=============================================================================
