---------------------------- MODULE MCAxisBridge ----------------------------
(***************************************************************************)
(* Beats of 2 bytes and a FIFO of 2 packets; packets of 0 to 3 bytes give  *)
(* no beat, one short beat, and a full beat followed by a short one.       *)
(* Mostly one direction at a time: three packets of ns-3 with a beat of    *)
(* the DUT, or four beats of the DUT.                                      *)
(***************************************************************************)
EXTENDS AxisBridge

MCTxPackets == {<<>>, <<1>>, <<2, 3, 4>>}

MCLoads == {[sends |-> 3, beats |-> 1], [sends |-> 0, beats |-> 4]}
=============================================================================
