--------------------------- MODULE MCAxiTransport ---------------------------
(* Instances of AxiTransport: beats of two payload bytes, and packets of   *)
(* no beat, a partial one, a full one, and a full and a partial one.       *)
EXTENDS AxiTransport

\* Three bytes.
A == {0, 2}
B == {1, 2}
C == {0, 1, 2}

MCPackets == {<<>>, <<A>>, <<B, C>>, <<A, B, C>>}

MCTwoPackets == {<<A>>, <<A, B, C>>}
=============================================================================
