------------------------------ MODULE Session ------------------------------
(***************************************************************************)
(* The two codecs of a Session side by side.  They share the databases of  *)
(* the parsed protocols and nothing else, and a packet_gen process uses    *)
(* one of them: --stack-file the bound stacks (StackCodec), everything     *)
(* else lists and chains of interfaces (PacketCodec).                      *)
(***************************************************************************)
EXTENDS PacketCodec, StackCodec

SessionInit == Init /\ StackInit

UseInterfaces == StackInit /\ Next /\ UNCHANGED stackVars

UseStack == Init /\ StackNext /\ UNCHANGED vars

SessionNext == UseInterfaces \/ UseStack

SessionSpec == SessionInit /\ [][SessionNext]_<<vars, stackVars>>
=============================================================================
