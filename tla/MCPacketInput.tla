---------------------------- MODULE MCPacketInput ----------------------------
(***************************************************************************)
(* Packets of 2, 3, 4, 2 and 5 bytes, shorter and longer than a block; the *)
(* last is too long for newbench, and arrives as a whole or in part.       *)
(***************************************************************************)
EXTENDS PacketInput

MCEnds == <<2, 5, 9, 11, 16>>
=============================================================================
