---------------------------- MODULE MCRingQueue -----------------------------
(* Small instances of RingQueue: packets of 3, 4 and 5 bytes. *)
EXTENDS RingQueue

CONSTANTS p3, p4, p5

\* lengths that do not divide the ring, so that every wrap position occurs
MCPacketLen ==
  [p \in Packets |-> IF p = p3 THEN 3 ELSE IF p = p4 THEN 4 ELSE 5]
=============================================================================
