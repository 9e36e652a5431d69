----------------------------- MODULE ByteStream -----------------------------
(***************************************************************************)
(* What either direction of a connection promises: a stream of bytes.  The *)
(* writer gives bytes, the reader takes them, and what has been taken is   *)
(* always the beginning of what has been given: nothing lost in between,   *)
(* nothing twice, nothing out of order.  A broken connection just stops.   *)
(***************************************************************************)
EXTENDS Sequences, SequencesExt

VARIABLES
  given,        \* all bytes the writer has handed over
  taken         \* all bytes the reader has got

Init ==
  /\ given = <<>>
  /\ taken = <<>>

Next ==
  /\ IsPrefix(given, given')
  /\ IsPrefix(taken, taken')
  /\ IsPrefix(taken', given')

Spec == Init /\ [][Next]_<<given, taken>>
=============================================================================
