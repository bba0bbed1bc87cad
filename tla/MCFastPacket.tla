----------------------------- MODULE MCFastPacket ----------------------------
(* A small bus for FastPacket: ECU a sends three messages, of which the     *)
(* first and the third go by one sequence counter, and plain frames, ECU b  *)
(* plain frames only.                                                       *)
EXTENDS FastPacket, TLC

CONSTANTS a, b, x, y

Ecus == {a, b}

PlainAs ==
  {[seq |-> 0, index |-> 0, size |-> 1], [seq |-> 0, index |-> 0, size |-> 2],
   [seq |-> 0, index |-> 1, size |-> 2]}

SentBound == (a :> 3) @@ (b :> 0)

(* No PGN is special. *)
Symmetry == Permutations(Pgn)
=============================================================================
