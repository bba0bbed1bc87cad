----------------------------- MODULE MCCanEngine -----------------------------
(* Two can_ids on the bus, a standard ID a and an extended one x of the    *)
(* same value, which are recorded as one.  The application sends x, with   *)
(* its flag, so that it has a row of its own, and b, at times or           *)
(* periodically.  The message a has all the signals.                       *)
EXTENDS CanEngine, TLC

CONSTANT a

Masked == [i \in BusId |-> a]

AllInOne == [i \in HeardId |-> Signal]

(* Only what is recorded under a is shown.                                 *)
OnlyA == {{a}}

FewOfEach == [starts |-> 2, events |-> 3]

Symmetry == Permutations(Signal)
=============================================================================
