--------------------------- MODULE MCAddressClaim ---------------------------
(* Small buses for TLC: the NAME of node i is the number i. *)
EXTENDS AddressClaim

MCRank == [n \in Node |-> n]

(* Everyone was configured with the same address. *)
SamePreferred == [n \in Node |-> 0]

(* Node 1 wants address 0, the others address 1. *)
FirstApart == [n \in Node |-> IF n = 1 THEN 0 ELSE 1]
=============================================================================
