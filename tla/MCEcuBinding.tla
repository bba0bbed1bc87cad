----------------------------- MODULE MCEcuBinding -----------------------------
(* Two ECUs of one isolate that share a pool of one buffer.                *)
EXTENDS EcuBinding

CONSTANTS a, b

TwoEcus == {a, b}
MostlyOne == [e \in TwoEcus |-> IF e = a THEN 2 ELSE 1]
=============================================================================
