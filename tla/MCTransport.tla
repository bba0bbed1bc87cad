---------------------------- MODULE MCTransport ----------------------------
(***************************************************************************)
(* Small buses for Transport.  Nodes and transfers are numbered from 1; 0  *)
(* is the broadcast destination and "no transfer".                         *)
(***************************************************************************)
EXTENDS Transport

(* Two nodes exchange messages in both directions and 1 broadcasts. *)
MixedSrc == <<1, 2, 1, 2>>
MixedDst == <<2, 1, 0, 1>>
MixedPackets == <<2, 3, 2, 2>>

(* 1 sends to 2 twice, and 2 sends a broadcast whose packet count is the   *)
(* last packet number.                                                     *)
FaultSrc == <<1, 2, 1>>
FaultDst == <<2, 0, 2>>
FaultPackets == <<2, SeqMod - 1, 3>>
=============================================================================
