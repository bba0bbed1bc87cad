--------------------------- MODULE MCGroupFunction ---------------------------
(* Small sets of calls for GroupFunction, numbered from 1. *)
EXTENDS GroupFunction

(* Two reads of one PGN of one ECU and a command about the same PGN to     *)
(* another; the rejection of the first read is too long for a plain frame. *)
MixedKind == <<"read", "read", "command">>
MixedFields == <<3, 1, 1>>
MixedTarget == <<1, 1, 2>>

(* All are about one PGN. *)
SamePgn == [c \in Call |-> 1]
=============================================================================
