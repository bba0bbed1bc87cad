------------------------------ MODULE MCEcuSend ------------------------------
(* Small sets of sends for EcuSend: jobs are numbered from 1. *)
EXTENDS EcuSend

(* To one peer: an asynchronous send, a blocking one and a DM1 response;   *)
(* and a broadcast.                                                        *)
RaceKind == <<"async", "wait", "dm1", "bam">>
RaceDest == [j \in Job |-> CHOOSE p \in Peer : TRUE]

(* One asynchronous send. *)
LoneKind == <<"async">>
=============================================================================
