-------------------------- MODULE TransferService ---------------------------
(***************************************************************************)
(* What the J1939 transport layer promises the applications on a bus: a    *)
(* transfer reaches a node at most once and whole, and a unicast transfer  *)
(* reported as a success has reached its destination.  Nothing is said of  *)
(* packets, sessions or timers.                                            *)
(***************************************************************************)
EXTENDS Integers, Sequences

CONSTANTS
  Node,      (* the ECUs                                                   *)
  Transfer,  (* the multi-packet messages applications send                *)
  Src,       (* Src[t]: the sending node                                   *)
  Dst,       (* Dst[t]: the destination node, or All                       *)
  Packets,   (* Packets[t]: how many 7-byte packets the payload fills      *)
  All        (* the broadcast destination                                  *)

VARIABLES
  progress,   (* progress[t]: "idle", "pending", "ok", "failed", or        *)
              (* "refused": it failed before anything was sent             *)
  delivered   (* delivered[n]: the messages handed to n's application      *)

serviceVars == <<progress, delivered>>

(* The payload as its packets, each named by its transfer and its index. *)
Payload(t) == [i \in 1 .. Packets[t] |-> <<t, i>>]

Message(t) == [transfer |-> t, data |-> Payload(t)]

Has(n, t) == \E i \in DOMAIN delivered[n] : delivered[n][i].transfer = t

ServiceInit ==
  /\ progress = [t \in Transfer |-> "idle"]
  /\ delivered = [n \in Node |-> <<>>]

Begin(t) ==
  /\ progress[t] = "idle"
  /\ progress' = [progress EXCEPT ![t] = "pending"]
  /\ UNCHANGED delivered

Refuse(t) ==
  /\ progress[t] = "idle"
  /\ progress' = [progress EXCEPT ![t] = "refused"]
  /\ UNCHANGED delivered

(* Any node but the sender may be handed the message, also after the       *)
(* sender gave up on it.                                                   *)
Deliver(n, t) ==
  /\ progress[t] \notin {"idle", "refused"} /\ n # Src[t] /\ ~Has(n, t)
  /\ delivered' = [delivered EXCEPT ![n] = Append(@, Message(t))]
  /\ UNCHANGED progress

Succeed(t) ==
  /\ progress[t] = "pending"
  /\ Dst[t] \in Node => Has(Dst[t], t)
  /\ progress' = [progress EXCEPT ![t] = "ok"]
  /\ UNCHANGED delivered

Fail(t) ==
  /\ progress[t] = "pending"
  /\ progress' = [progress EXCEPT ![t] = "failed"]
  /\ UNCHANGED delivered

ServiceNext ==
  \E t \in Transfer : \/ Begin(t) \/ Refuse(t) \/ Succeed(t) \/ Fail(t)
                      \/ \E n \in Node : Deliver(n, t)

ServiceSpec == ServiceInit /\ [][ServiceNext]_serviceVars
=============================================================================
