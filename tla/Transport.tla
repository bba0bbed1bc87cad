----------------------------- MODULE Transport ------------------------------
(***************************************************************************)
(* The J1939/21 transport protocol of the ECUs on one bus: the reassembly  *)
(* sessions of transport::Receiver, the senders RtsCtsSession and          *)
(* BamSender, and the part of Ecu's receive loop that routes TP.CM and     *)
(* TP.DT frames to them.  Addresses are claimed and distinct: a node       *)
(* stands for its address.                                                 *)
(*                                                                         *)
(* A transfer stands for its header fields (PGN, total bytes, total        *)
(* packets) and its payload for the sequence of its packets.  Packet       *)
(* numbers keep the width of the code, uint8_t, as arithmetic modulo       *)
(* SeqMod (256 there).                                                     *)
(***************************************************************************)
EXTENDS Integers, Sequences, FiniteSets

CONSTANTS
  Node, Transfer, Src, Dst, Packets, All,
  SeqMod,        (* packet numbers are 0 .. SeqMod - 1                     *)
  OneAtATime,    (* applications keep to one transfer per node at a time   *)
  EarlyTimeout,  (* a response timer may beat frames still on their way    *)
  MaxLosses,     (* bound: frames lost to a full receive buffer, and       *)
                 (* packets of a broadcast that could not be written       *)
  MaxAborts,     (* bound: Abort frames from other equipment on the bus    *)
  QueueCap,      (* BAM pacing: frames a node may lag behind               *)
  NoTransfer,    (* no session                                             *)
  NoSession

ASSUME TransferAssumption ==
  /\ All \notin Node
  /\ Src \in [Transfer -> Node]
  /\ Dst \in [Transfer -> Node \cup {All}]
  /\ \A t \in Transfer : Dst[t] # Src[t]
  /\ SeqMod \in Nat \ {0, 1}
  /\ Packets \in [Transfer -> Nat \ {0, 1}]
ASSUME TransportBounds ==
  /\ OneAtATime \in BOOLEAN /\ EarlyTimeout \in BOOLEAN
  /\ MaxLosses \in Nat /\ MaxAborts \in Nat /\ QueueCap \in Nat \ {0}
ASSUME NothingAssumption == NoTransfer \notin Transfer

Seq8 == 0 .. (SeqMod - 1)

Chunk == Transfer \X Nat

Session ==
  [transfer : Transfer, bam : BOOLEAN, next : Seq8, data : Seq(Chunk)]

ASSUME NoSessionAssumption == NoSession \notin Session

VARIABLES
  inbox,      (* inbox[n]: frames queued in n's socket                     *)
  rx,         (* rx[n][s]: Receiver::sessions_ of n, keyed by source s     *)
  tx,         (* tx[n][d]: Ecu::Impl::tx_sessions_ of n, keyed by dest d   *)
  seq,        (* seq[t]: the loop variable of a BAM transmission           *)
  status,     (* what the caller of send() knows of each transfer          *)
  delivered,  (* delivered[n]: messages n's application was handed         *)
  losses, aborts

vars == <<inbox, rx, tx, seq, status, delivered, losses, aborts>>

-----------------------------------------------------------------------------
(* Frames.  The destination is carried and never looked at by a receiver;  *)
(* CTS and EOM repeat the PGN of their session, also not looked at.        *)

Control(kind, s, d, t, k) ==
  [kind |-> kind, sa |-> s, da |-> d, transfer |-> t, seq |-> k, part |-> 0]

(* DT number k of transfer t; past the payload it carries filler. *)
Part(t, k) == IF k \in 1 .. Packets[t] THEN k ELSE 0

Data(s, d, t, k) ==
  [kind |-> "DT", sa |-> s, da |-> d, transfer |-> t, seq |-> k, part |-> Part(t, k)]

Frame ==
  {f \in [kind : {"RTS", "BAM", "CTS", "EOM", "ABORT", "DT"}, sa : Node,
          da : Node \cup {All}, transfer : Transfer \cup {NoTransfer}, seq : Seq8,
          part : Nat] :
     f.kind # "ABORT" => f.transfer \in Transfer}

IsHeader(f) == f.kind \in {"RTS", "BAM"}

(* The bus: every node but the sender receives the frame. *)
Sent(box, s, f) == [n \in Node |-> IF n = s THEN box[n] ELSE Append(box[n], f)]

Received(n) == [inbox EXCEPT ![n] = Tail(@)]

(* total_packets, as the uint8_t in the header. *)
Total(t) == Packets[t] % SeqMod

Next8_Wide(k) == k + 1

Next8(k) == (k + 1) % SeqMod

Busy(t) == status[t] \in {"rts", "bam"}

MayStart(t) ==
  /\ status[t] = "idle"
  /\ OneAtATime => \A u \in Transfer : Src[u] = Src[t] => ~Busy(u)

-----------------------------------------------------------------------------
Init ==
  /\ inbox = [n \in Node |-> <<>>]
  /\ rx = [n \in Node |-> [s \in Node |-> NoSession]]
  /\ tx = [n \in Node |-> [d \in Node |-> NoTransfer]]
  /\ seq = [t \in Transfer |-> 0]
  /\ status = [t \in Transfer |-> "idle"]
  /\ delivered = [n \in Node |-> <<>>]
  /\ losses = 0 /\ aborts = 0

(* The session is never registered. *)
StartRts_Unregistered(t) ==
  /\ Dst[t] # All /\ MayStart(t)
  /\ inbox' = Sent(inbox, Src[t], Control("RTS", Src[t], Dst[t], t, 0))
  /\ status' = [status EXCEPT ![t] = "rts"]
  /\ UNCHANGED <<rx, tx, seq, delivered, losses, aborts>>

(* The blocking send() of a unicast payload: send the RTS and register     *)
(* the session.  emplace() leaves a session already there in place.        *)
StartRts(t) ==
  LET s == Src[t]
      d == Dst[t]
  IN  /\ d # All /\ MayStart(t)
      /\ inbox' = Sent(inbox, s, Control("RTS", s, d, t, 0))
      /\ tx' = [tx EXCEPT ![s][d] = IF @ = NoTransfer THEN t ELSE @]
      /\ status' = [status EXCEPT ![t] = "rts"]
      /\ UNCHANGED <<rx, seq, delivered, losses, aborts>>

MorePackets(t) == seq[t] <= Total(t)

(* The write of the RTS or the BAM fails: send() returns, no frame left    *)
(* and no session is registered.                                           *)
StartFails(t) ==
  /\ MayStart(t)
  /\ status' = [status EXCEPT ![t] = "refused"]
  /\ UNCHANGED <<inbox, rx, tx, seq, delivered, losses, aborts>>

(* BamSender: announce, then one DT per 50 ms gap. *)
StartBam(t) ==
  /\ Dst[t] = All /\ MayStart(t)
  /\ inbox' = Sent(inbox, Src[t], Control("BAM", Src[t], All, t, 0))
  /\ seq' = [seq EXCEPT ![t] = 1]
  /\ status' = [status EXCEPT ![t] = "bam"]
  /\ UNCHANGED <<rx, tx, delivered, losses, aborts>>

StepBam(t) ==
  /\ status[t] = "bam" /\ MorePackets(t)
  /\ \A n \in Node : Len(inbox[n]) < QueueCap
  /\ inbox' = Sent(inbox, Src[t], Data(Src[t], All, t, seq[t]))
  /\ seq' = [seq EXCEPT ![t] = Next8(@)]
  /\ UNCHANGED <<rx, tx, status, delivered, losses, aborts>>

(* The write of a DT fails, which breaks the broadcast off.                *)
BamFails(t) ==
  /\ status[t] = "bam" /\ MorePackets(t)
  /\ losses < MaxLosses
  /\ losses' = losses + 1
  /\ status' = [status EXCEPT ![t] = "failed"]
  /\ UNCHANGED <<inbox, rx, tx, seq, delivered, aborts>>

EndBam(t) ==
  /\ status[t] = "bam" /\ ~MorePackets(t)
  /\ status' = [status EXCEPT ![t] = "ok"]
  /\ UNCHANGED <<inbox, rx, tx, seq, delivered, losses, aborts>>

(* The session stays registered, or the timer is never armed. *)
Timeout_Keeps(t) ==
  /\ status[t] = "rts"
  /\ EarlyTimeout \/ \A n \in Node : inbox[n] = <<>>
  /\ status' = [status EXCEPT ![t] = "timeout"]
  /\ UNCHANGED <<inbox, rx, tx, seq, delivered, losses, aborts>>

Timeout_Unarmed(t) == FALSE /\ UNCHANGED vars

(* The response timer of a unicast transfer: whatever session is stored    *)
(* for that destination is erased.                                         *)
Timeout(t) ==
  /\ status[t] = "rts"
  /\ EarlyTimeout \/ \A n \in Node : inbox[n] = <<>>
  /\ tx' = [tx EXCEPT ![Src[t]][Dst[t]] = NoTransfer]
  /\ status' = [status EXCEPT ![t] = "timeout"]
  /\ UNCHANGED <<inbox, rx, seq, delivered, losses, aborts>>

-----------------------------------------------------------------------------
(* Receiving: one action per kind of frame at the head of n's queue. *)

Opened(f) == [transfer |-> f.transfer, bam |-> f.kind = "BAM", next |-> 1, data |-> <<>>]

Cts(n, s, session) == Control("CTS", n, s, session.transfer, session.next)

(* A header leaves a session already there in place. *)
HearRts_Keeps(n, f) ==
  /\ f.kind = "RTS"
  /\ rx' = [rx EXCEPT ![n][f.sa] = IF @ = NoSession THEN Opened(f) ELSE @]
  /\ inbox' = Sent(Received(n), n, Cts(n, f.sa, Opened(f)))
  /\ UNCHANGED <<tx, status, delivered>>

(* A new header replaces the session of its source. *)
HearRts(n, f) ==
  /\ f.kind = "RTS"
  /\ rx' = [rx EXCEPT ![n][f.sa] = Opened(f)]
  /\ inbox' = Sent(Received(n), n, Cts(n, f.sa, Opened(f)))
  /\ UNCHANGED <<tx, status, delivered>>

HearBam(n, f) ==
  /\ f.kind = "BAM"
  /\ rx' = [rx EXCEPT ![n][f.sa] = Opened(f)]
  /\ inbox' = Received(n)
  /\ UNCHANGED <<tx, status, delivered>>

(* One granted packet; a CTS without a session to its source is dropped. *)
HearCts(n, f) ==
  LET t == tx[n][f.sa]
  IN  /\ f.kind = "CTS"
      /\ inbox' = IF t = NoTransfer THEN Received(n)
                  ELSE Sent(Received(n), n, Data(n, f.sa, t, f.seq))
      /\ UNCHANGED <<rx, tx, status, delivered>>

Concluded(t, outcome) ==
  IF t # NoTransfer /\ status[t] = "rts" THEN [status EXCEPT ![t] = outcome] ELSE status

HearEom(n, f) ==
  /\ f.kind = "EOM"
  /\ tx' = [tx EXCEPT ![n][f.sa] = NoTransfer]
  /\ status' = Concluded(tx[n][f.sa], "ok")
  /\ inbox' = Received(n)
  /\ UNCHANGED <<rx, delivered>>

(* An Abort ends both the reassembly from and the session to its sender. *)
HearAbort(n, f) ==
  /\ f.kind = "ABORT"
  /\ rx' = [rx EXCEPT ![n][f.sa] = NoSession]
  /\ tx' = [tx EXCEPT ![n][f.sa] = NoTransfer]
  /\ status' = Concluded(tx[n][f.sa], "aborted")
  /\ inbox' = Received(n)
  /\ UNCHANGED delivered

Expected(session, f) == f.seq = session.next

(* The session after an expected DT; bytes past total_bytes are cut off. *)
Accepted(session, f) ==
  [session EXCEPT
     !.next = Next8(@),
     !.data = IF Len(@) < Packets[session.transfer]
              THEN Append(@, <<f.transfer, f.part>>) ELSE @]

IsComplete_Early(session) == session.next >= Total(session.transfer)

IsComplete(session) == session.next > Total(session.transfer)

HearStrayDt(n, f) ==
  /\ f.kind = "DT" /\ rx[n][f.sa] = NoSession
  /\ inbox' = Received(n)
  /\ UNCHANGED <<rx, tx, status, delivered>>

(* Out of sequence: ask again, or wait for the rest of the broadcast. *)
HearWrongDt(n, f) ==
  LET session == rx[n][f.sa]
  IN  /\ f.kind = "DT" /\ session # NoSession /\ ~Expected(session, f)
      /\ inbox' = IF session.bam THEN Received(n)
                  ELSE Sent(Received(n), n, Cts(n, f.sa, session))
      /\ UNCHANGED <<rx, tx, status, delivered>>

HearNextDt(n, f) ==
  LET session == Accepted(rx[n][f.sa], f)
  IN  /\ f.kind = "DT" /\ rx[n][f.sa] # NoSession /\ Expected(rx[n][f.sa], f)
      /\ ~IsComplete(session)
      /\ rx' = [rx EXCEPT ![n][f.sa] = session]
      /\ inbox' = IF session.bam THEN Received(n)
                  ELSE Sent(Received(n), n, Cts(n, f.sa, session))
      /\ UNCHANGED <<tx, status, delivered>>

HearLastDt(n, f) ==
  LET session == Accepted(rx[n][f.sa], f)
  IN  /\ f.kind = "DT" /\ rx[n][f.sa] # NoSession /\ Expected(rx[n][f.sa], f)
      /\ IsComplete(session)
      /\ rx' = [rx EXCEPT ![n][f.sa] = NoSession]
      /\ inbox' = IF session.bam THEN Received(n)
                  ELSE Sent(Received(n), n, Control("EOM", n, f.sa, session.transfer, 0))
      /\ delivered' = [delivered EXCEPT ![n] =
           Append(@, [transfer |-> session.transfer, data |-> session.data])]
      /\ UNCHANGED <<tx, status>>

Handle(n, f) ==
  \/ HearRts(n, f) \/ HearBam(n, f) \/ HearCts(n, f) \/ HearEom(n, f) \/ HearAbort(n, f)
  \/ HearStrayDt(n, f) \/ HearWrongDt(n, f) \/ HearNextDt(n, f) \/ HearLastDt(n, f)

RxFrame(n) ==
  /\ inbox[n] # <<>>
  /\ Handle(n, Head(inbox[n]))
  /\ UNCHANGED <<seq, losses, aborts>>

-----------------------------------------------------------------------------
(* The environment. *)

(* A full receive buffer loses a frame. *)
Lose(n) ==
  /\ losses < MaxLosses /\ inbox[n] # <<>>
  /\ losses' = losses + 1
  /\ inbox' = Received(n)
  /\ UNCHANGED <<rx, tx, seq, status, delivered, aborts>>

(* Equipment at address s sends an Abort; this stack never does. *)
ForeignAbort(s, d) ==
  /\ aborts < MaxAborts
  /\ aborts' = aborts + 1
  /\ inbox' = Sent(inbox, s, Control("ABORT", s, d, NoTransfer, 0))
  /\ UNCHANGED <<rx, tx, seq, status, delivered, losses>>

Next ==
  \/ \E t \in Transfer :
       \/ StartRts(t) \/ StartBam(t) \/ StartFails(t)
       \/ StepBam(t) \/ BamFails(t) \/ EndBam(t) \/ Timeout(t)
  \/ \E n \in Node : RxFrame(n) \/ Lose(n)
  \/ \E s, d \in Node : s # d /\ ForeignAbort(s, d)

Spec == Init /\ [][Next]_vars

(* The receive threads, the BAM loop and the timers keep running; nothing  *)
(* obliges an application to start a transfer.                             *)
Fairness ==
  /\ \A n \in Node : WF_vars(RxFrame(n))
  /\ \A t \in Transfer : WF_vars(StepBam(t) \/ EndBam(t)) /\ WF_vars(Timeout(t))

FairSpec == Spec /\ Fairness

-----------------------------------------------------------------------------
TypeOK ==
  /\ inbox \in [Node -> Seq(Frame)]
  /\ rx \in [Node -> [Node -> Session \cup {NoSession}]]
  /\ tx \in [Node -> [Node -> Transfer \cup {NoTransfer}]]
  /\ seq \in [Transfer -> Seq8]
  /\ status \in [Transfer -> {"idle", "rts", "bam", "ok", "refused", "failed",
                              "aborted", "timeout"}]
  /\ delivered \in [Node -> Seq([transfer : Transfer, data : Seq(Chunk)])]
  /\ losses \in 0 .. MaxLosses
  /\ aborts \in 0 .. MaxAborts

Service == INSTANCE TransferService WITH
  progress <- [t \in Transfer |->
                 CASE status[t] \in {"rts", "bam"} -> "pending"
                   [] status[t] \in {"failed", "aborted", "timeout"} -> "failed"
                   [] OTHER -> status[t]]

(* The transport layer implements the service it promises. *)
ImplementsService == Service!ServiceSpec

(* Whatever an application is handed is exactly what one sender sent: all  *)
(* its packets, in order, none of another message (on_tp_dt).              *)
DeliveredIntact ==
  \A n \in Node : \A i \in DOMAIN delivered[n] :
    delivered[n][i] = Service!Message(delivered[n][i].transfer)

(* Stop-and-wait: while a transfer between two nodes is open and no frame  *)
(* was lost, exactly one frame of it is under way, so that neither side    *)
(* waits for the other.                                                    *)
Underway(t) ==
  UNION {{<<n, i>> : i \in {j \in DOMAIN inbox[n] : inbox[n][j].transfer = t}} : n \in Node}

StopAndWait ==
  losses = 0 => \A t \in Transfer : Dst[t] # All =>
    Cardinality(Underway(t)) = IF status[t] = "rts" THEN 1 ELSE 0

(* Every node a transfer is for was handed it. *)
Reached(t) ==
  \A n \in IF Dst[t] = All THEN Node \ {Src[t]} ELSE {Dst[t]} : Service!Has(n, t)

(* Every transfer that was started comes to an end for its caller: with    *)
(* success, and with the message at all it is for, if its first frame went *)
(* out and no frame is lost.                                               *)
EveryTransferEnds ==
  \A t \in Transfer : status[t] # "idle" ~>
    /\ ~Busy(t)
    /\ losses > 0 \/ status[t] = "refused" \/ (status[t] = "ok" /\ Reached(t))
=============================================================================
