---------------------------- MODULE EcuSendProofs ----------------------------
(***************************************************************************)
(* What EcuSend guarantees for any number of sends and peers.  The         *)
(* invariant says, kind by kind, how a call's progress, its timer, the     *)
(* shared flag and the count of its outcomes hang together.                *)
(***************************************************************************)
EXTENDS EcuSend, SequenceTheorems, TLAPS

WaitInv(j) == calls[j] = IF phase[j] = "returned" THEN 1 ELSE 0

BamInv(j) ==
  /\ phase[j] \in {"idle", "waiting"}
  /\ phase[j] = "idle" => left[j] = 0
  /\ calls[j] = IF phase[j] = "waiting" /\ left[j] = 0 THEN 1 ELSE 0

AsyncInv(j) ==
  /\ phase[j] \in {"idle", "armed", "waiting", "returned"}
  /\ phase[j] = "idle" => timer[j] = "off"
  /\ phase[j] \in {"idle", "armed"} => calls[j] = 0 /\ ~fired[j] /\ timer[j] # "due"
  /\ phase[j] = "waiting" => calls[j] = IF fired[j] /\ asio # j THEN calls[j] ELSE 0
  /\ phase[j] = "returned" => timer[j] = "off" /\ ~fired[j]
  /\ asio = j => phase[j] = "waiting" /\ fired[j]
  /\ calls[j] \in {0, 1}

(* A send of one kind leaves the bookkeeping of the others alone. *)
KindInv(j) ==
  /\ Kind[j] # "bam" => left[j] = 0
  /\ Kind[j] # "async" => timer[j] = "off" /\ asio # j
  /\ Kind[j] = "dm1" => calls[j] = 0 /\ phase[j] # "late"
  /\ rx = j => Kind[j] = "dm1"

JobInv(j) ==
  /\ KindInv(j)
  /\ Kind[j] = "wait" => WaitInv(j)
  /\ Kind[j] = "bam" => BamInv(j)
  /\ Kind[j] = "async" => AsyncInv(j)

(* A registered session belongs to an open call to that peer. *)
SessionInv(d) ==
  LET j == sessions[d]
  IN  j # NoJob =>
        /\ Dest[j] = d
        /\ Kind[j] \in {"wait", "async", "dm1"}
        /\ Kind[j] = "wait" => phase[j] \in {"waiting", "late"}
        /\ Kind[j] = "async" => phase[j] = "waiting" /\ calls[j] = 0

SendInv ==
  /\ TypeOK
  /\ \A j \in Job : JobInv(j)
  /\ \A d \in Peer : SessionInv(d)

-----------------------------------------------------------------------------
LEMMA InitInv == Init => SendInv
<1> SUFFICES ASSUME Init PROVE SendInv
  OBVIOUS
<1>1. TypeOK
  <2>1. inbox \in Seq(Frame)
    BY EmptySeq DEF Init
  <2>2. left \in [Job -> 0 .. BamSteps]
    <3>1. 0 \in 0 .. BamSteps
      BY JobAssumption
    <3> QED
      BY <3>1 DEF Init
  <2> QED
    BY <2>1, <2>2 DEF Init, TypeOK
<1>2. ASSUME NEW j \in Job PROVE JobInv(j)
  BY NoJobAssumption, JobAssumption DEF Init, JobInv, KindInv, WaitInv, BamInv, AsyncInv
<1>3. ASSUME NEW d \in Peer PROVE SessionInv(d)
  BY DEF Init, SessionInv
<1> QED
  BY <1>1, <1>2, <1>3 DEF SendInv

(* The frame at the head of the socket. *)
LEMMA HeadFrame ==
  ASSUME TypeOK, inbox # <<>>
  PROVE  Head(inbox) \in Frame /\ Head(inbox).from \in Peer /\ Tail(inbox) \in Seq(Frame)
<1>1. inbox \in Seq(Frame)
  BY DEF TypeOK
<1>2. Head(inbox) \in Frame /\ Tail(inbox) \in Seq(Frame)
  BY <1>1, HeadTailProperties
<1> QED
  BY <1>2 DEF Frame

(* Every step keeps the types. *)
LEMMA TypeStep ==
  ASSUME SendInv, ~SlowCaller, [Next]_vars
  PROVE  TypeOK'
<1>1. ASSUME NEW j \in Job, Send(j) PROVE TypeOK'
  BY <1>1, JobAssumption, NoJobAssumption DEF SendInv, TypeOK, Send, Called, Opened, Registered, caller, async, shared, threads, bus
<1>2. ASSUME NEW j \in Job, SendFails(j) PROVE TypeOK'
  BY <1>2, JobAssumption, NoJobAssumption DEF SendInv, TypeOK, SendFails, Called, Told, caller, async, shared, threads, bus
<1>3. ASSUME NEW j \in Job, WaitEnds(j) PROVE TypeOK'
  BY <1>3, JobAssumption, NoJobAssumption DEF SendInv, TypeOK, WaitEnds, caller, async, shared, threads, bus
<1>4. ASSUME NEW j \in Job, WaitErases(j) PROVE TypeOK'
  <2>1. phase' \in [Job -> {"idle", "armed", "waiting", "late", "returned"}]
    BY <1>4 DEF SendInv, TypeOK, WaitErases
  <2>2. calls' \in [Job -> Nat]
    BY <1>4 DEF SendInv, TypeOK, WaitErases, Told
  <2>3. sessions' \in [Peer -> Job \cup {NoJob}]
    BY <1>4 DEF SendInv, TypeOK, WaitErases, Erased
  <2> QED
    BY <1>4, <2>1, <2>2, <2>3 DEF SendInv, TypeOK, WaitErases, async, threads, bus
<1>5. ASSUME NEW j \in Job, SendAsync(j) PROVE TypeOK'
  BY <1>5, JobAssumption, NoJobAssumption DEF SendInv, TypeOK, SendAsync, Called, caller, async, shared, threads, bus
<1>6. ASSUME NEW j \in Job, OpenAsync(j) PROVE TypeOK'
  BY <1>6, JobAssumption, NoJobAssumption DEF SendInv, TypeOK, OpenAsync, Opened, Registered, caller, async, shared, threads, bus
<1>7. ASSUME NEW j \in Job, OpenAsyncFails(j) PROVE TypeOK'
  BY <1>7, JobAssumption, NoJobAssumption DEF SendInv, TypeOK, OpenAsyncFails, Cancelled, Told, caller, async, shared, threads, bus
<1>8. ASSUME NEW j \in Job, Expires(j) PROVE TypeOK'
  BY <1>8, JobAssumption, NoJobAssumption DEF SendInv, TypeOK, Expires, caller, async, shared, threads, bus
<1>9. ASSUME NEW j \in Job, TimerHandler(j) PROVE TypeOK'
  BY <1>9, JobAssumption, NoJobAssumption DEF SendInv, TypeOK, TimerHandler, Running, caller, async, shared, threads, bus
<1>10. ASSUME NEW j \in Job, TimerErases(j) PROVE TypeOK'
  <2>1. calls' \in [Job -> Nat]
    BY <1>10 DEF SendInv, TypeOK, TimerErases, Told
  <2>2. sessions' \in [Peer -> Job \cup {NoJob}]
    BY <1>10 DEF SendInv, TypeOK, TimerErases, Erased
  <2> QED
    BY <1>10, <2>1, <2>2 DEF SendInv, TypeOK, TimerErases, async, bus
<1>11. ASSUME NEW j \in Job, SendBam(j) PROVE TypeOK'
  BY <1>11, JobAssumption, NoJobAssumption DEF SendInv, TypeOK, SendBam, Called, caller, async, shared, threads, bus
<1>12. ASSUME NEW j \in Job, StepBam(j) PROVE TypeOK'
  <2>1. left' \in [Job -> 0 .. BamSteps]
    <3>1. left[j] \in 1 .. BamSteps /\ left[j] - 1 \in 0 .. BamSteps /\ 0 \in 0 .. BamSteps
      BY <1>12, JobAssumption DEF SendInv, TypeOK, StepBam
    <3> QED
      BY <1>12, <3>1 DEF SendInv, TypeOK, StepBam
  <2>2. calls' \in [Job -> Nat]
    BY <1>12 DEF SendInv, TypeOK, StepBam, Told
  <2> QED
    BY <1>12, <2>1, <2>2 DEF SendInv, TypeOK, StepBam, shared, threads, bus
<1>13. ASSUME NEW j \in Job, Dm1Starts(j) PROVE TypeOK'
  BY <1>13, JobAssumption, NoJobAssumption DEF SendInv, TypeOK, Dm1Starts, Free, caller, async, shared, threads, bus
<1>14. ASSUME NEW j \in Job, Dm1Registers(j) PROVE TypeOK'
  BY <1>14, JobAssumption, NoJobAssumption DEF SendInv, TypeOK, Dm1Registers, Registered, caller, async, shared, threads, bus
<1>15. ASSUME inbox # <<>>, RxCts(Head(inbox)) PROVE TypeOK'
  BY <1>15, HeadFrame, JobAssumption, NoJobAssumption DEF SendInv, TypeOK, RxCts, Receiving, caller, async, shared, threads, bus
<1>16. ASSUME inbox # <<>>, RxStray(Head(inbox)) PROVE TypeOK'
  BY <1>16, HeadFrame, JobAssumption, NoJobAssumption DEF SendInv, TypeOK, RxStray, Receiving, caller, async, shared, threads, bus
<1>17. ASSUME inbox # <<>>, RxEndsDm1(Head(inbox)) PROVE TypeOK'
  BY <1>17, HeadFrame, JobAssumption, NoJobAssumption DEF SendInv, TypeOK, RxEndsDm1, Receiving, Erased, caller, async, shared, threads, bus
<1>18. ASSUME inbox # <<>>, RxEndsWait(Head(inbox)) PROVE TypeOK'
  BY <1>18, HeadFrame, JobAssumption, NoJobAssumption DEF SendInv, TypeOK, RxEndsWait, Receiving, Erased, Told, caller, async, shared, threads, bus
<1>19. ASSUME inbox # <<>>, RxEndsAsync(Head(inbox)) PROVE TypeOK'
  BY <1>19, HeadFrame, JobAssumption, NoJobAssumption DEF SendInv, TypeOK, RxEndsAsync, Receiving, Erased, Cancelled, caller, async, shared, threads, bus
<1>20. CASE Destroy \/ JoinAsio \/ JoinRx
  BY <1>20 DEF SendInv, TypeOK, Destroy, JoinAsio, JoinRx, caller, async, shared, threads, bus
<1>21. ASSUME NEW d \in Peer, PeerStep(d) PROVE TypeOK'
  <2>1. PICK k \in {"CTS", "EOM", "ABORT"}, next \in {"quiet", "granted"} :
             /\ peer' = [peer EXCEPT ![d] = next]
             /\ inbox' = Append(inbox, [from |-> d, kind |-> k])
             /\ UNCHANGED <<caller, async, shared, threads>>
    BY <1>21 DEF PeerStep, PeerGrants, PeerAcknowledges, PeerAborts, Answers
  <2>2. [from |-> d, kind |-> k] \in Frame
    BY DEF Frame
  <2>3. inbox' \in Seq(Frame)
    BY <2>1, <2>2, AppendProperties DEF SendInv, TypeOK
  <2> QED
    BY <2>1, <2>3 DEF SendInv, TypeOK, caller, async, shared, threads
<1>22. CASE UNCHANGED vars
  BY <1>22 DEF SendInv, TypeOK, vars, caller, async, shared, threads, bus
<1> QED
  BY <1>1, <1>2, <1>3, <1>4, <1>5, <1>6, <1>7, <1>8, <1>9, <1>10, <1>11, <1>12, <1>13, <1>14, <1>15, <1>16, <1>17, <1>18, <1>19, <1>20, <1>21, <1>22
     DEF Next, SendStep, CallerThread, Clock, AsioThread, RxThread, RxFrame

(* Every step keeps the bookkeeping of every call. *)
LEMMA JobStep ==
  ASSUME SendInv, ~SlowCaller, [Next]_vars
  PROVE  \A k \in Job : JobInv(k)'
<1>1. ASSUME NEW j \in Job, Send(j) PROVE \A k \in Job : JobInv(k)'
  BY <1>1, JobAssumption, NoJobAssumption DEF SendInv, TypeOK, Send, Called, Opened, Registered, caller, async, shared, threads, bus, JobInv, KindInv, WaitInv, BamInv, AsyncInv
<1>2. ASSUME NEW j \in Job, SendFails(j) PROVE \A k \in Job : JobInv(k)'
  BY <1>2, JobAssumption, NoJobAssumption DEF SendInv, TypeOK, SendFails, Called, Told, caller, async, shared, threads, bus, JobInv, KindInv, WaitInv, BamInv, AsyncInv
<1>3. ASSUME NEW j \in Job, WaitEnds(j) PROVE \A k \in Job : JobInv(k)'
  BY <1>3, JobAssumption, NoJobAssumption DEF SendInv, TypeOK, WaitEnds, caller, async, shared, threads, bus, JobInv, KindInv, WaitInv, BamInv, AsyncInv
<1>4. ASSUME NEW j \in Job, WaitErases(j) PROVE \A k \in Job : JobInv(k)'
  <2>1. ASSUME NEW k \in Job PROVE JobInv(k)'
    <3>1. JobInv(k) /\ Kind[k] \in {"wait", "async", "bam", "dm1"}
      BY JobAssumption DEF SendInv
    <3>2. CASE k = j
      BY <1>4, <3>1, <3>2 DEF SendInv, TypeOK, WaitErases, Told, async, threads,
                             JobInv, KindInv, WaitInv, BamInv, AsyncInv
    <3>3. CASE k # j
      BY <1>4, <3>1, <3>3 DEF SendInv, TypeOK, WaitErases, Told, async, threads,
                             JobInv, KindInv, WaitInv, BamInv, AsyncInv
    <3> QED
      BY <3>2, <3>3
  <2> QED
    BY <2>1
<1>5. ASSUME NEW j \in Job, SendAsync(j) PROVE \A k \in Job : JobInv(k)'
  BY <1>5, JobAssumption, NoJobAssumption DEF SendInv, TypeOK, SendAsync, Called, caller, async, shared, threads, bus, JobInv, KindInv, WaitInv, BamInv, AsyncInv
<1>6. ASSUME NEW j \in Job, OpenAsync(j) PROVE \A k \in Job : JobInv(k)'
  BY <1>6, JobAssumption, NoJobAssumption DEF SendInv, TypeOK, OpenAsync, Opened, Registered, caller, async, shared, threads, bus, JobInv, KindInv, WaitInv, BamInv, AsyncInv
<1>7. ASSUME NEW j \in Job, OpenAsyncFails(j) PROVE \A k \in Job : JobInv(k)'
  BY <1>7, JobAssumption, NoJobAssumption DEF SendInv, TypeOK, OpenAsyncFails, Cancelled, Told, caller, async, shared, threads, bus, JobInv, KindInv, WaitInv, BamInv, AsyncInv
<1>8. ASSUME NEW j \in Job, Expires(j) PROVE \A k \in Job : JobInv(k)'
  BY <1>8, JobAssumption, NoJobAssumption DEF SendInv, TypeOK, Expires, caller, async, shared, threads, bus, JobInv, KindInv, WaitInv, BamInv, AsyncInv
<1>9. ASSUME NEW j \in Job, TimerHandler(j) PROVE \A k \in Job : JobInv(k)'
  BY <1>9, JobAssumption, NoJobAssumption DEF SendInv, TypeOK, TimerHandler, Running, caller, async, shared, threads, bus, JobInv, KindInv, WaitInv, BamInv, AsyncInv
<1>10. ASSUME NEW j \in Job, TimerErases(j) PROVE \A k \in Job : JobInv(k)'
  BY <1>10, JobAssumption, NoJobAssumption DEF SendInv, TypeOK, TimerErases, Told, Erased, caller, async, shared, threads, bus, JobInv, KindInv, WaitInv, BamInv, AsyncInv
<1>11. ASSUME NEW j \in Job, SendBam(j) PROVE \A k \in Job : JobInv(k)'
  BY <1>11, JobAssumption, NoJobAssumption DEF SendInv, TypeOK, SendBam, Called, caller, async, shared, threads, bus, JobInv, KindInv, WaitInv, BamInv, AsyncInv
<1>12. ASSUME NEW j \in Job, StepBam(j) PROVE \A k \in Job : JobInv(k)'
  BY <1>12, JobAssumption, NoJobAssumption DEF SendInv, TypeOK, StepBam, Running, Told, caller, async, shared, threads, bus, JobInv, KindInv, WaitInv, BamInv, AsyncInv
<1>13. ASSUME NEW j \in Job, Dm1Starts(j) PROVE \A k \in Job : JobInv(k)'
  BY <1>13, JobAssumption, NoJobAssumption DEF SendInv, TypeOK, Dm1Starts, Free, caller, async, shared, threads, bus, JobInv, KindInv, WaitInv, BamInv, AsyncInv
<1>14. ASSUME NEW j \in Job, Dm1Registers(j) PROVE \A k \in Job : JobInv(k)'
  BY <1>14, JobAssumption, NoJobAssumption DEF SendInv, TypeOK, Dm1Registers, Registered, caller, async, shared, threads, bus, JobInv, KindInv, WaitInv, BamInv, AsyncInv
<1>15. ASSUME inbox # <<>>, RxCts(Head(inbox)) PROVE \A k \in Job : JobInv(k)'
  BY <1>15, HeadFrame, JobAssumption, NoJobAssumption DEF SendInv, TypeOK, RxCts, Receiving, caller, async, shared, threads, bus, JobInv, KindInv, WaitInv, BamInv, AsyncInv
<1>16. ASSUME inbox # <<>>, RxStray(Head(inbox)) PROVE \A k \in Job : JobInv(k)'
  BY <1>16, HeadFrame, JobAssumption, NoJobAssumption DEF SendInv, TypeOK, RxStray, Receiving, caller, async, shared, threads, bus, JobInv, KindInv, WaitInv, BamInv, AsyncInv
<1>17. ASSUME inbox # <<>>, RxEndsDm1(Head(inbox)) PROVE \A k \in Job : JobInv(k)'
  BY <1>17, HeadFrame, JobAssumption, NoJobAssumption DEF SendInv, TypeOK, RxEndsDm1, Receiving, Erased, caller, async, shared, threads, bus, JobInv, KindInv, WaitInv, BamInv, AsyncInv
<1>18. ASSUME inbox # <<>>, RxEndsWait(Head(inbox)) PROVE \A k \in Job : JobInv(k)'
  BY <1>18, HeadFrame, JobAssumption, NoJobAssumption DEF SendInv, TypeOK, RxEndsWait, Receiving, Erased, Told, caller, async, shared, threads, bus, JobInv, KindInv, WaitInv, BamInv, AsyncInv
<1>19. ASSUME inbox # <<>>, RxEndsAsync(Head(inbox)) PROVE \A k \in Job : JobInv(k)'
  <2> DEFINE j == sessions[Head(inbox).from]
  <2>1. j \in Job /\ Kind[j] = "async" /\ phase[j] = "waiting"
    BY <1>19, HeadFrame DEF SendInv, TypeOK, RxEndsAsync, SessionInv
  <2>2. timer' = Cancelled(j) /\ fired' = [fired EXCEPT ![j] = TRUE]
        /\ UNCHANGED <<caller, left, threads>>
    BY <1>19 DEF RxEndsAsync
  <2>3. ASSUME NEW k \in Job PROVE JobInv(k)'
    <3> HIDE DEF j
    <3>1. JobInv(k) /\ Kind[k] \in {"wait", "async", "bam", "dm1"}
      BY JobAssumption DEF SendInv
    <3>2. CASE k = j
      BY <2>1, <2>2, <3>1, <3>2 DEF SendInv, TypeOK, Cancelled, caller, threads,
                             JobInv, KindInv, WaitInv, BamInv, AsyncInv
    <3>3. CASE k # j
      BY <2>1, <2>2, <3>1, <3>3 DEF SendInv, TypeOK, Cancelled, caller, threads,
                             JobInv, KindInv, WaitInv, BamInv, AsyncInv
    <3> QED
      BY <3>2, <3>3
  <2> QED
    BY <2>3
<1>20. CASE Destroy \/ JoinAsio \/ JoinRx
  BY <1>20 DEF SendInv, TypeOK, Destroy, JoinAsio, JoinRx, caller, async, shared, threads, bus, JobInv, KindInv, WaitInv, BamInv, AsyncInv
<1>21. ASSUME NEW d \in Peer, PeerStep(d) PROVE \A k \in Job : JobInv(k)'
  BY <1>21 DEF SendInv, TypeOK, Frame, PeerStep, PeerGrants, PeerAcknowledges, PeerAborts, Answers,
                caller, async, shared, threads, bus, JobInv, KindInv, WaitInv, BamInv, AsyncInv
<1>22. CASE UNCHANGED vars
  BY <1>22 DEF SendInv, TypeOK, vars, caller, async, shared, threads, bus, JobInv, KindInv, WaitInv, BamInv, AsyncInv
<1> QED
  BY <1>1, <1>2, <1>3, <1>4, <1>5, <1>6, <1>7, <1>8, <1>9, <1>10, <1>11, <1>12, <1>13, <1>14, <1>15, <1>16, <1>17, <1>18, <1>19, <1>20, <1>21, <1>22
     DEF Next, SendStep, CallerThread, Clock, AsioThread, RxThread, RxFrame

(* Every step keeps the sessions and their calls in agreement. *)
LEMMA SessionStep ==
  ASSUME SendInv, ~SlowCaller, [Next]_vars
  PROVE  \A p \in Peer : SessionInv(p)'
<1>1. ASSUME NEW j \in Job, Send(j) PROVE \A p \in Peer : SessionInv(p)'
  BY <1>1, JobAssumption, NoJobAssumption DEF SendInv, TypeOK, Send, Called, Opened, Registered, caller, async, shared, threads, bus, JobInv, KindInv, WaitInv, BamInv, AsyncInv, SessionInv
<1>2. ASSUME NEW j \in Job, SendFails(j) PROVE \A p \in Peer : SessionInv(p)'
  BY <1>2, JobAssumption, NoJobAssumption DEF SendInv, TypeOK, SendFails, Called, Told, caller, async, shared, threads, bus, JobInv, KindInv, WaitInv, BamInv, AsyncInv, SessionInv
<1>3. ASSUME NEW j \in Job, WaitEnds(j) PROVE \A p \in Peer : SessionInv(p)'
  BY <1>3, JobAssumption, NoJobAssumption DEF SendInv, TypeOK, WaitEnds, caller, async, shared, threads, bus, JobInv, KindInv, WaitInv, BamInv, AsyncInv, SessionInv
<1>4. ASSUME NEW j \in Job, WaitErases(j) PROVE \A p \in Peer : SessionInv(p)'
  BY <1>4, JobAssumption, NoJobAssumption DEF SendInv, TypeOK, WaitErases, Told, Erased, caller, async, shared, threads, bus, JobInv, KindInv, WaitInv, BamInv, AsyncInv, SessionInv
<1>5. ASSUME NEW j \in Job, SendAsync(j) PROVE \A p \in Peer : SessionInv(p)'
  BY <1>5, JobAssumption, NoJobAssumption DEF SendInv, TypeOK, SendAsync, Called, caller, async, shared, threads, bus, JobInv, KindInv, WaitInv, BamInv, AsyncInv, SessionInv
<1>6. ASSUME NEW j \in Job, OpenAsync(j) PROVE \A p \in Peer : SessionInv(p)'
  BY <1>6, JobAssumption, NoJobAssumption DEF SendInv, TypeOK, OpenAsync, Opened, Registered, caller, async, shared, threads, bus, JobInv, KindInv, WaitInv, BamInv, AsyncInv, SessionInv
<1>7. ASSUME NEW j \in Job, OpenAsyncFails(j) PROVE \A p \in Peer : SessionInv(p)'
  BY <1>7, JobAssumption, NoJobAssumption DEF SendInv, TypeOK, OpenAsyncFails, Cancelled, Told, caller, async, shared, threads, bus, JobInv, KindInv, WaitInv, BamInv, AsyncInv, SessionInv
<1>8. ASSUME NEW j \in Job, Expires(j) PROVE \A p \in Peer : SessionInv(p)'
  BY <1>8, JobAssumption, NoJobAssumption DEF SendInv, TypeOK, Expires, caller, async, shared, threads, bus, JobInv, KindInv, WaitInv, BamInv, AsyncInv, SessionInv
<1>9. ASSUME NEW j \in Job, TimerHandler(j) PROVE \A p \in Peer : SessionInv(p)'
  BY <1>9, JobAssumption, NoJobAssumption DEF SendInv, TypeOK, TimerHandler, Running, caller, async, shared, threads, bus, JobInv, KindInv, WaitInv, BamInv, AsyncInv, SessionInv
<1>10. ASSUME NEW j \in Job, TimerErases(j) PROVE \A p \in Peer : SessionInv(p)'
  BY <1>10, JobAssumption, NoJobAssumption DEF SendInv, TypeOK, TimerErases, Told, Erased, caller, async, shared, threads, bus, JobInv, KindInv, WaitInv, BamInv, AsyncInv, SessionInv
<1>11. ASSUME NEW j \in Job, SendBam(j) PROVE \A p \in Peer : SessionInv(p)'
  BY <1>11, JobAssumption, NoJobAssumption DEF SendInv, TypeOK, SendBam, Called, caller, async, shared, threads, bus, JobInv, KindInv, WaitInv, BamInv, AsyncInv, SessionInv
<1>12. ASSUME NEW j \in Job, StepBam(j) PROVE \A p \in Peer : SessionInv(p)'
  BY <1>12, JobAssumption, NoJobAssumption DEF SendInv, TypeOK, StepBam, Running, Told, caller, async, shared, threads, bus, JobInv, KindInv, WaitInv, BamInv, AsyncInv, SessionInv
<1>13. ASSUME NEW j \in Job, Dm1Starts(j) PROVE \A p \in Peer : SessionInv(p)'
  BY <1>13, JobAssumption, NoJobAssumption DEF SendInv, TypeOK, Dm1Starts, Free, caller, async, shared, threads, bus, JobInv, KindInv, WaitInv, BamInv, AsyncInv, SessionInv
<1>14. ASSUME NEW j \in Job, Dm1Registers(j) PROVE \A p \in Peer : SessionInv(p)'
  BY <1>14, JobAssumption, NoJobAssumption DEF SendInv, TypeOK, Dm1Registers, Registered, caller, async, shared, threads, bus, JobInv, KindInv, WaitInv, BamInv, AsyncInv, SessionInv
<1>15. ASSUME inbox # <<>>, RxCts(Head(inbox)) PROVE \A p \in Peer : SessionInv(p)'
  BY <1>15, HeadFrame, JobAssumption, NoJobAssumption DEF SendInv, TypeOK, RxCts, Receiving, caller, async, shared, threads, bus, JobInv, KindInv, WaitInv, BamInv, AsyncInv, SessionInv
<1>16. ASSUME inbox # <<>>, RxStray(Head(inbox)) PROVE \A p \in Peer : SessionInv(p)'
  BY <1>16, HeadFrame, JobAssumption, NoJobAssumption DEF SendInv, TypeOK, RxStray, Receiving, caller, async, shared, threads, bus, JobInv, KindInv, WaitInv, BamInv, AsyncInv, SessionInv
<1>17. ASSUME inbox # <<>>, RxEndsDm1(Head(inbox)) PROVE \A p \in Peer : SessionInv(p)'
  BY <1>17, HeadFrame, JobAssumption, NoJobAssumption DEF SendInv, TypeOK, RxEndsDm1, Receiving, Erased, caller, async, shared, threads, bus, JobInv, KindInv, WaitInv, BamInv, AsyncInv, SessionInv
<1>18. ASSUME inbox # <<>>, RxEndsWait(Head(inbox)) PROVE \A p \in Peer : SessionInv(p)'
  BY <1>18, HeadFrame, JobAssumption, NoJobAssumption DEF SendInv, TypeOK, RxEndsWait, Receiving, Erased, Told, caller, async, shared, threads, bus, JobInv, KindInv, WaitInv, BamInv, AsyncInv, SessionInv
<1>19. ASSUME inbox # <<>>, RxEndsAsync(Head(inbox)) PROVE \A p \in Peer : SessionInv(p)'
  BY <1>19, HeadFrame, JobAssumption, NoJobAssumption DEF SendInv, TypeOK, RxEndsAsync, Receiving, Erased, Cancelled, caller, async, shared, threads, bus, JobInv, KindInv, WaitInv, BamInv, AsyncInv, SessionInv
<1>20. CASE Destroy \/ JoinAsio \/ JoinRx
  BY <1>20 DEF SendInv, TypeOK, Destroy, JoinAsio, JoinRx, caller, async, shared, threads, bus, JobInv, KindInv, WaitInv, BamInv, AsyncInv, SessionInv
<1>21. ASSUME NEW d \in Peer, PeerStep(d) PROVE \A p \in Peer : SessionInv(p)'
  BY <1>21 DEF SendInv, TypeOK, Frame, PeerStep, PeerGrants, PeerAcknowledges, PeerAborts, Answers,
                caller, async, shared, threads, bus, JobInv, KindInv, WaitInv, BamInv, AsyncInv, SessionInv
<1>22. CASE UNCHANGED vars
  BY <1>22 DEF SendInv, TypeOK, vars, caller, async, shared, threads, bus, JobInv, KindInv, WaitInv, BamInv, AsyncInv, SessionInv
<1> QED
  BY <1>1, <1>2, <1>3, <1>4, <1>5, <1>6, <1>7, <1>8, <1>9, <1>10, <1>11, <1>12, <1>13, <1>14, <1>15, <1>16, <1>17, <1>18, <1>19, <1>20, <1>21, <1>22
     DEF Next, SendStep, CallerThread, Clock, AsioThread, RxThread, RxFrame

LEMMA SendInvariant == ASSUME ~SlowCaller PROVE Spec => []SendInv
<1>1. SendInv /\ [Next]_vars => SendInv'
  BY TypeStep, JobStep, SessionStep DEF SendInv
<1> QED
  BY InitInv, <1>1, PTL DEF Spec

(* Every variable keeps its type: a broadcast never sends more frames than *)
(* it has, and tx_sessions_ holds sends that were made.                    *)
THEOREM TypeCorrect == ASSUME ~SlowCaller PROVE Spec => []TypeOK
<1>1. SendInv => TypeOK
  BY DEF SendInv
<1> QED
  BY SendInvariant, <1>1, PTL

(* No caller is told of two outcomes, whatever races with its timer, if    *)
(* send_async() is not held up as long as the response timer runs.         *)
THEOREM NeverToldTwice == ASSUME ~SlowCaller PROVE Spec => []ToldOnce
<1>1. SendInv => ToldOnce
  <2> SUFFICES ASSUME SendInv, NEW j \in Job PROVE calls[j] <= 1
    BY DEF ToldOnce
  <2>1. JobInv(j) /\ Kind[j] \in {"wait", "async", "bam", "dm1"}
    BY JobAssumption DEF SendInv
  <2>2. calls[j] \in {0, 1}
    BY <2>1 DEF JobInv, KindInv, WaitInv, BamInv, AsyncInv
  <2> QED
    BY <2>2
<1> QED
  BY SendInvariant, <1>1, PTL

(* A session in tx_sessions_ is never that of a send that is over.         *)
THEOREM SessionsAreOpen == ASSUME ~SlowCaller PROVE Spec => []NoOrphans
<1>1. SendInv => NoOrphans
  <2> SUFFICES ASSUME SendInv, NEW d \in Peer, sessions[d] \in Caller
               PROVE  calls[sessions[d]] = 0
    BY DEF NoOrphans
  <2>1. sessions[d] \in Job /\ SessionInv(d) /\ JobInv(sessions[d])
    BY DEF SendInv, Caller
  <2> QED
    BY <2>1, NoJobAssumption DEF SessionInv, JobInv, WaitInv, Caller
<1> QED
  BY SendInvariant, <1>1, PTL
=============================================================================
