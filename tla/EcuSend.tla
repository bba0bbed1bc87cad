------------------------------- MODULE EcuSend -------------------------------
(***************************************************************************)
(* The sends of one Ecu and the threads that carry them out: application   *)
(* threads in send() and send_async(), the receive thread (rx_loop), and   *)
(* the ASIO thread, which runs the response timers and the BAM coroutines. *)
(* They share the mutex of Ecu::Impl and the map tx_sessions_; a step here *)
(* is what a thread does between two points where it can be held up.       *)
(*                                                                         *)
(* The frames of a transfer are those of Transport and are not repeated:   *)
(* a peer that was sent an RTS may grant packets (CTS), acknowledge once   *)
(* they were sent, abort, or keep silent.                                  *)
(***************************************************************************)
EXTENDS Naturals, Sequences

CONSTANTS
  Job,         (* the sends, each made at most once                        *)
  Kind,        (* Kind[j]: "wait" is send(), "async" is send_async(), both *)
               (* to one peer; "bam" is a broadcast by send_async(); "dm1" *)
               (* is send_dm1_response() on the receive thread             *)
  Dest,        (* Dest[j]: the peer; of no meaning for a broadcast         *)
  Peer,
  BamSteps,    (* the frames of a broadcast                                *)
  SlowCaller,  (* send_async() may be held up as long as a response timer  *)
  NoJob

ASSUME JobAssumption ==
  /\ Kind \in [Job -> {"wait", "async", "bam", "dm1"}]
  /\ Dest \in [Job -> Peer]
  /\ BamSteps \in Nat \ {0} /\ SlowCaller \in BOOLEAN
ASSUME NoJobAssumption == NoJob \notin Job

VARIABLES
  phase,     (* how far the thread that makes the call has come            *)
  calls,     (* how often the caller was told an outcome                   *)
  timer,     (* the response timer of a send_async()                       *)
  fired,     (* the flag its timer and its session share                   *)
  left,      (* the frames a BAM coroutine has left to send                *)
  sessions,  (* tx_sessions_                                               *)
  asio,      (* the job whose timer handler waits for the mutex, or NoJob  *)
  rx,        (* the DM1 response the receive thread has yet to register    *)
  wedged,    (* the receive thread locks the mutex that it holds           *)
  inbox,     (* TP.CM frames to this ECU in its socket                     *)
  peer,      (* how far each peer has come with the last RTS it was sent   *)
  alive      (* "up", or the progress of ~Ecu                              *)

caller == <<phase, calls>>
async == <<timer, fired, left>>
shared == <<sessions, wedged>>
threads == <<asio, rx, alive>>
bus == <<inbox, peer>>
vars == <<caller, async, shared, threads, bus>>

Caller == {j \in Job : Kind[j] # "dm1"}

Frame == [from : Peer, kind : {"CTS", "EOM", "ABORT"}]

Told(j) == [calls EXCEPT ![j] = @ + 1]

Erased(d) == [sessions EXCEPT ![d] = NoJob]

(* emplace() leaves a session already there in place. *)
Registered(j) == [sessions EXCEPT ![Dest[j]] = IF @ = NoJob THEN j ELSE @]

(* A thread other than the holder gets the mutex, unless it is never       *)
(* released again.                                                         *)
Lockable == ~wedged

-----------------------------------------------------------------------------
Init ==
  /\ phase = [j \in Job |-> "idle"]
  /\ calls = [j \in Job |-> 0]
  /\ timer = [j \in Job |-> "off"]
  /\ fired = [j \in Job |-> FALSE]
  /\ left = [j \in Job |-> 0]
  /\ sessions = [d \in Peer |-> NoJob]
  /\ asio = NoJob /\ rx = NoJob
  /\ wedged = FALSE
  /\ inbox = <<>>
  /\ peer = [d \in Peer |-> "quiet"]
  /\ alive = "up"

(* The first act of every send: capture own_address under the mutex. *)
Called(j, k, next) ==
  /\ alive = "up" /\ Lockable
  /\ Kind[j] = k /\ phase[j] = "idle"
  /\ phase' = [phase EXCEPT ![j] = next]

(* RtsCtsSession::start() and the entry in tx_sessions_, under the mutex. *)
Opened(j) ==
  /\ sessions' = Registered(j)
  /\ peer' = [peer EXCEPT ![Dest[j]] = "asked"]

-----------------------------------------------------------------------------
(* The blocking send() of an application thread. *)

Send(j) ==
  /\ Called(j, "wait", "waiting")
  /\ Opened(j)
  /\ UNCHANGED <<calls, async, wedged, threads, inbox>>

SendFails(j) ==
  /\ Called(j, "wait", "returned")
  /\ calls' = Told(j)
  /\ UNCHANGED <<async, shared, threads, bus>>

(* Deviations, each the form an action would take with one slip in the     *)
(* code, stand before the action they deviate from; no specification uses  *)
(* them.  They show which property notices the slip.                       *)

(* wait_for gives up, before the mutex is locked. *)
WaitEnds(j) ==
  /\ phase[j] = "waiting" /\ Kind[j] = "wait"
  /\ phase' = [phase EXCEPT ![j] = "late"]
  /\ UNCHANGED <<calls, async, shared, threads, bus>>

WaitErases_Nothing(j) ==
  /\ phase[j] = "late" /\ Lockable
  /\ phase' = [phase EXCEPT ![j] = "returned"]
  /\ calls' = Told(j)
  /\ UNCHANGED <<async, shared, threads, bus>>

WaitErases(j) ==
  /\ phase[j] = "late" /\ Lockable
  /\ sessions' = Erased(Dest[j])
  /\ phase' = [phase EXCEPT ![j] = "returned"]
  /\ calls' = Told(j)
  /\ UNCHANGED <<async, wedged, threads, bus>>

-----------------------------------------------------------------------------
(* send_async() to one peer: arm the timer, then open the session. *)

SendAsync_Unarmed(j) ==
  /\ Called(j, "async", "armed")
  /\ UNCHANGED <<calls, async, shared, threads, bus>>

SendAsync(j) ==
  /\ Called(j, "async", "armed")
  /\ timer' = [timer EXCEPT ![j] = "running"]
  /\ UNCHANGED <<calls, fired, left, shared, threads, bus>>

OpenAsync(j) ==
  /\ Kind[j] = "async" /\ phase[j] = "armed" /\ Lockable
  /\ phase' = [phase EXCEPT ![j] = "waiting"]
  /\ Opened(j)
  /\ UNCHANGED <<calls, async, wedged, threads, inbox>>

(* cancel() is too late for a timer whose handler is already queued. *)
Cancelled(j) == [timer EXCEPT ![j] = IF @ = "running" THEN "off" ELSE @]

OpenAsyncFails_TimerRuns(j) ==
  /\ Kind[j] = "async" /\ phase[j] = "armed" /\ Lockable
  /\ phase' = [phase EXCEPT ![j] = "returned"]
  /\ calls' = Told(j)
  /\ UNCHANGED <<async, shared, threads, bus>>

OpenAsyncFails(j) ==
  /\ Kind[j] = "async" /\ phase[j] = "armed" /\ Lockable
  /\ phase' = [phase EXCEPT ![j] = "returned"]
  /\ timer' = Cancelled(j)
  /\ calls' = Told(j)
  /\ UNCHANGED <<fired, left, shared, threads, bus>>

Expires(j) ==
  /\ timer[j] = "running" /\ alive = "up"
  /\ SlowCaller \/ phase[j] # "armed"
  /\ timer' = [timer EXCEPT ![j] = "due"]
  /\ UNCHANGED <<caller, fired, left, shared, threads, bus>>

-----------------------------------------------------------------------------
(* The ASIO thread: a timer handler up to the mutex, and from there; one   *)
(* frame of a broadcast.                                                   *)

Running == alive = "up" /\ asio = NoJob

TimerHandler(j) ==
  /\ Running /\ timer[j] = "due"
  /\ timer' = [timer EXCEPT ![j] = "off"]
  /\ fired' = [fired EXCEPT ![j] = TRUE]
  /\ asio' = IF fired[j] THEN NoJob ELSE j
  /\ UNCHANGED <<caller, left, shared, rx, alive, bus>>

TimerErases(j) ==
  /\ asio = j /\ Lockable
  /\ sessions' = Erased(Dest[j])
  /\ calls' = Told(j)
  /\ asio' = NoJob
  /\ UNCHANGED <<phase, async, wedged, rx, alive, bus>>

SendBam(j) ==
  /\ Called(j, "bam", "waiting")
  /\ left' = [left EXCEPT ![j] = BamSteps]
  /\ UNCHANGED <<calls, timer, fired, shared, threads, bus>>

(* The coroutine ends with its last frame or at the first write that fails. *)
StepBam(j) ==
  /\ Running /\ left[j] > 0
  /\ \/ left' = [left EXCEPT ![j] = @ - 1]
     \/ left' = [left EXCEPT ![j] = 0]
  /\ calls' = IF left'[j] = 0 THEN Told(j) ELSE calls
  /\ UNCHANGED <<phase, timer, fired, shared, threads, bus>>

-----------------------------------------------------------------------------
(* The receive thread. *)

Free == rx = NoJob /\ alive # "gone"

Receiving(f) ==
  /\ Free /\ Lockable
  /\ inbox' = Tail(inbox)

RxCts(f) ==
  /\ Receiving(f) /\ f.kind = "CTS"
  /\ peer' = IF sessions[f.from] # NoJob /\ peer[f.from] # "quiet"
             THEN [peer EXCEPT ![f.from] = "served"] ELSE peer
  /\ UNCHANGED <<caller, async, shared, threads>>

RxStray(f) ==
  /\ Receiving(f) /\ f.kind # "CTS" /\ sessions[f.from] = NoJob
  /\ UNCHANGED <<caller, async, shared, threads, peer>>

(* The session of a DM1 response has nobody to tell. *)
RxEndsDm1(f) ==
  /\ Receiving(f) /\ f.kind # "CTS"
  /\ sessions[f.from] # NoJob /\ Kind[sessions[f.from]] = "dm1"
  /\ sessions' = Erased(f.from)
  /\ UNCHANGED <<caller, async, wedged, threads, peer>>

(* A blocking send() is woken, if it still waits. *)
RxEndsWait(f) ==
  LET j == sessions[f.from]
  IN  /\ Receiving(f) /\ f.kind # "CTS" /\ j # NoJob /\ Kind[j] = "wait"
      /\ sessions' = Erased(f.from)
      /\ phase' = IF phase[j] = "waiting" THEN [phase EXCEPT ![j] = "returned"] ELSE phase
      /\ calls' = IF phase[j] = "waiting" THEN Told(j) ELSE calls
      /\ UNCHANGED <<async, wedged, threads, peer>>

(* The callback of a send_async() locks the mutex, which its own thread    *)
(* holds: undefined behaviour of std::mutex, a deadlock where it is a      *)
(* plain pthread mutex, as on the platforms with SocketCAN.                *)
RxEndsAsync(f) ==
  LET j == sessions[f.from]
  IN  /\ Receiving(f) /\ f.kind # "CTS" /\ j # NoJob /\ Kind[j] = "async"
      /\ sessions' = Erased(f.from)
      /\ timer' = Cancelled(j)
      /\ fired' = [fired EXCEPT ![j] = TRUE]
      /\ wedged' = ~fired[j]
      /\ UNCHANGED <<caller, left, threads, peer>>

RxFrame ==
  /\ inbox # <<>>
  /\ LET f == Head(inbox)
     IN  RxCts(f) \/ RxStray(f) \/ RxEndsDm1(f) \/ RxEndsWait(f) \/ RxEndsAsync(f)

(* A request for DM1: the RTS goes out first, the mutex is locked after. *)
Dm1Starts(j) ==
  /\ Free /\ Lockable
  /\ Kind[j] = "dm1" /\ phase[j] = "idle"
  /\ phase' = [phase EXCEPT ![j] = "armed"]
  /\ peer' = [peer EXCEPT ![Dest[j]] = "asked"]
  /\ rx' = j
  /\ UNCHANGED <<calls, async, shared, asio, alive, inbox>>

Dm1Registers(j) ==
  /\ rx = j /\ Lockable
  /\ sessions' = Registered(j)
  /\ phase' = [phase EXCEPT ![j] = "waiting"]
  /\ rx' = NoJob
  /\ UNCHANGED <<calls, async, wedged, asio, alive, bus>>

-----------------------------------------------------------------------------
(* ~Ecu, when no call is in progress: stop and join the ASIO thread, then  *)
(* the receive thread.  io_context::stop() runs no further handler.        *)

InCall(j) ==
  \/ j \in Caller /\ phase[j] \in {"armed", "late"}
  \/ Kind[j] = "wait" /\ phase[j] = "waiting"

Destroy ==
  /\ alive = "up" /\ \A j \in Job : ~InCall(j)
  /\ alive' = "stopping"
  /\ UNCHANGED <<caller, async, shared, asio, rx, bus>>

JoinAsio_Unstopped ==
  /\ alive = "stopping" /\ asio = NoJob
  /\ \A j \in Job : timer[j] = "off" /\ left[j] = 0
  /\ alive' = "joined"
  /\ UNCHANGED <<caller, async, shared, asio, rx, bus>>

JoinAsio ==
  /\ alive = "stopping" /\ asio = NoJob
  /\ alive' = "joined"
  /\ UNCHANGED <<caller, async, shared, asio, rx, bus>>

JoinRx ==
  /\ alive = "joined" /\ rx = NoJob /\ ~wedged
  /\ alive' = "gone"
  /\ UNCHANGED <<caller, async, shared, asio, rx, bus>>

-----------------------------------------------------------------------------
(* A peer that was sent an RTS. *)

Answers(d, kind, from, next) ==
  /\ peer[d] \in from
  /\ peer' = [peer EXCEPT ![d] = next]
  /\ inbox' = Append(inbox, [from |-> d, kind |-> kind])
  /\ UNCHANGED <<caller, async, shared, threads>>

PeerGrants(d) == Answers(d, "CTS", {"asked"}, "granted")
PeerAcknowledges(d) == Answers(d, "EOM", {"served"}, "quiet")
PeerAborts(d) == Answers(d, "ABORT", {"asked", "granted", "served"}, "quiet")

-----------------------------------------------------------------------------
SendStep(j) ==
  Send(j) \/ SendFails(j) \/ SendAsync(j) \/ SendBam(j) \/ Dm1Starts(j)

CallerThread == \E j \in Job : WaitErases(j) \/ OpenAsync(j) \/ OpenAsyncFails(j)

Clock == \E j \in Job : WaitEnds(j) \/ Expires(j)

AsioThread ==
  JoinAsio \/ \E j \in Job : TimerHandler(j) \/ TimerErases(j) \/ StepBam(j)

RxThread == RxFrame \/ JoinRx \/ \E j \in Job : Dm1Registers(j)

PeerStep(d) == PeerGrants(d) \/ PeerAcknowledges(d) \/ PeerAborts(d)

Next ==
  \/ CallerThread \/ Clock \/ AsioThread \/ RxThread \/ Destroy
  \/ \E j \in Job : SendStep(j)
  \/ \E d \in Peer : PeerStep(d)

Spec == Init /\ [][Next]_vars

(* A thread that is not held up keeps running, and time keeps passing; the *)
(* application and the peers need not do anything.                         *)
Fairness ==
  /\ WF_vars(CallerThread) /\ WF_vars(Clock)
  /\ WF_vars(AsioThread) /\ WF_vars(RxThread)

FairSpec == Spec /\ Fairness

-----------------------------------------------------------------------------
TypeOK ==
  /\ phase \in [Job -> {"idle", "armed", "waiting", "late", "returned"}]
  /\ calls \in [Job -> Nat]
  /\ timer \in [Job -> {"off", "running", "due"}]
  /\ fired \in [Job -> BOOLEAN]
  /\ left \in [Job -> 0 .. BamSteps]
  /\ sessions \in [Peer -> Job \cup {NoJob}]
  /\ asio \in Job \cup {NoJob} /\ rx \in Job \cup {NoJob}
  /\ wedged \in BOOLEAN
  /\ inbox \in Seq(Frame)
  /\ peer \in [Peer -> {"quiet", "asked", "granted", "served"}]
  /\ alive \in {"up", "stopping", "joined", "gone"}

(* Whatever races with whatever, no caller is told twice: the timer, the   *)
(* answer and a failed start of a send_async() exclude each other          *)
(* ("cancel each other exactly once").                                     *)
ToldOnce == \A j \in Job : calls[j] <= 1

(* A session that is still registered belongs to a caller that has not     *)
(* been told, so that an answer to it is never given to a send that is     *)
(* over (send() and the timer handler erase before they tell).             *)
NoOrphans ==
  \A d \in Peer : sessions[d] \in Caller => calls[sessions[d]] = 0

(* Every send ends for its caller, unless the receive thread has locked    *)
(* itself out or the Ecu is destroyed.                                     *)
EverySendEnds ==
  \A j \in Caller : phase[j] # "idle" ~> calls[j] > 0 \/ wedged \/ alive # "up"

(* ~Ecu returns, though a timer runs or a broadcast is under way, unless   *)
(* the receive thread has locked itself out.                               *)
DestructorReturns == alive # "up" ~> alive = "gone" \/ wedged

(* "Fires on the RX jthread with no Ecu mutex held": the callback of a     *)
(* session can lock the mutex.                                             *)
CallbackUnlocked == ~wedged
=============================================================================
