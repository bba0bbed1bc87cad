------------------------------ MODULE EcuBinding ------------------------------
(***************************************************************************)
(* The Dart binding of the J1939 stack: J1939Ecu objects of one isolate,   *)
(* the native Ecu behind each, and the pool of receive buffers they share. *)
(*                                                                         *)
(* Five kinds of thread meet: the isolate, which creates, sends, disposes  *)
(* and handles the messages of its ports, one at a time and never while it *)
(* is in a native call; per ECU the receive thread and the ASIO thread,    *)
(* which post messages to the port; and the garbage collector, which hands *)
(* buffers back.  A step is what one of them does under a mutex or between *)
(* two posts.  What a message of the bus says is left out: it is a number, *)
(* and how many faults it lists if it is a DM1 message.                    *)
(***************************************************************************)
EXTENDS Naturals, Sequences, Functions

CONSTANTS
  Ecu,          (* the J1939Ecu objects                                    *)
  PoolSize,     (* kPoolSize                                               *)
  Heap,         (* the buffers that new may return                         *)
  NoBuf,
  MaxFaults,    (* bound: faults in a DM1 message                          *)
  Id,           (* the send_ids, as many as there can be calls             *)
  MaxEvents     (* bound, per ECU: of messages that its receive thread     *)
                (* hears, reports of its claim and calls of send()         *)

ASSUME PoolAssumption == PoolSize \in Nat
ASSUME HeapAssumption == Heap \cap (1 .. PoolSize) = {}
ASSUME NoBufAssumption == NoBuf \notin Heap \cup (1 .. PoolSize)
ASSUME BoundAssumption ==
  /\ MaxFaults \in Nat /\ MaxEvents \in [Ecu -> Nat]
  /\ Id \subseteq Nat /\ \A e \in Ecu : 0 .. MaxEvents[e] - 1 \subseteq Id

Pool == 1 .. PoolSize
Buffer == Pool \cup Heap

VARIABLES
  phase,     (* phase[e]: how far create() or dispose() came: see Phases   *)
  rx,        (* rx[e]: what e's receive thread is doing: see Doing         *)
  claim,     (* claim[e]: how the claim settled, "open" until it does      *)
  flight,    (* flight[e]: the unfinished native sends, each with its kind *)
  queue,     (* queue[e]: posted to e's port and not handled yet           *)
  pending,   (* pending[e]: the keys of _pendingSends                      *)
  nextId,    (* nextId[e]: _nextSendId                                     *)
  free,      (* free_list of the pool                                      *)
  live,      (* the buffers of Heap that are allocated                     *)
  content,   (* content[b]: the message whose bytes b holds                *)
  views,     (* the Uint8Lists that the application can still reach        *)
  garbage,   (* those it cannot, and whose finalizer has not run           *)
  heard,     (* history: heard[e][n]: the faults that the n-th message     *)
             (* for e's handler lists, 0 unless it is a DM1 message        *)
  seen,      (* history: seen[e]: the events of e's stream                 *)
  outcome,   (* history: outcome[e][i]: how send i ended natively          *)
  told,      (* history: told[e][i]: what send i's future was told         *)
  spent      (* spent[e]: how much of MaxEvents[e] is used up             *)

isolate == <<phase, pending, nextId>>
pool == <<free, live, content>>
lists == <<views, garbage>>
sends == <<flight, outcome>>
stream == <<heard, seen>>
vars == <<isolate, rx, claim, sends, queue, pool, lists, stream, told, spent>>

(* "threads": Ecu::create() has started them; "listens": on_message() has  *)
(* returned; "open": so has create(); "closing": in j1939_destroy();       *)
(* "joined": its ASIO thread has ended.                                    *)
Phases == {"none", "threads", "listens", "open", "closing", "joined", "disposed"}

(* A claim succeeds once; "unheard": no handler was there to be told.      *)
Claims == {"open", "claimed", "unheard", "failed"}

(* n: the message at hand, with k faults, of which i are posted.  mutex:   *)
(* the thread holds the Ecu's mutex, as it does while it hands over a      *)
(* message reassembled from several frames, and forever once "stuck".      *)
Doing ==
  [at : {"off", "idle", "faults", "frame", "filled", "stuck"},
   n : Nat, k : Nat, i : Nat, buf : Buffer \cup {NoBuf}, mutex : BOOLEAN]

Off == [at |-> "off", n |-> 0, k |-> 0, i |-> 0, buf |-> NoBuf, mutex |-> FALSE]
Idle == [Off EXCEPT !.at = "idle"]

(* The envelopes that the post_... functions build. *)
Message(kind, n, i, b) == [kind |-> kind, n |-> n, i |-> i, buf |-> b]
FrameOf(n, b) == Message("frame", n, 0, b)
FaultOf(n, i) == Message("fault", n, i, NoBuf)
ClaimOf(result) == Message(result, 0, 0, NoBuf)
DoneOf(i, result) == Message(result, i, 0, NoBuf)

Results == {"ok", "error"}
Kinds == {"frame", "fault", "claimed", "failed"} \cup Results
Msg == [kind : Kinds, n : Nat, i : Nat, buf : Buffer \cup {NoBuf}]

(* The Uint8Lists of e's stream that ms, messages of its port, make.       *)
Lists(e, ms) ==
  {[ecu |-> e, n |-> m.n, buf |-> m.buf] : m \in {q \in ms : q.kind = "frame"}}

Spends(e) == spent[e] < MaxEvents[e] /\ spent' = [spent EXCEPT ![e] = @ + 1]

Posts(e, m) == queue' = [queue EXCEPT ![e] = Append(@, m)]

(* The isolate is in a native call, create() or dispose(). *)
Busy == \E e \in Ecu : phase[e] \in {"threads", "listens", "closing", "joined"}

Open(e) == ~Busy /\ phase[e] = "open"

AsioRuns(e) == phase[e] \in {"threads", "listens", "open", "closing"}
HasMessageHandler(e) == phase[e] \notin {"none", "threads", "disposed"}
HasClaimHandler(e) == phase[e] \notin {"none", "threads", "listens", "disposed"}

-----------------------------------------------------------------------------
Init ==
  /\ phase = [e \in Ecu |-> "none"]
  /\ pending = [e \in Ecu |-> {}] /\ nextId = [e \in Ecu |-> 0]
  /\ rx = [e \in Ecu |-> Off]
  /\ claim = [e \in Ecu |-> "open"]
  /\ flight = [e \in Ecu |-> {}]
  /\ queue = [e \in Ecu |-> <<>>]
  /\ free = [i \in Pool |-> i] /\ live = {}
  /\ content = [b \in Buffer |-> <<>>]
  /\ views = {} /\ garbage = {}
  /\ heard = [e \in Ecu |-> <<>>] /\ seen = [e \in Ecu |-> <<>>]
  /\ outcome = [e \in Ecu |-> [i \in Id |-> "none"]]
  /\ told = [e \in Ecu |-> [i \in Id |-> <<>>]]
  /\ spent = [e \in Ecu |-> 0]

-----------------------------------------------------------------------------
(* create() and createFull(), on the isolate. *)

(* The threads run before a handler is set. *)
Create(e) ==
  /\ ~Busy /\ phase[e] = "none"
  /\ phase' = [phase EXCEPT ![e] = "threads"]
  /\ rx' = [rx EXCEPT ![e] = Idle]
  /\ UNCHANGED <<pending, nextId, claim, sends, queue, pool, lists, stream, told, spent>>

(* on_message() and then on_claim_result(), each under the mutex. *)
SetHandler(e, before, after) ==
  /\ phase[e] = before /\ ~rx[e].mutex
  /\ phase' = [phase EXCEPT ![e] = after]
  /\ UNCHANGED <<pending, nextId, rx, claim, sends, queue, pool, lists, stream, told,
                 spent>>

OnMessage(e) == SetHandler(e, "threads", "listens")
OnClaimResult(e) == SetHandler(e, "listens", "open")

-----------------------------------------------------------------------------
(* The receive thread. *)

(* The claim settles and its handler is called, if there is one.  A claim  *)
(* that failed is reported again in every pass of the loop.                *)
Settle(e, result) ==
  /\ rx[e].at = "idle"
  /\ claim[e] = "open" \/ (claim[e] = "failed" /\ result = "failed")
  /\ Spends(e)
  /\ claim' = [claim EXCEPT ![e] =
       IF result = "claimed" /\ ~HasClaimHandler(e) THEN "unheard" ELSE result]
  /\ IF HasClaimHandler(e) THEN Posts(e, ClaimOf(result)) ELSE UNCHANGED queue
  /\ UNCHANGED <<isolate, rx, sends, pool, lists, stream, told>>

(* A message for the handler, which lists k faults: one that came in a     *)
(* single frame is handed over after the mutex was released, one that was  *)
(* reassembled while it is held.                                           *)
Receive(e, k, assembled) ==
  /\ rx[e].at = "idle" /\ HasMessageHandler(e)
  /\ Spends(e)
  /\ heard' = [heard EXCEPT ![e] = Append(@, k)]
  /\ rx' = [rx EXCEPT ![e] =
       [Idle EXCEPT !.at = IF k > 0 THEN "faults" ELSE "frame",
                    !.n = Len(heard[e]) + 1, !.k = k, !.mutex = assembled]]
  /\ UNCHANGED <<isolate, claim, sends, queue, pool, lists, seen, told>>

(* post_dm1(), for one fault after the other. *)
PostDm1(e) ==
  /\ rx[e].at = "faults"
  /\ Posts(e, FaultOf(rx[e].n, rx[e].i + 1))
  /\ rx' = [rx EXCEPT ![e] =
       IF @.i + 1 < @.k THEN [rx[e] EXCEPT !.i = @ + 1] ELSE Idle]
  /\ UNCHANGED <<isolate, claim, sends, pool, lists, stream, told, spent>>

(* post_frame() acquires a buffer and copies the bytes, ... *)
Fills(e, b) ==
  /\ rx[e].at = "frame"
  /\ rx' = [rx EXCEPT ![e].at = "filled", ![e].buf = b]
  /\ content' = [content EXCEPT ![b] = <<e, rx[e].n>>]
  /\ UNCHANGED <<isolate, claim, sends, queue, lists, stream, told, spent>>

(* A slip: the buffer is read but not taken off the free list.             *)
AcquireFromPool_Kept(e) ==
  /\ free # <<>>
  /\ Fills(e, free[Len(free)])
  /\ UNCHANGED <<free, live>>

AcquireFromPool(e) ==
  /\ free # <<>>
  /\ Fills(e, free[Len(free)])
  /\ free' = SubSeq(free, 1, Len(free) - 1)
  /\ UNCHANGED live

(* A slip: with the pool empty the frame is dropped.                       *)
AcquireFromHeap_Drops(e, b) ==
  /\ rx[e].at = "frame" /\ free = <<>> /\ b \notin live
  /\ rx' = [rx EXCEPT ![e] = Idle]
  /\ UNCHANGED <<isolate, claim, sends, queue, pool, lists, stream, told, spent>>

AcquireFromHeap(e, b) ==
  /\ free = <<>> /\ b \notin live
  /\ Fills(e, b)
  /\ live' = live \cup {b}
  /\ UNCHANGED free

(* ... and posts it. *)
PostFrame(e) ==
  /\ rx[e].at = "filled"
  /\ Posts(e, FrameOf(rx[e].n, rx[e].buf))
  /\ rx' = [rx EXCEPT ![e] = Idle]
  /\ UNCHANGED <<isolate, claim, sends, pool, lists, stream, told, spent>>

(* The peer ends a unicast send: its callback, called with the mutex held, *)
(* cancels the timer and locks the mutex again.                            *)
UnicastAnswered(e, i) ==
  /\ rx[e].at = "idle" /\ [id |-> i, kind |-> "unicast"] \in flight[e]
  /\ flight' = [flight EXCEPT ![e] = @ \ {[id |-> i, kind |-> "unicast"]}]
  /\ rx' = [rx EXCEPT ![e] = [Idle EXCEPT !.at = "stuck", !.mutex = TRUE]]
  /\ UNCHANGED <<isolate, claim, outcome, queue, pool, lists, stream, told, spent>>

-----------------------------------------------------------------------------
(* send() with more than 8 bytes: the isolate, then the ASIO thread. *)

(* _sendAsync() enters the completer and calls send_async(). *)
Called(e, i) ==
  /\ Open(e) /\ ~rx[e].mutex
  /\ Spends(e)
  /\ i = nextId[e]
  /\ nextId' = [nextId EXCEPT ![e] = i + 1]
  /\ pending' = [pending EXCEPT ![e] = @ \cup {i}]

Completes(e, i, result) ==
  /\ outcome' = [outcome EXCEPT ![e][i] = result]
  /\ Posts(e, DoneOf(i, result))

(* Fast Packet, or a unicast send whose RTS cannot be written: on_complete *)
(* runs before send_async() returns.                                       *)
SendInline(e, i, result) ==
  /\ Called(e, i)
  /\ Completes(e, i, result)
  /\ UNCHANGED <<phase, rx, claim, flight, pool, lists, stream, told>>

(* A broadcast or unicast send is begun. *)
SendLater(e, i, kind) ==
  /\ Called(e, i)
  /\ flight' = [flight EXCEPT ![e] = @ \cup {[id |-> i, kind |-> kind]}]
  /\ UNCHANGED <<phase, rx, claim, outcome, queue, pool, lists, stream, told>>

Ends(e, i, kind, result) ==
  /\ AsioRuns(e) /\ [id |-> i, kind |-> kind] \in flight[e]
  /\ flight' = [flight EXCEPT ![e] = @ \ {[id |-> i, kind |-> kind]}]
  /\ Completes(e, i, result)
  /\ UNCHANGED <<isolate, rx, claim, pool, lists, stream, told, spent>>

(* The last packet of a broadcast is written, or one cannot be written. *)
BroadcastEnds(e, i, result) == Ends(e, i, "broadcast", result)

(* With 255 packets there is no last one: BamSender's packet number is a   *)
(* byte and never exceeds 255.  Only a failed write stops it.              *)
EndlessFails(e, i) == Ends(e, i, "endless", "error")

(* The timer of a unicast send expires; its handler locks the mutex. *)
UnicastTimesOut(e, i) == ~rx[e].mutex /\ Ends(e, i, "unicast", "error")

-----------------------------------------------------------------------------
(* The isolate handles the first message of a port. *)

Takes(e, kinds) ==
  /\ Open(e) /\ queue[e] # <<>> /\ Head(queue[e]).kind \in kinds
  /\ queue' = [queue EXCEPT ![e] = Tail(@)]

Event(m) == [kind |-> m.kind, n |-> m.n, i |-> m.i]

(* A slip: the buffer of a frame goes back once its event was handled.     *)
HandleEvent_Recycles(e) ==
  /\ Takes(e, Kinds \ Results)
  /\ LET m == Head(queue[e]) IN
       /\ seen' = [seen EXCEPT ![e] = Append(@, Event(m))]
       /\ views' = views \cup Lists(e, {m})
       /\ free' = IF m.buf \in Pool THEN Append(free, m.buf) ELSE free
  /\ UNCHANGED <<isolate, rx, claim, sends, live, content, garbage, heard, told, spent>>

(* cases 0, 1, 2 and 4: the list in the event of a frame is its buffer.    *)
HandleEvent(e) ==
  /\ Takes(e, Kinds \ Results)
  /\ LET m == Head(queue[e]) IN
       /\ seen' = [seen EXCEPT ![e] = Append(@, Event(m))]
       /\ views' = views \cup Lists(e, {m})
  /\ UNCHANGED <<isolate, rx, claim, sends, pool, garbage, heard, told, spent>>

(* What the future of a send in pending[e] is told. *)
Tells(e, i, what) ==
  IF i \in pending[e] THEN Append(told[e][i], what) ELSE told[e][i]

(* A slip: the completer stays in the map, and dispose() meets it again.   *)
CompleteSend_Kept(e) ==
  /\ Takes(e, Results)
  /\ LET m == Head(queue[e]) IN told' = [told EXCEPT ![e][m.n] = Tells(e, m.n, m.kind)]
  /\ UNCHANGED <<isolate, rx, claim, sends, pool, lists, stream, spent>>

(* case 5: _completeSend() *)
CompleteSend(e) ==
  /\ Takes(e, Results)
  /\ LET m == Head(queue[e]) IN
       /\ pending' = [pending EXCEPT ![e] = @ \ {m.n}]
       /\ told' = [told EXCEPT ![e][m.n] = Tells(e, m.n, m.kind)]
  /\ UNCHANGED <<phase, nextId, rx, claim, sends, pool, lists, stream, spent>>

-----------------------------------------------------------------------------
(* The life of a buffer in Dart. *)

(* The application drops the last reference to a list. *)
Drop(v) ==
  /\ ~Busy
  /\ views' = views \ {v}
  /\ garbage' = garbage \cup {v}
  /\ UNCHANGED <<isolate, rx, claim, sends, queue, pool, stream, told, spent>>

(* The collector calls release(). *)
Finalize(v) ==
  /\ garbage' = garbage \ {v}
  /\ IF v.buf \in Pool
     THEN free' = Append(free, v.buf) /\ UNCHANGED live
     ELSE live' = live \ {v.buf} /\ UNCHANGED free
  /\ UNCHANGED <<isolate, rx, claim, sends, queue, content, views, stream, told, spent>>

-----------------------------------------------------------------------------
(* dispose() *)

Dispose(e) ==
  /\ Open(e)
  /\ phase' = [phase EXCEPT ![e] = "closing"]
  /\ UNCHANGED <<pending, nextId, rx, claim, sends, queue, pool, lists, stream, told,
                 spent>>

(* ~Ecu: the io_context is stopped and its thread joined.  What it had     *)
(* begun, on_complete included, is destroyed with it and not called.       *)
JoinAsio(e) ==
  /\ phase[e] = "closing"
  /\ phase' = [phase EXCEPT ![e] = "joined"]
  /\ UNCHANGED <<pending, nextId, rx, claim, sends, queue, pool, lists, stream, told,
                 spent>>

(* What the lists of a port's messages would have been. *)
Unread(e) == Lists(e, Range(queue[e]))

(* The receive thread has finished its pass and is joined; then the port   *)
(* is closed and its messages are destroyed.                               *)
Closes(e) ==
  /\ phase[e] = "joined" /\ rx[e].at = "idle"
  /\ phase' = [phase EXCEPT ![e] = "disposed"]
  /\ rx' = [rx EXCEPT ![e] = Off]
  /\ flight' = [flight EXCEPT ![e] = {}]
  /\ queue' = [queue EXCEPT ![e] = <<>>]
  /\ garbage' = garbage \cup Unread(e)
  /\ UNCHANGED <<nextId, claim, outcome, pool, views, stream, spent>>

(* A slip: dispose() leaves the pending sends alone.                       *)
Disposed_Silent(e) == Closes(e) /\ UNCHANGED <<pending, told>>

(* The sends that are still pending are told. *)
Disposed(e) ==
  /\ Closes(e)
  /\ pending' = [pending EXCEPT ![e] = {}]
  /\ told' = [told EXCEPT ![e] = [i \in Id |-> Tells(e, i, "disposed")]]

-----------------------------------------------------------------------------
CreateStep(e) == Create(e) \/ OnMessage(e) \/ OnClaimResult(e)

(* The receive thread goes on with the message at hand. *)
Passes(e) ==
  \/ PostDm1(e) \/ PostFrame(e)
  \/ AcquireFromPool(e) \/ \E b \in Heap : AcquireFromHeap(e, b)

RxStep(e) ==
  \/ \E result \in {"claimed", "failed"} : Settle(e, result)
  \/ \E k \in 0 .. MaxFaults, assembled \in BOOLEAN : Receive(e, k, assembled)
  \/ Passes(e)
  \/ \E i \in Id : UnicastAnswered(e, i)

SendStep(e) ==
  \E i \in Id :
    \/ \E result \in Results : SendInline(e, i, result)
    \/ \E kind \in {"broadcast", "endless", "unicast"} : SendLater(e, i, kind)

AsioStep(e) ==
  \E i \in Id :
    \/ \E result \in Results : BroadcastEnds(e, i, result)
    \/ EndlessFails(e, i)
    \/ UnicastTimesOut(e, i)

HandleStep(e) == HandleEvent(e) \/ CompleteSend(e)

DisposeStep(e) == Dispose(e) \/ JoinAsio(e) \/ Disposed(e)

EcuStep(e) ==
  CreateStep(e) \/ RxStep(e) \/ SendStep(e) \/ AsioStep(e) \/ HandleStep(e)
    \/ DisposeStep(e)

Next ==
  \/ \E e \in Ecu : EcuStep(e)
  \/ \E v \in views : Drop(v)
  \/ \E v \in garbage : Finalize(v)

Spec == Init /\ [][Next]_vars

(* The isolate returns from native calls and handles its ports, threads    *)
(* run, broadcasts of up to 254 packets come to their last one, and timers *)
(* expire.  No write has to fail, nobody has to call dispose(), and the    *)
(* collector may never run.                                                *)
Fairness ==
  \A e \in Ecu :
    /\ WF_vars(OnMessage(e) \/ OnClaimResult(e) \/ JoinAsio(e) \/ Disposed(e))
    /\ WF_vars(HandleStep(e))
    /\ WF_vars(Passes(e))
    /\ WF_vars(\E i \in Id, result \in Results : BroadcastEnds(e, i, result))
    /\ SF_vars(\E i \in Id : UnicastTimesOut(e, i))

FairSpec == Spec /\ Fairness

-----------------------------------------------------------------------------
TypeOK ==
  /\ phase \in [Ecu -> Phases]
  /\ rx \in [Ecu -> Doing]
  /\ claim \in [Ecu -> Claims]
  /\ flight \in [Ecu -> SUBSET [id : Id, kind : {"broadcast", "endless", "unicast"}]]
  /\ queue \in [Ecu -> Seq(Msg)]
  /\ pending \in [Ecu -> SUBSET Id] /\ nextId \in [Ecu -> Nat]
  /\ free \in Seq(Pool) /\ live \subseteq Heap
  /\ content \in [Buffer -> {<<>>} \cup (Ecu \X Nat)]
  /\ views \cup garbage \subseteq [ecu : Ecu, n : Nat, buf : Buffer]
  /\ heard \in [Ecu -> Seq(Nat)]
  /\ seen \in [Ecu -> Seq([kind : Kinds, n : Nat, i : Nat])]
  /\ outcome \in [Ecu -> [Id -> Results \cup {"none"}]]
  /\ told \in [Ecu -> [Id -> Seq(Results \cup {"disposed"})]]
  /\ spent \in [Ecu -> Nat]

(* The places from which buffer b can be read or written: the receive      *)
(* threads, the messages in the ports, and the lists, reachable or not.    *)
Holders(b) ==
  {<<"thread", e, 0>> : e \in {d \in Ecu : rx[d].buf = b}}
    \cup (UNION {{<<"port", e, p>> : p \in {q \in DOMAIN queue[e] : queue[e][q].buf = b}}
                  : e \in Ecu})
    \cup {<<"list", v, 0>> : v \in {u \in views : u.buf = b}}
    \cup {<<"garbage", v, 0>> : v \in {u \in garbage : u.buf = b}}

(* Nothing is lost and nothing handed out twice, however the threads of    *)
(* all ECUs, the isolate and the collector interleave and whenever an ECU  *)
(* is disposed: a buffer of the pool has one holder or is in the free      *)
(* list, once, and one of the heap has one holder until it is deleted.     *)
BuffersOwned ==
  /\ \A b \in Buffer : \A x, y \in Holders(b) : x = y
  /\ \A b \in Pool : b \in Range(free) <=> Holders(b) = {}
  /\ \A b \in Heap : b \in live <=> Holders(b) # {}
  /\ IsInjective(free)

(* A list that the application can reach, be it long after its event or    *)
(* after dispose(), holds the bytes of the message it came with, and so    *)
(* does one that is still in a port.                                       *)
ViewsIntact ==
  /\ \A v \in views : content[v.buf] = <<v.ecu, v.n>>
  /\ \A e \in Ecu : \A v \in Unread(e) : content[v.buf] = <<e, v.n>>

(* What e's port has passed on, and what it will. *)
Stream(e) == seen[e] \o queue[e]
FromBus == {"frame", "fault"}
Passed(e) == {<<m.n, m.i>> : m \in {q \in Range(Stream(e)) : q.kind \in FromBus}}

(* What the receive thread has at hand. *)
AtHand(e) ==
  CASE rx[e].at \in {"frame", "filled"} -> {<<rx[e].n, 0>>}
    [] rx[e].at = "faults" -> {<<rx[e].n, i>> : i \in rx[e].i + 1 .. rx[e].k}
    [] OTHER -> {}

(* The events of e's n-th message. *)
EventsOf(e, n) ==
  {<<n, i>> : i \in IF heard[e][n] = 0 THEN {0} ELSE 1 .. heard[e][n]}

InOrder(s) ==
  \A p, q \in DOMAIN s :
    p < q /\ s[p].kind \in FromBus /\ s[q].kind \in FromBus
      => s[p].n < s[q].n \/ (s[p].n = s[q].n /\ s[p].i < s[q].i)

(* How often e's stream has told, or will tell, a result of the claim.     *)
Reports(e, result) == {p \in DOMAIN Stream(e) : Stream(e)[p].kind = result}

(* The stream of events is the bus as the receive thread heard it: every   *)
(* message since on_message(), and each of its faults, is there once and   *)
(* in order, though the pool run empty and until dispose() cuts it off;    *)
(* and a claim that succeeded is there once, unless it did so before       *)
(* create() had set the handler, and never with one that failed.           *)
StreamFollowsBus ==
  \A e \in Ecu :
    /\ InOrder(Stream(e))
    /\ Reports(e, "failed") # {} => claim[e] = "failed"
    /\ phase[e] # "disposed" =>
         /\ Passed(e) \cup AtHand(e) = UNION {EventsOf(e, n) : n \in DOMAIN heard[e]}
         /\ claim[e] = "claimed" => \E p \in Reports(e, "claimed") : Reports(e, "claimed") = {p}
         /\ claim[e] # "claimed" => Reports(e, "claimed") = {}

(* Someone on the receive thread of an ECU has locked itself out, for good.*)
Stuck == \E e \in Ecu : rx[e].at = "stuck"

InFlight(e, i) == \E s \in flight[e] : s.id = i
Completion(e, i) ==
  {p \in DOMAIN queue[e] : queue[e][p].kind \in Results /\ queue[e][p].n = i}

(* The future of a send is told once: how the native send ended, or that   *)
(* the ECU was disposed.  Until then the ASIO thread or one message in the *)
(* port owes it that, unless the receive thread has locked itself out.     *)
SendsAccounted ==
  \A e \in Ecu : \A i \in Id :
    /\ i \in pending[e] <=> i < nextId[e] /\ told[e][i] = <<>>
    /\ told[e][i] \in {<<>>, <<"disposed">>} \/ told[e][i] = <<outcome[e][i]>>
    /\ told[e][i] = <<"disposed">> => phase[e] = "disposed"
    /\ i \in pending[e] =>
         /\ phase[e] # "disposed"
         /\ InFlight(e, i) => Completion(e, i) = {}
         /\ InFlight(e, i) \/ rx[e].at = "stuck"
              \/ \E p \in Completion(e, i) : Completion(e, i) = {p}

(* Every send ends: its future is told, by the end of dispose() if not     *)
(* before, whatever the collector and the application do.  A broadcast of  *)
(* 255 packets never ends by itself; its future is told by dispose(), if   *)
(* that is called.                                                         *)
Endless(e, i) == [id |-> i, kind |-> "endless"] \in flight[e]

EverySendCompletes ==
  \A e \in Ecu : \A i \in Id :
    i \in pending[e] /\ (Endless(e, i) => phase[e] \in {"closing", "joined"})
      ~> i \notin pending[e] \/ Stuck
=============================================================================
