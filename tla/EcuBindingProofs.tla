--------------------------- MODULE EcuBindingProofs ---------------------------
(***************************************************************************)
(* Proofs about EcuBinding, for any number of ECUs, any pool, any number   *)
(* of messages, sends and faults.                                          *)
(***************************************************************************)
EXTENDS EcuBinding, SequenceTheorems, TLAPS

(* The types by the part of the state they are about, and that a buffer    *)
(* comes with a frame, in a port and on a receive thread.                  *)
IsolateTyped ==
  /\ phase \in [Ecu -> Phases]
  /\ pending \in [Ecu -> SUBSET Id] /\ nextId \in [Ecu -> Nat]
  /\ told \in [Ecu -> [Id -> Seq(Results \cup {"disposed"})]]
  /\ spent \in [Ecu -> Nat]

NativeTyped ==
  /\ claim \in [Ecu -> Claims]
  /\ flight \in [Ecu -> SUBSET [id : Id, kind : {"broadcast", "endless", "unicast"}]]
  /\ outcome \in [Ecu -> [Id -> Results \cup {"none"}]]

RxTyped ==
  /\ rx \in [Ecu -> Doing]
  /\ \A e \in Ecu : rx[e].at = "filled" <=> rx[e].buf # NoBuf

PortTyped ==
  /\ queue \in [Ecu -> Seq(Msg)]
  /\ \A e \in Ecu : \A p \in DOMAIN queue[e] :
       queue[e][p].kind = "frame" <=> queue[e][p].buf # NoBuf

PoolTyped ==
  /\ free \in Seq(Pool) /\ live \subseteq Heap
  /\ content \in [Buffer -> {<<>>} \cup (Ecu \X Nat)]

ListsTyped == views \cup garbage \subseteq [ecu : Ecu, n : Nat, buf : Buffer]

StreamTyped ==
  /\ heard \in [Ecu -> Seq(Nat)]
  /\ seen \in [Ecu -> Seq([kind : Kinds, n : Nat, i : Nat])]

Typed ==
  /\ IsolateTyped /\ NativeTyped /\ RxTyped /\ PortTyped
  /\ PoolTyped /\ ListsTyped /\ StreamTyped

LEMMA TypedImpliesTypeOK == Typed => TypeOK
  BY DEF Typed, TypeOK, IsolateTyped, NativeTyped, RxTyped, PortTyped, PoolTyped,
         ListsTyped, StreamTyped

(* A part that a step leaves alone. *)
LEMMA Untouched ==
  /\ IsolateTyped /\ UNCHANGED <<phase, pending, nextId, told, spent>> => IsolateTyped'
  /\ NativeTyped /\ UNCHANGED <<claim, flight, outcome>> => NativeTyped'
  /\ RxTyped /\ UNCHANGED rx => RxTyped'
  /\ PortTyped /\ UNCHANGED queue => PortTyped'
  /\ PoolTyped /\ UNCHANGED <<free, live, content>> => PoolTyped'
  /\ ListsTyped /\ UNCHANGED <<views, garbage>> => ListsTyped'
  /\ StreamTyped /\ UNCHANGED <<heard, seen>> => StreamTyped'
  BY DEF IsolateTyped, NativeTyped, RxTyped, PortTyped, PoolTyped, ListsTyped, StreamTyped

(* Sequences that grow at the end and shrink at the front. *)
LEMMA AppendFact ==
  ASSUME NEW S, NEW s \in Seq(S), NEW x \in S
  PROVE  /\ Append(s, x) \in Seq(S)
         /\ Len(Append(s, x)) = Len(s) + 1
         /\ \A p \in 1 .. Len(s) : Append(s, x)[p] = s[p]
         /\ Append(s, x)[Len(s) + 1] = x
  BY SMT

LEMMA TailFact ==
  ASSUME NEW S, NEW s \in Seq(S), s # <<>>
  PROVE  /\ Tail(s) \in Seq(S)
         /\ Len(s) \in Nat \ {0}
         /\ Len(Tail(s)) = Len(s) - 1
         /\ \A p \in 1 .. Len(s) - 1 : Tail(s)[p] = s[p + 1]
         /\ Head(s) = s[1] /\ Head(s) \in S
  BY SMT

(* What posting and taking a message do to the ports. *)
LEMMA PostsFact ==
  ASSUME queue \in [Ecu -> Seq(Msg)], NEW e \in Ecu, NEW m \in Msg, Posts(e, m)
  PROVE  /\ queue' \in [Ecu -> Seq(Msg)]
         /\ \A d \in Ecu \ {e} : queue'[d] = queue[d]
         /\ Len(queue'[e]) = Len(queue[e]) + 1
         /\ \A p \in 1 .. Len(queue[e]) : queue'[e][p] = queue[e][p]
         /\ queue'[e][Len(queue[e]) + 1] = m
<1>1. queue' = [queue EXCEPT ![e] = Append(queue[e], m)]
  BY DEF Posts
<1>2. queue[e] \in Seq(Msg)
  OBVIOUS
<1>. QED  BY <1>1, <1>2, AppendFact

LEMMA TakesFact ==
  ASSUME queue \in [Ecu -> Seq(Msg)], NEW e \in Ecu, NEW kinds, Takes(e, kinds)
  PROVE  /\ queue' \in [Ecu -> Seq(Msg)]
         /\ \A d \in Ecu \ {e} : queue'[d] = queue[d]
         /\ Len(queue[e]) \in Nat \ {0}
         /\ Len(queue'[e]) = Len(queue[e]) - 1
         /\ \A p \in 1 .. Len(queue[e]) - 1 : queue'[e][p] = queue[e][p + 1]
         /\ Head(queue[e]) = queue[e][1] /\ Head(queue[e]) \in Msg
         /\ Head(queue[e]).kind \in kinds
<1>1. /\ queue' = [queue EXCEPT ![e] = Tail(queue[e])] /\ queue[e] # <<>>
      /\ Head(queue[e]).kind \in kinds
  BY DEF Takes
<1>2. queue[e] \in Seq(Msg)
  OBVIOUS
<1>. QED  BY <1>1, <1>2, TailFact

-----------------------------------------------------------------------------
(* Types. *)

LEMMA InitTyped == Init => Typed
<1> SUFFICES ASSUME Init PROVE Typed
  OBVIOUS
<1>1. rx \in [Ecu -> Doing] /\ \A e \in Ecu : rx[e].at = "off" /\ rx[e].buf = NoBuf
  BY DEF Init, Off, Doing
<1>2. queue \in [Ecu -> Seq(Msg)] /\ \A e \in Ecu : DOMAIN queue[e] = {}
  BY DEF Init
<1>3. free \in Seq(Pool) /\ live \subseteq Heap /\ content \in [Buffer -> {<<>>} \cup (Ecu \X Nat)]
  BY PoolAssumption DEF Init, Pool
<1>4. /\ phase \in [Ecu -> Phases] /\ claim \in [Ecu -> Claims]
      /\ flight \in [Ecu -> SUBSET [id : Id, kind : {"broadcast", "endless", "unicast"}]]
      /\ pending \in [Ecu -> SUBSET Id] /\ nextId \in [Ecu -> Nat]
      /\ views \cup garbage \subseteq [ecu : Ecu, n : Nat, buf : Buffer]
      /\ heard \in [Ecu -> Seq(Nat)] /\ spent \in [Ecu -> Nat]
      /\ seen \in [Ecu -> Seq([kind : Kinds, n : Nat, i : Nat])]
  BY DEF Init, Phases, Claims
<1>5. outcome \in [Ecu -> [Id -> Results \cup {"none"}]]
  BY DEF Init
<1>6. told \in [Ecu -> [Id -> Seq(Results \cup {"disposed"})]]
  BY DEF Init
<1>. QED
  BY <1>1, <1>2, <1>3, <1>4, <1>5, <1>6
  DEF Typed, IsolateTyped, NativeTyped, RxTyped, PortTyped, PoolTyped, ListsTyped,
      StreamTyped

LEMMA Rests ==
  /\ Off \in Doing /\ Off.at = "off" /\ Off.buf = NoBuf /\ ~Off.mutex
  /\ Idle \in Doing /\ Idle.at = "idle" /\ Idle.buf = NoBuf /\ ~Idle.mutex
  BY DEF Off, Idle, Doing

LEMMA RxSet ==
  ASSUME RxTyped, NEW e \in Ecu, NEW r \in Doing, r.at = "filled" <=> r.buf # NoBuf,
         rx' = [rx EXCEPT ![e] = r]
  PROVE  RxTyped'
  BY DEF RxTyped

LEMMA PortPosted ==
  ASSUME PortTyped, NEW e \in Ecu, NEW m \in Msg, m.kind = "frame" <=> m.buf # NoBuf,
         Posts(e, m)
  PROVE  PortTyped'
<1>1. \A d \in Ecu : queue[d] \in Seq(Msg) /\ queue'[d] \in Seq(Msg)
  BY PostsFact DEF PortTyped
<1>2. ASSUME NEW p \in DOMAIN queue'[e]
      PROVE  queue'[e][p].kind = "frame" <=> queue'[e][p].buf # NoBuf
  <2>1. \/ p \in DOMAIN queue[e] /\ queue'[e][p] = queue[e][p]
        \/ queue'[e][p] = m
    BY <1>1, PostsFact DEF PortTyped
  <2>. QED  BY <2>1 DEF PortTyped
<1>3. ASSUME NEW d \in Ecu, NEW p \in DOMAIN queue'[d]
      PROVE  queue'[d][p].kind = "frame" <=> queue'[d][p].buf # NoBuf
  <2>1. CASE d = e
    BY <1>2, <2>1
  <2>2. CASE d # e
    BY <2>2, PostsFact DEF PortTyped
  <2>. QED  BY <2>1, <2>2
<1>4. queue' \in [Ecu -> Seq(Msg)]
  BY PostsFact DEF PortTyped
<1>. QED  BY <1>3, <1>4 DEF PortTyped

LEMMA PortTaken ==
  ASSUME PortTyped, NEW e \in Ecu, NEW kinds, Takes(e, kinds)
  PROVE  PortTyped'
  BY TakesFact DEF PortTyped

LEMMA PortLists ==
  ASSUME NEW e \in Ecu, NEW ms, ms \subseteq Msg,
         \A m \in ms : m.kind = "frame" <=> m.buf # NoBuf
  PROVE  Lists(e, ms) \subseteq [ecu : Ecu, n : Nat, buf : Buffer]
  BY DEF Lists, Msg

LEMMA UnreadTyped ==
  ASSUME PortTyped, NEW e \in Ecu
  PROVE  Unread(e) \subseteq [ecu : Ecu, n : Nat, buf : Buffer]
<1>1. /\ Range(queue[e]) \subseteq Msg
      /\ \A m \in Range(queue[e]) : m.kind = "frame" <=> m.buf # NoBuf
  BY DEF PortTyped, Range
<1>. QED  BY <1>1, PortLists DEF Unread

LEMMA CreateTyped ==
  ASSUME Typed, NEW e \in Ecu, CreateStep(e)
  PROVE  Typed'
<1>1. /\ NativeTyped' /\ PortTyped' /\ PoolTyped' /\ ListsTyped' /\ StreamTyped'
  BY Untouched
  DEF Typed, CreateStep, Create, OnMessage, OnClaimResult, SetHandler, sends, pool, lists,
      stream
<1>2. IsolateTyped'
  BY DEF Typed, IsolateTyped, CreateStep, Create, OnMessage, OnClaimResult, SetHandler,
         Phases
<1>3. RxTyped'
  <2>1. CASE Create(e)
    BY <2>1, Rests, RxSet DEF Typed, Create
  <2>2. CASE OnMessage(e) \/ OnClaimResult(e)
    BY <2>2, Untouched DEF Typed, OnMessage, OnClaimResult, SetHandler
  <2>. QED  BY <2>1, <2>2 DEF CreateStep
<1>. QED  BY <1>1, <1>2, <1>3 DEF Typed

LEMMA DisposeTyped ==
  ASSUME Typed, NEW e \in Ecu, DisposeStep(e)
  PROVE  Typed'
<1>1. PoolTyped' /\ StreamTyped'
  BY Untouched DEF Typed, DisposeStep, Dispose, JoinAsio, Disposed, Closes, pool, stream
<1>2. NativeTyped'
  BY DEF Typed, NativeTyped, DisposeStep, Dispose, JoinAsio, Disposed, Closes, sends
<1>3. RxTyped'
  <2>1. CASE Disposed(e)
    BY <2>1, Rests, RxSet DEF Typed, Disposed, Closes
  <2>2. CASE Dispose(e) \/ JoinAsio(e)
    BY <2>2, Untouched DEF Typed, Dispose, JoinAsio
  <2>. QED  BY <2>1, <2>2 DEF DisposeStep
<1>4. PortTyped'
  <2>1. CASE Disposed(e)
    <3>1. queue' = [queue EXCEPT ![e] = <<>>]
      BY <2>1 DEF Disposed, Closes
    <3>. QED  BY <3>1 DEF Typed, PortTyped
  <2>2. CASE Dispose(e) \/ JoinAsio(e)
    BY <2>2, Untouched DEF Typed, Dispose, JoinAsio
  <2>. QED  BY <2>1, <2>2 DEF DisposeStep
<1>5. ListsTyped'
  BY UnreadTyped
  DEF Typed, ListsTyped, DisposeStep, Dispose, JoinAsio, Disposed, Closes, lists
<1>6. IsolateTyped'
  <2>1. /\ phase' \in [Ecu -> Phases] /\ pending' \in [Ecu -> SUBSET Id]
        /\ nextId' \in [Ecu -> Nat] /\ spent' \in [Ecu -> Nat]
    BY DEF Typed, IsolateTyped, DisposeStep, Dispose, JoinAsio, Disposed, Closes, Phases
  <2>2. told' \in [Ecu -> [Id -> Seq(Results \cup {"disposed"})]]
    <3>1. \A i \in Id : Tells(e, i, "disposed") \in Seq(Results \cup {"disposed"})
      BY AppendFact DEF Typed, IsolateTyped, Tells
    <3>. QED  BY <3>1 DEF Typed, IsolateTyped, DisposeStep, Dispose, JoinAsio, Disposed
  <2>. QED  BY <2>1, <2>2 DEF IsolateTyped
<1>. QED  BY <1>1, <1>2, <1>3, <1>4, <1>5, <1>6 DEF Typed

LEMMA PassesTyped ==
  ASSUME Typed, NEW e \in Ecu, Passes(e)
  PROVE  Typed'
<1> DEFINE r == rx[e]
<1>0. /\ rx[e] \in Doing /\ rx[e].n \in Nat /\ rx[e].i \in Nat
      /\ rx[e].buf \in Buffer \cup {NoBuf} /\ NoBuf \notin Buffer
  BY NoBufAssumption DEF Typed, RxTyped, Doing, Buffer, Pool
<1>1. CASE PostDm1(e)
  <2>1. FaultOf(rx[e].n, rx[e].i + 1) \in Msg /\ FaultOf(rx[e].n, rx[e].i + 1).kind = "fault"
        /\ FaultOf(rx[e].n, rx[e].i + 1).buf = NoBuf
    BY <1>0 DEF FaultOf, Message, Msg, Kinds
  <2>2. PortTyped'
    BY <1>1, <2>1, PortPosted DEF Typed, PostDm1
  <2>3. RxTyped'
    <3>1. [rx[e] EXCEPT !.i = rx[e].i + 1] \in Doing
          /\ [rx[e] EXCEPT !.i = rx[e].i + 1].buf = rx[e].buf
          /\ [rx[e] EXCEPT !.i = rx[e].i + 1].at = rx[e].at
      BY <1>0 DEF Doing
    <3>2. \/ rx' = [rx EXCEPT ![e] = [rx[e] EXCEPT !.i = rx[e].i + 1]]
          \/ rx' = [rx EXCEPT ![e] = Idle]
      BY <1>1 DEF PostDm1
    <3>. QED  BY <3>1, <3>2, Rests, RxSet DEF Typed, RxTyped
  <2>. QED  BY <1>1, <2>2, <2>3, Untouched DEF Typed, PostDm1, isolate, sends, pool, lists, stream
<1>2. CASE PostFrame(e)
  <2>1. FrameOf(rx[e].n, rx[e].buf) \in Msg /\ FrameOf(rx[e].n, rx[e].buf).kind = "frame"
        /\ FrameOf(rx[e].n, rx[e].buf).buf # NoBuf
    BY <1>0, <1>2 DEF FrameOf, Message, Msg, Kinds, PostFrame, Typed, RxTyped
  <2>2. PortTyped'
    BY <1>2, <2>1, PortPosted DEF Typed, PostFrame
  <2>3. RxTyped'
    BY <1>2, Rests, RxSet DEF Typed, PostFrame
  <2>. QED  BY <1>2, <2>2, <2>3, Untouched DEF Typed, PostFrame, isolate, sends, pool, lists, stream
<1>3. ASSUME NEW b \in Buffer, Fills(e, b)
      PROVE  /\ IsolateTyped' /\ NativeTyped' /\ RxTyped' /\ PortTyped' /\ ListsTyped'
             /\ StreamTyped' /\ content' \in [Buffer -> {<<>>} \cup (Ecu \X Nat)]
  <2>1. RxTyped'
    <3>1. rx' = [rx EXCEPT ![e] = [rx[e] EXCEPT !.at = "filled", !.buf = b]]
      BY <1>0, <1>3 DEF Fills, Typed, RxTyped, Doing
    <3>2. [rx[e] EXCEPT !.at = "filled", !.buf = b] \in Doing
          /\ [rx[e] EXCEPT !.at = "filled", !.buf = b].at = "filled"
          /\ [rx[e] EXCEPT !.at = "filled", !.buf = b].buf = b
      BY <1>0 DEF Doing
    <3>. QED  BY <3>1, <3>2, <1>0, RxSet DEF Typed
  <2>2. content' \in [Buffer -> {<<>>} \cup (Ecu \X Nat)]
    BY <1>0, <1>3 DEF Fills, Typed, PoolTyped
  <2>. QED  BY <1>3, <2>1, <2>2, Untouched DEF Typed, Fills, isolate, sends, lists, stream
<1>4. CASE AcquireFromPool(e)
  <2>1. free[Len(free)] \in Pool /\ SubSeq(free, 1, Len(free) - 1) \in Seq(Pool)
    BY <1>4 DEF AcquireFromPool, Typed, PoolTyped
  <2>2. free[Len(free)] \in Buffer
    BY <2>1 DEF Buffer
  <2>. QED  BY <1>3, <1>4, <2>1, <2>2 DEF AcquireFromPool, Typed, PoolTyped
<1>5. ASSUME NEW b \in Heap, AcquireFromHeap(e, b)
      PROVE  Typed'
  <2>1. b \in Buffer
    BY DEF Buffer
  <2>. QED  BY <1>3, <1>5, <2>1 DEF AcquireFromHeap, Typed, PoolTyped
<1>. QED  BY <1>1, <1>2, <1>4, <1>5 DEF Passes

LEMMA ReceiveTyped ==
  ASSUME Typed, NEW e \in Ecu, RxStep(e), ~Passes(e)
  PROVE  Typed'
<1>1. ASSUME NEW result \in {"claimed", "failed"}, Settle(e, result)
      PROVE  Typed'
  <2>1. ClaimOf(result) \in Msg /\ ClaimOf(result).kind # "frame" /\ ClaimOf(result).buf = NoBuf
    BY DEF ClaimOf, Message, Msg, Kinds
  <2>2. PortTyped'
    BY <1>1, <2>1, PortPosted, Untouched DEF Typed, Settle
  <2>3. NativeTyped'
    BY <1>1 DEF Typed, NativeTyped, Settle, Claims, sends
  <2>4. IsolateTyped'
    BY <1>1 DEF Typed, IsolateTyped, Settle, Spends, isolate
  <2>. QED  BY <1>1, <2>2, <2>3, <2>4, Untouched DEF Typed, Settle, pool, lists, stream
<1>2. ASSUME NEW k \in 0 .. MaxFaults, NEW assembled \in BOOLEAN, Receive(e, k, assembled)
      PROVE  Typed'
  <2> DEFINE r == [Idle EXCEPT !.at = IF k > 0 THEN "faults" ELSE "frame",
                               !.n = Len(heard[e]) + 1, !.k = k, !.mutex = assembled]
  <2>1. k \in Nat /\ heard[e] \in Seq(Nat)
    BY BoundAssumption DEF Typed, StreamTyped
  <2>2. r \in Doing /\ r.at # "filled" /\ r.buf = NoBuf
    <3>1. ASSUME NEW at \in {"faults", "frame"}, NEW n \in Nat
          PROVE  LET s == [Idle EXCEPT !.at = at, !.n = n, !.k = k, !.mutex = assembled] IN
                   s \in Doing /\ s.at # "filled" /\ s.buf = NoBuf
      BY <2>1 DEF Idle, Off, Doing
    <3>2. (IF k > 0 THEN "faults" ELSE "frame") \in {"faults", "frame"} /\ Len(heard[e]) + 1 \in Nat
      BY <2>1
    <3>. QED  BY <3>1, <3>2
  <2>3. rx' = [rx EXCEPT ![e] = r]
    BY <1>2 DEF Receive
  <2>4. RxTyped'
    BY <2>2, <2>3, RxSet DEF Typed
  <2>5. StreamTyped'
    BY <1>2, <2>1, AppendFact DEF Typed, StreamTyped, Receive
  <2>6. IsolateTyped'
    BY <1>2 DEF Typed, IsolateTyped, Receive, Spends, isolate
  <2>. QED  BY <1>2, <2>4, <2>5, <2>6, Untouched DEF Typed, Receive, sends, pool, lists
<1>3. ASSUME NEW i \in Id, UnicastAnswered(e, i)
      PROVE  Typed'
  <2> DEFINE r == [Idle EXCEPT !.at = "stuck", !.mutex = TRUE]
  <2>1. r \in Doing /\ r.at # "filled" /\ r.buf = NoBuf
    BY DEF Idle, Off, Doing
  <2>2. RxTyped'
    BY <1>3, <2>1, RxSet DEF Typed, UnicastAnswered
  <2>3. NativeTyped'
    BY <1>3 DEF Typed, NativeTyped, UnicastAnswered
  <2>. QED  BY <1>3, <2>2, <2>3, Untouched DEF Typed, UnicastAnswered, isolate, pool, lists, stream
<1>. QED  BY <1>1, <1>2, <1>3 DEF RxStep

LEMMA CompletesTyped ==
  ASSUME Typed, NEW e \in Ecu, NEW i \in Id, NEW result \in Results,
         Completes(e, i, result)
  PROVE  PortTyped' /\ outcome' \in [Ecu -> [Id -> Results \cup {"none"}]]
<1>1. DoneOf(i, result) \in Msg /\ DoneOf(i, result).kind # "frame" /\ DoneOf(i, result).buf = NoBuf
  BY BoundAssumption DEF DoneOf, Message, Msg, Kinds, Results
<1>2. PortTyped'
  BY <1>1, PortPosted DEF Typed, Completes
<1>3. outcome' \in [Ecu -> [Id -> Results \cup {"none"}]]
  BY DEF Completes, Typed, NativeTyped
<1>. QED  BY <1>2, <1>3

LEMMA SendTyped ==
  ASSUME Typed, NEW e \in Ecu, SendStep(e) \/ AsioStep(e)
  PROVE  Typed'
<1>1. ASSUME NEW i \in Id, Called(e, i), UNCHANGED <<phase, told>>
      PROVE  IsolateTyped'
  BY <1>1 DEF Typed, IsolateTyped, Called, Spends
<1>2. ASSUME NEW i \in Id, NEW result \in Results, SendInline(e, i, result)
      PROVE  Typed'
  <2>1. PortTyped' /\ NativeTyped'
    BY <1>2, CompletesTyped DEF SendInline, Typed, NativeTyped
  <2>. QED  BY <1>1, <1>2, <2>1, Untouched DEF Typed, SendInline, pool, lists, stream
<1>3. ASSUME NEW i \in Id, NEW kind \in {"broadcast", "endless", "unicast"}, SendLater(e, i, kind)
      PROVE  Typed'
  <2>1. NativeTyped'
    BY <1>3 DEF Typed, NativeTyped, SendLater
  <2>. QED  BY <1>1, <1>3, <2>1, Untouched DEF Typed, SendLater, pool, lists, stream
<1>4. ASSUME NEW i \in Id, NEW kind \in {"broadcast", "endless", "unicast"}, NEW result \in Results,
             Ends(e, i, kind, result)
      PROVE  Typed'
  <2>1. PortTyped' /\ outcome' \in [Ecu -> [Id -> Results \cup {"none"}]]
    BY <1>4, CompletesTyped DEF Ends
  <2>2. NativeTyped'
    BY <1>4, <2>1 DEF Typed, NativeTyped, Ends
  <2>. QED  BY <1>4, <2>1, <2>2, Untouched DEF Typed, Ends, isolate, pool, lists, stream
<1>. QED
  BY <1>2, <1>3, <1>4 DEF SendStep, AsioStep, BroadcastEnds, EndlessFails, UnicastTimesOut, Results

LEMMA HandleTyped ==
  ASSUME Typed, NEW e \in Ecu, HandleStep(e)
  PROVE  Typed'
<1> DEFINE m == Head(queue[e])
<1>1. ASSUME NEW kinds, Takes(e, kinds)
      PROVE  /\ PortTyped' /\ m \in Msg
             /\ m.kind = "frame" <=> m.buf # NoBuf
  <2>1. PortTyped' /\ m \in Msg
    BY <1>1, PortTaken, TakesFact DEF Typed, PortTyped
  <2>2. 1 \in DOMAIN queue[e] /\ m = queue[e][1]
    BY <1>1, TakesFact DEF Typed, PortTyped
  <2>. QED  BY <2>1, <2>2 DEF Typed, PortTyped
<1>2. CASE HandleEvent(e)
  <2>1. PortTyped' /\ m \in Msg /\ (m.kind = "frame" <=> m.buf # NoBuf)
    BY <1>1, <1>2 DEF HandleEvent
  <2>2. Lists(e, {m}) \subseteq [ecu : Ecu, n : Nat, buf : Buffer]
    BY <2>1, PortLists
  <2>3. ListsTyped'
    BY <1>2, <2>2 DEF Typed, ListsTyped, HandleEvent
  <2>4. Event(m) \in [kind : Kinds, n : Nat, i : Nat]
    BY <2>1 DEF Event, Msg
  <2>5. StreamTyped'
    BY <1>2, <2>4, AppendFact DEF Typed, StreamTyped, HandleEvent
  <2>. QED  BY <1>2, <2>1, <2>3, <2>5, Untouched DEF Typed, HandleEvent, isolate, sends, pool
<1>3. CASE CompleteSend(e)
  <2>1. PortTyped'
    BY <1>1, <1>3 DEF CompleteSend
  <2>2. m.kind \in Results
    BY <1>3 DEF CompleteSend, Takes
  <2>3. m.n \in Id => Tells(e, m.n, m.kind) \in Seq(Results \cup {"disposed"})
    BY <2>2, AppendFact DEF Typed, IsolateTyped, Tells
  <2>4. IsolateTyped'
    BY <1>3, <2>3 DEF Typed, IsolateTyped, CompleteSend
  <2>. QED  BY <1>3, <2>1, <2>4, Untouched DEF Typed, CompleteSend, sends, pool, lists, stream
<1>. QED  BY <1>2, <1>3 DEF HandleStep

LEMMA CollectTyped ==
  ASSUME Typed, \/ \E v \in views : Drop(v)
                \/ \E v \in garbage : Finalize(v)
  PROVE  Typed'
<1>1. ASSUME NEW v \in views, Drop(v)
      PROVE  Typed'
  <2>1. ListsTyped'
    BY <1>1 DEF Typed, ListsTyped, Drop
  <2>. QED  BY <1>1, <2>1, Untouched DEF Typed, Drop, isolate, sends, pool, stream
<1>2. ASSUME NEW v \in garbage, Finalize(v)
      PROVE  Typed'
  <2>1. ListsTyped'
    BY <1>2 DEF Typed, ListsTyped, Finalize
  <2>2. PoolTyped'
    BY <1>2, AppendFact DEF Typed, PoolTyped, Finalize
  <2>. QED  BY <1>2, <2>1, <2>2, Untouched DEF Typed, Finalize, isolate, sends, stream
<1>. QED  BY <1>1, <1>2

LEMMA NextTyped == Typed /\ [Next]_vars => Typed'
<1> SUFFICES ASSUME Typed, [Next]_vars PROVE Typed'
  OBVIOUS
<1>1. CASE UNCHANGED vars
  BY <1>1, Untouched DEF Typed, vars, isolate, sends, pool, lists, stream
<1>. QED
  BY <1>1, CreateTyped, DisposeTyped, PassesTyped, ReceiveTyped, SendTyped, HandleTyped,
     CollectTyped DEF Next, EcuStep, RxStep

LEMMA AlwaysTyped == Spec => []Typed
  BY InitTyped, NextTyped, PTL DEF Spec

(* The types of all that the binding and the stack keep.                   *)
THEOREM TypeCorrect == Spec => []TypeOK
  BY AlwaysTyped, TypedImpliesTypeOK, PTL

-----------------------------------------------------------------------------
(* Buffers. *)

InThread(e, b) == rx[e].buf = b
InPort(e, p, b) == p \in DOMAIN queue[e] /\ queue[e][p].buf = b
Listed == views \cup garbage

Held(b) ==
  \/ \E e \in Ecu : InThread(e, b)
  \/ \E e \in Ecu : \E p \in Nat : InPort(e, p, b)
  \/ \E v \in Listed : v.buf = b

(* A buffer has one holder. *)
ThreadsApart ==
  \A b \in Buffer : \A e, d \in Ecu : InThread(e, b) /\ InThread(d, b) => e = d
PortsApart ==
  \A b \in Buffer : \A e, d \in Ecu : \A p, q \in Nat :
    InPort(e, p, b) /\ InPort(d, q, b) => e = d /\ p = q
ThreadsNotPorts ==
  \A b \in Buffer : \A e, d \in Ecu : \A p \in Nat : ~(InThread(e, b) /\ InPort(d, p, b))
ListsApart ==
  /\ \A u, v \in Listed : u.buf = v.buf => u = v
  /\ views \cap garbage = {}
ListsNotOthers ==
  \A v \in Listed : \A e \in Ecu :
    ~InThread(e, v.buf) /\ \A p \in Nat : ~InPort(e, p, v.buf)

OneHolder ==
  ThreadsApart /\ PortsApart /\ ThreadsNotPorts /\ ListsApart /\ ListsNotOthers

(* What nobody holds is free. *)
Accounted ==
  /\ \A b \in Pool : b \in Range(free) <=> ~Held(b)
  /\ \A b \in Heap : b \in live <=> Held(b)
  /\ IsInjective(free)

Owned == OneHolder /\ Accounted

LEMMA InitOwned == Init => Owned
<1> SUFFICES ASSUME Init PROVE Owned
  OBVIOUS
<1>1. \A b \in Buffer : ~Held(b)
  BY NoBufAssumption DEF Init, Held, InThread, InPort, Listed, Off, Buffer, Pool
<1>2. OneHolder
  BY NoBufAssumption
  DEF Init, OneHolder, ThreadsApart, PortsApart, ThreadsNotPorts, ListsApart, ListsNotOthers,
      InThread, InPort, Listed, Off, Buffer, Pool
<1>3. Range(free) = Pool /\ IsInjective(free) /\ live = {}
  BY DEF Init, Range, IsInjective
<1>. QED  BY <1>1, <1>2, <1>3 DEF Owned, Accounted, Buffer

(* Steps after which each buffer is held if and only if it was. *)
LEMMA SameHeld ==
  ASSUME Accounted, UNCHANGED <<free, live>>, \A b \in Buffer : Held(b)' <=> Held(b)
  PROVE  Accounted'
  BY DEF Accounted, Buffer

(* No buffer moves. *)
LEMMA Quiet ==
  ASSUME Owned, UNCHANGED <<free, live, views, garbage>>,
         \A b \in Buffer : \A e \in Ecu :
           /\ InThread(e, b)' <=> InThread(e, b)
           /\ \A p \in Nat : InPort(e, p, b)' <=> InPort(e, p, b),
         Typed
  PROVE  Owned'
<1>1. \A v \in Listed : v.buf \in Buffer
  BY DEF Typed, ListsTyped, Listed
<1>2. Listed' = Listed
  BY DEF Listed
<1>3. OneHolder'
  BY <1>1, <1>2
  DEF Owned, OneHolder, ThreadsApart, PortsApart, ThreadsNotPorts, ListsApart, ListsNotOthers
<1>4. \A b \in Buffer : Held(b)' <=> Held(b)
  BY <1>2 DEF Held
<1>. QED  BY <1>3, <1>4, SameHeld DEF Owned

(* Where the buffers of the ports are after a step. *)
LEMMA PostsPort ==
  ASSUME Typed, NEW e \in Ecu, NEW m \in Msg, Posts(e, m)
  PROVE  \A b \in Buffer : \A d \in Ecu : \A p \in Nat :
           InPort(d, p, b)'
             <=> (InPort(d, p, b) \/ (d = e /\ p = Len(queue[e]) + 1 /\ m.buf = b))
<1>1. \A d \in Ecu : queue[d] \in Seq(Msg) /\ queue'[d] \in Seq(Msg)
  BY PostsFact DEF Typed, PortTyped
<1> SUFFICES ASSUME NEW b \in Buffer, NEW d \in Ecu, NEW p \in Nat
             PROVE  InPort(d, p, b)'
             <=> (InPort(d, p, b) \/ (d = e /\ p = Len(queue[e]) + 1 /\ m.buf = b))
  OBVIOUS
<1>2. CASE d # e
  BY <1>2, PostsFact DEF Typed, PortTyped, InPort
<1>3. CASE d = e
  <2>1. /\ DOMAIN queue[e] = 1 .. Len(queue[e]) /\ DOMAIN queue'[e] = 1 .. Len(queue[e]) + 1
        /\ Len(queue[e]) \in Nat
    BY <1>1, PostsFact DEF Typed, PortTyped
  <2>2. /\ \A q \in 1 .. Len(queue[e]) : queue'[e][q] = queue[e][q]
        /\ queue'[e][Len(queue[e]) + 1] = m
    BY PostsFact DEF Typed, PortTyped
  <2>. QED  BY <1>3, <2>1, <2>2 DEF InPort
<1>. QED  BY <1>2, <1>3

LEMMA TakesPort ==
  ASSUME Typed, NEW e \in Ecu, NEW kinds, Takes(e, kinds)
  PROVE  /\ \A b \in Buffer : \A p \in Nat :
              InPort(e, p, b)' <=> p > 0 /\ InPort(e, p + 1, b)
         /\ \A b \in Buffer : \A d \in Ecu \ {e} : \A p \in Nat :
              InPort(d, p, b)' <=> InPort(d, p, b)
         /\ \A b \in Buffer : InPort(e, 1, b) <=> Head(queue[e]).buf = b
         /\ \A b \in Buffer : ~InPort(e, 0, b)
<1>1. \A d \in Ecu : queue[d] \in Seq(Msg) /\ queue'[d] \in Seq(Msg)
  BY TakesFact DEF Typed, PortTyped
<1>2. /\ DOMAIN queue[e] = 1 .. Len(queue[e]) /\ DOMAIN queue'[e] = 1 .. Len(queue[e]) - 1
      /\ Len(queue[e]) \in Nat \ {0}
  BY <1>1, TakesFact DEF Typed, PortTyped
<1>3. \A p \in 1 .. Len(queue[e]) - 1 : queue'[e][p] = queue[e][p + 1]
  BY TakesFact DEF Typed, PortTyped
<1>4. Head(queue[e]) = queue[e][1]
  BY TakesFact DEF Typed, PortTyped
<1>5. \A b \in Buffer : \A p \in Nat : InPort(e, p, b)' <=> p > 0 /\ InPort(e, p + 1, b)
  BY <1>2, <1>3 DEF InPort
<1>6. \A b \in Buffer : \A d \in Ecu \ {e} : \A p \in Nat :
        InPort(d, p, b)' <=> InPort(d, p, b)
  BY TakesFact DEF InPort, Typed, PortTyped
<1>. QED  BY <1>2, <1>4, <1>5, <1>6 DEF InPort

(* A message without a buffer is posted, or taken. *)
LEMMA PostsQuiet ==
  ASSUME Typed, Owned, NEW e \in Ecu, NEW m \in Msg, m.buf = NoBuf, Posts(e, m),
         UNCHANGED <<free, live, views, garbage>>,
         \A d \in Ecu : rx'[d].buf = rx[d].buf
  PROVE  Owned'
<1>1. \A b \in Buffer : b # NoBuf
  BY NoBufAssumption DEF Buffer, Pool
<1>. QED  BY <1>1, PostsPort, Quiet DEF InThread

(* A message is taken: the buffers of those behind it stay in their port. *)
LEMMA TakesApart ==
  ASSUME Typed, PortsApart, NEW e \in Ecu, NEW kinds, Takes(e, kinds)
  PROVE  /\ PortsApart'
         /\ \A b \in Buffer : \A d \in Ecu : \A p \in Nat :
              InPort(d, p, b)' => \E q \in Nat : InPort(d, q, b)
         /\ \A b \in Buffer : Head(queue[e]).buf = b =>
              \A d \in Ecu : \A p \in Nat : ~InPort(d, p, b)'
         /\ \A b \in Buffer : Head(queue[e]).buf # b =>
              \A d \in Ecu : \A p \in Nat : InPort(d, p, b) => \E q \in Nat : InPort(d, q, b)'
<1>1. ASSUME NEW b \in Buffer, NEW d \in Ecu, NEW p \in Nat, InPort(d, p, b)'
      PROVE  LET q == IF d = e THEN p + 1 ELSE p IN
               q \in Nat /\ InPort(d, q, b) /\ (d = e => q # 1)
  BY <1>1, TakesPort
<1>2. PortsApart'
  <2> SUFFICES ASSUME NEW b \in Buffer, NEW d \in Ecu, NEW f \in Ecu, NEW p \in Nat, NEW q \in Nat,
                      InPort(d, p, b)', InPort(f, q, b)'
               PROVE  d = f /\ p = q
    BY DEF PortsApart
  <2>1. d = f /\ (IF d = e THEN p + 1 ELSE p) = (IF f = e THEN q + 1 ELSE q)
    BY <1>1 DEF PortsApart
  <2>. QED  BY <2>1
<1>3. \A b \in Buffer : \A d \in Ecu : \A p \in Nat :
        InPort(d, p, b)' => \E q \in Nat : InPort(d, q, b)
  BY TakesPort
<1>4. ASSUME NEW b \in Buffer, Head(queue[e]).buf = b, NEW d \in Ecu, NEW p \in Nat
      PROVE  ~InPort(d, p, b)'
  <2> SUFFICES ASSUME InPort(d, p, b)' PROVE FALSE
    OBVIOUS
  <2> DEFINE q == IF d = e THEN p + 1 ELSE p
  <2>1. InPort(e, 1, b) /\ 1 \in Nat
    BY <1>4, TakesPort
  <2>2. q \in Nat /\ InPort(d, q, b) /\ (d = e => q # 1)
    BY <1>1
  <2>. QED  BY <2>1, <2>2 DEF PortsApart
<1>5. ASSUME NEW b \in Buffer, Head(queue[e]).buf # b, NEW d \in Ecu, NEW p \in Nat, InPort(d, p, b)
      PROVE  \E q \in Nat : InPort(d, q, b)'
  <2>1. CASE d # e
    BY <1>5, <2>1, TakesPort
  <2>2. CASE d = e
    <3>1. p # 0 /\ p # 1
      BY <1>5, <2>2, TakesPort
    <3>2. p - 1 \in Nat /\ p - 1 > 0 /\ InPort(e, (p - 1) + 1, b)
      BY <1>5, <3>1, <2>2
    <3>3. InPort(e, p - 1, b)'
      BY <3>2, TakesPort
    <3>. QED  BY <2>2, <3>2, <3>3
  <2>. QED  BY <2>1, <2>2
<1>. QED  BY <1>2, <1>3, <1>4, <1>5

LEMMA TakesQuiet ==
  ASSUME Typed, Owned, NEW e \in Ecu, NEW kinds, Takes(e, kinds),
         Head(queue[e]).buf = NoBuf,
         UNCHANGED <<free, live, views, garbage, rx>>
  PROVE  Owned'
<1> USE DEF Owned
<1>1. \A b \in Buffer : b # NoBuf
  BY NoBufAssumption DEF Buffer, Pool
<1>2. \A v \in Listed : v.buf \in Buffer
  BY DEF Typed, ListsTyped, Listed
<1>3. Listed' = Listed /\ \A b : \A d \in Ecu : InThread(d, b)' <=> InThread(d, b)
  BY DEF Listed, InThread
<1>4. OneHolder'
  BY <1>2, <1>3, TakesApart
  DEF OneHolder, ThreadsApart, ThreadsNotPorts, ListsApart, ListsNotOthers
<1>5. \A b \in Buffer : Held(b)' <=> Held(b)
  BY <1>1, <1>3, TakesApart DEF Held, OneHolder
<1>. QED  BY <1>4, <1>5, SameHeld

(* The buffer of a frame goes from its port to a list. *)
LEMMA HandleOwned ==
  ASSUME Typed, Owned, NEW e \in Ecu, HandleEvent(e)
  PROVE  Owned'
<1> USE DEF Owned
<1> DEFINE m == Head(queue[e])
           v == [ecu |-> e, n |-> m.n, buf |-> m.buf]
<1>1. /\ Takes(e, Kinds \ Results) /\ views' = views \cup Lists(e, {m})
      /\ UNCHANGED <<free, live, garbage, rx>>
  BY DEF HandleEvent, pool
<1>2. m \in Msg /\ (m.kind = "frame" <=> m.buf # NoBuf)
  BY <1>1, TakesFact DEF Typed, PortTyped
<1>3. CASE m.kind # "frame"
  <2>1. Lists(e, {m}) = {}
    BY <1>3 DEF Lists
  <2>. QED  BY <1>1, <1>2, <1>3, <2>1, TakesQuiet
<1>4. CASE m.kind = "frame"
  <2>1. m.buf \in Buffer /\ v.buf = m.buf /\ Lists(e, {m}) = {v} /\ views' = views \cup {v}
    BY <1>1, <1>2, <1>4 DEF Lists, Msg
  <2>2. Listed' = Listed \cup {v} /\ \A u \in Listed : u.buf \in Buffer
    BY <1>1, <2>1 DEF Listed, Typed, ListsTyped
  <2>3. \A b : \A d \in Ecu : InThread(d, b)' <=> InThread(d, b)
    BY <1>1 DEF InThread
  <2>4. InPort(e, 1, m.buf)
    BY <1>1, <2>1, TakesPort
  <2>5. /\ \A d \in Ecu : ~InThread(d, m.buf)
        /\ \A u \in Listed : u.buf # m.buf
    BY <2>1, <2>4 DEF OneHolder, ThreadsNotPorts, ListsNotOthers
  <2>6. PortsApart' /\ ThreadsApart' /\ ThreadsNotPorts'
    BY <1>1, <2>3, TakesApart DEF OneHolder, ThreadsApart, ThreadsNotPorts
  <2>7. ListsApart'
    BY <1>1, <2>1, <2>2, <2>5 DEF OneHolder, ListsApart, Listed
  <2>8. ListsNotOthers'
    <3> SUFFICES ASSUME NEW u \in Listed', NEW d \in Ecu
                 PROVE  ~InThread(d, u.buf)' /\ \A p \in Nat : ~InPort(d, p, u.buf)'
      BY DEF ListsNotOthers
    <3>1. CASE u = v
      BY <1>1, <2>1, <2>3, <2>5, <3>1, TakesApart DEF OneHolder
    <3>2. CASE u \in Listed
      BY <1>1, <2>2, <2>3, <3>2, TakesApart DEF OneHolder, ListsNotOthers
    <3>. QED  BY <2>2, <3>1, <3>2
  <2>9. ASSUME NEW b \in Buffer PROVE Held(b)' <=> Held(b)
    <3>1. CASE b = m.buf
      BY <2>1, <2>2, <2>4, <3>1 DEF Held
    <3>2. CASE b # m.buf
      BY <1>1, <2>1, <2>2, <2>3, <3>2, TakesApart DEF Held, OneHolder
    <3>. QED  BY <3>1, <3>2
  <2>. QED  BY <1>1, <2>6, <2>7, <2>8, <2>9, SameHeld DEF OneHolder
<1>. QED  BY <1>3, <1>4

(* The receive thread posts the buffer it has filled. *)
LEMMA PostFrameOwned ==
  ASSUME Typed, Owned, NEW e \in Ecu, PostFrame(e)
  PROVE  Owned'
<1> USE DEF Owned
<1> DEFINE b0 == rx[e].buf
           m == FrameOf(rx[e].n, b0)
<1>1. /\ Posts(e, m) /\ rx' = [rx EXCEPT ![e] = Idle] /\ rx[e].at = "filled"
      /\ UNCHANGED <<free, live, views, garbage>>
  BY DEF PostFrame, pool, lists
<1>2. /\ b0 \in Buffer /\ m \in Msg /\ m.buf = b0 /\ rx \in [Ecu -> Doing]
  BY <1>1, NoBufAssumption DEF Typed, RxTyped, Doing, FrameOf, Message, Msg, Kinds
<1>3. \A b \in Buffer : \A d \in Ecu : InThread(d, b)' <=> d # e /\ InThread(d, b)
  BY <1>1, <1>2, Rests, NoBufAssumption DEF InThread, Buffer, Pool
<1>4. Listed' = Listed /\ \A u \in Listed : u.buf \in Buffer
  BY <1>1 DEF Listed, Typed, ListsTyped
<1>5. InThread(e, b0)
  BY DEF InThread
<1>6. /\ \A d \in Ecu : \A p \in Nat : ~InPort(d, p, b0)
      /\ \A u \in Listed : u.buf # b0
      /\ \A d \in Ecu : InThread(d, b0) => d = e
  BY <1>2, <1>5 DEF OneHolder, ThreadsApart, ThreadsNotPorts, ListsNotOthers
<1>7. \A b \in Buffer : \A d \in Ecu : \A p \in Nat :
        InPort(d, p, b)' <=> (InPort(d, p, b) \/ (d = e /\ p = Len(queue[e]) + 1 /\ b = b0))
  BY <1>1, <1>2, PostsPort
<1>8. Len(queue[e]) + 1 \in Nat
  BY DEF Typed, PortTyped
<1>9. OneHolder'
  <2>1. ThreadsApart' /\ ThreadsNotPorts'
    BY <1>3, <1>6, <1>7 DEF OneHolder, ThreadsApart, ThreadsNotPorts
  <2>2. PortsApart'
    BY <1>6, <1>7 DEF OneHolder, PortsApart
  <2>3. ListsApart' /\ ListsNotOthers'
    BY <1>1, <1>3, <1>4, <1>6, <1>7 DEF OneHolder, ListsApart, ListsNotOthers, Listed
  <2>. QED  BY <2>1, <2>2, <2>3 DEF OneHolder
<1>10. ASSUME NEW b \in Buffer PROVE Held(b)' <=> Held(b)
  <2>1. CASE b = b0
    BY <1>2, <1>5, <1>7, <1>8, <2>1 DEF Held
  <2>2. CASE b # b0
    BY <1>2, <1>3, <1>4, <1>7, <2>2 DEF Held, InThread
  <2>. QED  BY <2>1, <2>2
<1>. QED  BY <1>1, <1>9, <1>10, SameHeld

(* The receive thread takes a buffer that nobody holds. *)
LEMMA FillsHolder ==
  ASSUME Typed, OneHolder, NEW e \in Ecu, NEW b \in Buffer, Fills(e, b), ~Held(b)
  PROVE  /\ OneHolder'
         /\ \A c \in Buffer : Held(c)' <=> Held(c) \/ c = b
<1>1. /\ rx \in [Ecu -> Doing] /\ rx[e].at # "filled" /\ rx[e].buf = NoBuf
      /\ rx' = [rx EXCEPT ![e] = [rx[e] EXCEPT !.at = "filled", !.buf = b]]
  BY DEF Fills, Typed, RxTyped, Doing
<1>2. NoBuf \notin Buffer
  BY NoBufAssumption DEF Buffer, Pool
<1>3. \A c \in Buffer : \A d \in Ecu : InThread(d, c)' <=> (InThread(d, c) \/ (d = e /\ c = b))
  BY <1>1, <1>2 DEF InThread, Doing
<1>4. /\ Listed' = Listed /\ views' = views /\ garbage' = garbage
      /\ \A u \in Listed : u.buf \in Buffer
      /\ \A c \in Buffer : \A d \in Ecu : \A p \in Nat : InPort(d, p, c)' <=> InPort(d, p, c)
  BY DEF Fills, lists, Listed, Typed, ListsTyped, InPort
<1>5. /\ \A d \in Ecu : ~InThread(d, b) /\ \A p \in Nat : ~InPort(d, p, b)
      /\ \A u \in Listed : u.buf # b
  BY DEF Held
<1>6. OneHolder'
  BY <1>3, <1>4, <1>5
  DEF OneHolder, ThreadsApart, PortsApart, ThreadsNotPorts, ListsApart, ListsNotOthers
<1>7. \A c \in Buffer : Held(c)' <=> Held(c) \/ c = b
  BY <1>3, <1>4 DEF Held
<1>. QED  BY <1>6, <1>7

LEMMA PopFact ==
  ASSUME NEW S, NEW s \in Seq(S), s # <<>>, IsInjective(s)
  PROVE  LET t == SubSeq(s, 1, Len(s) - 1) IN
           /\ s[Len(s)] \in Range(s)
           /\ IsInjective(t)
           /\ \A x : x \in Range(t) <=> x \in Range(s) /\ x # s[Len(s)]
<1> DEFINE t == SubSeq(s, 1, Len(s) - 1)
<1>1. /\ Len(s) \in Nat \ {0} /\ DOMAIN s = 1 .. Len(s)
      /\ DOMAIN t = 1 .. Len(s) - 1
      /\ \A p \in DOMAIN t : t[p] = s[p]
  OBVIOUS
<1>2. \A p, q \in DOMAIN s : s[p] = s[q] => p = q
  BY DEF IsInjective
<1> HIDE DEF t
<1>3. IsInjective(t)
  BY <1>1, <1>2 DEF IsInjective
<1>4. \A x : x \in Range(t) <=> x \in Range(s) /\ x # s[Len(s)]
  BY <1>1, <1>2 DEF Range
<1>5. s[Len(s)] \in Range(s)
  BY <1>1 DEF Range
<1>. QED  BY <1>3, <1>4, <1>5 DEF t

LEMMA PushFact ==
  ASSUME NEW S, NEW s \in Seq(S), IsInjective(s), NEW x \in S, x \notin Range(s)
  PROVE  /\ IsInjective(Append(s, x))
         /\ \A y : y \in Range(Append(s, x)) <=> y \in Range(s) \/ y = x
<1> DEFINE t == Append(s, x)
<1>1. /\ Len(s) \in Nat /\ DOMAIN s = 1 .. Len(s) /\ DOMAIN t = 1 .. Len(s) + 1
      /\ \A p \in DOMAIN s : t[p] = s[p]
      /\ t[Len(s) + 1] = x
  OBVIOUS
<1>2. \A p, q \in DOMAIN s : s[p] = s[q] => p = q
  BY DEF IsInjective
<1>3. \A p \in DOMAIN s : s[p] # x
  BY DEF Range
<1> HIDE DEF t
<1>4. IsInjective(t)
  BY <1>1, <1>2, <1>3 DEF IsInjective
<1>5. \A y : y \in Range(t) <=> y \in Range(s) \/ y = x
  BY <1>1 DEF Range
<1>. QED  BY <1>4, <1>5 DEF t

LEMMA AcquireOwned ==
  ASSUME Typed, Owned, NEW e \in Ecu,
         AcquireFromPool(e) \/ \E b \in Heap : AcquireFromHeap(e, b)
  PROVE  Owned'
<1> USE DEF Owned
<1>1. CASE AcquireFromPool(e)
  <2> DEFINE b == free[Len(free)]
  <2>1. /\ free \in Seq(Pool) /\ free # <<>> /\ Fills(e, b) /\ live' = live
        /\ free' = SubSeq(free, 1, Len(free) - 1)
    BY <1>1 DEF AcquireFromPool, Typed, PoolTyped
  <2>2. /\ b \in Range(free) /\ IsInjective(free')
        /\ \A x : x \in Range(free') <=> x \in Range(free) /\ x # b
    BY <2>1, PopFact DEF Accounted
  <2>3. b \in Pool /\ b \in Buffer
    BY <2>1, <2>2 DEF Range, Buffer
  <2>4. OneHolder' /\ \A c \in Buffer : Held(c)' <=> Held(c) \/ c = b
    BY <2>1, <2>2, <2>3, FillsHolder DEF Accounted
  <2>5. Accounted'
    BY <2>1, <2>2, <2>3, <2>4, HeapAssumption DEF Accounted, Buffer, Pool
  <2>. QED  BY <2>4, <2>5
<1>2. ASSUME NEW b \in Heap, AcquireFromHeap(e, b)
      PROVE  Owned'
  <2>1. Fills(e, b) /\ live' = live \cup {b} /\ b \notin live /\ free' = free /\ b \in Buffer
    BY <1>2 DEF AcquireFromHeap, Buffer
  <2>2. OneHolder' /\ \A c \in Buffer : Held(c)' <=> Held(c) \/ c = b
    BY <2>1, FillsHolder DEF Accounted
  <2>3. Accounted'
    BY <2>1, <2>2, HeapAssumption DEF Accounted, Buffer, Pool
  <2>. QED  BY <2>2, <2>3
<1>. QED  BY <1>1, <1>2

LEMMA CollectOwned ==
  ASSUME Typed, Owned, \/ \E v \in views : Drop(v)
                       \/ \E v \in garbage : Finalize(v)
  PROVE  Owned'
<1> USE DEF Owned
<1>0. \A u \in Listed : u.buf \in Buffer
  BY DEF Typed, ListsTyped, Listed
<1>1. ASSUME NEW v \in views, Drop(v)
      PROVE  Owned'
  <2>1. /\ views' = views \ {v} /\ garbage' = garbage \cup {v}
        /\ UNCHANGED <<rx, queue, free, live>>
    BY <1>1 DEF Drop, pool
  <2>2. Listed' = Listed
    BY <2>1 DEF Listed
  <2>3. OneHolder'
    BY <2>1, <2>2
    DEF OneHolder, ThreadsApart, PortsApart, ThreadsNotPorts, ListsApart, ListsNotOthers,
        InThread, InPort
  <2>4. \A b \in Buffer : Held(b)' <=> Held(b)
    BY <2>1, <2>2 DEF Held, InThread, InPort
  <2>. QED  BY <2>1, <2>3, <2>4, SameHeld
<1>2. ASSUME NEW v \in garbage, Finalize(v)
      PROVE  Owned'
  <2> DEFINE b0 == v.buf
  <2>1. /\ garbage' = garbage \ {v} /\ views' = views
        /\ UNCHANGED <<rx, queue>>
        /\ b0 \in Pool => free' = Append(free, b0) /\ live' = live
        /\ b0 \notin Pool => live' = live \ {b0} /\ free' = free
    BY <1>2 DEF Finalize
  <2>2. v \in Listed /\ b0 \in Buffer /\ Listed' = Listed \ {v}
    BY <1>0, <2>1 DEF Listed, OneHolder, ListsApart
  <2>3. OneHolder'
    BY <2>1, <2>2
    DEF OneHolder, ThreadsApart, PortsApart, ThreadsNotPorts, ListsApart, ListsNotOthers,
        InThread, InPort
  <2>4. /\ \A u \in Listed' : u.buf # b0
        /\ \A d \in Ecu : ~InThread(d, b0) /\ \A p \in Nat : ~InPort(d, p, b0)
    BY <2>2 DEF OneHolder, ListsApart, ListsNotOthers
  <2>5. \A b \in Buffer : Held(b)' <=> Held(b) /\ b # b0
    BY <2>1, <2>2, <2>4 DEF Held, InThread, InPort
  <2>6. Held(b0)
    BY <2>2 DEF Held
  <2>7. CASE b0 \in Pool
    <3>1. b0 \notin Range(free)
      BY <2>6, <2>7 DEF Accounted
    <3>2. IsInjective(free') /\ \A y : y \in Range(free') <=> y \in Range(free) \/ y = b0
      <4>1. free' = Append(free, b0) /\ free \in Seq(Pool) /\ IsInjective(free)
        BY <2>1, <2>7 DEF Accounted, Typed, PoolTyped
      <4> HIDE DEF b0
      <4>. QED  BY <4>1, <2>7, <3>1, PushFact
    <3>3. Accounted'
      BY <2>1, <2>5, <2>7, <3>2, HeapAssumption DEF Accounted, Buffer, Pool
    <3>. QED  BY <2>3, <3>3
  <2>8. CASE b0 \notin Pool
    <3>1. Accounted'
      BY <2>1, <2>5, <2>8 DEF Accounted, Buffer
    <3>. QED  BY <2>3, <3>1
  <2>. QED  BY <2>7, <2>8
<1>. QED  BY <1>1, <1>2

(* The frames of a port that is closed become garbage. *)
LEMMA DisposedOwned ==
  ASSUME Typed, Owned, NEW e \in Ecu, Disposed(e)
  PROVE  Owned'
<1> USE DEF Owned
<1>1. /\ rx[e].at = "idle" /\ rx' = [rx EXCEPT ![e] = Off]
      /\ queue' = [queue EXCEPT ![e] = <<>>] /\ garbage' = garbage \cup Unread(e)
      /\ UNCHANGED <<free, live, views>>
  BY DEF Disposed, Closes, pool
<1>2. \A b \in Buffer : \A d \in Ecu : InThread(d, b)' <=> InThread(d, b)
  BY <1>1, Rests, NoBufAssumption DEF InThread, Typed, RxTyped, Buffer, Pool
<1>3. \A b \in Buffer : \A d \in Ecu : \A p \in Nat :
        InPort(d, p, b)' <=> InPort(d, p, b) /\ d # e
  BY <1>1 DEF InPort, Typed, PortTyped
<1>4. Listed' = Listed \cup Unread(e) /\ \A u \in Listed : u.buf \in Buffer
  BY <1>1 DEF Listed, Typed, ListsTyped
<1>5. \A u \in Unread(e) : u.buf \in Buffer
  BY UnreadTyped DEF Typed
<1>6. DOMAIN queue[e] \subseteq Nat
  BY DEF Typed, PortTyped
<1>7. \A u \in Unread(e) : \E p \in Nat :
        /\ InPort(e, p, u.buf)
        /\ u = [ecu |-> e, n |-> queue[e][p].n, buf |-> queue[e][p].buf]
  BY <1>6 DEF Unread, Lists, Range, InPort
<1>8. \A b \in Buffer : \A p \in Nat : InPort(e, p, b) => \E u \in Unread(e) : u.buf = b
  <2> SUFFICES ASSUME NEW b \in Buffer, NEW p \in Nat, InPort(e, p, b)
               PROVE  \E u \in Unread(e) : u.buf = b
    OBVIOUS
  <2> DEFINE u == [ecu |-> e, n |-> queue[e][p].n, buf |-> queue[e][p].buf]
  <2>1. p \in DOMAIN queue[e] /\ queue[e][p].kind = "frame" /\ queue[e][p].buf = b
    BY NoBufAssumption DEF InPort, Typed, PortTyped, Buffer, Pool
  <2>2. u \in Unread(e) /\ u.buf = b
    BY <2>1 DEF Unread, Lists, Range
  <2>. QED  BY <2>2
<1>9. OneHolder'
  <2>1. ThreadsApart' /\ ThreadsNotPorts' /\ PortsApart'
    BY <1>2, <1>3 DEF OneHolder, ThreadsApart, ThreadsNotPorts, PortsApart
  <2>2. \A u \in Unread(e) : \A w \in Listed : u.buf # w.buf
    BY <1>5, <1>7 DEF OneHolder, ListsNotOthers
  <2>3. \A u, w \in Unread(e) : u.buf = w.buf => u = w
    BY <1>5, <1>7 DEF OneHolder, PortsApart
  <2>4. ListsApart'
    BY <1>1, <1>4, <2>2, <2>3 DEF OneHolder, ListsApart, Listed
  <2>5. \A u \in Unread(e) : \A d \in Ecu :
          ~InThread(d, u.buf)' /\ \A p \in Nat : ~InPort(d, p, u.buf)'
    BY <1>2, <1>3, <1>5, <1>7 DEF OneHolder, ThreadsNotPorts, PortsApart
  <2>6. ListsNotOthers'
    BY <1>2, <1>3, <1>4, <2>5 DEF OneHolder, ListsNotOthers
  <2>. QED  BY <2>1, <2>4, <2>6 DEF OneHolder
<1>10. \A b \in Buffer : Held(b)' <=> Held(b)
  BY <1>2, <1>3, <1>4, <1>7, <1>8 DEF Held
<1>. QED  BY <1>1, <1>9, <1>10, SameHeld

(* Nobody receives for an ECU that was not created. *)
OffInv == \A e \in Ecu : phase[e] = "none" => rx[e].at = "off"

LEMMA NextOff == Typed /\ OffInv /\ [Next]_vars => OffInv'
<1> SUFFICES ASSUME Typed, OffInv, [Next]_vars, NEW d \in Ecu, phase'[d] = "none"
             PROVE  rx'[d].at = "off"
  BY DEF OffInv
<1>0. phase \in [Ecu -> Phases] /\ rx \in [Ecu -> Doing]
  BY DEF Typed, IsolateTyped, RxTyped
<1>1. CASE UNCHANGED vars
  BY <1>1 DEF OffInv, vars, isolate
<1>2. ASSUME NEW e \in Ecu, CreateStep(e)
      PROVE  rx'[d].at = "off"
  BY <1>0, <1>2 DEF OffInv, CreateStep, Create, OnMessage, OnClaimResult, SetHandler
<1>3. ASSUME NEW e \in Ecu, RxStep(e)
      PROVE  rx'[d].at = "off"
  <2>1. UNCHANGED phase
    BY <1>3
    DEF RxStep, Passes, Settle, Receive, PostDm1, PostFrame, AcquireFromPool, AcquireFromHeap,
        Fills, UnicastAnswered, isolate
  <2>2. rx[d].at = "off"
    BY <2>1 DEF OffInv
  <2>3. CASE d = e
    BY <1>3, <2>2, <2>3
    DEF RxStep, Passes, Settle, Receive, PostDm1, PostFrame, AcquireFromPool, AcquireFromHeap,
        Fills, UnicastAnswered
  <2>4. CASE d # e
    BY <1>0, <1>3, <2>2, <2>4
    DEF RxStep, Passes, Settle, Receive, PostDm1, PostFrame, AcquireFromPool, AcquireFromHeap,
        Fills, UnicastAnswered
  <2>. QED  BY <2>3, <2>4
<1>4. ASSUME NEW e \in Ecu, SendStep(e) \/ AsioStep(e) \/ HandleStep(e)
      PROVE  rx'[d].at = "off"
  BY <1>4
  DEF OffInv, SendStep, AsioStep, HandleStep, SendInline, SendLater, BroadcastEnds, EndlessFails,
      UnicastTimesOut, Ends, HandleEvent, CompleteSend, isolate
<1>5. ASSUME NEW e \in Ecu, DisposeStep(e)
      PROVE  rx'[d].at = "off"
  BY <1>0, <1>5 DEF OffInv, DisposeStep, Dispose, JoinAsio, Disposed, Closes
<1>6. ASSUME (\E v \in views : Drop(v)) \/ (\E v \in garbage : Finalize(v))
      PROVE  rx'[d].at = "off"
  BY <1>6 DEF OffInv, Drop, Finalize, isolate
<1>. QED  BY <1>1, <1>2, <1>3, <1>4, <1>5, <1>6 DEF Next, EcuStep

(* The steps that move no buffer. *)
LEMMA OtherOwned ==
  ASSUME Typed, OffInv, Owned, NEW e \in Ecu,
         \/ CreateStep(e) \/ SendStep(e) \/ AsioStep(e) \/ Dispose(e) \/ JoinAsio(e)
         \/ \E result \in {"claimed", "failed"} : Settle(e, result)
         \/ \E k \in 0 .. MaxFaults, assembled \in BOOLEAN : Receive(e, k, assembled)
         \/ \E i \in Id : UnicastAnswered(e, i)
         \/ PostDm1(e) \/ CompleteSend(e)
  PROVE  Owned'
<1> DEFINE Bufs == \A d \in Ecu : rx'[d].buf = rx[d].buf
           Kept == UNCHANGED <<free, live, views, garbage>>
<1>0. /\ rx \in [Ecu -> Doing] /\ \A d \in Ecu : rx[d].at # "filled" => rx[d].buf = NoBuf
      /\ PortTyped /\ Ecu # {}
  BY DEF Typed, RxTyped
<1>1. ASSUME UNCHANGED queue, Bufs, Kept PROVE Owned'
  BY <1>1, Quiet DEF InThread, InPort
<1>2. ASSUME NEW m \in Msg, m.buf = NoBuf, Posts(e, m), Bufs, Kept PROVE Owned'
  BY <1>2, PostsQuiet
<1>3. ASSUME UNCHANGED rx PROVE Bufs
  BY <1>3
<1>4. ASSUME NEW r, r.buf = NoBuf, rx[e].at # "filled", rx' = [rx EXCEPT ![e] = r]
      PROVE  Bufs
  BY <1>0, <1>4
<1> HIDE DEF Bufs
<1>5. CASE CreateStep(e)
  <2>1. Bufs
    BY <1>3, <1>4, <1>5, Rests DEF OffInv, CreateStep, Create, OnMessage, OnClaimResult, SetHandler
  <2>. QED
    BY <1>1, <1>5, <2>1
    DEF CreateStep, Create, OnMessage, OnClaimResult, SetHandler, pool, lists
<1>6. CASE Dispose(e) \/ JoinAsio(e)
  BY <1>1, <1>3, <1>6 DEF Dispose, JoinAsio, pool, lists
<1>7. ASSUME NEW result \in {"claimed", "failed"}, Settle(e, result)
      PROVE  Owned'
  <2>1. ClaimOf(result) \in Msg /\ ClaimOf(result).buf = NoBuf
    BY DEF ClaimOf, Message, Msg, Kinds
  <2>. QED  BY <1>1, <1>2, <1>3, <1>7, <2>1 DEF Settle, pool, lists
<1>8. ASSUME NEW k \in 0 .. MaxFaults, NEW assembled \in BOOLEAN, Receive(e, k, assembled)
      PROVE  Owned'
  <2> DEFINE r == [Idle EXCEPT !.at = IF k > 0 THEN "faults" ELSE "frame",
                               !.n = Len(heard[e]) + 1, !.k = k, !.mutex = assembled]
  <2>1. r.buf = NoBuf /\ rx[e].at # "filled" /\ rx' = [rx EXCEPT ![e] = r]
    BY <1>8 DEF Receive, Idle, Off
  <2> HIDE DEF r
  <2>2. Bufs
    BY <1>4, <2>1
  <2>. QED  BY <1>1, <1>8, <2>2 DEF Receive, pool, lists
<1>9. ASSUME NEW i \in Id, UnicastAnswered(e, i)
      PROVE  Owned'
  <2> DEFINE r == [Idle EXCEPT !.at = "stuck", !.mutex = TRUE]
  <2>1. r.buf = NoBuf /\ rx[e].at # "filled" /\ rx' = [rx EXCEPT ![e] = r]
    BY <1>9 DEF UnicastAnswered, Idle, Off
  <2> HIDE DEF r
  <2>2. Bufs
    BY <1>4, <2>1
  <2>. QED  BY <1>1, <1>9, <2>2 DEF UnicastAnswered, pool, lists
<1>10. CASE PostDm1(e)
  <2>1. FaultOf(rx[e].n, rx[e].i + 1) \in Msg /\ FaultOf(rx[e].n, rx[e].i + 1).buf = NoBuf
    BY <1>0 DEF FaultOf, Message, Msg, Kinds, Doing
  <2>2. \/ rx' = [rx EXCEPT ![e] = [rx[e] EXCEPT !.i = rx[e].i + 1]]
        \/ rx' = [rx EXCEPT ![e] = Idle]
    BY <1>10 DEF PostDm1
  <2>3. rx[e].at # "filled" /\ [rx[e] EXCEPT !.i = rx[e].i + 1].buf = NoBuf
    BY <1>0, <1>10 DEF PostDm1, Doing
  <2>4. Bufs
    BY <1>4, <2>2, <2>3, Rests
  <2>. QED  BY <1>2, <1>10, <2>1, <2>4 DEF PostDm1, pool, lists
<1>11. CASE SendStep(e)
  <2>1. ASSUME NEW i \in Id, NEW result \in Results, SendInline(e, i, result)
        PROVE  Owned'
    <3>1. DoneOf(i, result) \in Msg /\ DoneOf(i, result).buf = NoBuf
      BY BoundAssumption DEF DoneOf, Message, Msg, Kinds, Results
    <3>. QED  BY <1>2, <1>3, <2>1, <3>1 DEF SendInline, Completes, pool, lists
  <2>2. ASSUME NEW i \in Id, NEW kind \in {"broadcast", "endless", "unicast"}, SendLater(e, i, kind)
        PROVE  Owned'
    BY <1>1, <1>3, <2>2 DEF SendLater, pool, lists
  <2>. QED  BY <1>11, <2>1, <2>2 DEF SendStep
<1>12. CASE AsioStep(e)
  <2>1. ASSUME NEW i \in Id, NEW kind, NEW result \in Results, Ends(e, i, kind, result)
        PROVE  Owned'
    <3>1. DoneOf(i, result) \in Msg /\ DoneOf(i, result).buf = NoBuf
      BY BoundAssumption DEF DoneOf, Message, Msg, Kinds, Results
    <3>. QED  BY <1>2, <1>3, <2>1, <3>1 DEF Ends, Completes, pool, lists
  <2>. QED  BY <1>12, <2>1 DEF AsioStep, BroadcastEnds, EndlessFails, UnicastTimesOut, Results
<1>13. CASE CompleteSend(e)
  <2>1. Takes(e, Results) /\ UNCHANGED <<free, live, views, garbage, rx>>
    BY <1>13 DEF CompleteSend, pool, lists
  <2>2. /\ Head(queue[e]).kind \in Results
        /\ 1 \in DOMAIN queue[e] /\ Head(queue[e]) = queue[e][1]
    BY <1>0, <2>1, TakesFact DEF PortTyped
  <2>3. Head(queue[e]).buf = NoBuf
    BY <1>0, <2>2 DEF PortTyped, Results
  <2>. QED  BY <2>1, <2>3, TakesQuiet
<1>. QED
  BY <1>5, <1>6, <1>7, <1>8, <1>9, <1>10, <1>11, <1>12, <1>13

LEMMA NextOwned == Typed /\ OffInv /\ Owned /\ [Next]_vars => Owned'
<1> SUFFICES ASSUME Typed, OffInv, Owned, [Next]_vars PROVE Owned'
  OBVIOUS
<1>1. CASE UNCHANGED vars
  BY <1>1, Quiet DEF vars, isolate, pool, lists, InThread, InPort
<1>2. ASSUME NEW e \in Ecu, EcuStep(e) PROVE Owned'
  BY <1>2, OtherOwned, PostFrameOwned, AcquireOwned, HandleOwned, DisposedOwned
  DEF EcuStep, RxStep, Passes, HandleStep, DisposeStep
<1>. QED  BY <1>1, <1>2, CollectOwned DEF Next

LEMMA OneHolderHolds ==
  ASSUME Typed, Owned, NEW b \in Buffer
  PROVE  /\ \A x, y \in Holders(b) : x = y
         /\ Holders(b) = {} <=> ~Held(b)
<1> USE DEF Owned, OneHolder
<1>0. \A e \in Ecu : DOMAIN queue[e] \subseteq Nat
  BY DEF Typed, PortTyped
<1>1. \A x \in Holders(b) :
        \/ \E e \in Ecu : x = <<"thread", e, 0>> /\ InThread(e, b)
        \/ \E e \in Ecu : \E p \in Nat : x = <<"port", e, p>> /\ InPort(e, p, b)
        \/ \E v \in views : x = <<"list", v, 0>> /\ v.buf = b
        \/ \E v \in garbage : x = <<"garbage", v, 0>> /\ v.buf = b
  BY <1>0 DEF Holders, InThread, InPort
<1>2. \A x, y \in Holders(b) : x = y
  BY <1>1
  DEF Listed, ThreadsApart, PortsApart, ThreadsNotPorts, ListsApart, ListsNotOthers
<1>3. Held(b) => Holders(b) # {}
  <2>1. ASSUME NEW e \in Ecu, InThread(e, b) PROVE <<"thread", e, 0>> \in Holders(b)
    BY <2>1 DEF Holders, InThread
  <2>2. ASSUME NEW e \in Ecu, NEW p \in Nat, InPort(e, p, b) PROVE <<"port", e, p>> \in Holders(b)
    BY <2>2 DEF Holders, InPort
  <2>3. ASSUME NEW v \in Listed, v.buf = b PROVE Holders(b) # {}
    <3>1. v \in views => <<"list", v, 0>> \in Holders(b)
      BY <2>3 DEF Holders
    <3>2. v \in garbage => <<"garbage", v, 0>> \in Holders(b)
      BY <2>3 DEF Holders
    <3>. QED  BY <3>1, <3>2 DEF Listed
  <2>. QED  BY <2>1, <2>2, <2>3 DEF Held
<1>4. Holders(b) # {} => Held(b)
  BY <1>1 DEF Held, Listed
<1>. QED  BY <1>2, <1>3, <1>4

LEMMA AlwaysOwned == Spec => [](Typed /\ OffInv /\ Owned)
<1>1. Init => OffInv
  BY DEF Init, OffInv, Off
<1>. QED  BY <1>1, InitTyped, InitOwned, NextTyped, NextOff, NextOwned, PTL DEF Spec

(* For any number of ECUs, threads and buffers: a receive buffer has one   *)
(* holder or none, and is free or deleted exactly when it has none.        *)
THEOREM NoBufferLost == Spec => []BuffersOwned
<1>1. Typed /\ Owned => BuffersOwned
  BY OneHolderHolds DEF BuffersOwned, Owned, Accounted, Buffer
<1>. QED  BY <1>1, AlwaysOwned, PTL

-----------------------------------------------------------------------------
(* Bytes. *)

(* A filled buffer, a posted one and one in a list hold their message.     *)
ThreadIntact ==
  \A e \in Ecu : rx[e].at = "filled" => content[rx[e].buf] = <<e, rx[e].n>>
PortIntact ==
  \A e \in Ecu : \A p \in DOMAIN queue[e] :
    queue[e][p].kind = "frame" => content[queue[e][p].buf] = <<e, queue[e][p].n>>
ListIntact == \A v \in views : content[v.buf] = <<v.ecu, v.n>>

Intact == ThreadIntact /\ PortIntact /\ ListIntact

LEMMA PortIntactPosts ==
  ASSUME Typed, PortIntact, UNCHANGED content, NEW e \in Ecu, NEW m \in Msg, Posts(e, m),
         m.kind = "frame" => content[m.buf] = <<e, m.n>>
  PROVE  PortIntact'
<1>1. ASSUME NEW p \in DOMAIN queue'[e], queue'[e][p].kind = "frame"
      PROVE  content[queue'[e][p].buf] = <<e, queue'[e][p].n>>
  <2>1. queue[e] \in Seq(Msg) /\ queue'[e] \in Seq(Msg)
    BY PostsFact DEF Typed, PortTyped
  <2>2. \/ p \in DOMAIN queue[e] /\ queue'[e][p] = queue[e][p]
        \/ queue'[e][p] = m
    BY <2>1, PostsFact DEF Typed, PortTyped
  <2>. QED  BY <1>1, <2>2 DEF PortIntact
<1>2. \A d \in Ecu \ {e} : queue'[d] = queue[d]
  BY PostsFact DEF Typed, PortTyped
<1>3. ASSUME NEW d \in Ecu, NEW p \in DOMAIN queue'[d], queue'[d][p].kind = "frame"
      PROVE  content'[queue'[d][p].buf] = <<d, queue'[d][p].n>>
  <2>1. CASE d = e
    BY <1>1, <1>3, <2>1
  <2>2. CASE d # e
    BY <1>2, <1>3, <2>2 DEF PortIntact
  <2>. QED  BY <2>1, <2>2
<1>. QED  BY <1>3 DEF PortIntact

LEMMA PortIntactTakes ==
  ASSUME Typed, PortIntact, UNCHANGED content, NEW e \in Ecu, NEW kinds, Takes(e, kinds)
  PROVE  /\ PortIntact'
         /\ Head(queue[e]).kind = "frame"
              => content[Head(queue[e]).buf] = <<e, Head(queue[e]).n>>
<1>1. queue[e] \in Seq(Msg) /\ queue'[e] \in Seq(Msg)
  BY TakesFact DEF Typed, PortTyped
<1>2. ASSUME NEW p \in DOMAIN queue'[e]
      PROVE  p + 1 \in DOMAIN queue[e] /\ queue'[e][p] = queue[e][p + 1]
  BY <1>1, TakesFact DEF Typed, PortTyped
<1>3. 1 \in DOMAIN queue[e] /\ Head(queue[e]) = queue[e][1]
  BY <1>1, TakesFact DEF Typed, PortTyped
<1>4. \A d \in Ecu \ {e} : queue'[d] = queue[d]
  BY TakesFact DEF Typed, PortTyped
<1>. QED  BY <1>2, <1>3, <1>4 DEF PortIntact

(* Only a buffer that nobody holds is written. *)
LEMMA FillsIntact ==
  ASSUME Typed, Intact, NEW e \in Ecu, NEW b \in Buffer, Fills(e, b), ~Held(b)
  PROVE  Intact'
<1>1. /\ rx \in [Ecu -> Doing] /\ content \in [Buffer -> {<<>>} \cup (Ecu \X Nat)]
      /\ rx' = [rx EXCEPT ![e] = [rx[e] EXCEPT !.at = "filled", !.buf = b]]
      /\ content' = [content EXCEPT ![b] = <<e, rx[e].n>>]
      /\ UNCHANGED <<queue, views>>
  BY DEF Fills, Typed, RxTyped, PoolTyped, Doing, lists
<1>2. /\ rx'[e].buf = b /\ rx'[e].n = rx[e].n
      /\ \A d \in Ecu \ {e} : rx'[d] = rx[d]
  BY <1>1 DEF Doing
<1>3. /\ \A d \in Ecu : rx[d].buf # b
      /\ \A d \in Ecu : \A p \in DOMAIN queue[d] : queue[d][p].buf # b
      /\ \A v \in views : v.buf # b
  BY DEF Held, InThread, InPort, Listed, Typed, PortTyped
<1>4. \A c \in Buffer \ {b} : content'[c] = content[c]
  BY <1>1
<1>5. /\ \A d \in Ecu : rx[d].at = "filled" => rx[d].buf \in Buffer
      /\ \A d \in Ecu : \A p \in DOMAIN queue[d] : queue[d][p].kind = "frame" => queue[d][p].buf \in Buffer
      /\ \A v \in views : v.buf \in Buffer
  <2>1. \A d \in Ecu : rx[d].at = "filled" => rx[d].buf \in Buffer
    BY DEF Typed, RxTyped, Doing
  <2>2. ASSUME NEW d \in Ecu, NEW p \in DOMAIN queue[d], queue[d][p].kind = "frame"
        PROVE  queue[d][p].buf \in Buffer
    <3>1. queue[d][p] \in Msg /\ queue[d][p].buf # NoBuf
      BY <2>2 DEF Typed, PortTyped
    <3>. QED  BY <3>1 DEF Msg
  <2>3. \A v \in views : v.buf \in Buffer
    BY DEF Typed, ListsTyped
  <2>. QED  BY <2>1, <2>2, <2>3
<1>6. ThreadIntact'
  BY <1>1, <1>2, <1>3, <1>4, <1>5 DEF Intact, ThreadIntact
<1>7. PortIntact'
  BY <1>1, <1>3, <1>4, <1>5 DEF Intact, PortIntact
<1>8. ListIntact'
  BY <1>1, <1>3, <1>4, <1>5 DEF Intact, ListIntact
<1>. QED  BY <1>6, <1>7, <1>8 DEF Intact

LEMMA RxIntact ==
  ASSUME Typed, Intact, NEW e \in Ecu, RxStep(e), Owned
  PROVE  Intact'
<1>0. rx \in [Ecu -> Doing] /\ rx[e].n \in Nat /\ rx[e].i \in Nat /\ rx[e].buf \in Buffer \cup {NoBuf}
  BY DEF Typed, RxTyped, Doing
<1>a. ASSUME NEW r, r.at # "filled", rx' = [rx EXCEPT ![e] = r], UNCHANGED content
      PROVE  ThreadIntact'
  BY <1>0, <1>a DEF Intact, ThreadIntact
<1>b. ASSUME UNCHANGED <<content, views>> PROVE ListIntact'
  BY <1>b DEF Intact, ListIntact
<1>c. ASSUME UNCHANGED <<content, queue>> PROVE PortIntact'
  BY <1>c DEF Intact, PortIntact
<1>d. ASSUME UNCHANGED <<content, rx>> PROVE ThreadIntact'
  BY <1>d DEF Intact, ThreadIntact
<1>1. ASSUME NEW result \in {"claimed", "failed"}, Settle(e, result)
      PROVE  Intact'
  <2>1. ClaimOf(result) \in Msg /\ ClaimOf(result).kind # "frame"
    BY DEF ClaimOf, Message, Msg, Kinds
  <2>. QED  BY <1>1, <1>b, <1>c, <1>d, <2>1, PortIntactPosts DEF Settle, Intact, pool, lists
<1>2. ASSUME NEW k \in 0 .. MaxFaults, NEW assembled \in BOOLEAN, Receive(e, k, assembled)
      PROVE  Intact'
  <2> DEFINE r == [Idle EXCEPT !.at = IF k > 0 THEN "faults" ELSE "frame",
                               !.n = Len(heard[e]) + 1, !.k = k, !.mutex = assembled]
  <2>1. r.at # "filled" /\ rx' = [rx EXCEPT ![e] = r]
    BY <1>2 DEF Receive, Idle, Off
  <2> HIDE DEF r
  <2>. QED  BY <1>2, <1>a, <1>b, <1>c, <2>1 DEF Receive, Intact, pool, lists
<1>3. ASSUME NEW i \in Id, UnicastAnswered(e, i)
      PROVE  Intact'
  <2> DEFINE r == [Idle EXCEPT !.at = "stuck", !.mutex = TRUE]
  <2>1. r.at # "filled" /\ rx' = [rx EXCEPT ![e] = r]
    BY <1>3 DEF UnicastAnswered, Idle, Off
  <2> HIDE DEF r
  <2>. QED  BY <1>3, <1>a, <1>b, <1>c, <2>1 DEF UnicastAnswered, Intact, pool, lists
<1>4. CASE PostDm1(e)
  <2>1. FaultOf(rx[e].n, rx[e].i + 1) \in Msg /\ FaultOf(rx[e].n, rx[e].i + 1).kind = "fault"
    BY <1>0, NoBufAssumption DEF FaultOf, Message, Msg, Kinds
  <2>2. PortIntact'
    BY <1>4, <2>1, PortIntactPosts DEF PostDm1, Intact, pool
  <2>3. \/ rx' = [rx EXCEPT ![e] = [rx[e] EXCEPT !.i = rx[e].i + 1]]
        \/ rx' = [rx EXCEPT ![e] = Idle]
    BY <1>4 DEF PostDm1
  <2>4. [rx[e] EXCEPT !.i = rx[e].i + 1].at # "filled"
    BY <1>0, <1>4 DEF PostDm1, Doing
  <2>5. content' = content /\ views' = views
    BY <1>4 DEF PostDm1, pool, lists
  <2>6. ThreadIntact'
    BY <1>a, <2>3, <2>4, <2>5, Rests
  <2>. QED  BY <1>b, <2>2, <2>5, <2>6 DEF Intact
<1>5. CASE PostFrame(e)
  <2> DEFINE m == FrameOf(rx[e].n, rx[e].buf)
  <2>1. m \in Msg /\ m.buf = rx[e].buf /\ m.n = rx[e].n
    BY <1>0 DEF FrameOf, Message, Msg, Kinds
  <2>2. content[rx[e].buf] = <<e, rx[e].n>>
    BY <1>5 DEF PostFrame, Intact, ThreadIntact
  <2>3. PortIntact'
    BY <1>5, <2>1, <2>2, PortIntactPosts DEF PostFrame, Intact, pool
  <2>. QED  BY <1>5, <1>a, <1>b, <2>3, Rests DEF PostFrame, Intact, pool, lists
<1>6. CASE AcquireFromPool(e)
  <2> DEFINE b == free[Len(free)]
  <2>1. free \in Seq(Pool) /\ free # <<>> /\ Fills(e, b)
    BY <1>6 DEF AcquireFromPool, Typed, PoolTyped
  <2>2. b \in Range(free)
    BY <2>1, PopFact DEF Owned, Accounted
  <2>3. b \in Pool /\ b \in Buffer
    BY <2>1, <2>2 DEF Range, Buffer
  <2>4. ~Held(b)
    BY <2>2, <2>3 DEF Owned, Accounted
  <2>. QED  BY <2>1, <2>3, <2>4, FillsIntact
<1>7. ASSUME NEW b \in Heap, AcquireFromHeap(e, b)
      PROVE  Intact'
  <2>1. b \in Buffer /\ ~Held(b) /\ Fills(e, b)
    BY <1>7 DEF AcquireFromHeap, Buffer, Owned, Accounted
  <2>. QED  BY <2>1, FillsIntact
<1>. QED
  BY <1>1, <1>2, <1>3, <1>4, <1>5, <1>6, <1>7 DEF RxStep, Passes

LEMMA NextIntact == Typed /\ Owned /\ Intact /\ [Next]_vars => Intact'
<1> SUFFICES ASSUME Typed, Owned, Intact, [Next]_vars PROVE Intact'
  OBVIOUS
<1>0. rx \in [Ecu -> Doing] /\ queue \in [Ecu -> Seq(Msg)]
  BY DEF Typed, RxTyped, PortTyped
<1>1. ASSUME UNCHANGED <<rx, queue, content>>, views' \subseteq views
      PROVE  Intact'
  BY <1>1 DEF Intact, ThreadIntact, PortIntact, ListIntact
<1>2. ASSUME UNCHANGED vars PROVE Intact'
  BY <1>1, <1>2 DEF vars, pool, lists
<1>3. ASSUME NEW e \in Ecu, CreateStep(e) PROVE Intact'
  <2>1. UNCHANGED <<queue, content, views>>
    BY <1>3 DEF CreateStep, Create, OnMessage, OnClaimResult, SetHandler, pool, lists
  <2>2. ThreadIntact'
    BY <1>0, <1>3, <2>1, Rests
    DEF Intact, ThreadIntact, CreateStep, Create, OnMessage, OnClaimResult, SetHandler
  <2>. QED  BY <2>1, <2>2 DEF Intact, PortIntact, ListIntact
<1>4. ASSUME NEW e \in Ecu, SendStep(e) \/ AsioStep(e) PROVE Intact'
  <2>1. UNCHANGED <<rx, content, views>>
    BY <1>4
    DEF SendStep, AsioStep, SendInline, SendLater, BroadcastEnds, EndlessFails, UnicastTimesOut, Ends, pool,
        lists
  <2>2. \/ UNCHANGED queue
        \/ \E i \in Id, result \in Results : Posts(e, DoneOf(i, result))
    BY <1>4
    DEF SendStep, AsioStep, SendInline, SendLater, BroadcastEnds, EndlessFails, UnicastTimesOut, Ends,
        Completes, Results
  <2>3. \A i \in Id, result \in Results :
          DoneOf(i, result) \in Msg /\ DoneOf(i, result).kind # "frame"
    BY BoundAssumption DEF DoneOf, Message, Msg, Kinds, Results
  <2>4. PortIntact'
    <3>1. CASE UNCHANGED queue
      BY <2>1, <3>1 DEF Intact, PortIntact
    <3>2. CASE \E i \in Id, result \in Results : Posts(e, DoneOf(i, result))
      BY <2>1, <2>3, <3>2, PortIntactPosts DEF Intact
    <3>. QED  BY <2>2, <3>1, <3>2
  <2>. QED  BY <2>1, <2>4 DEF Intact, ThreadIntact, ListIntact
<1>5. ASSUME NEW e \in Ecu, HandleEvent(e) PROVE Intact'
  <2>1. /\ UNCHANGED <<rx, content>> /\ Takes(e, Kinds \ Results)
        /\ views' = views \cup Lists(e, {Head(queue[e])})
    BY <1>5 DEF HandleEvent, pool
  <2>2. PortIntact' /\ \A v \in Lists(e, {Head(queue[e])}) : content[v.buf] = <<v.ecu, v.n>>
    BY <2>1, PortIntactTakes DEF Intact, Lists
  <2>. QED  BY <2>1, <2>2 DEF Intact, ThreadIntact, ListIntact
<1>6. ASSUME NEW e \in Ecu, CompleteSend(e) PROVE Intact'
  <2>1. UNCHANGED <<rx, content, views>> /\ Takes(e, Results)
    BY <1>6 DEF CompleteSend, pool, lists
  <2>2. PortIntact'
    BY <2>1, PortIntactTakes DEF Intact
  <2>. QED  BY <2>1, <2>2 DEF Intact, ThreadIntact, ListIntact
<1>7. ASSUME NEW e \in Ecu, Dispose(e) \/ JoinAsio(e) PROVE Intact'
  BY <1>1, <1>7 DEF Dispose, JoinAsio, pool, lists
<1>8. ASSUME NEW e \in Ecu, Disposed(e) PROVE Intact'
  <2>1. /\ rx' = [rx EXCEPT ![e] = Off] /\ queue' = [queue EXCEPT ![e] = <<>>]
        /\ UNCHANGED <<content, views>>
    BY <1>8 DEF Disposed, Closes, pool
  <2>2. ThreadIntact' /\ PortIntact'
    <3>1. \A d \in Ecu : /\ d # e => rx'[d] = rx[d] /\ queue'[d] = queue[d]
                         /\ d = e => rx'[d] = Off /\ queue'[d] = <<>>
      BY <1>0, <2>1
    <3>2. ThreadIntact'
      BY <2>1, <3>1, Rests DEF Intact, ThreadIntact
    <3>3. PortIntact'
      <4> SUFFICES ASSUME NEW d \in Ecu, NEW p \in DOMAIN queue'[d], queue'[d][p].kind = "frame"
                   PROVE  content'[queue'[d][p].buf] = <<d, queue'[d][p].n>>
        BY DEF PortIntact
      <4>1. d # e
        BY <3>1
      <4>. QED  BY <2>1, <3>1, <4>1 DEF Intact, PortIntact
    <3>. QED  BY <3>2, <3>3
  <2>. QED  BY <2>1, <2>2 DEF Intact, ListIntact
<1>9. ASSUME (\E v \in views : Drop(v)) \/ (\E v \in garbage : Finalize(v)) PROVE Intact'
  BY <1>1, <1>9 DEF Drop, Finalize, pool
<1>. QED
  BY <1>2, <1>3, <1>4, <1>5, <1>6, <1>7, <1>8, <1>9, RxIntact
  DEF Next, EcuStep, HandleStep, DisposeStep

(* For any number of ECUs and buffers: a list that Dart holds, or will be  *)
(* given, keeps the bytes of its message for as long as it is reachable.   *)
THEOREM ListsKeepBytes == Spec => []ViewsIntact
<1>1. Init => Intact
  BY DEF Init, Intact, ThreadIntact, PortIntact, ListIntact, Off
<1>2. Typed /\ Intact => ViewsIntact
  <2> SUFFICES ASSUME Typed, Intact, NEW e \in Ecu, NEW v \in Unread(e)
               PROVE  content[v.buf] = <<e, v.n>>
    BY DEF ViewsIntact, Intact, ListIntact
  <2>1. PICK p \in DOMAIN queue[e] :
          /\ queue[e][p].kind = "frame"
          /\ v = [ecu |-> e, n |-> queue[e][p].n, buf |-> queue[e][p].buf]
    BY DEF Unread, Lists, Range
  <2>. QED  BY <2>1 DEF Intact, PortIntact
<1>. QED  BY <1>1, <1>2, AlwaysOwned, NextIntact, PTL DEF Spec

-----------------------------------------------------------------------------
(* Sends. *)

(* The p-th message in e's port says how send i ended.                     *)
Says(e, p, i) ==
  p \in DOMAIN queue[e] /\ queue[e][p].kind \in Results /\ queue[e][p].n = i

(* What the isolate knows of a send: it is pending from its call until its *)
(* future was told, and dispose() leaves none.                             *)
Books(e) ==
  /\ \A i \in Id : i \in pending[e] <=> i < nextId[e] /\ told[e][i] = <<>>
  /\ \A i \in Id : i >= nextId[e] => told[e][i] = <<>>
  /\ \A i \in Id :
       told[e][i] \in {<<>>, <<"disposed">>} \/ told[e][i] = <<outcome[e][i]>>
  /\ \A i \in Id : told[e][i] = <<"disposed">> => phase[e] = "disposed"
  /\ phase[e] = "disposed" => pending[e] = {}

(* A send that has not ended natively is pending, and of one kind.         *)
Flying(e) ==
  /\ \A s \in flight[e] : s.id \in pending[e]
  /\ \A s, t \in flight[e] : s.id = t.id => s = t

(* A message that says how a send ended says it of one that is pending and *)
(* has ended so, and no other says it.                                     *)
Posted(e) ==
  /\ \A i, p \in Nat : Says(e, p, i) =>
       i \in pending[e] /\ ~InFlight(e, i) /\ queue[e][p].kind = outcome[e][i]
  /\ \A i, p, q \in Nat : Says(e, p, i) /\ Says(e, q, i) => p = q

(* Somebody owes a pending send its end, or has locked itself out.         *)
Owed(e) ==
  \A i \in pending[e] :
    InFlight(e, i) \/ rx[e].at = "stuck" \/ \E p \in Nat : Says(e, p, i)

Accounts(e) == Books(e) /\ Flying(e) /\ Posted(e) /\ Owed(e)

LEMMA SaysPosts ==
  ASSUME Typed, NEW e \in Ecu, NEW m \in Msg, Posts(e, m)
  PROVE  /\ \A i, p \in Nat :
              Says(e, p, i)' <=> \/ Says(e, p, i)
                                 \/ p = Len(queue[e]) + 1 /\ m.kind \in Results /\ m.n = i
         /\ \A p \in DOMAIN queue[e] : queue'[e][p] = queue[e][p]
         /\ queue'[e][Len(queue[e]) + 1] = m /\ Len(queue[e]) + 1 \notin DOMAIN queue[e]
<1>1. queue[e] \in Seq(Msg) /\ queue'[e] \in Seq(Msg)
  BY PostsFact DEF Typed, PortTyped
<1>2. /\ Len(queue'[e]) = Len(queue[e]) + 1
      /\ \A p \in 1 .. Len(queue[e]) : queue'[e][p] = queue[e][p]
      /\ queue'[e][Len(queue[e]) + 1] = m
  BY PostsFact DEF Typed, PortTyped
<1>3. /\ DOMAIN queue[e] = 1 .. Len(queue[e]) /\ DOMAIN queue'[e] = 1 .. Len(queue[e]) + 1
      /\ Len(queue[e]) \in Nat
  BY <1>1, <1>2
<1>4. ASSUME NEW i \in Nat, NEW p \in Nat
      PROVE  Says(e, p, i)' <=> \/ Says(e, p, i)
                                \/ p = Len(queue[e]) + 1 /\ m.kind \in Results /\ m.n = i
  BY <1>2, <1>3 DEF Says
<1>. QED  BY <1>2, <1>3, <1>4

LEMMA SaysTakes ==
  ASSUME Typed, NEW e \in Ecu, NEW kinds, Takes(e, kinds)
  PROVE  /\ \A i, p \in Nat :
              Says(e, p, i)' <=> p > 0 /\ Says(e, p + 1, i) /\ queue'[e][p] = queue[e][p + 1]
         /\ 1 \in DOMAIN queue[e] /\ Head(queue[e]) = queue[e][1]
         /\ queue[e][1] \in Msg /\ queue[e][1].kind \in kinds
<1>1. queue[e] \in Seq(Msg) /\ queue'[e] \in Seq(Msg)
  BY TakesFact DEF Typed, PortTyped
<1>2. /\ Len(queue[e]) \in Nat \ {0} /\ Len(queue'[e]) = Len(queue[e]) - 1
      /\ \A p \in 1 .. Len(queue[e]) - 1 : queue'[e][p] = queue[e][p + 1]
      /\ Head(queue[e]) = queue[e][1] /\ Head(queue[e]) \in Msg
      /\ Head(queue[e]).kind \in kinds
  BY TakesFact DEF Typed, PortTyped
<1>. QED  BY <1>1, <1>2 DEF Says

(* A port that is left alone, or grows or shrinks by a message that says   *)
(* nothing of a send.                                                      *)
LEMMA RestPorts ==
  ASSUME Typed, NEW d \in Ecu, Posted(d),
         UNCHANGED <<pending[d], outcome[d], flight[d]>>,
         \/ UNCHANGED queue[d]
         \/ \E m \in Msg : m.kind \notin Results /\ Posts(d, m)
         \/ Takes(d, Kinds \ Results)
  PROVE  /\ Posted(d)'
         /\ \A i, p \in Nat : Says(d, p, i) => \E q \in Nat : Says(d, q, i)'
<1>0. \A i : InFlight(d, i)' <=> InFlight(d, i)
  BY DEF InFlight
<1>1. CASE UNCHANGED queue[d]
  <2>1. \A i, p : Says(d, p, i)' <=> Says(d, p, i)
    BY <1>1 DEF Says
  <2>. QED  BY <1>0, <1>1, <2>1 DEF Posted
<1>2. ASSUME NEW m \in Msg, m.kind \notin Results, Posts(d, m)
      PROVE  /\ Posted(d)'
             /\ \A i, p \in Nat : Says(d, p, i) => \E q \in Nat : Says(d, q, i)'
  <2>1. \A i, p \in Nat : Says(d, p, i)' <=> Says(d, p, i)
    BY <1>2, SaysPosts
  <2>2. \A i, p \in Nat : Says(d, p, i) => queue'[d][p] = queue[d][p]
    BY <1>2, SaysPosts DEF Says
  <2>. QED  BY <1>0, <2>1, <2>2 DEF Posted
<1>3. CASE Takes(d, Kinds \ Results)
  <2>1. /\ \A i, p \in Nat :
             Says(d, p, i)' <=> p > 0 /\ Says(d, p + 1, i) /\ queue'[d][p] = queue[d][p + 1]
        /\ queue[d][1].kind \notin Results
    BY <1>3, SaysTakes
  <2>2. \A i, p \in Nat : Says(d, p, i) => p > 1
    BY <2>1 DEF Says, Typed, PortTyped
  <2>3. ASSUME NEW i \in Nat, NEW p \in Nat, Says(d, p, i)
        PROVE  p - 1 \in Nat /\ Says(d, p - 1, i)'
    <3>1. p - 1 \in Nat /\ p - 1 > 0 /\ (p - 1) + 1 = p
      BY <2>2, <2>3
    <3>2. queue'[d][p - 1] = queue[d][p]
      <4>1. /\ Len(queue[d]) \in Nat \ {0}
            /\ \A q \in 1 .. Len(queue[d]) - 1 : queue'[d][q] = queue[d][q + 1]
        BY <1>3, TakesFact DEF Typed, PortTyped
      <4>2. p \in 1 .. Len(queue[d])
        BY <2>3 DEF Says, Typed, PortTyped
      <4>. QED  BY <3>1, <4>1, <4>2
    <3>. QED  BY <2>1, <2>3, <3>1, <3>2
  <2>4. Posted(d)'
    <3>1. ASSUME NEW i \in Nat, NEW p \in Nat, Says(d, p, i)'
          PROVE  i \in pending'[d] /\ ~InFlight(d, i)' /\ queue'[d][p].kind = outcome'[d][i]
      BY <1>0, <2>1, <3>1 DEF Posted
    <3>2. ASSUME NEW i \in Nat, NEW p \in Nat, NEW q \in Nat, Says(d, p, i)', Says(d, q, i)'
          PROVE  p = q
      <4>1. Says(d, p + 1, i) /\ Says(d, q + 1, i) /\ p + 1 \in Nat /\ q + 1 \in Nat
        BY <2>1, <3>2
      <4>2. p + 1 = q + 1
        BY <4>1 DEF Posted
      <4>. QED  BY <4>2
    <3>. QED  BY <3>1, <3>2 DEF Posted
  <2>. QED  BY <2>3, <2>4
<1>. QED  BY <1>1, <1>2, <1>3

(* A step that leaves the sends of d alone.                                *)
LEMMA RestAccounts ==
  ASSUME Typed, NEW d \in Ecu, Accounts(d),
         UNCHANGED <<pending[d], nextId[d], told[d], outcome[d], flight[d]>>,
         phase'[d] = "disposed" <=> phase[d] = "disposed",
         rx[d].at = "stuck" => rx'[d].at = "stuck",
         \/ UNCHANGED queue[d]
         \/ \E m \in Msg : m.kind \notin Results /\ Posts(d, m)
         \/ Takes(d, Kinds \ Results)
  PROVE  Accounts(d)'
<1>0. pending[d] \subseteq Nat
  BY BoundAssumption DEF Typed, IsolateTyped
<1>1. /\ Posted(d)'
      /\ \A i, p \in Nat : Says(d, p, i) => \E q \in Nat : Says(d, q, i)'
  BY RestPorts DEF Accounts
<1>2. Books(d)'
  BY DEF Accounts, Books
<1>3. Flying(d)'
  BY DEF Accounts, Flying
<1>4. Owed(d)'
  <2>1. \A i : InFlight(d, i)' <=> InFlight(d, i)
    BY DEF InFlight
  <2>. QED  BY <1>0, <1>1, <2>1 DEF Accounts, Owed
<1>. QED  BY <1>1, <1>2, <1>3, <1>4 DEF Accounts

(* A send that is called is not pending, and nothing is said of it yet.    *)
LEMMA CalledFact ==
  ASSUME Typed, NEW e \in Ecu, Accounts(e), NEW i \in Id, Called(e, i), UNCHANGED <<phase, told>>,
         outcome' = outcome \/ \E result : outcome' = [outcome EXCEPT ![e][i] = result]
  PROVE  /\ i \in Nat /\ i \notin pending[e] /\ ~InFlight(e, i)
         /\ \A p \in Nat : ~Says(e, p, i)
         /\ pending'[e] = pending[e] \cup {i}
         /\ \A j \in Id : j # i => outcome'[e][j] = outcome[e][j]
         /\ Books(e)'
<1>1. /\ i \in Nat /\ i = nextId[e] /\ nextId'[e] = i + 1
      /\ pending'[e] = pending[e] \cup {i} /\ phase[e] = "open" /\ nextId[e] \in Nat
  BY BoundAssumption DEF Typed, IsolateTyped, Called, Open
<1>2. i \notin pending[e] /\ told[e][i] = <<>>
  BY <1>1 DEF Accounts, Books
<1>3. ~InFlight(e, i) /\ \A p \in Nat : ~Says(e, p, i)
  BY <1>1, <1>2 DEF Accounts, Flying, Posted, InFlight
<1>4. \A j \in Id : j # i => outcome'[e][j] = outcome[e][j]
  BY DEF Typed, NativeTyped
<1>5. Books(e)'
  <2>1. ASSUME NEW j \in Id
        PROVE  /\ j \in pending'[e] <=> (j < nextId'[e] /\ told'[e][j] = <<>>)
               /\ j >= nextId'[e] => told'[e][j] = <<>>
    <3>1. j \in Nat
      BY BoundAssumption
    <3>2. j < i + 1 <=> (j < i \/ j = i)
      BY <1>1, <3>1
    <3>3. j >= i + 1 => j >= i
      BY <1>1, <3>1
    <3>. QED  BY <1>1, <1>2, <3>2, <3>3 DEF Accounts, Books
  <2>2. ASSUME NEW j \in Id
        PROVE  told'[e][j] \in {<<>>, <<"disposed">>} \/ told'[e][j] = <<outcome'[e][j]>>
    BY <1>2, <1>4 DEF Accounts, Books
  <2>3. \A j \in Id : told'[e][j] = <<"disposed">> => phase'[e] = "disposed"
    BY DEF Accounts, Books
  <2>4. phase'[e] # "disposed"
    BY <1>1
  <2>. QED  BY <2>1, <2>2, <2>3, <2>4 DEF Books
<1>. QED  BY <1>1, <1>2, <1>3, <1>4, <1>5

(* The end of a send that is pending, or becomes so, is put into the port. *)
LEMMA CompletesFact ==
  ASSUME Typed, NEW e \in Ecu, Accounts(e), NEW i \in Id, NEW result \in Results,
         Completes(e, i, result),
         pending'[e] = pending[e] \/ pending'[e] = pending[e] \cup {i}, i \in pending'[e],
         \A s \in flight'[e] : s \in flight[e] /\ s.id # i,
         \A s \in flight[e] : s.id # i => s \in flight'[e],
         \A p \in Nat : ~Says(e, p, i),
         rx' = rx
  PROVE  Posted(e)' /\ Flying(e)' /\ Owed(e)'
<1> DEFINE m == DoneOf(i, result)
<1>0. i \in Nat /\ pending'[e] \subseteq Nat /\ pending[e] \subseteq Nat
  BY BoundAssumption DEF Typed, IsolateTyped
<1>1. m \in Msg /\ m.kind = result /\ m.n = i
  BY <1>0 DEF DoneOf, Message, Msg, Kinds
<1>2. Posts(e, m) /\ outcome' = [outcome EXCEPT ![e][i] = result]
  BY DEF Completes
<1>3. outcome'[e][i] = result /\ \A j \in Id : j # i => outcome'[e][j] = outcome[e][j]
  BY <1>2 DEF Typed, NativeTyped
<1>4. PICK l : l = Len(queue[e]) + 1
  OBVIOUS
<1>5. l \in Nat
  BY <1>4 DEF Typed, PortTyped
<1>6. /\ \A j, p \in Nat : Says(e, p, j)' <=> Says(e, p, j) \/ (p = l /\ j = i)
      /\ \A p \in DOMAIN queue[e] : queue'[e][p] = queue[e][p]
      /\ queue'[e][l] = m /\ l \notin DOMAIN queue[e]
  <2> HIDE DEF m
  <2>. QED  BY <1>1, <1>2, <1>4, SaysPosts
<1> HIDE DEF m
<1>7. /\ ~InFlight(e, i)'
      /\ \A j : j # i => (InFlight(e, j)' <=> InFlight(e, j))
  BY DEF InFlight
<1>8. Posted(e)'
  <2>1. ASSUME NEW j \in Nat, NEW p \in Nat, Says(e, p, j)'
        PROVE  j \in pending'[e] /\ ~InFlight(e, j)' /\ queue'[e][p].kind = outcome'[e][j]
    <3>1. CASE Says(e, p, j)
      <4>1. j # i /\ p \in DOMAIN queue[e]
        BY <3>1 DEF Says
      <4>2. j \in pending[e] /\ ~InFlight(e, j) /\ queue[e][p].kind = outcome[e][j]
        BY <3>1 DEF Accounts, Posted
      <4>3. j \in Id
        BY <4>2 DEF Typed, IsolateTyped
      <4>. QED  BY <1>3, <1>6, <1>7, <4>1, <4>2, <4>3
    <3>2. CASE p = l /\ j = i
      BY <1>1, <1>3, <1>6, <1>7, <3>2
    <3>. QED  BY <1>6, <2>1, <3>1, <3>2
  <2>2. ASSUME NEW j \in Nat, NEW p \in Nat, NEW q \in Nat, Says(e, p, j)', Says(e, q, j)'
        PROVE  p = q
    <3>1. Says(e, p, j) \/ (p = l /\ j = i)
      BY <1>6, <2>2
    <3>2. Says(e, q, j) \/ (q = l /\ j = i)
      BY <1>6, <2>2
    <3>. QED  BY <3>1, <3>2 DEF Accounts, Posted
  <2>. QED  BY <2>1, <2>2 DEF Posted
<1>9. Flying(e)'
  BY DEF Accounts, Flying
<1>10. Owed(e)'
  <2> SUFFICES ASSUME NEW j \in pending'[e]
               PROVE  (InFlight(e, j) \/ rx[e].at = "stuck" \/ \E p \in Nat : Says(e, p, j))'
    BY DEF Owed
  <2>1. CASE j = i
    BY <1>0, <1>5, <1>6, <2>1
  <2>2. CASE j # i
    <3>1. j \in pending[e] /\ j \in Nat
      BY <1>0, <2>2
    <3>2. InFlight(e, j) \/ rx[e].at = "stuck" \/ \E p \in Nat : Says(e, p, j)
      BY <3>1 DEF Accounts, Owed
    <3>. QED  BY <1>6, <1>7, <2>2, <3>1, <3>2
  <2>. QED  BY <2>1, <2>2
<1>. QED  BY <1>8, <1>9, <1>10

LEMMA SendAccounts ==
  ASSUME Typed, NEW e \in Ecu, Accounts(e), SendStep(e)
  PROVE  Accounts(e)'
<1>1. ASSUME NEW i \in Id, NEW result \in Results, SendInline(e, i, result)
      PROVE  Accounts(e)'
  <2>1. /\ Called(e, i) /\ Completes(e, i, result) /\ UNCHANGED <<phase, told, rx, flight>>
        /\ outcome' = [outcome EXCEPT ![e][i] = result]
    BY <1>1 DEF SendInline, Completes
  <2>2. /\ i \notin pending[e] /\ ~InFlight(e, i) /\ \A p \in Nat : ~Says(e, p, i)
        /\ pending'[e] = pending[e] \cup {i} /\ Books(e)'
    BY <2>1, CalledFact
  <2>3. \A s \in flight[e] : s.id # i
    BY <2>2 DEF InFlight
  <2>4. Posted(e)' /\ Flying(e)' /\ Owed(e)'
    BY <2>1, <2>2, <2>3, CompletesFact
  <2>. QED  BY <2>2, <2>4 DEF Accounts
<1>2. ASSUME NEW i \in Id, NEW kind \in {"broadcast", "endless", "unicast"}, SendLater(e, i, kind)
      PROVE  Accounts(e)'
  <2>1. /\ Called(e, i) /\ UNCHANGED <<phase, told, rx, outcome, queue>>
        /\ flight'[e] = flight[e] \cup {[id |-> i, kind |-> kind]}
    BY <1>2 DEF SendLater, Typed, NativeTyped
  <2>2. /\ i \notin pending[e] /\ ~InFlight(e, i) /\ \A p \in Nat : ~Says(e, p, i)
        /\ pending'[e] = pending[e] \cup {i} /\ Books(e)'
    BY <2>1, CalledFact
  <2>3. /\ InFlight(e, i)'
        /\ \A j : j # i => (InFlight(e, j)' <=> InFlight(e, j))
        /\ \A s \in flight'[e] : s.id = i => s = [id |-> i, kind |-> kind]
    <3>1. PICK r : r = [id |-> i, kind |-> kind]
      OBVIOUS
    <3>2. r.id = i /\ flight'[e] = flight[e] \cup {r}
      BY <2>1, <3>1
    <3>. QED  BY <2>2, <3>1, <3>2 DEF InFlight
  <2>4. \A j, p : Says(e, p, j)' <=> Says(e, p, j)
    BY <2>1 DEF Says
  <2>5. Posted(e)'
    BY <2>1, <2>2, <2>3, <2>4 DEF Accounts, Posted
  <2>6. Flying(e)'
    BY <2>1, <2>2, <2>3 DEF Accounts, Flying
  <2>7. Owed(e)'
    BY <2>1, <2>2, <2>3, <2>4 DEF Accounts, Owed
  <2>. QED  BY <2>2, <2>5, <2>6, <2>7 DEF Accounts
<1>. QED  BY <1>1, <1>2 DEF SendStep

LEMMA AsioAccounts ==
  ASSUME Typed, NEW e \in Ecu, Accounts(e), AsioStep(e)
  PROVE  Accounts(e)'
<1>1. PICK i \in Id, kind \in {"broadcast", "endless", "unicast"}, result \in Results : Ends(e, i, kind, result)
  BY DEF AsioStep, BroadcastEnds, EndlessFails, UnicastTimesOut, Results
<1>2. /\ AsioRuns(e) /\ [id |-> i, kind |-> kind] \in flight[e]
      /\ flight'[e] = flight[e] \ {[id |-> i, kind |-> kind]}
      /\ Completes(e, i, result) /\ outcome' = [outcome EXCEPT ![e][i] = result]
      /\ UNCHANGED <<phase, pending, nextId, rx, told>>
  BY <1>1 DEF Ends, Typed, NativeTyped, isolate, Completes
<1>3. i \in pending[e] /\ InFlight(e, i)
  BY <1>2 DEF Accounts, Flying, InFlight
<1>4. /\ \A s \in flight'[e] : s \in flight[e] /\ s.id # i
      /\ \A s \in flight[e] : s.id # i => s \in flight'[e]
  BY <1>2 DEF Accounts, Flying
<1>5. \A p \in Nat : ~Says(e, p, i)
  BY <1>3, BoundAssumption DEF Accounts, Posted
<1>6. Posted(e)' /\ Flying(e)' /\ Owed(e)'
  BY <1>2, <1>3, <1>4, <1>5, CompletesFact
<1>7. Books(e)'
  <2>1. told[e][i] = <<>>
    BY <1>3 DEF Accounts, Books
  <2>2. \A j \in Id : j # i => outcome'[e][j] = outcome[e][j]
    BY <1>2 DEF Typed, NativeTyped
  <2>3. \A j \in Id : told[e][j] \in {<<>>, <<"disposed">>} \/ told[e][j] = <<outcome'[e][j]>>
    BY <2>1, <2>2 DEF Accounts, Books
  <2>. QED  BY <1>2, <2>3 DEF Accounts, Books
<1>. QED  BY <1>6, <1>7 DEF Accounts

LEMMA AnsweredAccounts ==
  ASSUME Typed, NEW e \in Ecu, Accounts(e), NEW i \in Id, UnicastAnswered(e, i)
  PROVE  Accounts(e)'
<1>1. /\ flight'[e] = flight[e] \ {[id |-> i, kind |-> "unicast"]}
      /\ UNCHANGED <<phase, pending, nextId, told, outcome, queue>>
      /\ rx'[e].at = "stuck"
  BY DEF UnicastAnswered, isolate, Typed, NativeTyped, RxTyped, Idle, Off
<1>2. \A j, p : Says(e, p, j)' <=> Says(e, p, j)
  BY <1>1 DEF Says
<1>3. \A j : InFlight(e, j)' => InFlight(e, j)
  BY <1>1 DEF InFlight
<1>4. Books(e)'
  BY <1>1 DEF Accounts, Books
<1>5. Flying(e)'
  BY <1>1 DEF Accounts, Flying
<1>6. Posted(e)'
  BY <1>1, <1>2, <1>3 DEF Accounts, Posted
<1>7. Owed(e)'
  BY <1>1 DEF Owed
<1>. QED  BY <1>4, <1>5, <1>6, <1>7 DEF Accounts

LEMMA CompleteAccounts ==
  ASSUME Typed, NEW e \in Ecu, Accounts(e), CompleteSend(e)
  PROVE  Accounts(e)'
<1>1. PICK i, kind : i = Head(queue[e]).n /\ kind = Head(queue[e]).kind
  OBVIOUS
<1>2. /\ \A j, p \in Nat :
           Says(e, p, j)' <=> p > 0 /\ Says(e, p + 1, j) /\ queue'[e][p] = queue[e][p + 1]
      /\ 1 \in DOMAIN queue[e] /\ Head(queue[e]) = queue[e][1]
      /\ queue[e][1] \in Msg /\ queue[e][1].kind \in Results
      /\ Takes(e, Results)
  BY SaysTakes DEF CompleteSend
<1>3. i \in Nat /\ Says(e, 1, i)
  BY <1>1, <1>2 DEF Says, Msg
<1>4. i \in pending[e] /\ ~InFlight(e, i) /\ kind = outcome[e][i] /\ kind \in Results
  BY <1>1, <1>2, <1>3 DEF Accounts, Posted
<1>5. i \in Id
  BY <1>4 DEF Typed, IsolateTyped
<1>6. told[e][i] = <<>> /\ phase[e] # "disposed"
  BY <1>4, <1>5 DEF Accounts, Books
<1>7. Tells(e, i, kind) = <<kind>>
  BY <1>4, <1>6 DEF Tells
<1>8. /\ told' = [told EXCEPT ![e][i] = Tells(e, i, kind)]
      /\ pending' = [pending EXCEPT ![e] = @ \ {i}]
      /\ UNCHANGED <<phase, nextId, rx, flight, outcome>>
  BY <1>1 DEF CompleteSend, sends
<1>9. /\ told'[e][i] = <<kind>> /\ pending'[e] = pending[e] \ {i}
      /\ \A j \in Id : j # i => told'[e][j] = told[e][j]
  BY <1>5, <1>7, <1>8 DEF Typed, IsolateTyped
<1>10. \A j : InFlight(e, j)' <=> InFlight(e, j)
  BY <1>8 DEF InFlight
<1>11. Books(e)'
  <2>1. ASSUME NEW j \in Id
        PROVE  /\ j \in pending'[e] <=> (j < nextId'[e] /\ told'[e][j] = <<>>)
               /\ j >= nextId'[e] => told'[e][j] = <<>>
               /\ told'[e][j] \in {<<>>, <<"disposed">>} \/ told'[e][j] = <<outcome'[e][j]>>
               /\ told'[e][j] = <<"disposed">> => phase'[e] = "disposed"
    <3>1. CASE j = i
      <4>1. i < nextId[e]
        BY <1>4, <1>5 DEF Accounts, Books
      <4>2. ~(i >= nextId[e])
        <5>1. i \in Nat /\ nextId[e] \in Nat
          BY <1>3 DEF Typed, IsolateTyped
        <5>. QED  BY <4>1, <5>1
      <4>3. <<kind>> # <<>> /\ <<kind>> # <<"disposed">>
        BY <1>4 DEF Results
      <4>. QED  BY <1>4, <1>8, <1>9, <3>1, <4>2, <4>3
    <3>2. CASE j # i
      BY <1>8, <1>9, <3>2 DEF Accounts, Books
    <3>. QED  BY <3>1, <3>2
  <2>2. phase'[e] # "disposed"
    BY <1>6, <1>8
  <2>. QED  BY <2>1, <2>2 DEF Books
<1>12. Flying(e)'
  <2>1. \A s \in flight[e] : s.id \in pending[e] /\ s.id # i
    BY <1>4 DEF Accounts, Flying, InFlight
  <2>. QED  BY <1>8, <1>9, <2>1 DEF Accounts, Flying
<1>13. \A p \in Nat : Says(e, p, i) => p = 1
  BY <1>3 DEF Accounts, Posted
<1>14. Posted(e)'
  <2>1. ASSUME NEW j \in Nat, NEW p \in Nat, Says(e, p, j)'
        PROVE  j \in pending'[e] /\ ~InFlight(e, j)' /\ queue'[e][p].kind = outcome'[e][j]
    <3>1. p > 0 /\ p + 1 \in Nat /\ Says(e, p + 1, j) /\ queue'[e][p] = queue[e][p + 1]
      BY <1>2, <2>1
    <3>2. j # i
      BY <1>13, <3>1
    <3>. QED  BY <1>8, <1>9, <1>10, <3>1, <3>2 DEF Accounts, Posted
  <2>2. ASSUME NEW j \in Nat, NEW p \in Nat, NEW q \in Nat, Says(e, p, j)', Says(e, q, j)'
        PROVE  p = q
    <3>1. Says(e, p + 1, j) /\ Says(e, q + 1, j) /\ p + 1 \in Nat /\ q + 1 \in Nat
      BY <1>2, <2>2
    <3>2. p + 1 = q + 1
      BY <3>1 DEF Accounts, Posted
    <3>. QED  BY <3>2
  <2>. QED  BY <2>1, <2>2 DEF Posted
<1>15. Owed(e)'
  <2> SUFFICES ASSUME NEW j \in pending'[e]
               PROVE  (InFlight(e, j) \/ rx[e].at = "stuck" \/ \E p \in Nat : Says(e, p, j))'
    BY DEF Owed
  <2>0. j \in pending[e] /\ j # i /\ j \in Nat
    BY <1>9, BoundAssumption DEF Typed, IsolateTyped
  <2>1. InFlight(e, j) \/ rx[e].at = "stuck" \/ \E p \in Nat : Says(e, p, j)
    BY <2>0 DEF Accounts, Owed
  <2>2. ASSUME NEW p \in Nat, Says(e, p, j)
        PROVE  \E q \in Nat : Says(e, q, j)'
    <3>1. p \in DOMAIN queue[e] /\ p # 1
      BY <1>1, <1>2, <2>0, <2>2 DEF Says
    <3>2. /\ p \in 1 .. Len(queue[e])
          /\ \A q \in 1 .. Len(queue[e]) - 1 : queue'[e][q] = queue[e][q + 1]
      BY <1>2, <3>1, TakesFact DEF Typed, PortTyped
    <3>3. p - 1 \in Nat /\ p - 1 > 0 /\ (p - 1) + 1 = p /\ queue'[e][p - 1] = queue[e][p]
      <4>1. Len(queue[e]) \in Nat
        BY DEF Typed, PortTyped
      <4>. QED  BY <3>1, <3>2, <4>1
    <3>. QED  BY <1>2, <2>0, <2>2, <3>3
  <2>. QED  BY <1>8, <1>10, <2>1, <2>2
<1>. QED  BY <1>11, <1>12, <1>14, <1>15 DEF Accounts

LEMMA DisposedAccounts ==
  ASSUME Typed, NEW e \in Ecu, Accounts(e), Disposed(e)
  PROVE  Accounts(e)'
<1>1. /\ phase[e] = "joined" /\ phase'[e] = "disposed" /\ flight'[e] = {} /\ queue'[e] = <<>>
      /\ pending'[e] = {} /\ UNCHANGED <<nextId, outcome>>
      /\ told'[e] = [i \in Id |-> Tells(e, i, "disposed")]
  BY DEF Disposed, Closes, Typed, IsolateTyped, NativeTyped, PortTyped
<1>2. Posted(e)' /\ Flying(e)' /\ Owed(e)'
  BY <1>1 DEF Posted, Flying, Owed, Says
<1>3. ASSUME NEW i \in Id
      PROVE  /\ i \in pending[e] => told'[e][i] = <<"disposed">> /\ i < nextId[e]
             /\ i \notin pending[e] => told'[e][i] = told[e][i]
  <2>1. told'[e][i] = IF i \in pending[e] THEN Append(told[e][i], "disposed") ELSE told[e][i]
    BY <1>1 DEF Tells
  <2>2. i \in pending[e] => i < nextId[e] /\ told[e][i] = <<>>
    BY DEF Accounts, Books
  <2>3. Append(<<>>, "disposed") = <<"disposed">>
    OBVIOUS
  <2>. QED  BY <2>1, <2>2, <2>3
<1>4. ASSUME NEW i \in Id
      PROVE  /\ i \in pending'[e] <=> (i < nextId'[e] /\ told'[e][i] = <<>>)
             /\ i >= nextId'[e] => told'[e][i] = <<>>
             /\ told'[e][i] \in {<<>>, <<"disposed">>} \/ told'[e][i] = <<outcome'[e][i]>>
  <2>1. i \in Nat /\ nextId[e] \in Nat
    BY BoundAssumption DEF Typed, IsolateTyped
  <2>2. CASE i \in pending[e]
    BY <1>1, <1>3, <2>1, <2>2
  <2>3. CASE i \notin pending[e]
    BY <1>1, <1>3, <2>3 DEF Accounts, Books
  <2>. QED  BY <2>2, <2>3
<1>5. Books(e)'
  BY <1>1, <1>4 DEF Books
<1>. QED  BY <1>2, <1>5 DEF Accounts

NoLoss == \A e \in Ecu : Accounts(e)

LEMMA NextAccounts == Typed /\ OffInv /\ NoLoss /\ [Next]_vars => NoLoss'
<1> SUFFICES ASSUME Typed, OffInv, NoLoss, [Next]_vars, NEW d \in Ecu
             PROVE  Accounts(d)'
  BY DEF NoLoss
<1>0. Accounts(d)
  BY DEF NoLoss
<1>t. /\ phase \in [Ecu -> Phases] /\ rx \in [Ecu -> Doing] /\ queue \in [Ecu -> Seq(Msg)]
      /\ \A e \in Ecu : rx[e].n \in Nat /\ rx[e].i \in Nat /\ rx[e].buf \in Buffer \cup {NoBuf}
  BY DEF Typed, IsolateTyped, RxTyped, PortTyped, Doing
<1>1. ASSUME UNCHANGED <<pending, nextId, told, outcome, flight, queue>>,
             phase'[d] = "disposed" <=> phase[d] = "disposed",
             rx[d].at = "stuck" => rx'[d].at = "stuck"
      PROVE  Accounts(d)'
  BY <1>0, <1>1, RestAccounts
<1>2. ASSUME NEW e \in Ecu, e # d, EcuStep(e)
      PROVE  Accounts(d)'
  <2>1. /\ UNCHANGED <<pending[d], nextId[d], told[d], outcome[d], flight[d]>>
        /\ phase'[d] = phase[d] /\ rx'[d] = rx[d] /\ queue'[d] = queue[d]
    <3>1. CASE CreateStep(e)
      BY <1>2, <1>t, <3>1 DEF CreateStep, Create, OnMessage, OnClaimResult, SetHandler, sends
    <3>2. CASE RxStep(e)
      <4>1. UNCHANGED <<phase, pending, nextId, told, outcome, flight>>
            \/ \E i \in Id : UnicastAnswered(e, i)
        BY <3>2 DEF RxStep, Settle, Receive, Passes, PostDm1, PostFrame, AcquireFromPool,
           AcquireFromHeap, Fills, isolate, sends
      <4>2. rx'[d] = rx[d] /\ queue'[d] = queue[d]
        BY <1>2, <1>t, <3>2 DEF RxStep, Settle, Receive, Passes, PostDm1, PostFrame, AcquireFromPool,
           AcquireFromHeap, Fills, Posts, UnicastAnswered
      <4>3. CASE \E i \in Id : UnicastAnswered(e, i)
        BY <1>2, <4>2, <4>3 DEF UnicastAnswered, isolate, Typed, NativeTyped
      <4>. QED  BY <4>1, <4>2, <4>3
    <3>3. CASE SendStep(e)
      BY <1>2, <1>t, <3>3 DEF SendStep, SendInline, SendLater, Called, Completes, Posts, Typed,
         IsolateTyped, NativeTyped
    <3>4. CASE AsioStep(e)
      BY <1>2, <1>t, <3>4 DEF AsioStep, BroadcastEnds, EndlessFails, UnicastTimesOut, Ends, Completes, Posts, Typed,
         IsolateTyped, NativeTyped, isolate
    <3>5. CASE HandleStep(e)
      BY <1>2, <1>t, <3>5 DEF HandleStep, HandleEvent, CompleteSend, Takes, Typed,
         IsolateTyped, isolate, sends
    <3>6. CASE DisposeStep(e)
      BY <1>2, <1>t, <3>6 DEF DisposeStep, Dispose, JoinAsio, Disposed, Closes, Typed,
         IsolateTyped, NativeTyped, sends
    <3>. QED  BY <1>2, <3>1, <3>2, <3>3, <3>4, <3>5, <3>6 DEF EcuStep
  <2>. QED  BY <1>0, <2>1, RestAccounts
<1>3. CASE CreateStep(d)
  <2>1. CASE Create(d)
    <3>1. phase[d] = "none" /\ rx[d].at = "off" /\ phase'[d] = "threads"
      BY <2>1, <1>t DEF Create, OffInv
    <3>. QED  BY <1>1, <2>1, <3>1 DEF Create, sends
  <2>2. CASE OnMessage(d) \/ OnClaimResult(d)
    BY <1>1, <2>2, <1>t DEF OnMessage, OnClaimResult, SetHandler, sends
  <2>. QED  BY <1>3, <2>1, <2>2 DEF CreateStep
<1>4. CASE RxStep(d)
  <2>1. ASSUME UNCHANGED <<phase, pending, nextId, told, outcome, flight>>, rx[d].at # "stuck",
               UNCHANGED queue \/ \E m \in Msg : m.kind \notin Results /\ Posts(d, m)
        PROVE  Accounts(d)'
    BY <1>0, <2>1, RestAccounts
  <2>2. ASSUME NEW result \in {"claimed", "failed"}, Settle(d, result)
        PROVE  Accounts(d)'
    <3>1. ClaimOf(result) \in Msg /\ ClaimOf(result).kind \notin Results
      BY DEF ClaimOf, Message, Msg, Kinds, Results
    <3>. QED  BY <2>1, <2>2, <3>1 DEF Settle, isolate, sends
  <2>3. ASSUME NEW k \in 0 .. MaxFaults, NEW assembled \in BOOLEAN, Receive(d, k, assembled)
        PROVE  Accounts(d)'
    BY <2>1, <2>3 DEF Receive, isolate, sends
  <2>4. CASE PostDm1(d)
    <3>1. FaultOf(rx[d].n, rx[d].i + 1) \in Msg /\ FaultOf(rx[d].n, rx[d].i + 1).kind \notin Results
      BY <1>t DEF FaultOf, Message, Msg, Kinds, Results
    <3>. QED  BY <2>1, <2>4, <3>1 DEF PostDm1, isolate, sends
  <2>5. CASE PostFrame(d)
    <3>1. FrameOf(rx[d].n, rx[d].buf) \in Msg /\ FrameOf(rx[d].n, rx[d].buf).kind \notin Results
      BY <1>t DEF FrameOf, Message, Msg, Kinds, Results
    <3>. QED  BY <2>1, <2>5, <3>1 DEF PostFrame, isolate, sends
  <2>6. CASE AcquireFromPool(d) \/ \E b \in Heap : AcquireFromHeap(d, b)
    BY <2>1, <2>6 DEF AcquireFromPool, AcquireFromHeap, Fills, isolate, sends
  <2>7. CASE \E i \in Id : UnicastAnswered(d, i)
    BY <1>0, <2>7, AnsweredAccounts
  <2>. QED  BY <1>4, <2>2, <2>3, <2>4, <2>5, <2>6, <2>7 DEF RxStep, Passes
<1>5. CASE HandleEvent(d)
  BY <1>0, <1>5, RestAccounts DEF HandleEvent, isolate, sends
<1>6. CASE Dispose(d) \/ JoinAsio(d)
  <2>1. /\ phase[d] \in {"open", "closing"} /\ phase'[d] \in {"closing", "joined"}
        /\ UNCHANGED <<pending, nextId, told, outcome, flight, queue, rx>>
    BY <1>6, <1>t DEF Dispose, Open, JoinAsio, sends
  <2>. QED  BY <1>1, <2>1
<1>7. CASE (\E v \in views : Drop(v)) \/ (\E v \in garbage : Finalize(v))
  BY <1>1, <1>7 DEF Drop, Finalize, isolate, sends
<1>8. CASE UNCHANGED vars
  BY <1>1, <1>8 DEF vars, isolate, sends
<1>9. CASE EcuStep(d)
  BY <1>0, <1>3, <1>4, <1>5, <1>6, <1>9, SendAccounts, AsioAccounts, CompleteAccounts, DisposedAccounts
  DEF EcuStep, HandleStep, DisposeStep
<1>. QED  BY <1>2, <1>7, <1>8, <1>9 DEF Next

(* For any number of ECUs, sends and threads: a send is pending until its  *)
(* future was told, once, how it ended natively or that the ECU was        *)
(* disposed, and until then a thread or a message owes it that, unless the *)
(* receive thread has locked itself out.                                   *)
THEOREM SendsTold == Spec => []SendsAccounted
<1>1. Init => NoLoss
  <2> SUFFICES ASSUME Init, NEW e \in Ecu PROVE Accounts(e)
    BY DEF NoLoss
  <2>1. /\ pending[e] = {} /\ nextId[e] = 0 /\ flight[e] = {} /\ queue[e] = <<>> /\ phase[e] = "none"
        /\ \A i \in Id : told[e][i] = <<>>
    BY DEF Init
  <2>2. \A i \in Id : ~(i < 0)
    BY BoundAssumption
  <2>. QED  BY <2>1, <2>2 DEF Accounts, Books, Flying, Posted, Owed, Says
<1>2. Typed /\ NoLoss => SendsAccounted
  <2> SUFFICES ASSUME Typed, NoLoss, NEW e \in Ecu, NEW i \in Id
               PROVE  /\ i \in pending[e] <=> (i < nextId[e] /\ told[e][i] = <<>>)
                      /\ told[e][i] \in {<<>>, <<"disposed">>} \/ told[e][i] = <<outcome[e][i]>>
                      /\ told[e][i] = <<"disposed">> => phase[e] = "disposed"
                      /\ i \in pending[e] =>
                           /\ phase[e] # "disposed"
                           /\ InFlight(e, i) => Completion(e, i) = {}
                           /\ InFlight(e, i) \/ rx[e].at = "stuck"
                                \/ \E p \in Completion(e, i) : Completion(e, i) = {p}
    BY DEF SendsAccounted
  <2>0. Accounts(e) /\ i \in Nat
    BY BoundAssumption DEF NoLoss
  <2>1. \A p : p \in Completion(e, i) <=> p \in Nat /\ Says(e, p, i)
    BY DEF Completion, Says, Typed, PortTyped
  <2>2. \A p \in Completion(e, i) : Completion(e, i) = {p}
    BY <2>0, <2>1 DEF Accounts, Posted
  <2>3. InFlight(e, i) => Completion(e, i) = {}
    BY <2>0, <2>1 DEF Accounts, Posted
  <2>4. i \in pending[e] =>
          InFlight(e, i) \/ rx[e].at = "stuck" \/ \E p \in Completion(e, i) : TRUE
    BY <2>0, <2>1 DEF Accounts, Owed
  <2>5. i \in pending[e] => phase[e] # "disposed"
    BY <2>0 DEF Accounts, Books
  <2>. QED  BY <2>0, <2>2, <2>3, <2>4, <2>5 DEF Accounts, Books
<1>. QED  BY <1>1, <1>2, AlwaysOwned, NextAccounts, PTL DEF Spec
-----------------------------------------------------------------------------
(* The stream of events. *)

(* What a stream tells that has passed s on and has q to pass on.          *)
TaleOf(s, q) == [p \in 1 .. Len(s) + Len(q) |-> Event((s \o q)[p])]
Tale(e) == TaleOf(seen[e], queue[e])

(* Of the kinds in K, u has only what t has, ...                           *)
Within(K, t, u) ==
  \A p \in DOMAIN u : u[p].kind \in K => \E r \in DOMAIN t : t[r] = u[p]

(* ... and in its order.                                                   *)
Ordered(K, t, u) ==
  \A p, q \in DOMAIN u :
    p < q /\ u[p].kind \in K /\ u[q].kind \in K
      => \E r, s \in DOMAIN t : r < s /\ t[r] = u[p] /\ t[s] = u[q]

SameOf(K, t, u) == Ordered(K, t, u) /\ Within(K, t, u) /\ Within(K, u, t)

LEMMA TaleFact ==
  ASSUME NEW S, NEW T, NEW s \in Seq(S), NEW q \in Seq(T)
  PROVE  /\ DOMAIN TaleOf(s, q) = 1 .. Len(s) + Len(q)
         /\ Len(s) \in Nat /\ Len(q) \in Nat
         /\ \A p \in 1 .. Len(s) : TaleOf(s, q)[p] = Event(s[p])
         /\ \A p \in 1 .. Len(q) : TaleOf(s, q)[Len(s) + p] = Event(q[p])
         /\ \A p \in 1 .. Len(s) + Len(q) :
              p > Len(s) => /\ p - Len(s) \in 1 .. Len(q)
                            /\ TaleOf(s, q)[p] = Event(q[p - Len(s)])
<1>1. s \in Seq(S \cup T) /\ q \in Seq(S \cup T)
  OBVIOUS
<1>2. /\ \A p \in 1 .. Len(s) : (s \o q)[p] = s[p]
      /\ \A p \in 1 .. Len(s) + Len(q) : p > Len(s) => (s \o q)[p] = q[p - Len(s)]
  BY <1>1
<1>3. Len(s) \in Nat /\ Len(q) \in Nat
  BY <1>1
<1>4. /\ DOMAIN TaleOf(s, q) = 1 .. Len(s) + Len(q)
      /\ \A p \in 1 .. Len(s) + Len(q) : TaleOf(s, q)[p] = Event((s \o q)[p])
  BY DEF TaleOf
<1>5. \A p \in 1 .. Len(s) : TaleOf(s, q)[p] = Event(s[p])
  BY <1>2, <1>3, <1>4
<1>6. \A p \in 1 .. Len(s) + Len(q) :
        p > Len(s) => /\ p - Len(s) \in 1 .. Len(q)
                      /\ TaleOf(s, q)[p] = Event(q[p - Len(s)])
  BY <1>2, <1>3, <1>4
<1>7. ASSUME NEW p \in 1 .. Len(q)
      PROVE  TaleOf(s, q)[Len(s) + p] = Event(q[p])
  <2>1. Len(s) + p \in 1 .. Len(s) + Len(q) /\ Len(s) + p > Len(s) /\ (Len(s) + p) - Len(s) = p
    BY <1>3
  <2>. QED  BY <1>6, <2>1
<1>. QED  BY <1>3, <1>4, <1>5, <1>6, <1>7

(* A message that is posted comes last. *)
LEMMA TalePosts ==
  ASSUME NEW S, NEW T, NEW s \in Seq(S), NEW q \in Seq(T), NEW m \in T
  PROVE  LET t == TaleOf(s, q)
             u == TaleOf(s, Append(q, m))
             l == Len(s) + Len(q)
         IN  /\ l \in Nat /\ DOMAIN t = 1 .. l /\ DOMAIN u = 1 .. l + 1
             /\ \A p \in 1 .. l : u[p] = t[p]
             /\ u[l + 1] = Event(m)
<1> DEFINE t == TaleOf(s, q)
           r == Append(q, m)
           u == TaleOf(s, r)
           l == Len(s) + Len(q)
<1>1. /\ r \in Seq(T) /\ Len(r) = Len(q) + 1 /\ r[Len(q) + 1] = m
      /\ \A p \in 1 .. Len(q) : r[p] = q[p]
  BY AppendFact
<1> HIDE DEF r
<1>2. /\ DOMAIN t = 1 .. l /\ Len(s) \in Nat /\ Len(q) \in Nat
      /\ \A p \in 1 .. Len(s) : t[p] = Event(s[p])
      /\ \A p \in 1 .. l : p > Len(s) => /\ p - Len(s) \in 1 .. Len(q)
                                         /\ t[p] = Event(q[p - Len(s)])
  BY TaleFact
<1>3. /\ DOMAIN u = 1 .. Len(s) + Len(r)
      /\ \A p \in 1 .. Len(s) : u[p] = Event(s[p])
      /\ \A p \in 1 .. Len(r) : u[Len(s) + p] = Event(r[p])
      /\ \A p \in 1 .. Len(s) + Len(r) : p > Len(s) => u[p] = Event(r[p - Len(s)])
  <2>1. r \in Seq(T)
    BY <1>1
  <2>. QED  BY <2>1, TaleFact
<1> HIDE DEF t, u
<1>4. DOMAIN u = 1 .. l + 1
  BY <1>1, <1>2, <1>3
<1>5. u[l + 1] = Event(m)
  <2>1. Len(q) + 1 \in 1 .. Len(r) /\ Len(s) + (Len(q) + 1) = l + 1
    BY <1>1, <1>2
  <2>2. u[Len(s) + (Len(q) + 1)] = Event(r[Len(q) + 1])
    BY <1>3, <2>1
  <2>. QED  BY <1>1, <2>1, <2>2
<1>6. ASSUME NEW p \in 1 .. l
      PROVE  u[p] = t[p]
  <2>1. CASE p <= Len(s)
    BY <1>2, <1>3, <2>1
  <2>2. CASE p > Len(s)
    BY <1>1, <1>2, <1>3, <2>2
  <2>. QED  BY <1>2, <2>1, <2>2
<1>. QED  BY <1>2, <1>4, <1>5, <1>6 DEF t, u, r

(* A message that is handled is told already. *)
LEMMA TaleHandles ==
  ASSUME NEW S, NEW T, NEW s \in Seq(S), NEW q \in Seq(T), q # <<>>, Event(Head(q)) \in S
  PROVE  TaleOf(Append(s, Event(Head(q))), Tail(q)) = TaleOf(s, q)
<1> DEFINE t == TaleOf(s, q)
           a == Append(s, Event(Head(q)))
           b == Tail(q)
           u == TaleOf(a, b)
           l == Len(s) + Len(q)
<1>1. /\ a \in Seq(S) /\ Len(a) = Len(s) + 1 /\ a[Len(s) + 1] = Event(Head(q))
      /\ \A p \in 1 .. Len(s) : a[p] = s[p]
  BY AppendFact
<1>2. /\ b \in Seq(T) /\ Len(q) \in Nat \ {0} /\ Len(b) = Len(q) - 1
      /\ \A p \in 1 .. Len(q) - 1 : b[p] = q[p + 1]
      /\ Head(q) = q[1]
  BY TailFact
<1>3. \A m : Event(Event(m)) = Event(m)
  BY DEF Event
<1> HIDE DEF a, b
<1>4. /\ DOMAIN t = 1 .. l /\ Len(s) \in Nat
      /\ \A p \in 1 .. Len(s) : t[p] = Event(s[p])
      /\ \A p \in 1 .. l : p > Len(s) => /\ p - Len(s) \in 1 .. Len(q)
                                         /\ t[p] = Event(q[p - Len(s)])
  BY TaleFact
<1>5. /\ DOMAIN u = 1 .. Len(a) + Len(b)
      /\ \A p \in 1 .. Len(a) : u[p] = Event(a[p])
      /\ \A p \in 1 .. Len(a) + Len(b) : p > Len(a) => /\ p - Len(a) \in 1 .. Len(b)
                                                       /\ u[p] = Event(b[p - Len(a)])
  <2>1. a \in Seq(S) /\ b \in Seq(T)
    BY <1>1, <1>2
  <2>. QED  BY <2>1, TaleFact
<1>6. u = [p \in 1 .. l |-> u[p]] /\ t = [p \in 1 .. l |-> t[p]]
  BY <1>1, <1>2, <1>4, <1>5 DEF TaleOf
<1> HIDE DEF t, u
<1>7. ASSUME NEW p \in 1 .. l
      PROVE  u[p] = t[p]
  <2>1. CASE p <= Len(s)
    BY <1>1, <1>4, <1>5, <2>1
  <2>2. CASE p = Len(s) + 1
    <3>1. u[p] = Event(Event(q[1]))
      BY <1>1, <1>2, <1>4, <1>5, <2>2
    <3>2. p - Len(s) = 1 /\ p > Len(s)
      BY <1>4, <2>2
    <3>3. t[p] = Event(q[1])
      BY <1>4, <3>2
    <3>. QED  BY <1>3, <3>1, <3>3
  <2>3. CASE p > Len(s) + 1
    <3>1. /\ p - Len(a) \in 1 .. Len(b) /\ u[p] = Event(b[p - Len(a)])
      BY <1>1, <1>2, <1>4, <1>5, <2>3
    <3>2. b[p - Len(a)] = q[(p - Len(a)) + 1] /\ (p - Len(a)) + 1 = p - Len(s)
      BY <1>1, <1>2, <1>4, <3>1
    <3>. QED  BY <1>4, <2>3, <3>1, <3>2
  <2>. QED  BY <1>4, <2>1, <2>2, <2>3
<1>8. u = t
  BY <1>6, <1>7
<1>. QED  BY <1>8 DEF t, u, a, b

(* A message that is no event leaves its place to those behind it. *)
LEMMA TaleTakes ==
  ASSUME NEW S, NEW T, NEW s \in Seq(S), NEW q \in Seq(T), q # <<>>,
         NEW K, Head(q).kind \notin K
  PROVE  SameOf(K, TaleOf(s, q), TaleOf(s, Tail(q)))
<1> DEFINE t == TaleOf(s, q)
           b == Tail(q)
           u == TaleOf(s, b)
           l == Len(s) + Len(q)
           From(p) == IF p <= Len(s) THEN p ELSE p + 1
<1>2. /\ b \in Seq(T) /\ Len(q) \in Nat \ {0} /\ Len(b) = Len(q) - 1
      /\ \A p \in 1 .. Len(q) - 1 : b[p] = q[p + 1]
      /\ Head(q) = q[1]
  BY TailFact
<1> HIDE DEF b
<1>4. /\ DOMAIN t = 1 .. l /\ Len(s) \in Nat
      /\ \A p \in 1 .. Len(s) : t[p] = Event(s[p])
      /\ \A p \in 1 .. Len(q) : t[Len(s) + p] = Event(q[p])
      /\ \A p \in 1 .. l : p > Len(s) => /\ p - Len(s) \in 1 .. Len(q)
                                         /\ t[p] = Event(q[p - Len(s)])
  BY TaleFact
<1>5. /\ DOMAIN u = 1 .. Len(s) + Len(b)
      /\ \A p \in 1 .. Len(s) : u[p] = Event(s[p])
      /\ \A p \in 1 .. Len(s) + Len(b) : p > Len(s) => /\ p - Len(s) \in 1 .. Len(b)
                                                       /\ u[p] = Event(b[p - Len(s)])
  BY <1>2, TaleFact
<1> HIDE DEF t, u
<1>6. DOMAIN u = 1 .. l - 1
  BY <1>2, <1>4, <1>5
<1>7. ASSUME NEW p \in DOMAIN u
      PROVE  From(p) \in DOMAIN t /\ t[From(p)] = u[p]
  <2>0. p \in 1 .. l - 1 /\ l \in Nat /\ p \in Nat
    BY <1>2, <1>4, <1>6
  <2>1. CASE p <= Len(s)
    BY <1>4, <1>5, <2>0, <2>1
  <2>2. CASE p > Len(s)
    <3>1. p - Len(s) \in 1 .. Len(q) - 1 /\ u[p] = Event(b[p - Len(s)])
      BY <1>2, <1>5, <2>2
    <3>2. b[p - Len(s)] = q[(p - Len(s)) + 1] /\ (p - Len(s)) + 1 = (p + 1) - Len(s)
      BY <1>2, <1>4, <2>0, <3>1
    <3>3. p + 1 \in 1 .. l /\ p + 1 > Len(s) /\ From(p) = p + 1
      BY <1>4, <2>0, <2>2
    <3>. QED  BY <1>4, <3>1, <3>2, <3>3
  <2>. QED  BY <1>4, <2>0, <2>1, <2>2
<1>8. \A p, r \in DOMAIN u : p < r => From(p) < From(r)
  BY <1>4, <1>6
<1>9. ASSUME NEW p \in DOMAIN t, t[p].kind \in K
      PROVE  \E r \in DOMAIN u : u[r] = t[p]
  <2>0. p \in 1 .. l /\ l \in Nat
    BY <1>2, <1>4
  <2>1. p # Len(s) + 1
    <3> SUFFICES ASSUME p = Len(s) + 1 PROVE FALSE
      OBVIOUS
    <3>1. t[p] = Event(q[1])
      BY <1>2, <1>4
    <3>2. t[p].kind = Head(q).kind
      BY <1>2, <3>1 DEF Event
    <3>. QED  BY <1>9, <3>2
  <2>2. CASE p <= Len(s)
    <3>1. p \in DOMAIN u
      BY <1>2, <1>4, <1>6, <2>0, <2>2
    <3>. QED  BY <1>4, <1>5, <2>0, <2>2, <3>1
  <2>3. CASE p > Len(s) + 1
    <3>1. p - 1 \in DOMAIN u /\ From(p - 1) = p
      BY <1>2, <1>4, <1>6, <2>0, <2>3
    <3>. QED  BY <1>7, <3>1
  <2>. QED  BY <1>4, <2>0, <2>1, <2>2, <2>3
<1> HIDE DEF From
<1>10. Ordered(K, t, u)
  BY <1>7, <1>8 DEF Ordered
<1>11. Within(K, t, u) /\ Within(K, u, t)
  BY <1>7, <1>9 DEF Within
<1>. QED  BY <1>10, <1>11 DEF SameOf, t, u, b

(* What a closed port held is not told. *)
LEMMA TaleCut ==
  ASSUME NEW S, NEW T, NEW s \in Seq(S), NEW q \in Seq(T), NEW K
  PROVE  Ordered(K, TaleOf(s, q), TaleOf(s, <<>>)) /\ Within(K, TaleOf(s, q), TaleOf(s, <<>>))
<1> DEFINE t == TaleOf(s, q)
           b == <<>>
           u == TaleOf(s, b)
<1>1. b \in Seq(T) /\ Len(b) = 0
  OBVIOUS
<1> HIDE DEF b
<1>2. /\ DOMAIN t = 1 .. Len(s) + Len(q) /\ Len(s) \in Nat /\ Len(q) \in Nat
      /\ \A p \in 1 .. Len(s) : t[p] = Event(s[p])
  BY TaleFact
<1>3. /\ DOMAIN u = 1 .. Len(s) + Len(b)
      /\ \A p \in 1 .. Len(s) : u[p] = Event(s[p])
  <2>1. b \in Seq(T)
    BY <1>1
  <2>. QED  BY <2>1, TaleFact
<1> HIDE DEF t, u
<1>4. \A p \in DOMAIN u : p \in DOMAIN t /\ t[p] = u[p]
  BY <1>1, <1>2, <1>3
<1>5. Ordered(K, t, u) /\ Within(K, t, u)
  BY <1>4 DEF Ordered, Within
<1>. QED  BY <1>5 DEF t, u, b

(* What posting a message of none of the kinds leaves of the tale. *)
LEMMA TaleOther ==
  ASSUME NEW S, NEW T, NEW s \in Seq(S), NEW q \in Seq(T), NEW m \in T,
         NEW K, m.kind \notin K
  PROVE  SameOf(K, TaleOf(s, q), TaleOf(s, Append(q, m)))
<1> DEFINE t == TaleOf(s, q)
           u == TaleOf(s, Append(q, m))
           l == Len(s) + Len(q)
<1>1. /\ l \in Nat /\ DOMAIN t = 1 .. l /\ DOMAIN u = 1 .. l + 1
      /\ \A p \in 1 .. l : u[p] = t[p]
      /\ u[l + 1] = Event(m)
  BY TalePosts
<1>2. Event(m).kind \notin K
  BY DEF Event
<1> HIDE DEF t, u, l
<1>3. \A p \in DOMAIN u : u[p].kind \in K => p \in DOMAIN t /\ t[p] = u[p]
  BY <1>1, <1>2
<1>4. \A p \in DOMAIN t : p \in DOMAIN u /\ u[p] = t[p]
  BY <1>1
<1>5. Ordered(K, t, u) /\ Within(K, t, u) /\ Within(K, u, t)
  BY <1>3, <1>4 DEF Ordered, Within
<1>. QED  BY <1>5 DEF SameOf, t, u

LEMMA SameOfSelf ==
  ASSUME NEW K, NEW t
  PROVE  SameOf(K, t, t)
  BY DEF SameOf, Ordered, Within

LEMMA TalePlaces ==
  ASSUME Typed, NEW e \in Ecu
  PROVE  DOMAIN Tale(e) \subseteq Nat
<1>1. PICK s, q : s = seen[e] /\ q = queue[e]
  OBVIOUS
<1>2. s \in Seq([kind : Kinds, n : Nat, i : Nat]) /\ q \in Seq(Msg)
  BY <1>1 DEF Typed, StreamTyped, PortTyped
<1>3. Len(s) \in Nat /\ Len(q) \in Nat
  BY <1>2
<1>4. DOMAIN Tale(e) = 1 .. Len(s) + Len(q)
  BY <1>1 DEF Tale, TaleOf
<1>. QED  BY <1>3, <1>4

LEMMA TalePlacesNext ==
  ASSUME Typed', NEW e \in Ecu
  PROVE  DOMAIN Tale(e)' \subseteq Nat
<1>1. PICK s, q : s = seen'[e] /\ q = queue'[e]
  OBVIOUS
<1>2. s \in Seq([kind : Kinds, n : Nat, i : Nat]) /\ q \in Seq(Msg)
  BY <1>1 DEF Typed, StreamTyped, PortTyped, Msg
<1>3. Len(s) \in Nat /\ Len(q) \in Nat
  BY <1>2
<1>4. DOMAIN Tale(e)' = 1 .. Len(s) + Len(q)
  BY <1>1 DEF Tale, TaleOf
<1>. QED  BY <1>3, <1>4

(* Event i of message n comes before the one that the receive thread is at.*)
Before(e, n, i) == n < rx[e].n \/ (n = rx[e].n /\ rx[e].at = "faults" /\ i <= rx[e].i)

HasMessage(e) == rx[e].at \in {"faults", "frame", "filled"}

(* The message that the receive thread has at hand is the last it heard.   *)
AtLast(e) ==
  HasMessage(e) =>
    /\ rx[e].n = Len(heard[e]) /\ rx[e].n > 0
    /\ rx[e].k = heard[e][rx[e].n]
    /\ IF rx[e].at = "faults" THEN rx[e].i < rx[e].k ELSE rx[e].k = 0

(* What is told of the bus was heard, and comes before what is at hand.    *)
ToldHeard(e) ==
  \A p \in DOMAIN Tale(e) : Tale(e)[p].kind \in FromBus =>
    /\ Tale(e)[p].n \in DOMAIN heard[e]
    /\ <<Tale(e)[p].n, Tale(e)[p].i>> \in EventsOf(e, Tale(e)[p].n)
    /\ HasMessage(e) => Before(e, Tale(e)[p].n, Tale(e)[p].i)

(* What was heard is told or at hand.                                      *)
HeardTold(e) ==
  \A n \in DOMAIN heard[e] : \A x \in EventsOf(e, n) :
    \/ x \in AtHand(e)
    \/ \E p \in DOMAIN Tale(e) :
         Tale(e)[p].kind \in FromBus /\ x = <<Tale(e)[p].n, Tale(e)[p].i>>

Follows(e) ==
  /\ InOrder(Tale(e))
  /\ phase[e] = "disposed" => rx[e].at = "off"
  /\ phase[e] # "disposed" => AtLast(e) /\ ToldHeard(e) /\ HeardTold(e)

LEMMA OrderKept ==
  ASSUME NEW t, NEW u, InOrder(t), Ordered(FromBus, t, u)
  PROVE  InOrder(u)
  BY DEF InOrder, Ordered

LEMMA TaleTyped ==
  ASSUME Typed, NEW e \in Ecu
  PROVE  /\ seen[e] \in Seq([kind : Kinds, n : Nat, i : Nat]) /\ queue[e] \in Seq(Msg)
         /\ DOMAIN Tale(e) = 1 .. Len(seen[e]) + Len(queue[e])
         /\ Len(seen[e]) \in Nat /\ Len(queue[e]) \in Nat
         /\ \A p \in DOMAIN Tale(e) : Tale(e)[p].n \in Nat /\ Tale(e)[p].i \in Nat
<1>1. seen[e] \in Seq([kind : Kinds, n : Nat, i : Nat]) /\ queue[e] \in Seq(Msg)
  BY DEF Typed, StreamTyped, PortTyped
<1>2. /\ DOMAIN Tale(e) = 1 .. Len(seen[e]) + Len(queue[e])
      /\ Len(seen[e]) \in Nat /\ Len(queue[e]) \in Nat
      /\ \A p \in 1 .. Len(seen[e]) : Tale(e)[p] = Event(seen[e][p])
      /\ \A p \in 1 .. Len(seen[e]) + Len(queue[e]) :
           p > Len(seen[e]) => /\ p - Len(seen[e]) \in 1 .. Len(queue[e])
                               /\ Tale(e)[p] = Event(queue[e][p - Len(seen[e])])
  <2>1. PICK s, q : s = seen[e] /\ q = queue[e]
    OBVIOUS
  <2>2. s \in Seq([kind : Kinds, n : Nat, i : Nat]) /\ q \in Seq(Msg)
    BY <1>1, <2>1
  <2>3. /\ DOMAIN TaleOf(s, q) = 1 .. Len(s) + Len(q)
        /\ Len(s) \in Nat /\ Len(q) \in Nat
        /\ \A p \in 1 .. Len(s) : TaleOf(s, q)[p] = Event(s[p])
        /\ \A p \in 1 .. Len(s) + Len(q) :
             p > Len(s) => /\ p - Len(s) \in 1 .. Len(q)
                           /\ TaleOf(s, q)[p] = Event(q[p - Len(s)])
    BY <2>2, TaleFact
  <2>. QED  BY <2>1, <2>3 DEF Tale
<1>3. ASSUME NEW p \in DOMAIN Tale(e)
      PROVE  Tale(e)[p].n \in Nat /\ Tale(e)[p].i \in Nat
  <2>1. CASE p <= Len(seen[e])
    <3>1. seen[e][p] \in [kind : Kinds, n : Nat, i : Nat] /\ Tale(e)[p] = Event(seen[e][p])
      <4>1. p \in 1 .. Len(seen[e])
        BY <1>2, <2>1
      <4>2. seen[e][p] \in [kind : Kinds, n : Nat, i : Nat]
        BY <1>1, <4>1, ElementOfSeq
      <4>. QED  BY <1>2, <4>1, <4>2
    <3>. QED  BY <3>1 DEF Event
  <2>2. CASE p > Len(seen[e])
    <3>1. PICK q \in 1 .. Len(queue[e]) : Tale(e)[p] = Event(queue[e][q])
      BY <1>2, <2>2
    <3>2. queue[e][q] \in Msg
      BY <1>1
    <3>. QED  BY <3>1, <3>2 DEF Event, Msg
  <2>. QED  BY <1>2, <2>1, <2>2
<1>. QED  BY <1>1, <1>2, <1>3

(* A step that tells nothing of the bus and leaves what is at hand there.  *)
LEMMA KeepsFollows ==
  ASSUME NEW d \in Ecu, Follows(d), SameOf(FromBus, Tale(d), Tale(d)'),
         phase'[d] = "disposed" <=> phase[d] = "disposed", UNCHANGED heard[d],
         phase[d] = "disposed" => rx'[d].at = "off",
         phase[d] # "disposed" =>
           /\ AtLast(d)' /\ AtHand(d)' = AtHand(d)
           /\ HasMessage(d)' => HasMessage(d) /\ \A n, i : Before(d, n, i) => Before(d, n, i)'
  PROVE  Follows(d)'
<1>1. PICK t, u : t = Tale(d) /\ u = Tale(d)'
  OBVIOUS
<1>2. InOrder(t) /\ Ordered(FromBus, t, u) /\ Within(FromBus, t, u) /\ Within(FromBus, u, t)
  BY <1>1 DEF Follows, SameOf
<1>3. InOrder(u)
  BY <1>2, OrderKept
<1>4. \A n : EventsOf(d, n)' = EventsOf(d, n)
  BY DEF EventsOf
<1>5. ASSUME phase[d] # "disposed"
      PROVE  ToldHeard(d)' /\ HeardTold(d)'
  <2>1. ASSUME NEW p \in DOMAIN u, u[p].kind \in FromBus
        PROVE  /\ u[p].n \in DOMAIN heard[d]
               /\ <<u[p].n, u[p].i>> \in EventsOf(d, u[p].n)
               /\ HasMessage(d) => Before(d, u[p].n, u[p].i)
    <3>1. PICK r \in DOMAIN t : t[r] = u[p]
      BY <1>2, <2>1 DEF Within
    <3>. QED  BY <1>1, <1>5, <2>1, <3>1 DEF Follows, ToldHeard
  <2>2. ToldHeard(d)'
    BY <1>1, <1>4, <1>5, <2>1 DEF ToldHeard
  <2>3. ASSUME NEW n \in DOMAIN heard[d], NEW x \in EventsOf(d, n)
        PROVE  \/ x \in AtHand(d)
               \/ \E p \in DOMAIN u : u[p].kind \in FromBus /\ x = <<u[p].n, u[p].i>>
    <3>1. \/ x \in AtHand(d)
          \/ \E p \in DOMAIN t : t[p].kind \in FromBus /\ x = <<t[p].n, t[p].i>>
      BY <1>1, <1>5 DEF Follows, HeardTold
    <3>. QED  BY <1>2, <3>1 DEF Within
  <2>4. HeardTold(d)'
    BY <1>1, <1>4, <1>5, <2>3 DEF HeardTold
  <2>. QED  BY <2>2, <2>4
<1>. QED  BY <1>1, <1>3, <1>5 DEF Follows

LEMMA RestFollows ==
  ASSUME NEW d \in Ecu, Follows(d), SameOf(FromBus, Tale(d), Tale(d)'),
         phase'[d] = "disposed" <=> phase[d] = "disposed", UNCHANGED heard[d],
         \/ UNCHANGED rx[d]
         \/ phase[d] # "disposed" /\ ~HasMessage(d) /\ ~HasMessage(d)'
  PROVE  Follows(d)'
<1>1. CASE UNCHANGED rx[d]
  <2>1. /\ AtLast(d)' <=> AtLast(d)
        /\ AtHand(d)' = AtHand(d)
        /\ HasMessage(d)' <=> HasMessage(d)
        /\ \A n, i : Before(d, n, i)' <=> Before(d, n, i)
    BY <1>1 DEF AtLast, HasMessage, AtHand, Before
  <2>2. phase[d] = "disposed" => rx'[d].at = "off"
    BY <1>1 DEF Follows
  <2>3. phase[d] # "disposed" => AtLast(d)'
    BY <2>1 DEF Follows
  <2>4. phase[d] # "disposed" =>
          /\ AtLast(d)' /\ AtHand(d)' = AtHand(d)
          /\ HasMessage(d)' => HasMessage(d) /\ \A n, i : Before(d, n, i) => Before(d, n, i)'
    BY <2>1, <2>3
  <2>. QED  BY <2>2, <2>4, KeepsFollows
<1>2. CASE phase[d] # "disposed" /\ ~HasMessage(d) /\ ~HasMessage(d)'
  <2>1. AtHand(d) = {} /\ AtHand(d)' = {} /\ AtLast(d)'
    BY <1>2 DEF AtHand, HasMessage, AtLast
  <2>. QED  BY <1>2, <2>1, KeepsFollows
<1>. QED  BY <1>1, <1>2

(* A message that is heard: all that is told comes before it.              *)
LEMMA ReceiveFollows ==
  ASSUME Typed, NEW e \in Ecu, Follows(e), NEW k \in 0 .. MaxFaults, NEW assembled \in BOOLEAN,
         Receive(e, k, assembled)
  PROVE  Follows(e)'
<1>1. PICK l : l = Len(heard[e])
  OBVIOUS
<1>2. /\ heard[e] \in Seq(Nat) /\ l \in Nat /\ k \in Nat
      /\ heard'[e] \in Seq(Nat) /\ Len(heard'[e]) = l + 1 /\ heard'[e][l + 1] = k
      /\ \A n \in 1 .. l : heard'[e][n] = heard[e][n]
  <2>1. heard[e] \in Seq(Nat) /\ k \in Nat
    BY BoundAssumption DEF Typed, StreamTyped
  <2>2. heard'[e] = Append(heard[e], k)
    BY DEF Receive, Typed, StreamTyped
  <2>. QED  BY <1>1, <2>1, <2>2, AppendFact
<1>3. /\ rx'[e].at = IF k > 0 THEN "faults" ELSE "frame"
      /\ rx'[e].n = l + 1 /\ rx'[e].k = k /\ rx'[e].i = 0
  <2>1. ASSUME NEW at, NEW n
        PROVE  LET r == [Idle EXCEPT !.at = at, !.n = n, !.k = k, !.mutex = assembled]
               IN  r.at = at /\ r.n = n /\ r.k = k /\ r.i = 0
    BY DEF Idle, Off
  <2>2. rx' = [rx EXCEPT ![e] =
                [Idle EXCEPT !.at = IF k > 0 THEN "faults" ELSE "frame",
                             !.n = l + 1, !.k = k, !.mutex = assembled]]
    BY <1>1 DEF Receive
  <2>. QED  BY <2>1, <2>2 DEF Typed, RxTyped
<1>4. Tale(e)' = Tale(e) /\ phase'[e] = phase[e] /\ phase[e] # "disposed"
      /\ rx[e].at = "idle"
  BY DEF Receive, Tale, HasMessageHandler, isolate
<1>5. ToldHeard(e) /\ HeardTold(e) /\ InOrder(Tale(e))
  BY <1>4 DEF Follows
<1>6. DOMAIN heard[e] = 1 .. l /\ DOMAIN heard'[e] = 1 .. l + 1
  BY <1>1, <1>2
<1>7. \A n \in 1 .. l : EventsOf(e, n)' = EventsOf(e, n)
  BY <1>2 DEF EventsOf
<1>8. EventsOf(e, l + 1)' = AtHand(e)'
  <2>1. EventsOf(e, l + 1)' = {<<l + 1, i>> : i \in IF k = 0 THEN {0} ELSE 1 .. k}
    BY <1>2 DEF EventsOf
  <2>2. CASE k = 0
    BY <1>3, <2>1, <2>2 DEF AtHand
  <2>3. CASE k # 0
    <3>1. k > 0
      BY <1>2, <2>3
    <3>2. AtHand(e)' = {<<l + 1, i>> : i \in 0 + 1 .. k}
      BY <1>3, <3>1 DEF AtHand
    <3>. QED  BY <2>1, <2>3, <3>2
  <2>. QED  BY <2>2, <2>3
<1>9. PICK t : t = Tale(e)
  OBVIOUS
<1>10. AtHand(e) = {}
  BY <1>4 DEF AtHand
<1>11. AtLast(e)'
  <2>1. l + 1 > 0 /\ (k > 0 => 0 < k) /\ (~(k > 0) => k = 0)
    BY <1>2
  <2>. QED  BY <1>2, <1>3, <2>1 DEF AtLast
<1>12. ToldHeard(e)'
  <2>1. ASSUME NEW p \in DOMAIN t, t[p].kind \in FromBus
        PROVE  /\ t[p].n \in DOMAIN heard'[e]
               /\ <<t[p].n, t[p].i>> \in EventsOf(e, t[p].n)'
               /\ Before(e, t[p].n, t[p].i)'
    <3>1. t[p].n \in 1 .. l /\ <<t[p].n, t[p].i>> \in EventsOf(e, t[p].n)
      BY <1>5, <1>6, <1>9, <2>1 DEF ToldHeard
    <3>2. t[p].n \in 1 .. l + 1 /\ t[p].n < l + 1
      BY <1>2, <3>1
    <3>. QED  BY <1>3, <1>6, <1>7, <3>1, <3>2 DEF Before
  <2>. QED  BY <1>4, <1>9, <2>1 DEF ToldHeard
<1>13. HeardTold(e)'
  <2>1. ASSUME NEW n \in 1 .. l + 1, NEW x \in EventsOf(e, n)'
        PROVE  \/ x \in AtHand(e)'
               \/ \E p \in DOMAIN t : t[p].kind \in FromBus /\ x = <<t[p].n, t[p].i>>
    <3>1. CASE n = l + 1
      BY <1>8, <2>1, <3>1
    <3>2. CASE n # l + 1
      <4>1. n \in 1 .. l
        BY <1>2, <3>2
      <4>. QED  BY <1>5, <1>6, <1>7, <1>9, <1>10, <2>1, <4>1 DEF HeardTold
    <3>. QED  BY <3>1, <3>2
  <2>. QED  BY <1>4, <1>6, <1>9, <2>1 DEF HeardTold
<1>. QED  BY <1>4, <1>5, <1>11, <1>12, <1>13 DEF Follows

(* The next event of the message at hand is told: what is told comes       *)
(* before it, and the rest is still at hand.                               *)
LEMMA PostFollows ==
  ASSUME Typed, NEW e \in Ecu, Follows(e), phase[e] # "disposed", phase'[e] # "disposed",
         HasMessage(e), NEW m \in Msg, Posts(e, m), UNCHANGED <<seen, heard>>,
         m.kind \in FromBus, <<m.n, m.i>> \in AtHand(e), <<m.n, m.i>> \notin AtHand(e)',
         \A x \in AtHand(e) : x = <<m.n, m.i>> \/ x \in AtHand(e)',
         \A n, i \in Nat : Before(e, n, i) => n < m.n \/ (n = m.n /\ i < m.i),
         AtLast(e)',
         HasMessage(e)' =>
           /\ \A n, i \in Nat : Before(e, n, i) => Before(e, n, i)'
           /\ Before(e, m.n, m.i)'
  PROVE  Follows(e)'
<1>1. PICK t, u, l, v :
        /\ t = Tale(e) /\ u = Tale(e)' /\ l = Len(seen[e]) + Len(queue[e]) /\ v = Event(m)
  OBVIOUS
<1>2. /\ l \in Nat /\ DOMAIN t = 1 .. l /\ DOMAIN u = 1 .. l + 1
      /\ \A p \in 1 .. l : u[p] = t[p]
      /\ u[l + 1] = v
  <2>1. PICK s, q : s = seen[e] /\ q = queue[e]
    OBVIOUS
  <2>2. s \in Seq([kind : Kinds, n : Nat, i : Nat]) /\ q \in Seq(Msg)
    BY <2>1, TaleTyped
  <2>3. seen'[e] = s /\ queue'[e] = Append(q, m)
    BY <2>1 DEF Posts, Typed, PortTyped
  <2>4. LET a == TaleOf(s, q)
            b == TaleOf(s, Append(q, m))
            k == Len(s) + Len(q)
        IN  /\ k \in Nat /\ DOMAIN a = 1 .. k /\ DOMAIN b = 1 .. k + 1
            /\ \A p \in 1 .. k : b[p] = a[p]
            /\ b[k + 1] = Event(m)
    BY <2>2, TalePosts
  <2>5. t = TaleOf(s, q) /\ u = TaleOf(s, Append(q, m)) /\ l = Len(s) + Len(q)
    BY <1>1, <2>1, <2>3 DEF Tale
  <2>. QED  BY <1>1, <2>4, <2>5
<1>3. v.kind = m.kind /\ v.n = m.n /\ v.i = m.i /\ m.n \in Nat /\ m.i \in Nat
  BY <1>1 DEF Event, Msg
<1>4. AtLast(e) /\ ToldHeard(e) /\ HeardTold(e) /\ InOrder(t)
  BY <1>1 DEF Follows
<1>5. \A n : EventsOf(e, n)' = EventsOf(e, n)
  BY DEF EventsOf
<1>6. ASSUME NEW p \in 1 .. l, t[p].kind \in FromBus
      PROVE  /\ t[p].n \in Nat /\ t[p].i \in Nat
             /\ t[p].n \in DOMAIN heard[e] /\ <<t[p].n, t[p].i>> \in EventsOf(e, t[p].n)
             /\ Before(e, t[p].n, t[p].i)
             /\ t[p].n < m.n \/ (t[p].n = m.n /\ t[p].i < m.i)
  <2>1. /\ t[p].n \in DOMAIN heard[e] /\ <<t[p].n, t[p].i>> \in EventsOf(e, t[p].n)
        /\ Before(e, t[p].n, t[p].i)
    BY <1>1, <1>2, <1>4, <1>6 DEF ToldHeard
  <2>2. t[p].n \in Nat /\ t[p].i \in Nat
    BY <1>1, <1>2, TaleTyped
  <2>. QED  BY <2>1, <2>2
<1>7. InOrder(u)
  <2> SUFFICES ASSUME NEW p \in DOMAIN u, NEW q \in DOMAIN u, p < q,
                      u[p].kind \in FromBus, u[q].kind \in FromBus
               PROVE  u[p].n < u[q].n \/ (u[p].n = u[q].n /\ u[p].i < u[q].i)
    BY DEF InOrder
  <2>1. p \in 1 .. l /\ u[p] = t[p]
    BY <1>2
  <2>2. CASE q = l + 1
    BY <1>2, <1>3, <1>6, <2>1, <2>2
  <2>3. CASE q # l + 1
    <3>1. q \in 1 .. l /\ u[q] = t[q]
      BY <1>2, <2>3
    <3>. QED  BY <1>2, <1>4, <2>1, <3>1 DEF InOrder
  <2>. QED  BY <2>2, <2>3
<1>8. m.n = rx[e].n /\ m.n \in DOMAIN heard[e] /\ <<m.n, m.i>> \in EventsOf(e, m.n)
  <2>1. /\ rx[e].n = Len(heard[e]) /\ rx[e].n > 0 /\ heard[e] \in Seq(Nat)
        /\ rx[e].k = heard[e][rx[e].n] /\ rx[e].k \in Nat /\ rx[e].i \in Nat
        /\ IF rx[e].at = "faults" THEN rx[e].i < rx[e].k ELSE rx[e].k = 0
    BY <1>4 DEF AtLast, Typed, StreamTyped, RxTyped, Doing
  <2>2. m.n = rx[e].n
    BY DEF AtHand
  <2>3. m.n \in DOMAIN heard[e]
    BY <2>1, <2>2
  <2>4. m.i \in IF rx[e].k = 0 THEN {0} ELSE 1 .. rx[e].k
    <3>1. CASE rx[e].at = "faults"
      <4>1. m.i \in rx[e].i + 1 .. rx[e].k
        BY <3>1 DEF AtHand
      <4>. QED  BY <2>1, <3>1, <4>1
    <3>2. CASE rx[e].at # "faults"
      <4>1. m.i = 0
        BY <3>2 DEF AtHand, HasMessage
      <4>. QED  BY <2>1, <3>2, <4>1
    <3>. QED  BY <3>1, <3>2
  <2>. QED  BY <2>1, <2>2, <2>3, <2>4 DEF EventsOf
<1>9. ToldHeard(e)'
  <2>1. ASSUME NEW p \in 1 .. l + 1, u[p].kind \in FromBus
        PROVE  /\ u[p].n \in DOMAIN heard[e]
               /\ <<u[p].n, u[p].i>> \in EventsOf(e, u[p].n)
               /\ HasMessage(e)' => Before(e, u[p].n, u[p].i)'
    <3>1. CASE p = l + 1
      BY <1>2, <1>3, <1>8, <3>1
    <3>2. CASE p # l + 1
      <4>1. p \in 1 .. l /\ u[p] = t[p]
        BY <1>2, <3>2
      <4>. QED  BY <1>6, <2>1, <4>1
    <3>. QED  BY <3>1, <3>2
  <2>2. \A p \in DOMAIN u : u[p].kind \in FromBus =>
          /\ u[p].n \in DOMAIN heard'[e]
          /\ <<u[p].n, u[p].i>> \in EventsOf(e, u[p].n)'
          /\ HasMessage(e)' => Before(e, u[p].n, u[p].i)'
    BY <1>2, <1>5, <2>1
  <2>. QED  BY <1>1, <2>2 DEF ToldHeard
<1>10. HeardTold(e)'
  <2>1. ASSUME NEW n \in DOMAIN heard[e], NEW x \in EventsOf(e, n)
        PROVE  \/ x \in AtHand(e)'
               \/ \E p \in 1 .. l + 1 : u[p].kind \in FromBus /\ x = <<u[p].n, u[p].i>>
    <3>1. CASE x = <<m.n, m.i>>
      <4>1. l + 1 \in 1 .. l + 1
        BY <1>2
      <4>. QED  BY <1>2, <1>3, <3>1, <4>1
    <3>2. CASE x # <<m.n, m.i>> /\ x \in AtHand(e)
      BY <3>2
    <3>3. CASE x \notin AtHand(e)
      <4>1. PICK p \in 1 .. l : t[p].kind \in FromBus /\ x = <<t[p].n, t[p].i>>
        BY <1>1, <1>2, <1>4, <3>3 DEF HeardTold
      <4>2. p \in 1 .. l + 1 /\ u[p] = t[p]
        BY <1>2
      <4>. QED  BY <4>1, <4>2
    <3>. QED  BY <3>1, <3>2, <3>3
  <2>2. \A n \in DOMAIN heard'[e] : \A x \in EventsOf(e, n)' :
          \/ x \in AtHand(e)'
          \/ \E p \in DOMAIN u : u[p].kind \in FromBus /\ x = <<u[p].n, u[p].i>>
    BY <1>2, <1>5, <2>1
  <2>. QED  BY <1>1, <2>2 DEF HeardTold
<1>. QED  BY <1>1, <1>7, <1>9, <1>10 DEF Follows

LEMMA PostDm1Follows ==
  ASSUME Typed, NEW e \in Ecu, Follows(e), phase[e] # "disposed", PostDm1(e)
  PROVE  Follows(e)'
<1>1. PICK n, i, k : n = rx[e].n /\ i = rx[e].i /\ k = rx[e].k
  OBVIOUS
<1>2. /\ rx[e].at = "faults" /\ rx \in [Ecu -> Doing] /\ n \in Nat /\ i \in Nat /\ k \in Nat
      /\ rx[e].buf \in Buffer \cup {NoBuf}
  BY <1>1 DEF PostDm1, Typed, RxTyped, Doing
<1>3. /\ n = Len(heard[e]) /\ n > 0 /\ k = heard[e][n] /\ i < k
  BY <1>1, <1>2 DEF Follows, AtLast, HasMessage
<1>4. PICK m : m = FaultOf(n, i + 1)
  OBVIOUS
<1>5. m \in Msg /\ m.kind = "fault" /\ m.n = n /\ m.i = i + 1
  BY <1>2, <1>4 DEF FaultOf, Message, Msg, Kinds
<1>6. Posts(e, m) /\ UNCHANGED <<seen, heard, phase>>
  BY <1>1, <1>4 DEF PostDm1, stream, isolate
<1>7. /\ i + 1 < k => /\ rx'[e].at = "faults" /\ rx'[e].n = n /\ rx'[e].k = k
                      /\ rx'[e].i = i + 1
      /\ ~(i + 1 < k) => rx'[e].at = "idle"
  <2>1. rx' = [rx EXCEPT ![e] = IF i + 1 < k THEN [rx[e] EXCEPT !.i = i + 1] ELSE Idle]
    BY <1>1 DEF PostDm1
  <2>2. LET r == [rx[e] EXCEPT !.i = i + 1]
        IN  r.at = "faults" /\ r.n = n /\ r.k = k /\ r.i = i + 1
    BY <1>1, <1>2 DEF Doing
  <2>. QED  BY <1>2, <2>1, <2>2, Rests
<1>8. /\ AtHand(e) = {<<n, j>> : j \in i + 1 .. k}
      /\ AtHand(e)' = IF i + 1 < k THEN {<<n, j>> : j \in i + 2 .. k} ELSE {}
  <2>1. AtHand(e) = {<<n, j>> : j \in i + 1 .. k}
    BY <1>1, <1>2 DEF AtHand
  <2>2. CASE i + 1 < k
    <3>1. AtHand(e)' = {<<n, j>> : j \in (i + 1) + 1 .. k}
      BY <1>7, <2>2 DEF AtHand
    <3>2. (i + 1) + 1 = i + 2
      BY <1>2
    <3>. QED  BY <2>1, <2>2, <3>1, <3>2
  <2>3. CASE ~(i + 1 < k)
    BY <1>7, <2>1, <2>3 DEF AtHand
  <2>. QED  BY <2>2, <2>3
<1>9. <<m.n, m.i>> \in AtHand(e) /\ <<m.n, m.i>> \notin AtHand(e)'
  BY <1>2, <1>3, <1>5, <1>8
<1>10. \A x \in AtHand(e) : x = <<m.n, m.i>> \/ x \in AtHand(e)'
  <2> SUFFICES ASSUME NEW j \in i + 1 .. k, j # i + 1
               PROVE  <<n, j>> \in AtHand(e)'
    BY <1>5, <1>8
  <2>1. i + 1 < k /\ j \in i + 2 .. k
    BY <1>2
  <2>. QED  BY <1>8, <2>1
<1>11. ASSUME NEW a \in Nat, NEW b \in Nat, Before(e, a, b)
       PROVE  a < n \/ (a = n /\ b < i + 1)
  BY <1>1, <1>2, <1>11 DEF Before
<1>12. AtLast(e)'
  BY <1>3, <1>6, <1>7 DEF AtLast, HasMessage
<1>13. ASSUME HasMessage(e)'
       PROVE  /\ \A a, b \in Nat : Before(e, a, b) => Before(e, a, b)'
              /\ Before(e, m.n, m.i)'
  <2>1. rx'[e].at = "faults" /\ rx'[e].n = n /\ rx'[e].i = i + 1
    BY <1>7, <1>13 DEF HasMessage
  <2>2. \A b \in Nat : b < i + 1 => b <= i + 1
    BY <1>2
  <2>3. i + 1 <= i + 1
    BY <1>2
  <2>. QED  BY <1>5, <1>11, <2>1, <2>2, <2>3 DEF Before
<1>14. HasMessage(e) /\ m.kind \in FromBus /\ phase'[e] # "disposed"
  BY <1>2, <1>5, <1>6 DEF HasMessage, FromBus
<1>15. \A a, b \in Nat : Before(e, a, b) => a < m.n \/ (a = m.n /\ b < m.i)
  BY <1>5, <1>11
<1>. QED  BY <1>5, <1>6, <1>9, <1>10, <1>12, <1>13, <1>14, <1>15, PostFollows

LEMMA PostFrameFollows ==
  ASSUME Typed, NEW e \in Ecu, Follows(e), phase[e] # "disposed", PostFrame(e)
  PROVE  Follows(e)'
<1>1. PICK n : n = rx[e].n
  OBVIOUS
<1>2. /\ rx[e].at = "filled" /\ rx \in [Ecu -> Doing] /\ n \in Nat
      /\ rx[e].buf \in Buffer \cup {NoBuf}
  BY <1>1 DEF PostFrame, Typed, RxTyped, Doing
<1>3. PICK m : m = FrameOf(n, rx[e].buf)
  OBVIOUS
<1>4. m \in Msg /\ m.kind = "frame" /\ m.n = n /\ m.i = 0
  BY <1>2, <1>3 DEF FrameOf, Message, Msg, Kinds
<1>5. Posts(e, m) /\ UNCHANGED <<seen, heard, phase>> /\ rx'[e].at = "idle"
  BY <1>1, <1>2, <1>3, Rests DEF PostFrame, stream, isolate
<1>6. AtHand(e) = {<<m.n, m.i>>} /\ AtHand(e)' = {} /\ AtLast(e)' /\ ~HasMessage(e)'
  BY <1>1, <1>2, <1>4, <1>5 DEF AtHand, AtLast, HasMessage
<1>7. \A a, b \in Nat : Before(e, a, b) => a < m.n \/ (a = m.n /\ b < m.i)
  BY <1>1, <1>2, <1>4 DEF Before
<1>8. HasMessage(e) /\ m.kind \in FromBus /\ phase'[e] # "disposed"
  BY <1>2, <1>4, <1>5 DEF HasMessage, FromBus
<1>. QED  BY <1>4, <1>5, <1>6, <1>7, <1>8, PostFollows

LEMMA FillsFollows ==
  ASSUME Typed, NEW e \in Ecu, Follows(e), NEW b, Fills(e, b)
  PROVE  Follows(e)'
<1>1. /\ rx[e].at = "frame" /\ rx'[e].at = "filled" /\ rx'[e].n = rx[e].n
      /\ rx'[e].k = rx[e].k
  BY DEF Fills, Typed, RxTyped, Doing
<1>2. UNCHANGED <<phase, seen, heard, queue>>
  BY DEF Fills, isolate, stream
<1>3. SameOf(FromBus, Tale(e), Tale(e)')
  BY <1>2, SameOfSelf DEF Tale
<1>4. phase[e] # "disposed"
  BY <1>1 DEF Follows
<1>5. AtHand(e)' = AtHand(e) /\ HasMessage(e)
  BY <1>1 DEF AtHand, HasMessage
<1>6. AtLast(e)'
  BY <1>1, <1>2, <1>4, <1>5 DEF Follows, AtLast, HasMessage
<1>7. \A n, i : Before(e, n, i) => Before(e, n, i)'
  BY <1>1 DEF Before
<1>. QED  BY <1>2, <1>3, <1>4, <1>5, <1>6, <1>7, KeepsFollows

(* A step that leaves e's stream, or adds or takes a message of none of    *)
(* the kinds, or handles one.                                              *)
LEMMA TaleSame ==
  ASSUME Typed, NEW e \in Ecu, NEW K, K \cap Results = {},
         \/ UNCHANGED <<seen[e], queue[e]>>
         \/ UNCHANGED seen[e] /\ \E m \in Msg : m.kind \notin K /\ Posts(e, m)
         \/ HandleEvent(e)
         \/ CompleteSend(e)
  PROVE  SameOf(K, Tale(e), Tale(e)')
<1>1. PICK s, q : s = seen[e] /\ q = queue[e]
  OBVIOUS
<1>2. s \in Seq([kind : Kinds, n : Nat, i : Nat]) /\ q \in Seq(Msg)
  BY <1>1, TaleTyped
<1>3. CASE UNCHANGED <<seen[e], queue[e]>>
  BY <1>3, SameOfSelf DEF Tale
<1>4. ASSUME NEW m \in Msg, m.kind \notin K, Posts(e, m), UNCHANGED seen[e]
      PROVE  SameOf(K, Tale(e), Tale(e)')
  <2>1. queue'[e] = Append(q, m) /\ seen'[e] = s
    BY <1>1, <1>4 DEF Posts, Typed, PortTyped
  <2>2. SameOf(K, TaleOf(s, q), TaleOf(s, Append(q, m)))
    BY <1>2, <1>4, TaleOther
  <2>. QED  BY <1>1, <2>1, <2>2 DEF Tale
<1>5. CASE HandleEvent(e)
  <2>1. /\ queue'[e] = Tail(q) /\ seen'[e] = Append(s, Event(Head(q))) /\ q # <<>>
    BY <1>1, <1>5 DEF HandleEvent, Takes, Typed, PortTyped, StreamTyped
  <2>2. Head(q) \in Msg
    BY <1>2, <2>1, TailFact
  <2>3. Event(Head(q)) \in [kind : Kinds, n : Nat, i : Nat]
    BY <2>2 DEF Event, Msg
  <2>4. TaleOf(Append(s, Event(Head(q))), Tail(q)) = TaleOf(s, q)
    <3>1. PICK S : S = [kind : Kinds, n : Nat, i : Nat]
      OBVIOUS
    <3>2. s \in Seq(S) /\ q \in Seq(Msg) /\ q # <<>> /\ Event(Head(q)) \in S
      BY <1>2, <2>1, <2>3, <3>1
    <3>. QED  BY <3>2, TaleHandles
  <2>5. Tale(e)' = Tale(e)
    BY <1>1, <2>1, <2>4 DEF Tale
  <2>. QED  BY <2>5, SameOfSelf
<1>6. CASE CompleteSend(e)
  <2>1. /\ queue'[e] = Tail(q) /\ seen'[e] = s /\ q # <<>> /\ Head(q).kind \in Results
    BY <1>1, <1>6 DEF CompleteSend, Takes, Typed, PortTyped, stream
  <2>2. Head(q).kind \notin K
    BY <2>1
  <2>3. SameOf(K, TaleOf(s, q), TaleOf(s, Tail(q)))
    BY <1>2, <2>1, <2>2, TaleTakes
  <2>. QED  BY <1>1, <2>1, <2>3 DEF Tale
<1>. QED  BY <1>3, <1>4, <1>5, <1>6

LEMMA DisposedTale ==
  ASSUME Typed, NEW e \in Ecu, NEW K, Disposed(e)
  PROVE  Ordered(K, Tale(e), Tale(e)') /\ Within(K, Tale(e), Tale(e)')
<1>1. PICK s, q : s = seen[e] /\ q = queue[e]
  OBVIOUS
<1>2. s \in Seq([kind : Kinds, n : Nat, i : Nat]) /\ q \in Seq(Msg)
  BY <1>1, TaleTyped
<1>3. queue'[e] = <<>> /\ seen'[e] = s
  BY <1>1 DEF Disposed, Closes, Typed, PortTyped, stream
<1>4. Ordered(K, TaleOf(s, q), TaleOf(s, <<>>)) /\ Within(K, TaleOf(s, q), TaleOf(s, <<>>))
  BY <1>2, TaleCut
<1>. QED  BY <1>1, <1>3, <1>4 DEF Tale

(* What a step of another ECU, the collector or the application leaves.    *)
LEMMA Elsewhere ==
  ASSUME Typed, NEW d \in Ecu,
         \/ \E e \in Ecu : e # d /\ EcuStep(e)
         \/ \E v \in views : Drop(v)
         \/ \E v \in garbage : Finalize(v)
         \/ UNCHANGED vars
  PROVE  UNCHANGED <<phase[d], rx[d], claim[d], queue[d], seen[d], heard[d]>>
<1>t. /\ phase \in [Ecu -> Phases] /\ rx \in [Ecu -> Doing] /\ queue \in [Ecu -> Seq(Msg)]
      /\ claim \in [Ecu -> Claims] /\ heard \in [Ecu -> Seq(Nat)]
      /\ seen \in [Ecu -> Seq([kind : Kinds, n : Nat, i : Nat])]
  BY DEF Typed, IsolateTyped, RxTyped, PortTyped, NativeTyped, StreamTyped
<1>1. ASSUME NEW e \in Ecu, e # d, EcuStep(e)
      PROVE  UNCHANGED <<phase[d], rx[d], claim[d], queue[d], seen[d], heard[d]>>
  <2>1. CASE CreateStep(e)
    BY <1>1, <1>t, <2>1 DEF CreateStep, Create, OnMessage, OnClaimResult, SetHandler, stream
  <2>2. CASE RxStep(e)
    BY <1>1, <1>t, <2>2
    DEF RxStep, Settle, Receive, Passes, PostDm1, PostFrame, AcquireFromPool, AcquireFromHeap,
        Fills, Posts, UnicastAnswered, isolate, stream
  <2>3. CASE SendStep(e) \/ AsioStep(e)
    BY <1>1, <1>t, <2>3
    DEF SendStep, SendInline, SendLater, AsioStep, BroadcastEnds, EndlessFails, UnicastTimesOut, Ends,
        Completes, Posts, isolate, stream
  <2>4. CASE HandleStep(e)
    BY <1>1, <1>t, <2>4 DEF HandleStep, HandleEvent, CompleteSend, Takes, isolate, stream
  <2>5. CASE DisposeStep(e)
    BY <1>1, <1>t, <2>5 DEF DisposeStep, Dispose, JoinAsio, Disposed, Closes, stream
  <2>. QED  BY <1>1, <2>1, <2>2, <2>3, <2>4, <2>5 DEF EcuStep
<1>2. CASE (\E v \in views : Drop(v)) \/ (\E v \in garbage : Finalize(v))
  BY <1>2 DEF Drop, Finalize, isolate, stream
<1>3. CASE UNCHANGED vars
  BY <1>3 DEF vars, isolate, stream
<1>. QED  BY <1>1, <1>2, <1>3

InStep == \A e \in Ecu : Follows(e)

LEMMA NextFollows == Typed /\ OffInv /\ InStep /\ [Next]_vars => InStep'
<1> SUFFICES ASSUME Typed, OffInv, InStep, [Next]_vars, NEW d \in Ecu
             PROVE  Follows(d)'
  BY DEF InStep
<1>0. Follows(d) /\ FromBus \cap Results = {}
  BY DEF InStep, FromBus, Results
<1>t. /\ phase \in [Ecu -> Phases] /\ rx \in [Ecu -> Doing]
      /\ (phase[d] = "disposed" => rx[d].at = "off")
  BY <1>0 DEF Typed, IsolateTyped, RxTyped, Follows
<1>1. ASSUME \/ UNCHANGED <<seen[d], queue[d]>>
             \/ UNCHANGED seen[d] /\ \E m \in Msg : m.kind \notin FromBus /\ Posts(d, m)
             \/ HandleEvent(d)
             \/ CompleteSend(d),
             phase'[d] = "disposed" <=> phase[d] = "disposed", UNCHANGED heard[d],
             \/ UNCHANGED rx[d]
             \/ phase[d] # "disposed" /\ ~HasMessage(d) /\ ~HasMessage(d)'
      PROVE  Follows(d)'
  <2>1. SameOf(FromBus, Tale(d), Tale(d)')
    BY <1>0, <1>1, TaleSame
  <2>. QED  BY <1>0, <1>1, <2>1, RestFollows
<1>2. CASE \/ \E e \in Ecu : e # d /\ EcuStep(e)
           \/ \E v \in views : Drop(v)
           \/ \E v \in garbage : Finalize(v)
           \/ UNCHANGED vars
  <2>1. UNCHANGED <<phase[d], rx[d], queue[d], seen[d], heard[d]>>
    BY <1>2, Elsewhere
  <2>. QED  BY <1>1, <2>1
<1>3. CASE CreateStep(d)
  <2>1. UNCHANGED <<seen, heard, queue>>
    BY <1>3 DEF CreateStep, Create, OnMessage, OnClaimResult, SetHandler, stream
  <2>2. CASE Create(d)
    <3>1. phase[d] = "none" /\ phase'[d] = "threads" /\ rx'[d] = Idle
      BY <1>t, <2>2 DEF Create
    <3>2. rx[d].at = "off"
      BY <3>1 DEF OffInv
    <3>. QED  BY <1>1, <2>1, <3>1, <3>2, Rests DEF HasMessage
  <2>3. CASE OnMessage(d) \/ OnClaimResult(d)
    <3>1. rx'[d] = rx[d] /\ phase[d] # "disposed" /\ phase'[d] # "disposed"
      BY <1>t, <2>3 DEF OnMessage, OnClaimResult, SetHandler
    <3>. QED  BY <1>1, <2>1, <3>1
  <2>. QED  BY <1>3, <2>2, <2>3 DEF CreateStep
<1>4. CASE RxStep(d)
  <2>1. ASSUME NEW result \in {"claimed", "failed"}, Settle(d, result)
        PROVE  Follows(d)'
    <3>1. ClaimOf(result) \in Msg /\ ClaimOf(result).kind \notin FromBus
      BY DEF ClaimOf, Message, Msg, Kinds, FromBus
    <3>2. UNCHANGED <<seen, heard, phase, rx>>
      BY <2>1 DEF Settle, isolate, stream
    <3>3. UNCHANGED queue \/ Posts(d, ClaimOf(result))
      BY <2>1 DEF Settle
    <3>. QED  BY <1>1, <3>1, <3>2, <3>3
  <2>2. CASE \E k \in 0 .. MaxFaults, assembled \in BOOLEAN : Receive(d, k, assembled)
    BY <1>0, <2>2, ReceiveFollows
  <2>3. CASE Passes(d)
    <3>1. phase[d] # "disposed"
      BY <1>t, <2>3 DEF Passes, PostDm1, PostFrame, AcquireFromPool, AcquireFromHeap, Fills
    <3>. QED
      BY <1>0, <2>3, <3>1, PostDm1Follows, PostFrameFollows, FillsFollows
      DEF Passes, AcquireFromPool, AcquireFromHeap
  <2>4. CASE \E i \in Id : UnicastAnswered(d, i)
    <3>1. /\ rx[d].at = "idle" /\ rx'[d].at = "stuck" /\ UNCHANGED <<seen, heard, phase, queue>>
      BY <1>t, <2>4 DEF UnicastAnswered, isolate, stream, Idle, Off
    <3>. QED  BY <1>1, <1>t, <3>1 DEF HasMessage
  <2>. QED  BY <1>4, <2>1, <2>2, <2>3, <2>4 DEF RxStep
<1>5. CASE SendStep(d) \/ AsioStep(d)
  <2>1. UNCHANGED <<seen, heard, phase, rx>>
    BY <1>5 DEF SendStep, SendInline, SendLater, AsioStep, BroadcastEnds, EndlessFails, UnicastTimesOut, Ends,
       isolate, stream
  <2>2. \/ UNCHANGED queue
        \/ \E i \in Id, result \in Results : Posts(d, DoneOf(i, result))
    BY <1>5 DEF SendStep, SendInline, SendLater, AsioStep, BroadcastEnds, EndlessFails, UnicastTimesOut, Ends,
       Completes, Results
  <2>3. \A i \in Id, result \in Results :
          DoneOf(i, result) \in Msg /\ DoneOf(i, result).kind \notin FromBus
    BY BoundAssumption DEF DoneOf, Message, Msg, Kinds, Results, FromBus
  <2>. QED  BY <1>1, <2>1, <2>2, <2>3
<1>6. CASE HandleStep(d)
  <2>1. UNCHANGED <<heard, phase, rx>>
    BY <1>6 DEF HandleStep, HandleEvent, CompleteSend, isolate, stream
  <2>. QED  BY <1>1, <1>6, <2>1 DEF HandleStep
<1>7. CASE Dispose(d) \/ JoinAsio(d)
  <2>1. /\ UNCHANGED <<seen, heard, queue, rx>>
        /\ phase[d] # "disposed" /\ phase'[d] # "disposed"
    BY <1>7, <1>t DEF Dispose, Open, JoinAsio, stream
  <2>. QED  BY <1>1, <2>1
<1>8. CASE Disposed(d)
  <2>1. phase'[d] = "disposed" /\ rx'[d].at = "off"
    BY <1>8, <1>t, Rests DEF Disposed, Closes
  <2>2. PICK t, u : t = Tale(d) /\ u = Tale(d)'
    OBVIOUS
  <2>3. InOrder(u)
    <3>1. InOrder(t) /\ Ordered(FromBus, t, u)
      BY <1>0, <1>8, <2>2, DisposedTale DEF Follows
    <3>. QED  BY <3>1, OrderKept
  <2>. QED  BY <2>1, <2>2, <2>3 DEF Follows
<1>. QED
  BY <1>2, <1>3, <1>4, <1>5, <1>6, <1>7, <1>8 DEF Next, EcuStep, DisposeStep

(* The claim in the stream.                                                *)
OfClaim == {"claimed", "failed"}

Reported(t, result) == \E p \in DOMAIN t : t[p].kind = result

ClaimTold(e) ==
  /\ Reported(Tale(e), "failed") => claim[e] = "failed"
  /\ \A p, q \in DOMAIN Tale(e) :
       Tale(e)[p].kind = "claimed" /\ Tale(e)[q].kind = "claimed" => p = q
  /\ phase[e] # "disposed" => (claim[e] = "claimed" <=> Reported(Tale(e), "claimed"))

LEMMA ClaimKept ==
  ASSUME NEW t, NEW u, Ordered(OfClaim, t, u), Within(OfClaim, t, u),
         DOMAIN t \subseteq Nat, DOMAIN u \subseteq Nat
  PROVE  /\ \A result \in OfClaim : Reported(u, result) => Reported(t, result)
         /\ (\A p, q \in DOMAIN t : t[p].kind = "claimed" /\ t[q].kind = "claimed" => p = q)
              => (\A p, q \in DOMAIN u : u[p].kind = "claimed" /\ u[q].kind = "claimed" => p = q)
<1>1. \A result \in OfClaim : Reported(u, result) => Reported(t, result)
  BY DEF Within, Reported
<1>2. ASSUME \A p, q \in DOMAIN t : t[p].kind = "claimed" /\ t[q].kind = "claimed" => p = q,
             NEW p \in DOMAIN u, NEW q \in DOMAIN u,
             u[p].kind = "claimed", u[q].kind = "claimed", p < q
      PROVE  FALSE
  <2>1. PICK r \in DOMAIN t, s \in DOMAIN t : r < s /\ t[r] = u[p] /\ t[s] = u[q]
    BY <1>2 DEF Ordered, OfClaim
  <2>2. r = s /\ r \in Nat
    BY <1>2, <2>1
  <2>. QED  BY <2>1, <2>2
<1>3. \A p, q \in DOMAIN u : p = q \/ p < q \/ q < p
  OBVIOUS
<1>. QED  BY <1>1, <1>2, <1>3

LEMMA RestClaim ==
  ASSUME Typed, Typed', NEW d \in Ecu, ClaimTold(d), SameOf(OfClaim, Tale(d), Tale(d)'),
         phase'[d] = "disposed" <=> phase[d] = "disposed", UNCHANGED claim[d]
  PROVE  ClaimTold(d)'
<1>1. PICK t, u : t = Tale(d) /\ u = Tale(d)'
  OBVIOUS
<1>2. DOMAIN t \subseteq Nat /\ DOMAIN u \subseteq Nat
  BY <1>1, TalePlaces, TalePlacesNext
<1>3. Ordered(OfClaim, t, u) /\ Within(OfClaim, t, u) /\ Within(OfClaim, u, t)
  BY <1>1 DEF SameOf
<1>4. \A result \in OfClaim : Reported(u, result) <=> Reported(t, result)
  BY <1>3 DEF Within, Reported
<1>5. \A p, q \in DOMAIN u : u[p].kind = "claimed" /\ u[q].kind = "claimed" => p = q
  BY <1>1, <1>2, <1>3, ClaimKept DEF ClaimTold
<1>. QED  BY <1>1, <1>4, <1>5 DEF ClaimTold, OfClaim

LEMMA SettleClaim ==
  ASSUME Typed, NEW d \in Ecu, Follows(d), ClaimTold(d),
         NEW result \in {"claimed", "failed"}, Settle(d, result)
  PROVE  ClaimTold(d)'
<1>1. PICK s, q, m : s = seen[d] /\ q = queue[d] /\ m = ClaimOf(result)
  OBVIOUS
<1>2. /\ s \in Seq([kind : Kinds, n : Nat, i : Nat]) /\ q \in Seq(Msg)
      /\ m \in Msg /\ m.kind = result
  BY <1>1, TaleTyped DEF ClaimOf, Message, Msg, Kinds
<1>3. /\ rx[d].at = "idle" /\ phase'[d] = phase[d] /\ phase[d] # "disposed"
      /\ claim[d] = "open" \/ (claim[d] = "failed" /\ result = "failed")
      /\ claim'[d] = IF result = "claimed" /\ ~HasClaimHandler(d) THEN "unheard" ELSE result
      /\ seen'[d] = s
  BY <1>1 DEF Settle, isolate, stream, Follows, Typed, NativeTyped
<1>4. PICK t, u : t = TaleOf(s, q) /\ u = TaleOf(s, Append(q, m))
  OBVIOUS
<1>5. /\ Reported(t, "failed") => claim[d] = "failed"
      /\ ~Reported(t, "claimed")
  BY <1>1, <1>3, <1>4 DEF ClaimTold, Tale
<1>6. CASE HasClaimHandler(d)
  <2>1. Tale(d)' = u
    <3>1. queue'[d] = Append(q, m)
      BY <1>1, <1>6 DEF Settle, Posts, Typed, PortTyped
    <3>. QED  BY <1>3, <1>4, <3>1 DEF Tale
  <2>2. PICK l : /\ l \in Nat /\ DOMAIN t = 1 .. l /\ DOMAIN u = 1 .. l + 1
                 /\ \A p \in 1 .. l : u[p] = t[p]
                 /\ u[l + 1] = Event(m)
    <3>1. PICK S : S = [kind : Kinds, n : Nat, i : Nat]
      OBVIOUS
    <3>2. s \in Seq(S) /\ q \in Seq(Msg) /\ m \in Msg
      BY <1>2, <3>1
    <3>3. LET l == Len(s) + Len(q)
          IN  /\ l \in Nat /\ DOMAIN t = 1 .. l /\ DOMAIN u = 1 .. l + 1
              /\ \A p \in 1 .. l : u[p] = t[p]
              /\ u[l + 1] = Event(m)
      BY <1>4, <3>2, TalePosts
    <3>. QED  BY <3>3
  <2>3. u[l + 1].kind = result
    BY <1>2, <2>2 DEF Event
  <2>4. \A p \in DOMAIN u : p = l + 1 \/ (p \in DOMAIN t /\ u[p] = t[p])
    BY <2>2
  <2>5. \A p \in DOMAIN u : u[p].kind = "claimed" => p = l + 1
    BY <1>5, <2>4 DEF Reported
  <2>6. l + 1 \in DOMAIN u
    BY <2>2
  <2>7. claim'[d] = result
    BY <1>3, <1>6
  <2>8. CASE result = "claimed"
    <3>1. claim[d] = "open" /\ ~Reported(t, "failed")
      BY <1>3, <1>5, <2>8
    <3>2. ~Reported(u, "failed") /\ Reported(u, "claimed")
      BY <2>3, <2>4, <2>6, <2>8, <3>1 DEF Reported
    <3>. QED  BY <2>1, <2>5, <2>7, <2>8, <3>2 DEF ClaimTold
  <2>9. CASE result = "failed"
    <3>1. ~Reported(u, "claimed")
      BY <1>5, <2>3, <2>4, <2>9 DEF Reported
    <3>. QED  BY <2>1, <2>5, <2>7, <2>9, <3>1 DEF ClaimTold
  <2>. QED  BY <2>8, <2>9
<1>7. CASE ~HasClaimHandler(d)
  <2>1. Tale(d)' = t
    <3>1. queue'[d] = q
      BY <1>1, <1>7 DEF Settle
    <3>. QED  BY <1>3, <1>4, <3>1 DEF Tale
  <2>2. claim'[d] # "claimed"
    BY <1>3, <1>7
  <2>3. Reported(t, "failed") => claim'[d] = "failed"
    BY <1>3, <1>5
  <2>4. \A p \in DOMAIN t : t[p].kind # "claimed"
    BY <1>5 DEF Reported
  <2>. QED  BY <1>5, <2>1, <2>2, <2>3, <2>4 DEF ClaimTold
<1>. QED  BY <1>6, <1>7

ClaimsTold == \A e \in Ecu : ClaimTold(e)

LEMMA NextClaims == Typed /\ InStep /\ ClaimsTold /\ [Next]_vars => ClaimsTold'
<1> SUFFICES ASSUME Typed, InStep, ClaimsTold, [Next]_vars, NEW d \in Ecu
             PROVE  ClaimTold(d)'
  BY DEF ClaimsTold
<1>0. ClaimTold(d) /\ Follows(d) /\ OfClaim \cap Results = {} /\ Typed'
  BY NextTyped DEF ClaimsTold, InStep, OfClaim, Results
<1>t. phase \in [Ecu -> Phases] /\ rx \in [Ecu -> Doing]
  BY DEF Typed, IsolateTyped, RxTyped
<1>1. ASSUME \/ UNCHANGED <<seen[d], queue[d]>>
             \/ UNCHANGED seen[d] /\ \E m \in Msg : m.kind \notin OfClaim /\ Posts(d, m)
             \/ HandleEvent(d)
             \/ CompleteSend(d),
             phase'[d] = "disposed" <=> phase[d] = "disposed", UNCHANGED claim[d]
      PROVE  ClaimTold(d)'
  <2>1. SameOf(OfClaim, Tale(d), Tale(d)')
    BY <1>0, <1>1, TaleSame
  <2>. QED  BY <1>0, <1>1, <2>1, RestClaim
<1>2. CASE \/ \E e \in Ecu : e # d /\ EcuStep(e)
           \/ \E v \in views : Drop(v)
           \/ \E v \in garbage : Finalize(v)
           \/ UNCHANGED vars
  <2>1. UNCHANGED <<phase[d], claim[d], queue[d], seen[d]>>
    BY <1>2, Elsewhere
  <2>. QED  BY <1>1, <2>1
<1>3. CASE CreateStep(d) \/ Dispose(d) \/ JoinAsio(d)
  <2>1. /\ UNCHANGED <<seen, claim, queue>>
        /\ phase[d] # "disposed" /\ phase'[d] # "disposed"
    BY <1>3, <1>t
    DEF CreateStep, Create, OnMessage, OnClaimResult, SetHandler, Dispose, Open, JoinAsio, stream
  <2>. QED  BY <1>1, <2>1
<1>4. CASE RxStep(d)
  <2>1. CASE \E result \in {"claimed", "failed"} : Settle(d, result)
    BY <1>0, <2>1, SettleClaim
  <2>2. ASSUME UNCHANGED <<seen, claim, phase>>,
               UNCHANGED queue \/ \E m \in Msg : m.kind \notin OfClaim /\ Posts(d, m)
        PROVE  ClaimTold(d)'
    BY <1>1, <2>2
  <2>3. CASE PostDm1(d)
    <3>1. FaultOf(rx[d].n, rx[d].i + 1) \in Msg /\ FaultOf(rx[d].n, rx[d].i + 1).kind \notin OfClaim
      BY <1>t DEF FaultOf, Message, Msg, Kinds, OfClaim, Doing
    <3>. QED  BY <2>2, <2>3, <3>1 DEF PostDm1, isolate, stream
  <2>4. CASE PostFrame(d)
    <3>1. FrameOf(rx[d].n, rx[d].buf) \in Msg /\ FrameOf(rx[d].n, rx[d].buf).kind \notin OfClaim
      BY <1>t DEF FrameOf, Message, Msg, Kinds, OfClaim, Doing
    <3>. QED  BY <2>2, <2>4, <3>1 DEF PostFrame, isolate, stream
  <2>5. CASE \/ \E k \in 0 .. MaxFaults, assembled \in BOOLEAN : Receive(d, k, assembled)
             \/ AcquireFromPool(d) \/ \E b \in Heap : AcquireFromHeap(d, b)
             \/ \E i \in Id : UnicastAnswered(d, i)
    BY <2>2, <2>5
    DEF Receive, AcquireFromPool, AcquireFromHeap, Fills, UnicastAnswered, isolate, stream
  <2>. QED  BY <1>4, <2>1, <2>3, <2>4, <2>5 DEF RxStep, Passes
<1>5. CASE SendStep(d) \/ AsioStep(d)
  <2>1. UNCHANGED <<seen, claim, phase>>
    BY <1>5 DEF SendStep, SendInline, SendLater, AsioStep, BroadcastEnds, EndlessFails, UnicastTimesOut, Ends,
       isolate, stream
  <2>2. \/ UNCHANGED queue
        \/ \E i \in Id, result \in Results : Posts(d, DoneOf(i, result))
    BY <1>5 DEF SendStep, SendInline, SendLater, AsioStep, BroadcastEnds, EndlessFails, UnicastTimesOut, Ends,
       Completes, Results
  <2>3. \A i \in Id, result \in Results :
          DoneOf(i, result) \in Msg /\ DoneOf(i, result).kind \notin OfClaim
    BY BoundAssumption DEF DoneOf, Message, Msg, Kinds, Results, OfClaim
  <2>. QED  BY <1>1, <2>1, <2>2, <2>3
<1>6. CASE HandleStep(d)
  <2>1. UNCHANGED <<claim, phase>>
    BY <1>6 DEF HandleStep, HandleEvent, CompleteSend, isolate
  <2>. QED  BY <1>1, <1>6, <2>1 DEF HandleStep
<1>7. CASE Disposed(d)
  <2>1. phase'[d] = "disposed" /\ claim' = claim
    BY <1>7, <1>t DEF Disposed, Closes
  <2>2. PICK t, u : t = Tale(d) /\ u = Tale(d)'
    OBVIOUS
  <2>3. DOMAIN t \subseteq Nat /\ DOMAIN u \subseteq Nat
    BY <1>0, <2>2, TalePlaces, TalePlacesNext
  <2>4. Ordered(OfClaim, t, u) /\ Within(OfClaim, t, u)
    BY <1>7, <2>2, DisposedTale
  <2>5. /\ Reported(u, "failed") => claim'[d] = "failed"
        /\ \A p, q \in DOMAIN u : u[p].kind = "claimed" /\ u[q].kind = "claimed" => p = q
    BY <1>0, <2>1, <2>2, <2>3, <2>4, ClaimKept DEF ClaimTold, OfClaim
  <2>. QED  BY <2>1, <2>2, <2>5 DEF ClaimTold
<1>. QED
  BY <1>2, <1>3, <1>4, <1>5, <1>6, <1>7 DEF Next, EcuStep, DisposeStep

(* What the stream holds, the tale tells. *)
LEMMA StreamTale ==
  ASSUME Typed, NEW e \in Ecu
  PROVE  /\ DOMAIN Stream(e) = DOMAIN Tale(e)
         /\ \A p \in DOMAIN Tale(e) : Tale(e)[p] = Event(Stream(e)[p])
         /\ Range(Stream(e)) = {Stream(e)[p] : p \in DOMAIN Tale(e)}
<1>1. PICK s, q : s = seen[e] /\ q = queue[e]
  OBVIOUS
<1>2. PICK S : S = [kind : Kinds, n : Nat, i : Nat]
  OBVIOUS
<1>3. s \in Seq(S) /\ q \in Seq(Msg)
  BY <1>1, <1>2, TaleTyped
<1>4. DOMAIN (s \o q) = 1 .. Len(s) + Len(q)
  <2>1. s \in Seq(S \cup Msg) /\ q \in Seq(S \cup Msg)
    BY <1>3
  <2>. QED  BY <2>1
<1>5. Stream(e) = s \o q
  BY <1>1 DEF Stream
<1>6. /\ DOMAIN Tale(e) = 1 .. Len(s) + Len(q)
      /\ \A p \in DOMAIN Tale(e) : Tale(e)[p] = Event((s \o q)[p])
  BY <1>1 DEF Tale, TaleOf
<1>. QED  BY <1>4, <1>5, <1>6 DEF Range

LEMMA FollowsTells ==
  ASSUME Typed, NEW e \in Ecu, Follows(e), phase[e] # "disposed"
  PROVE  Passed(e) \cup AtHand(e) = UNION {EventsOf(e, n) : n \in DOMAIN heard[e]}
<1>1. PICK t : t = Tale(e)
  OBVIOUS
<1>2. Passed(e) = {<<t[p].n, t[p].i>> : p \in {r \in DOMAIN t : t[r].kind \in FromBus}}
  <2>1. PICK s : s = Stream(e)
    OBVIOUS
  <2>2. \A p \in DOMAIN t : t[p].kind = s[p].kind /\ t[p].n = s[p].n /\ t[p].i = s[p].i
    BY <1>1, <2>1, StreamTale DEF Event
  <2>3. Range(s) = {s[p] : p \in DOMAIN t}
    BY <1>1, <2>1, StreamTale
  <2>4. Passed(e) = {<<m.n, m.i>> : m \in {q \in Range(s) : q.kind \in FromBus}}
    BY <2>1 DEF Passed
  <2>. QED  BY <2>2, <2>3, <2>4
<1>3. /\ \A p \in DOMAIN t : t[p].kind \in FromBus =>
           t[p].n \in DOMAIN heard[e] /\ <<t[p].n, t[p].i>> \in EventsOf(e, t[p].n)
      /\ \A n \in DOMAIN heard[e] : \A x \in EventsOf(e, n) :
           \/ x \in AtHand(e)
           \/ \E p \in DOMAIN t : t[p].kind \in FromBus /\ x = <<t[p].n, t[p].i>>
  BY <1>1 DEF Follows, ToldHeard, HeardTold
<1>4. \A x \in AtHand(e) : \E n \in DOMAIN heard[e] : x \in EventsOf(e, n)
  <2> SUFFICES ASSUME HasMessage(e)
               PROVE  \A x \in AtHand(e) : \E n \in DOMAIN heard[e] : x \in EventsOf(e, n)
    BY DEF AtHand, HasMessage
  <2>1. PICK n, k, j : n = rx[e].n /\ k = rx[e].k /\ j = rx[e].i
    OBVIOUS
  <2>2. /\ n = Len(heard[e]) /\ n > 0 /\ heard[e] \in Seq(Nat)
        /\ k = heard[e][n] /\ k \in Nat /\ j \in Nat
        /\ IF rx[e].at = "faults" THEN j < k ELSE k = 0
    BY <2>1 DEF Follows, AtLast, Typed, StreamTyped, RxTyped, Doing
  <2>3. n \in DOMAIN heard[e]
    BY <2>2
  <2>4. EventsOf(e, n) = {<<n, i>> : i \in IF k = 0 THEN {0} ELSE 1 .. k}
    BY <2>2 DEF EventsOf
  <2>5. CASE rx[e].at = "faults"
    <3>1. AtHand(e) = {<<n, i>> : i \in j + 1 .. k}
      BY <2>1, <2>5 DEF AtHand
    <3>2. k # 0 /\ \A i \in j + 1 .. k : i \in 1 .. k
      BY <2>2, <2>5
    <3>. QED  BY <2>3, <2>4, <3>1, <3>2
  <2>6. CASE rx[e].at # "faults"
    <3>1. AtHand(e) = {<<n, 0>>} /\ k = 0
      BY <2>1, <2>2, <2>6 DEF AtHand, HasMessage
    <3>. QED  BY <2>3, <2>4, <3>1
  <2>. QED  BY <2>5, <2>6
<1>5. \A x \in Passed(e) : \E n \in DOMAIN heard[e] : x \in EventsOf(e, n)
  BY <1>2, <1>3
<1>6. \A n \in DOMAIN heard[e] : \A x \in EventsOf(e, n) : x \in Passed(e) \/ x \in AtHand(e)
  BY <1>2, <1>3
<1>. QED  BY <1>4, <1>5, <1>6

LEMMA Followed == Typed /\ InStep /\ ClaimsTold => StreamFollowsBus
<1> SUFFICES ASSUME Typed, InStep, ClaimsTold, NEW e \in Ecu
             PROVE  /\ InOrder(Stream(e))
                    /\ Reports(e, "failed") # {} => claim[e] = "failed"
                    /\ phase[e] # "disposed" =>
                         /\ Passed(e) \cup AtHand(e) = UNION {EventsOf(e, n) : n \in DOMAIN heard[e]}
                         /\ claim[e] = "claimed" =>
                              \E p \in Reports(e, "claimed") : Reports(e, "claimed") = {p}
                         /\ claim[e] # "claimed" => Reports(e, "claimed") = {}
  BY DEF StreamFollowsBus
<1>1. Follows(e) /\ ClaimTold(e)
  BY DEF InStep, ClaimsTold
<1>2. PICK s, t : s = Stream(e) /\ t = Tale(e)
  OBVIOUS
<1>3. /\ DOMAIN s = DOMAIN t
      /\ \A p \in DOMAIN t : t[p].kind = s[p].kind /\ t[p].n = s[p].n /\ t[p].i = s[p].i
  BY <1>2, StreamTale DEF Event
<1>4. InOrder(s)
  <2>1. InOrder(t)
    BY <1>1, <1>2 DEF Follows
  <2>. QED  BY <1>3, <2>1 DEF InOrder
<1>5. \A result : Reports(e, result) = {p \in DOMAIN t : t[p].kind = result}
  BY <1>2, <1>3 DEF Reports
<1>6. /\ Reported(t, "failed") => claim[e] = "failed"
      /\ \A p, q \in DOMAIN t : t[p].kind = "claimed" /\ t[q].kind = "claimed" => p = q
      /\ phase[e] # "disposed" => (claim[e] = "claimed" <=> Reported(t, "claimed"))
  BY <1>1, <1>2 DEF ClaimTold
<1>7. Reports(e, "failed") # {} => claim[e] = "failed"
  BY <1>5, <1>6 DEF Reported
<1>8. \A p \in Reports(e, "claimed") : Reports(e, "claimed") = {p}
  BY <1>5, <1>6
<1>9. phase[e] # "disposed" => (claim[e] = "claimed" <=> Reports(e, "claimed") # {})
  BY <1>5, <1>6 DEF Reported
<1>. QED  BY <1>1, <1>2, <1>4, <1>7, <1>8, <1>9, FollowsTells

LEMMA InitFollows == Init => InStep /\ ClaimsTold
<1> SUFFICES ASSUME Init, NEW e \in Ecu PROVE Follows(e) /\ ClaimTold(e)
  BY DEF InStep, ClaimsTold
<1>1. /\ phase[e] = "none" /\ rx[e] = Off /\ seen[e] = <<>> /\ queue[e] = <<>>
      /\ heard[e] = <<>> /\ claim[e] = "open"
  BY DEF Init
<1>2. DOMAIN Tale(e) = {}
  BY <1>1 DEF Tale, TaleOf
<1>3. rx[e].at = "off" /\ ~HasMessage(e)
  BY <1>1 DEF Off, HasMessage
<1>4. DOMAIN heard[e] = {}
  BY <1>1
<1>5. Follows(e)
  <2>1. AtLast(e) /\ ToldHeard(e) /\ HeardTold(e)
    BY <1>2, <1>3, <1>4 DEF AtLast, ToldHeard, HeardTold
  <2>2. InOrder(Tale(e))
    BY <1>2 DEF InOrder
  <2>. QED  BY <1>3, <2>1, <2>2 DEF Follows
<1>6. ClaimTold(e)
  BY <1>1, <1>2 DEF ClaimTold, Reported
<1>. QED  BY <1>5, <1>6

(* What the application was told of the bus, and what its port still holds,*)
(* is what the receive thread heard since on_message(): each message and   *)
(* each fault of a DM1 once and in order, for any number of ECUs, messages *)
(* and buffers, whichever thread took the last slot of the pool, and until *)
(* dispose() cuts it off. A claim that succeeded is reported once, and     *)
(* never by an ECU that has failed to claim.                               *)
THEOREM StreamIsTheBus == Spec => []StreamFollowsBus
<1>1. Typed /\ OffInv /\ InStep /\ ClaimsTold /\ [Next]_vars => (InStep /\ ClaimsTold)'
  BY NextFollows, NextClaims
<1>. QED  BY <1>1, InitFollows, Followed, AlwaysOwned, PTL DEF Spec
=============================================================================
