-------------------------- MODULE FastPacketProofs ---------------------------
(***************************************************************************)
(* Theorems about FastPacket.                                              *)
(*                                                                         *)
(* Intact: no loss, expiry or eviction makes the receiver hand a mixed     *)
(* message to the application, but for the two mixtures DeliveredIntact    *)
(* names; the sequence counter may come round any number of times and any  *)
(* number of sends may fail.                                               *)
(*                                                                         *)
(* LossStaysLocal: a message of which no frame was lost, which no plain    *)
(* frame crossed and whose session was neither expired nor evicted, is     *)
(* delivered, whatever became of the other messages and wherever the       *)
(* counter is.                                                             *)
(*                                                                         *)
(* TypeCorrect: the receiver keeps no more sessions than it may.           *)
(***************************************************************************)
EXTENDS FastPacket, TLAPS, SequenceTheorems, FiniteSetTheorems

-----------------------------------------------------------------------------
(* The inductive invariant. *)

Typing ==
  /\ current \in [Source -> Message \cup {None}]
  /\ index \in [Source -> Nat]
  /\ sent \in [Source -> Nat]
  /\ fails \in [Source -> Nat]
  /\ queue \in Seq(Frame)
  /\ sessions \in [Key -> Session \cup {None}]
  /\ out \in SUBSET Message
  /\ mishaps \in Nat

(* The message being sent has the number the counter stands at. *)
SenderInv ==
  \A s \in Source :
    current[s] # None => current[s].src = s /\ current[s].num = sent[s]

(* Every frame carries the sequence counter of its message. *)
Counted(f) == f.seq = f.msg.num % SeqMod

(* Frames g and then f go by the same counter: f is of the same message,   *)
(* or the mixture is one of those that R, the reused messages, explains.   *)
Told(g, f, R) ==
  KeyOf(f) = KeyOf(g) /\ f.seq = g.seq /\ ~g.msg.plain
    => f.msg = g.msg \/ f.msg.plain \/ f.msg \in R

QueueInv ==
  /\ \A i \in DOMAIN queue : Counted(queue[i])
  /\ \A i, j \in DOMAIN queue : i < j => Told(queue[i], queue[j], reused)

(* The first n frames of message m. *)
Prefix(m, n) ==
  [i \in 1 .. n |-> [msg |-> m, seq |-> m.num % SeqMod, index |-> i - 1]]

Mixed(m, data, R) ==
  \E i \in DOMAIN data : data[i].msg.plain \/ data[i].msg \in R \ {m}

(* What a session of key k holds: the frames of one message so far.        *)
Sound(k, session, R) ==
  /\ KeyOf(session.head) = k
  /\ Counted(session.head)
  /\ session.next < session.head.msg.size
  /\ \/ session.data = Prefix(session.head.msg, session.next)
     \/ Mixed(session.head.msg, session.data, R)

SessionInv ==
  \A k \in Key : sessions[k] # None =>
    /\ Sound(k, sessions[k], reused)
    /\ \A i \in DOMAIN queue : Told(sessions[k].head, queue[i], reused)

(* Of the frames about, those that go by the counter of the message being  *)
(* sent are its own, or it is known as a reuse.                            *)
CurrentInv ==
  \A s \in Source : current[s] # None =>
    /\ \A i \in DOMAIN queue : Told(queue[i], NextFrame(s), reused)
    /\ \A k \in Key : sessions[k] # None => Told(sessions[k].head, NextFrame(s), reused)

IntactInv ==
  Typing /\ SenderInv /\ QueueInv /\ SessionInv /\ CurrentInv /\ DeliveredIntact

-----------------------------------------------------------------------------
LEMMA MoreTold ==
  ASSUME NEW R, NEW S, R \subseteq S, NEW g, NEW f, Told(g, f, R)
  PROVE  Told(g, f, S)
  BY DEF Told

LEMMA MoreSound ==
  ASSUME NEW R, NEW S, R \subseteq S, NEW k, NEW session, Sound(k, session, R)
  PROVE  Sound(k, session, S)
  BY DEF Sound, Mixed

LEMMA FrameKey ==
  ASSUME NEW f \in Frame
  PROVE  KeyOf(f) \in Key /\ f.msg \in Message /\ f.msg # None
  BY NoneAssumption DEF Frame, Message, KeyOf, Key

LEMMA InitIntact == Init => IntactInv
  <1> SUFFICES ASSUME Init PROVE IntactInv
    OBVIOUS
  <1> USE DEF Init
  <1>1. Typing
    BY DEF Typing
  <1>2. SenderInv /\ QueueInv /\ SessionInv /\ CurrentInv /\ DeliveredIntact
    BY DEF SenderInv, QueueInv, SessionInv, CurrentInv, DeliveredIntact
  <1> QED
    BY <1>1, <1>2 DEF IntactInv

-----------------------------------------------------------------------------
(* The senders' steps: the queue grows by a frame that is told, or not at  *)
(* all; the receiver is left alone.                                        *)

LEMMA FramesKept ==
  ASSUME IntactInv, reused \subseteq reused', UNCHANGED <<queue, sessions, delivered>>
  PROVE  QueueInv' /\ SessionInv' /\ DeliveredIntact'
  <1>1. QueueInv /\ SessionInv /\ DeliveredIntact
    BY DEF IntactInv
  <1>2. QueueInv'
    BY <1>1, MoreTold DEF QueueInv
  <1>3. SessionInv'
    BY <1>1, MoreTold, MoreSound DEF SessionInv
  <1>4. DeliveredIntact'
    BY <1>1 DEF DeliveredIntact, Whole
  <1> QED
    BY <1>2, <1>3, <1>4

LEMMA QueueGrows ==
  ASSUME IntactInv, NEW f \in Frame, Counted(f), queue' = Append(queue, f),
         \A i \in DOMAIN queue : Told(queue[i], f, reused),
         \A k \in Key : sessions[k] # None => Told(sessions[k].head, f, reused),
         UNCHANGED <<reused, sessions, delivered>>
  PROVE  queue' \in Seq(Frame) /\ QueueInv' /\ SessionInv' /\ DeliveredIntact'
  <1>1. Typing /\ QueueInv /\ SessionInv /\ DeliveredIntact
    BY DEF IntactInv
  <1>2. queue \in Seq(Frame) /\ queue' \in Seq(Frame)
    BY <1>1 DEF Typing
  <1>3. \A i \in DOMAIN queue' :
          \/ i \in DOMAIN queue /\ queue'[i] = queue[i]
          \/ queue'[i] = f /\ \A j \in DOMAIN queue' : j <= i
    BY <1>2
  <1>4. DOMAIN queue' \in SUBSET Nat
    BY <1>2
  <1>5. \A i \in DOMAIN queue' : Counted(queue'[i])
    BY <1>1, <1>3 DEF QueueInv
  <1>6. ASSUME NEW i \in DOMAIN queue', NEW j \in DOMAIN queue', i < j
        PROVE  Told(queue'[i], queue'[j], reused)
    <2>1. i \in DOMAIN queue /\ queue'[i] = queue[i]
      BY <1>3, <1>4, <1>6
    <2> QED
      BY <1>1, <1>3, <1>6, <2>1 DEF QueueInv
  <1>7. QueueInv'
    BY <1>5, <1>6 DEF QueueInv
  <1>8. SessionInv'
    BY <1>1, <1>3 DEF SessionInv
  <1>9. DeliveredIntact'
    BY <1>1 DEF DeliveredIntact, Whole
  <1> QED
    BY <1>2, <1>7, <1>8, <1>9

LEMMA BeginIntact ==
  ASSUME IntactInv, NEW s \in Source, NEW p \in Pgn, NEW size \in Sizes, Begin(s, p, size)
  PROVE  IntactInv'
  <1> DEFINE m == [src |-> s, num |-> sent[s], try |-> fails[s], pgn |-> p, size |-> size,
                   plain |-> FALSE]
  <1>1. /\ Typing /\ SenderInv /\ CurrentInv
        /\ current' = [current EXCEPT ![s] = m]
        /\ reused' = IF About(<<s, p>>, sent[s] % SeqMod) THEN reused \cup {m} ELSE reused
        /\ UNCHANGED <<index, sent, fails, out, crossed, queue, receiver, loss>>
    BY DEF Begin, IntactInv
  <1>2. m \in Message
    BY <1>1, SizeAssumption DEF Typing, Message
  <1>3. Typing'
    BY <1>1, <1>2 DEF Typing, receiver, loss
  <1>4. SenderInv'
    BY <1>1, <1>2 DEF SenderInv, Typing
  <1>5. reused \subseteq reused' /\ UNCHANGED <<queue, sessions, delivered>>
    BY <1>1 DEF receiver
  <1>6. QueueInv' /\ SessionInv' /\ DeliveredIntact'
    BY <1>5, FramesKept
  <1>7. CurrentInv'
    <2>1. ASSUME NEW g \in Frame, KeyOf(g) = <<s, p>>, g.seq = sent[s] % SeqMod,
                 \/ \E i \in DOMAIN queue : g = queue[i]
                 \/ \E k \in Key : sessions[k] # None /\ g = sessions[k].head
          PROVE  m \in reused'
      <3>1. \A k \in Key : sessions[k] # None => KeyOf(sessions[k].head) = k
        BY DEF IntactInv, SessionInv, Sound
      <3>2. About(<<s, p>>, sent[s] % SeqMod)
        BY <2>1, <3>1 DEF About
      <3> QED
        BY <1>1, <3>2
    <2>2. /\ \A i \in DOMAIN queue : queue[i] \in Frame
          /\ \A k \in Key : sessions[k] # None => sessions[k].head \in Frame
      BY <1>1 DEF Typing, Session
    <2>3. ASSUME NEW t \in Source, current'[t] # None, NEW g \in Frame,
                 \/ \E i \in DOMAIN queue : g = queue[i]
                 \/ \E k \in Key : sessions[k] # None /\ g = sessions[k].head
          PROVE  Told(g, NextFrame(t)', reused')
      <3>1. CASE t = s
        <4>1. NextFrame(t)' = [msg |-> m, seq |-> sent[s] % SeqMod, index |-> index[s]]
          BY <1>1, <3>1 DEF NextFrame, Typing
        <4>2. KeyOf(NextFrame(t)') = <<s, p>>
          BY <4>1 DEF KeyOf
        <4>3. ASSUME KeyOf(g) = <<s, p>>, g.seq = sent[s] % SeqMod
              PROVE  m \in reused'
          BY <2>1, <2>3, <4>3
        <4>4. NextFrame(t)'.msg = m /\ NextFrame(t)'.seq = sent[s] % SeqMod
          BY <4>1
        <4> HIDE DEF m
        <4> QED
          BY <4>2, <4>3, <4>4 DEF Told
      <3>2. CASE t # s
        <4>1. current[t] # None /\ NextFrame(t)' = NextFrame(t)
          BY <1>1, <2>3, <3>2 DEF NextFrame, Typing
        <4>2. Told(g, NextFrame(t), reused)
          BY <1>1, <2>3, <4>1 DEF CurrentInv
        <4> QED
          BY <1>5, <4>1, <4>2, MoreTold
      <3> QED
        BY <3>1, <3>2
    <2>4. ASSUME NEW t \in Source, current'[t] # None
          PROVE  /\ \A i \in DOMAIN queue : Told(queue[i], NextFrame(t)', reused')
                 /\ \A k \in Key : sessions[k] # None =>
                      Told(sessions[k].head, NextFrame(t)', reused')
      BY <2>2, <2>3, <2>4
    <2> QED
      BY <1>5, <2>4 DEF CurrentInv
  <1> QED
    BY <1>3, <1>4, <1>6, <1>7 DEF IntactInv

LEMMA SendIntact ==
  ASSUME IntactInv, NEW s \in Source, SendFrame(s)
  PROVE  IntactInv'
  <1> DEFINE f == NextFrame(s)
  <1>1. /\ Typing /\ SenderInv /\ CurrentInv
        /\ current[s] # None /\ index[s] < current[s].size
        /\ queue' = Append(queue, f)
        /\ index' = [index EXCEPT ![s] = @ + 1]
        /\ UNCHANGED <<current, sent, fails, out, reused, crossed, receiver, loss>>
    BY DEF SendFrame, MoreFrames, IntactInv
  <1>2. /\ current[s] \in Message /\ current[s].src = s /\ current[s].num = sent[s]
        /\ index[s] \in Nat /\ current[s].size \in 1 .. 32 /\ sent[s] \in Nat
    BY <1>1 DEF Typing, SenderInv, Message
  <1>3. sent[s] % SeqMod \in 0 .. (SeqMod - 1) /\ index[s] \in 0 .. 31
    <2>1. index[s] \in 0 .. 31
      <3>1. PICK n \in 1 .. 32 : n = current[s].size
        BY <1>2
      <3>2. PICK o \in Nat : o = index[s]
        BY <1>2
      <3>3. o < n
        BY <1>1, <3>1, <3>2
      <3>4. o \in 0 .. 31
        BY <3>3
      <3> QED
        BY <3>2, <3>4
    <2>2. SeqMod \in Nat \ {0}
      BY SizeAssumption
    <2> QED
      BY <1>2, <2>1, <2>2
  <1>4. f \in Frame /\ Counted(f)
    BY <1>1, <1>2, <1>3 DEF NextFrame, Frame, Counted
  <1>5. /\ \A i \in DOMAIN queue : Told(queue[i], f, reused)
        /\ \A k \in Key : sessions[k] # None => Told(sessions[k].head, f, reused)
    BY <1>1 DEF CurrentInv
  <1>6. UNCHANGED <<reused, sessions, delivered>>
    BY <1>1 DEF receiver
  <1>7. queue' \in Seq(Frame) /\ QueueInv' /\ SessionInv' /\ DeliveredIntact'
    BY <1>1, <1>4, <1>5, <1>6, QueueGrows
  <1>8. Typing'
    BY <1>1, <1>2, <1>7 DEF Typing, receiver, loss
  <1>9. SenderInv'
    BY <1>1 DEF SenderInv
  <1>10. CurrentInv'
    <2>1. ASSUME NEW t \in Source, current[t] # None, NEW g, Told(g, NextFrame(t), reused)
          PROVE  Told(g, NextFrame(t)', reused)
      BY <1>1, <2>1 DEF Told, NextFrame, KeyOf
    <2>2. ASSUME NEW t \in Source, current[t] # None
          PROVE  Told(f, NextFrame(t)', reused)
      <3>1. current[t] \in Message /\ current[t].src = t
        BY <1>1, <2>2 DEF Typing, SenderInv
      <3> QED
        BY <1>1, <1>2, <3>1 DEF Told, NextFrame, KeyOf
    <2>3. \A i \in DOMAIN queue' : (i \in DOMAIN queue /\ queue'[i] = queue[i]) \/ queue'[i] = f
      BY <1>1, <1>4 DEF Typing
    <2> QED
      BY <1>1, <1>6, <2>1, <2>2, <2>3 DEF CurrentInv
  <1> QED
    BY <1>7, <1>8, <1>9, <1>10 DEF IntactInv

LEMMA PlainIntact ==
  ASSUME IntactInv, NEW s \in Source, NEW p \in Pgn, NEW r \in Readings, SendPlain(s, p, r)
  PROVE  IntactInv'
  <1> DEFINE m == [src |-> s, num |-> r.seq, try |-> mishaps, pgn |-> p, size |-> r.size,
                   plain |-> TRUE]
             f == [msg |-> m, seq |-> r.seq, index |-> r.index]
  <1>1. /\ Typing /\ SenderInv /\ CurrentInv
        /\ queue' = Append(queue, f)
        /\ mishaps' = mishaps + 1
        /\ UNCHANGED <<current, index, sent, fails, out, reused, receiver, lost>>
    BY DEF SendPlain, Mishap, IntactInv
  <1>2. /\ r.seq \in 0 .. (SeqMod - 1) /\ r.index \in 0 .. 31 /\ r.size \in 1 .. 32
        /\ r.index < r.size /\ SeqMod \in Nat
    BY SizeAssumption
  <1>3. r.seq % SeqMod = r.seq
    BY <1>2
  <1>4. f \in Frame /\ Counted(f)
    <2>1. m \in Message
      BY <1>1, <1>2 DEF Message, Typing
    <2> QED
      BY <1>2, <1>3, <2>1 DEF Frame, Counted
  <1>5. \A g : Told(g, f, reused)
    BY DEF Told
  <1>6. UNCHANGED <<reused, sessions, delivered>>
    BY <1>1 DEF receiver
  <1>7. queue' \in Seq(Frame) /\ QueueInv' /\ SessionInv' /\ DeliveredIntact'
    BY <1>1, <1>4, <1>5, <1>6, QueueGrows
  <1>8. Typing'
    BY <1>1, <1>7 DEF Typing, receiver
  <1>9. SenderInv'
    BY <1>1 DEF SenderInv
  <1>10. CurrentInv'
    <2>1. \A t \in Source : NextFrame(t)' = NextFrame(t) /\ Told(f, NextFrame(t), reused)
      BY <1>1 DEF NextFrame, Told
    <2>2. \A i \in DOMAIN queue' : (i \in DOMAIN queue /\ queue'[i] = queue[i]) \/ queue'[i] = f
      BY <1>1, <1>4 DEF Typing
    <2> QED
      BY <1>1, <1>6, <2>1, <2>2 DEF CurrentInv
  <1> QED
    BY <1>7, <1>8, <1>9, <1>10 DEF IntactInv

(* The message being sent goes, done or given up. *)
LEMMA OverIntact ==
  ASSUME IntactInv, NEW s \in Source, End(s) \/ Fail(s)
  PROVE  IntactInv'
  <1>1. /\ Typing /\ SenderInv /\ CurrentInv
        /\ current[s] # None /\ current' = [current EXCEPT ![s] = None]
        /\ \A t \in Source \ {s} : sent'[t] = sent[t] /\ index'[t] = index[t]
        /\ UNCHANGED <<reused, queue, sessions, delivered>>
    BY DEF End, Fail, IntactInv, receiver, Typing
  <1>2. current[s] \in Message
    BY <1>1 DEF Typing
  <1>3. Typing'
    <2>1. CASE End(s)
      BY <1>1, <1>2, <2>1 DEF End, Typing, receiver, loss
    <2>2. CASE Fail(s)
      BY <1>1, <2>2 DEF Fail, Mishap, Typing, receiver
    <2> QED
      BY <2>1, <2>2
  <1>4. \A t \in Source : current'[t] # None => t # s /\ current'[t] = current[t]
    BY <1>1 DEF Typing
  <1>5. SenderInv'
    BY <1>1, <1>4 DEF SenderInv
  <1>6. CurrentInv'
    BY <1>1, <1>4 DEF CurrentInv, NextFrame
  <1> QED
    BY <1>1, <1>3, <1>5, <1>6, FramesKept DEF IntactInv

-----------------------------------------------------------------------------
(* The receiver's steps. *)

LEMMA StoredSessions ==
  ASSUME NEW k \in Key, NEW session \in Session \cup {None}, NEW left,
         Typing, Stored(k, session, left)
  PROVE  /\ sessions' \in [Key -> Session \cup {None}]
         /\ sessions'[k] = session
         /\ \A l \in Key \ {k} : sessions'[l] \in {sessions[l], None}
  BY DEF Stored, Typing

LEMMA OpenedSound ==
  ASSUME NEW f \in Frame, Counted(f), f.index = 0, f.msg.size > 1, NEW R
  PROVE  /\ Opened(f) \in Session /\ Opened(f).head = f
         /\ Sound(KeyOf(f), Opened(f), R)
  <1>1. Opened(f) \in Session
    BY DEF Opened, Session
  <1>2. f = [msg |-> f.msg, seq |-> f.seq, index |-> f.index]
    BY DEF Frame
  <1>3. Opened(f).data = Prefix(f.msg, 1)
    BY <1>2 DEF Opened, Prefix, Counted
  <1> QED
    BY <1>1, <1>3 DEF Opened, Sound

LEMMA ExtendedFields ==
  ASSUME NEW session \in Session, NEW f \in Frame, session.next + 1 \in 1 .. 31
  PROVE  /\ Extended(session, f) \in Session
         /\ Extended(session, f).head = session.head
         /\ Extended(session, f).next = session.next + 1
  <1>1. session.data \in Seq(Frame) /\ Append(session.data, f) \in Seq(Frame)
    BY DEF Session
  <1> QED
    BY <1>1 DEF Extended, Session

(* A frame that follows a session extends its message, or mixes it.        *)
LEMMA ExtendedData ==
  ASSUME NEW R, NEW f \in Frame, Counted(f), NEW session \in Session,
         Sound(KeyOf(f), session, R), Told(session.head, f, R), Follows(session, f)
  PROVE  \/ Extended(session, f).data = Prefix(session.head.msg, f.index + 1)
         \/ Mixed(session.head.msg, Extended(session, f).data, R)
  <1> DEFINE m == session.head.msg
             data == session.data
             more == Append(data, f)
  <1>1. /\ data \in Seq(Frame) /\ session.head \in Frame /\ session.next \in 1 .. 31
        /\ f.index = session.next
    BY DEF Session, Follows
  <1>0. PICK n \in 1 .. 31 : n = session.next /\ n = f.index
    BY <1>1
  <1>2. /\ Extended(session, f).data = more
        /\ Len(more) = Len(data) + 1 /\ more[Len(data) + 1] = f
        /\ DOMAIN more = 1 .. Len(data) + 1 /\ DOMAIN data = 1 .. Len(data) /\ Len(data) \in Nat
        /\ \A i \in DOMAIN data : i \in DOMAIN more /\ more[i] = data[i]
    BY <1>1 DEF Extended, Session
  <1>3. CASE Mixed(m, data, R)
    BY <1>2, <1>3 DEF Mixed
  <1>4. CASE data = Prefix(m, session.next) /\ f.msg = m
    <2>1. f = [msg |-> m, seq |-> m.num % SeqMod, index |-> f.index]
      BY <1>4 DEF Frame, Counted
    <2>2. Len(data) = f.index
      <3>1. DOMAIN data = 1 .. n
        BY <1>0, <1>4 DEF Prefix
      <3>2. DOMAIN data = 1 .. Len(data) /\ Len(data) \in Nat
        BY <1>2
      <3> HIDE DEF data
      <3> QED
        <4>1. PICK l \in Nat : l = Len(data)
          BY <3>2
        <4>2. 1 .. n = 1 .. l
          BY <3>1, <3>2, <4>1
        <4>3. n = l
          BY <4>2
        <4> QED
          BY <1>0, <4>1, <4>3
    <2>3. more = Prefix(m, f.index + 1)
      <3>1. data = [i \in 1 .. f.index |->
                      [msg |-> m, seq |-> m.num % SeqMod, index |-> i - 1]]
        BY <1>1, <1>4 DEF Prefix
      <3>2. f.index \in Nat /\ data \in Seq(Frame)
        <4>1. n \in Nat
          OBVIOUS
        <4> QED
          BY <1>0, <1>1, <4>1
      <3>3. \A i \in 1 .. f.index + 1 :
              more[i] = [msg |-> m, seq |-> m.num % SeqMod, index |-> i - 1]
        BY <1>1, <2>1, <2>2, <3>1, <3>2
      <3>4. more = [i \in 1 .. f.index + 1 |-> more[i]]
        BY <2>2, <3>2
      <3> HIDE DEF more, m
      <3> QED
        BY <3>3, <3>4 DEF Prefix
    <2> QED
      BY <1>2, <2>3
  <1>5. CASE data = Prefix(m, session.next) /\ f.msg # m
    <2>1. CASE m.plain
      <3>1. data = [i \in 1 .. n |->
                      [msg |-> m, seq |-> m.num % SeqMod, index |-> i - 1]]
        BY <1>0, <1>5 DEF Prefix
      <3>2. 1 \in 1 .. n
        OBVIOUS
      <3>3. 1 \in DOMAIN data /\ data[1].msg = m
        BY <3>1, <3>2
      <3> QED
        BY <1>2, <2>1, <3>3 DEF Mixed
    <2>2. CASE ~m.plain
      <3>1. f.msg.plain \/ f.msg \in R
        BY <1>5, <2>2 DEF Told, Sound, Follows
      <3>2. Len(data) + 1 \in DOMAIN more
        BY <1>2
      <3> QED
        BY <1>2, <1>5, <3>1, <3>2 DEF Mixed
    <2> QED
      BY <2>1, <2>2
  <1> QED
    BY <1>3, <1>4, <1>5 DEF Sound

(* Whatever is heard leaves sound sessions and whole messages. *)
LEMMA HeardIntact ==
  ASSUME IntactInv, NEW f \in Frame, Counted(f), Handle(f), UNCHANGED reused,
         sessions[KeyOf(f)] # None => Told(sessions[KeyOf(f)].head, f, reused)
  PROVE  /\ sessions' \in [Key -> Session \cup {None}]
         /\ \A k \in Key : sessions'[k] # None =>
              /\ Sound(k, sessions'[k], reused)
              /\ \/ sessions'[k].head = f
                 \/ sessions[k] # None /\ sessions'[k].head = sessions[k].head
         /\ DeliveredIntact'
  <1> DEFINE k == KeyOf(f)
             Fit(l, session) == /\ Sound(l, session, reused)
                                /\ \/ session.head = f
                                   \/ sessions[l] # None /\ session.head = sessions[l].head
             Fitting == /\ sessions' \in [Key -> Session \cup {None}]
                        /\ \A l \in Key : sessions'[l] # None => Fit(l, sessions'[l])
  <1>1. /\ Typing /\ DeliveredIntact /\ k \in Key
        /\ \A l \in Key : sessions[l] # None => Fit(l, sessions[l])
    BY FrameKey DEF IntactInv, SessionInv
  <1>2. delivered' = delivered => DeliveredIntact'
    BY <1>1 DEF DeliveredIntact, Whole
  <1>3. ASSUME NEW d, d.data = Whole(d.msg) \/ Mixed(d.msg, d.data, reused),
               delivered' = delivered \cup {d}
        PROVE  DeliveredIntact'
    BY <1>1, <1>3 DEF DeliveredIntact, Whole, Mixed
  <1>4. ASSUME NEW session \in Session \cup {None}, NEW left, Stored(k, session, left),
               session # None => Fit(k, session)
        PROVE  Fitting
    <2>1. /\ sessions' \in [Key -> Session \cup {None}] /\ sessions'[k] = session
          /\ \A l \in Key \ {k} : sessions'[l] \in {sessions[l], None}
      BY <1>1, <1>4, StoredSessions
    <2> HIDE DEF Fit
    <2> QED
      BY <1>1, <1>4, <2>1
  <1>5. sessions' = sessions => Fitting
    <2> HIDE DEF Fit
    <2> QED
      BY <1>1 DEF Typing
  <1> HIDE DEF Fit
  <1>6. CASE HearSingle(f)
    <2> DEFINE d == [msg |-> f.msg, data |-> <<f>>]
    <2>1. f = [msg |-> f.msg, seq |-> f.msg.num % SeqMod, index |-> 0]
      BY <1>6 DEF HearSingle, Frame, Counted
    <2>2. d.data = Whole(d.msg)
      BY <1>6, <2>1 DEF HearSingle, Whole
    <2>3. delivered' = delivered \cup {d}
      BY <1>6 DEF HearSingle, Deliver, Opened
    <2>4. DeliveredIntact'
      BY <1>3, <2>2, <2>3
    <2> QED
      BY <1>5, <1>6, <2>4 DEF HearSingle, Fit
  <1>7. CASE HearHeader(f)
    <2>1. Opened(f) \in Session /\ Fit(k, Opened(f))
      BY <1>7, OpenedSound DEF HearHeader, Fit
    <2>2. Stored(k, Opened(f), Roomy) /\ delivered' = delivered
      BY <1>7 DEF HearHeader
    <2> QED
      BY <1>2, <1>4, <2>1, <2>2 DEF Fit
  <1>8. CASE HearStray(f)
    BY <1>2, <1>5, <1>8 DEF HearStray, receiver, Fit
  <1>9. CASE HearWrong(f)
    <2>1. sessions' = [sessions EXCEPT ![k] = None] /\ delivered' = delivered
      BY <1>9 DEF HearWrong
    <2>2. Fitting
      BY <1>1, <2>1 DEF Typing
    <2> QED
      BY <1>2, <2>1, <2>2 DEF Fit
  <1>10. ASSUME sessions[k] # None, Follows(sessions[k], f)
         PROVE  /\ sessions[k] \in Session /\ sessions[k].head \in Frame
                /\ KeyOf(sessions[k].head) = k /\ Counted(sessions[k].head)
                /\ sessions[k].head.msg.size \in 1 .. 32
                /\ f.index = sessions[k].next /\ f.index \in 0 .. 31
                /\ f.index < sessions[k].head.msg.size
                /\ \/ Extended(sessions[k], f).data = Prefix(sessions[k].head.msg, f.index + 1)
                   \/ Mixed(sessions[k].head.msg, Extended(sessions[k], f).data, reused)
    <2>1. sessions[k] \in Session /\ Sound(k, sessions[k], reused)
      BY <1>1, <1>10 DEF Typing, Fit
    <2>2. sessions[k].head \in Frame /\ f.index = sessions[k].next /\ f.index \in 0 .. 31
      BY <1>10, <2>1 DEF Session, Follows, Frame
    <2>3. sessions[k].head.msg.size \in 1 .. 32
      BY <2>2 DEF Frame, Message
    <2> QED
      BY <1>10, <2>1, <2>2, <2>3, ExtendedData DEF Sound
  <1>11. CASE HearNext(f)
    <2> DEFINE session == Extended(sessions[k], f)
    <2>1. /\ sessions[k] # None /\ Follows(sessions[k], f) /\ ~IsLast(sessions[k], f)
          /\ Stored(k, session, Unexpired) /\ delivered' = delivered
      BY <1>11 DEF HearNext
    <2>2. f.index + 1 < sessions[k].head.msg.size /\ sessions[k].next + 1 \in 1 .. 31
      BY <1>10, <2>1 DEF IsLast
    <2>3. /\ session \in Session /\ session.head = sessions[k].head
          /\ session.next = f.index + 1
      BY <1>10, <2>1, <2>2, ExtendedFields
    <2>4. Fit(k, session)
      BY <1>10, <2>1, <2>2, <2>3 DEF Fit, Sound
    <2> QED
      BY <1>2, <1>4, <2>1, <2>3, <2>4 DEF Fit
  <1>12. CASE HearLast(f)
    <2> DEFINE session == sessions[k]
               d == [msg |-> session.head.msg, data |-> Extended(session, f).data]
    <2>1. session # None /\ Follows(session, f) /\ IsLast(session, f) /\ Stored(k, None, Unexpired)
      BY <1>12 DEF HearLast
    <2>2. session \in Session
      BY <1>10, <2>1
    <2>3. delivered' = delivered \cup {d}
      BY <1>12, <2>2 DEF HearLast, Deliver, Extended, Session
    <2>4. f.index + 1 = session.head.msg.size
      BY <1>10, <2>1 DEF IsLast
    <2>5. d.data = Whole(d.msg) \/ Mixed(d.msg, d.data, reused)
      BY <1>10, <2>1, <2>4 DEF Prefix, Whole
    <2>6. DeliveredIntact'
      BY <1>3, <2>3, <2>5
    <2> QED
      BY <1>4, <2>1, <2>6 DEF Fit
  <1> QED
    BY <1>6, <1>7, <1>8, <1>9, <1>11, <1>12 DEF Handle

-----------------------------------------------------------------------------
LEMMA QueueShorter ==
  ASSUME IntactInv, UNCHANGED reused, queue # <<>>, queue' = Tail(queue)
  PROVE  /\ queue' \in Seq(Frame) /\ QueueInv'
         /\ \A i \in DOMAIN queue' : i + 1 \in DOMAIN queue /\ queue'[i] = queue[i + 1]
         /\ Head(queue) \in Frame /\ Head(queue) = queue[1] /\ Counted(queue[1])
         /\ 1 \in DOMAIN queue
         /\ \A i \in DOMAIN queue' : Told(queue[1], queue'[i], reused)
  <1>1. queue \in Seq(Frame) /\ QueueInv
    BY DEF IntactInv, Typing
  <1>2. /\ queue' \in Seq(Frame)
        /\ \A i \in DOMAIN queue' : /\ queue'[i] = queue[i + 1] /\ i + 1 \in DOMAIN queue
                                    /\ i \in Nat /\ 1 < i + 1
    BY <1>1
  <1>3. Head(queue) \in Frame /\ Head(queue) = queue[1] /\ 1 \in DOMAIN queue
    BY <1>1
  <1>4. QueueInv'
    <2>1. \A i \in DOMAIN queue' : Counted(queue'[i])
      BY <1>1, <1>2 DEF QueueInv
    <2>2. ASSUME NEW i \in DOMAIN queue', NEW j \in DOMAIN queue', i < j
          PROVE  Told(queue'[i], queue'[j], reused')
      <3>1. i + 1 < j + 1
        BY <1>2, <2>2
      <3> QED
        BY <1>1, <1>2, <3>1 DEF QueueInv
    <2> QED
      BY <2>1, <2>2 DEF QueueInv
  <1>5. \A i \in DOMAIN queue' : Told(queue[1], queue'[i], reused)
    BY <1>1, <1>2, <1>3 DEF QueueInv
  <1> QED
    BY <1>1, <1>2, <1>3, <1>4, <1>5 DEF QueueInv

LEMMA OnFrameIntact ==
  ASSUME IntactInv, OnFrame
  PROVE  IntactInv'
  <1> DEFINE f == queue[1]
  <1>1. /\ queue # <<>> /\ queue' = Tail(queue) /\ Handle(Head(queue))
        /\ UNCHANGED <<current, index, sent, fails, out, reused, mishaps>>
    BY DEF OnFrame, sender, loss
  <1>2. /\ queue' \in Seq(Frame) /\ QueueInv'
        /\ \A i \in DOMAIN queue' : i + 1 \in DOMAIN queue /\ queue'[i] = queue[i + 1]
        /\ Head(queue) = f /\ f \in Frame /\ Counted(f) /\ 1 \in DOMAIN queue
        /\ \A i \in DOMAIN queue' : Told(f, queue'[i], reused)
    BY <1>1, QueueShorter
  <1>3. /\ Typing /\ SenderInv /\ SessionInv /\ CurrentInv /\ KeyOf(f) \in Key
    BY <1>2, FrameKey DEF IntactInv
  <1>4. sessions[KeyOf(f)] # None => Told(sessions[KeyOf(f)].head, f, reused)
    BY <1>2, <1>3 DEF SessionInv
  <1>5. /\ sessions' \in [Key -> Session \cup {None}]
        /\ \A k \in Key : sessions'[k] # None =>
             /\ Sound(k, sessions'[k], reused)
             /\ \/ sessions'[k].head = f
                \/ sessions[k] # None /\ sessions'[k].head = sessions[k].head
        /\ DeliveredIntact'
    BY <1>1, <1>2, <1>4, HeardIntact
  <1>6. SessionInv'
    <2>1. ASSUME NEW k \in Key, sessions'[k] # None, NEW i \in DOMAIN queue'
          PROVE  Told(sessions'[k].head, queue'[i], reused)
      BY <1>2, <1>3, <1>5, <2>1 DEF SessionInv
    <2> QED
      BY <1>1, <1>5, <2>1 DEF SessionInv
  <1>7. CurrentInv'
    <2>1. \A t \in Source : NextFrame(t)' = NextFrame(t)
      BY <1>1 DEF NextFrame
    <2>2. ASSUME NEW t \in Source, current[t] # None, NEW k \in Key, sessions'[k] # None
          PROVE  Told(sessions'[k].head, NextFrame(t), reused)
      BY <1>2, <1>3, <1>5, <2>2 DEF CurrentInv
    <2>3. ASSUME NEW t \in Source, current[t] # None, NEW i \in DOMAIN queue'
          PROVE  Told(queue'[i], NextFrame(t), reused)
      BY <1>2, <1>3, <2>3 DEF CurrentInv
    <2> QED
      BY <1>1, <2>1, <2>2, <2>3 DEF CurrentInv
  <1>8. Typing' /\ SenderInv'
    BY <1>1, <1>2, <1>3, <1>5 DEF Typing, SenderInv
  <1> QED
    BY <1>2, <1>5, <1>6, <1>7, <1>8 DEF IntactInv

LEMMA LoseIntact ==
  ASSUME IntactInv, Lose
  PROVE  IntactInv'
  <1>1. /\ queue # <<>> /\ queue' = Tail(queue) /\ mishaps' = mishaps + 1
        /\ UNCHANGED <<current, index, sent, fails, out, reused, sessions, delivered>>
    BY DEF Lose, Mishap, sender, receiver
  <1>2. /\ queue' \in Seq(Frame) /\ QueueInv'
        /\ \A i \in DOMAIN queue' : i + 1 \in DOMAIN queue /\ queue'[i] = queue[i + 1]
    BY <1>1, QueueShorter
  <1>3. Typing /\ SenderInv /\ SessionInv /\ CurrentInv /\ DeliveredIntact
    BY DEF IntactInv
  <1>4. SessionInv'
    BY <1>1, <1>2, <1>3 DEF SessionInv
  <1>5. CurrentInv'
    BY <1>1, <1>2, <1>3 DEF CurrentInv, NextFrame
  <1>6. Typing'
    BY <1>1, <1>2, <1>3 DEF Typing
  <1>7. SenderInv' /\ DeliveredIntact'
    BY <1>1, <1>3 DEF SenderInv, DeliveredIntact, Whole
  <1> QED
    BY <1>2, <1>4, <1>5, <1>6, <1>7 DEF IntactInv

LEMMA NextIntact ==
  ASSUME IntactInv, [Next]_vars
  PROVE  IntactInv'
  <1>1. CASE UNCHANGED vars \/ GrowStale
    <2>1. UNCHANGED <<current, index, sent, fails, out, reused, queue, sessions, delivered, mishaps>>
      BY <1>1 DEF vars, sender, receiver, loss, GrowStale
    <2>2. Typing' /\ SenderInv'
      BY <2>1 DEF IntactInv, Typing, SenderInv
    <2>3. CurrentInv'
      BY <2>1 DEF IntactInv, CurrentInv, NextFrame
    <2> QED
      BY <2>1, <2>2, <2>3, FramesKept DEF IntactInv
  <1> QED
    BY <1>1, BeginIntact, SendIntact, OverIntact, PlainIntact, OnFrameIntact, LoseIntact DEF Next

(* Whatever frames are lost, whatever sessions expire or are evicted and   *)
(* however often the sequence counter comes round, the application is      *)
(* handed whole messages (Receiver::on_frame), or a mixture with a plain   *)
(* frame or with a message whose counter was reused too early.             *)
THEOREM Intact == Spec => []DeliveredIntact
  <1>1. IntactInv /\ [Next]_vars => IntactInv'
    BY NextIntact
  <1>2. IntactInv => DeliveredIntact
    BY DEF IntactInv
  <1> QED
    BY <1>1, <1>2, InitIntact, PTL DEF Spec
-----------------------------------------------------------------------------
(* What a loss costs.  A message's frames are handled in their order, and  *)
(* while it is under way no other frame of its key comes between, unless a *)
(* plain one crosses it.                                                   *)

(* The message was being sent when one of its sends failed, or has been    *)
(* sent: no frame of it comes any more.                                    *)
Past(m) ==
  m.num < sent[m.src] \/ (m.num = sent[m.src] /\ m.try < fails[m.src])

Sending(m) == current[m.src] = m

NumberInv ==
  /\ \A s \in Source :
       IF current[s] = None THEN index[s] = 0
       ELSE /\ current[s].src = s /\ current[s].num = sent[s] /\ current[s].try = fails[s]
            /\ index[s] <= current[s].size /\ ~current[s].plain
  /\ \A m \in out : m.num < sent[m.src] /\ ~m.plain
  /\ \A i \in DOMAIN queue : ~queue[i].msg.plain =>
       IF Sending(queue[i].msg) THEN queue[i].index < index[queue[i].msg.src]
       ELSE Past(queue[i].msg)

SeqInv ==
  /\ \A i \in DOMAIN queue : Counted(queue[i])
  /\ \A k \in Key : sessions[k] # None => Counted(sessions[k].head)

(* In the queue, a frame of another message of the key is followed by the  *)
(* header of the next message before any other frame of that.              *)
Header(i, m) == queue[i].msg = m /\ queue[i].index = 0

Before(i, m) == \E l \in DOMAIN queue : l > i /\ Header(l, m)

Ascending ==
  \A i, j \in DOMAIN queue :
    i < j /\ queue[i].msg = queue[j].msg /\ ~queue[j].msg.plain
      => queue[i].index < queue[j].index

OneByOne ==
  \A i, j \in DOMAIN queue :
    (/\ i < j /\ KeyOf(queue[i]) = KeyOf(queue[j]) /\ queue[i].msg # queue[j].msg
     /\ ~queue[j].msg.plain /\ queue[j].msg \notin crossed)
      => Before(i, queue[j].msg)

CurrentLast ==
  \A s \in Source : current[s] # None /\ index[s] > 0 /\ current[s] \notin crossed =>
    \A i \in DOMAIN queue :
      KeyOf(queue[i]) = <<s, current[s].pgn>> /\ queue[i].msg # current[s]
        => Before(i, current[s])

OrderInv == Ascending /\ OneByOne /\ CurrentLast

(* The frames of m written so far, for a message that counts.              *)
Written(m) == IF Sending(m) THEN index[m.src] ELSE m.size

Unhurt == (out \cup {current[s] : s \in Source}) \ (lost \cup purged \cup crossed \cup {None})

(* h frames of m were handled; the others written are in the queue.        *)
Waiting(m, h) ==
  /\ \A i \in DOMAIN queue : queue[i].msg = m => queue[i].index >= h
  /\ \A o \in h .. (Written(m) - 1) :
       \E i \in DOMAIN queue : queue[i].msg = m /\ queue[i].index = o

(* What the receiver made of them.                                         *)
Taken(m, h) ==
  /\ h > 0 /\ h < m.size =>
       LET session == sessions[<<m.src, m.pgn>>]
       IN  session # None /\ session.head.msg = m /\ session.next = h
  /\ h = m.size => Delivered(m)

ProgressInv ==
  \A m \in Unhurt :
    \E h \in 0 .. m.size : h <= Written(m) /\ Waiting(m, h) /\ Taken(m, h)

LossInv == Typing /\ NumberInv /\ SeqInv /\ OrderInv /\ ProgressInv

-----------------------------------------------------------------------------
LEMMA InitLoss == Init => LossInv
  <1> SUFFICES ASSUME Init PROVE LossInv
    OBVIOUS
  <1> USE DEF Init
  <1>1. Typing
    BY DEF Typing
  <1>2. NumberInv /\ SeqInv /\ OrderInv
    BY DEF NumberInv, SeqInv, OrderInv, Ascending, OneByOne, CurrentLast
  <1>3. ProgressInv
    BY DEF ProgressInv, Unhurt
  <1> QED
    BY <1>1, <1>2, <1>3 DEF LossInv

LEMMA MessageFields ==
  ASSUME NEW m \in Message
  PROVE  /\ m.src \in Source /\ m.pgn \in Pgn /\ m.num \in Nat /\ m.try \in Nat
         /\ m.size \in 1 .. 32 /\ m # None /\ <<m.src, m.pgn>> \in Key
  BY SizeAssumption, NoneAssumption DEF Message, Key

LEMMA UnhurtAreMessages ==
  ASSUME LossInv
  PROVE  /\ Unhurt \in SUBSET Message
         /\ \A m \in Unhurt : (m \in out \/ Sending(m)) /\ ~m.plain /\ m \notin crossed
  BY DEF LossInv, Typing, NumberInv, Unhurt, Sending

LEMMA QueuedFields ==
  ASSUME LossInv, NEW i \in DOMAIN queue
  PROVE  /\ queue[i] \in Frame /\ queue[i].msg \in Message /\ queue[i].index \in Nat
         /\ queue[i].index < queue[i].msg.size
  <1>1. queue[i] \in Frame
    BY DEF LossInv, Typing
  <1> QED
    BY <1>1 DEF Frame

LEMMA IndexFields ==
  ASSUME LossInv, NEW s \in Source
  PROVE  index[s] \in Nat
  BY DEF LossInv, Typing

LEMMA QueuedIndex ==
  ASSUME LossInv, NEW i \in DOMAIN queue, Sending(queue[i].msg), ~queue[i].msg.plain
  PROVE  queue[i].index < index[queue[i].msg.src]
  BY DEF LossInv, NumberInv

(* What leaves the queue leaves the rest of it in order. *)
LEMMA ShorterQueue ==
  ASSUME LossInv, queue # <<>>, queue' = Tail(queue), UNCHANGED sender
  PROVE  /\ Typing' = (/\ queue' \in Seq(Frame) /\ mishaps' \in Nat
                       /\ sessions' \in [Key -> Session \cup {None}])
         /\ queue' \in Seq(Frame) /\ NumberInv' /\ OrderInv'
         /\ \A i \in DOMAIN queue' : Counted(queue'[i])
         /\ Head(queue) = queue[1] /\ 1 \in DOMAIN queue
         /\ \A i \in DOMAIN queue' : i + 1 \in DOMAIN queue /\ queue'[i] = queue[i + 1]
         /\ \A i \in DOMAIN queue \ {1} : i - 1 \in DOMAIN queue' /\ queue'[i - 1] = queue[i]
  <1> USE DEF LossInv
  <1>1. queue \in Seq(Frame)
    BY DEF Typing
  <1>2. /\ queue' \in Seq(Frame)
        /\ Head(queue) = queue[1] /\ 1 \in DOMAIN queue
        /\ \A i \in DOMAIN queue' : i + 1 \in DOMAIN queue /\ queue'[i] = queue[i + 1]
        /\ \A i \in DOMAIN queue \ {1} : i - 1 \in DOMAIN queue' /\ queue'[i - 1] = queue[i]
        /\ DOMAIN queue \in SUBSET Nat /\ DOMAIN queue' \in SUBSET Nat
    BY <1>1
  <1>3. NumberInv'
    BY <1>2 DEF NumberInv, Sending, Past, sender
  <1>4. \A i \in DOMAIN queue' : Counted(queue'[i])
    BY <1>2 DEF SeqInv, Counted
  <1>5. Ascending'
    BY <1>2 DEF OrderInv, Ascending
  <1>6. ASSUME NEW i \in DOMAIN queue', NEW m, Before(i + 1, m)
        PROVE  \E l \in DOMAIN queue' : l > i /\ queue'[l].msg = m /\ queue'[l].index = 0
    <2>1. PICK l \in DOMAIN queue : l > i + 1 /\ queue[l].msg = m /\ queue[l].index = 0
      BY <1>6 DEF Before, Header
    <2>2. l \in DOMAIN queue \ {1} /\ l - 1 > i
      BY <1>2, <2>1
    <2>3. l - 1 \in DOMAIN queue' /\ queue'[l - 1] = queue[l]
      BY <1>2, <2>2
    <2> QED
      BY <2>1, <2>2, <2>3
  <1>7. OneByOne'
    <2> SUFFICES ASSUME NEW i \in DOMAIN queue', NEW j \in DOMAIN queue', i < j,
                        KeyOf(queue'[i]) = KeyOf(queue'[j]), queue'[i].msg # queue'[j].msg,
                        ~queue'[j].msg.plain, queue'[j].msg \notin crossed
                 PROVE  \E l \in DOMAIN queue' :
                          l > i /\ queue'[l].msg = queue'[j].msg /\ queue'[l].index = 0
      BY DEF OneByOne, Before, Header, KeyOf, sender
    <2>1. i + 1 < j + 1 /\ queue'[i] = queue[i + 1] /\ queue'[j] = queue[j + 1]
      BY <1>2
    <2>2. Before(i + 1, queue[j + 1].msg)
      BY <1>2, <2>1 DEF OrderInv, OneByOne, KeyOf
    <2> QED
      BY <1>6, <2>1, <2>2
  <1>8. CurrentLast'
    <2> SUFFICES ASSUME NEW s \in Source, current[s] # None, index[s] > 0,
                        current[s] \notin crossed,
                        NEW i \in DOMAIN queue', KeyOf(queue'[i]) = <<s, current[s].pgn>>,
                        queue'[i].msg # current[s]
                 PROVE  \E l \in DOMAIN queue' :
                          l > i /\ queue'[l].msg = current[s] /\ queue'[l].index = 0
      BY DEF CurrentLast, Before, Header, KeyOf, sender
    <2>1. Before(i + 1, current[s])
      BY <1>2 DEF OrderInv, CurrentLast, KeyOf
    <2> QED
      BY <1>6, <2>1
  <1> QED
    BY <1>2, <1>3, <1>4, <1>5, <1>7, <1>8 DEF Typing, OrderInv, sender

(* The head of the queue is the next frame of its message.                 *)
LEMMA HeadIsNext ==
  ASSUME LossInv, 1 \in DOMAIN queue, NEW m \in Unhurt, queue[1].msg = m,
         NEW h \in Nat, h <= m.size, h <= Written(m), Waiting(m, h)
  PROVE  queue[1].index = h /\ h < Written(m) /\ h < m.size
  <1>1. queue \in Seq(Frame) /\ 1 \in DOMAIN queue /\ DOMAIN queue \in SUBSET Nat
    BY DEF LossInv, Typing
  <1>2. m \in Message /\ m.size \in 1 .. 32 /\ m.src \in Source /\ ~m.plain
    BY UnhurtAreMessages, MessageFields
  <1>3. \A i \in DOMAIN queue : queue[i].index \in Nat
    BY QueuedFields
  <1>4. queue[1].index < Written(m) /\ Written(m) \in Nat /\ queue[1].index < m.size
    <2>1. queue[1].index < m.size
      BY <1>1, QueuedFields
    <2>2. CASE Sending(m)
      <3>1. queue[1].index < index[m.src] /\ index[m.src] \in Nat
        BY <1>1, <1>2, <2>2, IndexFields, QueuedIndex
      <3> QED
        BY <2>1, <2>2, <3>1 DEF Written
    <2>3. CASE ~Sending(m)
      BY <1>2, <2>1, <2>3 DEF Written
    <2> QED
      BY <2>1, <2>2, <2>3
  <1>5. queue[1].index >= h
    BY <1>1 DEF Waiting
  <1>6. h \in h .. (Written(m) - 1)
    BY <1>3, <1>4, <1>5, <1>1
  <1>7. PICK i \in DOMAIN queue : queue[i].msg = m /\ queue[i].index = h
    BY <1>6 DEF Waiting
  <1>8. i = 1
    <2> SUFFICES ASSUME i # 1 PROVE FALSE
      OBVIOUS
    <2>1. 1 < i
      BY <1>1
    <2>2. queue[1].index < queue[i].index
      BY <1>1, <1>2, <1>7, <2>1 DEF LossInv, OrderInv, Ascending
    <2> QED
      BY <1>1, <1>3, <1>5, <1>7, <2>2
  <1> QED
    BY <1>1, <1>2, <1>3, <1>4, <1>7, <1>8

(* A frame of another message of the key finds m not begun, or over.       *)
LEMMA NoneBetween ==
  ASSUME LossInv, 1 \in DOMAIN queue, NEW m \in Unhurt, queue[1].msg # m,
         KeyOf(queue[1]) = <<m.src, m.pgn>>,
         NEW h \in Nat, h <= m.size, h <= Written(m), Waiting(m, h)
  PROVE  h = 0 \/ h = m.size
  <1>1. queue \in Seq(Frame) /\ 1 \in DOMAIN queue /\ DOMAIN queue \in SUBSET (Nat \ {0})
    BY DEF LossInv, Typing
  <1>2. /\ m \in Message /\ m.size \in 1 .. 32 /\ m.src \in Source /\ m # None
        /\ ~m.plain /\ m \notin crossed
    BY UnhurtAreMessages, MessageFields
  <1> SUFFICES ASSUME h > 0, h < m.size PROVE FALSE
    BY <1>2
  <1>3. \A l \in DOMAIN queue : ~Header(l, m)
    BY DEF Header, Waiting
  <1>4. CASE Sending(m)
    <2>1. current[m.src] = m /\ index[m.src] >= h
      BY <1>4 DEF Written, Sending
    <2>2. index[m.src] > 0
      BY <1>2, <2>1, IndexFields
    <2>3. Before(1, m)
      BY <1>1, <1>2, <2>1, <2>2 DEF LossInv, OrderInv, CurrentLast
    <2> QED
      BY <1>3, <2>3 DEF Before
  <1>5. CASE ~Sending(m)
    <2>1. Written(m) = m.size
      BY <1>5 DEF Written
    <2>2. h \in h .. (Written(m) - 1)
      BY <1>2, <2>1
    <2>3. PICK j \in DOMAIN queue : queue[j].msg = m /\ queue[j].index = h
      BY <2>2 DEF Waiting
    <2>4. 1 < j
      BY <1>1, <2>3
    <2>5. Before(1, m)
      BY <1>1, <1>2, <2>3, <2>4 DEF LossInv, OrderInv, OneByOne, KeyOf
    <2> QED
      BY <1>3, <2>5 DEF Before
  <1> QED
    BY <1>4, <1>5

-----------------------------------------------------------------------------
(* The receiver's steps. *)

LEMMA PurgedGrows ==
  ASSUME NEW f, Handle(f)
  PROVE  /\ \A d \in delivered : d \in delivered'
         /\ \A m \in purged : m \in purged'
  BY DEF Handle, HearSingle, HearHeader, HearStray, HearWrong, HearNext, HearLast,
         Stored, Deliver, receiver

(* A session that is not purged and not of the frame's key stays.          *)
LEMMA OthersStay ==
  ASSUME LossInv, NEW f \in Frame, Handle(f), NEW k \in Key, k # KeyOf(f),
         sessions[k] # None, sessions[k].head.msg \notin purged'
  PROVE  sessions'[k] = sessions[k]
  <1>1. ASSUME NEW session, NEW left, Stored(KeyOf(f), session, left)
        PROVE  sessions'[k] = sessions[k]
    BY <1>1 DEF Stored
  <1>2. CASE HearSingle(f) \/ HearStray(f)
    BY <1>2 DEF HearSingle, HearStray, receiver
  <1>3. CASE HearWrong(f)
    BY <1>3 DEF HearWrong, LossInv, Typing
  <1>4. CASE HearHeader(f)
    BY <1>1, <1>4 DEF HearHeader
  <1>5. CASE HearNext(f)
    BY <1>1, <1>5 DEF HearNext
  <1>6. CASE HearLast(f)
    BY <1>1, <1>6 DEF HearLast
  <1> QED
    BY <1>2, <1>3, <1>4, <1>5, <1>6 DEF Handle

LEMMA SessionFields ==
  ASSUME LossInv, NEW k \in Key, sessions[k] # None
  PROVE  /\ sessions[k] \in Session /\ sessions[k].head \in Frame
         /\ sessions[k].next \in Nat /\ sessions[k].next + 1 \in Nat
         /\ Counted(sessions[k].head)
  <1>1. sessions[k] \in Session /\ Counted(sessions[k].head)
    BY DEF LossInv, Typing, SeqInv
  <1>2. sessions[k].head \in Frame /\ sessions[k].next \in 1 .. 31
    BY <1>1 DEF Session
  <1> QED
    BY <1>1, <1>2

LEMMA ExtendedHead ==
  ASSUME NEW session \in Session, NEW f
  PROVE  /\ Extended(session, f).head = session.head
         /\ Extended(session, f).next = session.next + 1
  BY DEF Extended, Session

LEMMA ExtendedMessage ==
  ASSUME NEW session, NEW m, session.head.msg = m, Deliver(session)
  PROVE  \E d \in delivered' : d.msg = m
  <1>1. [msg |-> m, data |-> session.data] \in delivered'
    BY DEF Deliver
  <1> QED
    BY <1>1

(* The next frame of a message is taken.                                   *)
LEMMA NextTaken ==
  ASSUME LossInv, NEW f \in Frame, Counted(f), Handle(f), Taken(f.msg, f.index)
  PROVE  Taken(f.msg, f.index + 1)'
  <1> DEFINE m == f.msg
             h == f.index
             k == KeyOf(f)
  <1>1. /\ m \in Message /\ m.size \in 1 .. 32 /\ h \in Nat /\ h < m.size
        /\ k \in Key /\ k = <<m.src, m.pgn>>
    BY MessageFields DEF Frame, KeyOf
  <1>2. CASE h = 0
    <2>1. CASE HearSingle(f)
      <3>1. [msg |-> m, data |-> <<f>>] \in delivered' /\ m.size = 1
        BY <2>1 DEF HearSingle, Deliver, Opened
      <3> QED
        BY <1>2, <3>1 DEF Taken, Delivered
    <2>2. CASE HearHeader(f)
      <3>1. sessions'[k] = Opened(f)
        BY <1>1, <2>2 DEF HearHeader, Stored
      <3>2. m.size > 1
        BY <2>2 DEF HearHeader
      <3>3. Opened(f) \in Session /\ Opened(f).head.msg = m /\ Opened(f).next = 1
        BY DEF Opened, Session
      <3> QED
        BY <1>1, <1>2, <3>1, <3>2, <3>3, NoneAssumption DEF Taken
    <2> QED
      BY <1>2, <2>1, <2>2 DEF Handle, HearStray, HearWrong, HearNext, HearLast
  <1>3. CASE h > 0
    <2>1. /\ sessions[k] # None /\ sessions[k].head.msg = m /\ sessions[k].next = h
      BY <1>1, <1>3 DEF Taken
    <2>2. /\ sessions[k] \in Session /\ Follows(sessions[k], f)
          /\ Extended(sessions[k], f).head.msg = m
          /\ Extended(sessions[k], f).next = h + 1
      BY <1>1, <2>1, SessionFields, ExtendedHead DEF Follows, Counted
    <2>3. CASE HearNext(f)
      <3>1. Stored(k, Extended(sessions[k], f), Unexpired) /\ ~IsLast(sessions[k], f)
        BY <2>3 DEF HearNext
      <3>2. sessions'[k] = Extended(sessions[k], f)
        BY <1>1, <3>1 DEF Stored
      <3>3. h + 1 < m.size
        BY <1>1, <2>1, <3>1 DEF IsLast
      <3>4. Extended(sessions[k], f) # None
        <4>1. sessions[k].next + 1 \in 1 .. 31
          BY <1>1, <2>1, <3>3
        <4> QED
          BY <2>2, <4>1, ExtendedFields, NoneAssumption
      <3> QED
        BY <1>1, <2>2, <3>2, <3>3, <3>4 DEF Taken
    <2>4. CASE HearLast(f)
      <3>1. h + 1 = m.size
        BY <1>1, <2>1, <2>4 DEF HearLast, IsLast
      <3>2. \E d \in delivered' : d.msg = m
        BY <1>1, <2>2, <2>4, ExtendedMessage DEF HearLast
      <3> QED
        BY <1>1, <3>1, <3>2 DEF Taken, Delivered
    <2> QED
      BY <1>1, <1>3, <2>1, <2>2, <2>3, <2>4
         DEF Handle, HearSingle, HearHeader, HearStray, HearWrong
  <1> QED
    BY <1>1, <1>2, <1>3

LEMMA HeardSessions ==
  ASSUME LossInv, NEW f \in Frame, Counted(f), Handle(f)
  PROVE  /\ sessions' \in [Key -> Session \cup {None}]
         /\ \A k \in Key : sessions'[k] # None => Counted(sessions'[k].head)
  <1> DEFINE k == KeyOf(f)
             Goal == /\ sessions' \in [Key -> Session \cup {None}]
                     /\ \A l \in Key : sessions'[l] # None => Counted(sessions'[l].head)
  <1>1. /\ Typing /\ k \in Key
        /\ \A l \in Key : sessions[l] # None => Counted(sessions[l].head)
    <2>1. k \in Key
      BY MessageFields DEF KeyOf, Frame
    <2> QED
      BY <2>1 DEF LossInv, SeqInv
  <1>2. ASSUME NEW session \in Session \cup {None}, NEW left, Stored(k, session, left),
               session # None => Counted(session.head)
        PROVE  Goal
    BY <1>1, <1>2, StoredSessions
  <1>3. CASE HearSingle(f) \/ HearStray(f)
    BY <1>1, <1>3 DEF HearSingle, HearStray, receiver, Typing
  <1>4. CASE HearWrong(f)
    BY <1>1, <1>4 DEF HearWrong, Typing
  <1>5. CASE HearHeader(f)
    <2>1. Opened(f) \in Session /\ Opened(f).head = f
      BY DEF Opened, Session
    <2> QED
      BY <1>2, <1>5, <2>1 DEF HearHeader
  <1>6. CASE HearNext(f)
    <2> DEFINE session == sessions[k]
    <2>1. session # None /\ f.index = session.next /\ ~IsLast(session, f)
      BY <1>6 DEF HearNext, Follows
    <2>2. session \in Session /\ session.head \in Frame /\ Counted(session.head)
      BY <1>1, <2>1, SessionFields
    <2>3. session.head.msg.size \in 1 .. 32 /\ f.index \in Nat
      <3>1. session.head.msg \in Message /\ f.index \in Nat
        BY <2>2 DEF Frame
      <3> QED
        BY <3>1, MessageFields
    <2>4. session.next + 1 \in 1 .. 31
      BY <2>1, <2>3 DEF IsLast
    <2>5. /\ Extended(session, f) \in Session
          /\ Extended(session, f).head = session.head
      BY <2>2, <2>4, ExtendedFields
    <2>6. Stored(k, Extended(session, f), Unexpired)
      BY <1>6 DEF HearNext
    <2>7. Extended(session, f) # None => Counted(Extended(session, f).head)
      BY <2>2, <2>5
    <2> QED
      BY <1>2, <2>5, <2>6, <2>7
  <1>7. CASE HearLast(f)
    BY <1>2, <1>7 DEF HearLast
  <1> QED
    BY <1>3, <1>4, <1>5, <1>6, <1>7 DEF Handle

LEMMA DeliveredStays ==
  ASSUME NEW m, NEW f, Handle(f), Delivered(m)
  PROVE  Delivered(m)'
  BY PurgedGrows DEF Delivered

(* What waits of another message goes on waiting; of the head's own, one   *)
(* frame less.                                                             *)
LEMMA OthersWait ==
  ASSUME LossInv, queue # <<>>, queue' = Tail(queue), UNCHANGED sender,
         NEW m \in Unhurt, NEW h \in Nat, Waiting(m, h), Head(queue).msg # m
  PROVE  Waiting(m, h)'
  <1>1. /\ Head(queue) = queue[1]
        /\ \A i \in DOMAIN queue' : i + 1 \in DOMAIN queue /\ queue'[i] = queue[i + 1]
        /\ \A i \in DOMAIN queue \ {1} : i - 1 \in DOMAIN queue' /\ queue'[i - 1] = queue[i]
    BY ShorterQueue
  <1>2. Written(m)' = Written(m)
    BY DEF Written, Sending, sender
  <1>3. \A i \in DOMAIN queue' : queue'[i].msg = m => queue'[i].index >= h
    BY <1>1 DEF Waiting
  <1>4. ASSUME NEW o \in h .. (Written(m) - 1)
        PROVE  \E i \in DOMAIN queue' : queue'[i].msg = m /\ queue'[i].index = o
    <2>1. PICK i \in DOMAIN queue : queue[i].msg = m /\ queue[i].index = o
      BY DEF Waiting
    <2>2. i # 1
      BY <1>1, <2>1
    <2> QED
      BY <1>1, <2>1, <2>2
  <1> QED
    BY <1>2, <1>3, <1>4 DEF Waiting

LEMMA OneLessWaits ==
  ASSUME LossInv, queue # <<>>, queue' = Tail(queue), UNCHANGED sender,
         NEW m \in Unhurt, NEW h \in Nat, Waiting(m, h),
         Head(queue).msg = m, Head(queue).index = h
  PROVE  Waiting(m, h + 1)'
  <1>1. /\ Head(queue) = queue[1] /\ 1 \in DOMAIN queue
        /\ \A i \in DOMAIN queue' : i + 1 \in DOMAIN queue /\ queue'[i] = queue[i + 1]
        /\ \A i \in DOMAIN queue \ {1} : i - 1 \in DOMAIN queue' /\ queue'[i - 1] = queue[i]
        /\ DOMAIN queue \in SUBSET Nat /\ DOMAIN queue' \in SUBSET (Nat \ {0})
    BY ShorterQueue DEF LossInv, Typing
  <1>2. Written(m)' = Written(m)
    BY DEF Written, Sending, sender
  <1>3. /\ \A i \in DOMAIN queue : queue[i].index \in Nat
        /\ ~m.plain
    BY QueuedFields, UnhurtAreMessages
  <1>4. ASSUME NEW i \in DOMAIN queue', queue'[i].msg = m
        PROVE  queue'[i].index >= h + 1
    <2>1. i + 1 \in DOMAIN queue /\ queue'[i] = queue[i + 1] /\ 1 < i + 1
      BY <1>1
    <2>2. queue[1].index < queue[i + 1].index
      BY <1>1, <1>3, <1>4, <2>1 DEF LossInv, OrderInv, Ascending
    <2>3. queue[1].index = h /\ queue[i + 1].index \in Nat
      BY <1>1, <1>3, <2>1
    <2> QED
      BY <2>1, <2>2, <2>3
  <1>5. ASSUME NEW o \in (h + 1) .. (Written(m) - 1)
        PROVE  \E i \in DOMAIN queue' : queue'[i].msg = m /\ queue'[i].index = o
    <2>1. o \in h .. (Written(m) - 1) /\ o # h
      BY <1>5
    <2>2. PICK i \in DOMAIN queue : queue[i].msg = m /\ queue[i].index = o
      BY <2>1 DEF Waiting
    <2>3. i # 1
      BY <1>1, <2>1, <2>2
    <2> QED
      BY <1>1, <2>2, <2>3
  <1> QED
    BY <1>2, <1>4, <1>5 DEF Waiting

LEMMA FrameHandled ==
  ASSUME LossInv, OnFrame
  PROVE  LossInv'
  <1> DEFINE f == Head(queue)
  <1>1. /\ queue # <<>> /\ queue' = Tail(queue) /\ UNCHANGED sender /\ UNCHANGED loss
        /\ Handle(f)
    BY DEF OnFrame
  <1>2. /\ f = queue[1] /\ 1 \in DOMAIN queue
        /\ NumberInv' /\ OrderInv' /\ \A i \in DOMAIN queue' : Counted(queue'[i])
        /\ queue' \in Seq(Frame)
    BY <1>1, ShorterQueue
  <1>3. f \in Frame /\ Counted(f) /\ f.msg \in Message /\ f.index \in Nat
    BY <1>2, QueuedFields DEF LossInv, SeqInv
  <1>4. /\ sessions' \in [Key -> Session \cup {None}]
        /\ \A k \in Key : sessions'[k] # None => Counted(sessions'[k].head)
    BY <1>1, <1>3, HeardSessions
  <1>5. Typing'
    BY <1>1, <1>2, <1>4, ShorterQueue DEF LossInv, Typing, sender, loss
  <1>6. SeqInv'
    BY <1>2, <1>4 DEF SeqInv, Counted
  <1>7. ProgressInv'
    <2> SUFFICES ASSUME NEW m \in Unhurt'
                 PROVE  \E h \in 0 .. m.size :
                          h <= Written(m)' /\ Waiting(m, h)' /\ Taken(m, h)'
      BY DEF ProgressInv
    <2>1. m \in Unhurt /\ m \notin purged'
      BY <1>1, PurgedGrows DEF Unhurt, sender, loss
    <2>2. m \in Message /\ m.size \in 1 .. 32 /\ m.src \in Source /\ <<m.src, m.pgn>> \in Key
      BY <2>1, UnhurtAreMessages, MessageFields
    <2>3. PICK h \in 0 .. m.size : h <= Written(m) /\ Waiting(m, h) /\ Taken(m, h)
      BY <2>1 DEF LossInv, ProgressInv
    <2>4. h \in Nat /\ h <= m.size
      BY <2>2
    <2>5. Written(m)' = Written(m)
      BY <1>1 DEF Written, Sending, sender
    <2>6. CASE f.msg = m
      <3>1. f.index = h /\ h < Written(m) /\ h < m.size
        BY <1>2, <2>1, <2>3, <2>4, <2>6, HeadIsNext
      <3>2. Taken(m, h + 1)'
        BY <1>1, <1>3, <2>3, <2>6, <3>1, NextTaken
      <3>3. Waiting(m, h + 1)'
        BY <1>1, <2>1, <2>3, <2>4, <2>6, <3>1, OneLessWaits
      <3>4. h + 1 \in 0 .. m.size
        BY <2>2, <2>4, <3>1
      <3>5. Written(m) \in Nat
        BY <2>2, IndexFields DEF Written
      <3>6. h + 1 <= Written(m)'
        BY <2>4, <2>5, <3>1, <3>5
      <3> QED
        BY <3>2, <3>3, <3>4, <3>6
    <2>7. CASE f.msg # m
      <3>1. Waiting(m, h)'
        BY <1>1, <2>1, <2>3, <2>4, <2>7, OthersWait
      <3>2. ASSUME h > 0, h < m.size
            PROVE  LET session == sessions'[<<m.src, m.pgn>>]
                   IN  session # None /\ session.head.msg = m /\ session.next = h
        <4> DEFINE k == <<m.src, m.pgn>>
        <4>2. k # KeyOf(f)
          BY <1>2, <2>1, <2>2, <2>3, <2>4, <2>7, <3>2, NoneBetween
        <4>3. sessions[k] # None /\ sessions[k].head.msg = m /\ sessions[k].next = h
          BY <2>3, <3>2 DEF Taken
        <4>4. sessions'[k] = sessions[k]
          BY <1>1, <1>3, <2>1, <2>2, <4>2, <4>3, OthersStay
        <4> QED
          BY <4>3, <4>4
      <3>3. h = m.size => Delivered(m)'
        BY <1>1, <2>3, DeliveredStays DEF Taken
      <3>4. Taken(m, h)'
        BY <3>2, <3>3 DEF Taken
      <3> QED
        BY <2>3, <2>5, <3>1, <3>4
    <2> QED
      BY <2>6, <2>7
  <1> QED
    BY <1>2, <1>5, <1>6, <1>7 DEF LossInv

LEMMA FrameLost ==
  ASSUME LossInv, Lose
  PROVE  LossInv'
  <1>1. /\ queue # <<>> /\ queue' = Tail(queue) /\ UNCHANGED sender /\ UNCHANGED receiver
        /\ lost' = lost \cup {Head(queue).msg} /\ mishaps' = mishaps + 1
    BY DEF Lose, Mishap
  <1>2. /\ NumberInv' /\ OrderInv' /\ \A i \in DOMAIN queue' : Counted(queue'[i])
        /\ queue' \in Seq(Frame)
    BY <1>1, ShorterQueue
  <1>3. Typing' /\ SeqInv'
    BY <1>1, <1>2, ShorterQueue DEF LossInv, Typing, SeqInv, Counted, receiver, sender
  <1>4. ProgressInv'
    <2> SUFFICES ASSUME NEW m \in Unhurt'
                 PROVE  \E h \in 0 .. m.size :
                          h <= Written(m)' /\ Waiting(m, h)' /\ Taken(m, h)'
      BY DEF ProgressInv
    <2>1. m \in Unhurt /\ m # Head(queue).msg
      BY <1>1 DEF Unhurt, sender, receiver
    <2>2. PICK h \in 0 .. m.size : h <= Written(m) /\ Waiting(m, h) /\ Taken(m, h)
      BY <2>1 DEF LossInv, ProgressInv
    <2>3. h \in Nat
      BY <2>1, UnhurtAreMessages, MessageFields
    <2>4. Waiting(m, h)'
      BY <1>1, <2>1, <2>2, <2>3, OthersWait
    <2> QED
      BY <1>1, <2>2, <2>4 DEF Written, Sending, Taken, Delivered, sender, receiver
  <1> QED
    BY <1>2, <1>3, <1>4 DEF LossInv

-----------------------------------------------------------------------------
(* The senders' steps. *)

Progress(m) ==
  \E h \in 0 .. m.size : h <= Written(m) /\ Waiting(m, h) /\ Taken(m, h)

LEMMA ProgressKept ==
  ASSUME LossInv, UNCHANGED <<queue, sessions, delivered>>,
         NEW m \in Unhurt, Written(m)' = Written(m)
  PROVE  Progress(m)'
  <1>1. PICK h \in 0 .. m.size : h <= Written(m) /\ Waiting(m, h) /\ Taken(m, h)
    BY DEF LossInv, ProgressInv
  <1>2. Waiting(m, h)'
    BY <1>1 DEF Waiting
  <1>3. Taken(m, h)'
    BY <1>1 DEF Taken, Delivered
  <1> QED
    BY <1>1, <1>2, <1>3 DEF Progress

LEMMA CurrentFields ==
  ASSUME LossInv, NEW s \in Source, current[s] # None
  PROVE  /\ current[s] \in Message /\ current[s].src = s /\ current[s].num = sent[s]
         /\ current[s].try = fails[s] /\ index[s] <= current[s].size
         /\ Sending(current[s]) /\ current[s].size \in 1 .. 32 /\ ~current[s].plain
  <1>1. /\ current[s] \in Message /\ current[s].src = s /\ current[s].num = sent[s]
        /\ current[s].try = fails[s] /\ index[s] <= current[s].size /\ ~current[s].plain
    BY DEF LossInv, Typing, NumberInv
  <1> QED
    BY <1>1, MessageFields DEF Sending

(* A message not on its way is another than the one being sent.            *)
LEMMA OutIsPast ==
  ASSUME LossInv, NEW m \in out
  PROVE  m \in Message /\ Past(m) /\ ~Sending(m)
  <1>1. m \in Message /\ m.src \in Source /\ m.num \in Nat /\ m # None
    BY MessageFields DEF LossInv, Typing
  <1>2. m.num < sent[m.src] /\ sent[m.src] \in Nat
    BY <1>1 DEF LossInv, Typing, NumberInv
  <1>3. ~Sending(m)
    <2> SUFFICES ASSUME current[m.src] = m PROVE FALSE
      BY DEF Sending
    <2> QED
      BY <1>1, <1>2, CurrentFields
  <1> QED
    BY <1>1, <1>2, <1>3 DEF Past

LEMMA BeginLoss ==
  ASSUME LossInv, NEW s \in Source, NEW p \in Pgn, NEW size \in Sizes, Begin(s, p, size)
  PROVE  LossInv'
  <1> DEFINE new == [src |-> s, num |-> sent[s], try |-> fails[s], pgn |-> p, size |-> size,
                     plain |-> FALSE]
  <1>1. /\ current[s] = None /\ current' = [current EXCEPT ![s] = new]
        /\ UNCHANGED <<index, sent, fails, out, crossed, queue, receiver, loss>>
    BY DEF Begin
  <1>2. new \in Message /\ new.src = s /\ new.num = sent[s] /\ new.try = fails[s] /\ ~Past(new)
        /\ ~new.plain
    BY SizeAssumption DEF LossInv, Typing, Message, Past
  <1>3. new.size \in 1 .. 32 /\ new # None /\ index[s] = 0
    BY <1>1, <1>2, MessageFields DEF LossInv, NumberInv
  <1>4. Typing'
    BY <1>1, <1>2 DEF LossInv, Typing, receiver, loss
  <1>5. /\ current'[s] = new
        /\ \A t \in Source \ {s} : current'[t] = current[t]
    BY <1>1 DEF LossInv, Typing
  <1>6. ASSUME NEW m \in Message, m # new
        PROVE  Sending(m)' <=> Sending(m)
    BY <1>1, <1>5, <1>6, MessageFields DEF Sending
  <1>7. NumberInv'
    <2>1. \A t \in Source :
            IF current'[t] = None THEN index[t] = 0
            ELSE /\ current'[t].src = t /\ current'[t].num = sent[t]
                 /\ current'[t].try = fails[t] /\ index[t] <= current'[t].size
                 /\ ~current'[t].plain
      BY <1>2, <1>3, <1>5 DEF LossInv, NumberInv
    <2>2. ASSUME NEW i \in DOMAIN queue, ~queue[i].msg.plain
          PROVE  IF Sending(queue[i].msg)' THEN queue[i].index < index[queue[i].msg.src]
                 ELSE Past(queue[i].msg)
      <3>1. queue[i].msg \in Message /\ queue[i].msg # None
        BY QueuedFields, MessageFields
      <3>2. IF Sending(queue[i].msg) THEN queue[i].index < index[queue[i].msg.src]
            ELSE Past(queue[i].msg)
        BY <2>2 DEF LossInv, NumberInv
      <3>3. queue[i].msg # new
        BY <1>1, <1>2, <3>1, <3>2 DEF Sending
      <3> QED
        BY <1>1, <1>6, <3>1, <3>2, <3>3
    <2>3. \A m \in out : m.num < sent[m.src] /\ ~m.plain
      BY DEF LossInv, NumberInv
    <2>4. UNCHANGED <<index, sent, fails, out, queue>>
      BY <1>1
    <2> HIDE DEF new
    <2> QED
      BY <2>1, <2>2, <2>3, <2>4 DEF NumberInv, Past, Sending
  <1>8. SeqInv'
    BY <1>1 DEF LossInv, SeqInv, receiver, Counted
  <1>9. OrderInv'
    <2>1. Ascending' /\ OneByOne'
      BY <1>1 DEF LossInv, OrderInv, Ascending, OneByOne, Before, Header, KeyOf
    <2>2. CurrentLast'
      BY <1>1, <1>3, <1>5 DEF LossInv, OrderInv, CurrentLast, Before, Header, KeyOf
    <2> QED
      BY <2>1, <2>2 DEF OrderInv
  <1>10. ASSUME NEW m \in Unhurt'
         PROVE  Progress(m)'
    <2>1. CASE m = new
      <3>1. Written(m)' = 0
        BY <1>1, <1>2, <1>3, <1>5, <2>1 DEF Written, Sending
      <3>2. \A i \in DOMAIN queue : queue[i].index \in Nat
        BY QueuedFields
      <3>3. Waiting(m, 0)'
        BY <1>1, <3>1, <3>2 DEF Waiting
      <3>4. Taken(m, 0)'
        BY <1>3, <2>1 DEF Taken
      <3> QED
        BY <1>3, <2>1, <3>1, <3>3, <3>4 DEF Progress
    <2>2. CASE m # new
      <3>1. m \in Unhurt
        BY <1>1, <1>5, <2>2 DEF Unhurt, loss, receiver
      <3>2. m \in Message
        BY <3>1, UnhurtAreMessages
      <3>3. Written(m)' = Written(m)
        BY <1>1, <1>6, <2>2, <3>2 DEF Written
      <3> QED
        BY <1>1, <3>1, <3>3, ProgressKept DEF receiver
    <2> QED
      BY <2>1, <2>2
  <1> QED
    BY <1>4, <1>7, <1>8, <1>9, <1>10 DEF LossInv, ProgressInv, Progress

LEMMA EndLoss ==
  ASSUME LossInv, NEW s \in Source, End(s)
  PROVE  LossInv'
  <1>0. PICK old : old = current[s]
    OBVIOUS
  <1>1. /\ old # None /\ ~(index[s] < old.size)
        /\ current' = [current EXCEPT ![s] = None] /\ sent' = [sent EXCEPT ![s] = @ + 1]
        /\ out' = out \cup {old} /\ index' = [index EXCEPT ![s] = 0]
        /\ UNCHANGED <<fails, crossed, queue, receiver, loss>>
    BY <1>0 DEF End, MoreFrames
  <1>2. /\ old \in Message /\ old.src = s /\ old.num = sent[s] /\ old.size \in 1 .. 32
        /\ ~old.plain
        /\ index[s] <= old.size /\ index[s] \in Nat /\ sent[s] \in Nat
    BY <1>0, <1>1, CurrentFields, IndexFields DEF LossInv, Typing
  <1>3. index[s] = old.size
    BY <1>1, <1>2
  <1>4. Typing'
    BY <1>1, <1>2 DEF LossInv, Typing, receiver, loss
  <1>5. /\ current'[s] = None /\ index'[s] = 0 /\ sent'[s] = sent[s] + 1
        /\ \A t \in Source \ {s} :
             current'[t] = current[t] /\ index'[t] = index[t] /\ sent'[t] = sent[t]
        /\ \A t \in Source : sent[t] \in Nat
    BY <1>1 DEF LossInv, Typing
  <1>6. ASSUME NEW m \in Message, m # old
        PROVE  /\ Sending(m)' <=> Sending(m)
               /\ Sending(m) => m.src # s
    <2>1. m.src \in Source /\ m # None
      BY MessageFields
    <2> QED
      BY <1>0, <1>5, <1>6, <2>1 DEF Sending
  <1>7. ASSUME NEW m \in Message, Past(m) \/ m = old
        PROVE  Past(m)'
    <2>1. m.src \in Source /\ m.num \in Nat /\ m.try \in Nat
      BY MessageFields
    <2> QED
      BY <1>1, <1>2, <1>5, <1>7, <2>1 DEF Past
  <1>8. ~Sending(old)'
    BY <1>1, <1>2, <1>5 DEF Sending
  <1>9. NumberInv'
    <2>1. \A t \in Source :
            IF current'[t] = None THEN index'[t] = 0
            ELSE /\ current'[t].src = t /\ current'[t].num = sent'[t]
                 /\ current'[t].try = fails[t] /\ index'[t] <= current'[t].size
                 /\ ~current'[t].plain
      BY <1>5 DEF LossInv, NumberInv
    <2>2. ASSUME NEW m \in out'
          PROVE  m.num < sent'[m.src] /\ ~m.plain
      <3>1. CASE m = old
        BY <1>2, <1>5, <3>1
      <3>2. CASE m \in out
        <4>1. m \in Message /\ m.num < sent[m.src] /\ m.src \in Source /\ m.num \in Nat
              /\ ~m.plain
          BY <3>2, OutIsPast, MessageFields DEF LossInv, NumberInv
        <4> QED
          BY <1>5, <4>1
      <3> QED
        BY <1>1, <3>1, <3>2
    <2>3. ASSUME NEW i \in DOMAIN queue, ~queue[i].msg.plain
          PROVE  IF Sending(queue[i].msg)' THEN queue[i].index < index'[queue[i].msg.src]
                 ELSE Past(queue[i].msg)'
      <3> DEFINE m == queue[i].msg
      <3>1. m \in Message /\ m.src \in Source
        BY QueuedFields, MessageFields
      <3>2. IF Sending(m) THEN queue[i].index < index[m.src] ELSE Past(m)
        BY <2>3 DEF LossInv, NumberInv
      <3>3. CASE m = old
        BY <1>1, <1>7, <1>8, <3>1, <3>3
      <3>4. CASE m # old
        BY <1>1, <1>5, <1>6, <1>7, <3>1, <3>2, <3>4
      <3> QED
        BY <3>3, <3>4
    <2> QED
      BY <1>1, <2>1, <2>2, <2>3 DEF NumberInv, Sending
  <1>10. SeqInv'
    BY <1>1 DEF LossInv, SeqInv, receiver, Counted
  <1>11. OrderInv'
    <2>1. Ascending' /\ OneByOne'
      BY <1>1 DEF LossInv, OrderInv, Ascending, OneByOne, Before, Header, KeyOf
    <2>2. CurrentLast'
      BY <1>1, <1>5 DEF LossInv, OrderInv, CurrentLast, Before, Header, KeyOf
    <2> QED
      BY <2>1, <2>2 DEF OrderInv
  <1>12. ASSUME NEW m \in Unhurt'
         PROVE  Progress(m)'
    <2>1. m \in Unhurt
      <3>1. old \in {current[t] : t \in Source}
        BY <1>0
      <3> QED
        BY <1>1, <1>5, <3>1 DEF Unhurt, loss, receiver
    <2>2. m \in Message
      BY <2>1, UnhurtAreMessages
    <2>3. Written(m)' = Written(m)
      <3>1. CASE m = old
        BY <1>0, <1>1, <1>2, <1>3, <1>8, <3>1 DEF Written, Sending
      <3>2. CASE m # old
        BY <1>5, <1>6, <2>2, <3>2, MessageFields DEF Written
      <3> QED
        BY <3>1, <3>2
    <2> QED
      BY <1>1, <2>1, <2>3, ProgressKept DEF receiver
  <1> QED
    BY <1>4, <1>9, <1>10, <1>11, <1>12 DEF LossInv, ProgressInv, Progress

LEMMA FailLoss ==
  ASSUME LossInv, NEW s \in Source, Fail(s)
  PROVE  LossInv'
  <1>0. PICK old : old = current[s]
    OBVIOUS
  <1>1. /\ old # None
        /\ current' = [current EXCEPT ![s] = None] /\ fails' = [fails EXCEPT ![s] = @ + 1]
        /\ index' = [index EXCEPT ![s] = 0]
        /\ UNCHANGED <<sent, out, crossed, queue, receiver, lost>> /\ mishaps' = mishaps + 1
    BY <1>0 DEF Fail, Mishap
  <1>2. /\ old \in Message /\ old.src = s /\ old.num = sent[s] /\ old.try = fails[s]
        /\ fails[s] \in Nat /\ sent[s] \in Nat
    BY <1>0, <1>1, CurrentFields DEF LossInv, Typing
  <1>3. Typing'
    BY <1>1, <1>2 DEF LossInv, Typing, receiver
  <1>4. /\ current'[s] = None /\ index'[s] = 0 /\ fails'[s] = fails[s] + 1
        /\ \A t \in Source \ {s} :
             current'[t] = current[t] /\ index'[t] = index[t] /\ fails'[t] = fails[t]
        /\ \A t \in Source : fails[t] \in Nat
    BY <1>1 DEF LossInv, Typing
  <1>5. ASSUME NEW m \in Message, m # old
        PROVE  /\ Sending(m)' <=> Sending(m)
               /\ Sending(m) => m.src # s
    <2>1. m.src \in Source /\ m # None
      BY MessageFields
    <2> QED
      BY <1>0, <1>4, <1>5, <2>1 DEF Sending
  <1>6. ASSUME NEW m \in Message, Past(m) \/ m = old
        PROVE  Past(m)'
    <2>1. m.src \in Source /\ m.num \in Nat /\ m.try \in Nat
      BY MessageFields
    <2> QED
      BY <1>1, <1>2, <1>4, <1>6, <2>1 DEF Past
  <1>7. ~Sending(old)'
    BY <1>1, <1>2, <1>4 DEF Sending
  <1>8. NumberInv'
    <2>1. \A t \in Source :
            IF current'[t] = None THEN index'[t] = 0
            ELSE /\ current'[t].src = t /\ current'[t].num = sent[t]
                 /\ current'[t].try = fails'[t] /\ index'[t] <= current'[t].size
                 /\ ~current'[t].plain
      BY <1>4 DEF LossInv, NumberInv
    <2>2. ASSUME NEW i \in DOMAIN queue, ~queue[i].msg.plain
          PROVE  IF Sending(queue[i].msg)' THEN queue[i].index < index'[queue[i].msg.src]
                 ELSE Past(queue[i].msg)'
      <3> DEFINE m == queue[i].msg
      <3>1. m \in Message /\ m.src \in Source
        BY QueuedFields, MessageFields
      <3>2. IF Sending(m) THEN queue[i].index < index[m.src] ELSE Past(m)
        BY <2>2 DEF LossInv, NumberInv
      <3>3. CASE m = old
        BY <1>1, <1>6, <1>7, <3>1, <3>3
      <3>4. CASE m # old
        BY <1>1, <1>4, <1>5, <1>6, <3>1, <3>2, <3>4
      <3> QED
        BY <3>3, <3>4
    <2> QED
      BY <1>1, <2>1, <2>2 DEF LossInv, NumberInv, Sending
  <1>9. SeqInv'
    BY <1>1 DEF LossInv, SeqInv, receiver, Counted
  <1>10. OrderInv'
    <2>1. Ascending' /\ OneByOne'
      BY <1>1 DEF LossInv, OrderInv, Ascending, OneByOne, Before, Header, KeyOf
    <2>2. CurrentLast'
      BY <1>1, <1>4 DEF LossInv, OrderInv, CurrentLast, Before, Header, KeyOf
    <2> QED
      BY <2>1, <2>2 DEF OrderInv
  <1>11. ASSUME NEW m \in Unhurt'
         PROVE  Progress(m)'
    <2>1. m \in Unhurt
      BY <1>1, <1>4 DEF Unhurt, loss, receiver
    <2>2. m # old
      <3>1. old \notin out
        BY <1>0, <1>1, CurrentFields, OutIsPast
      <3>2. \A t \in Source \ {s} : current[t] # old
        BY <1>1, <1>2, CurrentFields
      <3> QED
        BY <1>1, <1>4, <3>1, <3>2 DEF Unhurt
    <2>3. Written(m)' = Written(m)
      BY <1>4, <1>5, <2>1, <2>2, UnhurtAreMessages, MessageFields DEF Written
    <2> QED
      BY <1>1, <2>1, <2>3, ProgressKept DEF receiver
  <1> QED
    BY <1>3, <1>8, <1>9, <1>10, <1>11 DEF LossInv, ProgressInv, Progress

LEMMA SendLoss ==
  ASSUME LossInv, NEW s \in Source, SendFrame(s)
  PROVE  LossInv'
  <1>0. PICK g : g = NextFrame(s)
    OBVIOUS
  <1>1. /\ current[s] # None /\ index[s] < current[s].size
        /\ queue' = Append(queue, g) /\ index' = [index EXCEPT ![s] = @ + 1]
        /\ UNCHANGED <<current, sent, fails, out, crossed, receiver, loss>>
    BY <1>0 DEF SendFrame, MoreFrames
  <1>2. PICK old \in Message : old = current[s]
    BY <1>1, CurrentFields
  <1>3. /\ old.src = s /\ old.num = sent[s] /\ Sending(old) /\ old.size \in 1 .. 32
        /\ index[s] \in Nat /\ sent[s] \in Nat /\ ~old.plain
    BY <1>1, <1>2, CurrentFields, IndexFields DEF LossInv, Typing
  <1>4. g = [msg |-> old, seq |-> old.num % SeqMod, index |-> index[s]]
    BY <1>0, <1>2, <1>3 DEF NextFrame
  <1>5. g \in Frame /\ Counted(g)
    <2>1. sent[s] % SeqMod \in 0 .. (SeqMod - 1)
      BY <1>3, SizeAssumption
    <2>2. index[s] < old.size
      BY <1>1, <1>2
    <2>3. index[s] \in 0 .. 31
      BY <1>3, <2>2
    <2> QED
      BY <1>3, <1>4, <2>1, <2>2, <2>3 DEF Frame, Counted
  <1>6. PICK n \in Nat : n = Len(queue)
    BY DEF LossInv, Typing
  <1>7. /\ DOMAIN queue = 1 .. n /\ DOMAIN queue' = 1 .. (n + 1)
        /\ \A i \in DOMAIN queue : queue'[i] = queue[i]
        /\ queue'[n + 1] = g
        /\ queue' \in Seq(Frame)
    BY <1>1, <1>5, <1>6 DEF LossInv, Typing
  <1>8. /\ index'[s] = index[s] + 1
        /\ \A t \in Source \ {s} : index'[t] = index[t]
    BY <1>1 DEF LossInv, Typing
  <1>9. Typing'
    BY <1>1, <1>7, <1>3 DEF LossInv, Typing, receiver, loss
  <1>10. \A i \in DOMAIN queue : queue[i].index \in Nat /\ queue[i].msg \in Message
    BY QueuedFields
  <1>11. NumberInv'
    <2>1. \A t \in Source :
            IF current[t] = None THEN index'[t] = 0
            ELSE /\ current[t].src = t /\ current[t].num = sent[t]
                 /\ current[t].try = fails[t] /\ index'[t] <= current[t].size
                 /\ ~current[t].plain
      <3> TAKE t \in Source
      <3>1. IF current[t] = None THEN index[t] = 0
            ELSE /\ current[t].src = t /\ current[t].num = sent[t]
                 /\ current[t].try = fails[t] /\ index[t] <= current[t].size
                 /\ ~current[t].plain
        BY DEF LossInv, NumberInv
      <3>2. CASE t = s
        <4>1. index[s] < old.size
          BY <1>1, <1>2
        <4>2. index'[s] <= old.size
          BY <1>3, <1>8, <4>1
        <4> QED
          BY <1>1, <1>2, <3>1, <3>2, <4>2
      <3>3. CASE t # s
        BY <1>8, <3>1, <3>3
      <3> QED
        BY <3>2, <3>3
    <2>2. ASSUME NEW i \in DOMAIN queue', ~queue'[i].msg.plain
          PROVE  IF Sending(queue'[i].msg) THEN queue'[i].index < index'[queue'[i].msg.src]
                 ELSE Past(queue'[i].msg)
      <3>1. CASE i = n + 1
        BY <1>3, <1>4, <1>7, <1>8, <3>1
      <3>2. CASE i \in DOMAIN queue
        <4>1. queue[i].msg.src \in Source /\ index[queue[i].msg.src] \in Nat
          BY <1>10, <3>2, MessageFields, IndexFields
        <4>2. IF Sending(queue[i].msg) THEN queue[i].index < index[queue[i].msg.src]
              ELSE Past(queue[i].msg)
          BY <1>7, <2>2, <3>2 DEF LossInv, NumberInv
        <4> QED
          BY <1>3, <1>7, <1>8, <1>10, <3>2, <4>1, <4>2
      <3> QED
        BY <1>7, <3>1, <3>2
    <2> QED
      BY <1>1, <2>1, <2>2 DEF LossInv, NumberInv, Sending, Past
  <1>12. SeqInv'
    <2>1. \A i \in DOMAIN queue' : Counted(queue'[i])
      BY <1>5, <1>7 DEF LossInv, SeqInv
    <2> QED
      BY <1>1, <2>1 DEF LossInv, SeqInv, receiver, Counted
  <1>13. Ascending'
    <2> SUFFICES ASSUME NEW i \in DOMAIN queue', NEW j \in DOMAIN queue', i < j,
                        queue'[i].msg = queue'[j].msg, ~queue'[j].msg.plain
                 PROVE  queue'[i].index < queue'[j].index
      BY DEF Ascending
    <2>1. i \in DOMAIN queue
      BY <1>7
    <2>2. CASE j \in DOMAIN queue
      BY <1>7, <2>1, <2>2 DEF LossInv, OrderInv, Ascending
    <2>3. CASE j = n + 1
      <3>1. queue[i].msg = old
        BY <1>4, <1>7, <2>1, <2>3
      <3>2. queue[i].index < index[s]
        BY <1>3, <2>1, <3>1, QueuedIndex
      <3> QED
        BY <1>4, <1>7, <2>1, <2>3, <3>2
    <2> QED
      BY <1>7, <2>2, <2>3
  <1>14. ASSUME NEW i \in DOMAIN queue, NEW m, Before(i, m)
         PROVE  Before(i, m)'
    <2>1. PICK l \in DOMAIN queue : l > i /\ queue[l].msg = m /\ queue[l].index = 0
      BY <1>14 DEF Before, Header
    <2>2. l \in DOMAIN queue' /\ queue'[l] = queue[l]
      BY <1>7
    <2> QED
      BY <2>1, <2>2 DEF Before, Header
  <1>15. ASSUME NEW i \in DOMAIN queue, KeyOf(queue[i]) = <<s, old.pgn>>,
                queue[i].msg # old, old \notin crossed
         PROVE  Before(i, old)'
    <2>1. CASE index[s] = 0
      <3>1. n + 1 \in DOMAIN queue' /\ n + 1 > i
        BY <1>7
      <3> QED
        BY <1>4, <1>7, <2>1, <3>1 DEF Before, Header
    <2>2. CASE index[s] > 0
      BY <1>1, <1>2, <1>14, <1>15, <2>2 DEF LossInv, OrderInv, CurrentLast
    <2> QED
      BY <1>3, <2>1, <2>2
  <1>16. OneByOne'
    <2> SUFFICES ASSUME NEW i \in DOMAIN queue', NEW j \in DOMAIN queue', i < j,
                        KeyOf(queue'[i]) = KeyOf(queue'[j]), queue'[i].msg # queue'[j].msg,
                        ~queue'[j].msg.plain, queue'[j].msg \notin crossed
                 PROVE  Before(i, queue[j].msg)'
      BY <1>1 DEF OneByOne, KeyOf
    <2>1. i \in DOMAIN queue /\ queue'[i] = queue[i]
      BY <1>7
    <2>2. CASE j \in DOMAIN queue
      <3>1. PICK m : m = queue[j].msg /\ m = queue'[j].msg
        BY <1>7, <2>2
      <3>2. Before(i, m)
        BY <1>7, <2>1, <2>2, <3>1 DEF LossInv, OrderInv, OneByOne, KeyOf
      <3> QED
        BY <1>14, <2>1, <3>1, <3>2
    <2>3. CASE j = n + 1
      <3>1. queue'[j].msg = old
        BY <1>4, <1>7, <2>3
      <3>2. KeyOf(queue[i]) = <<s, old.pgn>> /\ queue[i].msg # old /\ old \notin crossed
        BY <1>3, <2>1, <3>1 DEF KeyOf
      <3> QED
        BY <1>15, <2>1, <3>1, <3>2
    <2> QED
      BY <1>7, <2>2, <2>3
  <1>17. CurrentLast'
    <2> SUFFICES ASSUME NEW t \in Source, current[t] # None, index'[t] > 0,
                        current[t] \notin crossed,
                        NEW i \in DOMAIN queue', KeyOf(queue'[i]) = <<t, current[t].pgn>>,
                        queue'[i].msg # current[t]
                 PROVE  Before(i, current[t])'
      BY <1>1 DEF CurrentLast, KeyOf
    <2>1. PICK m : m = current[t] /\ m = current'[t]
      BY <1>1
    <2>2. i \in DOMAIN queue /\ queue'[i] = queue[i]
      BY <1>2, <1>3, <1>4, <1>7 DEF KeyOf
    <2>3. CASE t = s
      BY <1>2, <1>15, <2>1, <2>2, <2>3
    <2>4. CASE t # s
      <3>1. Before(i, m)
        BY <1>8, <2>1, <2>2, <2>4 DEF LossInv, OrderInv, CurrentLast, KeyOf
      <3> QED
        BY <1>14, <2>1, <2>2, <3>1
    <2> QED
      BY <2>3, <2>4
  <1>18. ASSUME NEW m \in Unhurt'
         PROVE  Progress(m)'
    <2>1. m \in Unhurt
      BY <1>1 DEF Unhurt, loss, receiver
    <2>2. m \in Message /\ m.src \in Source /\ m.size \in 1 .. 32
      BY <2>1, UnhurtAreMessages, MessageFields
    <2>3. PICK h \in 0 .. m.size : h <= Written(m) /\ Waiting(m, h) /\ Taken(m, h)
      BY <2>1 DEF LossInv, ProgressInv
    <2>4. Taken(m, h)'
      BY <1>1, <2>3 DEF Taken, Delivered, receiver
    <2>5. CASE m = old
      <3>1. Written(m) = index[s] /\ Written(m)' = index[s] + 1
        BY <1>1, <1>2, <1>3, <1>8, <2>5 DEF Written, Sending
      <3>2. \A i \in DOMAIN queue' : queue'[i].msg = m => queue'[i].index >= h
        BY <1>3, <1>4, <1>7, <2>3, <2>5, <3>1 DEF Waiting
      <3>3. ASSUME NEW o \in h .. index[s]
            PROVE  \E i \in DOMAIN queue' : queue'[i].msg = m /\ queue'[i].index = o
        <4>1. CASE o = index[s]
          BY <1>4, <1>7, <2>5, <4>1
        <4>2. CASE o # index[s]
          <5>1. o \in h .. (Written(m) - 1)
            BY <1>3, <2>2, <3>1, <4>2
          <5> QED
            BY <1>7, <2>3, <5>1 DEF Waiting
        <4> QED
          BY <4>1, <4>2
      <3>4. (index[s] + 1) - 1 = index[s]
        BY <1>3
      <3>5. Waiting(m, h)'
        BY <3>1, <3>2, <3>3, <3>4 DEF Waiting
      <3>6. h <= Written(m)'
        BY <1>3, <2>2, <2>3, <3>1
      <3> QED
        BY <2>3, <2>4, <3>5, <3>6 DEF Progress
    <2>6. CASE m # old
      <3>1. Written(m)' = Written(m)
        BY <1>1, <1>2, <1>8, <2>2, <2>6 DEF Written, Sending
      <3>2. \A i \in DOMAIN queue' : queue'[i].msg = m => i \in DOMAIN queue /\ queue'[i] = queue[i]
        BY <1>4, <1>7, <2>6
      <3>3. Waiting(m, h)'
        BY <1>7, <2>3, <3>1, <3>2 DEF Waiting
      <3> QED
        BY <2>3, <2>4, <3>1, <3>3 DEF Progress
    <2> QED
      BY <2>5, <2>6
  <1> QED
    BY <1>9, <1>11, <1>12, <1>13, <1>16, <1>17, <1>18 DEF LossInv, OrderInv, ProgressInv, Progress

LEMMA PlainLoss ==
  ASSUME LossInv, NEW s \in Source, NEW p \in Pgn, NEW r \in Readings, SendPlain(s, p, r)
  PROVE  LossInv'
  <1>0. PICK m : m = [src |-> s, num |-> r.seq, try |-> mishaps, pgn |-> p, size |-> r.size,
                      plain |-> TRUE]
    OBVIOUS
  <1>1. PICK g : g = [msg |-> m, seq |-> r.seq, index |-> r.index]
    OBVIOUS
  <1>2. /\ queue' = Append(queue, g) /\ mishaps' = mishaps + 1
        /\ crossed' = crossed \cup {o \in {current[s]} : o # None /\ o.pgn = p}
        /\ UNCHANGED <<current, index, sent, fails, out, reused, receiver, lost>>
    BY <1>0, <1>1 DEF SendPlain, Mishap
  <1>3. m \in Message /\ m.src = s /\ m.pgn = p /\ m.plain /\ m.num = r.seq
    BY <1>0, SizeAssumption DEF LossInv, Typing, Message
  <1>4. g \in Frame /\ Counted(g)
    <2>1. r.seq \in 0 .. (SeqMod - 1) /\ r.index \in 0 .. 31 /\ r.index < r.size /\ SeqMod \in Nat
      BY SizeAssumption
    <2>2. r.seq % SeqMod = r.seq
      BY <2>1
    <2> QED
      BY <1>0, <1>1, <1>3, <2>1, <2>2 DEF Frame, Counted
  <1>5. PICK n \in Nat : n = Len(queue)
    BY DEF LossInv, Typing
  <1>6. /\ DOMAIN queue = 1 .. n /\ DOMAIN queue' = 1 .. (n + 1)
        /\ \A i \in DOMAIN queue : queue'[i] = queue[i]
        /\ queue'[n + 1] = g /\ queue'[n + 1].msg.plain
        /\ queue' \in Seq(Frame)
    BY <1>1, <1>2, <1>3, <1>4, <1>5 DEF LossInv, Typing
  <1>7. \A i \in DOMAIN queue' : ~queue'[i].msg.plain => i \in DOMAIN queue /\ queue'[i] = queue[i]
    BY <1>6
  <1>8. Typing'
    BY <1>2, <1>6 DEF LossInv, Typing, receiver
  <1>9. NumberInv'
    BY <1>2, <1>7 DEF LossInv, NumberInv, Sending, Past
  <1>10. SeqInv'
    BY <1>2, <1>4, <1>6 DEF LossInv, SeqInv, receiver, Counted
  <1>11. \A i, j \in DOMAIN queue' : i < j /\ j \in DOMAIN queue =>
           i \in DOMAIN queue /\ queue'[i] = queue[i]
    BY <1>6
  <1>12. Ascending'
    BY <1>7, <1>11 DEF LossInv, OrderInv, Ascending
  <1>13. ASSUME NEW i \in DOMAIN queue, NEW o, Before(i, o)
         PROVE  \E l \in DOMAIN queue' : l > i /\ queue'[l].msg = o /\ queue'[l].index = 0
    <2>1. PICK l \in DOMAIN queue : l > i /\ queue[l].msg = o /\ queue[l].index = 0
      BY <1>13 DEF Before, Header
    <2>2. l \in DOMAIN queue' /\ queue'[l] = queue[l]
      BY <1>6
    <2> QED
      BY <2>1, <2>2
  <1>14. OneByOne'
    <2> SUFFICES ASSUME NEW i \in DOMAIN queue', NEW j \in DOMAIN queue', i < j,
                        KeyOf(queue'[i]) = KeyOf(queue'[j]), queue'[i].msg # queue'[j].msg,
                        ~queue'[j].msg.plain, queue'[j].msg \notin crossed'
                 PROVE  \E l \in DOMAIN queue' :
                          l > i /\ queue'[l].msg = queue'[j].msg /\ queue'[l].index = 0
      BY DEF OneByOne, Before, Header, KeyOf
    <2>1. /\ i \in DOMAIN queue /\ j \in DOMAIN queue
          /\ queue'[i] = queue[i] /\ queue'[j] = queue[j]
      BY <1>7, <1>11
    <2>2. queue[j].msg \notin crossed
      BY <1>2, <2>1
    <2>3. Before(i, queue[j].msg)
      BY <2>1, <2>2 DEF LossInv, OrderInv, OneByOne
    <2> QED
      BY <1>13, <2>1, <2>3
  <1>15. CurrentLast'
    <2> SUFFICES ASSUME NEW t \in Source, current[t] # None, index[t] > 0,
                        current[t] \notin crossed',
                        NEW i \in DOMAIN queue', KeyOf(queue'[i]) = <<t, current[t].pgn>>,
                        queue'[i].msg # current[t]
                 PROVE  \E l \in DOMAIN queue' :
                          l > i /\ queue'[l].msg = current[t] /\ queue'[l].index = 0
      BY <1>2 DEF CurrentLast, Before, Header, KeyOf
    <2>1. i # n + 1
      <3> SUFFICES ASSUME i = n + 1 PROVE FALSE
        OBVIOUS
      <3>1. t = s /\ current[s].pgn = p
        BY <1>1, <1>3, <1>6 DEF KeyOf
      <3> QED
        BY <1>2, <3>1
    <2>2. i \in DOMAIN queue /\ queue'[i] = queue[i] /\ current[t] \notin crossed
      BY <1>2, <1>6, <2>1
    <2>3. Before(i, current[t])
      BY <2>2 DEF LossInv, OrderInv, CurrentLast
    <2> QED
      BY <1>13, <2>2, <2>3
  <1>16. ASSUME NEW o \in Unhurt'
         PROVE  Progress(o)'
    <2>1. o \in Unhurt
      BY <1>2, <1>16 DEF Unhurt, receiver
    <2>2. ~o.plain
      BY <2>1, UnhurtAreMessages
    <2>3. PICK h \in 0 .. o.size : h <= Written(o) /\ Waiting(o, h) /\ Taken(o, h)
      BY <2>1 DEF LossInv, ProgressInv
    <2>4. Written(o)' = Written(o)
      BY <1>2 DEF Written, Sending
    <2>5. \A i \in DOMAIN queue' : queue'[i].msg = o => i \in DOMAIN queue /\ queue'[i] = queue[i]
      BY <1>7, <2>2
    <2>6. Waiting(o, h)'
      BY <1>6, <2>3, <2>4, <2>5 DEF Waiting
    <2>7. Taken(o, h)'
      BY <1>2, <2>3 DEF Taken, Delivered, receiver
    <2> QED
      BY <2>3, <2>4, <2>6, <2>7 DEF Progress
  <1> QED
    BY <1>8, <1>9, <1>10, <1>12, <1>14, <1>15, <1>16
       DEF LossInv, OrderInv, ProgressInv, Progress

LEMMA NextLoss == LossInv /\ [Next]_vars => LossInv'
  <1> SUFFICES ASSUME LossInv, [Next]_vars PROVE LossInv'
    OBVIOUS
  <1>1. ASSUME UNCHANGED <<sender, queue, sessions, delivered, purged, loss>>
        PROVE  LossInv'
    <2>1. Typing' /\ NumberInv' /\ SeqInv'
      BY <1>1 DEF LossInv, Typing, NumberInv, SeqInv, sender, loss, Sending, Past, Counted
    <2>2. OrderInv'
      BY <1>1 DEF LossInv, OrderInv, Ascending, OneByOne, CurrentLast, Before, Header, KeyOf, sender
    <2>3. ASSUME NEW m \in Unhurt'
          PROVE  Progress(m)'
      <3>1. m \in Unhurt /\ Written(m)' = Written(m)
        BY <1>1 DEF Unhurt, Written, Sending, sender, loss
      <3> QED
        BY <1>1, <3>1, ProgressKept
    <2> QED
      BY <2>1, <2>2, <2>3 DEF LossInv, ProgressInv, Progress
  <1>2. CASE UNCHANGED vars
    BY <1>1, <1>2 DEF vars, receiver
  <1>3. CASE GrowStale
    BY <1>1, <1>3 DEF GrowStale
  <1> QED
    BY <1>2, <1>3, BeginLoss, SendLoss, EndLoss, FailLoss, PlainLoss, FrameHandled, FrameLost
       DEF Next

(* A lost frame costs the application the message it belonged to and no    *)
(* other (Receiver::on_frame): however many ECUs send, fail or start anew, *)
(* and wherever the sequence counter is.                                   *)
THEOREM LossStaysLocal == Spec => []LossIsLocal
  <1>1. LossInv => LossIsLocal
    <2> SUFFICES ASSUME LossInv, NEW m \in out \ (lost \cup purged \cup crossed),
                        Handled(m)
                 PROVE  Delivered(m)
      BY DEF LossIsLocal
    <2>1. m \in Message /\ ~Sending(m) /\ m.size \in 1 .. 32 /\ m # None
      BY OutIsPast, MessageFields
    <2>2. m \in Unhurt
      BY <2>1 DEF Unhurt
    <2>3. PICK h \in 0 .. m.size : h <= Written(m) /\ Waiting(m, h) /\ Taken(m, h)
      BY <2>2 DEF LossInv, ProgressInv
    <2>4. Written(m) = m.size
      BY <2>1 DEF Written
    <2>5. ~(h < m.size)
      <3> SUFFICES ASSUME h < m.size PROVE FALSE
        OBVIOUS
      <3>1. h \in h .. (Written(m) - 1)
        BY <2>1, <2>4
      <3> QED
        BY <2>3, <3>1 DEF Waiting, Handled
    <2>6. h = m.size
      BY <2>1, <2>5
    <2> QED
      BY <2>3, <2>6 DEF Taken
  <1> QED
    BY <1>1, InitLoss, NextLoss, PTL DEF Spec

-----------------------------------------------------------------------------
(* The table of sessions and its order. *)

Distinct(q) == \A i, j \in DOMAIN q : q[i] = q[j] => i = j

LEMMA WithoutFact ==
  ASSUME NEW S, NEW q \in Seq(S), Distinct(q), NEW k
  PROVE  /\ Without(q, k) \in Seq(S) /\ Distinct(Without(q, k))
         /\ Elements(Without(q, k)) = Elements(q) \ {k}
         /\ Len(Without(q, k)) = IF k \in Elements(q) THEN Len(q) - 1 ELSE Len(q)
  <1>1. CASE k \notin Elements(q)
    BY <1>1 DEF Without
  <1>2. CASE k \in Elements(q)
    <2>1. PICK p : p = CHOOSE i \in DOMAIN q : q[i] = k
      OBVIOUS
    <2>2. p \in 1 .. Len(q) /\ q[p] = k
      BY <1>2, <2>1 DEF Elements
    <2>3. PICK l : l = Len(q)
      OBVIOUS
    <2>4. PICK r : r = [i \in 1 .. l - 1 |-> q[IF i < p THEN i ELSE i + 1]]
      OBVIOUS
    <2>5. Without(q, k) = r
      BY <1>2, <2>1, <2>3, <2>4 DEF Without
    <2>6. l \in Nat /\ p \in 1 .. l /\ \A i \in 1 .. l : q[i] \in S
      BY <2>2, <2>3
    <2>7. r \in Seq(S) /\ Len(r) = l - 1 /\ DOMAIN r = 1 .. l - 1
      <3>1. \A i \in 1 .. l - 1 : (IF i < p THEN i ELSE i + 1) \in 1 .. l
        BY <2>6
      <3>2. r \in [1 .. l - 1 -> S] /\ l - 1 \in Nat
        BY <2>4, <2>6, <3>1
      <3>. QED  BY <3>2
    <2>8. \A i \in 1 .. l - 1 : IF i < p THEN r[i] = q[i] ELSE r[i] = q[i + 1]
      BY <2>4
    <2>9. \A i, j \in 1 .. l : q[i] = q[j] => i = j
      BY <2>3 DEF Distinct
    <2>10. Distinct(r)
      <3> SUFFICES ASSUME NEW i \in 1 .. l - 1, NEW j \in 1 .. l - 1, r[i] = r[j]
                   PROVE  i = j
        BY <2>7 DEF Distinct
      <3>1. PICK a, b : /\ a = (IF i < p THEN i ELSE i + 1) /\ b = (IF j < p THEN j ELSE j + 1)
        OBVIOUS
      <3>2. a \in 1 .. l /\ b \in 1 .. l /\ r[i] = q[a] /\ r[j] = q[b]
        BY <2>6, <2>8, <3>1
      <3>3. a = b
        BY <2>9, <3>2
      <3>. QED  BY <2>6, <3>1, <3>3
    <2>11. ASSUME NEW x \in Elements(r)
           PROVE  x \in Elements(q) \ {k}
      <3>1. PICK i \in 1 .. l - 1 : x = r[i]
        BY <2>7 DEF Elements
      <3>2. PICK a : a = (IF i < p THEN i ELSE i + 1)
        OBVIOUS
      <3>3. a \in 1 .. l /\ x = q[a] /\ a # p
        BY <2>6, <2>8, <3>1, <3>2
      <3>. QED  BY <2>2, <2>3, <2>6, <2>9, <3>3 DEF Elements
    <2>12. ASSUME NEW x \in Elements(q) \ {k}
           PROVE  x \in Elements(r)
      <3>1. PICK a \in 1 .. l : x = q[a]
        BY <2>3 DEF Elements
      <3>2. a # p
        BY <2>2, <3>1
      <3>3. CASE a < p
        <4>1. a \in 1 .. l - 1 /\ r[a] = x
          BY <2>6, <2>8, <3>1, <3>3
        <4>. QED  BY <2>7, <4>1 DEF Elements
      <3>4. CASE a > p
        <4>1. a - 1 \in 1 .. l - 1 /\ ~(a - 1 < p) /\ (a - 1) + 1 = a
          BY <2>6, <3>4
        <4>2. r[a - 1] = x
          BY <2>8, <3>1, <4>1
        <4>. QED  BY <2>7, <4>1, <4>2 DEF Elements
      <3>. QED  BY <2>6, <3>2, <3>3, <3>4
    <2>13. Elements(r) = Elements(q) \ {k}
      BY <2>11, <2>12
    <2>. QED  BY <1>2, <2>3, <2>5, <2>7, <2>10, <2>13
  <1>. QED  BY <1>1, <1>2

(* The keys of the sessions, each once, the one last seen last.            *)
TableInv ==
  /\ order \in Seq(Key) /\ Distinct(order) /\ Elements(order) = Live
  /\ Len(order) <= Cap /\ stale \in 0 .. Len(order)

LEMMA UnexpiredFact ==
  ASSUME TableInv
  PROVE  /\ Unexpired \in Seq(Key) /\ Distinct(Unexpired)
         /\ Elements(Unexpired) \subseteq Elements(order)
         /\ Len(Unexpired) = Len(order) - stale
         /\ Len(order) \in Nat /\ stale \in Nat
         /\ stale = 0 => Elements(Unexpired) = Elements(order)
  <1>1. PICK q, s, n, r : q = order /\ s = stale /\ n = Len(order) /\ r = Unexpired
    OBVIOUS
  <1>2. /\ q \in Seq(Key) /\ n \in Nat /\ s \in 0 .. n /\ n = Len(q)
        /\ \A i, j \in 1 .. n : q[i] = q[j] => i = j
        /\ \A i \in 1 .. n : q[i] \in Key
        /\ DOMAIN q = 1 .. n
    BY <1>1 DEF TableInv, Distinct
  <1>3. r = SubSeq(q, s + 1, n)
    BY <1>1 DEF Unexpired
  <1>4. /\ r \in Seq(Key)
        /\ Len(r) = IF s + 1 <= n THEN n - (s + 1) + 1 ELSE 0
        /\ \A i \in 1 .. n - (s + 1) + 1 : r[i] = q[(s + 1) + i - 1]
    <2>1. s + 1 \in Int /\ n \in Int /\ \A i \in s + 1 .. n : q[i] \in Key
      BY <1>2
    <2>. QED  BY <1>3, <2>1, SubSeqProperties
  <1>5. Len(r) = n - s /\ DOMAIN r = 1 .. n - s
    BY <1>2, <1>4
  <1>6. \A i \in 1 .. n - s : i + s \in 1 .. n /\ r[i] = q[i + s]
    <2> SUFFICES ASSUME NEW i \in 1 .. n - s
                 PROVE  i + s \in 1 .. n /\ r[i] = q[i + s]
      OBVIOUS
    <2>1. i \in 1 .. n - (s + 1) + 1 /\ (s + 1) + i - 1 = i + s /\ i + s \in 1 .. n
      BY <1>2
    <2>. QED  BY <1>4, <2>1
  <1>7. Distinct(r)
    <2> SUFFICES ASSUME NEW i \in 1 .. n - s, NEW j \in 1 .. n - s, r[i] = r[j]
                 PROVE  i = j
      BY <1>5 DEF Distinct
    <2>1. i + s = j + s
      BY <1>2, <1>6
    <2>. QED  BY <1>2, <2>1
  <1>8. Elements(r) \subseteq Elements(q)
    BY <1>2, <1>5, <1>6 DEF Elements
  <1>9. ASSUME s = 0
        PROVE  Elements(r) = Elements(q)
    <2>1. \A i \in 1 .. n : r[i] = q[i]
      <3> SUFFICES ASSUME NEW i \in 1 .. n PROVE r[i] = q[i]
        OBVIOUS
      <3>1. i \in 1 .. n - s /\ i + s = i
        BY <1>2, <1>9
      <3>. QED  BY <1>6, <3>1
    <2>. QED  BY <1>2, <1>5, <1>9, <2>1 DEF Elements
  <1>. QED  BY <1>1, <1>2, <1>4, <1>5, <1>7, <1>8, <1>9

LEMMA RoomyFact ==
  ASSUME TableInv
  PROVE  /\ Roomy \in Seq(Key) /\ Distinct(Roomy)
         /\ Elements(Roomy) \subseteq Elements(order)
         /\ Len(Roomy) < Cap /\ Len(Roomy) \in Nat
  <1>1. PICK r, t : r = Unexpired /\ t = Tail(r)
    OBVIOUS
  <1>2. /\ r \in Seq(Key) /\ Distinct(r) /\ Elements(r) \subseteq Elements(order)
        /\ Len(r) <= Cap /\ Len(r) \in Nat /\ Cap \in Nat \ {0}
    BY <1>1, UnexpiredFact, CapAssumption DEF TableInv
  <1>3. CASE Len(r) >= Cap
    <2>1. /\ t \in Seq(Key) /\ Len(t) = Len(r) - 1
          /\ \A i \in 1 .. Len(r) - 1 : t[i] = r[i + 1]
          /\ DOMAIN t = 1 .. Len(r) - 1 /\ DOMAIN r = 1 .. Len(r)
      BY <1>1, <1>2, <1>3
    <2>2. \A i \in 1 .. Len(r) - 1 : i + 1 \in 1 .. Len(r)
      BY <1>2
    <2>3. Distinct(t)
      <3> SUFFICES ASSUME NEW i \in 1 .. Len(r) - 1, NEW j \in 1 .. Len(r) - 1, t[i] = t[j]
                   PROVE  i = j
        BY <2>1 DEF Distinct
      <3>1. i + 1 = j + 1
        BY <1>2, <2>1, <2>2 DEF Distinct
      <3>. QED  BY <3>1
    <2>4. Elements(t) \subseteq Elements(r)
      BY <2>1, <2>2 DEF Elements
    <2>5. Roomy = t
      BY <1>1, <1>3 DEF Roomy
    <2>. QED  BY <1>2, <2>1, <2>3, <2>4, <2>5
  <1>4. CASE ~(Len(r) >= Cap)
    <2>1. Roomy = r
      BY <1>1, <1>4 DEF Roomy
    <2>. QED  BY <1>2, <1>4, <2>1
  <1>. QED  BY <1>3, <1>4

(* The step that a write of the table is.                                  *)
LEMMA StoredTable ==
  ASSUME Typing, TableInv, NEW k \in Key, NEW session \in Session \cup {None},
         NEW left \in Seq(Key), Distinct(left), Elements(left) \subseteq Elements(order),
         Len(left) <= Cap,
         session # None => Len(left) < Cap \/ k \in Elements(left),
         Stored(k, session, left)
  PROVE  /\ TableInv'
         /\ purged \in SUBSET Message => purged' \in SUBSET Message
  <1>1. PICK kept : kept = Without(left, k)
    OBVIOUS
  <1>2. PICK gone : gone = Elements(order) \ (Elements(kept) \cup {k})
    OBVIOUS
  <1>3. /\ kept \in Seq(Key) /\ Distinct(kept) /\ Elements(kept) = Elements(left) \ {k}
        /\ Len(kept) = IF k \in Elements(left) THEN Len(left) - 1 ELSE Len(left)
    BY <1>1, WithoutFact
  <1>4. /\ order' = IF session = None THEN kept ELSE Append(kept, k)
        /\ stale' = 0
        /\ sessions' = [l \in Key |-> IF l = k THEN session
                                      ELSE IF l \in gone THEN None ELSE sessions[l]]
        /\ purged' = purged \cup {sessions[l].head.msg : l \in gone}
    BY <1>1, <1>2 DEF Stored
  <1>5. Elements(order) = Live /\ Live \subseteq Key /\ Cap \in Nat
    BY CapAssumption DEF TableInv, Live
  <1>6. /\ \A l \in Key : l # k => (l \in Live' <=> l \in Elements(kept))
        /\ k \in Live' <=> session # None
    BY <1>2, <1>3, <1>4, <1>5 DEF Live
  <1>7. Live' \subseteq Key
    BY DEF Live
  <1>8. purged \in SUBSET Message => purged' \in SUBSET Message
    <2>1. \A l \in gone : sessions[l] \in Session
      BY <1>2, <1>5 DEF Typing, Live
    <2>2. \A l \in gone : sessions[l].head.msg \in Message
      BY <2>1 DEF Session, Frame
    <2>. QED  BY <1>4, <2>2
  <1>9. CASE session = None
    <2>1. order' = kept
      BY <1>4, <1>9
    <2>2. Live' = Elements(kept)
      BY <1>3, <1>5, <1>6, <1>7, <1>9
    <2>3. Len(kept) <= Cap /\ Len(kept) \in Nat
      BY <1>3, <1>5
    <2>. QED  BY <1>3, <1>4, <1>8, <2>1, <2>2, <2>3 DEF TableInv
  <1>10. CASE session # None
    <2>1. PICK r : r = Append(kept, k)
      OBVIOUS
    <2>2. order' = r
      BY <1>4, <1>10, <2>1
    <2>3. /\ r \in Seq(Key) /\ Len(r) = Len(kept) + 1 /\ Len(kept) \in Nat
          /\ r[Len(kept) + 1] = k
          /\ \A i \in 1 .. Len(kept) : r[i] = kept[i]
      BY <1>3, <2>1
    <2>4. DOMAIN r = 1 .. Len(kept) + 1 /\ DOMAIN kept = 1 .. Len(kept)
      BY <1>3, <2>3
    <2>5. \A i \in 1 .. Len(kept) : kept[i] # k
      BY <1>3, <2>4 DEF Elements
    <2>6. Distinct(r)
      <3> SUFFICES ASSUME NEW i \in 1 .. Len(kept) + 1, NEW j \in 1 .. Len(kept) + 1, r[i] = r[j]
                   PROVE  i = j
        BY <2>4 DEF Distinct
      <3>1. \A a \in 1 .. Len(kept) + 1 : a = Len(kept) + 1 \/ a \in 1 .. Len(kept)
        BY <2>3
      <3>2. CASE i \in 1 .. Len(kept) /\ j \in 1 .. Len(kept)
        BY <1>3, <2>3, <2>4, <3>2 DEF Distinct
      <3>. QED  BY <2>3, <2>5, <3>1, <3>2
    <2>7. Elements(r) = Elements(kept) \cup {k}
      <3>1. \A a \in 1 .. Len(kept) + 1 : a = Len(kept) + 1 \/ a \in 1 .. Len(kept)
        BY <2>3
      <3>2. \A a \in 1 .. Len(kept) : a \in 1 .. Len(kept) + 1
        BY <2>3
      <3>3. Len(kept) + 1 \in 1 .. Len(kept) + 1
        BY <2>3
      <3>. QED  BY <2>3, <2>4, <3>1, <3>2, <3>3 DEF Elements
    <2>8. Live' = Elements(r)
      BY <1>3, <1>5, <1>6, <1>7, <1>10, <2>7
    <2>9. Len(r) <= Cap
      BY <1>3, <1>5, <1>10, <2>3
    <2>10. 0 \in 0 .. Len(r)
      BY <2>3
    <2>. QED  BY <1>4, <1>8, <2>2, <2>3, <2>6, <2>8, <2>9, <2>10 DEF TableInv
  <1>. QED  BY <1>9, <1>10

(* A session that is given up.                                             *)
LEMMA WrongTable ==
  ASSUME Typing, TableInv, NEW f \in Frame, HearWrong(f)
  PROVE  TableInv'
  <1>1. PICK k, q, r, s, n :
          k = KeyOf(f) /\ q = order /\ r = order' /\ s = stale /\ n = Len(order)
    OBVIOUS
  <1>2. /\ q \in Seq(Key) /\ Distinct(q) /\ Elements(q) = Live /\ n <= Cap
        /\ n = Len(q) /\ n \in Nat /\ s \in 0 .. n /\ s \in Nat /\ Cap \in Nat
    BY <1>1, CapAssumption DEF TableInv
  <1>3. /\ sessions[k] # None /\ sessions' = [sessions EXCEPT ![k] = None]
        /\ r = Without(q, k)
        /\ stale' = Cardinality({i \in 1 .. s : q[i] # k})
    BY <1>1 DEF HearWrong
  <1>4. k \in Key
    BY <1>1, MessageFields DEF KeyOf, Frame
  <1>5. k \in Elements(q)
    BY <1>2, <1>3, <1>4 DEF Live
  <1>6. /\ r \in Seq(Key) /\ Distinct(r) /\ Elements(r) = Elements(q) \ {k} /\ Len(r) = n - 1
    BY <1>2, <1>3, <1>5, WithoutFact
  <1>7. Live' = Elements(r)
    BY <1>2, <1>3, <1>4, <1>6 DEF Live, Typing
  <1>8. stale' \in 0 .. n - 1
    <2>1. PICK p \in 1 .. n : q[p] = k
      BY <1>2, <1>5 DEF Elements
    <2>2. PICK I, J, K : /\ I = 1 .. n /\ J = (1 .. n) \ {p} /\ K = {i \in 1 .. s : q[i] # k}
      OBVIOUS
    <2>3. IsFiniteSet(I) /\ Cardinality(I) = n
      <3>1. 1 \in Int /\ n \in Int /\ (IF 1 > n THEN 0 ELSE n - 1 + 1) = n
        BY <1>2
      <3>. QED  BY <2>2, <3>1, FS_Interval
    <2>4. IsFiniteSet(J) /\ Cardinality(J) = n - 1
      <3>1. J = I \ {p} /\ p \in I
        BY <2>1, <2>2
      <3>. QED  BY <2>3, <3>1, FS_RemoveElement
    <2>5. K \in SUBSET J
      BY <1>2, <2>1, <2>2
    <2>6. IsFiniteSet(K) /\ Cardinality(K) <= n - 1 /\ Cardinality(K) \in Nat
      BY <2>4, <2>5, FS_Subset, FS_CardinalityType
    <2>. QED  BY <1>2, <1>3, <2>2, <2>6
  <1>9. Len(r) <= Cap
    BY <1>2, <1>6
  <1>. QED  BY <1>1, <1>6, <1>7, <1>8, <1>9 DEF TableInv

(* What the application was handed, and the histories.                     *)
Handed == [msg : Message, data : Seq(Frame)]

HistoryTyped ==
  /\ delivered \in SUBSET Handed
  /\ lost \in SUBSET Message /\ purged \in SUBSET Message
  /\ reused \in SUBSET Message /\ crossed \in SUBSET Message
  /\ mishaps \in 0 .. MaxMishaps

LEMMA DeliverTyped ==
  ASSUME NEW session, session.head.msg \in Message, session.data \in Seq(Frame),
         delivered \in SUBSET Handed, Deliver(session)
  PROVE  delivered' \in SUBSET Handed
  <1>1. PICK d : d = [msg |-> session.head.msg, data |-> session.data]
    OBVIOUS
  <1>2. d \in Handed
    BY <1>1 DEF Handed
  <1>3. delivered' = delivered \cup {d}
    BY <1>1 DEF Deliver
  <1>. QED  BY <1>2, <1>3

LEMMA HandledTable ==
  ASSUME LossInv, TableInv, HistoryTyped, NEW f \in Frame, Handle(f)
  PROVE  TableInv' /\ delivered' \in SUBSET Handed /\ purged' \in SUBSET Message
  <1> DEFINE k == KeyOf(f)
             session == sessions[k]
  <1>1. /\ k \in Key /\ f.msg \in Message /\ Typing
        /\ delivered \in SUBSET Handed /\ purged \in SUBSET Message
        /\ UNCHANGED <<sessions, order, stale>> => TableInv'
    BY MessageFields DEF KeyOf, Frame, LossInv, HistoryTyped, TableInv, Live
  <1>2. session # None => session \in Session /\ session.head.msg \in Message
    BY <1>1 DEF Typing, Session, Frame
  <1>3. CASE HearSingle(f)
    <2>1. Opened(f).head.msg \in Message /\ Opened(f).data \in Seq(Frame)
      BY <1>1 DEF Opened
    <2>. QED  BY <1>1, <1>3, <2>1, DeliverTyped DEF HearSingle
  <1>4. CASE HearStray(f)
    BY <1>1, <1>4 DEF HearStray, receiver
  <1>5. CASE HearWrong(f)
    <2>1. TableInv'
      BY <1>1, <1>5, WrongTable
    <2>. QED  BY <1>1, <1>5, <2>1 DEF HearWrong
  <1>6. CASE HearHeader(f)
    <2>1. PICK left : left = Roomy
      OBVIOUS
    <2>2. /\ left \in Seq(Key) /\ Distinct(left) /\ Elements(left) \subseteq Elements(order)
          /\ Len(left) < Cap /\ Len(left) \in Nat
      BY <2>1, RoomyFact
    <2>3. PICK opened \in Session : opened = Opened(f)
      <3>1. Opened(f) \in Session
        BY DEF Opened, Session
      <3>. QED  BY <3>1
    <2>4. Stored(k, opened, left) /\ delivered' = delivered
      BY <1>6, <2>1, <2>3 DEF HearHeader
    <2>5. opened \in Session \cup {None} /\ Len(left) <= Cap /\ (Len(left) < Cap \/ k \in Elements(left))
      BY <2>2, CapAssumption
    <2>6. TableInv' /\ purged' \in SUBSET Message
      BY <1>1, <2>2, <2>4, <2>5, StoredTable
    <2>. QED  BY <1>1, <2>4, <2>6
  <1>7. PICK left : left = Unexpired
    OBVIOUS
  <1>8. session # None =>
          /\ left \in Seq(Key) /\ Distinct(left) /\ Elements(left) \subseteq Elements(order)
          /\ Len(left) <= Cap
          /\ Len(left) < Cap \/ k \in Elements(left)
    <2> SUFFICES ASSUME session # None
                 PROVE  /\ left \in Seq(Key) /\ Distinct(left)
                        /\ Elements(left) \subseteq Elements(order)
                        /\ Len(left) <= Cap
                        /\ Len(left) < Cap \/ k \in Elements(left)
      OBVIOUS
    <2>1. /\ left \in Seq(Key) /\ Distinct(left) /\ Elements(left) \subseteq Elements(order)
          /\ Len(left) = Len(order) - stale /\ Len(order) \in Nat /\ stale \in Nat
          /\ stale = 0 => Elements(left) = Elements(order)
      BY <1>7, UnexpiredFact
    <2>2. Len(order) <= Cap /\ Elements(order) = Live /\ k \in Live /\ Cap \in Nat
      BY <1>1, CapAssumption DEF TableInv, Live
    <2>. QED  BY <2>1, <2>2
  <1>9. CASE HearNext(f)
    <2>1. session # None /\ f.index = session.next /\ ~IsLast(session, f)
      BY <1>9 DEF HearNext, Follows
    <2>2. session.head.msg.size \in 1 .. 32 /\ f.index \in Nat
      <3>1. session.head.msg \in Message /\ f.index \in Nat
        BY <1>2, <2>1 DEF Frame
      <3>. QED  BY <3>1, MessageFields
    <2>3. session.next + 1 \in 1 .. 31
      BY <2>1, <2>2 DEF IsLast
    <2>4. PICK extended \in Session : extended = Extended(session, f)
      BY <1>2, <2>1, <2>3, ExtendedFields
    <2>5. Stored(k, extended, left) /\ delivered' = delivered
      BY <1>7, <1>9, <2>4 DEF HearNext
    <2>6. TableInv' /\ purged' \in SUBSET Message
      <3>1. extended \in Session \cup {None}
        OBVIOUS
      <3>. QED  BY <1>1, <1>8, <2>1, <2>5, <3>1, StoredTable
    <2>. QED  BY <1>1, <2>5, <2>6
  <1>10. CASE HearLast(f)
    <2>1. session # None /\ Stored(k, None, left) /\ Deliver(Extended(session, f))
      BY <1>7, <1>10 DEF HearLast
    <2>2. PICK extended : extended = Extended(session, f)
      OBVIOUS
    <2>3. extended.head.msg \in Message /\ extended.data \in Seq(Frame)
      <3>1. session \in Session /\ session.data \in Seq(Frame)
        BY <1>2, <2>1 DEF Session
      <3>2. Append(session.data, f) \in Seq(Frame)
        BY <3>1
      <3>. QED  BY <1>2, <2>1, <2>2, <3>1, <3>2 DEF Extended, Session
    <2>4. delivered' \in SUBSET Handed
      BY <1>1, <2>1, <2>2, <2>3, DeliverTyped
    <2>5. TableInv' /\ purged' \in SUBSET Message
      <3>1. None \in Session \cup {None}
        OBVIOUS
      <3>. QED  BY <1>1, <1>8, <2>1, <3>1, StoredTable
    <2>. QED  BY <2>4, <2>5
  <1>. QED  BY <1>3, <1>4, <1>5, <1>6, <1>9, <1>10 DEF Handle

LEMMA NextTable ==
  LossInv /\ TableInv /\ HistoryTyped /\ [Next]_vars => TableInv' /\ HistoryTyped'
  <1> SUFFICES ASSUME LossInv, TableInv, HistoryTyped, [Next]_vars
               PROVE  TableInv' /\ HistoryTyped'
    OBVIOUS
  <1>1. UNCHANGED <<sessions, order, stale>> => TableInv'
    BY DEF TableInv, Live
  <1>2. UNCHANGED <<delivered, purged, reused, crossed, loss>> => HistoryTyped'
    BY DEF HistoryTyped, loss
  <1>3. CASE UNCHANGED vars
    BY <1>1, <1>2, <1>3 DEF vars, receiver, sender
  <1>4. ASSUME NEW s \in Source, SendFrame(s) \/ End(s)
        PROVE  TableInv' /\ HistoryTyped'
    BY <1>1, <1>2, <1>4 DEF SendFrame, End, receiver
  <1>9. mishaps' = mishaps + 1 /\ mishaps < MaxMishaps => mishaps' \in 0 .. MaxMishaps
    BY FastPacketBounds DEF HistoryTyped
  <1>10. ASSUME NEW s \in Source, Fail(s)
         PROVE  TableInv' /\ HistoryTyped'
    BY <1>1, <1>9, <1>10 DEF Fail, Mishap, receiver, HistoryTyped
  <1>11. ASSUME NEW s \in Source, NEW p \in Pgn, NEW size \in Sizes, Begin(s, p, size)
         PROVE  TableInv' /\ HistoryTyped'
    <2>1. PICK m : m = [src |-> s, num |-> sent[s], try |-> fails[s], pgn |-> p, size |-> size,
                        plain |-> FALSE]
      OBVIOUS
    <2>2. m \in Message
      BY <2>1, SizeAssumption DEF Message, LossInv, Typing
    <2>3. reused' \in {reused, reused \cup {m}} /\ UNCHANGED <<crossed, receiver, loss>>
      BY <1>11, <2>1 DEF Begin
    <2>. QED  BY <1>1, <2>2, <2>3 DEF receiver, loss, HistoryTyped
  <1>12. ASSUME NEW s \in Source, NEW p \in Pgn, NEW r \in Readings, SendPlain(s, p, r)
         PROVE  TableInv' /\ HistoryTyped'
    <2>1. /\ crossed' = crossed \cup {n \in {current[s]} : n # None /\ n.pgn = p}
          /\ mishaps' = mishaps + 1 /\ mishaps < MaxMishaps
          /\ UNCHANGED <<reused, receiver, lost>>
      BY <1>12 DEF SendPlain, Mishap
    <2>2. current[s] \in Message \cup {None}
      BY DEF LossInv, Typing
    <2>3. crossed' \in SUBSET Message
      BY <2>1, <2>2 DEF HistoryTyped
    <2>. QED  BY <1>1, <1>9, <2>1, <2>3 DEF receiver, HistoryTyped
  <1>5. CASE GrowStale
    <2>1. UNCHANGED <<sessions, order, delivered, purged, reused, crossed, loss>> /\ stale' = stale + 1
      BY <1>5 DEF GrowStale, sender
    <2>2. stale + 1 \in 0 .. Len(order)
      BY <1>5 DEF GrowStale, TableInv
    <2>. QED  BY <1>2, <2>1, <2>2 DEF TableInv, Live
  <1>6. ASSUME queue # <<>>
        PROVE  Head(queue) \in Frame /\ Head(queue).msg \in Message
    <2>1. Head(queue) \in Frame
      BY <1>6 DEF LossInv, Typing
    <2>. QED  BY <2>1 DEF Frame
  <1>7. CASE OnFrame
    <2>1. TableInv' /\ delivered' \in SUBSET Handed /\ purged' \in SUBSET Message
      BY <1>6, <1>7, HandledTable DEF OnFrame
    <2>. QED  BY <1>7, <2>1 DEF OnFrame, loss, sender, HistoryTyped
  <1>8. CASE Lose
    BY <1>1, <1>6, <1>8, <1>9 DEF Lose, Mishap, HistoryTyped, receiver, sender
  <1>. QED  BY <1>3, <1>4, <1>5, <1>7, <1>8, <1>10, <1>11, <1>12 DEF Next

LEMMA InitTable == Init => TableInv /\ HistoryTyped
  <1> SUFFICES ASSUME Init PROVE TableInv /\ HistoryTyped
    OBVIOUS
  <1>1. PICK q : q = order /\ q = <<>>
    BY DEF Init
  <1>2. q \in Seq(Key) /\ Len(q) = 0 /\ DOMAIN q = {}
    BY <1>1
  <1>3. Elements(q) = {} /\ Distinct(q)
    BY <1>2 DEF Elements, Distinct
  <1>4. Live = {} /\ stale = 0
    BY DEF Init, Live
  <1>. QED
    BY <1>1, <1>2, <1>3, <1>4, CapAssumption, FastPacketBounds DEF Init, TableInv, HistoryTyped

LEMMA LiveBound ==
  ASSUME TableInv
  PROVE  IsFiniteSet(Live) /\ Cardinality(Live) <= Cap
  <1>1. PICK q, n : q = order /\ n = Len(order)
    OBVIOUS
  <1>2. /\ q \in Seq(Key) /\ n = Len(q) /\ n \in Nat /\ n <= Cap /\ Cap \in Nat
        /\ Live = {q[i] : i \in DOMAIN q}
    BY <1>1, CapAssumption DEF TableInv, Elements
  <1>3. q \in Surjection(1 .. n, Live)
    BY <1>2 DEF Surjection
  <1>4. IsFiniteSet(1 .. n) /\ Cardinality(1 .. n) = n
    <2>1. 1 \in Int /\ n \in Int /\ (IF 1 > n THEN 0 ELSE n - 1 + 1) = n
      BY <1>2
    <2>. QED  BY <2>1, FS_Interval
  <1>5. IsFiniteSet(Live) /\ Cardinality(Live) <= n
    BY <1>3, <1>4, FS_Surjection
  <1>6. Cardinality(Live) \in Nat
    BY <1>5, FS_CardinalityType
  <1>. QED  BY <1>2, <1>5, <1>6

(* The receiver keeps at most Cap sessions, whatever is sent, lost or      *)
(* expires in whatever order (Receiver::on_frame, which makes room before  *)
(* it opens one), and the order of its keys is the order of its sessions.  *)
THEOREM TypeCorrect == Spec => []TypeOK
  <1>1. LossInv /\ TableInv /\ HistoryTyped => TypeOK
    <2> SUFFICES ASSUME LossInv, TableInv, HistoryTyped PROVE TypeOK
      OBVIOUS
    <2>1. index \in [Source -> 0 .. 32]
      <3>1. /\ index \in [Source -> Nat] /\ current \in [Source -> Message \cup {None}]
            /\ \A s \in Source : IF current[s] = None THEN index[s] = 0
                                 ELSE index[s] <= current[s].size
        BY DEF LossInv, Typing, NumberInv
      <3>2. ASSUME NEW s \in Source
            PROVE  index[s] \in 0 .. 32
        <4>1. CASE current[s] = None
          BY <3>1, <4>1
        <4>2. CASE current[s] # None
          <5>1. current[s] \in Message
            BY <3>1, <4>2
          <5>2. current[s].size \in 1 .. 32
            BY <5>1, MessageFields
          <5>. QED  BY <3>1, <4>2, <5>2
        <4>. QED  BY <4>1, <4>2
      <3>. QED  BY <3>1, <3>2
    <2>2. /\ Cardinality(Live) <= Cap /\ order \in Seq(Key) /\ stale \in 0 .. Len(order)
          /\ delivered \in SUBSET [msg : Message, data : Seq(Frame)]
      BY LiveBound DEF TableInv, HistoryTyped, Handed
    <2>. QED  BY <2>1, <2>2 DEF TypeOK, LossInv, Typing, HistoryTyped
  <1>. QED  BY <1>1, InitLoss, NextLoss, InitTable, NextTable, PTL DEF Spec
=============================================================================
