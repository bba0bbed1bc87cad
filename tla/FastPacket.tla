----------------------------- MODULE FastPacket ------------------------------
(***************************************************************************)
(* NMEA 2000 Fast Packet: fast_packet::Sender of several ECUs and the      *)
(* fast_packet::Receiver of one more that hears them all.                  *)
(*                                                                         *)
(* A message is numbered by the sends that succeeded before it on its ECU; *)
(* its sequence counter is that number modulo SeqMod (8 in the code, for   *)
(* all PGNs together).  `try' tells apart messages with the same number,   *)
(* of which all but the last failed half way.                              *)
(*                                                                         *)
(* A payload of at most 8 bytes goes out plain, as a frame of the same     *)
(* PGN with no header: what the receiver reads there as sequence counter,  *)
(* index and length is the application's data.  Here such a frame is a     *)
(* message of its own, whose `num' is the counter it is taken to carry and *)
(* whose `size' the number of frames it is taken to announce.              *)
(***************************************************************************)
EXTENDS Integers, Sequences, FiniteSets

CONSTANTS
  Source, Pgn,
  Sizes,      (* the numbers of frames a message may have, 2 to 32         *)
  Readings,   (* what plain frames may read as                             *)
  SeqMod,
  Cap,        (* the sessions a receiver keeps; 256 in the code            *)
  MaxSent,    (* bound: MaxSent[s] messages are sent by s                  *)
  MaxMishaps, (* bound: failing writes, plain frames and frames lost to a  *)
              (* full receive buffer, together                             *)
  QueueCap,   (* bound: frames the receive thread is behind                *)
  None        (* no message, no session                                    *)

ASSUME SizeAssumption ==
  /\ Sizes \in SUBSET (2 .. 32) /\ SeqMod \in Nat \ {0}
  /\ Readings \in SUBSET [seq : 0 .. (SeqMod - 1), index : 0 .. 31, size : 1 .. 32]
  /\ \A r \in Readings : r.index < r.size

ASSUME CapAssumption == Cap \in Nat \ {0}
ASSUME FastPacketBounds ==
  /\ MaxSent \in [Source -> Nat] /\ MaxMishaps \in Nat /\ QueueCap \in Nat

Key == Source \X Pgn

Message == [src : Source, num : Nat, try : Nat, pgn : Pgn, size : 1 .. 32,
            plain : BOOLEAN]

Frame ==
  {f \in [msg : Message, seq : 0 .. (SeqMod - 1), index : 0 .. 31] : f.index < f.msg.size}

Session == [head : Frame, next : 1 .. 31, data : Seq(Frame)]

ASSUME NoneAssumption == None \notin Message /\ None \notin Session

VARIABLES
  current,    (* current[s]: the message s is sending, or None             *)
  index,      (* index[s]: its next frame                                  *)
  sent,       (* sent[s]: the sends that succeeded                         *)
  fails,      (* fails[s]: the sends that failed                           *)
  queue,      (* the frames in the receiver's socket                       *)
  sessions,   (* Receiver::sessions_                                       *)
  order,      (* the keys of the sessions by their last_seen, oldest first *)
  stale,      (* how many of the oldest were last seen 750 ms ago          *)
  delivered,  (* the messages handed to the application                    *)
  out,        (* history: the messages whose send succeeded                *)
  reused,     (* history: the messages begun while frames of their source, *)
              (* PGN and sequence counter were still about                 *)
  crossed,    (* history: the messages with a plain frame of their PGN     *)
              (* between their frames                                      *)
  lost,       (* history: the messages of which a frame was lost           *)
  purged,     (* history: the messages whose session expired or had to     *)
              (* make room                                                 *)
  mishaps     (* failing writes, plain frames and lost frames so far       *)

sender == <<current, index, sent, fails, out, reused, crossed>>
receiver == <<sessions, order, stale, delivered, purged>>
loss == <<lost, mishaps>>
vars == <<sender, queue, receiver, loss>>

KeyOf(f) == <<f.msg.src, f.msg.pgn>>

Elements(q) == {q[i] : i \in DOMAIN q}

Live == {k \in Key : sessions[k] # None}

-----------------------------------------------------------------------------
Init ==
  /\ current = [s \in Source |-> None]
  /\ index = [s \in Source |-> 0]
  /\ sent = [s \in Source |-> 0]
  /\ fails = [s \in Source |-> 0]
  /\ queue = <<>>
  /\ sessions = [k \in Key |-> None]
  /\ order = <<>> /\ stale = 0
  /\ delivered = {}
  /\ out = {} /\ reused = {} /\ crossed = {}
  /\ lost = {} /\ purged = {} /\ mishaps = 0

(* Frames of key k with sequence counter `seq' that are not done with.     *)
About(k, seq) ==
  \/ \E i \in DOMAIN queue : KeyOf(queue[i]) = k /\ queue[i].seq = seq
  \/ sessions[k] # None /\ sessions[k].head.seq = seq

(* Sender::send of a message in `size' frames; its mutex admits one send   *)
(* of an ECU at a time.                                                    *)
Begin(s, p, size) ==
  LET m == [src |-> s, num |-> sent[s], try |-> fails[s], pgn |-> p, size |-> size,
            plain |-> FALSE]
  IN  /\ current[s] = None /\ sent[s] < MaxSent[s]
      /\ current' = [current EXCEPT ![s] = m]
      /\ reused' = IF About(<<s, p>>, sent[s] % SeqMod) THEN reused \cup {m} ELSE reused
      /\ UNCHANGED <<index, sent, fails, out, crossed, queue, receiver, loss>>

NextFrame(s) ==
  [msg |-> current[s], seq |-> sent[s] % SeqMod, index |-> index[s]]

MoreFrames(s) == index[s] < current[s].size

SendFrame(s) ==
  /\ current[s] # None /\ MoreFrames(s)
  /\ Len(queue) < QueueCap
  /\ queue' = Append(queue, NextFrame(s))
  /\ index' = [index EXCEPT ![s] = @ + 1]
  /\ UNCHANGED <<current, sent, fails, out, reused, crossed, receiver, loss>>

(* The sequence counter advances after the last frame. *)
End(s) ==
  /\ current[s] # None /\ ~MoreFrames(s)
  /\ current' = [current EXCEPT ![s] = None]
  /\ sent' = [sent EXCEPT ![s] = @ + 1]
  /\ out' = out \cup {current[s]}
  /\ index' = [index EXCEPT ![s] = 0]
  /\ UNCHANGED <<fails, reused, crossed, queue, receiver, loss>>

Mishap == mishaps < MaxMishaps /\ mishaps' = mishaps + 1

(* A write fails: the counter stays where it was. *)
Fail(s) ==
  /\ current[s] # None /\ MoreFrames(s) /\ Mishap
  /\ current' = [current EXCEPT ![s] = None]
  /\ fails' = [fails EXCEPT ![s] = @ + 1]
  /\ index' = [index EXCEPT ![s] = 0]
  /\ UNCHANGED <<sent, out, reused, crossed, queue, receiver, lost>>

(* Ecu::send of at most 8 bytes, which no send of Fast Packet keeps out.   *)
SendPlain(s, p, r) ==
  LET m == [src |-> s, num |-> r.seq, try |-> mishaps, pgn |-> p, size |-> r.size,
            plain |-> TRUE]
  IN  /\ Len(queue) < QueueCap /\ Mishap
      /\ queue' = Append(queue, [msg |-> m, seq |-> r.seq, index |-> r.index])
      /\ crossed' = crossed \cup
           {n \in {current[s]} : n # None /\ n.pgn = p}
      /\ UNCHANGED <<current, index, sent, fails, out, reused, receiver, lost>>

-----------------------------------------------------------------------------
(* Receiver::on_frame, by what it finds. *)

(* 750 ms pass for the oldest session that is not stale yet. *)
GrowStale ==
  /\ stale < Len(order)
  /\ stale' = stale + 1
  /\ UNCHANGED <<sender, queue, sessions, order, delivered, purged, loss>>

(* The keys that expire_stale_sessions() leaves. *)
Unexpired == SubSeq(order, stale + 1, Len(order))

Roomy_Nobody == Unexpired

(* Where no session is stale and the table is full, the oldest is dropped. *)
Roomy == IF Len(Unexpired) >= Cap THEN Tail(Unexpired) ELSE Unexpired

(* q, in which no key is twice, without k. *)
Without(q, k) ==
  IF k \in Elements(q)
  THEN LET p == CHOOSE i \in DOMAIN q : q[i] = k
       IN  [i \in 1 .. Len(q) - 1 |-> q[IF i < p THEN i ELSE i + 1]]
  ELSE q

(* Key k is written with `session' (None: erased); of the others, only     *)
(* those in `left' remain.                                                 *)
Stored(k, session, left) ==
  LET kept == Without(left, k)
      gone == Elements(order) \ (Elements(kept) \cup {k})
  IN  /\ order' = IF session = None THEN kept ELSE Append(kept, k)
      /\ stale' = 0
      /\ sessions' = [l \in Key |-> IF l = k THEN session
                                    ELSE IF l \in gone THEN None ELSE sessions[l]]
      /\ purged' = purged \cup {sessions[l].head.msg : l \in gone}

Opened(f) == [head |-> f, next |-> 1, data |-> <<f>>]

Deliver(session) ==
  delivered' = delivered \cup {[msg |-> session.head.msg, data |-> session.data]}

(* A message of one frame neither uses nor disturbs the sessions. *)
HearSingle(f) ==
  /\ f.index = 0 /\ f.msg.size = 1
  /\ Deliver(Opened(f))
  /\ UNCHANGED <<sessions, order, stale, purged>>

HearHeader_Keeps(f) ==
  /\ f.index = 0 /\ f.msg.size > 1
  /\ Stored(KeyOf(f), IF sessions[KeyOf(f)] = None THEN Opened(f) ELSE sessions[KeyOf(f)],
            Roomy)
  /\ UNCHANGED delivered

(* A first frame replaces the session of its source and PGN. *)
HearHeader(f) ==
  /\ f.index = 0 /\ f.msg.size > 1
  /\ Stored(KeyOf(f), Opened(f), Roomy)
  /\ UNCHANGED delivered

HearStray(f) ==
  /\ f.index > 0 /\ sessions[KeyOf(f)] = None
  /\ UNCHANGED receiver

Follows_AnySeq(session, f) == f.index = session.next

Follows(session, f) == f.seq = session.head.seq /\ f.index = session.next

(* Out of sequence: the session is given up, nothing else is purged. *)
HearWrong(f) ==
  LET k == KeyOf(f)
  IN  /\ f.index > 0 /\ sessions[k] # None /\ ~Follows(sessions[k], f)
      /\ sessions' = [sessions EXCEPT ![k] = None]
      /\ order' = Without(order, k)
      /\ stale' = Cardinality({i \in 1 .. stale : order[i] # k})
      /\ UNCHANGED <<delivered, purged>>

Extended(session, f) ==
  [session EXCEPT !.next = @ + 1, !.data = Append(@, f)]

IsLast(session, f) == f.index + 1 >= session.head.msg.size

HearNext(f) ==
  LET session == sessions[KeyOf(f)]
  IN  /\ f.index > 0 /\ session # None /\ Follows(session, f) /\ ~IsLast(session, f)
      /\ Stored(KeyOf(f), Extended(session, f), Unexpired)
      /\ UNCHANGED delivered

HearLast(f) ==
  LET session == sessions[KeyOf(f)]
  IN  /\ f.index > 0 /\ session # None /\ Follows(session, f) /\ IsLast(session, f)
      /\ Stored(KeyOf(f), None, Unexpired)
      /\ Deliver(Extended(session, f))

Handle(f) ==
  \/ HearSingle(f) \/ HearHeader(f) \/ HearStray(f) \/ HearWrong(f)
  \/ HearNext(f) \/ HearLast(f)

OnFrame ==
  /\ queue # <<>>
  /\ Handle(Head(queue))
  /\ queue' = Tail(queue)
  /\ UNCHANGED <<sender, loss>>

(* A full receive buffer loses a frame. *)
Lose ==
  /\ queue # <<>> /\ Mishap
  /\ queue' = Tail(queue)
  /\ lost' = lost \cup {Head(queue).msg}
  /\ UNCHANGED <<sender, receiver>>

-----------------------------------------------------------------------------
Next ==
  \/ \E s \in Source : \/ \E p \in Pgn, size \in Sizes : Begin(s, p, size)
                       \/ SendFrame(s) \/ End(s) \/ Fail(s)
                       \/ \E p \in Pgn, r \in Readings : SendPlain(s, p, r)
  \/ OnFrame \/ Lose \/ GrowStale

Spec == Init /\ [][Next]_vars

-----------------------------------------------------------------------------
TypeOK ==
  /\ current \in [Source -> Message \cup {None}]
  /\ index \in [Source -> 0 .. 32]
  /\ sent \in [Source -> Nat]
  /\ fails \in [Source -> Nat]
  /\ queue \in Seq(Frame)
  /\ sessions \in [Key -> Session \cup {None}] /\ Cardinality(Live) <= Cap
  /\ order \in Seq(Key)
  /\ stale \in 0 .. Len(order)
  /\ delivered \in SUBSET [msg : Message, data : Seq(Frame)]
  /\ out \in SUBSET Message /\ reused \in SUBSET Message /\ crossed \in SUBSET Message
  /\ lost \in SUBSET Message /\ purged \in SUBSET Message
  /\ mishaps \in 0 .. MaxMishaps

(* All the frames of message m, in order. *)
Whole(m) == [i \in 1 .. m.size |-> [msg |-> m, seq |-> m.num % SeqMod, index |-> i - 1]]

(* Whatever the application is handed is one message, all of it and        *)
(* nothing else (Receiver::on_frame), but for two mixtures that nothing in *)
(* the frames gives away: with a plain frame of the PGN, and with a later  *)
(* message whose sequence counter had come round, or had stayed after a    *)
(* failed send, before the receiver was done with the frames that carry    *)
(* it already.                                                             *)
DeliveredIntact ==
  \A d \in delivered :
    \/ d.data = Whole(d.msg)
    \/ \E i \in DOMAIN d.data :
         d.data[i].msg.plain \/ d.data[i].msg \in reused \ {d.msg}

(* A lost frame costs the application the message it belonged to and no    *)
(* other: a message of which every frame was handled is delivered, unless  *)
(* its session expired or was evicted, or a plain frame of the same ECU    *)
(* and PGN crossed it.                                                     *)
Handled(m) == \A i \in DOMAIN queue : queue[i].msg # m

Delivered(m) == \E d \in delivered : d.msg = m

LossIsLocal ==
  \A m \in out \ (lost \cup purged \cup crossed) : Handled(m) => Delivered(m)
=============================================================================
