---------------------------- MODULE GroupFunction ----------------------------
(***************************************************************************)
(* NMEA 2000 Group Functions (PGN 126208): command(), readFields() and     *)
(* writeFields() of one Nmea2000Ecu on a Dart isolate, the J1939Ecu under  *)
(* it with its event port, and the ECUs that answer the requests.          *)
(*                                                                         *)
(* A request or reply stands for its call and its kind; its length decides *)
(* how it travels.  A Dart isolate runs one event to its end, except that  *)
(* the native threads go on while it is in a native call.                  *)
(***************************************************************************)
EXTENDS Naturals, Sequences, FiniteSets

CONSTANTS
  Call,       (* the calls the application makes, of one field or more     *)
  Kind,       (* Kind[c]: "command", "read" or "write"                     *)
  Target,     (* Target[c]: the ECU it is sent to                          *)
  TargetPgn,  (* TargetPgn[c]: the PGN it is about                         *)
  Fields,     (* Fields[c]: the number of its fields                       *)
  MaxLosses,  (* bound: calls that lose their request or reply on the bus  *)
  NoCall

ASSUME CallAssumption ==
  /\ Kind \in [Call -> {"command", "read", "write"}]
  /\ Fields \in [Call -> Nat \ {0}]
  /\ MaxLosses \in Nat
ASSUME NoCallAssumption == NoCall \notin Call

(* acknowledge() and reject() go by one function code and have one length: *)
(* "acknowledge" stands for both.                                          *)
Answer == {"acknowledge", "fields"}

ReplyCode == {"acknowledge", "readFieldsReply", "writeFieldsReply"}

Key == {<<TargetPgn[c], code, Target[c]>> : c \in Call, code \in ReplyCode}

(* The outcomes of a call; `of' is the call a reply was meant for. *)
Open == [kind |-> "open", of |-> NoCall]
Reply(c) == [kind |-> "reply", of |-> c]
Timeout == [kind |-> "timeout", of |-> NoCall]
Failed == [kind |-> "failed", of |-> NoCall]
Disposed == [kind |-> "disposed", of |-> NoCall]

Outcome == {Reply(c) : c \in Call} \cup {Open, Timeout, Failed, Disposed}

(* What a native thread posts: the result of a send, or a frame. *)
Event == [type : {"sent"}, call : Call, code : {"ok", "failed"}]
           \cup [type : {"frame"}, call : Call, code : ReplyCode]

NoEvent == [type |-> "none"]

VARIABLES
  state,     (* "idle", or what the call waits for: "sending" or "waiting" *)
  outcome,   (* how its future completed                                   *)
  answer,    (* answer[c]: the call whose reply completed c's completer    *)
             (* while c was still sending                                  *)
  pending,   (* _pendingGf                                                 *)
  native,    (* the event that j1939_send_async(), running, will post      *)
  port,      (* the events in the ReceivePort                              *)
  disposed,
  served,    (* what became of each request at the ECU that was asked      *)
  lost,      (* history: the calls whose request or reply was lost         *)
  alone      (* history: the calls made when no other about the same PGN   *)
             (* of the same ECU was under way or had gone unanswered, and  *)
             (* which none has joined since                                *)

client == <<state, outcome, answer, pending, disposed>>
ecus == <<served, lost>>
vars == <<client, native, port, ecus, alone>>

InCall(c, s) == state[c] = s /\ outcome[c] = Open

-----------------------------------------------------------------------------
Init ==
  /\ state = [c \in Call |-> "idle"]
  /\ outcome = [c \in Call |-> Open]
  /\ answer = [c \in Call |-> NoCall]
  /\ pending = [k \in Key |-> NoCall]
  /\ native = NoEvent
  /\ port = <<>>
  /\ disposed = FALSE
  /\ served = [c \in Call |-> "unheard"]
  /\ lost = {}
  /\ alone = {}

(* The reply code a call waits for, and its key in _pendingGf. *)
Expected(c) ==
  CASE Kind[c] = "command" -> "acknowledge"
    [] Kind[c] = "read" -> "readFieldsReply"
    [] Kind[c] = "write" -> "writeFieldsReply"

KeyOf_AnySource(c, code) == <<TargetPgn[c], code, Target[CHOOSE d \in Call : TRUE]>>

KeyOf(c, code) == <<TargetPgn[c], code, Target[c]>>

PendingKey(c) == KeyOf(c, Expected(c))

Rivals(c) == {d \in Call \ {c} : Target[d] = Target[c] /\ TargetPgn[d] = TargetPgn[c]}

(* d was not made, or it is over and its only reply with it. *)
Settled(d) == state[d] = "idle" \/ outcome[d] = Reply(d)

(* command(), readFields() or writeFields(), up to the frames on the bus.  *)
(* An earlier call with the same key loses its place.  The request is      *)
(* longer than 8 bytes and goes by Fast Packet, within the native call.    *)
Start(c, result) ==
  /\ state[c] = "idle" /\ native = NoEvent /\ ~disposed
  /\ state' = [state EXCEPT ![c] = "sending"]
  /\ pending' = [pending EXCEPT ![PendingKey(c)] = c]
  /\ native' = [type |-> "sent", call |-> c, code |-> result]
  /\ alone' = (alone \ {d \in Rivals(c) : outcome[d] = Open})
                \cup {d \in {c} : \A e \in Rivals(c) : Settled(e)}
  /\ UNCHANGED <<outcome, answer, port, disposed>>

MayLose(c) == c \notin lost /\ Cardinality(lost) < MaxLosses

StartHeard(c) ==
  /\ Start(c, "ok")
  /\ served' = [served EXCEPT ![c] = "held"]
  /\ UNCHANGED lost

StartLost(c) ==
  /\ Start(c, "ok") /\ MayLose(c)
  /\ lost' = lost \cup {c}
  /\ UNCHANGED served

StartFails(c) ==
  /\ Start(c, "failed")
  /\ UNCHANGED ecus

(* The native call ends; only now can the isolate take the next event. *)
NativeReturns ==
  /\ native # NoEvent
  /\ port' = Append(port, native)
  /\ native' = NoEvent
  /\ UNCHANGED <<client, ecus, alone>>

-----------------------------------------------------------------------------
(* The ECU that was asked, itself an Nmea2000Ecu: its handler, or the      *)
(* default rejection where it has none, replies at any time, or never, and *)
(* at most once.                                                           *)

MayAnswer(c) == served[c] = "held"

(* decodeIncomingFieldPairs() finds no fields in a command. *)
FieldsSeen(c) == IF Kind[c] = "command" THEN 0 ELSE Fields[c]

(* A reply of up to 8 bytes goes out as a plain frame (Ecu::send), and the *)
(* receiver drops it: to Receiver::on_frame it is a later frame of a Fast  *)
(* Packet message that never began.                                        *)
ReplyTravels(c, how) == how = "fields" \/ 6 + FieldsSeen(c) > 8

CodeOf_Swapped(c, how) ==
  IF how # "fields" THEN "acknowledge"
  ELSE IF Kind[c] = "read" THEN "writeFieldsReply" ELSE "readFieldsReply"

(* replyWithFields() has a function code for reads and one for all else. *)
CodeOf(c, how) ==
  IF how # "fields" THEN "acknowledge"
  ELSE IF Kind[c] = "read" THEN "readFieldsReply" ELSE "writeFieldsReply"

Answers(c, how) ==
  /\ MayAnswer(c)
  /\ served' = [served EXCEPT ![c] = how]
  /\ port' = IF ReplyTravels(c, how) /\ ~disposed
             THEN Append(port, [type |-> "frame", call |-> c, code |-> CodeOf(c, how)])
             ELSE port
  /\ UNCHANGED <<client, native, lost, alone>>

AnswerLost(c, how) ==
  /\ MayAnswer(c) /\ MayLose(c)
  /\ served' = [served EXCEPT ![c] = how]
  /\ lost' = lost \cup {c}
  /\ UNCHANGED <<client, native, port, alone>>

-----------------------------------------------------------------------------
(* The isolate's events. *)

(* _completeSend(): the call goes on, and is over where the reply was      *)
(* faster than the news that its request was sent.                         *)
OnSent ==
  LET c == Head(port).call
  IN  /\ native = NoEvent /\ port # <<>> /\ Head(port).type = "sent"
      /\ port' = Tail(port)
      /\ \/ /\ Head(port).code = "failed"
            /\ outcome' = [outcome EXCEPT ![c] = Failed]
            /\ UNCHANGED state
         \/ /\ Head(port).code = "ok" /\ answer[c] # NoCall
            /\ outcome' = [outcome EXCEPT ![c] = Reply(answer[c])]
            /\ UNCHANGED state
         \/ /\ Head(port).code = "ok" /\ answer[c] = NoCall
            /\ state' = [state EXCEPT ![c] = "waiting"]
            /\ UNCHANGED outcome
      /\ UNCHANGED <<answer, pending, disposed, native, ecus, alone>>

(* _onGroupFunction() and _completePending(): whoever holds the key of a   *)
(* reply is given it.                                                      *)
OnReply ==
  LET f == Head(port)
      k == KeyOf(f.call, f.code)
      c == pending[k]
  IN  /\ native = NoEvent /\ port # <<>> /\ f.type = "frame"
      /\ port' = Tail(port)
      /\ pending' = [pending EXCEPT ![k] = NoCall]
      /\ outcome' = IF c # NoCall /\ InCall(c, "waiting")
                    THEN [outcome EXCEPT ![c] = Reply(f.call)] ELSE outcome
      /\ answer' = IF c # NoCall /\ InCall(c, "sending")
                   THEN [answer EXCEPT ![c] = f.call] ELSE answer
      /\ UNCHANGED <<state, disposed, native, ecus, alone>>

Expires_Keeps(c) ==
  /\ native = NoEvent /\ InCall(c, "waiting")
  /\ \A i \in DOMAIN port : port[i].call # c
  /\ outcome' = [outcome EXCEPT ![c] = Timeout]
  /\ UNCHANGED <<state, answer, pending, disposed, native, port, ecus, alone>>

(* The timeout of 2 s, long after every event of this call was taken: the  *)
(* key goes, whoever holds it by now.                                      *)
Expires(c) ==
  /\ native = NoEvent /\ InCall(c, "waiting")
  /\ \A i \in DOMAIN port : port[i].call # c
  /\ outcome' = [outcome EXCEPT ![c] = Timeout]
  /\ pending' = [pending EXCEPT ![PendingKey(c)] = NoCall]
  /\ UNCHANGED <<state, answer, disposed, native, port, ecus, alone>>

(* What dispose() ends: the calls in _pendingGf, and those whose send is   *)
(* in _pendingSends.                                                       *)
Ended_NoSends == {c \in Call : InCall(c, "waiting") /\ pending[PendingKey(c)] = c}

Ended ==
  {c \in Call : \/ InCall(c, "sending")
                \/ InCall(c, "waiting") /\ pending[PendingKey(c)] = c}

(* Nmea2000Ecu.dispose() and J1939Ecu.dispose(): the port closes too. *)
Dispose ==
  /\ native = NoEvent /\ ~disposed
  /\ disposed' = TRUE
  /\ outcome' = [c \in Call |-> IF c \in Ended THEN Disposed ELSE outcome[c]]
  /\ pending' = [k \in Key |-> NoCall]
  /\ port' = <<>>
  /\ UNCHANGED <<state, answer, native, ecus, alone>>

-----------------------------------------------------------------------------
Isolate == OnSent \/ OnReply

Next ==
  \/ \E c \in Call :
       \/ StartHeard(c) \/ StartLost(c) \/ StartFails(c) \/ Expires(c)
       \/ \E how \in Answer : Answers(c, how) \/ AnswerLost(c, how)
  \/ NativeReturns \/ Isolate \/ Dispose

Spec == Init /\ [][Next]_vars

(* A native call ends, the isolate takes its events and timers run out;    *)
(* nobody need answer.                                                     *)
Fairness ==
  /\ WF_vars(NativeReturns) /\ WF_vars(Isolate)
  /\ \A c \in Call : WF_vars(Expires(c))

FairSpec == Spec /\ Fairness

-----------------------------------------------------------------------------
TypeOK ==
  /\ state \in [Call -> {"idle", "sending", "waiting"}]
  /\ outcome \in [Call -> Outcome]
  /\ answer \in [Call -> Call \cup {NoCall}]
  /\ pending \in [Key -> Call \cup {NoCall}]
  /\ native \in Event \cup {NoEvent}
  /\ port \in Seq(Event)
  /\ disposed \in BOOLEAN
  /\ served \in [Call -> {"unheard", "held"} \cup Answer]
  /\ lost \in SUBSET Call
  /\ alone \in SUBSET Call

(* A call that kept clear of others about the same PGN of the same ECU is  *)
(* never given the reply to another call, though replies carry no mark of  *)
(* their request and are matched by key alone.                             *)
RightAnswer ==
  \A c \in alone : outcome[c].kind = "reply" => outcome[c].of = c

(* _pendingGf does not keep calls that are over, except those whose send   *)
(* failed.                                                                 *)
NoStalePending ==
  \A k \in Key : pending[k] # NoCall => outcome[pending[k]] \in {Open, Failed}

(* A read or write that kept clear of others does not time out once its    *)
(* fields were sent and not lost.                                          *)
FieldsReplyArrives ==
  [][\A c \in alone :
       Kind[c] # "command" /\ outcome[c] = Open /\ outcome'[c] = Timeout
         => ~(served[c] = "fields" /\ c \notin lost)]_vars

(* Every call ends for its caller: by a reply, by its timeout, or by       *)
(* dispose(), whichever calls share its key.                               *)
EveryCallEnds ==
  \A c \in Call : state[c] # "idle" ~> outcome[c] # Open
=============================================================================
