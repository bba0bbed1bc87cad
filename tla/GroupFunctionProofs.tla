------------------------- MODULE GroupFunctionProofs -------------------------
(***************************************************************************)
(* Theorems about GroupFunction, for any number of calls to any ECUs: the  *)
(* types, what _pendingGf keeps, and that a call which keeps clear of      *)
(* others is given its own reply.                                          *)
(***************************************************************************)
EXTENDS GroupFunction, TLAPS

-----------------------------------------------------------------------------
(* The inductive invariant. *)

(* A call that was not made has left no trace. *)
IdleInv ==
  \A c \in Call :
    state[c] = "idle" =>
      /\ outcome[c] = Open /\ answer[c] = NoCall /\ served[c] = "unheard"
      /\ pending[PendingKey(c)] # c /\ c \notin alone

(* A registered call stands at its own key, and nobody has answered it. *)
PendingInv ==
  \A k \in Key :
    pending[k] # NoCall =>
      /\ k = PendingKey(pending[k])
      /\ outcome[pending[k]] \in {Open, Failed}
      /\ answer[pending[k]] = NoCall

(* The news of a send is under way once, while its call waits for it. *)
Sending(e) == state[e.call] = "sending" /\ outcome[e.call] = Open

NativeInv ==
  native # NoEvent =>
    /\ native.type = "sent" /\ Sending(native)
    /\ \A i \in DOMAIN port : port[i].type = "sent" => port[i].call # native.call

SentInv ==
  \A i \in DOMAIN port :
    port[i].type = "sent" =>
      /\ Sending(port[i])
      /\ \A j \in DOMAIN port :
           port[j].type = "sent" /\ port[j].call = port[i].call => j = i

(* A request is answered by one frame. *)
FrameInv ==
  \A i \in DOMAIN port :
    port[i].type = "frame" =>
      /\ served[port[i].call] \in Answer
      /\ \A j \in DOMAIN port :
           port[j].type = "frame" /\ port[j].call = port[i].call => j = i

(* The reply to d was given to somebody. *)
Spent(d) == \E c \in Call : answer[c] = d \/ outcome[c] = Reply(d)

SpentInv ==
  \A d \in Call :
    Spent(d) =>
      /\ served[d] \in Answer
      /\ \A i \in DOMAIN port : port[i].type = "frame" => port[i].call # d

AloneInv ==
  \A c \in alone :
    /\ outcome[c] = Open => \A d \in Rivals(c) : Settled(d)
    /\ outcome[c].kind = "reply" => outcome[c].of = c
    /\ answer[c] \in {NoCall, c}

GroupInv ==
  /\ TypeOK /\ IdleInv /\ PendingInv /\ NativeInv /\ SentInv /\ FrameInv
  /\ SpentInv /\ AloneInv
-----------------------------------------------------------------------------
(* Facts about outcomes, keys and sequences. *)

LEMMA Outcomes ==
  ASSUME NEW c \in Call, NEW d \in Call
  PROVE  /\ Reply(c).kind = "reply" /\ Reply(c).of = c
         /\ Reply(c) = Reply(d) => c = d
         /\ Reply(c) # Open /\ Reply(c) # Failed /\ Reply(c) # Timeout
         /\ Reply(c) # Disposed
         /\ Open # Failed /\ Open # Timeout /\ Open # Disposed
         /\ Open.kind # "reply" /\ Failed.kind # "reply"
         /\ Timeout.kind # "reply" /\ Disposed.kind # "reply"
         /\ {Reply(c), Open, Timeout, Failed, Disposed} \subseteq Outcome
<1>1. Reply(c).kind = "reply" /\ Reply(c).of = c  BY DEF Reply
<1>2. Reply(d).of = d  BY DEF Reply
<1>3. /\ Open.kind = "open" /\ Timeout.kind = "timeout"
      /\ Failed.kind = "failed" /\ Disposed.kind = "disposed"
  BY DEF Open, Timeout, Failed, Disposed
<1>4. {Reply(c), Open, Timeout, Failed, Disposed} \subseteq Outcome
  BY DEF Outcome
<1> QED  BY <1>1, <1>2, <1>3, <1>4

LEMMA PendingKeys ==
  ASSUME NEW c \in Call
  PROVE  /\ PendingKey(c) \in Key
         /\ \A d \in Call : \A code : KeyOf(d, code) = PendingKey(c)
                                          => d = c \/ d \in Rivals(c)
         /\ \A d \in Call : d \in Rivals(c) <=> c \in Rivals(d)
<1>1. Expected(c) \in ReplyCode
  BY CallAssumption DEF Expected, ReplyCode
<1>2. PendingKey(c) \in Key
  BY <1>1 DEF PendingKey, KeyOf, Key
<1>3. \A d \in Call : \A code : KeyOf(d, code) = PendingKey(c)
                              => d = c \/ d \in Rivals(c)
  BY DEF KeyOf, PendingKey, Rivals
<1> QED  BY <1>2, <1>3 DEF Rivals

LEMMA AppendedElements ==
  ASSUME NEW S, NEW s \in Seq(S), NEW e \in S, NEW i \in DOMAIN Append(s, e)
  PROVE  \/ i \in DOMAIN s /\ Append(s, e)[i] = s[i]
         \/ i = Len(s) + 1 /\ i \notin DOMAIN s /\ Append(s, e)[i] = e
  OBVIOUS

LEMMA TailElements ==
  ASSUME NEW S, NEW s \in Seq(S), s # <<>>
  PROVE  /\ 1 \in DOMAIN s /\ Head(s) = s[1] /\ Head(s) \in S
         /\ Tail(s) \in Seq(S)
         /\ \A i \in DOMAIN Tail(s) :
              i \in Nat /\ i + 1 \in DOMAIN s /\ Tail(s)[i] = s[i + 1] /\ i + 1 # 1
  OBVIOUS

-----------------------------------------------------------------------------
(* What holds at the start. *)

LEMMA GroupInit ==
  Init => GroupInv
<1> SUFFICES ASSUME Init PROVE GroupInv
  OBVIOUS
<1>1. TypeOK
  <2>1. outcome \in [Call -> Outcome]
    BY DEF Init, Outcome
  <2>2. port \in Seq(Event) /\ native \in Event \cup {NoEvent}
    BY DEF Init
  <2>3. pending \in [Key -> Call \cup {NoCall}]
    BY DEF Init
  <2> QED  BY <2>1, <2>2, <2>3 DEF Init, TypeOK
<1>2. IdleInv
  BY PendingKeys, NoCallAssumption DEF Init, IdleInv
<1>3. PendingInv /\ NativeInv /\ SentInv /\ FrameInv /\ AloneInv
  BY DEF Init, PendingInv, NativeInv, SentInv, FrameInv, AloneInv
<1>4. SpentInv
  BY Outcomes, NoCallAssumption DEF Init, SpentInv, Spent
<1> QED  BY <1>1, <1>2, <1>3, <1>4 DEF GroupInv
-----------------------------------------------------------------------------
(* Every action keeps the invariant. *)

LEMMA ClientFrame ==
  ASSUME UNCHANGED <<client, alone>>
  PROVE  /\ PendingInv => PendingInv'
         /\ AloneInv => AloneInv'
<1>1. PendingInv => PendingInv'
  BY DEF client, PendingInv, PendingKey, KeyOf, Expected
<1>2. \A d \in Call : Settled(d) => Settled(d)'
  BY DEF client, Settled
<1>3. AloneInv => AloneInv'
  BY <1>2 DEF client, AloneInv, Rivals
<1> QED  BY <1>1, <1>3

LEMMA StartKeeps ==
  ASSUME GroupInv, NEW c \in Call, NEW result \in {"ok", "failed"},
         Start(c, result),
         served' \in {served, [served EXCEPT ![c] = "held"]},
         lost' \in SUBSET Call
  PROVE  GroupInv'
<1> USE DEF GroupInv, TypeOK
<1>1. /\ state[c] = "idle" /\ outcome[c] = Open /\ answer[c] = NoCall
      /\ served[c] = "unheard" /\ c \notin alone
  BY DEF Start, IdleInv
<1>2. TypeOK'
  <2>1. native' \in Event
    BY DEF Start, Event
  <2> QED  BY <2>1, PendingKeys DEF Start
<1>3. \A d \in Call : d # c => /\ state'[d] = state[d]
                               /\ served'[d] = served[d]
  BY DEF Start
<1>4. state'[c] = "sending" /\ served'[c] \in {"unheard", "held"}
  BY <1>1 DEF Start
<1>5. outcome' = outcome /\ answer' = answer /\ port' = port
  BY DEF Start
<1>6. \A k \in Key : pending'[k] = IF k = PendingKey(c) THEN c ELSE pending[k]
  BY PendingKeys DEF Start
<1>7. IdleInv'
  <2> SUFFICES ASSUME NEW d \in Call, state'[d] = "idle"
               PROVE  /\ outcome'[d] = Open /\ answer'[d] = NoCall
                      /\ served'[d] = "unheard"
                      /\ pending'[PendingKey(d)] # d /\ d \notin alone'
    BY DEF IdleInv, PendingKey, KeyOf, Expected
  <2>1. d # c /\ state[d] = "idle"
    BY <1>3, <1>4
  <2> QED  BY <2>1, <1>3, <1>5, <1>6, PendingKeys DEF IdleInv, Start
<1>8. PendingInv'
  BY <1>1, <1>5, <1>6 DEF PendingInv, PendingKey, KeyOf, Expected
<1>9. NativeInv'
  <2>1. /\ native'.type = "sent" /\ native'.call = c
    BY DEF Start
  <2>2. \A i \in DOMAIN port : port[i].type = "sent" => port[i].call # c
    BY <1>1 DEF SentInv, Sending
  <2> QED  BY <2>1, <2>2, <1>1, <1>4, <1>5 DEF NativeInv, Sending
<1>10. SentInv'
  <2>1. \A i \in DOMAIN port : port[i].call \in Call
    BY DEF Event
  <2> QED  BY <2>1, <1>1, <1>3, <1>4, <1>5 DEF SentInv, Sending
<1>11. FrameInv'
  <2>1. \A i \in DOMAIN port : port[i].call \in Call
    BY DEF Event
  <2> QED  BY <2>1, <1>1, <1>3, <1>5 DEF FrameInv, Answer
<1>12. SpentInv'
  BY <1>1, <1>3, <1>5 DEF SpentInv, Spent, Answer
<1>13. AloneInv'
  <2> SUFFICES ASSUME NEW e \in alone'
               PROVE  /\ outcome[e] = Open => \A d \in Rivals(e) : Settled(d)'
                      /\ outcome[e].kind = "reply" => outcome[e].of = e
                      /\ answer[e] \in {NoCall, e}
    BY <1>5 DEF AloneInv, Rivals
  <2>1. CASE e = c
    <3>1. \A d \in Rivals(c) : Settled(d)
      BY <2>1, <1>1 DEF Start
    <3>2. \A d \in Rivals(c) : Settled(d)'
      BY <3>1, <1>3, <1>5 DEF Settled, Rivals
    <3> QED  BY <2>1, <3>2, <1>1, Outcomes
  <2>2. CASE e # c
    <3>1. e \in alone /\ (outcome[e] = Open => e \notin Rivals(c))
      BY <2>2 DEF Start
    <3>2. ASSUME outcome[e] = Open, NEW d \in Rivals(e) PROVE Settled(d)'
      <4>1. d # c /\ d \in Call
        BY <3>1, <3>2, PendingKeys DEF Rivals
      <4> QED  BY <4>1, <3>1, <3>2, <1>3, <1>5 DEF AloneInv, Settled
    <3> QED  BY <3>1, <3>2 DEF AloneInv
  <2> QED  BY <2>1, <2>2
<1> QED  BY <1>2, <1>7, <1>8, <1>9, <1>10, <1>11, <1>12, <1>13

LEMMA NativeReturnsKeeps ==
  ASSUME GroupInv, NativeReturns
  PROVE  GroupInv'
<1> USE DEF GroupInv, TypeOK
<1>1. /\ native \in Event /\ native.type = "sent" /\ Sending(native)
      /\ \A i \in DOMAIN port : port[i].type = "sent" => port[i].call # native.call
  BY DEF NativeReturns, NativeInv
<1>2. port' = Append(port, native) /\ native' = NoEvent
  BY DEF NativeReturns
<1>3. UNCHANGED <<client, ecus, alone>>
  BY DEF NativeReturns
<1> USE DEF client, ecus
<1>4. TypeOK'
  BY <1>1, <1>2, <1>3
<1>5. IdleInv' /\ PendingInv' /\ AloneInv'
  <2>1. IdleInv'
    BY <1>3 DEF IdleInv, PendingKey, KeyOf, Expected
  <2> QED  BY <2>1, <1>3, ClientFrame
<1>6. NativeInv'
  BY <1>2 DEF NativeInv
<1>7. \A i \in DOMAIN port' :
        \/ i \in DOMAIN port /\ port'[i] = port[i]
        \/ i = Len(port) + 1 /\ i \notin DOMAIN port /\ port'[i] = native
  BY <1>1, <1>2, AppendedElements
<1>8. SentInv'
  <2>1. \A e \in Event : Sending(e)' <=> Sending(e)
    BY <1>3 DEF Sending
  <2> QED  BY <2>1, <1>1, <1>3, <1>7 DEF SentInv, Sending
<1>9. FrameInv' /\ SpentInv'
  BY <1>1, <1>3, <1>7 DEF FrameInv, SpentInv, Spent
<1> QED  BY <1>4, <1>5, <1>6, <1>8, <1>9

LEMMA AnswersKeeps ==
  ASSUME GroupInv, NEW c \in Call, NEW how \in Answer, Answers(c, how)
  PROVE  GroupInv'
<1> USE DEF GroupInv, TypeOK
<1> DEFINE f == [type |-> "frame", call |-> c, code |-> CodeOf(c, how)]
<1>1. served[c] = "held" /\ served' = [served EXCEPT ![c] = how]
  BY DEF Answers, MayAnswer
<1>2. f \in Event /\ f.type = "frame" /\ f.call = c
  BY DEF Event, CodeOf, ReplyCode
<1>3. port' \in {port, Append(port, f)}
  BY DEF Answers
<1>4. UNCHANGED <<client, native, lost, alone>>
  BY DEF Answers
<1> USE DEF client
<1> HIDE DEF f
<1>5. TypeOK'
  BY <1>1, <1>2, <1>3, <1>4
<1>6. state[c] # "idle"
  BY <1>1 DEF IdleInv
<1>7. IdleInv' /\ PendingInv' /\ AloneInv'
  <2>1. IdleInv'
    BY <1>1, <1>4, <1>6 DEF IdleInv, PendingKey, KeyOf, Expected
  <2> QED  BY <2>1, <1>4, ClientFrame
<1>8. \A i \in DOMAIN port' :
        \/ i \in DOMAIN port /\ port'[i] = port[i]
        \/ i = Len(port) + 1 /\ i \notin DOMAIN port /\ port'[i] = f
  BY <1>2, <1>3, AppendedElements
<1>9. NativeInv' /\ SentInv'
  BY <1>2, <1>4, <1>8 DEF NativeInv, SentInv, Sending
<1>10. \A i \in DOMAIN port : port[i].type = "frame" =>
         port[i].call # c /\ port[i].call \in Call
  BY <1>1 DEF FrameInv, Answer, Event
<1>11. FrameInv'
  BY <1>1, <1>2, <1>8, <1>10 DEF FrameInv
<1>12. \A d \in Call : Spent(d) => d # c
  BY <1>1 DEF SpentInv, Answer
<1>13. SpentInv'
  BY <1>1, <1>2, <1>4, <1>8, <1>12 DEF SpentInv, Spent
<1> QED  BY <1>5, <1>7, <1>9, <1>11, <1>13

LEMMA AnswerLostKeeps ==
  ASSUME GroupInv, NEW c \in Call, NEW how \in Answer, AnswerLost(c, how)
  PROVE  GroupInv'
<1> USE DEF GroupInv, TypeOK
<1>1. served[c] = "held" /\ served' = [served EXCEPT ![c] = how]
  BY DEF AnswerLost, MayAnswer
<1>2. UNCHANGED <<client, native, port, alone>> /\ lost' \in SUBSET Call
  BY DEF AnswerLost
<1> USE DEF client
<1>3. TypeOK'
  BY <1>1, <1>2
<1>4. IdleInv' /\ PendingInv' /\ AloneInv'
  <2>1. IdleInv'
    BY <1>1, <1>2 DEF IdleInv, PendingKey, KeyOf, Expected
  <2> QED  BY <2>1, <1>2, ClientFrame
<1>5. NativeInv' /\ SentInv'
  BY <1>2 DEF NativeInv, SentInv, Sending
<1>6. FrameInv' /\ SpentInv'
  BY <1>1, <1>2 DEF FrameInv, SpentInv, Spent, Event
<1> QED  BY <1>3, <1>4, <1>5, <1>6
LEMMA TakenEvent ==
  ASSUME GroupInv, port # <<>>, port' = Tail(port), served' = served
  PROVE  /\ Head(port) \in Event /\ port' \in Seq(Event)
         /\ 1 \in DOMAIN port /\ Head(port) = port[1]
         /\ \A i \in DOMAIN port' :
              i + 1 \in DOMAIN port /\ port'[i] = port[i + 1] /\ i + 1 # 1
         /\ \A i, j \in DOMAIN port' :
              port'[i].type = "sent" /\ port'[j].type = "sent"
                /\ port'[i].call = port'[j].call => i = j
         /\ FrameInv'
<1> USE DEF GroupInv, TypeOK
<1>1. /\ 1 \in DOMAIN port /\ Head(port) = port[1] /\ Head(port) \in Event
      /\ port' \in Seq(Event)
      /\ \A i \in DOMAIN port' :
           i \in Nat /\ i + 1 \in DOMAIN port /\ port'[i] = port[i + 1] /\ i + 1 # 1
  BY TailElements
<1>2. \A i, j \in DOMAIN port' : i + 1 = j + 1 => i = j
  BY <1>1
<1>3. ASSUME NEW i \in DOMAIN port', NEW j \in DOMAIN port',
             port'[i].type = port'[j].type, port'[i].call = port'[j].call
      PROVE  i = j
  <2>1. /\ i + 1 \in DOMAIN port /\ port'[i] = port[i + 1]
        /\ j + 1 \in DOMAIN port /\ port'[j] = port[j + 1]
    BY <1>1
  <2>2. port[i + 1].type \in {"sent", "frame"}
    BY <2>1 DEF Event
  <2>3. i + 1 = j + 1
    BY <2>1, <2>2, <1>3 DEF SentInv, FrameInv
  <2> QED  BY <2>3, <1>2
<1>4. FrameInv'
  BY <1>1, <1>3 DEF FrameInv
<1> QED  BY <1>1, <1>3, <1>4

LEMMA OnSentKeeps ==
  ASSUME GroupInv, OnSent
  PROVE  GroupInv'
<1> USE DEF GroupInv, TypeOK
<1> DEFINE c == Head(port).call
<1>1. /\ native = NoEvent /\ port # <<>> /\ Head(port).type = "sent"
      /\ port' = Tail(port)
      /\ UNCHANGED <<answer, pending, disposed, native, ecus, alone>>
  BY DEF OnSent
<1> USE DEF ecus
<1>2. /\ 1 \in DOMAIN port /\ Head(port) = port[1] /\ Head(port) \in Event
      /\ port' \in Seq(Event)
      /\ \A i \in DOMAIN port' :
           i + 1 \in DOMAIN port /\ port'[i] = port[i + 1] /\ i + 1 # 1
  BY <1>1, TakenEvent
<1>3. c \in Call /\ state[c] = "sending" /\ outcome[c] = Open
  BY <1>1, <1>2 DEF SentInv, Sending, Event
<1>4. \/ state' = state /\ outcome' = [outcome EXCEPT ![c] = Failed]
      \/ /\ state' = state /\ answer[c] # NoCall
         /\ outcome' = [outcome EXCEPT ![c] = Reply(answer[c])]
      \/ state' = [state EXCEPT ![c] = "waiting"] /\ outcome' = outcome
  BY DEF OnSent
<1> HIDE DEF c
<1>5. answer[c] \in Call \cup {NoCall}
  BY <1>3
<1>6. TypeOK'
  BY <1>1, <1>2, <1>3, <1>4, <1>5, Outcomes
<1>7. \A d \in Call : d # c => state'[d] = state[d] /\ outcome'[d] = outcome[d]
  BY <1>4
<1>8. state'[c] # "idle"
  BY <1>3, <1>4
<1>9. IdleInv'
  BY <1>1, <1>7, <1>8 DEF IdleInv, PendingKey, KeyOf, Expected
<1>10. PendingInv'
  <2> SUFFICES ASSUME NEW k \in Key, pending[k] # NoCall
               PROVE  /\ k = PendingKey(pending[k])
                      /\ outcome'[pending[k]] \in {Open, Failed}
                      /\ answer[pending[k]] = NoCall
    BY <1>1 DEF PendingInv, PendingKey, KeyOf, Expected
  <2>1. /\ k = PendingKey(pending[k]) /\ answer[pending[k]] = NoCall
        /\ outcome[pending[k]] \in {Open, Failed} /\ pending[k] \in Call
    BY DEF PendingInv
  <2> QED  BY <2>1, <1>3, <1>4
<1>11. NativeInv'
  BY <1>1 DEF NativeInv
<1>12. SentInv'
  <2>1. ASSUME NEW i \in DOMAIN port', port'[i].type = "sent"
        PROVE  state'[port'[i].call] = "sending" /\ outcome'[port'[i].call] = Open
    <3>1. /\ i + 1 \in DOMAIN port /\ port'[i] = port[i + 1] /\ i + 1 # 1
          /\ port[i + 1].call \in Call
      BY <1>2 DEF Event
    <3>2. Sending(port[i + 1]) /\ port[i + 1].call # c
      BY <3>1, <2>1, <1>1, <1>2 DEF SentInv, c
    <3> QED  BY <3>1, <3>2, <1>7 DEF Sending
  <2>2. \A i, j \in DOMAIN port' :
          port'[i].type = "sent" /\ port'[j].type = "sent"
            /\ port'[i].call = port'[j].call => i = j
    BY <1>1, TakenEvent
  <2> QED  BY <2>1, <2>2 DEF SentInv, Sending
<1>13. FrameInv'
  BY <1>1, TakenEvent
<1>14. \A d \in Call : Spent(d)' => Spent(d)
  <2> SUFFICES ASSUME NEW d \in Call, NEW e \in Call,
                      answer[e] = d \/ outcome'[e] = Reply(d)
               PROVE  answer[e] = d \/ outcome[e] = Reply(d)
    BY <1>1 DEF Spent
  <2>1. CASE e # c
    BY <2>1, <1>7
  <2>2. CASE e = c
    <3>1. outcome'[c] = Reply(d) =>
            \/ answer[c] \in Call /\ Reply(answer[c]) = Reply(d)
            \/ outcome[c] = Reply(d)
      BY <1>3, <1>4, <1>5, Outcomes
    <3> QED  BY <3>1, <2>2, Outcomes
  <2> QED  BY <2>1, <2>2
<1>15. SpentInv'
  BY <1>1, <1>2, <1>14 DEF SpentInv
<1>16. AloneInv'
  <2> SUFFICES ASSUME NEW e \in alone
               PROVE  /\ outcome'[e] = Open => \A d \in Rivals(e) : Settled(d)'
                      /\ outcome'[e].kind = "reply" => outcome'[e].of = e
                      /\ answer[e] \in {NoCall, e}
    BY <1>1 DEF AloneInv, Rivals
  <2>1. /\ outcome[e] = Open => \A d \in Rivals(e) : Settled(d)
        /\ outcome[e].kind = "reply" => outcome[e].of = e
        /\ answer[e] \in {NoCall, e}
    BY DEF AloneInv
  <2>2. outcome'[e] = Open => outcome[e] = Open
    BY <1>3, <1>7
  <2>3. ASSUME NEW d \in Call, Settled(d) PROVE Settled(d)'
    <3>1. d # c
      BY <1>3, <2>3, Outcomes DEF Settled
    <3> QED  BY <3>1, <2>3, <1>7 DEF Settled
  <2>4. outcome'[e].kind = "reply" => outcome'[e].of = e
    <3>1. CASE e # c
      BY <3>1, <2>1, <1>7
    <3>2. CASE e = c
      <4>1. \/ outcome'[c] \in {Failed, Open}
            \/ answer[c] # NoCall /\ outcome'[c] = Reply(answer[c])
        BY <1>3, <1>4
      <4>2. answer[c] # NoCall => answer[c] = c
        BY <2>1, <3>2
      <4> QED  BY <3>2, <4>1, <4>2, <1>3, Outcomes
    <3> QED  BY <3>1, <3>2
  <2> QED  BY <2>1, <2>2, <2>3, <2>4 DEF Rivals
<1> QED  BY <1>6, <1>9, <1>10, <1>11, <1>12, <1>13, <1>15, <1>16
LEMMA OnReplyKeeps ==
  ASSUME GroupInv, OnReply
  PROVE  GroupInv'
<1> USE DEF GroupInv, TypeOK
<1> DEFINE d == Head(port).call
           k == KeyOf(d, Head(port).code)
           c == pending[k]
<1>1. /\ native = NoEvent /\ port # <<>> /\ Head(port).type = "frame"
      /\ port' = Tail(port) /\ pending' = [pending EXCEPT ![k] = NoCall]
      /\ UNCHANGED <<state, disposed, native, ecus, alone>>
  BY DEF OnReply
<1> USE DEF ecus
<1>2. /\ 1 \in DOMAIN port /\ Head(port) = port[1] /\ Head(port) \in Event
      /\ port' \in Seq(Event)
      /\ \A i \in DOMAIN port' :
           i + 1 \in DOMAIN port /\ port'[i] = port[i + 1] /\ i + 1 # 1
  BY <1>1, TakenEvent
<1>3. d \in Call /\ k \in Key /\ c \in Call \cup {NoCall}
  <2>1. d \in Call /\ Head(port).code \in ReplyCode
    BY <1>1, <1>2 DEF Event
  <2>2. k \in Key
    BY <2>1 DEF Key, KeyOf
  <2> QED  BY <2>1, <2>2
<1>4. served[d] \in Answer /\ ~Spent(d)
      /\ \A i \in DOMAIN port' : port'[i].type = "frame" => port'[i].call # d
  <2>1. served[d] \in Answer /\ ~Spent(d)
    BY <1>1, <1>2, <1>3 DEF FrameInv, SpentInv
  <2>2. \A i \in DOMAIN port' : port'[i].type = "frame" => port'[i].call # d
    BY <1>1, <1>2 DEF FrameInv
  <2> QED  BY <2>1, <2>2
<1>5. /\ outcome' = IF c # NoCall /\ InCall(c, "waiting")
                    THEN [outcome EXCEPT ![c] = Reply(d)] ELSE outcome
      /\ answer' = IF c # NoCall /\ InCall(c, "sending")
                   THEN [answer EXCEPT ![c] = d] ELSE answer
  BY DEF OnReply
<1>6. c # NoCall => /\ k = PendingKey(c) /\ answer[c] = NoCall
                    /\ d = c \/ d \in Rivals(c)
  BY <1>3, PendingKeys DEF PendingInv
<1>7. ~Settled(d)
  BY <1>3, <1>4 DEF Settled, IdleInv, Spent, Answer
<1> HIDE DEF c, k, d
(* Whoever kept clear of others only gets a reply of its own. *)
<1>8. c \in alone /\ outcome[c] = Open => d = c
  <2>1. c \in alone => c # NoCall
    BY NoCallAssumption
  <2> QED  BY <2>1, <1>6, <1>7 DEF AloneInv
<1>9. TypeOK'
  <2>1. outcome' \in [Call -> Outcome]
    BY <1>3, <1>5, Outcomes
  <2> QED  BY <2>1, <1>1, <1>2, <1>3, <1>5
<1>10. \A e \in Call : e # c => outcome'[e] = outcome[e] /\ answer'[e] = answer[e]
  BY <1>5
<1>11. c # NoCall =>
         \/ /\ state[c] = "waiting" /\ outcome[c] = Open
            /\ outcome'[c] = Reply(d) /\ answer'[c] = answer[c]
         \/ /\ state[c] = "sending" /\ outcome[c] = Open
            /\ answer'[c] = d /\ outcome'[c] = outcome[c]
         \/ outcome'[c] = outcome[c] /\ answer'[c] = answer[c]
  BY <1>3, <1>5 DEF InCall
<1>12. \A x \in Key : pending'[x] # NoCall =>
         /\ pending[x] # NoCall /\ pending'[x] = pending[x] /\ pending[x] # c
  <2> SUFFICES ASSUME NEW x \in Key, pending'[x] # NoCall
               PROVE  /\ pending[x] # NoCall /\ pending'[x] = pending[x]
                      /\ pending[x] # c
    OBVIOUS
  <2>1. x # k /\ pending'[x] = pending[x]
    BY <1>1, <1>3
  <2>2. pending[x] # NoCall /\ x = PendingKey(pending[x])
    BY <2>1 DEF PendingInv
  <2> QED  BY <2>1, <2>2, <1>6
<1>13. IdleInv'
  <2> SUFFICES ASSUME NEW e \in Call, state[e] = "idle"
               PROVE  /\ outcome'[e] = Open /\ answer'[e] = NoCall
                      /\ served[e] = "unheard"
                      /\ pending'[PendingKey(e)] # e /\ e \notin alone
    BY <1>1 DEF IdleInv, PendingKey, KeyOf, Expected
  <2>1. /\ outcome[e] = Open /\ answer[e] = NoCall /\ served[e] = "unheard"
        /\ pending[PendingKey(e)] # e /\ e \notin alone
    BY DEF IdleInv
  <2>2. outcome'[e] = Open /\ answer'[e] = NoCall
    <3>1. CASE e # c
      BY <3>1, <2>1, <1>10
    <3>2. CASE e = c
      <4>1. c # NoCall
        BY <3>2, NoCallAssumption
      <4> QED  BY <3>2, <4>1, <2>1, <1>11
    <3> QED  BY <3>1, <3>2
  <2>3. pending'[PendingKey(e)] # e
    BY <2>1, <1>12, PendingKeys, NoCallAssumption
  <2> QED  BY <2>1, <2>2, <2>3
<1>14. PendingInv'
  <2> SUFFICES ASSUME NEW x \in Key, pending'[x] # NoCall
               PROVE  /\ x = PendingKey(pending'[x])
                      /\ outcome'[pending'[x]] \in {Open, Failed}
                      /\ answer'[pending'[x]] = NoCall
    BY DEF PendingInv, PendingKey, KeyOf, Expected
  <2>1. /\ pending[x] # NoCall /\ pending'[x] = pending[x] /\ pending[x] # c
        /\ pending[x] \in Call
    BY <1>12
  <2> QED  BY <2>1, <1>10 DEF PendingInv
<1>15. NativeInv'
  BY <1>1 DEF NativeInv
<1>16. SentInv'
  <2>1. ASSUME NEW i \in DOMAIN port', port'[i].type = "sent"
        PROVE  state'[port'[i].call] = "sending" /\ outcome'[port'[i].call] = Open
    <3>1. /\ i + 1 \in DOMAIN port /\ port'[i] = port[i + 1]
          /\ port[i + 1].call \in Call
      BY <1>2 DEF Event
    <3>2. Sending(port[i + 1])
      BY <3>1, <2>1 DEF SentInv
    <3>3. port[i + 1].call = c => c # NoCall
      BY <3>1, NoCallAssumption
    <3> QED  BY <3>1, <3>2, <3>3, <1>1, <1>10, <1>11 DEF Sending
  <2>2. \A i, j \in DOMAIN port' :
          port'[i].type = "sent" /\ port'[j].type = "sent"
            /\ port'[i].call = port'[j].call => i = j
    BY <1>1, TakenEvent
  <2> QED  BY <2>1, <2>2 DEF SentInv, Sending
<1>17. FrameInv'
  BY <1>1, TakenEvent
<1>18. \A e \in Call : Spent(e)' => Spent(e) \/ e = d
  <2> SUFFICES ASSUME NEW e \in Call, NEW b \in Call,
                      answer'[b] = e \/ outcome'[b] = Reply(e)
               PROVE  answer[b] = e \/ outcome[b] = Reply(e) \/ e = d
    BY DEF Spent, Reply
  <2>1. CASE b # c
    BY <2>1, <1>10
  <2>2. CASE b = c
    <3>1. c # NoCall
      BY <2>2, NoCallAssumption
    <3> QED  BY <2>2, <3>1, <1>3, <1>11, Outcomes
  <2> QED  BY <2>1, <2>2
<1>19. SpentInv'
  <2> SUFFICES ASSUME NEW e \in Call, Spent(e)'
               PROVE  /\ served[e] \in Answer
                      /\ \A i \in DOMAIN port' :
                           port'[i].type = "frame" => port'[i].call # e
    BY <1>1 DEF SpentInv
  <2>1. CASE e = d
    BY <2>1, <1>4
  <2>2. CASE Spent(e)
    BY <2>2, <1>2 DEF SpentInv
  <2> QED  BY <2>1, <2>2, <1>18
<1>20. AloneInv'
  <2> SUFFICES ASSUME NEW e \in alone
               PROVE  /\ outcome'[e] = Open => \A b \in Rivals(e) : Settled(b)'
                      /\ outcome'[e].kind = "reply" => outcome'[e].of = e
                      /\ answer'[e] \in {NoCall, e}
    BY <1>1 DEF AloneInv, Rivals
  <2>1. /\ outcome[e] = Open => \A b \in Rivals(e) : Settled(b)
        /\ outcome[e].kind = "reply" => outcome[e].of = e
        /\ answer[e] \in {NoCall, e} /\ e \in Call
    BY DEF AloneInv
  <2>2. e = c => c # NoCall
    BY <2>1, NoCallAssumption
  <2>3. outcome'[e] = Open => outcome[e] = Open
    BY <2>1, <2>2, <1>3, <1>10, <1>11, Outcomes
  <2>4. ASSUME NEW b \in Call, Settled(b) PROVE Settled(b)'
    <3>1. CASE b # c
      BY <3>1, <2>4, <1>1, <1>10 DEF Settled
    <3>2. CASE b = c
      <4>1. c # NoCall
        BY <3>2, NoCallAssumption
      <4>2. state[c] = "idle" \/ outcome[c] = Reply(c)
        BY <2>4, <3>2 DEF Settled
      <4>3. outcome[c] # Open \/ state[c] = "idle"
        BY <4>2, <3>2, Outcomes
      <4> QED  BY <3>2, <4>1, <4>2, <4>3, <1>1, <1>11 DEF Settled
    <3> QED  BY <3>1, <3>2
  <2>5. outcome'[e].kind = "reply" => outcome'[e].of = e
    BY <2>1, <2>2, <1>3, <1>8, <1>10, <1>11, Outcomes
  <2>6. answer'[e] \in {NoCall, e}
    BY <2>1, <2>2, <1>8, <1>10, <1>11
  <2> QED  BY <2>1, <2>3, <2>4, <2>5, <2>6 DEF Rivals
<1> QED  BY <1>9, <1>13, <1>14, <1>15, <1>16, <1>17, <1>19, <1>20
(* Expires and Dispose end calls that wait, with an outcome that is no     *)
(* reply, and unregister them.                                             *)
LEMMA EndingKeeps ==
  ASSUME GroupInv, NEW ended \in SUBSET Call,
         NEW how \in {Timeout, Disposed},
         \A c \in ended : state[c] # "idle" /\ outcome[c] = Open,
         outcome' = [c \in Call |-> IF c \in ended THEN how ELSE outcome[c]],
         pending' \in [Key -> Call \cup {NoCall}],
         \A k \in Key : pending'[k] # NoCall =>
           pending'[k] = pending[k] /\ pending[k] \notin ended,
         UNCHANGED <<state, answer, native, served, lost, alone>>,
         native = NoEvent, disposed' \in BOOLEAN,
         \/ port' = <<>>
         \/ port' = port /\ \A c \in ended : state[c] = "waiting"
  PROVE  GroupInv'
<1> USE DEF GroupInv, TypeOK
<1>1. \A c \in Call \ ended : outcome'[c] = outcome[c]
  OBVIOUS
<1>2. \A c \in ended : outcome'[c] = how
  OBVIOUS
<1>3. ASSUME NEW c \in Call, NEW d \in Call, outcome'[c] = Reply(d)
      PROVE  c \notin ended /\ outcome[c] = Reply(d)
  BY <1>1, <1>2, <1>3, Outcomes
<1>4. TypeOK'
  <2>1. outcome' \in [Call -> Outcome]
    BY DEF Outcome
  <2>2. port' \in Seq(Event)
    <3>1. <<>> \in Seq(Event)
      OBVIOUS
    <3> QED  BY <3>1
  <2> QED  BY <2>1, <2>2
<1>5. IdleInv'
  <2> SUFFICES ASSUME NEW e \in Call, state[e] = "idle"
               PROVE  /\ outcome'[e] = Open /\ answer[e] = NoCall
                      /\ served[e] = "unheard"
                      /\ pending'[PendingKey(e)] # e /\ e \notin alone
    BY DEF IdleInv, PendingKey, KeyOf, Expected
  <2>1. e \notin ended /\ pending'[PendingKey(e)] # e
    BY PendingKeys, NoCallAssumption DEF IdleInv
  <2> QED  BY <2>1, <1>1 DEF IdleInv
<1>6. PendingInv'
  <2> SUFFICES ASSUME NEW k \in Key, pending'[k] # NoCall
               PROVE  /\ k = PendingKey(pending'[k])
                      /\ outcome'[pending'[k]] \in {Open, Failed}
                      /\ answer[pending'[k]] = NoCall
    BY DEF PendingInv, PendingKey, KeyOf, Expected
  <2>1. pending'[k] = pending[k] /\ pending[k] \in Call \ ended
    OBVIOUS
  <2> QED  BY <2>1, <1>1 DEF PendingInv
<1>7. NativeInv'
  BY DEF NativeInv
<1>8. SentInv'
  <2>1. CASE port' = <<>>
    BY <2>1 DEF SentInv
  <2>2. CASE port' = port /\ \A c \in ended : state[c] = "waiting"
    <3>1. ASSUME NEW i \in DOMAIN port, port[i].type = "sent"
          PROVE  state[port[i].call] = "sending" /\ outcome'[port[i].call] = Open
      <4>1. port[i].call \in Call /\ Sending(port[i])
        BY <3>1 DEF SentInv, Event
      <4> QED  BY <4>1, <2>2, <1>1 DEF Sending
    <3> QED  BY <2>2, <3>1 DEF SentInv, Sending
  <2> QED  BY <2>1, <2>2
<1>9. FrameInv'
  BY DEF FrameInv
<1>10. SpentInv'
  <2>1. \A d \in Call : Spent(d)' => Spent(d)
    BY <1>3 DEF Spent, Reply
  <2> QED  BY <2>1 DEF SpentInv
<1>11. AloneInv'
  <2> SUFFICES ASSUME NEW e \in alone
               PROVE  /\ outcome'[e] = Open => \A d \in Rivals(e) : Settled(d)'
                      /\ outcome'[e].kind = "reply" => outcome'[e].of = e
                      /\ answer[e] \in {NoCall, e}
    BY DEF AloneInv, Rivals
  <2>1. outcome'[e] = outcome[e] \/ outcome'[e] = how
    OBVIOUS
  <2>2. ASSUME NEW d \in Call, Settled(d) PROVE Settled(d)'
    <3>1. d \notin ended
      BY <2>2, Outcomes DEF Settled
    <3> QED  BY <3>1, <2>2, <1>1 DEF Settled
  <2>3. how # Open /\ how.kind # "reply"
    BY Outcomes
  <2> QED  BY <2>1, <2>2, <2>3 DEF AloneInv, Rivals
<1> QED  BY <1>4, <1>5, <1>6, <1>7, <1>8, <1>9, <1>10, <1>11

LEMMA ExpiresKeeps ==
  ASSUME GroupInv, NEW c \in Call, Expires(c)
  PROVE  GroupInv'
<1> USE DEF GroupInv, TypeOK
<1>1. /\ native = NoEvent /\ state[c] = "waiting" /\ outcome[c] = Open
      /\ outcome' = [outcome EXCEPT ![c] = Timeout]
      /\ pending' = [pending EXCEPT ![PendingKey(c)] = NoCall]
      /\ UNCHANGED <<state, answer, disposed, native, port, served, lost, alone>>
  BY DEF Expires, InCall, ecus
<1>2. \A k \in Key : pending'[k] # NoCall =>
        pending'[k] = pending[k] /\ pending[k] \notin {c}
  <2> SUFFICES ASSUME NEW k \in Key, pending'[k] # NoCall
               PROVE  pending'[k] = pending[k] /\ pending[k] \notin {c}
    OBVIOUS
  <2>1. k # PendingKey(c) /\ pending'[k] = pending[k]
    BY <1>1, PendingKeys
  <2> QED  BY <2>1 DEF PendingInv
<1>3. outcome' = [d \in Call |-> IF d \in {c} THEN Timeout ELSE outcome[d]]
  BY <1>1
<1>4. pending' \in [Key -> Call \cup {NoCall}] /\ disposed' \in BOOLEAN
  BY <1>1
<1>5. \A d \in {c} : state[d] = "waiting" /\ state[d] # "idle" /\ outcome[d] = Open
  BY <1>1
<1>6. native = NoEvent /\ port' = port /\ UNCHANGED <<state, answer, native, served, lost, alone>>
  BY <1>1
<1>7. {c} \in SUBSET Call
  OBVIOUS
<1> HIDE DEF GroupInv, TypeOK
<1> QED  BY <1>2, <1>3, <1>4, <1>5, <1>6, <1>7, EndingKeeps

LEMMA DisposeKeeps ==
  ASSUME GroupInv, Dispose
  PROVE  GroupInv'
<1> USE DEF GroupInv, TypeOK
<1>1. Ended \in SUBSET Call
      /\ \A c \in Ended : state[c] # "idle" /\ outcome[c] = Open
  BY DEF Ended, InCall
<1>2. /\ native = NoEvent /\ port' = <<>> /\ disposed' = TRUE
      /\ outcome' = [c \in Call |-> IF c \in Ended THEN Disposed ELSE outcome[c]]
      /\ pending' = [k \in Key |-> NoCall]
      /\ UNCHANGED <<state, answer, native, served, lost, alone>>
  BY DEF Dispose, ecus
<1>3. pending' \in [Key -> Call \cup {NoCall}]
      /\ \A k \in Key : pending'[k] = NoCall
  BY <1>2
<1> HIDE DEF GroupInv, TypeOK
<1> QED  BY <1>1, <1>2, <1>3, EndingKeeps

LEMMA GroupStep ==
  GroupInv /\ [Next]_vars => GroupInv'
<1> SUFFICES ASSUME GroupInv, [Next]_vars PROVE GroupInv'
  OBVIOUS
<1>1. ASSUME NEW c \in Call, StartHeard(c) PROVE GroupInv'
  <2>1. /\ Start(c, "ok") /\ served' = [served EXCEPT ![c] = "held"]
        /\ lost' \in SUBSET Call
    BY <1>1 DEF StartHeard, GroupInv, TypeOK
  <2> QED  BY <2>1, StartKeeps
<1>2. ASSUME NEW c \in Call, StartLost(c) PROVE GroupInv'
  <2>1. Start(c, "ok") /\ served' = served /\ lost' \in SUBSET Call
    BY <1>2 DEF StartLost, GroupInv, TypeOK
  <2> QED  BY <2>1, StartKeeps
<1>3. ASSUME NEW c \in Call, StartFails(c) PROVE GroupInv'
  <2>1. Start(c, "failed") /\ served' = served /\ lost' \in SUBSET Call
    BY <1>3 DEF StartFails, ecus, GroupInv, TypeOK
  <2> QED  BY <2>1, StartKeeps
<1>4. CASE UNCHANGED vars
  <2>1. UNCHANGED <<client, native, port, ecus, alone>>
    BY <1>4 DEF vars
  <2>2. TypeOK' /\ IdleInv' /\ NativeInv' /\ SentInv' /\ FrameInv' /\ SpentInv'
    <3>1. TypeOK' /\ IdleInv'
      BY <2>1 DEF GroupInv, TypeOK, IdleInv, PendingKey, KeyOf, Expected,
                  client, ecus
    <3>2. NativeInv' /\ SentInv'
      BY <2>1 DEF GroupInv, NativeInv, SentInv, Sending, client
    <3>3. FrameInv' /\ SpentInv'
      BY <2>1 DEF GroupInv, FrameInv, SpentInv, Spent, client, ecus
    <3> QED  BY <3>1, <3>2, <3>3
  <2> QED  BY <2>1, <2>2, ClientFrame DEF GroupInv
<1> QED  BY <1>1, <1>2, <1>3, <1>4, NativeReturnsKeeps, AnswersKeeps,
            AnswerLostKeeps, OnSentKeeps, OnReplyKeeps, ExpiresKeeps,
            DisposeKeeps DEF Next, Isolate

THEOREM GroupInvariant ==
  Spec => []GroupInv
<1> QED  BY GroupInit, GroupStep, PTL DEF Spec

-----------------------------------------------------------------------------
(* Whatever calls are made to whatever ECUs, every variable keeps its      *)
(* type: nothing is posted but results of sends and replies, and the       *)
(* pending map only ever holds calls that were made.                       *)
THEOREM TypeCorrect ==
  Spec => []TypeOK
<1>1. GroupInv => TypeOK
  BY DEF GroupInv
<1> QED  BY <1>1, GroupInvariant, PTL

(* command(), readFields() and writeFields() never leave in _pendingGf a   *)
(* call that was answered, timed out or disposed of, in any interleaving   *)
(* of calls that share keys: each way a call ends also unregisters it.     *)
THEOREM PendingIsOpen ==
  Spec => []NoStalePending
<1>1. GroupInv => NoStalePending
  BY DEF GroupInv, PendingInv, NoStalePending
<1> QED  BY <1>1, GroupInvariant, PTL

(* _completePending() matches a reply by PGN, function code and source     *)
(* alone, yet hands no call the reply to another, as long as no two calls  *)
(* about one PGN of one ECU are under way or unanswered together.          *)
THEOREM AnswersAreOwn ==
  Spec => []RightAnswer
<1>1. GroupInv => RightAnswer
  BY DEF GroupInv, AloneInv, RightAnswer
<1> QED  BY <1>1, GroupInvariant, PTL
-----------------------------------------------------------------------------
(* What a call that kept clear of others can count on until it ends: it is *)
(* registered until its reply is taken, and the fields that were sent to   *)
(* it wait in the port.                                                    *)
InPort(c) ==
  \E i \in DOMAIN port :
    port[i].type = "frame" /\ port[i].call = c /\ port[i].code = Expected(c)

Promised(c) ==
  /\ ~disposed
  /\ state[c] = "waiting" => answer[c] = NoCall
  /\ answer[c] = NoCall => pending[PendingKey(c)] = c
  /\ answer[c] = NoCall /\ Kind[c] # "command" /\ served[c] = "fields" /\ c \notin lost
       => InPort(c)

PromiseInv == \A c \in alone : outcome[c] = Open => Promised(c)

(* A step that leaves a call's own state, key and frame alone.             *)
LEMMA PromiseKept ==
  ASSUME NEW c \in Call, Promised(c), disposed' = disposed,
         state'[c] = state[c], answer'[c] = answer[c], served'[c] = served[c],
         pending'[PendingKey(c)] = pending[PendingKey(c)],
         lost \subseteq lost', InPort(c) => InPort(c)'
  PROVE  Promised(c)'
BY DEF Promised, PendingKey, KeyOf, Expected

(* No frame in the port belongs to a rival of a call that kept clear.      *)
LEMMA FramesOfOwn ==
  ASSUME GroupInv, NEW c \in alone, outcome[c] = Open,
         NEW i \in DOMAIN port, port[i].type = "frame"
  PROVE  /\ port[i].call \in Call /\ port[i].call \notin Rivals(c)
         /\ KeyOf(port[i].call, port[i].code) = PendingKey(c) => port[i].call = c
<1> USE DEF GroupInv, TypeOK
<1>1. port[i].call \in Call
  BY DEF Event
<1>2. served[port[i].call] \in Answer /\ ~Spent(port[i].call)
  BY <1>1 DEF FrameInv, SpentInv
<1>3. ~Settled(port[i].call)
  BY <1>1, <1>2 DEF Settled, IdleInv, Spent, Answer
<1>4. port[i].call \notin Rivals(c)
  BY <1>3 DEF AloneInv
<1> QED  BY <1>1, <1>4, PendingKeys

LEMMA StartPromises ==
  ASSUME GroupInv, PromiseInv, NEW c \in Call, NEW result \in {"ok", "failed"},
         Start(c, result),
         served' \in {served, [served EXCEPT ![c] = "held"]},
         lost \subseteq lost'
  PROVE  PromiseInv'
<1> USE DEF GroupInv, TypeOK
<1>1. /\ state[c] = "idle" /\ answer[c] = NoCall /\ served[c] = "unheard"
      /\ ~disposed /\ disposed' = disposed
      /\ outcome' = outcome /\ answer' = answer /\ port' = port
      /\ state' = [state EXCEPT ![c] = "sending"]
      /\ pending' = [pending EXCEPT ![PendingKey(c)] = c]
      /\ alone' \subseteq (alone \ {d \in Rivals(c) : outcome[d] = Open}) \cup {c}
  BY DEF Start, IdleInv
<1> SUFFICES ASSUME NEW e \in alone', outcome'[e] = Open PROVE Promised(e)'
  BY DEF PromiseInv
<1>2. e \in Call /\ (e = c \/ e \in alone \ Rivals(c))
  BY <1>1
<1>3. CASE e = c
  <2>1. state'[e] = "sending" /\ served'[e] \in {"unheard", "held"}
    BY <1>1, <1>3
  <2>2. pending'[PendingKey(e)] = e
    BY <1>1, <1>3, PendingKeys
  <2> QED  BY <1>1, <2>1, <2>2 DEF Promised, PendingKey, KeyOf, Expected
<1>4. CASE e # c
  <2>1. e \in alone /\ Promised(e)
    BY <1>1, <1>2, <1>4 DEF PromiseInv
  <2>2. PendingKey(e) # PendingKey(c) /\ PendingKey(e) \in Key
    BY <1>2, <1>4, PendingKeys DEF PendingKey
  <2>3. InPort(e) => InPort(e)'
    BY <1>1 DEF InPort, Expected
  <2> QED  BY <1>1, <1>2, <1>4, <2>1, <2>2, <2>3, PromiseKept
<1> QED  BY <1>3, <1>4

LEMMA AnswersPromises ==
  ASSUME GroupInv, PromiseInv, NEW c \in Call, NEW how \in Answer, Answers(c, how)
  PROVE  PromiseInv'
<1> USE DEF GroupInv, TypeOK
<1> DEFINE f == [type |-> "frame", call |-> c, code |-> CodeOf(c, how)]
<1>1. /\ UNCHANGED <<state, outcome, answer, pending, disposed, lost, alone>>
      /\ served' = [served EXCEPT ![c] = how]
      /\ port' = IF ReplyTravels(c, how) /\ ~disposed THEN Append(port, f) ELSE port
  BY DEF Answers, client
<1>2. CodeOf(c, how) \in ReplyCode
  BY DEF CodeOf, ReplyCode
<1>3. f \in Event
  BY <1>2 DEF Event
<1> HIDE DEF f
<1>4. /\ Append(port, f)[Len(port) + 1] = f
      /\ Len(port) + 1 \in DOMAIN Append(port, f)
      /\ \A i \in DOMAIN port : i \in DOMAIN Append(port, f)
                                /\ Append(port, f)[i] = port[i]
  BY <1>3
<1> SUFFICES ASSUME NEW e \in alone', outcome'[e] = Open PROVE Promised(e)'
  BY DEF PromiseInv
<1>5. e \in Call /\ e \in alone /\ Promised(e)
  BY <1>1 DEF PromiseInv
<1>6. InPort(e) => InPort(e)'
  BY <1>1, <1>4 DEF InPort, Expected
<1>7. CASE e # c
  BY <1>1, <1>5, <1>6, <1>7, PromiseKept
<1>8. CASE e = c
  <2>1. ASSUME Kind[c] # "command", how = "fields" PROVE InPort(c)'
    <3>1. port' = Append(port, f)
      BY <1>1, <1>5, <2>1 DEF ReplyTravels, Promised
    <3>2. CodeOf(c, how) = Expected(c)
      BY <2>1, CallAssumption DEF CodeOf, Expected
    <3>3. f.type = "frame" /\ f.call = c /\ f.code = Expected(c)
      BY <3>2 DEF f
    <3> QED  BY <1>4, <3>1, <3>3 DEF InPort, Expected
  <2>2. served'[c] = how
    BY <1>1
  <2> QED  BY <1>1, <1>5, <1>8, <2>1, <2>2
           DEF Promised, PendingKey, KeyOf, Expected
<1> QED  BY <1>7, <1>8

LEMMA AnswerLostPromises ==
  ASSUME GroupInv, PromiseInv, NEW c \in Call, NEW how \in Answer, AnswerLost(c, how)
  PROVE  PromiseInv'
<1> USE DEF GroupInv, TypeOK
<1>1. /\ UNCHANGED <<state, outcome, answer, pending, disposed, port, alone>>
      /\ served' = [served EXCEPT ![c] = how] /\ lost' = lost \cup {c}
  BY DEF AnswerLost, client
<1> SUFFICES ASSUME NEW e \in alone', outcome'[e] = Open PROVE Promised(e)'
  BY DEF PromiseInv
<1>2. e \in Call /\ Promised(e)
  BY <1>1 DEF PromiseInv
<1>3. InPort(e) => InPort(e)'
  BY <1>1 DEF InPort, Expected
<1>4. e # c => served'[e] = served[e]
  BY <1>1, <1>2
<1>5. CASE e = c
  BY <1>1, <1>2, <1>5 DEF Promised, PendingKey, KeyOf, Expected
<1> QED  BY <1>1, <1>2, <1>3, <1>4, <1>5, PromiseKept

(* The rest of the port moves up.                                          *)
LEMMA InPortMovesUp ==
  ASSUME GroupInv, port # <<>>, port' = Tail(port), NEW c \in Call, InPort(c),
         Head(port).type = "sent" \/ Head(port).call # c
                                  \/ Head(port).code # Expected(c)
  PROVE  InPort(c)'
<1> USE DEF GroupInv, TypeOK
<1>1. PICK i \in DOMAIN port :
        port[i].type = "frame" /\ port[i].call = c /\ port[i].code = Expected(c)
  BY DEF InPort
<1>2. port \in Seq(Event) /\ Head(port) = port[1]
  BY TailElements
<1>3. i # 1
  BY <1>1, <1>2
<1>4. i - 1 \in DOMAIN Tail(port) /\ Tail(port)[i - 1] = port[i]
  BY <1>1, <1>2, <1>3
<1> QED  BY <1>1, <1>4 DEF InPort, Expected

LEMMA OnSentPromises ==
  ASSUME GroupInv, PromiseInv, OnSent
  PROVE  PromiseInv'
<1> USE DEF GroupInv, TypeOK
<1> DEFINE c == Head(port).call
<1>1. /\ port # <<>> /\ Head(port).type = "sent" /\ port' = Tail(port)
      /\ UNCHANGED <<answer, pending, disposed, served, lost, alone>>
  BY DEF OnSent, ecus
<1>2. c \in Call
  <2>1. Head(port) \in Event
    BY <1>1, TailElements
  <2> QED  BY <2>1 DEF Event
<1>3. \/ state' = state
      \/ answer[c] = NoCall /\ state' = [state EXCEPT ![c] = "waiting"]
  BY DEF OnSent
<1>4. outcome' = outcome
      \/ \E o \in {Failed, Reply(answer[c])} : outcome' = [outcome EXCEPT ![c] = o]
  BY DEF OnSent
<1> HIDE DEF c
<1> SUFFICES ASSUME NEW e \in alone', outcome'[e] = Open PROVE Promised(e)'
  BY DEF PromiseInv
<1>5. e \in Call /\ e \in alone
  BY <1>1
<1>6. outcome[e] = Open
  <2>1. Failed # Open /\ \A x : Reply(x) # Open
    BY DEF Failed, Open, Reply
  <2> QED  BY <1>4, <1>5, <2>1
<1>7. Promised(e)
  BY <1>5, <1>6 DEF PromiseInv
<1>8. InPort(e) => InPort(e)'
  BY <1>1, <1>5, InPortMovesUp
<1>9. CASE state'[e] = state[e]
  BY <1>1, <1>5, <1>7, <1>8, <1>9, PromiseKept
<1>10. CASE state'[e] # state[e]
  <2>1. e = c /\ answer[e] = NoCall
    BY <1>3, <1>5, <1>10
  <2> QED  BY <1>1, <1>7, <1>8, <2>1 DEF Promised, PendingKey, KeyOf, Expected
<1> QED  BY <1>9, <1>10

LEMMA OnReplyPromises ==
  ASSUME GroupInv, PromiseInv, OnReply
  PROVE  PromiseInv'
<1> USE DEF GroupInv, TypeOK
<1> DEFINE d == Head(port).call
           k == KeyOf(d, Head(port).code)
           c == pending[k]
<1>1. /\ port # <<>> /\ Head(port).type = "frame" /\ port' = Tail(port)
      /\ pending' = [pending EXCEPT ![k] = NoCall]
      /\ UNCHANGED <<state, disposed, served, lost, alone>>
      /\ outcome' = IF c # NoCall /\ InCall(c, "waiting")
                    THEN [outcome EXCEPT ![c] = Reply(d)] ELSE outcome
      /\ answer' = IF c # NoCall /\ InCall(c, "sending")
                   THEN [answer EXCEPT ![c] = d] ELSE answer
  BY DEF OnReply, ecus
<1>2. /\ 1 \in DOMAIN port /\ Head(port) = port[1] /\ Head(port) \in Event
  BY <1>1, TailElements
<1>3. d \in Call /\ k \in Key
  <2>1. d \in Call /\ Head(port).code \in ReplyCode
    BY <1>1, <1>2 DEF Event
  <2> QED  BY <2>1 DEF Key, KeyOf
<1> SUFFICES ASSUME NEW e \in alone', outcome'[e] = Open PROVE Promised(e)'
  BY DEF PromiseInv
<1>4. e \in Call /\ e \in alone /\ PendingKey(e) \in Key
  BY <1>1, PendingKeys
<1>5. \A x : Reply(x) # Open
  BY DEF Open, Reply
<1>6. outcome[e] = Open
  BY <1>1, <1>4, <1>5
<1>7. Promised(e) /\ state[e] \in {"sending", "waiting"}
  BY <1>4, <1>6 DEF PromiseInv, IdleInv
<1>8. k = PendingKey(e) => d = e
  BY <1>1, <1>2, <1>4, <1>6, FramesOfOwn
<1>9. CASE k = PendingKey(e) /\ answer[e] = NoCall
  <2>1. c = e /\ c # NoCall
    BY <1>4, <1>7, <1>9, NoCallAssumption DEF Promised
  <2>2. state[e] = "sending"
    BY <1>1, <1>4, <1>5, <1>6, <1>7, <2>1 DEF InCall
  <2>3. answer'[e] = d /\ d # NoCall
    BY <1>1, <1>3, <1>4, <1>6, <2>1, <2>2, NoCallAssumption DEF InCall
  <2> QED  BY <1>1, <1>7, <2>2, <2>3 DEF Promised
<1>10. CASE k = PendingKey(e) /\ answer[e] # NoCall
  <2>1. c # e
    BY <1>3, <1>4, <1>10, NoCallAssumption DEF PendingInv
  <2>2. answer'[e] = answer[e]
    BY <1>1, <1>4, <2>1
  <2> QED  BY <1>1, <1>7, <1>10, <2>2 DEF Promised
<1>11. CASE k # PendingKey(e)
  <2>1. c # e
    BY <1>3, <1>4, <1>11, NoCallAssumption DEF PendingInv
  <2>2. answer'[e] = answer[e] /\ pending'[PendingKey(e)] = pending[PendingKey(e)]
    BY <1>1, <1>4, <1>11, <2>1
  <2>3. Head(port).call # e \/ Head(port).code # Expected(e)
    BY <1>11 DEF PendingKey
  <2>4. InPort(e) => InPort(e)'
    BY <1>1, <1>4, <2>3, InPortMovesUp
  <2> QED  BY <1>1, <1>4, <1>7, <2>2, <2>4, PromiseKept
<1> QED  BY <1>9, <1>10, <1>11

LEMMA ExpiresPromises ==
  ASSUME GroupInv, PromiseInv, NEW c \in Call, Expires(c)
  PROVE  PromiseInv'
<1> USE DEF GroupInv, TypeOK
<1>1. /\ state[c] = "waiting" /\ outcome[c] = Open
      /\ outcome' = [outcome EXCEPT ![c] = Timeout]
      /\ pending' = [pending EXCEPT ![PendingKey(c)] = NoCall]
      /\ UNCHANGED <<state, answer, disposed, port, served, lost, alone>>
  BY DEF Expires, InCall, ecus
<1> SUFFICES ASSUME NEW e \in alone', outcome'[e] = Open PROVE Promised(e)'
  BY DEF PromiseInv
<1>2. e \in Call /\ e \in alone /\ e # c /\ outcome[e] = Open
  BY <1>1, Outcomes
<1>3. Promised(e)
  BY <1>2 DEF PromiseInv
(* c is no rival of e: it is still open.                                   *)
<1>4. c \notin Rivals(e)
  <2>1. Reply(c) # Open
    BY Outcomes
  <2> QED  BY <1>1, <1>2, <2>1 DEF AloneInv, Settled
<1>5. PendingKey(e) # PendingKey(c) /\ PendingKey(e) \in Key
  BY <1>2, <1>4, PendingKeys DEF PendingKey
<1>6. InPort(e) => InPort(e)'
  BY <1>1 DEF InPort, Expected
<1> QED  BY <1>1, <1>2, <1>3, <1>5, <1>6, PromiseKept

LEMMA DisposePromises ==
  ASSUME GroupInv, PromiseInv, Dispose
  PROVE  PromiseInv'
<1> USE DEF GroupInv, TypeOK
<1>1. /\ outcome' = [c \in Call |-> IF c \in Ended THEN Disposed ELSE outcome[c]]
      /\ UNCHANGED <<state, alone>>
  BY DEF Dispose
<1> SUFFICES ASSUME NEW e \in alone', outcome'[e] = Open PROVE FALSE
  BY DEF PromiseInv
<1>2. e \in Call /\ e \in alone /\ e \notin Ended /\ outcome[e] = Open
  BY <1>1, Outcomes
<1>3. state[e] \in {"sending", "waiting"} /\ Promised(e)
  BY <1>2 DEF PromiseInv, IdleInv
<1> QED  BY <1>2, <1>3 DEF Ended, InCall, Promised

LEMMA PromiseStep ==
  GroupInv /\ PromiseInv /\ [Next]_vars => PromiseInv'
<1> SUFFICES ASSUME GroupInv, PromiseInv, [Next]_vars PROVE PromiseInv'
  OBVIOUS
<1>1. ASSUME NEW c \in Call, StartHeard(c) PROVE PromiseInv'
  <2>1. /\ Start(c, "ok") /\ served' = [served EXCEPT ![c] = "held"]
        /\ lost \subseteq lost'
    BY <1>1 DEF StartHeard
  <2> QED  BY <2>1, StartPromises
<1>2. ASSUME NEW c \in Call, StartLost(c) PROVE PromiseInv'
  <2>1. Start(c, "ok") /\ served' = served /\ lost \subseteq lost'
    BY <1>2 DEF StartLost
  <2> QED  BY <2>1, StartPromises
<1>3. ASSUME NEW c \in Call, StartFails(c) PROVE PromiseInv'
  <2>1. Start(c, "failed") /\ served' = served /\ lost \subseteq lost'
    BY <1>3 DEF StartFails, ecus
  <2> QED  BY <2>1, StartPromises
<1>4. CASE NativeReturns \/ UNCHANGED vars
  <2>1. /\ UNCHANGED <<state, outcome, answer, pending, disposed, served, lost, alone>>
        /\ port' = port \/ (native # NoEvent /\ port' = Append(port, native))
    BY <1>4 DEF NativeReturns, vars, client, ecus
  <2> SUFFICES ASSUME NEW e \in alone', outcome'[e] = Open PROVE Promised(e)'
    BY DEF PromiseInv
  <2>2. e \in Call /\ Promised(e)
    BY <2>1 DEF PromiseInv, GroupInv, TypeOK
  <2>3. port \in Seq(Event) /\ (native # NoEvent => native \in Event)
    BY DEF GroupInv, TypeOK
  <2>4. \A i \in DOMAIN port : i \in DOMAIN port' /\ port'[i] = port[i]
    BY <2>1, <2>3
  <2>5. InPort(e) => InPort(e)'
    BY <2>4 DEF InPort, Expected
  <2> QED  BY <2>1, <2>2, <2>5, PromiseKept
<1> QED  BY <1>1, <1>2, <1>3, <1>4, AnswersPromises, AnswerLostPromises,
            OnSentPromises, OnReplyPromises, ExpiresPromises, DisposePromises
         DEF Next, Isolate

LEMMA PromiseInvariant ==
  Spec => [](GroupInv /\ PromiseInv)
<1>1. Init => PromiseInv
  BY DEF Init, PromiseInv
<1> QED  BY <1>1, GroupInit, GroupStep, PromiseStep, PTL DEF Spec

(* No step but the timeout of its own call makes a call time out.          *)
LEMMA OnlyOwnTimeout ==
  ASSUME GroupInv, [Next]_vars, NEW c \in Call,
         outcome[c] = Open, outcome'[c] = Timeout
  PROVE  Expires(c)
<1> USE DEF GroupInv, TypeOK
<1>1. Timeout # Open /\ Timeout # Failed /\ Timeout # Disposed
      /\ \A x : Timeout # Reply(x)
  BY DEF Timeout, Open, Failed, Disposed, Reply
<1>2. outcome' # outcome
  BY <1>1
<1>3. ASSUME NEW d \in Call,
             \/ StartHeard(d) \/ StartLost(d) \/ StartFails(d)
             \/ \E how \in Answer : Answers(d, how) \/ AnswerLost(d, how)
      PROVE  FALSE
  BY <1>2, <1>3 DEF StartHeard, StartLost, StartFails, Start, Answers, AnswerLost, client
<1>4. ~NativeReturns /\ ~UNCHANGED vars
  BY <1>2 DEF NativeReturns, vars, client
<1>5. ~OnSent
  BY <1>1 DEF OnSent
<1>6. ~OnReply
  BY <1>1 DEF OnReply
<1>7. ~Dispose
  BY <1>1 DEF Dispose
<1>8. ASSUME NEW d \in Call, Expires(d) PROVE d = c
  BY <1>1, <1>8 DEF Expires
<1> QED  BY <1>3, <1>4, <1>5, <1>6, <1>7, <1>8 DEF Next, Isolate

(* The request of readFields() or writeFields() is answered by one Fast    *)
(* Packet message, so where nothing was lost and no other call shares the  *)
(* key, the fields an ECU sent are taken before the 2 s timer of their     *)
(* call runs out: they stand in the port until then, and the call stays    *)
(* registered under the key that the code of the reply spells.             *)
THEOREM FieldsAreReceived ==
  Spec => FieldsReplyArrives
<1>1. ASSUME GroupInv, PromiseInv, [Next]_vars, NEW c \in alone,
             Kind[c] # "command", outcome[c] = Open, outcome'[c] = Timeout
      PROVE  ~(served[c] = "fields" /\ c \notin lost)
  <2>1. c \in Call
    BY <1>1 DEF GroupInv, TypeOK
  <2>2. Expires(c)
    BY <1>1, <2>1, OnlyOwnTimeout
  <2>3. state[c] = "waiting" /\ ~InPort(c)
    BY <2>2 DEF Expires, InCall, InPort
  <2> QED  BY <1>1, <2>3 DEF PromiseInv, Promised
<1>2. GroupInv /\ PromiseInv /\ [Next]_vars =>
        [\A c \in alone :
           Kind[c] # "command" /\ outcome[c] = Open /\ outcome'[c] = Timeout
             => ~(served[c] = "fields" /\ c \notin lost)]_vars
  BY <1>1
<1> QED  BY <1>2, PromiseInvariant, PTL DEF Spec, FieldsReplyArrives
=============================================================================
