--------------------------- MODULE DiscoveryProofs ---------------------------
(***************************************************************************)
(* Proofs about Discovery, for any number of devices and plugs, any        *)
(* timeouts, any requests and any number of losses.                        *)
(***************************************************************************)
EXTENDS Discovery, FiniteSetTheorems, TLAPS

Statuses == {"unknown", "online", "offline"}

(* What ports hold: no heartbeat, as none arrives. *)
Msg ==
  [pgn : {"request", "data", "nak", "product", "list"}, from : Node,
   about : {"none", "other", "product", "list"}, unit : Nat]

(* An entry of _devices. *)
Entry ==
  [status : Statuses, silence : 0 .. RemoveTimeout + 1, product : Nat, list : Nat]

(* Types, by who changes them. *)
NodeTyped ==
  /\ up \in [Node -> {"off", "on"}] /\ up[Watcher] = "on"
  /\ unit \in [Node -> Nat] /\ \A n \in Device : unit[n] <= MaxPlugs[n]
  /\ beat \in [Device -> 0 .. Period]
  /\ away \in [Device -> Nat]

PortTyped == port \in [Node -> Seq(Msg)]

RegistryTyped ==
  /\ device \in [Device -> Entry]
  /\ asking \subseteq Device /\ checked \in BOOLEAN
  /\ view \in [Device -> Statuses \cup {"confused"}]

HistoryTyped ==
  /\ missed \in [Device -> BOOLEAN] /\ skipped \in [Talker -> BOOLEAN]
  /\ met \in [Device -> Nat]

BoundsTyped == requests \in 0 .. MaxRequests /\ losses \in 0 .. MaxLosses

Typed == NodeTyped /\ PortTyped /\ RegistryTyped /\ HistoryTyped /\ BoundsTyped

-----------------------------------------------------------------------------
(* Who is off is asked nothing, and nobody hears itself. *)
PortsApart ==
  /\ \A n \in Device : up[n] = "off" => port[n] = <<>>
  /\ \A n \in Node : \A i \in DOMAIN port[n] : port[n][i].from # n

(* What comes to the registry is from no device yet to come, from none     *)
(* before the address became known, and from none that left before this    *)
(* unit; of an address, the devices come one after the other.              *)
InTime ==
  {m \in Msg :
     /\ m.from \in Device
     /\ m.unit <= unit[m.from]
     /\ Known(m.from) => met[m.from] <= m.unit
     /\ up[m.from] = "off" => away[m.from] = 0}

InOrder(queue) ==
  \A i, j \in DOMAIN queue :
    i <= j /\ queue[i].from = queue[j].from => queue[i].unit <= queue[j].unit

Arriving ==
  /\ InOrder(port[Watcher])
  /\ \A i \in DOMAIN port[Watcher] : port[Watcher][i] \in InTime

(* The entry of a device is from its own time at the address. *)
EntryInv ==
  \A n \in Device :
    /\ ~Known(n) => device[n].product = 0 /\ device[n].list = 0
    /\ Known(n) =>
         /\ met[n] <= unit[n]
         /\ device[n].product \in {0} \cup met[n] .. unit[n]
         /\ device[n].list \in {0} \cup met[n] .. unit[n]
    /\ n \in asking => Known(n) /\ device[n].silence = 0

(* The registry has not heard a device since it left. *)
AwayInv ==
  \A n \in Device : up[n] = "off" =>
    /\ Known(n) => \/ away[n] = 0
                   \/ device[n].silence >= away[n]
                   \/ device[n].silence > RemoveTimeout
    /\ checked /\ away[n] > OfflineTimeout => device[n].status # "online"
    /\ checked /\ away[n] > RemoveTimeout => ~Known(n)

(* A message of the device at n is in the registry's port. *)
Comes(n, pgns) ==
  \E i \in DOMAIN port[Watcher] :
    /\ port[Watcher][i].from = n /\ port[Watcher][i].unit = unit[n]
    /\ port[Watcher][i].pgn \in pgns

AnyPgn == {"request", "data", "nak", "product", "list"}

(* Since the registry heard a talker, the heartbeat timer has run as long. *)
TalkInv ==
  \A n \in Talker : up[n] = "on" /\ ~skipped[n] =>
    /\ device[n].status = "online"
    /\ \/ device[n].silence + beat[n] <= Period
       \/ device[n].silence <= Period /\ Comes(n, AnyPgn)

(* The device at n is being asked. *)
Asked(n, about) == \E i \in DOMAIN port[n] : port[n][i].about = about

(* What is not known of a device is on its way to be known. *)
AnswersInv ==
  \A n \in Device :
    Known(n) /\ ~missed[n] /\ unit[n] = met[n] /\ up[n] = "on" =>
      /\ \/ device[n].product = unit[n]
         \/ Comes(n, {"product"}) \/ Asked(n, "product")
      /\ \/ device[n].list = unit[n]
         \/ Comes(n, {"list"}) \/ Asked(n, "list") \/ n \in asking

Inv ==
  /\ Typed /\ PortsApart /\ Arriving /\ EntryInv /\ ListenerFollows
  /\ AwayInv /\ TalkInv /\ AnswersInv

-----------------------------------------------------------------------------
(* Sequences that grow at the end and shrink at the front. *)
LEMMA AppendFact ==
  ASSUME NEW S, NEW s \in Seq(S), NEW x \in S
  PROVE  /\ Append(s, x) \in Seq(S)
         /\ Len(s) \in Nat /\ DOMAIN s = 1 .. Len(s)
         /\ DOMAIN Append(s, x) = 1 .. Len(s) + 1
         /\ \A i \in 1 .. Len(s) : Append(s, x)[i] = s[i]
         /\ Append(s, x)[Len(s) + 1] = x
  BY SMT

LEMMA TailFact ==
  ASSUME NEW S, NEW s \in Seq(S), s # <<>>
  PROVE  /\ Tail(s) \in Seq(S)
         /\ Len(s) \in Nat \ {0} /\ DOMAIN s = 1 .. Len(s)
         /\ DOMAIN Tail(s) = 1 .. Len(s) - 1
         /\ \A i \in 1 .. Len(s) - 1 : Tail(s)[i] = s[i + 1]
         /\ Head(s) = s[1] /\ Head(s) \in S
  BY SMT

(* Of a message only what arrives is posted, to those who listen.          *)
LEMMA PostedFact ==
  ASSUME NEW p \in [Node -> Seq(Msg)], NEW m, Arrives(m) => m \in Msg, NEW lost
  PROVE  /\ Posted(p, m, lost) \in [Node -> Seq(Msg)]
         /\ \A k \in Node :
              \/ Posted(p, m, lost)[k] = p[k] /\ ~(Arrives(m) /\ Listens(k, m) /\ k \notin lost)
              \/ /\ Posted(p, m, lost)[k] = Append(p[k], m)
                 /\ Arrives(m) /\ Listens(k, m) /\ k \notin lost
<1>1. \A k \in Node : p[k] \in Seq(Msg)
  OBVIOUS
<1>2. ASSUME NEW k \in Node, Arrives(m)
      PROVE  Append(p[k], m) \in Seq(Msg)
  BY <1>1, <1>2, AppendFact
<1>. QED  BY <1>1, <1>2 DEF Posted

LEMMA TakenFact ==
  ASSUME PortTyped, NEW n \in Node, port[n] # <<>>
  PROVE  /\ Taken(n) \in [Node -> Seq(Msg)]
         /\ Taken(n)[n] = Tail(port[n])
         /\ \A k \in Node \ {n} : Taken(n)[k] = port[k]
         /\ Head(port[n]) \in Msg /\ Head(port[n]) = port[n][1]
<1>1. port[n] \in Seq(Msg)
  BY DEF PortTyped
<1>2. Tail(port[n]) \in Seq(Msg) /\ Head(port[n]) \in Msg /\ Head(port[n]) = port[n][1]
  BY <1>1, TailFact
<1>. QED  BY <1>2 DEF Taken, PortTyped

LEMMA MessageFact ==
  ASSUME NodeTyped, NEW n \in Node, NEW pgn, NEW about
  PROVE  LET m == Message(pgn, n, about) IN
         /\ m.pgn = pgn /\ m.from = n /\ m.about = about /\ m.unit = unit[n]
         /\ (Arrives(m) <=> pgn \notin {"heartbeat"})
         /\ pgn \in AnyPgn /\ about \in {"none", "other", "product", "list"} => m \in Msg
  BY DEF Message, Arrives, Short, FastPacketPgns, Msg, AnyPgn, NodeTyped

(* The losses that are counted stay in their bound. *)
LEMMA LossFact ==
  ASSUME BoundsTyped, NEW lost \in SUBSET Node, losses + Cardinality(lost) <= MaxLosses,
         losses' = losses + Cardinality(lost)
  PROVE  losses' \in 0 .. MaxLosses
<1>1. Cardinality(lost) \in Nat
  BY NodeAssumption, FS_Subset, FS_CardinalityType
<1>. QED  BY <1>1, BoundAssumption DEF BoundsTyped

-----------------------------------------------------------------------------
LEMMA InitInv == Init => Inv
<1> SUFFICES ASSUME Init PROVE Inv
  OBVIOUS
<1>1. Typed
  <2>1. NodeTyped
    BY NodeAssumption, TimeAssumption, BoundAssumption DEF Init, NodeTyped, Device
  <2>2. port \in [Node -> Seq(Msg)]
    BY DEF Init
  <2>3. RegistryTyped
    <3>1. Absent \in Entry
      BY TimeAssumption DEF Entry, Absent, Statuses
    <3>. QED  BY <3>1 DEF Init, RegistryTyped, Statuses
  <2>4. HistoryTyped /\ BoundsTyped
    BY BoundAssumption DEF Init, HistoryTyped, BoundsTyped
  <2>. QED  BY <2>1, <2>2, <2>3, <2>4 DEF Typed, PortTyped
<1>2. \A n \in Node : port[n] = <<>> /\ DOMAIN port[n] = {}
  BY DEF Init
<1>3. \A n \in Device : ~Known(n) /\ device[n] = Absent
  BY DEF Init, Known, Absent
<1>4. PortsApart /\ Arriving
  BY <1>2, NodeAssumption DEF PortsApart, Arriving, InOrder, Device
<1>5. EntryInv /\ ListenerFollows /\ AwayInv /\ AnswersInv
  BY <1>3, TimeAssumption
  DEF Init, EntryInv, ListenerFollows, AwayInv, AnswersInv, Absent
<1>6. TalkInv
  BY NodeAssumption DEF Init, TalkInv, Device
<1>. QED  BY <1>1, <1>4, <1>5, <1>6 DEF Inv

-----------------------------------------------------------------------------
(* Types. *)

LEMMA ToldFact == \A v, first, second : ToldBoth(v, first, second) \in Statuses \cup {"confused", v}
  BY DEF ToldBoth, Told, Statuses

(* Entries that were heard, or written down anew. *)
LEMMA InfoFact ==
  ASSUME NEW h \in Entry, NEW m, m.unit \in Nat
  PROVE  /\ WithInfo(h, m) \in Entry
         /\ WithInfo(h, m).status = h.status /\ WithInfo(h, m).silence = h.silence
         /\ WithInfo(h, m).product = IF m.pgn = "product" THEN m.unit ELSE h.product
         /\ WithInfo(h, m).list = IF m.pgn = "list" THEN m.unit ELSE h.list
<1>1. CASE m.pgn = "product"
  BY <1>1 DEF WithInfo, Entry
<1>2. CASE m.pgn = "list"
  BY <1>2 DEF WithInfo, Entry
<1>3. CASE m.pgn # "product" /\ m.pgn # "list"
  BY <1>3 DEF WithInfo, Entry
<1>. QED  BY <1>1, <1>2, <1>3

LEMMA EntryFact ==
  ASSUME NEW d \in Entry, NEW m, m.unit \in Nat
  PROVE  /\ WithInfo(Heard(d), m) \in Entry
         /\ WithInfo(Heard(d), m).status = "online" /\ WithInfo(Heard(d), m).silence = 0
         /\ WithInfo(Heard(d), m).product = IF m.pgn = "product" THEN m.unit ELSE d.product
         /\ WithInfo(Heard(d), m).list = IF m.pgn = "list" THEN m.unit ELSE d.list
<1>1. 0 \in 0 .. RemoveTimeout + 1
  BY TimeAssumption
<1>2. /\ Heard(d) \in Entry /\ Heard(d).status = "online" /\ Heard(d).silence = 0
      /\ Heard(d).product = d.product /\ Heard(d).list = d.list
  BY <1>1 DEF Heard, Entry, Statuses
<1>. QED  BY <1>2, InfoFact

(* A step that sends. *)
LEMMA SendTyped ==
  ASSUME Typed, NEW n \in Node, NEW pgn \in AnyPgn \cup {"heartbeat"},
         NEW about \in {"none", "other", "product", "list"}, NEW to, NEW lost \in SUBSET Node,
         NEW p \in [Node -> Seq(Msg)],
         Send(Message(pgn, n, about), to, lost), port' = Posted(p, Message(pgn, n, about), lost),
         met' = met
  PROVE  PortTyped' /\ HistoryTyped' /\ losses' \in 0 .. MaxLosses
<1>1. PortTyped'
  BY MessageFact, PostedFact DEF Typed, PortTyped
<1>2. HistoryTyped'
  BY DEF Typed, HistoryTyped, Send
<1>3. losses' \in 0 .. MaxLosses
  BY LossFact DEF Typed, Send
<1>. QED  BY <1>1, <1>2, <1>3

LEMMA HeartbeatTyped ==
  ASSUME Typed, NEW n \in Device, Heartbeat(n) PROVE Typed'
<1>1. n \in Node
  BY DEF Device
<1>2. PICK lost \in SUBSET {Watcher} :
        LET m == Message(IF n \in Talker THEN "data" ELSE "heartbeat", n, "none") IN
          Send(m, Everyone, lost) /\ port' = Posted(port, m, lost)
  BY DEF Heartbeat
<1>3. lost \in SUBSET Node
  BY NodeAssumption
<1>4. PortTyped' /\ HistoryTyped' /\ losses' \in 0 .. MaxLosses
  <2>1. met' = met /\ port \in [Node -> Seq(Msg)]
    BY DEF Heartbeat, Typed, PortTyped
  <2>. QED  BY <1>1, <1>2, <1>3, <2>1, SendTyped DEF AnyPgn
<1>5. NodeTyped' /\ RegistryTyped'
  BY TimeAssumption DEF Heartbeat, Typed, NodeTyped, RegistryTyped, registry
<1>. QED  BY <1>4, <1>5 DEF Typed, BoundsTyped, Heartbeat

LEMMA RequestTyped ==
  ASSUME Typed, NEW r \in Request, SendRequest(r) PROVE Typed'
<1>1. r.from \in Node /\ r.about \in {"product", "other"}
  BY RequestAssumption
<1>2. PICK lost \in SUBSET Node :
        LET m == Message("request", r.from, r.about) IN
          Send(m, r.to, lost) /\ port' = Posted(port, m, lost)
  BY DEF SendRequest
<1>3. PortTyped' /\ HistoryTyped' /\ losses' \in 0 .. MaxLosses
  <2>1. met' = met /\ port \in [Node -> Seq(Msg)]
    BY DEF SendRequest, Typed, PortTyped
  <2>. QED  BY <1>1, <1>2, <2>1, SendTyped DEF AnyPgn
<1>4. NodeTyped' /\ RegistryTyped'
  BY DEF SendRequest, Typed, NodeTyped, RegistryTyped, registry, node
<1>5. requests' \in 0 .. MaxRequests
  BY BoundAssumption DEF SendRequest, Typed, BoundsTyped
<1>. QED  BY <1>3, <1>4, <1>5 DEF Typed, BoundsTyped

LEMMA AnswerFact ==
  ASSUME Typed, NEW n \in Node, NEW m \in Msg
  PROVE  \E pgn \in AnyPgn, about \in {"none", "other", "product", "list"} :
           /\ Answer(n, m) = Message(pgn, n, about)
           /\ pgn = IF m.about \in {"product", "list"} THEN m.about ELSE "nak"
<1>1. m.about \in {"none", "other", "product", "list"}
  BY DEF Msg
<1>2. CASE m.about \in {"product", "list"}
  <2>1. Answer(n, m) = Message(m.about, n, "none") /\ m.about \in AnyPgn
    BY <1>2 DEF Answer, AnyPgn
  <2>. QED  BY <1>2, <2>1
<1>3. CASE ~(m.about \in {"product", "list"})
  <2>1. Answer(n, m) = Message("nak", n, m.about) /\ "nak" \in AnyPgn
    BY <1>3 DEF Answer, AnyPgn
  <2>. QED  BY <1>1, <1>3, <2>1
<1>. QED  BY <1>2, <1>3

LEMMA IsoTyped ==
  ASSUME Typed, NEW n \in Device, HandleIsoRequest(n) PROVE Typed'
<1>1. n \in Node /\ port[n] # <<>> /\ PortTyped
  BY DEF Device, HandleIsoRequest, Typed
<1>2. Taken(n) \in [Node -> Seq(Msg)] /\ Head(port[n]) \in Msg
  BY <1>1, TakenFact
<1>3. PICK lost \in SUBSET {Watcher} :
        LET m == Answer(n, Head(port[n])) IN
          Send(m, Everyone, lost) /\ port' = Posted(Taken(n), m, lost)
  BY DEF HandleIsoRequest
<1>4. PICK pgn \in AnyPgn, about \in {"none", "other", "product", "list"} :
        Answer(n, Head(port[n])) = Message(pgn, n, about)
  BY <1>1, <1>2, AnswerFact
<1>5. lost \in SUBSET Node /\ met' = met
  BY NodeAssumption DEF HandleIsoRequest
<1>6. PortTyped' /\ HistoryTyped' /\ losses' \in 0 .. MaxLosses
  BY <1>1, <1>2, <1>3, <1>4, <1>5, SendTyped
<1>7. NodeTyped' /\ RegistryTyped'
  BY DEF HandleIsoRequest, Typed, NodeTyped, RegistryTyped, registry, node
<1>. QED  BY <1>6, <1>7 DEF Typed, BoundsTyped, HandleIsoRequest

LEMMA AskTyped ==
  ASSUME Typed, NEW n \in Device, AskForList(n) PROVE Typed'
<1>1. PICK lost \in SUBSET Device :
        LET m == Message("request", Watcher, "list") IN
          Send(m, n, lost) /\ port' = Posted(port, m, lost)
  BY DEF AskForList
<1>2. lost \in SUBSET Node /\ met' = met /\ Watcher \in Node /\ port \in [Node -> Seq(Msg)]
  BY NodeAssumption DEF AskForList, Device, Typed, PortTyped
<1>3. PortTyped' /\ HistoryTyped' /\ losses' \in 0 .. MaxLosses
  BY <1>1, <1>2, SendTyped DEF AnyPgn
<1>4. NodeTyped' /\ RegistryTyped'
  BY DEF AskForList, Typed, NodeTyped, RegistryTyped, node
<1>. QED  BY <1>3, <1>4 DEF Typed, BoundsTyped, AskForList

(* The registry takes the first message of its port. *)
Heads == Head(port[Watcher])

LEMMA HeadFact ==
  ASSUME Typed, PortsApart, port[Watcher] # <<>>
  PROVE  /\ Heads \in Msg /\ Heads = port[Watcher][1] /\ Heads.from \in Device
         /\ port[Watcher] \in Seq(Msg) /\ 1 \in DOMAIN port[Watcher]
<1>1. Watcher \in Node /\ port[Watcher] \in Seq(Msg)
  BY NodeAssumption DEF Typed, PortTyped
<1>2. Heads \in Msg /\ Heads = port[Watcher][1] /\ 1 \in DOMAIN port[Watcher]
  BY <1>1, TailFact DEF Heads
<1>3. Heads.from \in Node /\ Heads.from # Watcher
  BY <1>1, <1>2 DEF PortsApart, Msg
<1>. QED  BY <1>1, <1>2, <1>3 DEF Device

(* What both kinds of hearing do: the entry, the events, the port. *)
LEMMA HearFact ==
  ASSUME Typed, PortsApart, HearKnown \/ HearNew
  PROVE  LET m == Heads
             n == m.from
         IN  /\ port[Watcher] # <<>>
             /\ device' \in [Device -> Entry]
             /\ \A k \in Device \ {n} : device'[k] = device[k]
             /\ device'[n].status = "online" /\ device'[n].silence = 0
             /\ device'[n].product = IF m.pgn = "product" THEN m.unit ELSE device[n].product
             /\ device'[n].list = IF m.pgn = "list" THEN m.unit ELSE device[n].list
             /\ view' = [view EXCEPT ![n] = ToldBoth(view[n], Presence(device[n]), News(m))]
             /\ skipped' = [t \in Talker |-> skipped[t] /\ (t # n \/ m.unit # unit[n])]
             /\ UNCHANGED <<node, checked, requests>>
<1>. DEFINE n == Heads.from
<1>1. port[Watcher] # <<>>
  BY DEF HearKnown, HearNew
<1>2. Heads \in Msg /\ n \in Device /\ Heads.unit \in Nat
  BY <1>1, HeadFact DEF Msg
<1>3. device' = [device EXCEPT ![n] = WithInfo(Heard(device[n]), Heads)]
  BY DEF HearKnown, HearNew, Heads
<1>4. device \in [Device -> Entry]
  BY DEF Typed, RegistryTyped
<1>5. /\ device' \in [Device -> Entry]
      /\ \A k \in Device \ {n} : device'[k] = device[k]
      /\ device'[n] = WithInfo(Heard(device[n]), Heads)
  BY <1>2, <1>3, <1>4, EntryFact
<1>6. /\ device'[n].status = "online" /\ device'[n].silence = 0
      /\ device'[n].product = IF Heads.pgn = "product" THEN Heads.unit ELSE device[n].product
      /\ device'[n].list = IF Heads.pgn = "list" THEN Heads.unit ELSE device[n].list
  BY <1>2, <1>4, <1>5, EntryFact
<1>7. view' = [view EXCEPT ![n] = ToldBoth(view[n], Presence(device[n]), News(Heads))]
  BY DEF HearKnown, HearNew, Heads, Tell
<1>8. skipped' = [t \in Talker |-> skipped[t] /\ (t # n \/ Heads.unit # unit[n])]
  BY DEF HearKnown, HearNew, Heads
<1>9. UNCHANGED <<node, checked, requests>>
  BY DEF HearKnown, HearNew, bounds
<1>. QED  BY <1>1, <1>5, <1>6, <1>7, <1>8, <1>9

Ask == Message("request", Watcher, "product")

LEMMA AskFact ==
  ASSUME Typed
  PROVE  Ask \in Msg /\ Arrives(Ask) /\ Ask.from = Watcher /\ Ask.about = "product"
  BY NodeAssumption, MessageFact DEF Ask, Typed, AnyPgn

(* ... and to the ports: only who is on is asked. *)
LEMMA HearPorts ==
  ASSUME Typed, PortsApart, HearKnown \/ HearNew
  PROVE  /\ PortTyped' /\ port'[Watcher] = Tail(port[Watcher])
         /\ \A k \in Device :
              port'[k] = port[k] \/ (port'[k] = Append(port[k], Ask) /\ up[k] = "on")
<1>1. Watcher \in Node /\ port[Watcher] # <<>> /\ PortTyped
  BY NodeAssumption DEF HearKnown, HearNew, Typed
<1>2. /\ Taken(Watcher) \in [Node -> Seq(Msg)] /\ Taken(Watcher)[Watcher] = Tail(port[Watcher])
      /\ \A k \in Node \ {Watcher} : Taken(Watcher)[k] = port[k]
  BY <1>1, TakenFact
<1>3. CASE port' = Taken(Watcher)
  BY <1>2, <1>3 DEF PortTyped, Device
<1>4. CASE \E lost \in SUBSET Device : port' = Posted(Taken(Watcher), Ask, lost)
  <2>1. PICK lost \in SUBSET Device : port' = Posted(Taken(Watcher), Ask, lost)
    BY <1>4
  <2>2. /\ port' \in [Node -> Seq(Msg)]
        /\ \A k \in Node :
             port'[k] = Taken(Watcher)[k]
               \/ (port'[k] = Append(Taken(Watcher)[k], Ask) /\ Listens(k, Ask))
    BY <1>2, <2>1, AskFact, PostedFact
  <2>3. ~Listens(Watcher, Ask) /\ \A k \in Device : Listens(k, Ask) => up[k] = "on"
    BY AskFact DEF Listens
  <2>. QED  BY <1>1, <1>2, <2>2, <2>3 DEF PortTyped, Device
<1>. QED  BY <1>3, <1>4 DEF HearKnown, HearNew, Ask

LEMMA HearTyped ==
  ASSUME Typed, PortsApart, HearKnown \/ HearNew PROVE Typed'
<1>. DEFINE n == Heads.from
<1>1. Heads \in Msg /\ n \in Device
  BY HeadFact, HearFact
<1>2. PortTyped' /\ NodeTyped'
  BY HearPorts, HearFact DEF Typed, NodeTyped, node
<1>3. RegistryTyped'
  <2>1. view[n] \in Statuses \cup {"confused"}
    BY <1>1 DEF Typed, RegistryTyped
  <2>2. view' \in [Device -> Statuses \cup {"confused"}]
    BY <1>1, <2>1, HearFact, ToldFact DEF Typed, RegistryTyped
  <2>3. asking' \subseteq Device
    BY <1>1 DEF HearKnown, HearNew, Heads, Typed, RegistryTyped
  <2>4. device' \in [Device -> Entry] /\ checked' \in BOOLEAN
    BY HearFact DEF Typed, RegistryTyped
  <2>. QED  BY <2>2, <2>3, <2>4 DEF RegistryTyped
<1>4. HistoryTyped'
  <2>1. Heads.unit \in Nat
    BY <1>1 DEF Msg
  <2>2. missed' \in [Device -> BOOLEAN] /\ met' \in [Device -> Nat]
    BY <1>1, <2>1 DEF HearKnown, HearNew, Heads, Typed, HistoryTyped
  <2>3. skipped' \in [Talker -> BOOLEAN]
    BY HearFact DEF Typed, HistoryTyped
  <2>. QED  BY <2>2, <2>3 DEF HistoryTyped
<1>5. BoundsTyped'
  <2>1. CASE UNCHANGED <<requests, losses>>
    BY <2>1 DEF Typed, BoundsTyped
  <2>2. CASE \E lost \in SUBSET Device :
               losses + Cardinality(lost) <= MaxLosses /\ losses' = losses + Cardinality(lost)
    <3>1. losses' \in 0 .. MaxLosses
      BY <2>2, LossFact DEF Typed, Device
    <3>2. UNCHANGED requests
      BY HearFact
    <3>. QED  BY <3>1, <3>2 DEF Typed, BoundsTyped
  <2>3. UNCHANGED requests
    BY HearFact
  <2>. QED  BY <2>1, <2>2, <2>3 DEF HearKnown, HearNew, bounds
<1>. QED  BY <1>2, <1>3, <1>4, <1>5 DEF Typed

LEMMA CheckTyped ==
  ASSUME Typed, CheckTimeouts PROVE Typed'
<1>1. UNCHANGED <<node, port, asking, skipped, bounds>> /\ checked' = TRUE
  BY DEF CheckTimeouts
<1>2. PICK over \in SUBSET Device, gone \in SUBSET Device :
        /\ device' = [n \in Device |->
             IF n \in gone THEN Removed(device[n])
             ELSE IF n \in over THEN [device[n] EXCEPT !.status = "offline"]
             ELSE device[n]]
        /\ view' = [n \in Device |->
             ToldBoth(view[n],
               IF n \in over /\ device[n].status = "online" THEN "wentOffline" ELSE "none",
               IF n \in gone THEN "disappeared" ELSE "none")]
        /\ met' = [n \in Device |-> IF n \in gone THEN 0 ELSE met[n]]
        /\ missed' = [n \in Device |-> missed[n] /\ n \notin gone]
  BY DEF CheckTimeouts
<1>3. Absent \in Entry /\ \A d \in Entry : [d EXCEPT !.status = "offline"] \in Entry
  BY TimeAssumption DEF Absent, Entry, Statuses
<1>4. device' \in [Device -> Entry]
  <2>1. \A n \in Device : device[n] \in Entry
    BY DEF Typed, RegistryTyped
  <2>. QED  BY <1>2, <1>3, <2>1 DEF Removed
<1>5. view' \in [Device -> Statuses \cup {"confused"}]
  <2>1. \A n \in Device : view[n] \in Statuses \cup {"confused"}
    BY DEF Typed, RegistryTyped
  <2>. QED  BY <1>2, <2>1, ToldFact
<1>6. RegistryTyped' /\ HistoryTyped'
  BY <1>1, <1>2, <1>4, <1>5 DEF Typed, RegistryTyped, HistoryTyped
<1>. QED  BY <1>1, <1>6 DEF Typed, NodeTyped, PortTyped, BoundsTyped, node, bounds

LEMMA TickTyped ==
  ASSUME Typed, Tick PROVE Typed'
<1>1. UNCHANGED <<up, unit, port, asking, view, history, bounds>> /\ checked' = FALSE
  BY DEF Tick
<1>2. \A i \in Nat : \A most \in Nat :
        Later(i, most) \in Nat /\ (i <= most => Later(i, most) <= most)
  BY DEF Later
<1>3. beat' \in [Device -> 0 .. Period]
  BY TimeAssumption DEF Tick, AllDone, Typed, NodeTyped
<1>4. away' \in [Device -> Nat]
  <2>1. \A n \in Device : Later(away[n], RemoveTimeout + 2) \in Nat
    <3>1. RemoveTimeout + 2 \in Nat /\ \A n \in Device : away[n] \in Nat
      BY TimeAssumption DEF Typed, NodeTyped
    <3>. QED  BY <1>2, <3>1
  <2>. QED  BY <2>1 DEF Tick
<1>5. device' \in [Device -> Entry]
  <2>1. \A d \in Entry :
          [d EXCEPT !.silence = Later(d.silence, RemoveTimeout + 1)] \in Entry
    <3>1. \A d \in Entry : Later(d.silence, RemoveTimeout + 1) \in 0 .. RemoveTimeout + 1
      BY <1>2, TimeAssumption DEF Entry
    <3>. QED  BY <3>1 DEF Entry
  <2>2. \A n \in Device : device[n] \in Entry
    BY DEF Typed, RegistryTyped
  <2>3. device' = [n \in Device |->
          IF Known(n)
          THEN [device[n] EXCEPT !.silence = Later(device[n].silence, RemoveTimeout + 1)]
          ELSE device[n]]
    BY DEF Tick
  <2>. QED  BY <2>1, <2>2, <2>3
<1>. QED  BY <1>1, <1>3, <1>4, <1>5
     DEF Typed, NodeTyped, PortTyped, RegistryTyped, HistoryTyped, BoundsTyped, history, bounds

LEMMA PlugTyped ==
  ASSUME Typed, NEW n \in Device, Create(n) \/ Unplug(n) PROVE Typed'
<1>1. n \in Node /\ n # Watcher
  BY DEF Device
<1>2. NodeTyped'
  <2>1. \A k \in Device : k \in Node /\ MaxPlugs[k] \in Nat /\ unit[k] \in Nat
    BY BoundAssumption DEF Device, Typed, NodeTyped
  <2>2. CASE Create(n)
    <3>1. up' \in [Node -> {"off", "on"}] /\ up'[Watcher] = "on"
      BY <1>1, <2>2 DEF Create, Typed, NodeTyped
    <3>2. unit' \in [Node -> Nat] /\ \A k \in Device : unit'[k] <= MaxPlugs[k]
      BY <1>1, <2>1, <2>2 DEF Create, Typed, NodeTyped
    <3>3. beat' \in [Device -> 0 .. Period] /\ away' \in [Device -> Nat]
      BY <2>2, TimeAssumption DEF Create, Typed, NodeTyped
    <3>. QED  BY <3>1, <3>2, <3>3 DEF NodeTyped
  <2>3. CASE Unplug(n)
    BY <1>1, <2>3 DEF Unplug, Typed, NodeTyped
  <2>. QED  BY <2>2, <2>3
<1>3. PortTyped'
  <2>1. <<>> \in Seq(Msg)
    OBVIOUS
  <2>. QED  BY <2>1 DEF Create, Unplug, Typed, PortTyped
<1>4. RegistryTyped' /\ HistoryTyped' /\ BoundsTyped'
  BY DEF Create, Unplug, Typed, RegistryTyped, HistoryTyped, BoundsTyped, registry, history, bounds
<1>. QED  BY <1>2, <1>3, <1>4 DEF Typed

LEMMA NextTyped == Typed /\ PortsApart /\ [Next]_vars => Typed'
<1> SUFFICES ASSUME Typed, PortsApart, [Next]_vars PROVE Typed'
  OBVIOUS
<1>1. CASE UNCHANGED vars
  BY <1>1
  DEF vars, Typed, NodeTyped, PortTyped, RegistryTyped, HistoryTyped, BoundsTyped,
      node, registry, history, bounds
<1>2. CASE Next
  BY <1>2, PlugTyped, HeartbeatTyped, IsoTyped, AskTyped, RequestTyped, HearTyped, CheckTyped,
     TickTyped DEF Next
<1>. QED  BY <1>1, <1>2

-----------------------------------------------------------------------------
(* What is in the ports. *)

(* The steps that only send. *)
Sends ==
  \/ \E n \in Device : Heartbeat(n) \/ HandleIsoRequest(n) \/ AskForList(n)
  \/ \E r \in Request : SendRequest(r)

(* The same port, or one message more, for somebody who is on and is not   *)
(* its sender, from somebody who is on.                                    *)
Grows(old, new, k) ==
  \/ new = old
  \/ \E m \in Msg :
       /\ new = Append(old, m)
       /\ up[k] = "on" /\ up[m.from] = "on"
       /\ m.from # k /\ m.unit = unit[m.from]

LEMMA PostGrows ==
  ASSUME Typed, NEW n \in Node, up[n] = "on", NEW pgn \in AnyPgn \cup {"heartbeat"},
         NEW about \in {"none", "other", "product", "list"}, NEW lost,
         NEW p \in [Node -> Seq(Msg)], port' = Posted(p, Message(pgn, n, about), lost),
         NEW k \in Node
  PROVE  Grows(p[k], port'[k], k)
<1>. DEFINE m == Message(pgn, n, about)
<1>1. m.from = n /\ m.unit = unit[n] /\ (Arrives(m) => m \in Msg)
  BY MessageFact DEF Typed
<1>2. port'[k] = p[k] \/ (port'[k] = Append(p[k], m) /\ Arrives(m) /\ Listens(k, m))
  BY <1>1, PostedFact
<1>. HIDE DEF m
<1>. QED  BY <1>1, <1>2 DEF Grows, Listens

(* Only the node that answers takes a message from its port. *)
LEMMA SendsFact ==
  ASSUME Typed, PortsApart, Sends
  PROVE  /\ UNCHANGED <<up, unit, away, device, checked, view, met>>
         /\ \A k \in Node :
              \/ Grows(port[k], port'[k], k)
              \/ /\ k \in Device /\ port[k] # <<>> /\ HandleIsoRequest(k)
                 /\ Grows(Tail(port[k]), port'[k], k)
<1>0. port \in [Node -> Seq(Msg)] /\ Watcher \in Node /\ up[Watcher] = "on"
  BY NodeAssumption DEF Typed, PortTyped, NodeTyped
<1>1. ASSUME NEW n \in Device, Heartbeat(n)
      PROVE  /\ UNCHANGED <<up, unit, away, device, checked, view, met>>
             /\ \A k \in Node : Grows(port[k], port'[k], k)
  <2>1. n \in Node /\ up[n] = "on"
    BY <1>1 DEF Heartbeat, Device
  <2>2. PICK lost : LET m == Message(IF n \in Talker THEN "data" ELSE "heartbeat", n, "none") IN
                      port' = Posted(port, m, lost)
    BY <1>1 DEF Heartbeat
  <2>3. (IF n \in Talker THEN "data" ELSE "heartbeat") \in AnyPgn \cup {"heartbeat"}
    BY DEF AnyPgn
  <2>4. \A k \in Node : Grows(port[k], port'[k], k)
    BY <1>0, <2>1, <2>2, <2>3, PostGrows
  <2>. QED  BY <1>1, <2>4 DEF Heartbeat, registry
<1>2. ASSUME NEW n \in Device, AskForList(n)
      PROVE  /\ UNCHANGED <<up, unit, away, device, checked, view, met>>
             /\ \A k \in Node : Grows(port[k], port'[k], k)
  <2>1. PICK lost : port' = Posted(port, Message("request", Watcher, "list"), lost)
    BY <1>2 DEF AskForList
  <2>2. \A k \in Node : Grows(port[k], port'[k], k)
    BY <1>0, <2>1, PostGrows DEF AnyPgn
  <2>. QED  BY <1>2, <2>2 DEF AskForList, node
<1>3. ASSUME NEW r \in Request, SendRequest(r)
      PROVE  /\ UNCHANGED <<up, unit, away, device, checked, view, met>>
             /\ \A k \in Node : Grows(port[k], port'[k], k)
  <2>1. r.from \in Node /\ r.about \in {"product", "other"} /\ up[r.from] = "on"
    BY <1>3, RequestAssumption DEF SendRequest
  <2>2. PICK lost : port' = Posted(port, Message("request", r.from, r.about), lost)
    BY <1>3 DEF SendRequest
  <2>3. \A k \in Node : Grows(port[k], port'[k], k)
    BY <1>0, <2>1, <2>2, PostGrows DEF AnyPgn
  <2>. QED  BY <1>3, <2>3 DEF SendRequest, node, registry
<1>4. ASSUME NEW n \in Device, HandleIsoRequest(n)
      PROVE  /\ UNCHANGED <<up, unit, away, device, checked, view, met>>
             /\ port[n] # <<>> /\ Grows(Tail(port[n]), port'[n], n)
             /\ \A k \in Node \ {n} : Grows(port[k], port'[k], k)
  <2>1. n \in Node /\ port[n] # <<>> /\ up[n] = "on"
    BY <1>4 DEF HandleIsoRequest, Device, PortsApart, Typed, NodeTyped
  <2>2. /\ Taken(n) \in [Node -> Seq(Msg)] /\ Taken(n)[n] = Tail(port[n])
        /\ \A k \in Node \ {n} : Taken(n)[k] = port[k]
        /\ Head(port[n]) \in Msg
    BY <2>1, TakenFact DEF Typed
  <2>3. PICK lost : port' = Posted(Taken(n), Answer(n, Head(port[n])), lost)
    BY <1>4 DEF HandleIsoRequest
  <2>4. PICK pgn \in AnyPgn, about \in {"none", "other", "product", "list"} :
          Answer(n, Head(port[n])) = Message(pgn, n, about)
    BY <2>1, <2>2, AnswerFact
  <2>5. \A k \in Node : Grows(Taken(n)[k], port'[k], k)
    BY <2>1, <2>2, <2>3, <2>4, PostGrows
  <2>6. UNCHANGED <<up, unit, away, device, checked, view, met>>
    BY <1>4 DEF HandleIsoRequest, node, registry
  <2>. QED  BY <2>1, <2>2, <2>5, <2>6
<1>. QED  BY <1>1, <1>2, <1>3, <1>4 DEF Sends

(* Elements of a port that grew or lost its head. *)
LEMMA GrowsFact ==
  ASSUME Typed, NEW k \in Node, NEW old \in Seq(Msg), NEW new, Grows(old, new, k)
  PROVE  /\ Len(old) \in Nat /\ DOMAIN old = 1 .. Len(old)
         /\ \A i \in DOMAIN old : i \in DOMAIN new /\ new[i] = old[i]
         /\ \A i \in DOMAIN new : i \in DOMAIN old \/
              /\ i = Len(old) + 1 /\ up[k] = "on" /\ new[i] \in Msg
              /\ new[i].from # k /\ up[new[i].from] = "on" /\ new[i].unit = unit[new[i].from]
<1>1. CASE new = old
  BY <1>1, AppendFact
<1>2. ASSUME NEW m \in Msg, new = Append(old, m), up[k] = "on", up[m.from] = "on",
             m.from # k, m.unit = unit[m.from]
      PROVE  /\ Len(old) \in Nat /\ DOMAIN old = 1 .. Len(old)
             /\ \A i \in DOMAIN old : i \in DOMAIN new /\ new[i] = old[i]
             /\ \A i \in DOMAIN new : i \in DOMAIN old \/
                  /\ i = Len(old) + 1 /\ up[k] = "on" /\ new[i] \in Msg
                  /\ new[i].from # k /\ up[new[i].from] = "on" /\ new[i].unit = unit[new[i].from]
  BY <1>2, AppendFact
<1>. QED  BY <1>1, <1>2, AppendFact DEF Grows

LEMMA NextApart == Typed /\ PortsApart /\ [Next]_vars => PortsApart'
<1> SUFFICES ASSUME Typed, PortsApart, [Next]_vars PROVE PortsApart'
  OBVIOUS
<1>0. port \in [Node -> Seq(Msg)] /\ Watcher \in Node /\ Watcher \notin Device /\ Device \subseteq Node
  BY NodeAssumption DEF Typed, PortTyped, Device
<1>1. CASE UNCHANGED <<port, up>>
  BY <1>1 DEF PortsApart
<1>2. ASSUME NEW n \in Device, Create(n) PROVE PortsApart'
  BY <1>0, <1>2 DEF PortsApart, Create, Typed, NodeTyped
<1>3. ASSUME NEW n \in Device, Unplug(n) PROVE PortsApart'
  BY <1>0, <1>3 DEF PortsApart, Unplug, Typed, NodeTyped
<1>4. CASE Sends
  <2>1. up' = up
    BY <1>4, SendsFact
  <2>2. ASSUME NEW k \in Node
        PROVE  /\ k \in Device /\ up[k] = "off" => port'[k] = <<>>
               /\ \A i \in DOMAIN port'[k] : port'[k][i].from # k
    <3>1. CASE Grows(port[k], port'[k], k)
      <4>1. port[k] \in Seq(Msg)
        BY <1>0
      <4>2. \A i \in DOMAIN port'[k] : port'[k][i].from # k
        BY <3>1, <4>1, GrowsFact DEF PortsApart
      <4>3. up[k] = "off" => port'[k] = port[k]
        BY <3>1 DEF Grows
      <4>. QED  BY <4>2, <4>3 DEF PortsApart
    <3>2. CASE k \in Device /\ port[k] # <<>> /\ Grows(Tail(port[k]), port'[k], k)
      <4>1. /\ Tail(port[k]) \in Seq(Msg) /\ up[k] # "off"
            /\ \A i \in DOMAIN Tail(port[k]) : Tail(port[k])[i].from # k
        BY <1>0, <3>2, TailFact DEF PortsApart
      <4>. DEFINE old == Tail(port[k])
      <4>. HIDE DEF old
      <4>2. ASSUME NEW i \in DOMAIN port'[k] PROVE port'[k][i].from # k
        <5>1. old \in Seq(Msg) /\ Grows(old, port'[k], k) /\ \A j \in DOMAIN old : old[j].from # k
          BY <3>2, <4>1 DEF old
        <5>. QED  BY <5>1, GrowsFact
      <4>. QED  BY <4>1, <4>2
    <3>. QED  BY <1>4, <3>1, <3>2, SendsFact
  <2>. QED  BY <2>1, <2>2, <1>0 DEF PortsApart
<1>5. CASE HearKnown \/ HearNew
  <2>1. UNCHANGED up
    BY <1>5, HearFact DEF node
  <2>2. port[Watcher] # <<>> /\ port'[Watcher] = Tail(port[Watcher])
    BY <1>5, HearFact, HearPorts
  <2>3. \A i \in DOMAIN port'[Watcher] : port'[Watcher][i].from # Watcher
    BY <1>0, <2>2, TailFact DEF PortsApart
  <2>4. ASSUME NEW k \in Device
        PROVE  /\ up[k] = "off" => port'[k] = <<>>
               /\ \A i \in DOMAIN port'[k] : port'[k][i].from # k
    <3>1. CASE port'[k] = port[k]
      BY <1>0, <3>1 DEF PortsApart
    <3>2. CASE port'[k] = Append(port[k], Ask) /\ up[k] = "on"
      <4>1. Ask \in Msg /\ Ask.from = Watcher /\ port[k] \in Seq(Msg)
        BY <1>0, AskFact
      <4>. HIDE DEF Ask
      <4>. QED  BY <1>0, <3>2, <4>1, AppendFact DEF PortsApart
    <3>. QED  BY <1>5, <3>1, <3>2, HearPorts
  <2>. QED  BY <2>1, <2>3, <2>4 DEF PortsApart, Device
<1>6. CASE CheckTimeouts \/ Tick \/ UNCHANGED vars
  BY <1>1, <1>6 DEF CheckTimeouts, Tick, vars, node
<1>. QED  BY <1>2, <1>3, <1>4, <1>5, <1>6 DEF Next, Sends

(* The registry hears of a device, and may meet it.                        *)
LEMMA HearKnows ==
  ASSUME Typed, PortsApart, HearKnown \/ HearNew
  PROVE  /\ Heads.from \in Device /\ Heads \in Msg /\ Heads = port[Watcher][1]
         /\ \A k \in Device : Known(k)' <=> Known(k) \/ k = Heads.from
         /\ \A k \in Device : Known(k) => met'[k] = met[k]
         /\ ~Known(Heads.from) => met'[Heads.from] = Heads.unit
<1>1. port[Watcher] # <<>>
  BY HearFact
<1>2. Heads.from \in Device /\ Heads \in Msg /\ Heads = port[Watcher][1]
  BY <1>1, HeadFact
<1>3. \A k \in Device : Known(k)' <=> Known(k) \/ k = Heads.from
  BY HearFact DEF Known
<1>4. CASE HearKnown
  <2>1. Known(Heads.from) /\ met' = met
    BY <1>4 DEF HearKnown, Heads, Known
  <2>. QED  BY <1>2, <1>3, <2>1
<1>5. CASE HearNew
  <2>1. ~Known(Heads.from) /\ met' = [met EXCEPT ![Heads.from] = Heads.unit]
    BY <1>5 DEF HearNew, Heads, Known
  <2>2. met \in [Device -> Nat]
    BY DEF Typed, HistoryTyped
  <2>. QED  BY <1>2, <1>3, <2>1, <2>2
<1>. QED  BY <1>4, <1>5

(* One look at the timeouts: what may become of a device. *)
CheckedOne(n) ==
  \/ /\ device'[n] = device[n] /\ view'[n] = view[n] /\ met'[n] = met[n] /\ missed'[n] = missed[n]
     /\ Known(n) => device[n].silence <= OfflineTimeout
  \/ /\ Known(n) /\ device[n].silence >= OfflineTimeout /\ device[n].silence <= RemoveTimeout
     /\ device'[n] = [device[n] EXCEPT !.status = "offline"]
     /\ view'[n] = ToldBoth(view[n],
          IF device[n].status = "online" THEN "wentOffline" ELSE "none", "none")
     /\ met'[n] = met[n] /\ missed'[n] = missed[n]
  \/ /\ Known(n) /\ device[n].silence >= RemoveTimeout
     /\ device'[n] = Absent
     /\ view'[n] = ToldBoth(view[n],
          IF device[n].status = "online" THEN "wentOffline" ELSE "none", "disappeared")
     /\ met'[n] = 0 /\ missed'[n] = FALSE

LEMMA CheckedFact ==
  ASSUME Typed, CheckTimeouts, NEW n \in Device PROVE CheckedOne(n)
<1>1. PICK over \in SUBSET Device, gone \in SUBSET Device :
        /\ gone \subseteq over
        /\ n \in over => Known(n) /\ MayExceed(device[n], OfflineTimeout)
        /\ n \in gone => MayExceed(device[n], RemoveTimeout)
        /\ Known(n) => /\ Exceeds(device[n], OfflineTimeout) => n \in over
                       /\ Exceeds(device[n], RemoveTimeout) => n \in gone
        /\ device'[n] = IF n \in gone THEN Absent
                        ELSE IF n \in over THEN [device[n] EXCEPT !.status = "offline"]
                        ELSE device[n]
        /\ view'[n] = ToldBoth(view[n],
             IF n \in over /\ device[n].status = "online" THEN "wentOffline" ELSE "none",
             IF n \in gone THEN "disappeared" ELSE "none")
        /\ met'[n] = (IF n \in gone THEN 0 ELSE met[n])
        /\ missed'[n] = (missed[n] /\ n \notin gone)
  BY DEF CheckTimeouts, Removed
<1>2. device[n].silence \in Nat /\ missed[n] \in BOOLEAN
  BY DEF Typed, RegistryTyped, HistoryTyped, Entry
<1>3. CASE n \in gone
  BY <1>1, <1>2, <1>3, TimeAssumption DEF CheckedOne, MayExceed, Exceeds
<1>4. CASE n \in over /\ n \notin gone
  BY <1>1, <1>2, <1>4, TimeAssumption DEF CheckedOne, MayExceed, Exceeds
<1>5. CASE n \notin over
  <2>1. ToldBoth(view[n], "none", "none") = view[n]
    BY DEF ToldBoth, Told
  <2>. QED  BY <1>1, <1>2, <1>5, <2>1, TimeAssumption DEF CheckedOne, MayExceed, Exceeds
<1>. QED  BY <1>1, <1>3, <1>4, <1>5

(* Nobody becomes known by that. *)
LEMMA CheckFact ==
  ASSUME Typed, CheckTimeouts
  PROVE  \A n \in Device :
           device'[n].status # "unknown" => device[n].status # "unknown" /\ met'[n] = met[n]
<1> SUFFICES ASSUME NEW n \in Device, device'[n].status # "unknown"
             PROVE  device[n].status # "unknown" /\ met'[n] = met[n]
  OBVIOUS
<1>1. device'[n] # Absent
  BY DEF Absent
<1>2. CheckedOne(n)
  BY CheckedFact
<1>. QED  BY <1>1, <1>2 DEF CheckedOne, Known

LEMMA NextArriving ==
  Typed /\ PortsApart /\ Arriving /\ EntryInv /\ [Next]_vars => Arriving'
<1> SUFFICES ASSUME Typed, PortsApart, Arriving, EntryInv, [Next]_vars PROVE Arriving'
  OBVIOUS
<1>. DEFINE old == port[Watcher]
            new == port'[Watcher]
<1>0. /\ old \in Seq(Msg) /\ Watcher \in Node /\ Watcher \notin Device /\ Device \subseteq Node
      /\ DOMAIN old = 1 .. Len(old) /\ Len(old) \in Nat
  <2>1. old \in Seq(Msg) /\ Watcher \in Node
    BY NodeAssumption DEF Typed, PortTyped
  <2>. QED  BY <2>1 DEF Device
<1>a. unit \in [Node -> Nat] /\ met \in [Device -> Nat] /\ away \in [Device -> Nat]
  BY DEF Typed, NodeTyped, HistoryTyped
<1>b. /\ InOrder(old)
      /\ \A i \in DOMAIN old : old[i] \in InTime
  BY DEF Arriving
<1>. SUFFICES InOrder(new) /\ \A i \in DOMAIN new : new[i] \in InTime'
  BY DEF Arriving
<1>. HIDE DEF old, new
<1>1. ASSUME UNCHANGED <<device, met>>, new = old,
             \A k \in Device : /\ unit[k] <= unit'[k] /\ unit'[k] \in Nat
                               /\ up'[k] = "off" => away'[k] = 0 \/ (away'[k] = away[k] /\ up[k] = "off")
      PROVE  InOrder(new) /\ \A i \in DOMAIN new : new[i] \in InTime'
  <2>1. ASSUME NEW m \in InTime PROVE m \in InTime'
    <3>0. m \in Msg /\ m.from \in Device
      BY DEF InTime
    <3>1. m.unit \in Nat /\ unit[m.from] \in Nat /\ unit'[m.from] \in Nat
      BY <1>0, <1>a, <1>1, <3>0 DEF Msg
    <3>2. m.unit <= unit'[m.from]
      BY <1>1, <3>0, <3>1 DEF InTime
    <3>3. Known(m.from)' => met'[m.from] <= m.unit
      BY <1>1 DEF InTime, Known
    <3>4. up'[m.from] = "off" => away'[m.from] = 0
      BY <1>1, <3>0 DEF InTime
    <3>. QED  BY <3>0, <3>2, <3>3, <3>4 DEF InTime
  <2>. QED  BY <1>1, <1>b, <2>1
<1>2. ASSUME NEW n \in Device, Create(n)
      PROVE  InOrder(new) /\ \A i \in DOMAIN new : new[i] \in InTime'
  <2>1. UNCHANGED <<device, met>> /\ new = old
    BY <1>2 DEF Create, registry, old, new
  <2>2. ASSUME NEW k \in Device
        PROVE  /\ unit[k] <= unit'[k] /\ unit'[k] \in Nat
               /\ up'[k] = "off" => away'[k] = away[k] /\ up[k] = "off"
    <3>1. unit[k] \in Nat /\ unit'[k] = IF k = n THEN unit[k] + 1 ELSE unit[k]
      BY <1>0, <1>2, <1>a DEF Create
    <3>2. up'[k] = IF k = n THEN "on" ELSE up[k]
      BY <1>0, <1>2 DEF Create, Typed, NodeTyped
    <3>3. away' = away
      BY <1>2 DEF Create
    <3>. QED  BY <3>1, <3>2, <3>3
  <2>. QED  BY <1>1, <2>1, <2>2
<1>3. ASSUME NEW n \in Device, Unplug(n)
      PROVE  InOrder(new) /\ \A i \in DOMAIN new : new[i] \in InTime'
  <2>1. UNCHANGED <<device, met>> /\ new = old
    BY <1>0, <1>3 DEF Unplug, registry, history, old, new, Typed, PortTyped
  <2>2. ASSUME NEW k \in Device
        PROVE  /\ unit[k] <= unit'[k] /\ unit'[k] \in Nat
               /\ up'[k] = "off" => away'[k] = 0 \/ (away'[k] = away[k] /\ up[k] = "off")
    <3>1. unit[k] \in Nat /\ unit' = unit
      BY <1>0, <1>3, <1>a DEF Unplug
    <3>2. up'[k] = IF k = n THEN "off" ELSE up[k]
      BY <1>0, <1>3 DEF Unplug, Typed, NodeTyped
    <3>3. away'[k] = IF k = n THEN 0 ELSE away[k]
      BY <1>3, <1>a DEF Unplug
    <3>. QED  BY <3>1, <3>2, <3>3
  <2>. QED  BY <1>1, <2>1, <2>2
<1>4. CASE Sends
  <2>1. UNCHANGED <<up, unit, away, device, met>> /\ Grows(old, new, Watcher)
    BY <1>0, <1>4, SendsFact DEF old, new
  <2>2. /\ \A i \in DOMAIN old : i \in DOMAIN new /\ new[i] = old[i]
        /\ \A i \in DOMAIN new : i \in DOMAIN old \/
             /\ i = Len(old) + 1 /\ new[i] \in Msg
             /\ new[i].from # Watcher /\ up[new[i].from] = "on" /\ new[i].unit = unit[new[i].from]
    BY <1>0, <2>1, GrowsFact
  <2>3. ASSUME NEW i \in DOMAIN new
        PROVE  new[i] \in InTime
    <3>1. CASE i \in DOMAIN old
      BY <1>b, <2>2, <3>1
    <3>2. CASE i \notin DOMAIN old
      <4>1. ASSUME NEW m \in Msg, m.from # Watcher, up[m.from] = "on", m.unit = unit[m.from]
            PROVE  m \in InTime
        <5>1. m.from \in Device /\ m.unit \in Nat
          BY <4>1 DEF Msg, Device
        <5>. QED  BY <4>1, <5>1 DEF InTime, EntryInv
      <4>. QED  BY <2>2, <3>2, <4>1
    <3>. QED  BY <3>1, <3>2
  <2>4. ASSUME NEW i \in DOMAIN new, NEW j \in DOMAIN new, i <= j, new[i].from = new[j].from
        PROVE  new[i].unit <= new[j].unit
    <3>1. CASE j \in DOMAIN old
      <4>1. i \in DOMAIN old
        BY <1>0, <2>2, <2>4, <3>1
      <4>. QED  BY <1>b, <2>2, <2>4, <3>1, <4>1 DEF InOrder
    <3>2. CASE j \notin DOMAIN old
      <4>1. new[j].unit = unit[new[j].from]
        BY <2>2, <3>2
      <4>2. new[i].unit <= unit[new[i].from]
        BY <2>3 DEF InTime
      <4>. QED  BY <2>4, <4>1, <4>2
    <3>. QED  BY <3>1, <3>2
  <2>5. InTime' = InTime
    BY <2>1 DEF InTime, Known
  <2>. QED  BY <2>3, <2>4, <2>5 DEF InOrder
<1>5. CASE HearKnown \/ HearNew
  <2>1. UNCHANGED <<up, unit, away>> /\ new = Tail(old) /\ old # <<>>
    BY <1>5, HearFact, HearPorts DEF node, old, new
  <2>2. /\ Heads.from \in Device /\ Heads \in Msg /\ Heads = old[1]
        /\ \A k \in Device : Known(k)' <=> Known(k) \/ k = Heads.from
        /\ \A k \in Device : Known(k) => met'[k] = met[k]
        /\ ~Known(Heads.from) => met'[Heads.from] = Heads.unit
    BY <1>5, HearKnows DEF old
  <2>3. /\ DOMAIN new = 1 .. Len(old) - 1
        /\ \A i \in DOMAIN new : new[i] = old[i + 1]
    BY <1>0, <2>1, TailFact
  <2>4. 1 \in DOMAIN old /\ \A i \in DOMAIN new : i \in Nat /\ i + 1 \in DOMAIN old /\ 1 <= i + 1
    BY <1>0, <2>1, <2>3, TailFact
  <2>5. ASSUME NEW i \in DOMAIN new, NEW j \in DOMAIN new, i <= j, new[i].from = new[j].from
        PROVE  new[i].unit <= new[j].unit
    <3>1. i + 1 <= j + 1 /\ i + 1 \in DOMAIN old /\ j + 1 \in DOMAIN old
      BY <2>4, <2>5
    <3>. QED  BY <1>b, <2>3, <2>5, <3>1 DEF InOrder
  <2>6. ASSUME NEW i \in DOMAIN new PROVE new[i] \in InTime'
    <3>1. new[i] = old[i + 1] /\ i + 1 \in DOMAIN old
      BY <2>3, <2>4
    <3>2. new[i] \in InTime
      BY <1>b, <3>1
    <3>3. new[i].from = Heads.from => Heads.unit <= new[i].unit
      BY <1>b, <2>2, <2>4, <3>1 DEF InOrder
    <3>4. ASSUME NEW m \in InTime, m.from = Heads.from => Heads.unit <= m.unit
          PROVE  m \in InTime'
      <4>1. m \in Msg /\ m.from \in Device
        BY DEF InTime
      <4>2. Known(m.from)' => met'[m.from] <= m.unit
        BY <2>2, <3>4, <4>1 DEF InTime
      <4>3. m.unit <= unit'[m.from] /\ (up'[m.from] = "off" => away'[m.from] = 0)
        BY <2>1 DEF InTime
      <4>. QED  BY <4>1, <4>2, <4>3 DEF InTime
    <3>. QED  BY <3>2, <3>3, <3>4
  <2>. QED  BY <2>5, <2>6 DEF InOrder
<1>6. CASE CheckTimeouts
  <2>1. UNCHANGED <<up, unit, away>> /\ new = old
    BY <1>6 DEF CheckTimeouts, node, old, new
  <2>2. \A k \in Device : Known(k)' => Known(k) /\ met'[k] = met[k]
    BY <1>6, CheckFact DEF Known
  <2>3. ASSUME NEW m \in InTime PROVE m \in InTime'
    BY <2>1, <2>2 DEF InTime
  <2>. QED  BY <1>b, <2>1, <2>3
<1>7. CASE Tick
  <2>1. new = <<>>
    BY <1>0, <1>7 DEF Tick, AllDone, Quiet, old, new
  <2>. QED  BY <2>1 DEF InOrder
<1>8. CASE UNCHANGED vars
  <2>1. new = old /\ InTime' = InTime
    BY <1>8 DEF vars, node, registry, history, InTime, Known, old, new
  <2>. QED  BY <1>b, <2>1
<1>. QED  BY <1>2, <1>3, <1>4, <1>5, <1>6, <1>7, <1>8 DEF Next, Sends

(* Sending forgets nothing. *)
LEMMA SendsKeep ==
  ASSUME Typed, Sends
  PROVE  /\ asking' \subseteq asking
         /\ \A t \in Talker : skipped[t] => skipped'[t]
         /\ \A n \in Device : missed[n] => missed'[n]
<1>1. ASSUME NEW m, NEW to, NEW lost, Send(m, to, lost)
      PROVE  /\ \A t \in Talker : skipped[t] => skipped'[t]
             /\ \A n \in Device : missed[n] => missed'[n]
  BY <1>1 DEF Send
<1>2. \E m, to, lost : Send(m, to, lost)
  BY DEF Sends, Heartbeat, HandleIsoRequest, AskForList, SendRequest
<1>3. asking' \subseteq asking
  BY DEF Sends, Heartbeat, HandleIsoRequest, AskForList, SendRequest, registry
<1>. QED  BY <1>1, <1>2, <1>3

(* A tick counts the silence and the absence, and changes nothing else of a device. *)
LEMMA TickFact ==
  ASSUME Typed, Tick, NEW n \in Device
  PROVE  /\ device'[n].status = device[n].status
         /\ device'[n].product = device[n].product /\ device'[n].list = device[n].list
         /\ Known(n) => device'[n].silence = IF device[n].silence < RemoveTimeout + 1
                                             THEN device[n].silence + 1 ELSE device[n].silence
         /\ UNCHANGED <<up, unit, port, asking, view, missed, skipped, met>> /\ checked' = FALSE
         /\ Known(n) /\ up[n] = "off" => away'[n] = IF away[n] < RemoveTimeout + 2
                                                   THEN away[n] + 1 ELSE away[n]
<1>1. device[n] \in Entry
  BY DEF Typed, RegistryTyped
<1>2. device'[n] = IF Known(n)
                   THEN [device[n] EXCEPT !.silence = Later(device[n].silence, RemoveTimeout + 1)]
                   ELSE device[n]
  BY DEF Tick
<1>3. /\ device'[n].status = device[n].status
      /\ device'[n].product = device[n].product /\ device'[n].list = device[n].list
      /\ Known(n) => device'[n].silence = Later(device[n].silence, RemoveTimeout + 1)
  BY <1>1, <1>2 DEF Entry
<1>4. Known(n) /\ up[n] = "off" => away'[n] = Later(away[n], RemoveTimeout + 2)
  BY DEF Tick
<1>. QED  BY <1>3, <1>4 DEF Later, Tick, history

-----------------------------------------------------------------------------
LEMMA NextFollows ==
  Typed /\ PortsApart /\ ListenerFollows /\ [Next]_vars => ListenerFollows'
<1> SUFFICES ASSUME Typed, PortsApart, ListenerFollows, [Next]_vars, NEW n \in Device
             PROVE  view'[n] = device'[n].status
  BY DEF ListenerFollows
<1>0. /\ view[n] = device[n].status /\ device[n].status \in Statuses
      /\ view \in [Device -> Statuses \cup {"confused"}]
  BY DEF ListenerFollows, Typed, RegistryTyped, Entry
<1>1. CASE UNCHANGED <<device, view>>
  BY <1>0, <1>1
<1>2. CASE HearKnown \/ HearNew
  <2>1. CASE n = Heads.from
    <3>1. view'[n] = ToldBoth(view[n], Presence(device[n]), News(Heads)) /\ device'[n].status = "online"
      BY <1>0, <1>2, <2>1, HearFact
    <3>2. ToldBoth(view[n], Presence(device[n]), News(Heads)) = "online"
      BY <1>0 DEF ToldBoth, Told, Presence, News, Statuses
    <3>. QED  BY <3>1, <3>2
  <2>2. CASE n # Heads.from
    BY <1>0, <1>2, <2>2, HearFact
  <2>. QED  BY <2>1, <2>2
<1>3. CASE CheckTimeouts
  <2>1. device[n] \in Entry
    BY DEF Typed, RegistryTyped
  <2>2. CheckedOne(n)
    BY <1>3, CheckedFact
  <2>3. [device[n] EXCEPT !.status = "offline"].status = "offline" /\ Absent.status = "unknown"
    BY <2>1 DEF Entry, Absent
  <2>4. Known(n) => device[n].status \in {"online", "offline"}
    BY <1>0 DEF Known, Statuses
  <2>. QED  BY <1>0, <2>2, <2>3, <2>4 DEF CheckedOne, ToldBoth, Told
<1>4. CASE Tick
  BY <1>0, <1>4, TickFact
<1>5. ASSUME NEW k \in Device, Create(k) \/ Unplug(k) PROVE UNCHANGED <<device, view>>
  BY <1>5 DEF Create, Unplug, registry
<1>6. CASE Sends
  BY <1>1, <1>6, SendsFact
<1>7. CASE UNCHANGED vars
  BY <1>1, <1>7 DEF vars, registry
<1>. QED  BY <1>1, <1>2, <1>3, <1>4, <1>5, <1>6, <1>7 DEF Next, Sends

(* What the first message of its port may tell the registry. *)
LEMMA HeadsInTime ==
  ASSUME Typed, PortsApart, Arriving, HearKnown \/ HearNew
  PROVE  /\ Heads.from \in Device /\ Heads.unit \in Nat /\ Heads.unit <= unit[Heads.from]
         /\ Known(Heads.from) => met[Heads.from] <= Heads.unit
         /\ up[Heads.from] = "off" => away[Heads.from] = 0
<1>1. Heads = port[Watcher][1] /\ 1 \in DOMAIN port[Watcher]
  BY HeadFact, HearFact
<1>2. Heads \in InTime
  BY <1>1 DEF Arriving
<1>. QED  BY <1>2 DEF InTime, Msg

LEMMA NextEntry ==
  Typed /\ PortsApart /\ Arriving /\ EntryInv /\ [Next]_vars => EntryInv'
<1> SUFFICES ASSUME Typed, PortsApart, Arriving, EntryInv, [Next]_vars, NEW n \in Device
             PROVE  /\ ~Known(n)' => device'[n].product = 0 /\ device'[n].list = 0
                    /\ Known(n)' =>
                         /\ met'[n] <= unit'[n]
                         /\ device'[n].product \in {0} \cup met'[n] .. unit'[n]
                         /\ device'[n].list \in {0} \cup met'[n] .. unit'[n]
                    /\ n \in asking' => Known(n)' /\ device'[n].silence = 0
  BY DEF EntryInv
<1>0. /\ ~Known(n) => device[n].product = 0 /\ device[n].list = 0
      /\ Known(n) =>
           /\ met[n] <= unit[n]
           /\ device[n].product \in {0} \cup met[n] .. unit[n]
           /\ device[n].list \in {0} \cup met[n] .. unit[n]
      /\ n \in asking => Known(n) /\ device[n].silence = 0
  BY DEF EntryInv
<1>a. /\ device[n] \in Entry /\ met[n] \in Nat /\ unit[n] \in Nat /\ n \in Node
      /\ unit \in [Node -> Nat] /\ asking \subseteq Device
  BY DEF Typed, RegistryTyped, HistoryTyped, NodeTyped, Device
<1>1. CASE /\ device'[n] = device[n] /\ met'[n] = met[n] /\ (n \in asking' => n \in asking)
           /\ unit[n] <= unit'[n] /\ unit'[n] \in Nat
  BY <1>0, <1>1, <1>a DEF Known
<1>2. ASSUME NEW k \in Device, Create(k) \/ Unplug(k)
      PROVE  /\ UNCHANGED <<device, met, asking>>
             /\ unit[n] <= unit'[n] /\ unit'[n] \in Nat
  <2>1. CASE Create(k)
    <3>1. unit'[n] = IF n = k THEN unit[n] + 1 ELSE unit[n]
      BY <1>a, <2>1 DEF Create
    <3>. QED  BY <1>a, <2>1, <3>1 DEF Create, registry
  <2>2. CASE Unplug(k)
    BY <1>a, <2>2 DEF Unplug, registry, history
  <2>. QED  BY <1>2, <2>1, <2>2
<1>3. CASE Sends
  BY <1>1, <1>3, <1>a, SendsFact, SendsKeep
<1>4. CASE HearKnown \/ HearNew
  <2>1. unit' = unit /\ n \in asking' => n \in asking \/ n = Heads.from
    BY <1>4 DEF HearKnown, HearNew, Heads
  <2>2. unit' = unit
    BY <1>4, HearFact DEF node
  <2>3. CASE n # Heads.from
    <3>1. device'[n] = device[n]
      BY <1>4, <2>3, HearFact
    <3>2. Known(n) => met'[n] = met[n]
      BY <1>4, HearKnows
    <3>. QED  BY <1>0, <2>1, <2>2, <2>3, <3>1, <3>2 DEF Known
  <2>4. CASE n = Heads.from
    <3>1. /\ device'[n].status = "online" /\ device'[n].silence = 0
          /\ device'[n].product = IF Heads.pgn = "product" THEN Heads.unit ELSE device[n].product
          /\ device'[n].list = IF Heads.pgn = "list" THEN Heads.unit ELSE device[n].list
      BY <1>4, <2>4, HearFact
    <3>2. /\ Heads.unit \in Nat /\ Heads.unit <= unit[n] /\ (Known(n) => met[n] <= Heads.unit)
      BY <1>4, <2>4, HeadsInTime
    <3>3. IF Known(n) THEN met'[n] = met[n] ELSE met'[n] = Heads.unit
      BY <1>4, <2>4, HearKnows
    <3>. QED  BY <1>0, <1>a, <2>2, <3>1, <3>2, <3>3 DEF Known
  <2>. QED  BY <2>3, <2>4
<1>5. CASE CheckTimeouts
  <2>1. CheckedOne(n) /\ unit' = unit /\ asking' = asking
    BY <1>5, CheckedFact DEF CheckTimeouts, node
  <2>2. /\ [device[n] EXCEPT !.status = "offline"].status = "offline"
        /\ [device[n] EXCEPT !.status = "offline"].product = device[n].product
        /\ [device[n] EXCEPT !.status = "offline"].list = device[n].list
        /\ Absent.status = "unknown" /\ Absent.product = 0 /\ Absent.list = 0
    BY <1>a DEF Entry, Absent
  <2>3. CASE device'[n] = device[n] /\ met'[n] = met[n]
    BY <1>1, <1>a, <2>1, <2>3
  <2>4. CASE /\ Known(n) /\ device[n].silence >= OfflineTimeout /\ met'[n] = met[n]
             /\ device'[n] = [device[n] EXCEPT !.status = "offline"]
    <3>1. n \notin asking
      BY <1>0, <2>4, TimeAssumption
    <3>. QED  BY <1>0, <2>1, <2>2, <2>4, <3>1 DEF Known
  <2>5. CASE Known(n) /\ device[n].silence >= RemoveTimeout /\ device'[n] = Absent
    <3>1. n \notin asking
      BY <1>0, <2>5, TimeAssumption
    <3>. QED  BY <2>1, <2>2, <2>5, <3>1 DEF Known
  <2>. QED  BY <2>1, <2>3, <2>4, <2>5 DEF CheckedOne
<1>6. CASE Tick
  <2>1. asking' = {}
    BY <1>6 DEF Tick, AllDone
  <2>. QED  BY <1>0, <1>6, <2>1, TickFact DEF Known
<1>7. CASE UNCHANGED vars
  BY <1>1, <1>7, <1>a DEF vars, node, registry, history
<1>. QED  BY <1>1, <1>2, <1>3, <1>4, <1>5, <1>6, <1>7 DEF Next, Sends

LEMMA NextAway ==
  Typed /\ PortsApart /\ Arriving /\ AwayInv /\ [Next]_vars => AwayInv'
<1> SUFFICES ASSUME Typed, PortsApart, Arriving, AwayInv, [Next]_vars,
                    NEW n \in Device, up'[n] = "off"
             PROVE  /\ Known(n)' => \/ away'[n] = 0
                                    \/ device'[n].silence >= away'[n]
                                    \/ device'[n].silence > RemoveTimeout
                    /\ checked' /\ away'[n] > OfflineTimeout => device'[n].status # "online"
                    /\ checked' /\ away'[n] > RemoveTimeout => ~Known(n)'
  BY DEF AwayInv
<1>0. up[n] = "off" =>
        /\ Known(n) => \/ away[n] = 0
                       \/ device[n].silence >= away[n]
                       \/ device[n].silence > RemoveTimeout
        /\ checked /\ away[n] > OfflineTimeout => device[n].status # "online"
        /\ checked /\ away[n] > RemoveTimeout => ~Known(n)
  BY DEF AwayInv
<1>a. /\ device[n] \in Entry /\ away[n] \in Nat /\ device[n].silence \in Nat
      /\ device[n].silence <= RemoveTimeout + 1 /\ n \in Node
      /\ up \in [Node -> {"off", "on"}] /\ away \in [Device -> Nat]
  BY TimeAssumption DEF Typed, RegistryTyped, NodeTyped, Entry, Device
<1>1. CASE device'[n] = device[n] /\ away'[n] = away[n] /\ checked' = checked /\ up'[n] = up[n]
  BY <1>0, <1>1 DEF Known
<1>2. CASE away'[n] = 0
  BY <1>2, TimeAssumption
<1>3. ASSUME NEW k \in Device, Create(k)
      PROVE  device' = device /\ away' = away /\ checked' = checked /\ up'[n] = up[n]
  BY <1>3, <1>a DEF Create, registry
<1>4. ASSUME NEW k \in Device, Unplug(k)
      PROVE  (device' = device /\ away'[n] = away[n] /\ checked' = checked /\ up'[n] = up[n])
             \/ away'[n] = 0
  BY <1>4, <1>a DEF Unplug, registry
<1>5. CASE Sends
  BY <1>1, <1>5, SendsFact
<1>6. CASE HearKnown \/ HearNew
  <2>1. away' = away /\ up' = up /\ checked' = checked
    BY <1>6, HearFact DEF node
  <2>2. CASE n = Heads.from
    BY <1>2, <1>6, <2>1, <2>2, HeadsInTime
  <2>3. CASE n # Heads.from
    BY <1>1, <1>6, <2>1, <2>3, HearFact
  <2>. QED  BY <2>2, <2>3
<1>7. CASE CheckTimeouts
  <2>1. CheckedOne(n) /\ away' = away /\ up' = up /\ up[n] = "off"
    BY <1>7, CheckedFact DEF CheckTimeouts, node
  <2>2. /\ [device[n] EXCEPT !.status = "offline"].status = "offline"
        /\ [device[n] EXCEPT !.status = "offline"].silence = device[n].silence
        /\ Absent.status = "unknown"
    BY <1>a DEF Entry, Absent
  <2>3. CASE device'[n] = device[n] /\ (Known(n) => device[n].silence <= OfflineTimeout)
    <3>1. CASE Known(n)
      BY <1>0, <1>a, <2>1, <2>3, <3>1, TimeAssumption DEF Known
    <3>2. CASE ~Known(n)
      BY <2>3, <3>2 DEF Known
    <3>. QED  BY <3>1, <3>2
  <2>4. CASE /\ Known(n) /\ device[n].silence >= OfflineTimeout /\ device[n].silence <= RemoveTimeout
             /\ device'[n] = [device[n] EXCEPT !.status = "offline"]
    <3>1. away[n] <= RemoveTimeout
      BY <1>0, <1>a, <2>1, <2>4, TimeAssumption
    <3>. QED  BY <1>0, <1>a, <2>1, <2>2, <2>4, <3>1, TimeAssumption DEF Known
  <2>5. CASE device'[n] = Absent
    BY <2>2, <2>5 DEF Known
  <2>. QED  BY <2>1, <2>3, <2>4, <2>5 DEF CheckedOne
<1>8. CASE Tick
  <2>1. up[n] = "off" /\ ~checked'
    BY <1>8, TickFact
  <2>2. Known(n)' <=> Known(n)
    BY <1>8, TickFact DEF Known
  <2>3. Known(n) =>
          /\ device'[n].silence = IF device[n].silence < RemoveTimeout + 1
                                  THEN device[n].silence + 1 ELSE device[n].silence
          /\ away'[n] = IF away[n] < RemoveTimeout + 2 THEN away[n] + 1 ELSE away[n]
    BY <1>8, <2>1, TickFact
  <2>4. Known(n) => device'[n].silence >= away'[n] \/ device'[n].silence > RemoveTimeout
    <3>1. RemoveTimeout \in Nat
      BY TimeAssumption
    <3>. QED  BY <1>0, <1>a, <2>1, <2>3, <3>1
  <2>. QED  BY <2>1, <2>2, <2>4
<1>9. CASE UNCHANGED vars
  BY <1>1, <1>9 DEF vars, node, registry
<1>. QED  BY <1>1, <1>2, <1>3, <1>4, <1>5, <1>6, <1>7, <1>8, <1>9 DEF Next, Sends

-----------------------------------------------------------------------------
(* Messages stay in the registry's port until it takes them. *)
LEMMA SendsComes ==
  ASSUME Typed, PortsApart, Sends, NEW n \in Device, NEW pgns, Comes(n, pgns)
  PROVE  Comes(n, pgns)'
<1>1. /\ port[Watcher] \in Seq(Msg) /\ Watcher \in Node /\ Watcher \notin Device
  BY NodeAssumption DEF Typed, PortTyped, Device
<1>2. unit' = unit /\ Grows(port[Watcher], port'[Watcher], Watcher)
  BY <1>1, SendsFact
<1>3. \A i \in DOMAIN port[Watcher] : i \in DOMAIN port'[Watcher] /\ port'[Watcher][i] = port[Watcher][i]
  BY <1>1, <1>2, GrowsFact
<1>. QED  BY <1>2, <1>3 DEF Comes

LEMMA HearComes ==
  ASSUME Typed, PortsApart, HearKnown \/ HearNew, NEW n \in Device, NEW pgns, Comes(n, pgns),
         n # Heads.from \/ Heads.pgn \notin pgns
  PROVE  Comes(n, pgns)'
<1>. DEFINE old == port[Watcher]
            new == port'[Watcher]
<1>1. old \in Seq(Msg) /\ Heads = old[1] /\ old # <<>> /\ new = Tail(old) /\ unit' = unit
  BY HeadFact, HearFact, HearPorts DEF node
<1>2. PICK i \in DOMAIN old : old[i].from = n /\ old[i].unit = unit[n] /\ old[i].pgn \in pgns
  BY DEF Comes
<1>. HIDE DEF old, new
<1>3. i \in 1 .. Len(old) /\ i # 1 /\ Len(old) \in Nat
  BY <1>1, <1>2, TailFact
<1>4. i - 1 \in 1 .. Len(old) - 1 /\ (i - 1) + 1 = i
  BY <1>3
<1>5. i - 1 \in DOMAIN new /\ new[i - 1] = old[i]
  BY <1>1, <1>4, TailFact
<1>6. \E j \in DOMAIN new : new[j].from = n /\ new[j].unit = unit'[n] /\ new[j].pgn \in pgns
  BY <1>1, <1>2, <1>5
<1>. QED  BY <1>6 DEF Comes, new

(* What a message that is posted last does. *)
LEMMA PostedComes ==
  ASSUME Typed, NEW m \in Msg, NEW old \in Seq(Msg), port'[Watcher] = Append(old, m),
         NEW n, m.from = n, m.unit = unit'[n], NEW pgns, m.pgn \in pgns
  PROVE  Comes(n, pgns)'
<1>1. Len(old) + 1 \in DOMAIN port'[Watcher] /\ port'[Watcher][Len(old) + 1] = m
  BY AppendFact
<1>. QED  BY <1>1 DEF Comes

(* A talker's timer posts its data, or it gets lost. *)
LEMMA HeartbeatComes ==
  ASSUME Typed, PortsApart, NEW n \in Talker, Heartbeat(n)
  PROVE  skipped'[n] \/ Comes(n, AnyPgn)'
<1>. DEFINE m == Message("data", n, "none")
<1>1. n \in Device /\ n \in Node /\ Watcher \in Node /\ n # Watcher /\ up[Watcher] = "on"
  BY NodeAssumption DEF Device, Typed, NodeTyped
<1>2. PICK lost \in SUBSET {Watcher} : Send(m, Everyone, lost) /\ port' = Posted(port, m, lost)
  BY DEF Heartbeat
<1>3. m \in Msg /\ m.from = n /\ m.unit = unit[n] /\ m.pgn = "data" /\ Arrives(m)
  BY <1>1, MessageFact DEF AnyPgn, Typed
<1>. HIDE DEF m
<1>4. CASE Watcher \in lost
  BY <1>2, <1>3, <1>4 DEF Send
<1>5. CASE Watcher \notin lost
  <2>1. Listens(Watcher, m) /\ port \in [Node -> Seq(Msg)]
    BY <1>1, <1>3 DEF Listens, Typed, PortTyped
  <2>2. port'[Watcher] = Append(port[Watcher], m) /\ port[Watcher] \in Seq(Msg)
    BY <1>1, <1>2, <1>3, <1>5, <2>1, PostedFact
  <2>3. unit' = unit
    BY DEF Heartbeat
  <2>. QED  BY <1>3, <2>2, <2>3, PostedComes DEF AnyPgn
<1>. QED  BY <1>4, <1>5

LEMMA NextTalk ==
  Typed /\ PortsApart /\ TalkInv /\ [Next]_vars => TalkInv'
<1> SUFFICES ASSUME Typed, PortsApart, TalkInv, [Next]_vars,
                    NEW n \in Talker, up'[n] = "on", ~skipped'[n]
             PROVE  /\ device'[n].status = "online"
                    /\ \/ device'[n].silence + beat'[n] <= Period
                       \/ device'[n].silence <= Period /\ Comes(n, AnyPgn)'
  BY DEF TalkInv
<1>0. up[n] = "on" /\ ~skipped[n] =>
        /\ device[n].status = "online"
        /\ \/ device[n].silence + beat[n] <= Period
           \/ device[n].silence <= Period /\ Comes(n, AnyPgn)
  BY DEF TalkInv
<1>a. /\ n \in Device /\ n \in Node /\ device[n] \in Entry /\ device[n].silence \in Nat
      /\ beat[n] \in Nat /\ beat[n] <= Period /\ Period \in Nat \ {0} /\ skipped \in [Talker -> BOOLEAN]
      /\ up \in [Node -> {"off", "on"}] /\ beat \in [Device -> 0 .. Period]
  BY NodeAssumption, TimeAssumption DEF Typed, NodeTyped, RegistryTyped, HistoryTyped, Entry, Device
<1>1. CASE /\ device'[n] = device[n] /\ beat'[n] = beat[n] /\ (skipped[n] => skipped'[n])
           /\ up'[n] = up[n] /\ (Comes(n, AnyPgn) => Comes(n, AnyPgn)')
  BY <1>0, <1>1
<1>2. ASSUME NEW k \in Device, Create(k) \/ Unplug(k)
      PROVE  /\ device'[n] = device[n] /\ beat'[n] = beat[n] /\ (skipped[n] => skipped'[n])
             /\ up'[n] = up[n] /\ (Comes(n, AnyPgn) => Comes(n, AnyPgn)')
  <2>1. n # k
    <3>1. Create(k) /\ n = k => skipped'[n]
      BY DEF Create
    <3>2. Unplug(k) /\ n = k => up'[n] = "off"
      BY <1>a DEF Unplug
    <3>. QED  BY <1>2, <3>1, <3>2
  <2>2. CASE Create(k)
    <3>1. /\ device' = device /\ beat'[n] = beat[n] /\ (skipped[n] => skipped'[n]) /\ up'[n] = up[n]
          /\ unit'[n] = unit[n] /\ port' = port
      BY <1>a, <2>1, <2>2 DEF Create, registry, Typed, NodeTyped
    <3>. QED  BY <3>1 DEF Comes
  <2>3. CASE Unplug(k)
    <3>1. /\ device' = device /\ beat' = beat /\ skipped' = skipped /\ up'[n] = up[n]
          /\ unit' = unit
      BY <1>a, <2>1, <2>3 DEF Unplug, registry, history
    <3>2. port'[Watcher] = port[Watcher]
      BY <2>3 DEF Unplug, Device, Typed, PortTyped
    <3>. QED  BY <3>1, <3>2 DEF Comes
  <2>. QED  BY <1>2, <2>2, <2>3
<1>3. CASE Heartbeat(n)
  <2>1. device' = device /\ up' = up /\ beat[n] = 0
    BY <1>3 DEF Heartbeat, registry
  <2>2. ~skipped[n] /\ Comes(n, AnyPgn)'
    BY <1>3, <1>a, SendsKeep, HeartbeatComes DEF Sends
  <2>. QED  BY <1>0, <1>a, <2>1, <2>2
<1>4. CASE Sends /\ ~Heartbeat(n)
  <2>1. device' = device /\ up' = up /\ (skipped[n] => skipped'[n])
    BY <1>4, SendsFact, SendsKeep
  <2>2. beat'[n] = beat[n]
    BY <1>4, <1>a DEF Sends, Heartbeat, HandleIsoRequest, AskForList, SendRequest, node
  <2>3. Comes(n, AnyPgn) => Comes(n, AnyPgn)'
    BY <1>4, <1>a, SendsComes
  <2>. QED  BY <1>1, <2>1, <2>2, <2>3
<1>5. CASE HearKnown \/ HearNew
  <2>1. beat' = beat /\ up' = up
    BY <1>5, HearFact DEF node
  <2>2. CASE n = Heads.from
    BY <1>5, <1>a, <2>1, <2>2, HearFact
  <2>3. CASE n # Heads.from
    <3>1. device'[n] = device[n] /\ skipped'[n] = skipped[n]
      BY <1>5, <1>a, <2>3, HearFact
    <3>2. Comes(n, AnyPgn) => Comes(n, AnyPgn)'
      BY <1>5, <1>a, <2>3, HearComes
    <3>. QED  BY <1>1, <2>1, <3>1, <3>2
  <2>. QED  BY <2>2, <2>3
<1>6. CASE CheckTimeouts
  <2>1. CheckedOne(n) /\ UNCHANGED <<up, beat, unit, port, skipped>>
    BY <1>6, <1>a, CheckedFact DEF CheckTimeouts, node
  <2>2. device[n].silence < OfflineTimeout /\ device[n].silence < RemoveTimeout
    BY <1>0, <1>a, <2>1, TimeAssumption
  <2>3. device'[n] = device[n]
    BY <1>a, <2>1, <2>2, TimeAssumption DEF CheckedOne
  <2>. QED  BY <1>1, <2>1, <2>3 DEF Comes
<1>7. CASE Tick
  <2>1. /\ up' = up /\ skipped' = skipped /\ device'[n].status = device[n].status
        /\ Known(n) => device'[n].silence = IF device[n].silence < RemoveTimeout + 1
                                            THEN device[n].silence + 1 ELSE device[n].silence
    BY <1>7, <1>a, TickFact
  <2>2. port[Watcher] = <<>>
    BY <1>7, NodeAssumption DEF Tick, AllDone, Quiet
  <2>3. ~Comes(n, AnyPgn)
    BY <2>2 DEF Comes
  <2>4. beat[n] > 0 /\ beat'[n] = beat[n] - 1
    BY <1>7, <1>a, <2>1 DEF Tick, AllDone
  <2>5. /\ device[n].status = "online" /\ Known(n) /\ device[n].silence + beat[n] <= Period
    BY <1>0, <2>1, <2>3 DEF Known
  <2>6. device'[n].silence <= device[n].silence + 1 /\ device'[n].silence \in Nat
    BY <1>a, <2>1, <2>5
  <2>. QED  BY <1>a, <2>1, <2>4, <2>5, <2>6
<1>8. CASE UNCHANGED vars
  BY <1>1, <1>8 DEF vars, node, registry, history, Comes
<1>. QED  BY <1>2, <1>1, <1>3, <1>4, <1>5, <1>6, <1>7, <1>8 DEF Next, Sends

-----------------------------------------------------------------------------
(* Who is asked stays asked until it answers. *)
LEMMA GrowsAsked ==
  ASSUME Typed, PortsApart, NEW n \in Device, NEW about, Asked(n, about),
         Grows(port[n], port'[n], n)
  PROVE  Asked(n, about)'
<1>1. port[n] \in Seq(Msg) /\ n \in Node
  BY DEF Typed, PortTyped, Device
<1>2. \A i \in DOMAIN port[n] : i \in DOMAIN port'[n] /\ port'[n][i] = port[n][i]
  BY <1>1, GrowsFact
<1>. QED  BY <1>2 DEF Asked

(* An answer that is not lost is what was asked first. *)
LEMMA IsoAnswers ==
  ASSUME Typed, PortsApart, NEW n \in Device, HandleIsoRequest(n), Known(n), ~missed'[n],
         NEW about \in {"product", "list"}, Asked(n, about)
  PROVE  Asked(n, about)' \/ Comes(n, {about})'
<1>. DEFINE old == port[n]
<1>1. /\ n \in Node /\ Watcher \in Node /\ n # Watcher /\ up[Watcher] = "on"
      /\ old \in Seq(Msg) /\ old # <<>> /\ port[Watcher] \in Seq(Msg)
  BY NodeAssumption DEF Device, Typed, NodeTyped, PortTyped, HandleIsoRequest
<1>2. /\ Taken(n) \in [Node -> Seq(Msg)] /\ Taken(n)[n] = Tail(old)
      /\ Taken(n)[Watcher] = port[Watcher] /\ Head(old) \in Msg /\ Head(old) = old[1]
  BY <1>1, TakenFact DEF Typed
<1>3. PICK lost \in SUBSET {Watcher} :
        /\ Send(Answer(n, Head(old)), Everyone, lost)
        /\ port' = Posted(Taken(n), Answer(n, Head(old)), lost)
  BY DEF HandleIsoRequest
<1>4. PICK pgn \in AnyPgn, ab \in {"none", "other", "product", "list"} :
        /\ Answer(n, Head(old)) = Message(pgn, n, ab)
        /\ pgn = IF Head(old).about \in {"product", "list"} THEN Head(old).about ELSE "nak"
  BY <1>1, <1>2, AnswerFact
<1>5. PICK m : m = Message(pgn, n, ab)
  OBVIOUS
<1>6. /\ m \in Msg /\ m.from = n /\ m.unit = unit[n] /\ m.pgn = pgn /\ Arrives(m)
  BY <1>1, <1>5, MessageFact DEF AnyPgn, Typed
<1>7. Watcher \notin lost
  <2>1. Watcher \in lost => missed'[n]
    BY <1>3, <1>4, <1>5, <1>6 DEF Send, Known
  <2>. QED  BY <2>1
<1>8. port'[Watcher] = Append(port[Watcher], m)
  <2>1. Listens(Watcher, m)
    BY <1>1, <1>6 DEF Listens
  <2>. QED  BY <1>1, <1>2, <1>3, <1>4, <1>5, <1>6, <1>7, <2>1, PostedFact
<1>9. port'[n] = Tail(old)
  <2>1. ~Listens(n, m)
    BY <1>6 DEF Listens
  <2>2. port' = Posted(Taken(n), m, lost)
    BY <1>3, <1>4, <1>5
  <2>3. \A k \in Node :
          \/ Posted(Taken(n), m, lost)[k] = Taken(n)[k]
          \/ Posted(Taken(n), m, lost)[k] = Append(Taken(n)[k], m) /\ Listens(k, m)
    BY <1>2, <1>6, PostedFact
  <2>. QED  BY <1>1, <1>2, <2>1, <2>2, <2>3
<1>10. unit' = unit
  BY DEF HandleIsoRequest, node
<1>11. PICK i \in DOMAIN old : old[i].about = about
  BY DEF Asked
<1>. HIDE DEF old
<1>12. CASE i = 1
  <2>1. m.pgn = about
    BY <1>2, <1>4, <1>6, <1>11, <1>12
  <2>2. Comes(n, {about})'
    BY <1>1, <1>6, <1>8, <1>10, <2>1, PostedComes
  <2>. QED  BY <2>2
<1>13. CASE i # 1
  <2>1. i \in 1 .. Len(old) /\ Len(old) \in Nat
    BY <1>1, TailFact
  <2>2. i - 1 \in 1 .. Len(old) - 1 /\ (i - 1) + 1 = i
    BY <1>13, <2>1
  <2>3. i - 1 \in DOMAIN port'[n] /\ port'[n][i - 1] = old[i]
    BY <1>1, <1>9, <2>2, TailFact
  <2>. QED  BY <1>11, <2>3 DEF Asked
<1>. QED  BY <1>12, <1>13

(* A request of the registry's own, that is not lost. *)
LEMMA AskPosts ==
  ASSUME Typed, NEW n \in Device, up[n] = "on", NEW about \in {"product", "list"}, NEW lost,
         n \notin lost, NEW p \in [Node -> Seq(Msg)],
         port' = Posted(p, Message("request", Watcher, about), lost)
  PROVE  Asked(n, about)'
<1>1. n \in Node /\ Watcher \in Node /\ n # Watcher /\ p[n] \in Seq(Msg)
  BY NodeAssumption DEF Device
<1>2. PICK m : m = Message("request", Watcher, about)
  OBVIOUS
<1>3. m \in Msg /\ m.from = Watcher /\ m.pgn = "request" /\ m.about = about /\ Arrives(m)
  BY <1>1, <1>2, MessageFact DEF AnyPgn, Typed
<1>4. Listens(n, m)
  BY <1>1, <1>3 DEF Listens
<1>5. port'[n] = Append(p[n], m)
  <2>1. port' = Posted(p, m, lost)
    BY <1>2
  <2>2. \/ port'[n] = p[n] /\ ~(Arrives(m) /\ Listens(n, m) /\ n \notin lost)
        \/ port'[n] = Append(p[n], m)
    BY <1>1, <1>3, <2>1, PostedFact
  <2>. QED  BY <1>3, <1>4, <2>2
<1>6. Len(p[n]) + 1 \in DOMAIN port'[n] /\ port'[n][Len(p[n]) + 1] = m
  BY <1>1, <1>3, <1>5, AppendFact
<1>. QED  BY <1>3, <1>6 DEF Asked

(* What AnswersInv says of one device and one of its two PGNs. *)
Underway(n) ==
  /\ device[n].product = unit[n] \/ Comes(n, {"product"}) \/ Asked(n, "product")
  /\ device[n].list = unit[n] \/ Comes(n, {"list"}) \/ Asked(n, "list") \/ n \in asking

LEMMA SendsUnderway ==
  ASSUME Typed, PortsApart, Sends, NEW n \in Device, Known(n), ~missed'[n], up[n] = "on",
         Underway(n)
  PROVE  Underway(n)'
<1>1. device' = device /\ unit' = unit
  BY SendsFact
<1>2. \A pgns : Comes(n, pgns) => Comes(n, pgns)'
  BY SendsComes
<1>3. ASSUME NEW about \in {"product", "list"}, Asked(n, about)
      PROVE  Asked(n, about)' \/ Comes(n, {about})'
  <2>1. n \in Node
    BY DEF Device
  <2>2. CASE Grows(port[n], port'[n], n)
    BY <1>3, <2>2, GrowsAsked
  <2>3. CASE HandleIsoRequest(n)
    BY <1>3, <2>3, IsoAnswers
  <2>. QED  BY <2>1, <2>2, <2>3, SendsFact
<1>4. n \in asking => n \in asking' \/ Asked(n, "list")'
  <2>1. CASE AskForList(n)
    <3>1. PICK lost \in SUBSET Device :
            /\ Send(Message("request", Watcher, "list"), n, lost)
            /\ port' = Posted(port, Message("request", Watcher, "list"), lost)
      BY <2>1 DEF AskForList
    <3>2. n \notin lost
      BY <3>1 DEF Send, Known
    <3>3. port \in [Node -> Seq(Msg)]
      BY DEF Typed, PortTyped
    <3>. QED  BY <3>1, <3>2, <3>3, AskPosts
  <2>2. CASE ~AskForList(n)
    BY <2>2 DEF Sends, Heartbeat, HandleIsoRequest, AskForList, SendRequest, registry
  <2>. QED  BY <2>1, <2>2
<1>. QED  BY <1>1, <1>2, <1>3, <1>4 DEF Underway

LEMMA HearUnderway ==
  ASSUME Typed, PortsApart, HearKnown \/ HearNew, NEW n \in Device, n # Heads.from, Underway(n)
  PROVE  Underway(n)'
<1>1. device'[n] = device[n] /\ unit' = unit
  BY HearFact DEF node
<1>2. \A pgns : Comes(n, pgns) => Comes(n, pgns)'
  BY HearComes
<1>3. \A about : Asked(n, about) => Asked(n, about)'
  <2>1. port[n] \in Seq(Msg) /\ Ask \in Msg
    BY AskFact DEF Typed, PortTyped, Device
  <2>2. port'[n] = port[n] \/ port'[n] = Append(port[n], Ask)
    BY HearPorts
  <2>3. \A i \in DOMAIN port[n] : i \in DOMAIN port'[n] /\ port'[n][i] = port[n][i]
    BY <2>1, <2>2, AppendFact
  <2>. QED  BY <2>3 DEF Asked
<1>4. asking \subseteq asking'
  BY DEF HearKnown, HearNew
<1>. QED  BY <1>1, <1>2, <1>3, <1>4 DEF Underway

LEMMA NextAnswers ==
  Typed /\ PortsApart /\ Arriving /\ EntryInv /\ AnswersInv /\ [Next]_vars => AnswersInv'
<1> SUFFICES ASSUME Typed, PortsApart, Arriving, EntryInv, AnswersInv, [Next]_vars,
                    NEW n \in Device, Known(n)', ~missed'[n], unit'[n] = met'[n], up'[n] = "on"
             PROVE  Underway(n)'
  BY DEF AnswersInv, Underway
<1>0. Known(n) /\ ~missed[n] /\ unit[n] = met[n] /\ up[n] = "on" => Underway(n)
  BY DEF AnswersInv, Underway
<1>a. /\ n \in Node /\ n # Watcher /\ Watcher \in Node /\ device[n] \in Entry
      /\ unit \in [Node -> Nat] /\ up \in [Node -> {"off", "on"}] /\ port \in [Node -> Seq(Msg)]
      /\ met \in [Device -> Nat] /\ missed \in [Device -> BOOLEAN]
  BY NodeAssumption DEF Typed, NodeTyped, PortTyped, RegistryTyped, HistoryTyped, Device
<1>1. CASE /\ device'[n].product = device[n].product /\ device'[n].list = device[n].list
           /\ device'[n].status = "unknown" <=> device[n].status = "unknown"
           /\ UNCHANGED <<asking>> /\ missed'[n] = missed[n] /\ met'[n] = met[n]
           /\ unit'[n] = unit[n] /\ up'[n] = up[n]
           /\ port'[n] = port[n] /\ port'[Watcher] = port[Watcher]
  BY <1>0, <1>1 DEF Known, Underway, Comes, Asked
<1>2. ASSUME NEW k \in Device, Create(k) PROVE Underway(n)'
  <2>1. UNCHANGED <<device, asking, missed, met, port>>
    BY <1>2 DEF Create, registry
  <2>2. unit'[n] = (IF n = k THEN unit[n] + 1 ELSE unit[n]) /\ (n # k => up'[n] = up[n])
    BY <1>2, <1>a DEF Create
  <2>3. n # k
    <3>1. Known(n) /\ met[n] = unit'[n] /\ met[n] <= unit[n] /\ unit[n] \in Nat
      BY <1>a, <2>1 DEF EntryInv, Known
    <3>. QED  BY <2>2, <3>1
  <2>. QED  BY <1>1, <2>1, <2>2, <2>3
<1>3. ASSUME NEW k \in Device, Unplug(k) PROVE Underway(n)'
  <2>1. UNCHANGED <<device, asking, missed, met, unit>>
    BY <1>3 DEF Unplug, registry, history
  <2>2. n # k
    BY <1>3, <1>a DEF Unplug
  <2>3. up'[n] = up[n] /\ port'[n] = port[n] /\ port'[Watcher] = port[Watcher]
    BY <1>3, <1>a, <2>2 DEF Unplug, Device
  <2>. QED  BY <1>1, <2>1, <2>3
<1>4. CASE Sends
  <2>1. Known(n) /\ ~missed[n] /\ unit[n] = met[n] /\ up[n] = "on"
    BY <1>4, SendsFact, SendsKeep DEF Known
  <2>. QED  BY <1>0, <1>4, <2>1, SendsUnderway
<1>5. CASE (HearKnown \/ HearNew) /\ n # Heads.from
  <2>1. /\ device'[n] = device[n] /\ unit' = unit /\ up' = up
    BY <1>5, HearFact DEF node
  <2>2. met'[n] = met[n] /\ missed'[n] = missed[n]
    BY <1>5, <1>a DEF HearKnown, HearNew, Heads
  <2>. QED  BY <1>0, <1>5, <2>1, <2>2, HearUnderway DEF Known
<1>6. CASE HearKnown /\ n = Heads.from
  <2>1. UNCHANGED <<asking, missed, met, unit, up>> /\ Known(n)
    BY <1>6 DEF HearKnown, node, Heads, Known
  <2>2. Underway(n)
    BY <1>0, <2>1
  <2>3. Heads.unit = unit[n]
    BY <1>6, <1>a, <2>1, HeadsInTime
  <2>4. /\ device'[n].product = IF Heads.pgn = "product" THEN Heads.unit ELSE device[n].product
        /\ device'[n].list = IF Heads.pgn = "list" THEN Heads.unit ELSE device[n].list
    BY <1>6, HearFact
  <2>5. \A pgn : Comes(n, {pgn}) /\ Heads.pgn # pgn => Comes(n, {pgn})'
    BY <1>6, HearComes
  <2>6. port'[n] = port[n]
    BY <1>6, <1>a, TakenFact DEF HearKnown, Typed
  <2>. QED  BY <2>1, <2>2, <2>3, <2>4, <2>5, <2>6 DEF Underway, Asked
<1>7. CASE HearNew /\ n = Heads.from
  <2>1. ~Known(n) /\ n \notin asking
    BY <1>7 DEF HearNew, Heads, Known, EntryInv
  <2>2. PICK lost \in SUBSET Device :
          /\ port' = Posted(Taken(Watcher), Message("request", Watcher, "product"), lost)
          /\ missed' = [missed EXCEPT ![n] = n \in lost \/ up[n] # "on"]
          /\ asking' = asking \cup {n}
    BY <1>7, <2>1 DEF HearNew, Heads
  <2>3. n \notin lost /\ up[n] = "on"
    BY <1>a, <2>2
  <2>4. Taken(Watcher) \in [Node -> Seq(Msg)]
    BY <1>7, <1>a, TakenFact DEF HearNew, Typed
  <2>5. Asked(n, "product")' /\ n \in asking'
    BY <2>2, <2>3, <2>4, AskPosts
  <2>. QED  BY <2>5 DEF Underway
<1>8. CASE CheckTimeouts
  <2>1. CheckedOne(n) /\ UNCHANGED <<up, unit, port, asking>>
    BY <1>8, CheckedFact DEF CheckTimeouts, node
  <2>2. /\ [device[n] EXCEPT !.status = "offline"].status = "offline"
        /\ [device[n] EXCEPT !.status = "offline"].product = device[n].product
        /\ [device[n] EXCEPT !.status = "offline"].list = device[n].list
        /\ Absent.status = "unknown"
    BY <1>a DEF Entry, Absent
  <2>3. CASE device'[n] = device[n] /\ met'[n] = met[n] /\ missed'[n] = missed[n]
    BY <1>1, <2>1, <2>3
  <2>4. CASE /\ Known(n) /\ device'[n] = [device[n] EXCEPT !.status = "offline"]
             /\ met'[n] = met[n] /\ missed'[n] = missed[n]
    BY <1>1, <2>1, <2>2, <2>4 DEF Known
  <2>5. device'[n] # Absent
    BY <2>2 DEF Known
  <2>. QED  BY <2>1, <2>3, <2>4, <2>5 DEF CheckedOne
<1>9. CASE Tick
  BY <1>1, <1>9, TickFact
<1>10. CASE UNCHANGED vars
  BY <1>1, <1>10 DEF vars, node, registry, history
<1>. QED  BY <1>2, <1>3, <1>4, <1>5, <1>6, <1>7, <1>8, <1>9, <1>10 DEF Next, Sends

-----------------------------------------------------------------------------
LEMMA NextInv == Inv /\ [Next]_vars => Inv'
  BY NextTyped, NextApart, NextArriving, NextEntry, NextFollows, NextAway, NextTalk, NextAnswers
  DEF Inv

LEMMA SpecInv == Spec => []Inv
  BY InitInv, NextInv, PTL DEF Spec

(* The types of everything: no message is taken by its own sender, no      *)
(* heartbeat reaches a port, no device number, silence or count leaves its *)
(* bounds.                                                                 *)
THEOREM TypeCorrect == Spec => []TypeOK
<1>1. Inv => TypeOK
  <2> SUFFICES ASSUME Inv PROVE TypeOK
    OBVIOUS
  <2>1. up \in [Node -> {"off", "on"}] /\ beat \in [Device -> 0 .. Period]
    BY DEF Inv, Typed, NodeTyped
  <2>2. \A n \in Device : unit[n] \in 0 .. MaxPlugs[n]
    BY BoundAssumption DEF Inv, Typed, NodeTyped, Device
  <2>3. ASSUME NEW n \in Node, NEW i \in DOMAIN port[n]
        PROVE  /\ port[n][i].from \in Node \ {n}
               /\ port[n][i].pgn \in {"request", "data", "nak", "product", "list"}
    <3>1. port[n] \in Seq(Msg) /\ port[n][i].from # n
      BY DEF Inv, Typed, PortTyped, PortsApart
    <3>2. DOMAIN port[n] = 1 .. Len(port[n])
      BY <3>1, AppendFact
    <3>3. port[n][i] \in Msg
      BY <3>1, <3>2
    <3>. QED  BY <3>1, <3>3 DEF Msg
  <2>4. ASSUME NEW n \in Device
        PROVE  /\ device[n].status \in {"unknown", "online", "offline"}
               /\ device[n].silence \in 0 .. RemoveTimeout + 1
               /\ {device[n].product, device[n].list} \subseteq 0 .. MaxPlugs[n]
    <3>1. device[n] \in Entry /\ met[n] \in Nat
      BY DEF Inv, Typed, RegistryTyped, HistoryTyped
    <3>2. unit[n] \in 0 .. MaxPlugs[n] /\ MaxPlugs[n] \in Nat
      BY <2>2, BoundAssumption
    <3>3. device[n].product \in {0} \cup met[n] .. unit[n] /\ device[n].list \in {0} \cup met[n] .. unit[n]
      BY DEF Inv, EntryInv
    <3>4. \A p \in {0} \cup met[n] .. unit[n] : p \in 0 .. MaxPlugs[n]
      BY <3>1, <3>2
    <3>. QED  BY <3>1, <3>3, <3>4 DEF Entry, Statuses
  <2>. QED  BY <2>1, <2>2, <2>3, <2>4 DEF TypeOK, Inv, Typed, RegistryTyped, BoundsTyped
<1>. QED  BY <1>1, SpecInv, PTL

(* Who listens only to the events of the registry, knows at any time which *)
(* devices there are and which of them are offline.                        *)
THEOREM ListenersFollow == Spec => []ListenerFollows
  BY SpecInv, PTL DEF Inv

(* No timeout takes a node for offline that sends data, is on the bus and  *)
(* was heard whenever it sent: its timer and the registry's leave no gap.  *)
THEOREM NoFalseAlarms == Spec => []NoFalseAlarm
<1>1. Inv => NoFalseAlarm
  BY DEF Inv, TalkInv, NoFalseAlarm
<1>. QED  BY <1>1, SpecInv, PTL

(* A look at the timeouts finds who left the bus, offline once the one is  *)
(* over and removed once the other is, although what it sent before it     *)
(* left was heard later.                                                   *)
THEOREM AbsenceSeen == Spec => []AbsenceNoticed
<1>1. Inv => AbsenceNoticed
  BY DEF Inv, AwayInv, AbsenceNoticed, Known
<1>. QED  BY <1>1, SpecInv, PTL

(* When no request is open and no message on its way, the registry knows   *)
(* product data and PGN list of a device, unless a message was lost or     *)
(* another device has taken the address since it appeared.                 *)
THEOREM KnownByData == Spec => []DeviceIsKnown
<1>1. Inv => DeviceIsKnown
  <2> SUFFICES ASSUME Inv, NEW n \in Device, Quiet, n \notin asking, Known(n),
                      ~missed[n], unit[n] = met[n], up[n] = "on"
               PROVE  device[n].product = unit[n] /\ device[n].list = unit[n]
    BY DEF DeviceIsKnown
  <2>1. port[n] = <<>> /\ port[Watcher] = <<>>
    BY NodeAssumption DEF Quiet, Device
  <2>. QED  BY <2>1 DEF Inv, AnswersInv, Comes, Asked
<1>. QED  BY <1>1, SpecInv, PTL

(* What the registry knows of a device was said by one that was at its     *)
(* address since that device appeared, never by one it had removed before. *)
THEOREM NothingFromBefore == Spec => []NothingOlder
<1>1. Inv => NothingOlder
  BY DEF Inv, EntryInv, NothingOlder
<1>. QED  BY <1>1, SpecInv, PTL
=============================================================================
