----------------------------- MODULE Discovery -----------------------------
(***************************************************************************)
(* Devices that find each other on an NMEA 2000 bus: the Nmea2000Ecu of    *)
(* every node, from its creation on, with its heartbeat and its answers to *)
(* ISO requests, and the BusRegistry of one node, the Watcher.             *)
(*                                                                         *)
(* A node is its address.  The device there is a number, another one after *)
(* every plug: what it says of itself is that number.  Each node is one    *)
(* Dart isolate with a port that the native receive thread posts to; only  *)
(* what somebody listens for is kept in it.  Time passes in units (30 s),  *)
(* within which all that is due gets done: messages are delivered, timers  *)
(* fire, and the 250 ms between two requests are over.                     *)
(***************************************************************************)
EXTENDS Naturals, Sequences, FiniteSets

CONSTANTS
  Node,           (* the addresses                                         *)
  Watcher,        (* the node with a BusRegistry                           *)
  Talker,         (* the nodes whose application sends data periodically   *)
  Period,         (* of the heartbeat, and of that data                    *)
  OfflineTimeout,
  RemoveTimeout,
  MaxPlugs,       (* bound: MaxPlugs[n] devices come to n, and the last    *)
                  (* of them stays                                         *)
  Request,        (* the requests that applications may send               *)
  MaxRequests,    (* bound: how many they do                               *)
  MaxLosses       (* bound: messages that one receiver does not get        *)

Device == Node \ {Watcher}
Everyone == "everyone"   (* kBroadcast *)

ASSUME NodeAssumption ==
  IsFiniteSet(Node) /\ Watcher \in Node /\ Talker \subseteq Device
ASSUME TimeAssumption ==
  /\ Period \in Nat \ {0} /\ OfflineTimeout \in Nat /\ RemoveTimeout \in Nat
  /\ Period < OfflineTimeout /\ OfflineTimeout < RemoveTimeout
ASSUME RequestAssumption ==
  Request \subseteq [from : Node, to : Node \cup {Everyone}, about : {"product", "other"}]
ASSUME BoundAssumption ==
  MaxPlugs \in [Device -> Nat] /\ MaxRequests \in Nat /\ MaxLosses \in Nat

VARIABLES
  up,         (* "off" or "on": the Nmea2000Ecu of n was created           *)
  unit,       (* unit[n]: the device at n, or the last one                 *)
  beat,       (* beat[n]: units until the next heartbeat and data          *)
  port,       (* port[n]: the messages posted to the isolate of n          *)
  device,     (* _devices, with DeviceInfo                                 *)
  asking,     (* _pendingProductInfoRequests                               *)
  checked,    (* the registry looked at its timeouts in this unit          *)
  view,       (* view[n]: what a listener to the registry's events knows   *)
  away,       (* history: units since n, which is known, was unplugged     *)
  missed,     (* history: something between n and the registry got lost    *)
              (* since n appeared                                          *)
  skipped,    (* history: a message of the device at n got lost since the  *)
              (* registry last heard it, or it was not heard yet           *)
  met,        (* history: the device at n when n appeared                  *)
  requests, losses

node == <<up, unit, beat, away>>
registry == <<device, asking, checked, view>>
history == <<missed, skipped, met>>
bounds == <<requests, losses>>
vars == <<node, port, registry, history, bounds>>

Absent == [status |-> "unknown", silence |-> 0, product |-> 0, list |-> 0]

Message(pgn, n, about) ==
  [pgn |-> pgn, from |-> n, about |-> about, unit |-> unit[n]]

-----------------------------------------------------------------------------
(* How a message travels. *)

Short == {"heartbeat", "request", "nak", "data"}
FastPacketPgns == {"heartbeat", "product", "list"}

(* Short payloads are sent as plain frames, which the receiver of a Fast   *)
(* Packet PGN does not take: the heartbeat's first bytes are 0x60 0xEA, a  *)
(* header that announces more than a message may have.                     *)
Arrives(m) == m.pgn \in FastPacketPgns => m.pgn \notin Short

(* Every node answers requests, and the registry hears all other nodes.    *)
Listens(n, m) ==
  /\ n # m.from /\ up[n] = "on"
  /\ n = Watcher \/ m.pgn = "request"

(* m is posted to all who listen but those in lost.  Nobody asks whom it   *)
(* was sent to; a loss matters to the two it was meant for.                *)
Send(m, to, lost) ==
  /\ lost \subseteq {n \in Node : Arrives(m) /\ Listens(n, m)}
  /\ losses + Cardinality(lost) <= MaxLosses
  /\ losses' = losses + Cardinality(lost)
  /\ skipped' = [n \in Talker |-> skipped[n] \/ (n = m.from /\ Watcher \in lost)]
  /\ missed' = [n \in Device |->
       \/ missed[n]
       \/ device[n].status # "unknown" /\ n = m.from /\ Watcher \in lost
       \/ device[n].status # "unknown" /\ n = to /\ n \in lost]

(* The ports, from p on. *)
Posted(p, m, lost) ==
  [n \in Node |->
     IF Arrives(m) /\ Listens(n, m) /\ n \notin lost THEN Append(p[n], m) ELSE p[n]]

Taken(n) == [port EXCEPT ![n] = Tail(@)]

-----------------------------------------------------------------------------
Init ==
  /\ up = [n \in Node |-> IF n = Watcher THEN "on" ELSE "off"]
  /\ unit = [n \in Node |-> 0]
  /\ beat = [n \in Device |-> 0]
  /\ port = [n \in Node |-> <<>>]
  /\ device = [n \in Device |-> Absent]
  /\ asking = {} /\ checked = FALSE
  /\ view = [n \in Device |-> "unknown"]
  /\ away = [n \in Device |-> 0]
  /\ missed = [n \in Device |-> FALSE] /\ skipped = [n \in Talker |-> FALSE]
  /\ met = [n \in Device |-> 0]
  /\ requests = 0 /\ losses = 0

-----------------------------------------------------------------------------
(* create() and dispose() of Nmea2000Ecu. *)

(* Nobody listens at n until the claim has settled; then the first         *)
(* heartbeat is due and the timer starts.  A create() that fails, or gives *)
(* up waiting and leaves its native ECU behind, nobody sees.               *)
Create(n) ==
  /\ up[n] = "off" /\ unit[n] < MaxPlugs[n]
  /\ up' = [up EXCEPT ![n] = "on"]
  /\ unit' = [unit EXCEPT ![n] = @ + 1]
  /\ beat' = [beat EXCEPT ![n] = 0]
  /\ skipped' = [t \in Talker |-> skipped[t] \/ t = n]
  /\ UNCHANGED <<away, port, registry, missed, met, bounds>>

(* dispose(), or the end of the process. *)
Unplug(n) ==
  /\ up[n] = "on" /\ unit[n] < MaxPlugs[n]
  /\ up' = [up EXCEPT ![n] = "off"]
  /\ port' = [port EXCEPT ![n] = <<>>]
  /\ away' = [away EXCEPT ![n] = 0]
  /\ UNCHANGED <<unit, beat, registry, history, bounds>>

-----------------------------------------------------------------------------
(* What a node sends of its own. *)

(* The heartbeat, or rather, as nobody hears it, the data of a talker. *)
Heartbeat(n) ==
  /\ up[n] = "on" /\ beat[n] = 0
  /\ beat' = [beat EXCEPT ![n] = Period]
  /\ LET m == Message(IF n \in Talker THEN "data" ELSE "heartbeat", n, "none") IN
       \E lost \in SUBSET {Watcher} : Send(m, Everyone, lost) /\ port' = Posted(port, m, lost)
  /\ UNCHANGED <<up, unit, away, registry, met, requests>>

Quiet == \A n \in Node : port[n] = <<>>

(* sendRequest() of the application.  To bound the interleavings, it comes *)
(* when no other message is on its way.                                    *)
SendRequest(r) ==
  /\ up[r.from] = "on" /\ requests < MaxRequests /\ Quiet
  /\ requests' = requests + 1
  /\ LET m == Message("request", r.from, r.about) IN
       \E lost \in SUBSET Node :
         Send(m, r.to, lost) /\ port' = Posted(port, m, lost)
  /\ UNCHANGED <<node, registry, met>>

-----------------------------------------------------------------------------
(* A slip: the PGN list is not among the answers.                          *)
Answer_NoList(n, m) ==
  IF m.about = "product"
  THEN Message(m.about, n, "none")
  ELSE Message("nak", n, m.about)

(* The auto-responder answers whoever the request was sent to. *)

Answer(n, m) ==
  IF m.about \in {"product", "list"}
  THEN Message(m.about, n, "none")
  ELSE Message("nak", n, m.about)

HandleIsoRequest(n) ==
  /\ n # Watcher /\ port[n] # <<>>
  /\ LET m == Answer(n, Head(port[n])) IN
       \E lost \in SUBSET {Watcher} :
         Send(m, Everyone, lost) /\ port' = Posted(Taken(n), m, lost)
  /\ UNCHANGED <<node, registry, met, requests>>

-----------------------------------------------------------------------------
(* The registry.  The answers of its own ECU reach no listener.            *)

(* What a listener makes of an event. *)
Told(v, e) ==
  CASE e = "appeared" /\ v = "unknown" -> "online"
    [] e = "wentOffline" /\ v = "online" -> "offline"
    [] e = "cameOnline" /\ v = "offline" -> "online"
    [] e = "infoUpdated" /\ v = "online" -> "online"
    [] e = "disappeared" /\ v = "offline" -> "unknown"
    [] e = "none" -> v
    [] OTHER -> "confused"

(* One step tells of two events, or fewer, "none" being no event. *)
ToldBoth(v, first, second) == Told(Told(v, first), second)

(* A slip: the last-heard time is not renewed.                             *)
Heard_Late(d) == [d EXCEPT !.status = "online"]

(* The last-heard time, and online again. *)
Heard(d) == [d EXCEPT !.status = "online", !.silence = 0]

(* The parsers of the two PGNs with product data.                          *)
WithInfo(d, m) ==
  [d EXCEPT !.product = IF m.pgn = "product" THEN m.unit ELSE @,
            !.list = IF m.pgn = "list" THEN m.unit ELSE @]

(* A slip: nobody is told of a device that is back.                        *)
Presence_NoReturn(d) == IF d.status = "unknown" THEN "appeared" ELSE "none"

Presence(d) ==
  IF d.status = "unknown" THEN "appeared"
  ELSE IF d.status = "offline" THEN "cameOnline" ELSE "none"

News(m) == IF m.pgn \in {"product", "list"} THEN "infoUpdated" ELSE "none"

Tell(n, m) == view' = [view EXCEPT ![n] = ToldBoth(@, Presence(device[n]), News(m))]

(* A known device. *)
HearKnown ==
  /\ port[Watcher] # <<>>
  /\ LET m == Head(port[Watcher])
         n == m.from
     IN  /\ device[n].status # "unknown"
         /\ device' = [device EXCEPT ![n] = WithInfo(Heard(@), m)]
         /\ Tell(n, m)
         /\ skipped' = [t \in Talker |-> skipped[t] /\ (t # n \/ m.unit # unit[n])]
  /\ port' = Taken(Watcher)
  /\ UNCHANGED <<node, asking, checked, missed, met, bounds>>

(* A new one, whose product information is asked for. *)
HearNew ==
  /\ port[Watcher] # <<>>
  /\ LET m == Head(port[Watcher])
         n == m.from
         ask == Message("request", Watcher, "product")
     IN  /\ device[n].status = "unknown"
         /\ device' = [device EXCEPT ![n] = WithInfo(Heard(@), m)]
         /\ Tell(n, m)
         /\ met' = [met EXCEPT ![n] = m.unit]
         /\ IF n \in asking
            THEN /\ port' = Taken(Watcher)
                 /\ missed' = [missed EXCEPT ![n] = FALSE]
                 /\ skipped' = [t \in Talker |-> skipped[t] /\ (t # n \/ m.unit # unit[n])]
                 /\ UNCHANGED <<asking, losses>>
            ELSE \E lost \in SUBSET Device :
                   /\ lost \subseteq {k \in Device : Listens(k, ask)}
                   /\ losses + Cardinality(lost) <= MaxLosses
                   /\ losses' = losses + Cardinality(lost)
                   /\ port' = Posted(Taken(Watcher), ask, lost)
                   /\ missed' = [missed EXCEPT ![n] = n \in lost \/ up[n] # "on"]
                   /\ skipped' = [t \in Talker |-> skipped[t] /\ (t # n \/ m.unit # unit[n])]
                   /\ asking' = asking \cup {n}
  /\ UNCHANGED <<node, checked, requests>>

(* 250 ms later the PGN lists are asked for.  By then the messages sent    *)
(* before have been handled.                                               *)
AskForList(n) ==
  /\ n \in asking /\ Quiet
  /\ asking' = asking \ {n}
  /\ LET m == Message("request", Watcher, "list") IN
       \E lost \in SUBSET Device : Send(m, n, lost) /\ port' = Posted(port, m, lost)
  /\ UNCHANGED <<node, device, checked, view, met, requests>>

(* silence counts begun units: the time passed may be one less or one more. *)
MayExceed(d, timeout) == d.silence >= timeout

(* A slip: a timeout is noticed a unit too late.                           *)
Exceeds_Late(d, timeout) == d.silence > timeout + 1

Exceeds(d, timeout) == d.silence > timeout

Known(n) == device[n].status # "unknown"

(* A slip: who is removed is marked, and its entry used again.             *)
Removed_Marked(d) == [d EXCEPT !.status = "unknown", !.silence = 0]

Removed(d) == Absent

CheckTimeouts ==
  /\ \E over \in SUBSET Device, gone \in SUBSET Device :
       /\ gone \subseteq over
       /\ \A n \in over : Known(n) /\ MayExceed(device[n], OfflineTimeout)
       /\ \A n \in gone : MayExceed(device[n], RemoveTimeout)
       /\ \A n \in Device : Known(n) =>
            /\ Exceeds(device[n], OfflineTimeout) => n \in over
            /\ Exceeds(device[n], RemoveTimeout) => n \in gone
       /\ device' = [n \in Device |->
            IF n \in gone THEN Removed(device[n])
            ELSE IF n \in over THEN [device[n] EXCEPT !.status = "offline"]
            ELSE device[n]]
       /\ view' = [n \in Device |->
            ToldBoth(view[n],
              IF n \in over /\ device[n].status = "online" THEN "wentOffline" ELSE "none",
              IF n \in gone THEN "disappeared" ELSE "none")]
       /\ met' = [n \in Device |-> IF n \in gone THEN 0 ELSE met[n]]
       /\ missed' = [n \in Device |-> missed[n] /\ n \notin gone]
  /\ checked' = TRUE
  /\ UNCHANGED <<node, port, asking, skipped, bounds>>

-----------------------------------------------------------------------------
AllDone ==
  /\ Quiet
  /\ \A n \in Device : up[n] = "on" => beat[n] > 0
  /\ asking = {} /\ checked

(* Silence and absence are counted as far as they tell. *)
Later(i, most) == IF i < most THEN i + 1 ELSE i

Tick ==
  /\ AllDone
  /\ beat' = [n \in Device |-> IF up[n] = "on" THEN beat[n] - 1 ELSE 0]
  /\ away' = [n \in Device |->
       IF up[n] = "off" /\ Known(n) THEN Later(away[n], RemoveTimeout + 2) ELSE 0]
  /\ device' = [n \in Device |->
       IF Known(n)
       THEN [device[n] EXCEPT !.silence = Later(@, RemoveTimeout + 1)]
       ELSE device[n]]
  /\ checked' = FALSE
  /\ UNCHANGED <<up, unit, port, asking, view, history, bounds>>

Next ==
  \/ \E n \in Device :
       \/ Create(n) \/ Unplug(n)
       \/ Heartbeat(n)
       \/ HandleIsoRequest(n) \/ AskForList(n)
  \/ \E r \in Request : SendRequest(r)
  \/ HearKnown \/ HearNew \/ CheckTimeouts
  \/ Tick

Spec == Init /\ [][Next]_vars

-----------------------------------------------------------------------------
TypeOK ==
  /\ up \in [Node -> {"off", "on"}]
  /\ \A n \in Device : unit[n] \in 0..MaxPlugs[n]
  /\ beat \in [Device -> 0..Period]
  /\ \A n \in Node : \A i \in DOMAIN port[n] :
       /\ port[n][i].from \in Node \ {n}
       /\ port[n][i].pgn \in {"request", "data", "nak", "product", "list"}
  /\ \A n \in Device :
       /\ device[n].status \in {"unknown", "online", "offline"}
       /\ device[n].silence \in 0..RemoveTimeout + 1
       /\ {device[n].product, device[n].list} \subseteq 0..MaxPlugs[n]
  /\ asking \subseteq Device /\ checked \in BOOLEAN
  /\ requests \in 0..MaxRequests /\ losses \in 0..MaxLosses

(* The registry's events of a device fit together: who only listens to     *)
(* them knows at any time which devices there are and which are offline.   *)
ListenerFollows == \A n \in Device : view[n] = device[n].status

(* A node whose application sends data is not taken for offline while it   *)
(* is on the bus and none of its messages got lost.  (Its heartbeat alone  *)
(* does not keep a node online: no node of this code hears it.)            *)
NoFalseAlarm ==
  \A n \in Talker :
    (up[n] = "on" /\ ~skipped[n]) => device[n].status # "offline"

(* Who left the bus is offline once the offline timeout is over, and       *)
(* forgotten once the other is, although frames it sent before were heard  *)
(* after it had left.                                                      *)
AbsenceNoticed ==
  \A n \in Device : (checked /\ up[n] = "off" /\ Quiet) =>
    /\ away[n] > OfflineTimeout => device[n].status # "online"
    /\ away[n] > RemoveTimeout => device[n].status = "unknown"

(* Once all requests are answered, a device is known by its product data   *)
(* and its PGN list, unless a message was lost or another device has come  *)
(* to its address since it appeared.                                       *)
DeviceIsKnown ==
  \A n \in Device :
    (/\ Quiet /\ n \notin asking /\ Known(n)
     /\ ~missed[n] /\ unit[n] = met[n] /\ up[n] = "on")
    => device[n].product = unit[n] /\ device[n].list = unit[n]

(* What is known of a device comes from one that was at its address since  *)
(* the device appeared: what the registry removed does not come back.      *)
NothingOlder ==
  \A n \in Device : Known(n) =>
    /\ device[n].product \in {0} \cup met[n]..unit[n]
    /\ device[n].list \in {0} \cup met[n]..unit[n]
=============================================================================
