---------------------------- MODULE AddressClaim ----------------------------
(***************************************************************************)
(* J1939/81 address claiming: the AddressClaimer of every ECU on one CAN   *)
(* bus, driven by the receive thread of its Ecu (rx_loop).                 *)
(*                                                                         *)
(* One iteration of rx_loop is two steps: RxTick advances the claim timer  *)
(* and fires the claim callback, then the thread polls the socket and      *)
(* either times out or handles the frame at the head of its queue.  The    *)
(* bus delivers a frame to every other open socket, in bus order.          *)
(*                                                                         *)
(* Time is counted in units of which Window make the 250 ms claim window,  *)
(* and Milli one millisecond: the timer counts whole ones only.            *)
(* MaxLag bounds how far a receive thread may fall behind, in the same     *)
(* units: the age a queued frame, or the time since the last tick, may     *)
(* reach before the thread runs.                                           *)
(***************************************************************************)
EXTENDS Integers, Sequences, FiniteSets

CONSTANTS
  Node,         (* the ECUs, identified by their NAME                      *)
  Rank,         (* Rank[n]: the encoded NAME of n; the lower one outranks  *)
  Preferred,    (* Preferred[n]: the preferred_address n is created with   *)
  Null,         (* kNullAddress; the addresses a node may hold are below   *)
  Window,       (* kClaimWindow in time units                              *)
  Milli,        (* one millisecond in time units                           *)
  MaxLag,       (* the lag of a receive thread in time units               *)
  MaxSkew,      (* a node may be created until this many units have passed *)
  MaxStops,     (* bound: how many ECUs are destroyed                      *)
  MaxRequests,  (* bound: how many application requests for claims         *)
  QueueCap,     (* the frames a socket's receive buffer holds              *)
  NoNode        (* no NAME recorded                                        *)

Address == 0 .. (Null - 1)
Broadcast == Null + 1

ASSUME RankAssumption ==
  /\ Rank \in [Node -> Nat]
  /\ \A m, n \in Node : Rank[m] = Rank[n] => m = n
ASSUME AddressAssumption == Null \in Nat \ {0} /\ Preferred \in [Node -> Address]
ASSUME TimeAssumption ==
  /\ Window \in Nat \ {0} /\ Milli \in Nat \ {0} /\ MaxLag \in Nat \ {0} /\ MaxSkew \in Nat
ASSUME BoundAssumption ==
  MaxStops \in Nat /\ MaxRequests \in Nat /\ QueueCap \in Nat
ASSUME NoNodeAssumption == NoNode \notin Node

VARIABLES
  pc,        (* "off", or the next step of the receive thread              *)
  current,   (* AddressClaimer::current_                                   *)
  claimed,   (* AddressClaimer::claimed_                                   *)
  elapsed,   (* AddressClaimer::elapsed_, saturating at Window             *)
  peers,     (* AddressClaimer::peer_names_                                *)
  own,       (* Ecu::Impl::own_address                                     *)
  rxOwn,     (* transport::Receiver::own_                                  *)
  since,     (* time since last_tick of the receive thread                 *)
  inbox,     (* the frames queued in the node's socket                     *)
  reports,   (* calls of the claim callback: how many of each outcome      *)
  now,       (* time since the first creation, saturating                  *)
  stops,     (* ECUs destroyed so far                                      *)
  requests   (* application requests sent so far                           *)

claimer == <<current, claimed, elapsed, peers>>
ecu == <<own, rxOwn, reports>>
env == <<now, stops, requests>>
vars == <<pc, claimer, ecu, since, inbox, env>>

-----------------------------------------------------------------------------
(* Frames and the bus. *)

(* Both kinds of frame name their sender; only a claim transmits the NAME. *)
ClaimFrame(sa, n) ==
  [type |-> "claimed", sa |-> sa, da |-> Broadcast, name |-> n, age |-> 0]
RequestFrame(sa, da, n) ==
  [type |-> "request", sa |-> sa, da |-> da, name |-> n, age |-> 0]

Frame ==
  [type : {"claimed", "request"}, sa : Address \cup {Null},
   da : Address \cup {Null, Broadcast}, name : Node, age : 0 .. MaxLag]

On == {n \in Node : pc[n] # "off"}

(* A full receive buffer drops the frame. *)
Queue(q, f) == IF Len(q) < QueueCap THEN Append(q, f) ELSE q

(* The frame f of node n reaches every other open socket of box. *)
Sent(box, n, f) ==
  [m \in Node |-> IF m \in On \ {n} THEN Queue(box[m], f) ELSE box[m]]

Received(n) == [inbox EXCEPT ![n] = Tail(@)]

-----------------------------------------------------------------------------
(* The claimer's pure parts. *)

Outranks(m, n) == Rank[m] < Rank[n]

Least(S) == CHOOSE a \in S : \A b \in S : a <= b

(* Deviations, each the form an operator would take with one slip in the   *)
(* code, stand before the operator they deviate from; no specification     *)
(* uses them.  They show which property notices the slip.                  *)
FindFree_NextUp(known, preferred) ==          \* does not consult peer_names_
  IF preferred + 1 < Null THEN preferred + 1 ELSE 0
FindFree_NoWrap(known, preferred) ==          \* the second scan is missing
  LET above == {a \in Address : a >= preferred /\ known[a] = NoNode}
  IN  IF above = {} THEN Null ELSE Least(above)

(* The scan of find_free_address: from the preferred address up, then from *)
(* zero; Null when every address has a recorded peer.                      *)
FindFree(known, preferred) ==
  LET free  == {a \in Address : known[a] = NoNode}
      above == {a \in free : a >= preferred}
  IN  IF free = {} THEN Null
      ELSE IF above # {} THEN Least(above) ELSE Least(free)

Recorded_Never(n, sa, m) == peers[n]          \* peers are not remembered

(* peer_names_ of n after a claim of address sa by m. *)
Recorded(n, sa, m) == IF sa < Null THEN [peers[n] EXCEPT ![sa] = m] ELSE peers[n]

-----------------------------------------------------------------------------
Init ==
  /\ pc = [n \in Node |-> "off"]
  /\ current = [n \in Node |-> Preferred[n]]
  /\ claimed = [n \in Node |-> FALSE]
  /\ elapsed = [n \in Node |-> 0]
  /\ peers = [n \in Node |-> [a \in Address |-> NoNode]]
  /\ own = [n \in Node |-> Null]
  /\ rxOwn = [n \in Node |-> Preferred[n]]
  /\ reports = [n \in Node |-> [ok |-> 0, failed |-> 0]]
  /\ since = [n \in Node |-> 0]
  /\ inbox = [n \in Node |-> <<>>]
  /\ now = 0 /\ stops = 0 /\ requests = 0

(* Ecu::create: open the socket, claim the preferred address, ask every    *)
(* node for its claim, start the receive thread.                           *)
Create(n) ==
  /\ pc[n] = "off"
  /\ now <= MaxSkew
  /\ pc' = [pc EXCEPT ![n] = "tick"]
  /\ current' = [current EXCEPT ![n] = Preferred[n]]
  /\ claimed' = [claimed EXCEPT ![n] = FALSE]
  /\ elapsed' = [elapsed EXCEPT ![n] = 0]
  /\ peers' = [peers EXCEPT ![n] = [a \in Address |-> NoNode]]
  /\ own' = [own EXCEPT ![n] = Null]
  /\ rxOwn' = [rxOwn EXCEPT ![n] = Preferred[n]]
  /\ reports' = [reports EXCEPT ![n] = [ok |-> 0, failed |-> 0]]
  /\ since' = [since EXCEPT ![n] = 0]
  /\ inbox' = Sent(Sent([inbox EXCEPT ![n] = <<>>], n, ClaimFrame(Preferred[n], n)),
                   n, RequestFrame(Preferred[n], Broadcast, n))
  /\ UNCHANGED env

(* ~Ecu: the threads are joined and the socket closed; nothing is sent. *)
Destroy(n) ==
  /\ pc[n] # "off"
  /\ stops < MaxStops
  /\ stops' = stops + 1
  /\ pc' = [pc EXCEPT ![n] = "off"]
  /\ inbox' = [inbox EXCEPT ![n] = <<>>]
  /\ UNCHANGED <<claimer, ecu, since, now, requests>>

Older(q) == [i \in DOMAIN q |-> [q[i] EXCEPT !.age = @ + 1]]

(* Time passes, if no receive thread is MaxLag behind. *)
Elapse ==
  /\ On # {}
  /\ \A n \in On : /\ since[n] < MaxLag
                   /\ \A i \in DOMAIN inbox[n] : inbox[n][i].age < MaxLag
  /\ since' = [n \in Node |-> IF n \in On THEN since[n] + 1 ELSE since[n]]
  /\ inbox' = [n \in Node |-> IF n \in On THEN Older(inbox[n]) ELSE inbox[n]]
  /\ now' = IF now <= MaxSkew THEN now + 1 ELSE now
  /\ UNCHANGED <<pc, claimer, ecu, stops, requests>>

-----------------------------------------------------------------------------
(* The receive thread: tick, then poll. *)

Aged_Restart(n) ==                            \* elapsed_ = elapsed, not +=
  IF since[n] < Window THEN since[n] ELSE Window

(* elapsed_ after the tick.  What was left of the last millisecond is lost: *)
(* last_tick becomes now all the same.                                     *)
Aged(n) ==
  LET counted == since[n] - (since[n] % Milli)
  IN  IF elapsed[n] + counted < Window THEN elapsed[n] + counted ELSE Window

OneMore(k) == IF k < 2 THEN k + 1 ELSE k

Ticking(n) ==
  /\ pc[n] = "tick"
  /\ pc' = [pc EXCEPT ![n] = "poll"]
  /\ since' = [since EXCEPT ![n] = 0]
  /\ UNCHANGED <<current, peers, inbox, env>>

(* The claim has settled, or its window is still open. *)
TickIdle(n) ==
  /\ claimed[n] \/ Aged(n) < Window
  /\ Ticking(n)
  /\ elapsed' = IF claimed[n] THEN elapsed ELSE [elapsed EXCEPT ![n] = Aged(n)]
  /\ UNCHANGED <<claimed, ecu>>

TickClaimed_Again(n) ==                       \* is_claimed() is not consulted
  /\ Aged(n) = Window /\ current[n] # Null
  /\ Ticking(n)
  /\ claimed' = [claimed EXCEPT ![n] = TRUE]
  /\ elapsed' = [elapsed EXCEPT ![n] = Window]
  /\ own' = [own EXCEPT ![n] = current[n]]
  /\ rxOwn' = [rxOwn EXCEPT ![n] = current[n]]
  /\ reports' = [reports EXCEPT ![n].ok = OneMore(@)]

(* The window has passed and the node holds an address. *)
TickClaimed(n) ==
  /\ ~claimed[n] /\ Aged(n) = Window
  /\ current[n] # Null
  /\ Ticking(n)
  /\ claimed' = [claimed EXCEPT ![n] = TRUE]
  /\ elapsed' = [elapsed EXCEPT ![n] = Window]
  /\ own' = [own EXCEPT ![n] = current[n]]
  /\ rxOwn' = [rxOwn EXCEPT ![n] = current[n]]
  /\ reports' = [reports EXCEPT ![n].ok = OneMore(@)]

(* The window has passed and no address was left. *)
TickFailed(n) ==
  /\ ~claimed[n] /\ Aged(n) = Window
  /\ current[n] = Null
  /\ Ticking(n)
  /\ elapsed' = [elapsed EXCEPT ![n] = Window]
  /\ reports' = [reports EXCEPT ![n].failed = OneMore(@)]
  /\ UNCHANGED <<claimed, own, rxOwn>>

RxTick(n) == TickIdle(n) \/ TickClaimed(n) \/ TickFailed(n)

Polling(n) ==
  /\ pc[n] = "poll"
  /\ pc' = [pc EXCEPT ![n] = "tick"]
  /\ UNCHANGED <<claimed, ecu, since, env>>

(* No frame about addresses waits: socket.receive() times out or fails, or *)
(* the frame is another one, whose handling leaves the claimer alone.      *)
PollEmpty(n) ==
  /\ inbox[n] = <<>>
  /\ Polling(n)
  /\ UNCHANGED <<current, elapsed, peers, inbox>>

(* on_address_claimed: whatever is decided below, the peer is recorded. *)
Hearing(n, f) ==
  /\ f.type = "claimed"
  /\ Polling(n)
  /\ peers' = [peers EXCEPT ![n] = Recorded(n, f.sa, f.name)]

Contested_Always(n, f) == f.sa = current[n]   \* claimed_ is not consulted

Contested(n, f) == f.sa = current[n] /\ ~claimed[n]

(* The claim is for another address, or this node has settled on its own. *)
HearClaim(n, f) ==
  /\ Hearing(n, f)
  /\ ~Contested(n, f)
  /\ inbox' = Received(n)
  /\ UNCHANGED <<current, elapsed>>

(* This node's NAME has priority: it repeats its claim. *)
Defend(n, f) ==
  /\ Hearing(n, f)
  /\ Contested(n, f) /\ ~Outranks(f.name, n)
  /\ inbox' = Sent(Received(n), n, ClaimFrame(current[n], n))
  /\ UNCHANGED <<current, elapsed>>

(* The other NAME has priority: claim the next address no peer is known    *)
(* to use and restart the window, or send Cannot Claim.                    *)
Yield(n, f) ==
  LET alt == FindFree(Recorded(n, f.sa, f.name), Preferred[n])
  IN  /\ Hearing(n, f)
      /\ Contested(n, f) /\ Outranks(f.name, n)
      /\ current' = [current EXCEPT ![n] = alt]
      /\ elapsed' = IF alt # Null THEN [elapsed EXCEPT ![n] = 0] ELSE elapsed
      /\ inbox' = Sent(Received(n), n, ClaimFrame(alt, n))

(* A Request is answered only when it names the node's own address:        *)
(* is_broadcast() looks at the PDU format, and a Request is never PDU2.    *)
IsBroadcast(f) == f.type # "request"

HearRequest(n, f) ==
  /\ f.type = "request"
  /\ Polling(n)
  /\ inbox' = IF IsBroadcast(f) \/ f.da = own[n]
              THEN Sent(Received(n), n, ClaimFrame(current[n], n))
              ELSE Received(n)
  /\ UNCHANGED <<current, elapsed, peers>>

Handle(n, f) == HearClaim(n, f) \/ Defend(n, f) \/ Yield(n, f) \/ HearRequest(n, f)

RxPoll(n) == PollEmpty(n) \/ (inbox[n] # <<>> /\ Handle(n, Head(inbox[n])))

(* Ecu::send_request(da, AddressClaimed) by an application. *)
SendRequest(n, da) ==
  /\ pc[n] # "off"
  /\ requests < MaxRequests
  /\ requests' = requests + 1
  /\ inbox' = Sent(inbox, n, RequestFrame(own[n], da, n))
  /\ UNCHANGED <<pc, claimer, ecu, since, now, stops>>

-----------------------------------------------------------------------------
RxStep(n) == RxTick(n) \/ RxPoll(n)

Next ==
  \/ Elapse
  \/ \E n \in Node : \/ Create(n) \/ Destroy(n) \/ RxStep(n)
                     \/ \E da \in Address \cup {Broadcast} : SendRequest(n, da)

Spec == Init /\ [][Next]_vars

(* Receive threads keep looping and time keeps passing. *)
Fairness == WF_vars(Elapse) /\ \A n \in Node : WF_vars(RxStep(n))

FairSpec == Spec /\ Fairness

-----------------------------------------------------------------------------
TypeOK ==
  /\ pc \in [Node -> {"off", "tick", "poll"}]
  /\ current \in [Node -> Address \cup {Null}]
  /\ claimed \in [Node -> BOOLEAN]
  /\ elapsed \in [Node -> 0 .. Window]
  /\ peers \in [Node -> [Address -> Node \cup {NoNode}]]
  /\ own \in [Node -> Address \cup {Null}]
  /\ rxOwn \in [Node -> Address \cup {Null}]
  /\ reports \in [Node -> [ok : 0 .. 2, failed : 0 .. 2]]
  /\ since \in [Node -> 0 .. MaxLag]
  /\ inbox \in [Node -> Seq(Frame)]
  /\ now \in 0 .. (MaxSkew + 1)
  /\ stops \in 0 .. MaxStops
  /\ requests \in 0 .. MaxRequests

(* No two ECUs that settled on an address settled on the same one          *)
(* (tick returns the claimed address, rx_loop makes it own_address).       *)
UniqueAddresses ==
  \A m, n \in On : m # n /\ claimed[m] /\ claimed[n] => current[m] # current[n]

(* While it is still claiming, a node never sits on an address whose last  *)
(* heard claimant has priority over it (on_address_claimed must have       *)
(* yielded, and find_free_address must not have walked into such a peer).  *)
NoUsurping ==
  \A n \in On : ~claimed[n] /\ current[n] # Null /\ peers[n][current[n]] # NoNode
                  => ~Outranks(peers[n][current[n]], n)

(* A node gives up only when a claim was heard for every single address. *)
GivesUpOnlyWhenFull ==
  \A n \in On : current[n] = Null => \A a \in Address : peers[n][a] # NoNode

(* The application hears of success at most once, never of both outcomes,  *)
(* and of success exactly when the stack sends and filters with the        *)
(* address the claimer holds.                                              *)
ReportMatchesState ==
  \A n \in On :
    /\ reports[n].ok = (IF claimed[n] THEN 1 ELSE 0)
    /\ reports[n].ok = 0 \/ reports[n].failed = 0
    /\ claimed[n] => own[n] = current[n] /\ rxOwn[n] = current[n] /\ current[n] # Null
    /\ ~claimed[n] => own[n] = Null

(* A reported failure is final: only Null is left to the node. *)
FailureStands ==
  \A n \in On : reports[n].failed > 0 => current[n] = Null /\ ~claimed[n]

(* The inductive invariant behind the four properties above. *)
ClaimInv ==
  TypeOK /\ NoUsurping /\ GivesUpOnlyWhenFull /\ ReportMatchesState /\ FailureStands

(* The tick finds that at least a millisecond has passed since the last. *)
Rested(n) == pc[n] = "tick" /\ since[n] >= Milli

(* Every ECU that stays up, and whose receive thread again and again has a *)
(* millisecond between two passes (a bus that is quiet for the time-out of *)
(* a receive gives it ten), eventually tells its application the outcome,  *)
(* however often it had to move and its window began anew.                 *)
EventuallySettles ==
  \A n \in Node :
    []<>(pc[n] = "off" \/ Rested(n))
      => (pc[n] # "off" ~> (pc[n] = "off" \/ reports[n].ok + reports[n].failed > 0))
=============================================================================
