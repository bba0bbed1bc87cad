------------------------- MODULE AddressClaimProofs -------------------------
(***************************************************************************)
(* Proofs about address claiming for any set of nodes, any NAMEs and any   *)
(* number of addresses.                                                    *)
(*                                                                         *)
(* The first half proves ClaimInv, what one node knows of itself and its   *)
(* peers, without any assumption on time.  The second half, from "Unique   *)
(* addresses" on, is about two nodes racing against the claim window.      *)
(***************************************************************************)
EXTENDS AddressClaim, WellFoundedInduction, SequenceTheorems, TLAPS

-----------------------------------------------------------------------------
(* The scan of find_free_address. *)

NatLess == {p \in Nat \X Nat : p[1] < p[2]}

(* Every nonempty set of natural numbers has a least element. *)
LEMMA LeastExists ==
  ASSUME NEW S \in SUBSET Nat, S # {}
  PROVE  Least(S) \in S /\ \A b \in S : Least(S) <= b
<1>1. IsWellFoundedOn(NatLess, Nat)
  BY NatLessThanWellFounded DEF OpToRel, NatLess
<1>2. PICK x \in S : \A y \in S : <<y, x>> \notin NatLess
  BY <1>1, WFMin
<1>3. ASSUME NEW y \in S PROVE x <= y
  <2>1. x \in Nat /\ y \in Nat
    OBVIOUS
  <2>2. y < x => <<y, x>> \in NatLess
    BY <2>1 DEF NatLess
  <2> QED
    BY <1>2, <2>1, <2>2
<1> QED
  BY <1>3 DEF Least

(* find_free_address yields an address no peer is recorded for, or, when   *)
(* there is none, kNullAddress.                                            *)
LEMMA FindFreeResult ==
  ASSUME NEW known \in [Address -> Node \cup {NoNode}], NEW p \in Address
  PROVE  \/ FindFree(known, p) \in Address /\ known[FindFree(known, p)] = NoNode
         \/ FindFree(known, p) = Null /\ \A a \in Address : known[a] # NoNode
<1> DEFINE free  == {a \in Address : known[a] = NoNode}
           above == {a \in free : a >= p}
<1>1. free \in SUBSET Nat /\ above \in SUBSET Nat
  BY AddressAssumption DEF Address
<1>2. CASE free = {}
  BY <1>2 DEF FindFree
<1>3. CASE free # {} /\ above # {}
  <2>1. Least(above) \in above
    BY <1>1, <1>3, LeastExists
  <2> QED
    BY <1>3, <2>1 DEF FindFree
<1>4. CASE free # {} /\ above = {}
  <2>1. Least(free) \in free
    BY <1>1, <1>4, LeastExists
  <2> QED
    BY <1>4, <2>1 DEF FindFree
<1> QED
  BY <1>2, <1>3, <1>4

-----------------------------------------------------------------------------
(* The bus keeps the queues well typed. *)

LEMMA QueueType ==
  ASSUME NEW q \in Seq(Frame), NEW f \in Frame
  PROVE  Queue(q, f) \in Seq(Frame)
BY AppendProperties DEF Queue

LEMMA SentType ==
  ASSUME NEW box \in [Node -> Seq(Frame)], NEW n \in Node, NEW f \in Frame
  PROVE  Sent(box, n, f) \in [Node -> Seq(Frame)]
BY QueueType DEF Sent

LEMMA FrameTypes ==
  ASSUME NEW n \in Node, NEW a \in Address \cup {Null},
         NEW d \in Address \cup {Null, Broadcast}
  PROVE  ClaimFrame(a, n) \in Frame /\ RequestFrame(a, d, n) \in Frame
BY TimeAssumption DEF ClaimFrame, RequestFrame, Frame

LEMMA OlderType ==
  ASSUME NEW q \in Seq(Frame), \A i \in DOMAIN q : q[i].age < MaxLag
  PROVE  Older(q) \in Seq(Frame)
<1>1. Len(q) \in Nat /\ DOMAIN q = 1 .. Len(q) /\ \A i \in 1 .. Len(q) : q[i] \in Frame
  BY ElementOfSeq, LenProperties
<1>2. ASSUME NEW i \in 1 .. Len(q) PROVE [q[i] EXCEPT !.age = @ + 1] \in Frame
  <2>1. q[i] \in Frame /\ q[i].age < MaxLag
    BY <1>1
  <2>2. q[i].age + 1 \in 0 .. MaxLag
    BY <2>1, TimeAssumption DEF Frame
  <2> QED
    BY <2>1, <2>2 DEF Frame
<1>3. [i \in 1 .. Len(q) |-> [q[i] EXCEPT !.age = @ + 1]] \in [1 .. Len(q) -> Frame]
  BY <1>2
<1> QED
  BY <1>1, <1>3, SeqDef DEF Older

LEMMA HeadTyped ==
  ASSUME TypeOK, NEW n \in Node, inbox[n] # <<>>
  PROVE  /\ Head(inbox[n]) \in Frame
         /\ Received(n) \in [Node -> Seq(Frame)]
BY HeadTailProperties DEF TypeOK, Received

-----------------------------------------------------------------------------
(* Type correctness. *)

LEMMA TypeInit == Init => TypeOK
BY AddressAssumption, TimeAssumption, BoundAssumption, EmptySeq
DEF Init, TypeOK, Address

LEMMA TypeCreate ==
  ASSUME TypeOK, NEW n \in Node, Create(n)
  PROVE  TypeOK'
<1>1. inbox' \in [Node -> Seq(Frame)]
  <2> DEFINE box == [inbox EXCEPT ![n] = <<>>]
  <2>1. box \in [Node -> Seq(Frame)]
    BY EmptySeq DEF TypeOK
  <2>2. Preferred[n] \in Address
    BY AddressAssumption
  <2>3. /\ ClaimFrame(Preferred[n], n) \in Frame
        /\ RequestFrame(Preferred[n], Broadcast, n) \in Frame
    BY <2>2, FrameTypes
  <2>4. Sent(box, n, ClaimFrame(Preferred[n], n)) \in [Node -> Seq(Frame)]
    BY <2>1, <2>3, SentType
  <2> QED
    BY <2>3, <2>4, SentType DEF Create
<1>2. /\ peers' \in [Node -> [Address -> Node \cup {NoNode}]]
      /\ reports' \in [Node -> [ok : 0 .. 2, failed : 0 .. 2]]
  BY DEF TypeOK, Create
<1>3. /\ current' \in [Node -> Address \cup {Null}]
      /\ own' \in [Node -> Address \cup {Null}]
      /\ rxOwn' \in [Node -> Address \cup {Null}]
  BY AddressAssumption DEF TypeOK, Create
<1>4. /\ elapsed' \in [Node -> 0 .. Window]
      /\ since' \in [Node -> 0 .. MaxLag]
  BY TimeAssumption DEF TypeOK, Create
<1>5. /\ pc' \in [Node -> {"off", "tick", "poll"}]
      /\ claimed' \in [Node -> BOOLEAN]
      /\ UNCHANGED <<now, stops, requests>>
  BY DEF TypeOK, Create, env
<1> QED
  BY <1>1, <1>2, <1>3, <1>4, <1>5 DEF TypeOK

LEMMA TypeElapse == TypeOK /\ Elapse => TypeOK'
<1> SUFFICES ASSUME TypeOK, Elapse PROVE TypeOK'
  OBVIOUS
<1>1. ASSUME NEW n \in On PROVE Older(inbox[n]) \in Seq(Frame)
  BY OlderType DEF Elapse, TypeOK, On
<1>2. inbox' \in [Node -> Seq(Frame)]
  BY <1>1 DEF Elapse, TypeOK
<1>3. since' \in [Node -> 0 .. MaxLag]
  BY TimeAssumption DEF Elapse, TypeOK
<1>4. now' \in 0 .. (MaxSkew + 1)
  BY TimeAssumption DEF Elapse, TypeOK
<1> QED
  BY <1>2, <1>3, <1>4 DEF Elapse, TypeOK, claimer, ecu

LEMMA TypeDestroy ==
  ASSUME TypeOK, NEW n \in Node, Destroy(n)
  PROVE  TypeOK'
BY BoundAssumption, EmptySeq DEF TypeOK, Destroy, claimer, ecu

LEMMA TypeRequest ==
  ASSUME TypeOK, NEW n \in Node, NEW da \in Address \cup {Broadcast}, SendRequest(n, da)
  PROVE  TypeOK'
<1>1. RequestFrame(own[n], da, n) \in Frame
  BY FrameTypes DEF TypeOK
<1>2. inbox' \in [Node -> Seq(Frame)]
  BY <1>1, SentType DEF TypeOK, SendRequest
<1> QED
  BY <1>2, BoundAssumption DEF TypeOK, SendRequest, claimer, ecu

(* The timer never runs ahead of the clock. *)
LEMMA AgedType ==
  ASSUME TypeOK, NEW n \in Node
  PROVE  /\ Aged(n) \in 0 .. Window
         /\ elapsed[n] + since[n] < Window
              => Aged(n) # Window /\ Aged(n) <= elapsed[n] + since[n]
<1> DEFINE left == since[n] % Milli
<1>1. /\ since[n] \in Nat /\ elapsed[n] \in 0 .. Window
      /\ Milli \in Nat \ {0} /\ Window \in Nat \ {0}
  BY TimeAssumption DEF TypeOK
<1>2. left \in Nat /\ left <= since[n]
  <2>1. left \in 0 .. Milli - 1 /\ since[n] = Milli * (since[n] \div Milli) + left
    BY <1>1
  <2>2. since[n] \div Milli \in Nat
    BY <1>1
  <2>3. Milli * (since[n] \div Milli) \in Nat
    BY <1>1, <2>2
  <2> QED
    BY <1>1, <2>1, <2>3
<1>3. Aged(n) = IF elapsed[n] + (since[n] - left) < Window
                THEN elapsed[n] + (since[n] - left) ELSE Window
  BY DEF Aged
<1> HIDE DEF left
<1> QED
  BY <1>1, <1>2, <1>3

LEMMA TypeTick ==
  ASSUME TypeOK, NEW n \in Node, RxTick(n)
  PROVE  TypeOK'
<1>0. /\ reports \in [Node -> [ok : 0 .. 2, failed : 0 .. 2]]
      /\ OneMore(reports[n].ok) \in 0 .. 2 /\ OneMore(reports[n].failed) \in 0 .. 2
  <2>1. reports[n] \in [ok : 0 .. 2, failed : 0 .. 2]
    BY DEF TypeOK
  <2> QED
    BY <2>1 DEF OneMore, TypeOK
<1>1. Aged(n) \in 0 .. Window
  BY AgedType
<1>2. Ticking(n)
  BY DEF RxTick, TickIdle, TickClaimed, TickFailed
<1>3. /\ pc' \in [Node -> {"off", "tick", "poll"}]
      /\ since' \in [Node -> 0 .. MaxLag]
      /\ UNCHANGED <<current, peers, inbox, now, stops, requests>>
  BY <1>2, TimeAssumption DEF Ticking, TypeOK, env
<1>4. CASE TickIdle(n)
  BY <1>1, <1>3, <1>4 DEF TickIdle, TypeOK, ecu
<1>5. CASE TickClaimed(n)
  <2>1. reports' \in [Node -> [ok : 0 .. 2, failed : 0 .. 2]]
    BY <1>5, <1>0 DEF TickClaimed, TypeOK
  <2> QED
    BY <1>3, <1>5, <2>1, TimeAssumption DEF TickClaimed, TypeOK
<1>6. CASE TickFailed(n)
  <2>1. reports' \in [Node -> [ok : 0 .. 2, failed : 0 .. 2]]
    BY <1>6, <1>0 DEF TickFailed, TypeOK
  <2> QED
    BY <1>3, <1>6, <2>1, TimeAssumption DEF TickFailed, TypeOK
<1> QED
  BY <1>4, <1>5, <1>6 DEF RxTick

(* What peer_names_ holds once a claim has been recorded. *)
LEMMA RecordedType ==
  ASSUME TypeOK, NEW n \in Node, NEW m \in Node, NEW sa \in Address \cup {Null}
  PROVE  /\ Recorded(n, sa, m) \in [Address -> Node \cup {NoNode}]
         /\ sa \in Address => Recorded(n, sa, m)[sa] = m
         /\ \A a \in Address : a # sa => Recorded(n, sa, m)[a] = peers[n][a]
BY AddressAssumption DEF Recorded, TypeOK, Address

LEMMA YieldTarget ==
  ASSUME TypeOK, NEW n \in Node, NEW f \in Frame
  PROVE  FindFree(Recorded(n, f.sa, f.name), Preferred[n]) \in Address \cup {Null}
<1>1. f.sa \in Address \cup {Null} /\ f.name \in Node
  BY DEF Frame
<1>2. Recorded(n, f.sa, f.name) \in [Address -> Node \cup {NoNode}]
  BY <1>1, RecordedType
<1> QED
  BY <1>2, FindFreeResult, AddressAssumption

LEMMA TypePoll ==
  ASSUME TypeOK, NEW n \in Node, RxPoll(n)
  PROVE  TypeOK'
<1>1. CASE PollEmpty(n)
  BY <1>1 DEF PollEmpty, Polling, TypeOK, ecu, env
<1>2. CASE inbox[n] # <<>> /\ Handle(n, Head(inbox[n]))
  <2> DEFINE f == Head(inbox[n])
  <2>1. f \in Frame /\ Received(n) \in [Node -> Seq(Frame)]
    BY <1>2, HeadTyped
  <2>2. f.sa \in Address \cup {Null} /\ f.name \in Node
    BY <2>1 DEF Frame
  <2> HIDE DEF f
  <2>3. Recorded(n, f.sa, f.name) \in [Address -> Node \cup {NoNode}]
    BY <2>2, RecordedType
  <2>4. \A a \in Address \cup {Null} :
          Sent(Received(n), n, ClaimFrame(a, n)) \in [Node -> Seq(Frame)]
    BY <2>1, FrameTypes, SentType
  <2>5. Polling(n)
    BY <1>2 DEF Handle, HearClaim, Defend, Yield, HearRequest, Hearing, f
  <2>6. peers' \in [Node -> [Address -> Node \cup {NoNode}]]
    BY <1>2, <2>3 DEF Handle, HearClaim, Defend, Yield, HearRequest, Hearing, f, TypeOK
  <2>7. FindFree(Recorded(n, f.sa, f.name), Preferred[n]) \in Address \cup {Null}
    BY <2>1, YieldTarget
  <2>8. inbox' \in [Node -> Seq(Frame)]
    BY <1>2, <2>1, <2>4, <2>7
    DEF Handle, HearClaim, Defend, Yield, HearRequest, f, TypeOK
  <2>9. /\ current' \in [Node -> Address \cup {Null}]
        /\ elapsed' \in [Node -> 0 .. Window]
    <3>1. CASE UNCHANGED <<current, elapsed>>
      BY <3>1 DEF TypeOK
    <3>2. CASE Yield(n, f)
      BY <2>7, <3>2, TimeAssumption DEF Yield, TypeOK
    <3> QED
      BY <1>2, <3>1, <3>2 DEF Handle, HearClaim, Defend, HearRequest, f
  <2> QED
    BY <2>5, <2>6, <2>8, <2>9 DEF Polling, TypeOK, ecu, env
<1> QED
  BY <1>1, <1>2 DEF RxPoll

LEMMA TypeNext == TypeOK /\ [Next]_vars => TypeOK'
<1> SUFFICES ASSUME TypeOK, [Next]_vars PROVE TypeOK'
  OBVIOUS
<1>1. CASE UNCHANGED vars
  BY <1>1 DEF TypeOK, vars, claimer, ecu, env
<1>2. CASE Elapse
  BY <1>2, TypeElapse
<1>3. ASSUME NEW n \in Node, Create(n) \/ Destroy(n) \/ RxStep(n) PROVE TypeOK'
  BY <1>3, TypeCreate, TypeDestroy, TypeTick, TypePoll DEF RxStep
<1>4. ASSUME NEW n \in Node, NEW da \in Address \cup {Broadcast}, SendRequest(n, da)
      PROVE  TypeOK'
  BY <1>4, TypeRequest
<1> QED
  BY <1>1, <1>2, <1>3, <1>4 DEF Next

(* The variables keep their types: every queue holds well-formed frames,   *)
(* every address in use is a real one or kNullAddress.                     *)
THEOREM TypeCorrect == Spec => []TypeOK
<1>1. Init => TypeOK
  BY TypeInit
<1>2. TypeOK /\ [Next]_vars => TypeOK'
  BY TypeNext
<1> QED
  BY <1>1, <1>2, PTL DEF Spec

-----------------------------------------------------------------------------
(* The inductive invariant ClaimInv.  The parts of it about one node:      *)

Safe(n) ==
  /\ ~claimed[n] /\ current[n] # Null /\ peers[n][current[n]] # NoNode
       => ~Outranks(peers[n][current[n]], n)
  /\ current[n] = Null => \A a \in Address : peers[n][a] # NoNode
  /\ reports[n].ok = (IF claimed[n] THEN 1 ELSE 0)
  /\ reports[n].ok = 0 \/ reports[n].failed = 0
  /\ claimed[n] => own[n] = current[n] /\ rxOwn[n] = current[n] /\ current[n] # Null
  /\ ~claimed[n] => own[n] = Null
  /\ reports[n].failed > 0 => current[n] = Null /\ ~claimed[n]

LEMMA ClaimInvByNode == ClaimInv <=> TypeOK /\ \A n \in On : Safe(n)
BY DEF ClaimInv, Safe, NoUsurping, GivesUpOnlyWhenFull, ReportMatchesState, FailureStands

(* A node whose claimer, addresses and reports did not change stays safe. *)
LEMMA SafeUntouched ==
  ASSUME TypeOK, NEW n \in Node, Safe(n),
         current'[n] = current[n], claimed'[n] = claimed[n], peers'[n] = peers[n],
         own'[n] = own[n], rxOwn'[n] = rxOwn[n], reports'[n] = reports[n]
  PROVE  Safe(n)'
BY DEF Safe, Outranks

LEMMA SafeCreate ==
  ASSUME TypeOK, NEW n \in Node, Create(n)
  PROVE  Safe(n)'
<1>1. /\ current'[n] = Preferred[n] /\ claimed'[n] = FALSE /\ own'[n] = Null
      /\ peers'[n] = [a \in Address |-> NoNode]
      /\ reports'[n] = [ok |-> 0, failed |-> 0]
  BY DEF Create, TypeOK
<1>2. Preferred[n] \in Address /\ Preferred[n] # Null
  BY AddressAssumption DEF Address
<1> QED
  BY <1>1, <1>2 DEF Safe

LEMMA SafeTick ==
  ASSUME TypeOK, NEW n \in Node, Safe(n), RxTick(n)
  PROVE  Safe(n)'
<1>1. CASE TickIdle(n)
  BY <1>1, SafeUntouched DEF TickIdle, Ticking, ecu
<1>2. CASE TickClaimed(n)
  <2>1. /\ claimed'[n] = TRUE /\ ~claimed[n] /\ current[n] # Null
        /\ UNCHANGED <<current, peers>>
        /\ own'[n] = current[n] /\ rxOwn'[n] = current[n]
    BY <1>2 DEF TickClaimed, Ticking, TypeOK
  <2>2. reports[n] \in [ok : 0 .. 2, failed : 0 .. 2]
    BY DEF TypeOK
  <2>3. reports'[n] = [reports[n] EXCEPT !.ok = OneMore(@)]
    BY <1>2 DEF TickClaimed, TypeOK
  <2>4. reports[n].ok = 0 /\ reports[n].failed = 0
    BY <2>1, <2>2 DEF Safe
  <2>5. reports'[n].ok = 1 /\ reports'[n].failed = 0
    BY <2>2, <2>3, <2>4 DEF OneMore
  <2> QED
    BY <2>1, <2>5 DEF Safe
<1>3. CASE TickFailed(n)
  BY <1>3 DEF TickFailed, Ticking, Safe, TypeOK, OneMore
<1> QED
  BY <1>1, <1>2, <1>3 DEF RxTick

LEMMA SafePoll ==
  ASSUME TypeOK, NEW n \in Node, Safe(n), RxPoll(n)
  PROVE  Safe(n)'
<1>1. CASE PollEmpty(n)
  BY <1>1, SafeUntouched DEF PollEmpty, Polling, ecu
<1>2. CASE inbox[n] # <<>> /\ Handle(n, Head(inbox[n]))
  <2> DEFINE f == Head(inbox[n])
  <2>1. f \in Frame
    BY <1>2, HeadTyped
  <2>2. f.sa \in Address \cup {Null} /\ f.name \in Node
    BY <2>1 DEF Frame
  <2> HIDE DEF f
  <2> DEFINE R == Recorded(n, f.sa, f.name)
  <2>3. /\ R \in [Address -> Node \cup {NoNode}]
        /\ f.sa \in Address => R[f.sa] = f.name
        /\ \A a \in Address : a # f.sa => R[a] = peers[n][a]
        /\ Null \notin Address
    BY <2>2, RecordedType, AddressAssumption DEF Address
  <2>4. /\ UNCHANGED <<claimed, own, rxOwn, reports>>
        /\ f.type = "claimed" => peers' = [peers EXCEPT ![n] = R]
    BY <1>2
    DEF Handle, HearClaim, Defend, Yield, HearRequest, Hearing, Polling, f, ecu
  <2>5. CASE HearClaim(n, f)
    <3>1. /\ peers'[n] = R /\ current' = current
          /\ claimed[n] \/ f.sa # current[n]
      BY <2>4, <2>5 DEF HearClaim, Hearing, Contested, TypeOK
    <3> QED
      BY <2>2, <2>3, <2>4, <3>1, NoNodeAssumption DEF Safe, TypeOK, Outranks
  <2>6. CASE Defend(n, f)
    <3>1. /\ peers'[n] = R /\ current' = current
          /\ f.sa = current[n] /\ ~Outranks(f.name, n)
      BY <2>4, <2>6 DEF Defend, Hearing, Contested, TypeOK
    <3> QED
      BY <2>2, <2>3, <2>4, <3>1, NoNodeAssumption DEF Safe, TypeOK, Outranks
  <2>7. CASE Yield(n, f)
    <3>1. /\ peers'[n] = R /\ current'[n] = FindFree(R, Preferred[n])
          /\ ~claimed[n] /\ f.sa = current[n]
      BY <2>4, <2>7 DEF Yield, Hearing, Contested, TypeOK
    <3>2. \/ FindFree(R, Preferred[n]) \in Address /\ R[FindFree(R, Preferred[n])] = NoNode
          \/ FindFree(R, Preferred[n]) = Null /\ \A a \in Address : R[a] # NoNode
      BY <2>3, FindFreeResult, AddressAssumption
    <3>3. current[n] = Null => current'[n] = Null
      BY <2>3, <3>1, <3>2 DEF Safe
    <3> HIDE DEF R
    <3> QED
      BY <2>3, <2>4, <3>1, <3>2, <3>3 DEF Safe
  <2>8. CASE HearRequest(n, f)
    BY <2>4, <2>8, SafeUntouched DEF HearRequest
  <2> QED
    BY <1>2, <2>5, <2>6, <2>7, <2>8 DEF Handle, f
<1> QED
  BY <1>1, <1>2 DEF RxPoll

(* A step of node n leaves every other node's claimer alone. *)
LEMMA OthersUntouched ==
  ASSUME TypeOK, NEW n \in Node, NEW m \in Node, m # n,
         Create(n) \/ Destroy(n) \/ RxStep(n)
  PROVE  /\ pc'[m] = pc[m] /\ current'[m] = current[m] /\ claimed'[m] = claimed[m]
         /\ peers'[m] = peers[m] /\ own'[m] = own[m] /\ rxOwn'[m] = rxOwn[m]
         /\ reports'[m] = reports[m]
<1>1. CASE Create(n)
  BY <1>1 DEF Create, TypeOK
<1>2. CASE Destroy(n)
  BY <1>2 DEF Destroy, claimer, ecu, TypeOK
<1>3. CASE RxTick(n)
  BY <1>3 DEF RxTick, TickIdle, TickClaimed, TickFailed, Ticking, ecu, TypeOK
<1>4. CASE RxPoll(n)
  BY <1>4 DEF RxPoll, PollEmpty, Handle, HearClaim, Defend, Yield, HearRequest,
              Hearing, Polling, ecu, TypeOK
<1> QED
  BY <1>1, <1>2, <1>3, <1>4 DEF RxStep

LEMMA ClaimInvNext == ClaimInv /\ [Next]_vars => ClaimInv'
<1> SUFFICES ASSUME ClaimInv, [Next]_vars PROVE ClaimInv'
  OBVIOUS
<1>1. TypeOK /\ TypeOK' /\ \A m \in On : Safe(m)
  BY ClaimInvByNode, TypeNext
<1>2. SUFFICES ASSUME NEW m \in Node, pc'[m] # "off" PROVE Safe(m)'
  <2>1. \A m \in On' : Safe(m)'
    BY <1>2 DEF On
  <2> QED
    BY <1>1, <2>1 DEF ClaimInv, Safe, NoUsurping, GivesUpOnlyWhenFull,
                      ReportMatchesState, FailureStands
<1>3. CASE \/ UNCHANGED vars
           \/ Elapse
           \/ \E n \in Node, da \in Address \cup {Broadcast} : SendRequest(n, da)
  <2>1. UNCHANGED <<pc, current, claimed, peers, own, rxOwn, reports>>
    BY <1>3 DEF vars, Elapse, SendRequest, claimer, ecu
  <2> QED
    BY <1>1, <1>2, <2>1, SafeUntouched DEF On
<1>4. ASSUME NEW n \in Node, Create(n) \/ Destroy(n) \/ RxStep(n), n # m
      PROVE  Safe(m)'
  BY <1>1, <1>2, <1>4, OthersUntouched, SafeUntouched DEF On
<1>5. CASE Create(m) \/ Destroy(m) \/ RxStep(m)
  <2>1. CASE Create(m)
    BY <1>1, <2>1, SafeCreate
  <2>2. CASE Destroy(m)
    BY <1>1, <1>2, <2>2 DEF Destroy, TypeOK
  <2>3. CASE RxStep(m)
    <3>1. m \in On
      BY <2>3 DEF RxStep, RxTick, TickIdle, TickClaimed, TickFailed, Ticking, RxPoll,
                  PollEmpty, Handle, HearClaim, Defend, Yield, HearRequest, Hearing,
                  Polling, On
    <3> QED
      BY <1>1, <2>3, <3>1, SafeTick, SafePoll DEF RxStep
  <2> QED
    BY <1>5, <2>1, <2>2, <2>3
<1> QED
  BY <1>3, <1>4, <1>5 DEF Next

LEMMA ClaimInvInit == Init => ClaimInv
<1>1. Init => On = {}
  BY DEF Init, On
<1> QED
  BY <1>1, TypeInit, ClaimInvByNode

THEOREM ClaimInvariant == Spec => []ClaimInv
BY ClaimInvInit, ClaimInvNext, PTL DEF Spec

(* However many nodes contend and in whatever order their frames arrive, a *)
(* node still claiming has yielded to every stronger NAME it heard of on   *)
(* its address.                                                            *)
THEOREM NeverUsurps == Spec => []NoUsurping
<1>1. ClaimInv => NoUsurping
  BY DEF ClaimInv
<1> QED
  BY <1>1, ClaimInvariant, PTL

(* A node sends Cannot Claim only after hearing a claim of every address. *)
THEOREM GivesUpLast == Spec => []GivesUpOnlyWhenFull
<1>1. ClaimInv => GivesUpOnlyWhenFull
  BY DEF ClaimInv
<1> QED
  BY <1>1, ClaimInvariant, PTL

(* What the application was told, what the claimer holds and what the      *)
(* stack sends and filters with agree.                                     *)
THEOREM ReportsAgree == Spec => []ReportMatchesState
<1>1. ClaimInv => ReportMatchesState
  BY DEF ClaimInv
<1> QED
  BY <1>1, ClaimInvariant, PTL

-----------------------------------------------------------------------------
(* Unique addresses.  What follows is about buses on which no receive      *)
(* buffer overflows and receive threads keep up: an ECU created last is    *)
(* answered before its window ends, and the first one is still claiming    *)
(* when it hears of the last.                                              *)
NoOverflow == \A n \in Node : Len(inbox[n]) < QueueCap

KeepsUp == MaxSkew + MaxLag < Window /\ 2 * MaxLag < Window

(* The time the claim of n has run. *)
Age(n) == elapsed[n] + since[n]

(* While ECUs may still be created, all of them are claiming.              *)
EarlyInv ==
  now <= MaxSkew => \A n \in On : ~claimed[n] /\ Age(n) <= now

(* A node that left its preferred address knows why.                       *)
LeftInv ==
  \A n \in On : current[n] # Preferred[n] => peers[n][Preferred[n]] # NoNode

(* Node n will hear a stronger claim of its address before it settles.     *)
Claims(f, a) == f.type = "claimed" /\ f.sa = a

Doomed(n, a) ==
  /\ ~claimed[n]
  /\ \E i \in DOMAIN inbox[n] :
       /\ Claims(inbox[n][i], a) /\ Outranks(inbox[n][i].name, n)
       /\ Age(n) + MaxLag - inbox[n][i].age < Window

(* Node m will hear a claim of its address, and if it still holds it then, *)
(* its answer will reach n before n settles.                               *)
Challenged(m, n, a) ==
  /\ ~claimed[m] /\ ~claimed[n]
  /\ \E i \in DOMAIN inbox[m] :
       /\ Claims(inbox[m][i], a)
       /\ Age(m) + MaxLag - inbox[m][i].age < Window
       /\ Age(n) + 2 * MaxLag - inbox[m][i].age < Window

Rivals(m, n) ==
  /\ Outranks(m, n) /\ Preferred[m] = Preferred[n]
  /\ current[m] = Preferred[m] /\ current[n] = Preferred[n]

RivalInv ==
  \A m, n \in On :
    Rivals(m, n) => Doomed(n, Preferred[n]) \/ Challenged(m, n, Preferred[n])

(* Two ECUs never both settle on an address that both prefer.              *)
PreferredUnique ==
  \A m, n \in On :
    m # n /\ claimed[m] /\ claimed[n] /\ Preferred[m] = Preferred[n]
      => ~(current[m] = Preferred[m] /\ current[n] = Preferred[n])

-----------------------------------------------------------------------------
(* What sending does to the queues. *)

LEMMA SentKeeps ==
  ASSUME NEW box \in [Node -> Seq(Frame)], NEW n \in Node, NEW f \in Frame,
         NEW k \in Node, NEW i \in DOMAIN box[k]
  PROVE  i \in DOMAIN Sent(box, n, f)[k] /\ Sent(box, n, f)[k][i] = box[k][i]
<1>1. box[k] \in Seq(Frame) /\ i \in 1 .. Len(box[k])
  BY LenProperties
<1>2. /\ i \in 1 .. Len(Append(box[k], f))
      /\ Append(box[k], f)[i] = box[k][i]
      /\ DOMAIN Append(box[k], f) = 1 .. Len(Append(box[k], f))
  BY <1>1, AppendProperties
<1> QED
  BY <1>2 DEF Sent, Queue

LEMMA SentArrives ==
  ASSUME NEW box \in [Node -> Seq(Frame)], NEW n \in Node, NEW f \in Frame,
         NEW k \in On \ {n}, Len(box[k]) < QueueCap
  PROVE  \E i \in DOMAIN Sent(box, n, f)[k] : Sent(box, n, f)[k][i] = f
<1>1. k \in Node /\ box[k] \in Seq(Frame)
  BY DEF On
<1>2. Sent(box, n, f)[k] = Append(box[k], f)
  BY <1>1 DEF Sent, Queue
<1>3. /\ Len(box[k]) + 1 \in DOMAIN Append(box[k], f)
      /\ Append(box[k], f)[Len(box[k]) + 1] = f
  BY <1>1, AppendProperties, LenProperties
<1> QED
  BY <1>2, <1>3

LEMMA SentOnly ==
  ASSUME NEW box \in [Node -> Seq(Frame)], NEW n \in Node, NEW f \in Frame,
         NEW k \in Node, NEW i \in DOMAIN Sent(box, n, f)[k]
  PROVE  \/ k # n /\ Sent(box, n, f)[k][i] = f
         \/ i \in DOMAIN box[k] /\ Sent(box, n, f)[k][i] = box[k][i]
<1>1. box[k] \in Seq(Frame)
  OBVIOUS
<1>2. CASE Sent(box, n, f)[k] = box[k]
  BY <1>2
<1>3. CASE k # n /\ Sent(box, n, f)[k] = Append(box[k], f)
  <2>1. i \in 1 .. (Len(box[k]) + 1)
    BY <1>1, <1>3, AppendProperties
  <2> QED
    BY <1>1, <1>3, <2>1, AppendProperties, LenProperties
<1> QED
  BY <1>2, <1>3 DEF Sent, Queue

(* Reading a frame moves the others up by one. *)
LEMMA TailKeeps ==
  ASSUME NEW q \in Seq(Frame), q # <<>>, NEW i \in DOMAIN q
  PROVE  \/ i = 1 /\ q[i] = Head(q)
         \/ i - 1 \in DOMAIN Tail(q) /\ Tail(q)[i - 1] = q[i]
<1>1. /\ i \in 1 .. Len(q) /\ Len(q) \in Nat /\ Head(q) = q[1]
      /\ DOMAIN Tail(q) = 1 .. (Len(q) - 1)
      /\ \A j \in 1 .. (Len(q) - 1) : Tail(q)[j] = q[j + 1]
  BY HeadTailProperties, LenProperties
<1>2. CASE i = 1
  BY <1>1, <1>2
<1>3. CASE i # 1
  <2>1. i - 1 \in 1 .. (Len(q) - 1) /\ (i - 1) + 1 = i
    BY <1>1, <1>3
  <2> QED
    BY <1>1, <2>1
<1> QED
  BY <1>2, <1>3

LEMMA TailOnly ==
  ASSUME NEW q \in Seq(Frame), q # <<>>, NEW i \in DOMAIN Tail(q)
  PROVE  i + 1 \in DOMAIN q /\ Tail(q)[i] = q[i + 1]
<1>1. /\ DOMAIN q = 1 .. Len(q) /\ Len(q) \in Nat
      /\ DOMAIN Tail(q) = 1 .. (Len(q) - 1)
      /\ \A j \in 1 .. (Len(q) - 1) : Tail(q)[j] = q[j + 1]
  BY HeadTailProperties, LenProperties
<1> QED
  BY <1>1

-----------------------------------------------------------------------------
(* What one step of a receive thread does. *)

LEMMA FrameFields ==
  ASSUME TypeOK, NEW n \in Node, NEW i \in DOMAIN inbox[n]
  PROVE  /\ inbox[n][i] \in Frame /\ inbox[n][i].age \in 0 .. MaxLag
         /\ inbox[n][i].name \in Node /\ inbox[n][i].sa \in Address \cup {Null}
<1>1. inbox[n] \in Seq(Frame)
  BY DEF TypeOK
<1>2. inbox[n][i] \in Frame
  BY <1>1, ElementOfSeq, LenProperties
<1> QED
  BY <1>2 DEF Frame

LEMMA AgeType ==
  ASSUME TypeOK, NEW n \in Node
  PROVE  Age(n) \in Nat /\ elapsed[n] \in Nat /\ since[n] \in Nat
BY TimeAssumption DEF TypeOK, Age

LEMMA AgeNextType ==
  ASSUME TypeOK', NEW n \in Node
  PROVE  Age(n)' \in Nat
BY TimeAssumption DEF TypeOK, Age

(* A tick before the window has passed changes nothing but the clock. *)
LEMMA EarlyTick ==
  ASSUME TypeOK, NEW n \in Node, RxTick(n)
  PROVE  /\ UNCHANGED <<current, peers, inbox, now>>
         /\ \A k \in Node : (pc'[k] # "off") = (pc[k] # "off")
         /\ \A k \in Node \ {n} : claimed'[k] = claimed[k] /\ Age(k)' = Age(k)
         /\ Age(n) < Window => claimed'[n] = claimed[n] /\ Age(n)' <= Age(n)
<1>1. Ticking(n)
  BY DEF RxTick, TickIdle, TickClaimed, TickFailed
<1>2. /\ UNCHANGED <<current, peers, inbox, now>>
      /\ \A k \in Node : (pc'[k] # "off") = (pc[k] # "off")
      /\ since'[n] = 0 /\ \A k \in Node \ {n} : since'[k] = since[k]
  BY <1>1 DEF Ticking, TypeOK, env
<1>3. \A k \in Node \ {n} : claimed'[k] = claimed[k] /\ elapsed'[k] = elapsed[k]
  BY DEF RxTick, TickIdle, TickClaimed, TickFailed, TypeOK
<1>4. ASSUME Age(n) < Window
      PROVE  claimed'[n] = claimed[n] /\ Age(n)' <= Age(n)
  <2>1. Age(n) \in Nat /\ elapsed[n] \in Nat /\ since[n] \in Nat /\ Window \in Nat
    BY AgeType, TimeAssumption
  <2>2. Aged(n) <= elapsed[n] + since[n] /\ Aged(n) # Window /\ Aged(n) \in Nat
    BY <1>4, <2>1, AgedType DEF Age
  <2>3. TickIdle(n)
    BY <2>2 DEF RxTick, TickClaimed, TickFailed
  <2>4. claimed' = claimed /\ elapsed'[n] <= elapsed[n] + since[n]
    BY <2>1, <2>2, <2>3 DEF TickIdle, TypeOK
  <2>5. elapsed'[n] \in Nat
    BY <2>1, <2>2, <2>3 DEF TickIdle, TypeOK
  <2> QED
    BY <1>2, <2>1, <2>4, <2>5 DEF Age
<1> QED
  BY <1>2, <1>3, <1>4 DEF Age

(* A poll leaves the timer or restarts it, remembers peers, and only moves *)
(* to an address without one. *)
LEMMA PollEffect ==
  ASSUME TypeOK, NEW n \in Node, RxPoll(n)
  PROVE  /\ UNCHANGED <<claimed, now>>
         /\ \A k \in Node : (pc'[k] # "off") = (pc[k] # "off")
         /\ \A k \in Node \ {n} : current'[k] = current[k] /\ peers'[k] = peers[k]
         /\ \A k \in Node : Age(k)' <= Age(k)
         /\ \A a \in Address : peers[n][a] # NoNode => peers'[n][a] # NoNode
         /\ \/ current'[n] = current[n]
            \/ /\ current[n] \in Address => peers'[n][current[n]] # NoNode
               /\ current'[n] \in Address => peers'[n][current'[n]] = NoNode
<1>1. CASE PollEmpty(n)
  <2>1. UNCHANGED <<claimed, now, current, peers, elapsed, since>>
    BY <1>1 DEF PollEmpty, Polling, env
  <2>2. \A k \in Node : (pc'[k] # "off") = (pc[k] # "off")
    BY <1>1 DEF PollEmpty, Polling, TypeOK
  <2>3. \A k \in Node : Age(k)' = Age(k) /\ Age(k) \in Nat
    BY <2>1, AgeType DEF Age
  <2> QED
    BY <2>1, <2>2, <2>3
<1>2. CASE inbox[n] # <<>> /\ Handle(n, Head(inbox[n]))
  <2> DEFINE f == Head(inbox[n])
  <2>1. f \in Frame
    BY <1>2, HeadTyped
  <2>2. f.sa \in Address \cup {Null} /\ f.name \in Node
    BY <2>1 DEF Frame
  <2> HIDE DEF f
  <2> DEFINE R == Recorded(n, f.sa, f.name)
  <2>3. /\ R \in [Address -> Node \cup {NoNode}]
        /\ f.sa \in Address => R[f.sa] = f.name
        /\ \A a \in Address : a # f.sa => R[a] = peers[n][a]
    BY <2>2, RecordedType
  <2>4. Polling(n)
    BY <1>2 DEF Handle, HearClaim, Defend, Yield, HearRequest, Hearing, f
  <2>5. /\ UNCHANGED <<claimed, since, now>>
        /\ \A k \in Node : (pc'[k] # "off") = (pc[k] # "off")
    BY <2>4 DEF Polling, TypeOK, env
  <2>6. peers' = peers \/ peers' = [peers EXCEPT ![n] = R]
    BY <1>2 DEF Handle, HearClaim, Defend, Yield, HearRequest, Hearing, f
  <2>7. \A a \in Address : peers[n][a] # NoNode => peers'[n][a] # NoNode
    BY <2>2, <2>3, <2>6, NoNodeAssumption DEF TypeOK
  <2>8. \A k \in Node \ {n} : peers'[k] = peers[k]
    BY <2>6 DEF TypeOK
  <2>9. CASE UNCHANGED <<current, elapsed>>
    <3>1. \A k \in Node : Age(k)' = Age(k) /\ Age(k) \in Nat
      BY <2>5, <2>9, AgeType DEF Age
    <3> QED
      BY <2>5, <2>7, <2>8, <2>9, <3>1
  <2>10. CASE Yield(n, f)
    <3>1. /\ current' = [current EXCEPT ![n] = FindFree(R, Preferred[n])]
          /\ elapsed' = elapsed \/ elapsed' = [elapsed EXCEPT ![n] = 0]
          /\ f.sa = current[n]
          /\ peers' = [peers EXCEPT ![n] = R]
      BY <2>10 DEF Yield, Hearing, Contested
    <3>2. /\ \A k \in Node \ {n} : current'[k] = current[k]
          /\ current'[n] = FindFree(R, Preferred[n]) /\ peers'[n] = R
      BY <3>1 DEF TypeOK
    <3>3. current'[n] \in Address => peers'[n][current'[n]] = NoNode
      <4>1. \/ FindFree(R, Preferred[n]) \in Address /\ R[FindFree(R, Preferred[n])] = NoNode
            \/ FindFree(R, Preferred[n]) = Null
        BY <2>3, FindFreeResult, AddressAssumption
      <4>2. Null \notin Address
        BY AddressAssumption DEF Address
      <4> QED
        BY <3>2, <4>1, <4>2
    <3>4. current[n] \in Address => peers'[n][current[n]] # NoNode
      BY <2>2, <2>3, <3>1, <3>2, NoNodeAssumption
    <3>5. \A k \in Node : elapsed'[k] = elapsed[k] \/ elapsed'[k] = 0
      BY <3>1 DEF TypeOK
    <3>6. \A k \in Node : Age(k)' <= Age(k)
      BY <2>5, <3>5, AgeType DEF Age
    <3> QED
      BY <2>5, <2>7, <2>8, <3>2, <3>3, <3>4, <3>6
  <2> QED
    BY <1>2, <2>9, <2>10 DEF Handle, HearClaim, Defend, HearRequest, f
<1> QED
  BY <1>1, <1>2 DEF RxPoll

(* The node reads one frame at most; no queue of another node loses one. *)
LEMMA PollQueues ==
  ASSUME TypeOK, NEW n \in Node, RxPoll(n)
  PROVE  /\ \/ inbox[n] = <<>> /\ inbox'[n] = inbox[n]
            \/ inbox[n] # <<>> /\ inbox'[n] = Tail(inbox[n])
         /\ \A k \in Node \ {n} : \A i \in DOMAIN inbox[k] :
              i \in DOMAIN inbox'[k] /\ inbox'[k][i] = inbox[k][i]
<1>1. CASE PollEmpty(n)
  BY <1>1 DEF PollEmpty
<1>2. CASE inbox[n] # <<>> /\ Handle(n, Head(inbox[n]))
  <2>1. Head(inbox[n]) \in Frame /\ Received(n) \in [Node -> Seq(Frame)]
    BY <1>2, HeadTyped
  <2>2. /\ Received(n)[n] = Tail(inbox[n])
        /\ \A k \in Node \ {n} : Received(n)[k] = inbox[k]
    BY DEF Received, TypeOK
  <2>3. inbox' = Received(n) \/ \E f \in Frame : inbox' = Sent(Received(n), n, f)
    <3>1. FindFree(Recorded(n, Head(inbox[n]).sa, Head(inbox[n]).name), Preferred[n])
            \in Address \cup {Null}
      BY <2>1, YieldTarget
    <3>2. current[n] \in Address \cup {Null}
      BY DEF TypeOK
    <3>3. \A a \in Address \cup {Null} : ClaimFrame(a, n) \in Frame
      BY FrameTypes
    <3> QED
      BY <1>2, <3>1, <3>2, <3>3 DEF Handle, HearClaim, Defend, Yield, HearRequest
  <2>4. CASE inbox' = Received(n)
    BY <1>2, <2>2, <2>4
  <2>5. ASSUME NEW f \in Frame, inbox' = Sent(Received(n), n, f)
        PROVE  /\ inbox'[n] = Tail(inbox[n])
               /\ \A k \in Node \ {n} : \A i \in DOMAIN inbox[k] :
                    i \in DOMAIN inbox'[k] /\ inbox'[k][i] = inbox[k][i]
    <3>1. inbox'[n] = Tail(inbox[n])
      BY <2>2, <2>5 DEF Sent
    <3>2. ASSUME NEW k \in Node \ {n}, NEW i \in DOMAIN inbox[k]
          PROVE  i \in DOMAIN inbox'[k] /\ inbox'[k][i] = inbox[k][i]
      BY <2>1, <2>2, <2>5, SentKeeps
    <3> QED
      BY <3>1, <3>2
  <2> QED
    BY <1>2, <2>3, <2>4, <2>5
<1> QED
  BY <1>1, <1>2 DEF RxPoll

(* A node still claiming its preferred address that hears a claim of it    *)
(* leaves it or answers with a claim that everyone receives.               *)
LEMMA PollContested ==
  ASSUME TypeOK, NEW n \in Node, RxPoll(n), inbox[n] # <<>>,
         Claims(Head(inbox[n]), Preferred[n]), ~claimed[n], current[n] = Preferred[n]
  PROVE  \/ current'[n] # Preferred[n]
         \/ /\ ~Outranks(Head(inbox[n]).name, n)
            /\ \A k \in On \ {n} : Len(inbox[k]) < QueueCap =>
                 \E i \in DOMAIN inbox'[k] : inbox'[k][i] = ClaimFrame(Preferred[n], n)
<1>1. Head(inbox[n]) \in Frame /\ Received(n) \in [Node -> Seq(Frame)]
  BY HeadTyped
<1>2. Handle(n, Head(inbox[n]))
  BY DEF RxPoll, PollEmpty
<1>3. Contested(n, Head(inbox[n]))
  BY DEF Contested, Claims
<1>4. Preferred[n] \in Address /\ Head(inbox[n]).sa = Preferred[n]
  BY AddressAssumption DEF Claims
<1>5. CASE Yield(n, Head(inbox[n]))
  <2>1. current'[n] # current[n]
    <3> DEFINE R == Recorded(n, Preferred[n], Head(inbox[n]).name)
    <3>0. Head(inbox[n]).name \in Node
      BY <1>1 DEF Frame
    <3>1. R \in [Address -> Node \cup {NoNode}] /\ R[Preferred[n]] # NoNode
      BY <1>4, <3>0, RecordedType, NoNodeAssumption
    <3>2. \/ FindFree(R, Preferred[n]) \in Address /\ R[FindFree(R, Preferred[n])] = NoNode
          \/ FindFree(R, Preferred[n]) = Null
      BY <1>4, <3>1, FindFreeResult
    <3>3. FindFree(R, Preferred[n]) # Preferred[n]
      BY <1>4, <3>1, <3>2, AddressAssumption DEF Address
    <3>4. current'[n] = FindFree(R, Preferred[n])
      BY <1>4, <1>5 DEF Yield, TypeOK
    <3> QED
      BY <3>3, <3>4
  <2> QED
    BY <2>1
<1>6. CASE Defend(n, Head(inbox[n]))
  <2>1. /\ ~Outranks(Head(inbox[n]).name, n)
        /\ inbox' = Sent(Received(n), n, ClaimFrame(Preferred[n], n))
    BY <1>6 DEF Defend
  <2>2. ClaimFrame(Preferred[n], n) \in Frame
    BY <1>4, FrameTypes
  <2>3. ASSUME NEW k \in On \ {n}, Len(inbox[k]) < QueueCap
        PROVE  \E i \in DOMAIN inbox'[k] : inbox'[k][i] = ClaimFrame(Preferred[n], n)
    <3>1. Received(n)[k] = inbox[k]
      BY DEF Received, TypeOK, On
    <3> QED
      BY <1>1, <2>1, <2>2, <2>3, <3>1, SentArrives
  <2> QED
    BY <2>1, <2>3
<1> QED
  BY <1>2, <1>3, <1>5, <1>6 DEF Handle, HearClaim, HearRequest, Claims

-----------------------------------------------------------------------------
(* EarlyInv and LeftInv, step by step. *)

LEMMA UniqueInit == Init => EarlyInv /\ LeftInv /\ RivalInv
<1>1. Init => On = {}
  BY DEF Init, On
<1> QED
  BY <1>1 DEF EarlyInv, LeftInv, RivalInv

LEMMA CreateEffect ==
  ASSUME TypeOK, NEW n \in Node, Create(n)
  PROVE  /\ pc[n] = "off" /\ now <= MaxSkew /\ now' = now
         /\ current'[n] = Preferred[n] /\ ~claimed'[n] /\ Age(n)' = 0
         /\ \A k \in Node \ {n} :
              /\ pc'[k] = pc[k] /\ current'[k] = current[k] /\ claimed'[k] = claimed[k]
              /\ peers'[k] = peers[k] /\ Age(k)' = Age(k)
              /\ \A i \in DOMAIN inbox[k] : i \in DOMAIN inbox'[k] /\ inbox'[k][i] = inbox[k][i]
              /\ k \in On /\ Len(inbox[k]) < QueueCap =>
                   \E i \in DOMAIN inbox'[k] : inbox'[k][i] = ClaimFrame(Preferred[n], n)
<1>1. /\ pc[n] = "off" /\ now <= MaxSkew /\ now' = now
      /\ current'[n] = Preferred[n] /\ ~claimed'[n] /\ Age(n)' = 0
  BY DEF Create, TypeOK, env, Age
<1>2. ASSUME NEW k \in Node \ {n}
      PROVE  /\ pc'[k] = pc[k] /\ current'[k] = current[k] /\ claimed'[k] = claimed[k]
             /\ peers'[k] = peers[k] /\ Age(k)' = Age(k)
  BY DEF Create, TypeOK, Age
<1> DEFINE box == [inbox EXCEPT ![n] = <<>>]
           claim == ClaimFrame(Preferred[n], n)
           mid == Sent(box, n, claim)
           request == RequestFrame(Preferred[n], Broadcast, n)
<1>3. claim \in Frame /\ request \in Frame
  BY FrameTypes, AddressAssumption
<1>4. box \in [Node -> Seq(Frame)] /\ \A k \in Node \ {n} : box[k] = inbox[k]
  BY EmptySeq DEF TypeOK
<1> HIDE DEF box, claim, request
<1>5. mid \in [Node -> Seq(Frame)]
  BY <1>3, <1>4, SentType
<1>6. inbox' = Sent(mid, n, request)
  BY DEF Create, box, claim, request
<1>7. ASSUME NEW k \in Node \ {n}, NEW i \in DOMAIN inbox[k]
      PROVE  i \in DOMAIN inbox'[k] /\ inbox'[k][i] = inbox[k][i]
  <2>1. i \in DOMAIN mid[k] /\ mid[k][i] = inbox[k][i]
    BY <1>3, <1>4, SentKeeps
  <2> HIDE DEF mid
  <2> QED
    BY <1>3, <1>5, <1>6, <2>1, SentKeeps
<1>8. ASSUME NEW k \in Node \ {n}, k \in On, Len(inbox[k]) < QueueCap
      PROVE  \E i \in DOMAIN inbox'[k] : inbox'[k][i] = claim
  <2>1. PICK i \in DOMAIN mid[k] : mid[k][i] = claim
    BY <1>3, <1>4, <1>8, SentArrives
  <2> HIDE DEF mid
  <2> QED
    BY <1>3, <1>5, <1>6, <2>1, SentKeeps
<1> QED
  BY <1>1, <1>2, <1>7, <1>8 DEF claim

(* The clock of Elapse: a unit for every open node and every queued frame. *)
LEMMA ElapseEffect ==
  ASSUME TypeOK, Elapse
  PROVE  /\ UNCHANGED <<pc, current, claimed, peers>>
         /\ now <= MaxSkew => now' = now + 1
         /\ now > MaxSkew => now' = now
         /\ \A n \in On :
              /\ Age(n)' = Age(n) + 1 /\ DOMAIN inbox'[n] = DOMAIN inbox[n]
              /\ \A i \in DOMAIN inbox[n] : inbox'[n][i] = [inbox[n][i] EXCEPT !.age = @ + 1]
<1>1. /\ UNCHANGED <<pc, current, claimed, peers, elapsed>>
      /\ now <= MaxSkew => now' = now + 1
      /\ now > MaxSkew => now' = now
  BY TimeAssumption DEF Elapse, claimer, TypeOK
<1>2. ASSUME NEW n \in On PROVE since'[n] = since[n] + 1 /\ inbox'[n] = Older(inbox[n])
  BY DEF Elapse, On
<1>3. ASSUME NEW n \in On PROVE Age(n)' = Age(n) + 1
  BY <1>1, <1>2, AgeType DEF Age, On
<1> QED
  BY <1>1, <1>2, <1>3 DEF Older

LEMMA RequestEffect ==
  ASSUME TypeOK, NEW n \in Node, NEW da \in Address \cup {Broadcast}, SendRequest(n, da)
  PROVE  /\ UNCHANGED <<pc, current, claimed, peers, elapsed, since, now>>
         /\ \A k \in Node : \A i \in DOMAIN inbox[k] :
              i \in DOMAIN inbox'[k] /\ inbox'[k][i] = inbox[k][i]
<1>1. inbox \in [Node -> Seq(Frame)] /\ RequestFrame(own[n], da, n) \in Frame
  BY FrameTypes DEF TypeOK
<1> QED
  BY <1>1, SentKeeps DEF SendRequest, claimer

LEMMA DestroyEffect ==
  ASSUME TypeOK, NEW n \in Node, Destroy(n)
  PROVE  /\ pc'[n] = "off" /\ UNCHANGED <<current, claimed, peers, elapsed, since, now>>
         /\ \A k \in Node \ {n} : pc'[k] = pc[k] /\ inbox'[k] = inbox[k]
BY DEF TypeOK, Destroy, claimer

LEMMA EarlyNext ==
  ASSUME KeepsUp, TypeOK, EarlyInv, [Next]_vars
  PROVE  EarlyInv'
<1> SUFFICES ASSUME now' <= MaxSkew, NEW k \in Node, pc'[k] # "off"
             PROVE  ~claimed'[k] /\ Age(k)' <= now'
  BY DEF EarlyInv, On
<1>1. /\ now \in Nat /\ MaxSkew \in Nat /\ Age(k) \in Nat /\ Window \in Nat /\ MaxLag \in Nat
      /\ MaxSkew < Window
  BY AgeType, TimeAssumption DEF TypeOK, KeepsUp
<1>2. pc[k] # "off" /\ now <= MaxSkew => ~claimed[k] /\ Age(k) <= now
  BY DEF EarlyInv, On
<1>3. CASE UNCHANGED vars
  BY <1>2, <1>3 DEF vars, claimer, env, Age
<1>4. TypeOK' /\ Age(k)' \in Nat
  <2>1. TypeOK'
    BY TypeNext
  <2> QED
    BY <2>1, AgeNextType
<1>5. CASE Elapse
  <2>1. now <= MaxSkew
    BY <1>1, <1>5, ElapseEffect
  <2>2. pc[k] # "off" /\ k \in On /\ now' = now + 1 /\ claimed' = claimed
    BY <1>5, <2>1, ElapseEffect DEF On
  <2>3. Age(k)' = Age(k) + 1
    BY <1>5, <2>2, ElapseEffect
  <2> QED
    BY <1>1, <1>2, <2>1, <2>2, <2>3
<1>6. ASSUME NEW n \in Node, Create(n) PROVE ~claimed'[k] /\ Age(k)' <= now'
  BY <1>1, <1>2, <1>6, CreateEffect
<1>7. ASSUME NEW n \in Node, Destroy(n) PROVE ~claimed'[k] /\ Age(k)' <= now'
  BY <1>1, <1>2, <1>7, DestroyEffect DEF Age
<1>8. ASSUME NEW n \in Node, RxTick(n) PROVE ~claimed'[k] /\ Age(k)' <= now'
  <2>1. pc[k] # "off" /\ now' = now
    BY <1>8, EarlyTick
  <2>2. ~claimed[k] /\ Age(k) <= now /\ Age(k) < Window
    BY <1>1, <1>2, <2>1
  <2>3. claimed'[k] = claimed[k] /\ Age(k)' <= Age(k)
    <3>1. CASE k = n
      BY <1>8, <2>2, <3>1, EarlyTick
    <3>2. CASE k # n
      BY <1>1, <1>8, <3>2, EarlyTick
    <3> QED
      BY <3>1, <3>2
  <2> QED
    BY <1>1, <1>4, <2>1, <2>2, <2>3
<1>9. ASSUME NEW n \in Node, RxPoll(n) PROVE ~claimed'[k] /\ Age(k)' <= now'
  <2>1. pc[k] # "off" /\ now' = now /\ claimed' = claimed /\ Age(k)' <= Age(k)
    BY <1>9, PollEffect
  <2> QED
    BY <1>1, <1>2, <1>4, <2>1
<1>10. ASSUME NEW n \in Node, NEW da \in Address \cup {Broadcast}, SendRequest(n, da)
      PROVE  ~claimed'[k] /\ Age(k)' <= now'
  BY <1>1, <1>2, <1>10, RequestEffect DEF Age
<1> QED
  BY <1>3, <1>5, <1>6, <1>7, <1>8, <1>9, <1>10 DEF Next, RxStep

LEMMA LeftNext ==
  ASSUME TypeOK, LeftInv, [Next]_vars
  PROVE  LeftInv'
<1> SUFFICES ASSUME NEW k \in Node, pc'[k] # "off", current'[k] # Preferred[k]
             PROVE  peers'[k][Preferred[k]] # NoNode
  BY DEF LeftInv, On
<1>1. Preferred[k] \in Address
  BY AddressAssumption
<1>2. pc[k] # "off" /\ current[k] # Preferred[k] => peers[k][Preferred[k]] # NoNode
  BY DEF LeftInv, On
<1>3. CASE UNCHANGED <<pc, current, peers>>
  BY <1>2, <1>3
<1>4. ASSUME NEW n \in Node, Create(n) PROVE peers'[k][Preferred[k]] # NoNode
  BY <1>2, <1>4, CreateEffect
<1>5. ASSUME NEW n \in Node, Destroy(n) PROVE peers'[k][Preferred[k]] # NoNode
  BY <1>2, <1>5, DestroyEffect
<1>6. ASSUME NEW n \in Node, RxTick(n) PROVE peers'[k][Preferred[k]] # NoNode
  BY <1>2, <1>6, EarlyTick
<1>7. ASSUME NEW n \in Node, RxPoll(n) PROVE peers'[k][Preferred[k]] # NoNode
  <2>1. pc[k] # "off"
    BY <1>7, PollEffect
  <2>2. CASE k # n
    BY <1>2, <1>7, <2>1, <2>2, PollEffect
  <2>3. CASE k = n
    BY <1>1, <1>2, <1>7, <2>1, <2>3, PollEffect
  <2> QED
    BY <2>2, <2>3
<1> QED
  BY <1>3, <1>4, <1>5, <1>6, <1>7, ElapseEffect, RequestEffect
  DEF Next, RxStep, vars, claimer

-----------------------------------------------------------------------------
(* RivalInv, step by step. *)

(* A claim that will be heard in time still will be when timers and queue  *)
(* are no worse.                                                           *)
LEMMA DoomedKept ==
  ASSUME TypeOK, TypeOK', NEW n \in Node, NEW a, Doomed(n, a),
         claimed'[n] = claimed[n], Age(n)' <= Age(n),
         \A i \in DOMAIN inbox[n] : Claims(inbox[n][i], a) /\ Outranks(inbox[n][i].name, n) =>
           \E j \in DOMAIN inbox'[n] : inbox'[n][j] = inbox[n][i]
  PROVE  Doomed(n, a)'
<1>1. PICK i \in DOMAIN inbox[n] :
        /\ Claims(inbox[n][i], a) /\ Outranks(inbox[n][i].name, n)
        /\ Age(n) + MaxLag - inbox[n][i].age < Window
  BY DEF Doomed
<1>2. PICK j \in DOMAIN inbox'[n] : inbox'[n][j] = inbox[n][i]
  BY <1>1
<1>3. Age(n) \in Nat /\ Age(n)' \in Nat /\ inbox[n][i].age \in Nat
  BY AgeType, AgeNextType, FrameFields, TimeAssumption
<1>4. Age(n)' + MaxLag - inbox'[n][j].age < Window
  BY <1>1, <1>2, <1>3, TimeAssumption
<1> QED
  BY <1>1, <1>2, <1>4 DEF Doomed, Claims, Outranks

LEMMA ChallengedKept ==
  ASSUME TypeOK, TypeOK', NEW m \in Node, NEW n \in Node, NEW a, Challenged(m, n, a),
         claimed'[m] = claimed[m], Age(m)' <= Age(m),
         claimed'[n] = claimed[n], Age(n)' <= Age(n),
         \A i \in DOMAIN inbox[m] : Claims(inbox[m][i], a) =>
           \E j \in DOMAIN inbox'[m] : inbox'[m][j] = inbox[m][i]
  PROVE  Challenged(m, n, a)'
<1>1. PICK i \in DOMAIN inbox[m] :
        /\ Claims(inbox[m][i], a)
        /\ Age(m) + MaxLag - inbox[m][i].age < Window
        /\ Age(n) + 2 * MaxLag - inbox[m][i].age < Window
  BY DEF Challenged
<1>2. PICK j \in DOMAIN inbox'[m] : inbox'[m][j] = inbox[m][i]
  BY <1>1
<1>3. /\ Age(n) \in Nat /\ Age(n)' \in Nat /\ Age(m) \in Nat /\ Age(m)' \in Nat
      /\ inbox[m][i].age \in Nat
  BY AgeType, AgeNextType, FrameFields, TimeAssumption
<1>4. /\ Age(m)' + MaxLag - inbox'[m][j].age < Window
      /\ Age(n)' + 2 * MaxLag - inbox'[m][j].age < Window
  BY <1>1, <1>2, <1>3, TimeAssumption
<1> QED
  BY <1>1, <1>2, <1>4 DEF Challenged, Claims

(* Neither of the two is about to settle. *)
LEMMA DoomedIsEarly ==
  ASSUME TypeOK, NEW n \in Node, NEW a, Doomed(n, a)
  PROVE  Age(n) < Window /\ ~claimed[n]
BY AgeType, FrameFields, TimeAssumption DEF Doomed

LEMMA ChallengedAreEarly ==
  ASSUME TypeOK, NEW m \in Node, NEW n \in Node, NEW a, Challenged(m, n, a)
  PROVE  Age(m) < Window /\ Age(n) < Window /\ ~claimed[m] /\ ~claimed[n]
<1>1. PICK i \in DOMAIN inbox[m] :
        /\ Age(m) + MaxLag - inbox[m][i].age < Window
        /\ Age(n) + 2 * MaxLag - inbox[m][i].age < Window
  BY DEF Challenged
<1>2. Age(m) \in Nat /\ Age(n) \in Nat /\ inbox[m][i].age \in 0 .. MaxLag
  BY AgeType, FrameFields
<1> QED
  BY <1>1, <1>2, TimeAssumption DEF Challenged

Threatened(m, n) == Doomed(n, Preferred[n]) \/ Challenged(m, n, Preferred[n])

(* Timers and queues of both are no worse. *)
LEMMA ThreatKept ==
  ASSUME TypeOK, TypeOK', NEW m \in Node, NEW n \in Node, Threatened(m, n),
         \A k \in {m, n} : /\ claimed'[k] = claimed[k] /\ Age(k)' <= Age(k)
                           /\ \A i \in DOMAIN inbox[k] :
                                \E j \in DOMAIN inbox'[k] : inbox'[k][j] = inbox[k][i]
  PROVE  Threatened(m, n)'
BY DoomedKept, ChallengedKept DEF Threatened

LEMMA ThreatElapse ==
  ASSUME TypeOK, TypeOK', Elapse, NEW m \in On, NEW n \in On, Threatened(m, n)
  PROVE  Threatened(m, n)'
<1>1. /\ claimed' = claimed /\ Age(m)' = Age(m) + 1 /\ Age(n)' = Age(n) + 1
      /\ \A k \in {m, n} : /\ DOMAIN inbox'[k] = DOMAIN inbox[k]
                           /\ \A i \in DOMAIN inbox[k] :
                                inbox'[k][i] = [inbox[k][i] EXCEPT !.age = @ + 1]
  BY ElapseEffect
<1>2. m \in Node /\ n \in Node /\ Age(m) \in Nat /\ Age(n) \in Nat
  BY AgeType DEF On
<1>3. ASSUME NEW k \in {m, n}, NEW i \in DOMAIN inbox[k]
      PROVE  /\ inbox[k][i].age \in Nat /\ inbox'[k][i].age = inbox[k][i].age + 1
             /\ inbox'[k][i].type = inbox[k][i].type /\ inbox'[k][i].sa = inbox[k][i].sa
             /\ inbox'[k][i].name = inbox[k][i].name
  <2>1. k \in Node
    BY <1>2
  <2>2. inbox[k][i] \in Frame /\ inbox[k][i].age \in 0 .. MaxLag
    BY <2>1, FrameFields
  <2>3. inbox'[k][i] = [inbox[k][i] EXCEPT !.age = @ + 1]
    BY <1>1
  <2> QED
    BY <2>2, <2>3, TimeAssumption DEF Frame
<1>4. CASE Doomed(n, Preferred[n])
  <2>1. PICK i \in DOMAIN inbox[n] :
          /\ Claims(inbox[n][i], Preferred[n]) /\ Outranks(inbox[n][i].name, n)
          /\ Age(n) + MaxLag - inbox[n][i].age < Window
    BY <1>4 DEF Doomed
  <2>2. Age(n)' + MaxLag - inbox'[n][i].age < Window
    BY <1>1, <1>2, <1>3, <2>1, TimeAssumption
  <2>3. Doomed(n, Preferred[n])'
    BY <1>1, <1>3, <1>4, <2>1, <2>2 DEF Doomed, Claims, Outranks
  <2> QED
    BY <2>3 DEF Threatened
<1>5. CASE Challenged(m, n, Preferred[n])
  <2>1. PICK i \in DOMAIN inbox[m] :
          /\ Claims(inbox[m][i], Preferred[n])
          /\ Age(m) + MaxLag - inbox[m][i].age < Window
          /\ Age(n) + 2 * MaxLag - inbox[m][i].age < Window
    BY <1>5 DEF Challenged
  <2>2. /\ Age(m)' + MaxLag - inbox'[m][i].age < Window
        /\ Age(n)' + 2 * MaxLag - inbox'[m][i].age < Window
    BY <1>1, <1>2, <1>3, <2>1, TimeAssumption
  <2>3. Challenged(m, n, Preferred[n])'
    BY <1>1, <1>3, <1>5, <2>1, <2>2 DEF Challenged, Claims
  <2> QED
    BY <2>3 DEF Threatened
<1> QED
  BY <1>4, <1>5 DEF Threatened

LEMMA ThreatTick ==
  ASSUME TypeOK, TypeOK', NEW m \in Node, NEW n \in Node, m # n, Threatened(m, n),
         NEW k \in Node, RxTick(k)
  PROVE  Threatened(m, n)'
<1>1. /\ inbox' = inbox
      /\ \A j \in Node \ {k} : claimed'[j] = claimed[j] /\ Age(j)' = Age(j) /\ Age(j) \in Nat
      /\ Age(k) < Window => claimed'[k] = claimed[k] /\ Age(k)' <= Age(k)
  BY EarlyTick, AgeType
<1>2. ASSUME NEW j \in Node, Age(j) < Window
      PROVE  claimed'[j] = claimed[j] /\ Age(j)' <= Age(j)
  BY <1>1, <1>2
<1>3. CASE Doomed(n, Preferred[n])
  BY <1>1, <1>2, <1>3, DoomedIsEarly, DoomedKept DEF Threatened
<1>4. CASE Challenged(m, n, Preferred[n])
  BY <1>1, <1>2, <1>4, ChallengedAreEarly, ChallengedKept DEF Threatened
<1> QED
  BY <1>3, <1>4 DEF Threatened

(* The first of two rivals is claiming when the second one is created.     *)
LEMMA ThreatCreate ==
  ASSUME KeepsUp, TypeOK, TypeOK', EarlyInv, NoOverflow, NEW k \in Node, Create(k),
         NEW m \in On', NEW n \in On', Outranks(m, n), Preferred[m] = Preferred[n],
         k \in {m, n}
  PROVE  Threatened(m, n)'
<1>1. /\ m \in Node /\ n \in Node /\ m # n /\ MaxSkew \in Nat /\ now \in Nat
      /\ MaxLag \in Nat /\ Window \in Nat /\ Preferred[n] \in Address
  BY RankAssumption, TimeAssumption, AddressAssumption DEF Outranks, On, TypeOK
<1>2. ASSUME NEW j \in {m, n} \ {k}
      PROVE  /\ ~claimed'[j] /\ Age(j)' \in Nat /\ Age(j)' <= MaxSkew
             /\ \E i \in DOMAIN inbox'[j] : inbox'[j][i] = ClaimFrame(Preferred[k], k)
  <2>1. j \in On /\ j \in Node
    BY <1>1, CreateEffect DEF On
  <2>2. ~claimed[j] /\ Age(j) <= now /\ now <= MaxSkew /\ Age(j) \in Nat
    BY <2>1, CreateEffect, AgeType DEF EarlyInv
  <2>3. claimed'[j] = claimed[j] /\ Age(j)' = Age(j) /\ Len(inbox[j]) < QueueCap
    BY <2>1, CreateEffect DEF NoOverflow
  <2> QED
    BY <1>1, <2>1, <2>2, <2>3, CreateEffect
<1>3. ~claimed'[k] /\ Age(k)' = 0
  BY CreateEffect
<1>4. /\ ClaimFrame(Preferred[k], k).age = 0 /\ ClaimFrame(Preferred[k], k).name = k
      /\ Claims(ClaimFrame(Preferred[k], k), Preferred[n])
  BY DEF ClaimFrame, Claims
<1>5. CASE k = m
  <2>1. PICK i \in DOMAIN inbox'[n] : inbox'[n][i] = ClaimFrame(Preferred[m], m)
    BY <1>1, <1>2, <1>5
  <2>2. ~claimed'[n] /\ Age(n)' \in Nat /\ Age(n)' <= MaxSkew
    BY <1>1, <1>2, <1>5
  <2>3. Age(n)' + MaxLag - inbox'[n][i].age < Window
    BY <1>1, <1>4, <1>5, <2>1, <2>2 DEF KeepsUp
  <2>4. Doomed(n, Preferred[n])'
    BY <1>4, <1>5, <2>1, <2>2, <2>3 DEF Doomed, Claims, Outranks
  <2> QED
    BY <2>4 DEF Threatened
<1>6. CASE k = n
  <2>1. PICK i \in DOMAIN inbox'[m] : inbox'[m][i] = ClaimFrame(Preferred[n], n)
    BY <1>1, <1>2, <1>6
  <2>2. ~claimed'[m] /\ Age(m)' \in Nat /\ Age(m)' <= MaxSkew
    BY <1>1, <1>2, <1>6
  <2>3. /\ Age(m)' + MaxLag - inbox'[m][i].age < Window
        /\ Age(n)' + 2 * MaxLag - inbox'[m][i].age < Window
    BY <1>1, <1>3, <1>4, <1>6, <2>1, <2>2 DEF KeepsUp
  <2>4. Challenged(m, n, Preferred[n])'
    BY <1>3, <1>4, <1>6, <2>1, <2>2, <2>3 DEF Challenged, Claims
  <2> QED
    BY <2>4 DEF Threatened
<1> QED
  BY <1>5, <1>6

(* A receive thread handles a frame: it hears the claim that counts, and   *)
(* yields or answers, or the claim is still ahead.                         *)
LEMMA ThreatPoll ==
  ASSUME KeepsUp, TypeOK, TypeOK', NoOverflow, NEW k \in Node, RxPoll(k),
         NEW m \in On, NEW n \in On, Rivals(m, n), Rivals(m, n)', Threatened(m, n)
  PROVE  Threatened(m, n)'
<1>1. /\ m \in Node /\ n \in Node /\ m # n
      /\ current[m] = Preferred[n] /\ current[n] = Preferred[n] /\ Preferred[m] = Preferred[n]
      /\ current'[m] = Preferred[n] /\ current'[n] = Preferred[n]
      /\ Outranks(m, n) /\ Preferred[n] \in Address
  BY RankAssumption, AddressAssumption DEF Rivals, Outranks, On
<1>2. /\ claimed' = claimed
      /\ \A j \in Node : Age(j)' <= Age(j) /\ Age(j)' \in Nat /\ Age(j) \in Nat
  BY PollEffect, AgeType, AgeNextType
<1>3. /\ \A j \in Node \ {k} : \A i \in DOMAIN inbox[j] :
           \E l \in DOMAIN inbox'[j] : inbox'[j][l] = inbox[j][i]
      /\ \/ inbox[k] = <<>> /\ inbox'[k] = inbox[k]
         \/ inbox[k] # <<>> /\ inbox'[k] = Tail(inbox[k])
  BY PollQueues
(* What was in the queue of k is still there, but for its head.            *)
<1>4. ASSUME NEW i \in DOMAIN inbox[k]
      PROVE  \/ inbox[k] # <<>> /\ inbox[k][i] = Head(inbox[k])
             \/ \E l \in DOMAIN inbox'[k] : inbox'[k][l] = inbox[k][i]
  <2>1. inbox[k] \in Seq(Frame)
    BY DEF TypeOK
  <2>2. CASE inbox'[k] = inbox[k]
    BY <2>2
  <2>3. CASE inbox[k] # <<>> /\ inbox'[k] = Tail(inbox[k])
    BY <2>1, <2>3, TailKeeps
  <2> QED
    BY <1>3, <2>2, <2>3
<1>5. CASE Doomed(n, Preferred[n])
  <2>1. ASSUME NEW i \in DOMAIN inbox[n],
               Claims(inbox[n][i], Preferred[n]), Outranks(inbox[n][i].name, n)
        PROVE  \E l \in DOMAIN inbox'[n] : inbox'[n][l] = inbox[n][i]
    <3>1. CASE k # n
      BY <1>1, <1>3, <3>1
    <3>2. CASE k = n
      <4>1. ~(inbox[k] # <<>> /\ inbox[k][i] = Head(inbox[k]))
        BY <1>1, <1>5, <2>1, <3>2, PollContested DEF Doomed
      <4> QED
        BY <1>4, <2>1, <3>2, <4>1
    <3> QED
      BY <3>1, <3>2
  <2> QED
    BY <1>1, <1>2, <1>5, <2>1, DoomedKept DEF Threatened
<1>6. CASE Challenged(m, n, Preferred[n])
  <2>1. PICK i \in DOMAIN inbox[m] :
          /\ Claims(inbox[m][i], Preferred[n])
          /\ Age(m) + MaxLag - inbox[m][i].age < Window
          /\ Age(n) + 2 * MaxLag - inbox[m][i].age < Window
    BY <1>6 DEF Challenged
  <2>2. CASE \E l \in DOMAIN inbox'[m] : inbox'[m][l] = inbox[m][i]
    <3>1. PICK l \in DOMAIN inbox'[m] : inbox'[m][l] = inbox[m][i]
      BY <2>2
    <3>2. inbox[m][i].age \in 0 .. MaxLag
      BY <1>1, FrameFields
    <3>3. /\ Age(m)' + MaxLag - inbox'[m][l].age < Window
          /\ Age(n)' + 2 * MaxLag - inbox'[m][l].age < Window
      BY <1>1, <1>2, <2>1, <3>1, <3>2, TimeAssumption
    <3>4. Challenged(m, n, Preferred[n])'
      BY <1>2, <1>6, <2>1, <3>1, <3>3 DEF Challenged, Claims
    <3> QED
      BY <3>4 DEF Threatened
  <2>3. CASE k = m /\ inbox[k] # <<>> /\ inbox[k][i] = Head(inbox[k])
    <3>1. ~claimed[m] /\ ~claimed[n]
      BY <1>6 DEF Challenged
    <3>2. PICK l \in DOMAIN inbox'[n] : inbox'[n][l] = ClaimFrame(Preferred[m], m)
      BY <1>1, <2>1, <2>3, <3>1, PollContested DEF NoOverflow
    <3>3. /\ inbox'[n][l].age = 0 /\ inbox'[n][l].name = m
          /\ Claims(inbox'[n][l], Preferred[n])
      BY <1>1, <3>2 DEF ClaimFrame, Claims
    <3>4. inbox[m][i].age \in 0 .. MaxLag
      BY <1>1, FrameFields
    <3>5. Age(n)' + MaxLag - inbox'[n][l].age < Window
      BY <1>1, <1>2, <2>1, <3>3, <3>4, TimeAssumption
    <3>6. Doomed(n, Preferred[n])'
      BY <1>1, <1>2, <3>1, <3>3, <3>5 DEF Doomed, Claims, Outranks
    <3> QED
      BY <3>6 DEF Threatened
  <2> QED
    BY <1>1, <1>3, <1>4, <2>1, <2>2, <2>3
<1> QED
  BY <1>5, <1>6 DEF Threatened

(* A node returns to its preferred address only by being created anew.     *)
LEMMA NoReturn ==
  ASSUME TypeOK, LeftInv, [Next]_vars, NEW k \in Node, pc'[k] # "off",
         current'[k] = Preferred[k]
  PROVE  (pc[k] # "off" /\ current[k] = Preferred[k]) \/ Create(k)
<1>1. Preferred[k] \in Address
  BY AddressAssumption
<1>2. CASE UNCHANGED <<pc, current>>
  BY <1>2
<1>3. ASSUME NEW n \in Node, Create(n)
      PROVE  (pc[k] # "off" /\ current[k] = Preferred[k]) \/ Create(k)
  BY <1>3, CreateEffect
<1>4. ASSUME NEW n \in Node, Destroy(n)
      PROVE  pc[k] # "off" /\ current[k] = Preferred[k]
  BY <1>4, DestroyEffect
<1>5. ASSUME NEW n \in Node, RxTick(n)
      PROVE  pc[k] # "off" /\ current[k] = Preferred[k]
  BY <1>5, EarlyTick
<1>6. ASSUME NEW n \in Node, RxPoll(n)
      PROVE  pc[k] # "off" /\ current[k] = Preferred[k]
  <2>1. pc[k] # "off"
    BY <1>6, PollEffect
  <2>2. current[k] # Preferred[k] => peers[k][Preferred[k]] # NoNode
    BY <2>1 DEF LeftInv, On
  <2>3. CASE k # n
    BY <1>6, <2>1, <2>3, PollEffect
  <2>4. CASE k = n
    BY <1>1, <1>6, <2>1, <2>2, <2>4, PollEffect
  <2> QED
    BY <2>3, <2>4
<1> QED
  BY <1>2, <1>3, <1>4, <1>5, <1>6, ElapseEffect, RequestEffect
  DEF Next, RxStep, vars, claimer

LEMMA RivalNext ==
  ASSUME KeepsUp, TypeOK, EarlyInv, LeftInv, RivalInv, NoOverflow, [Next]_vars
  PROVE  RivalInv'
<1> SUFFICES ASSUME NEW m \in Node, NEW n \in Node, pc'[m] # "off", pc'[n] # "off",
                    Rivals(m, n)'
             PROVE  Threatened(m, n)'
  BY DEF RivalInv, On, Threatened
<1>1. /\ m # n /\ Outranks(m, n) /\ Preferred[m] = Preferred[n]
      /\ current'[m] = Preferred[m] /\ current'[n] = Preferred[n]
  BY RankAssumption DEF Rivals, Outranks
<1>2. TypeOK'
  BY TypeNext
<1>3. CASE Create(m) \/ Create(n)
  BY <1>1, <1>2, <1>3, ThreatCreate DEF On
<1>4. CASE ~(Create(m) \/ Create(n))
  <2>1. /\ m \in On /\ n \in On /\ Rivals(m, n)
    BY <1>1, <1>4, NoReturn DEF On, Rivals
  <2>2. Threatened(m, n)
    BY <2>1 DEF RivalInv, Threatened
  <2>3. CASE UNCHANGED vars
    <3>1. UNCHANGED <<claimed, elapsed, since, inbox>>
      BY <2>3 DEF vars, claimer
    <3> QED
      BY <2>2, <3>1 DEF Threatened, Doomed, Challenged, Age, Claims, Outranks
  <2>4. CASE Elapse
    BY <1>2, <2>1, <2>2, <2>4, ThreatElapse
  <2>5. ASSUME NEW k \in Node, Create(k) \/ Destroy(k) PROVE Threatened(m, n)'
    <3>1. k \notin {m, n}
      BY <1>4, <2>5, DestroyEffect
    <3>2. ASSUME NEW j \in {m, n}
          PROVE  /\ claimed'[j] = claimed[j] /\ Age(j)' = Age(j) /\ Age(j) \in Nat
                 /\ \A i \in DOMAIN inbox[j] :
                      i \in DOMAIN inbox'[j] /\ inbox'[j][i] = inbox[j][i]
      <4>1. CASE Create(k)
        BY <3>1, <4>1, CreateEffect, AgeType
      <4>2. CASE Destroy(k)
        BY <3>1, <4>2, DestroyEffect, AgeType DEF Age
      <4> QED
        BY <2>5, <4>1, <4>2
    <3>3. \A j \in {m, n} :
            /\ claimed'[j] = claimed[j] /\ Age(j)' <= Age(j)
            /\ \A i \in DOMAIN inbox[j] : \E l \in DOMAIN inbox'[j] : inbox'[j][l] = inbox[j][i]
      BY <3>2
    <3> QED
      BY <1>2, <2>2, <3>3, ThreatKept
  <2>6. ASSUME NEW k \in Node, RxTick(k) PROVE Threatened(m, n)'
    BY <1>1, <1>2, <2>2, <2>6, ThreatTick
  <2>7. ASSUME NEW k \in Node, RxPoll(k) PROVE Threatened(m, n)'
    BY <1>2, <2>1, <2>2, <2>7, ThreatPoll
  <2>8. ASSUME NEW k \in Node, NEW da \in Address \cup {Broadcast}, SendRequest(k, da)
        PROVE  Threatened(m, n)'
    <3>1. \A j \in {m, n} :
            /\ claimed'[j] = claimed[j] /\ Age(j)' <= Age(j)
            /\ \A i \in DOMAIN inbox[j] : \E l \in DOMAIN inbox'[j] : inbox'[j][l] = inbox[j][i]
      BY <2>8, RequestEffect, AgeType DEF Age
    <3> QED
      BY <1>2, <2>2, <3>1, ThreatKept
  <2> QED
    BY <2>3, <2>4, <2>5, <2>6, <2>7, <2>8 DEF Next, RxStep
<1> QED
  BY <1>3, <1>4

LEMMA RivalsDoNotSettle ==
  ASSUME TypeOK, RivalInv
  PROVE  PreferredUnique
<1> SUFFICES ASSUME NEW m \in On, NEW n \in On, m # n, claimed[m], claimed[n],
                    Preferred[m] = Preferred[n],
                    current[m] = Preferred[m], current[n] = Preferred[n]
             PROVE  FALSE
  BY DEF PreferredUnique
<1>1. Outranks(m, n) \/ Outranks(n, m)
  BY RankAssumption DEF Outranks, On
<1>2. Rivals(m, n) \/ Rivals(n, m)
  BY <1>1 DEF Rivals
<1> QED
  BY <1>2 DEF RivalInv, Doomed, Challenged

(* Of the ECUs created with one preferred address, however many there are  *)
(* and whatever else happens on the bus, at most one settles on it: the    *)
(* claims, the answers and the window of on_address_claimed and tick are   *)
(* enough, when no frame is dropped and receive threads keep up.           *)
THEOREM PreferredIsUnique ==
  ASSUME KeepsUp
  PROVE  Spec /\ []NoOverflow => []PreferredUnique
<1>1. Init => EarlyInv /\ LeftInv /\ RivalInv
  BY UniqueInit
<1>2. TypeOK /\ EarlyInv /\ LeftInv /\ RivalInv /\ NoOverflow /\ [Next]_vars
        => (EarlyInv /\ LeftInv /\ RivalInv)'
  BY EarlyNext, LeftNext, RivalNext
<1>3. TypeOK /\ RivalInv => PreferredUnique
  BY RivalsDoNotSettle
<1> QED
  BY <1>1, <1>2, <1>3, TypeCorrect, PTL DEF Spec

-----------------------------------------------------------------------------
(* The strongest NAME on the bus. *)

Strongest(m) == \A n \in Node : ~Outranks(n, m)

(* A frame in the queue of n: another node sent it, and the strongest one  *)
(* claims nothing but its preferred address.                               *)
Genuine(n, f) ==
  /\ f.name # n
  /\ f.type = "claimed" /\ Strongest(f.name) => f.sa = Preferred[f.name]

StrongestKeeps == \A m \in Node : Strongest(m) => current[m] = Preferred[m]

GenuineInv == \A n \in Node : \A i \in DOMAIN inbox[n] : Genuine(n, inbox[n][i])

(* What node n may send. *)
Proper(n, f) ==
  /\ f \in Frame /\ f.name = n
  /\ f.type = "claimed" /\ Strongest(n) => f.sa = Preferred[n]

LEMMA SentGenuine ==
  ASSUME NEW box \in [Node -> Seq(Frame)], NEW n \in Node, NEW f, Proper(n, f),
         \A k \in Node : \A i \in DOMAIN box[k] : Genuine(k, box[k][i])
  PROVE  \A k \in Node : \A i \in DOMAIN Sent(box, n, f)[k] : Genuine(k, Sent(box, n, f)[k][i])
<1>1. f \in Frame
  BY DEF Proper
<1>2. ASSUME NEW k \in Node, NEW i \in DOMAIN Sent(box, n, f)[k]
      PROVE  Genuine(k, Sent(box, n, f)[k][i])
  <2>1. \/ k # n /\ Sent(box, n, f)[k][i] = f
        \/ i \in DOMAIN box[k] /\ Sent(box, n, f)[k][i] = box[k][i]
    BY <1>1, SentOnly
  <2>2. k # n => Genuine(k, f)
    BY DEF Proper, Genuine
  <2> HIDE DEF Genuine
  <2> QED
    BY <2>1, <2>2
<1> QED
  BY <1>2

(* Only a yield moves a node, and only a stronger NAME makes it yield.     *)
LEMMA StrongestStays ==
  ASSUME TypeOK, StrongestKeeps, [Next]_vars
  PROVE  StrongestKeeps'
<1> SUFFICES ASSUME NEW m \in Node, Strongest(m) PROVE current'[m] = Preferred[m]
  BY DEF StrongestKeeps, Strongest, Outranks
<1>1. current[m] = Preferred[m]
  BY DEF StrongestKeeps
<1>2. ASSUME NEW n \in Node, RxPoll(n) PROVE current'[m] = current[m]
  <2>1. CASE inbox[n] # <<>> /\ Yield(n, Head(inbox[n]))
    <3>1. Head(inbox[n]).name \in Node
      BY <2>1, HeadTyped DEF Frame
    <3>2. m # n
      BY <2>1, <3>1 DEF Yield, Strongest
    <3> QED
      BY <2>1, <3>2 DEF Yield, TypeOK
  <2>2. CASE current' = current
    BY <2>2
  <2> QED
    BY <1>2, <2>1, <2>2 DEF RxPoll, PollEmpty, Handle, HearClaim, Defend, HearRequest
<1>3. ASSUME NEW n \in Node, Create(n) PROVE current'[m] = Preferred[m]
  BY <1>1, <1>3, CreateEffect
<1> QED
  BY <1>1, <1>2, <1>3, ElapseEffect, DestroyEffect, EarlyTick, RequestEffect
  DEF Next, RxStep, vars, claimer

LEMMA GenuineNext ==
  ASSUME TypeOK, StrongestKeeps, GenuineInv, [Next]_vars
  PROVE  GenuineInv'
<1>1. inbox \in [Node -> Seq(Frame)]
  BY DEF TypeOK
<1>2. ASSUME NEW n \in Node, NEW i \in DOMAIN inbox[n] PROVE Genuine(n, inbox[n][i])
  BY DEF GenuineInv
<1>3. SUFFICES ASSUME NEW box, inbox' = box,
                      ~(\A k \in Node : \A i \in DOMAIN box[k] : Genuine(k, box[k][i]))
               PROVE  FALSE
  BY DEF GenuineInv, Genuine, Strongest, Outranks
<1>4. inbox' # inbox
  BY <1>2, <1>3
<1>5. CASE Elapse
  <2>1. ASSUME NEW k \in Node, NEW i \in DOMAIN box[k] PROVE Genuine(k, box[k][i])
    <3>1. CASE k \in On
      <4>1. i \in DOMAIN inbox[k] /\ box[k][i] = [inbox[k][i] EXCEPT !.age = @ + 1]
        BY <1>3, <1>5, <3>1, ElapseEffect
      <4>2. inbox[k][i] \in Frame /\ Genuine(k, inbox[k][i])
        BY <1>2, <4>1, FrameFields
      <4>3. /\ box[k][i].name = inbox[k][i].name /\ box[k][i].type = inbox[k][i].type
            /\ box[k][i].sa = inbox[k][i].sa
        BY <4>1, <4>2 DEF Frame
      <4> QED
        BY <4>2, <4>3 DEF Genuine
    <3>2. CASE k \notin On
      <4>1. box[k] = inbox[k]
        BY <1>3, <1>5, <3>2 DEF Elapse
      <4> QED
        BY <1>2, <4>1
    <3> QED
      BY <3>1, <3>2
  <2> QED
    BY <1>3, <2>1
<1>6. ASSUME NEW n \in Node, Create(n) PROVE FALSE
  <2> DEFINE empty == [inbox EXCEPT ![n] = <<>>]
             claim == ClaimFrame(Preferred[n], n)
             request == RequestFrame(Preferred[n], Broadcast, n)
             mid == Sent(empty, n, claim)
  <2>1. /\ claim \in Frame /\ request \in Frame
        /\ claim.name = n /\ claim.sa = Preferred[n] /\ request.name = n /\ request.type = "request"
    BY AddressAssumption, FrameTypes DEF ClaimFrame, RequestFrame
  <2>2. Proper(n, claim) /\ Proper(n, request)
    BY <2>1 DEF Proper
  <2>3. empty \in [Node -> Seq(Frame)]
    BY <1>1, EmptySeq
  <2>4. \A k \in Node : \A i \in DOMAIN empty[k] : Genuine(k, empty[k][i])
    BY <1>1, <1>2
  <2>5. inbox' = Sent(mid, n, request)
    BY <1>6 DEF Create
  <2> HIDE DEF empty, claim, request
  <2>6. mid \in [Node -> Seq(Frame)]
    BY <2>1, <2>3, SentType
  <2>7. \A k \in Node : \A i \in DOMAIN mid[k] : Genuine(k, mid[k][i])
    BY <2>2, <2>3, <2>4, SentGenuine
  <2> HIDE DEF mid
  <2>8. \A k \in Node : \A i \in DOMAIN Sent(mid, n, request)[k] :
          Genuine(k, Sent(mid, n, request)[k][i])
    BY <2>2, <2>6, <2>7, SentGenuine
  <2> QED
    BY <1>3, <2>5, <2>8
<1>7. ASSUME NEW n \in Node, Destroy(n) PROVE FALSE
  <2>1. inbox' = [inbox EXCEPT ![n] = <<>>]
    BY <1>7 DEF Destroy
  <2>2. \A k \in Node : \A i \in DOMAIN inbox'[k] : Genuine(k, inbox'[k][i])
    BY <1>1, <1>2, <2>1
  <2> QED
    BY <1>3, <2>2
<1>8. ASSUME NEW n \in Node, RxPoll(n) PROVE FALSE
  <2>1. CASE inbox' = inbox
    BY <1>2, <1>3, <2>1
  <2>2. CASE inbox[n] # <<>> /\ Handle(n, Head(inbox[n]))
    <3> DEFINE rest == Received(n)
    <3>1. Head(inbox[n]) \in Frame /\ rest \in [Node -> Seq(Frame)]
      BY <2>2, HeadTyped
    <3>2. rest[n] = Tail(inbox[n]) /\ \A k \in Node \ {n} : rest[k] = inbox[k]
      BY <1>1 DEF Received
    <3>3. ASSUME NEW k \in Node, NEW i \in DOMAIN rest[k] PROVE Genuine(k, rest[k][i])
      <4>1. CASE k = n
        <5>1. inbox[n] \in Seq(Frame)
          BY <1>1
        <5>2. i + 1 \in DOMAIN inbox[n] /\ rest[n][i] = inbox[n][i + 1]
          BY <2>2, <3>2, <3>3, <4>1, <5>1, TailOnly
        <5> QED
          BY <1>2, <4>1, <5>2
      <4>2. CASE k # n
        BY <1>2, <3>2, <3>3, <4>2
      <4> QED
        BY <4>1, <4>2
    <3>4. ASSUME NEW a \in Address \cup {Null}, Strongest(n) => a = Preferred[n],
                 inbox' = Sent(rest, n, ClaimFrame(a, n))
          PROVE  FALSE
      <4>1. Proper(n, ClaimFrame(a, n))
        <5>1. ClaimFrame(a, n).name = n /\ ClaimFrame(a, n).sa = a
          BY DEF ClaimFrame
        <5> QED
          BY <3>4, <5>1, FrameTypes DEF Proper
      <4> HIDE DEF rest
      <4>2. \A k \in Node : \A i \in DOMAIN inbox'[k] : Genuine(k, inbox'[k][i])
        BY <3>1, <3>3, <3>4, <4>1, SentGenuine
      <4> QED
        BY <1>3, <4>2
    <3>5. current[n] \in Address \cup {Null} /\ (Strongest(n) => current[n] = Preferred[n])
      BY DEF TypeOK, StrongestKeeps
    <3>6. CASE Yield(n, Head(inbox[n]))
      <4> DEFINE alt == FindFree(Recorded(n, Head(inbox[n]).sa, Head(inbox[n]).name), Preferred[n])
      <4>1. alt \in Address \cup {Null}
        BY <3>1, YieldTarget
      <4>2. ~Strongest(n)
        <5>1. Head(inbox[n]).name \in Node /\ Outranks(Head(inbox[n]).name, n)
          BY <3>1, <3>6 DEF Yield, Frame
        <5> QED
          BY <5>1 DEF Strongest
      <4>3. inbox' = Sent(rest, n, ClaimFrame(alt, n))
        BY <3>6 DEF Yield
      <4> HIDE DEF alt
      <4> QED
        BY <3>4, <4>1, <4>2, <4>3
    <3>7. CASE inbox' = rest
      BY <1>3, <3>3, <3>7
    <3>8. CASE inbox' = Sent(rest, n, ClaimFrame(current[n], n))
      BY <3>4, <3>5, <3>8
    <3> QED
      BY <2>2, <3>6, <3>7, <3>8 DEF Handle, HearClaim, Defend, HearRequest
  <2> QED
    BY <1>8, <2>1, <2>2 DEF RxPoll, PollEmpty
<1>9. ASSUME NEW n \in Node, NEW da \in Address \cup {Broadcast}, SendRequest(n, da)
      PROVE  FALSE
  <2>1. Proper(n, RequestFrame(own[n], da, n))
    <3>1. RequestFrame(own[n], da, n) \in Frame
      BY FrameTypes DEF TypeOK
    <3> QED
      BY <3>1 DEF Proper, RequestFrame
  <2>2. inbox' = Sent(inbox, n, RequestFrame(own[n], da, n))
    BY <1>9 DEF SendRequest
  <2>3. \A k \in Node : \A i \in DOMAIN inbox'[k] : Genuine(k, inbox'[k][i])
    BY <1>1, <1>2, <2>1, <2>2, SentGenuine
  <2> QED
    BY <1>3, <2>3
<1> QED
  BY <1>4, <1>5, <1>6, <1>7, <1>8, <1>9, EarlyTick DEF Next, RxStep, vars

LEMMA StrongInit == Init => StrongestKeeps /\ GenuineInv
<1>1. Init => \A n \in Node : DOMAIN inbox[n] = {}
  BY DEF Init
<1> QED
  BY <1>1 DEF Init, StrongestKeeps, GenuineInv

(* The ECU with the strongest NAME never moves from its preferred address, *)
(* however late it is created and whatever it hears.                       *)
THEOREM StrongestStaysPut == Spec => []StrongestKeeps
<1>1. TypeOK /\ StrongestKeeps /\ [Next]_vars => StrongestKeeps'
  BY StrongestStays
<1> QED
  BY <1>1, StrongInit, TypeCorrect, PTL DEF Spec

-----------------------------------------------------------------------------
(* Two ECUs on a bus. *)

TwoNodes == \E m, n \in Node : m # n /\ Node = {m, n}

(* A node leaves its preferred address only to one that wanted the same.   *)
LeavesToRival ==
  \A n \in Node : current[n] # Preferred[n] =>
    \E m \in Node \ {n} : Preferred[m] = Preferred[n]

LEMMA OneIsStrongest ==
  ASSUME TwoNodes, NEW n \in Node, NEW m \in Node, m # n, Outranks(m, n)
  PROVE  Strongest(m)
BY RankAssumption DEF TwoNodes, Strongest, Outranks

LEMMA LeavesNext ==
  ASSUME TwoNodes, TypeOK, GenuineInv, LeavesToRival, [Next]_vars
  PROVE  LeavesToRival'
<1> SUFFICES ASSUME NEW k \in Node, current'[k] # Preferred[k]
             PROVE  \E m \in Node \ {k} : Preferred[m] = Preferred[k]
  BY DEF LeavesToRival
<1>1. CASE current[k] # Preferred[k]
  BY <1>1 DEF LeavesToRival
<1>2. CASE current[k] = Preferred[k]
  <2>1. ASSUME NEW n \in Node, RxPoll(n)
        PROVE  \E m \in Node \ {k} : Preferred[m] = Preferred[k]
    <3>1. n = k
      BY <1>2, <2>1, PollEffect
    <3>2. inbox[n] # <<>> /\ Yield(n, Head(inbox[n]))
      BY <1>2, <2>1, <3>1
      DEF RxPoll, PollEmpty, Handle, HearClaim, Defend, HearRequest
    <3>3. inbox[n] \in Seq(Frame) /\ Head(inbox[n]) \in Frame
      BY <3>2, HeadTyped DEF TypeOK
    <3>4. 1 \in DOMAIN inbox[n] /\ Head(inbox[n]) = inbox[n][1]
      BY <3>2, <3>3, HeadTailProperties, LenProperties, EmptySeq
    <3>5. PICK m : m = Head(inbox[n]).name
      OBVIOUS
    <3>6. /\ Genuine(n, Head(inbox[n])) /\ m \in Node /\ m # n
          /\ Head(inbox[n]).type = "claimed" /\ Head(inbox[n]).sa = current[n]
          /\ Outranks(m, n)
      BY <3>2, <3>3, <3>4, <3>5 DEF GenuineInv, Genuine, Frame, Yield, Hearing, Contested
    <3>7. Strongest(m)
      BY <3>6, OneIsStrongest
    <3> QED
      BY <1>2, <3>1, <3>5, <3>6, <3>7 DEF Genuine
  <2>2. ASSUME NEW n \in Node, Create(n) PROVE FALSE
    BY <1>2, <2>2, CreateEffect
  <2> QED
    BY <1>2, <2>1, <2>2, ElapseEffect, DestroyEffect, EarlyTick, RequestEffect
    DEF Next, RxStep, vars, claimer
<1> QED
  BY <1>1, <1>2

LEMMA TwoAreUnique ==
  ASSUME TwoNodes, TypeOK, PreferredUnique, StrongestKeeps, LeavesToRival
  PROVE  UniqueAddresses
<1> SUFFICES ASSUME NEW m \in On, NEW n \in On, m # n, claimed[m], claimed[n],
                    current[m] = current[n]
             PROVE  FALSE
  BY DEF UniqueAddresses
<1>1. ASSUME NEW a \in On, NEW b \in On, a # b, claimed[a], claimed[b],
             current[a] = current[b], Outranks(a, b)
      PROVE  FALSE
  <2>1. a \in Node /\ b \in Node /\ Node \ {b} = {a}
    BY <1>1 DEF On, TwoNodes
  <2>2. current[a] = Preferred[a]
    BY <1>1, <2>1, OneIsStrongest DEF StrongestKeeps
  <2>3. current[b] = Preferred[b] \/ \E k \in Node \ {b} : Preferred[k] = Preferred[b]
    BY <2>1 DEF LeavesToRival
  <2>4. Preferred[a] = Preferred[b]
    BY <1>1, <2>1, <2>2, <2>3
  <2> QED
    BY <1>1, <2>1, <2>2, <2>4 DEF PreferredUnique
<1>2. Outranks(m, n) \/ Outranks(n, m)
  BY RankAssumption DEF Outranks, On
<1> QED
  BY <1>1, <1>2

(* Two ECUs never settle on one address, whatever their NAMEs, preferred   *)
(* addresses and the order of their creations, destructions and frames.    *)
THEOREM TwoNeverCollide ==
  ASSUME KeepsUp, TwoNodes
  PROVE  Spec /\ []NoOverflow => []UniqueAddresses
<1>1. Init => StrongestKeeps /\ GenuineInv /\ LeavesToRival
  BY StrongInit DEF Init, LeavesToRival
<1>2. TypeOK /\ StrongestKeeps /\ GenuineInv /\ LeavesToRival /\ [Next]_vars
        => (StrongestKeeps /\ GenuineInv /\ LeavesToRival)'
  BY StrongestStays, GenuineNext, LeavesNext
<1>3. TypeOK /\ PreferredUnique /\ StrongestKeeps /\ LeavesToRival => UniqueAddresses
  BY TwoAreUnique
<1>4. Spec /\ []NoOverflow => []PreferredUnique
  BY PreferredIsUnique
<1> QED
  BY <1>1, <1>2, <1>3, <1>4, TypeCorrect, PTL DEF Spec
=============================================================================
