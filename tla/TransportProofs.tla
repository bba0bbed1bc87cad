-------------------------- MODULE TransportProofs --------------------------
(***************************************************************************)
(* Proofs about the transport protocol for any number of nodes and         *)
(* transfers: what an application is handed is what one sender sent.       *)
(*                                                                         *)
(* A DT frame carries no identity, so the argument is about the order of   *)
(* the frames of one source in one receive queue: a DT belongs to the last *)
(* header before it, or, when none is queued before it, to the session     *)
(* that is open already.                                                   *)
(*                                                                         *)
(* The second half is about two nodes on a bus that loses a frame at most: *)
(* until then each transfer between them has one frame under way, and the  *)
(* transport layer implements TransferService.                             *)
(***************************************************************************)
EXTENDS Transport, SequenceTheorems, FiniteSetTheorems, TLAPS

-----------------------------------------------------------------------------
(* The frames of one source s in one queue q. *)

HeaderOf(s, f) == f.sa = s /\ IsHeader(f)
DataOf(s, f) == f.sa = s /\ f.kind = "DT"

(* No header of s at the positions from a to b. *)
Bare(q, s, a, b) == \A k \in a .. b : ~HeaderOf(s, q[k])

(* A queued DT belongs to the last header queued before it ...             *)
Ordered(q, s) ==
  \A i, j \in 1 .. Len(q) :
    i < j /\ HeaderOf(s, q[i]) /\ DataOf(s, q[j]) /\ Bare(q, s, i + 1, j - 1)
      => q[i].transfer = q[j].transfer

(* ... or, if there is none, to the session r.                             *)
Follows(q, s, r) ==
  r # NoSession =>
    \A j \in 1 .. Len(q) :
      DataOf(s, q[j]) /\ Bare(q, s, 1, j - 1) => q[j].transfer = r.transfer

(* What comes next from s belongs to t. *)
Current(q, s, r, t) ==
  /\ \A i \in 1 .. Len(q) :
       HeaderOf(s, q[i]) /\ Bare(q, s, i + 1, Len(q)) => q[i].transfer = t
  /\ r # NoSession /\ Bare(q, s, 1, Len(q)) => r.transfer = t

LEMMA TailFacts ==
  ASSUME NEW q \in Seq(Frame), q # <<>>
  PROVE  /\ Len(q) \in Nat \ {0}
         /\ Tail(q) \in Seq(Frame) /\ Len(Tail(q)) = Len(q) - 1
         /\ \A i \in 1 .. Len(q) - 1 : Tail(q)[i] = q[i + 1]
         /\ Head(q) = q[1] /\ q[1] \in Frame
BY HeadTailProperties, ElementOfSeq, LenProperties, EmptySeq

(* Taking a frame that is no header of s off the queue. *)
LEMMA TailBare ==
  ASSUME NEW q \in Seq(Frame), q # <<>>, NEW s, ~HeaderOf(s, Head(q)),
         NEW r, NEW t, Ordered(q, s), Follows(q, s, r)
  PROVE  /\ Ordered(Tail(q), s)
         /\ Follows(Tail(q), s, r)
         /\ Current(q, s, r, t) => Current(Tail(q), s, r, t)
<1> DEFINE p == Tail(q)
<1>1. /\ Len(q) \in Nat \ {0} /\ Len(p) = Len(q) - 1
      /\ \A i \in 1 .. Len(p) : p[i] = q[i + 1]
  BY TailFacts
<1>2. ~HeaderOf(s, q[1])
  BY TailFacts
<1> HIDE DEF p
<1>3. ASSUME NEW a \in 1 .. Len(q), NEW b \in 0 .. Len(p), Bare(p, s, a, b)
      PROVE  Bare(q, s, a + 1, b + 1)
  <2> SUFFICES ASSUME NEW k \in a + 1 .. b + 1 PROVE ~HeaderOf(s, q[k])
    BY DEF Bare
  <2>1. k - 1 \in a .. b /\ k - 1 \in 1 .. Len(p)
    BY <1>1
  <2>2. p[k - 1] = q[k]
    BY <1>1, <2>1
  <2> QED
    BY <1>3, <2>1, <2>2 DEF Bare
<1>4. ASSUME NEW b \in 0 .. Len(p), Bare(p, s, 1, b)
      PROVE  Bare(q, s, 1, b + 1)
  <2>1. Bare(q, s, 2, b + 1)
    BY <1>1, <1>3, <1>4
  <2> QED
    BY <1>2, <2>1 DEF Bare
<1>5. Ordered(p, s)
  <2> SUFFICES ASSUME NEW i \in 1 .. Len(p), NEW j \in 1 .. Len(p), i < j,
                      HeaderOf(s, p[i]), DataOf(s, p[j]), Bare(p, s, i + 1, j - 1)
               PROVE  p[i].transfer = p[j].transfer
    BY DEF Ordered
  <2>1. Bare(q, s, i + 2, j)
    <3>1. i + 1 \in 1 .. Len(q) /\ j - 1 \in 0 .. Len(p)
      BY <1>1
    <3>2. Bare(q, s, (i + 1) + 1, (j - 1) + 1)
      BY <1>3, <3>1
    <3> QED
      BY <3>2, <1>1
  <2>2. /\ i + 1 \in 1 .. Len(q) /\ j + 1 \in 1 .. Len(q) /\ i + 1 < j + 1
        /\ (i + 1) + 1 = i + 2 /\ (j + 1) - 1 = j
    BY <1>1
  <2> QED
    BY <1>1, <2>1, <2>2 DEF Ordered
<1>6. Follows(p, s, r)
  <2> SUFFICES ASSUME r # NoSession, NEW j \in 1 .. Len(p),
                      DataOf(s, p[j]), Bare(p, s, 1, j - 1)
               PROVE  p[j].transfer = r.transfer
    BY DEF Follows
  <2>1. Bare(q, s, 1, (j - 1) + 1)
    BY <1>1, <1>4
  <2>2. j + 1 \in 1 .. Len(q) /\ (j + 1) - 1 = (j - 1) + 1
    BY <1>1
  <2> QED
    BY <1>1, <2>1, <2>2 DEF Follows
<1>7. ASSUME Current(q, s, r, t) PROVE Current(p, s, r, t)
  <2>1. ASSUME NEW i \in 1 .. Len(p), HeaderOf(s, p[i]), Bare(p, s, i + 1, Len(p))
        PROVE  p[i].transfer = t
    <3>1. Bare(q, s, (i + 1) + 1, Len(p) + 1)
      BY <1>1, <1>3, <2>1
    <3>2. i + 1 \in 1 .. Len(q) /\ Len(p) + 1 = Len(q)
      BY <1>1
    <3> QED
      BY <1>1, <1>7, <2>1, <3>1, <3>2 DEF Current
  <2>2. ASSUME r # NoSession, Bare(p, s, 1, Len(p))
        PROVE  r.transfer = t
    BY <1>1, <1>4, <1>7, <2>2 DEF Current
  <2> QED
    BY <2>1, <2>2 DEF Current
<1> QED
  BY <1>5, <1>6, <1>7 DEF p

(* Taking a header of s off the queue, to open a session for it. *)
LEMMA TailHeader ==
  ASSUME NEW q \in Seq(Frame), q # <<>>, NEW s, HeaderOf(s, Head(q)),
         NEW r, r.transfer = Head(q).transfer, NEW t, Ordered(q, s)
  PROVE  /\ Ordered(Tail(q), s)
         /\ Follows(Tail(q), s, r)
         /\ \A old : Current(q, s, old, t) => Current(Tail(q), s, r, t)
<1> DEFINE p == Tail(q)
<1>1. /\ Len(q) \in Nat \ {0} /\ Len(p) = Len(q) - 1
      /\ \A i \in 1 .. Len(p) : p[i] = q[i + 1]
  BY TailFacts
<1>2. HeaderOf(s, q[1]) /\ r.transfer = q[1].transfer
  BY TailFacts
<1> HIDE DEF p
<1>3. ASSUME NEW a \in 1 .. Len(q), NEW b \in 0 .. Len(p), Bare(p, s, a, b)
      PROVE  Bare(q, s, a + 1, b + 1)
  <2> SUFFICES ASSUME NEW k \in a + 1 .. b + 1 PROVE ~HeaderOf(s, q[k])
    BY DEF Bare
  <2>1. k - 1 \in a .. b /\ k - 1 \in 1 .. Len(p)
    BY <1>1
  <2>2. p[k - 1] = q[k]
    BY <1>1, <2>1
  <2> QED
    BY <1>3, <2>1, <2>2 DEF Bare
<1>4. Ordered(p, s)
  <2> SUFFICES ASSUME NEW i \in 1 .. Len(p), NEW j \in 1 .. Len(p), i < j,
                      HeaderOf(s, p[i]), DataOf(s, p[j]), Bare(p, s, i + 1, j - 1)
               PROVE  p[i].transfer = p[j].transfer
    BY DEF Ordered
  <2>1. Bare(q, s, i + 2, j)
    <3>1. i + 1 \in 1 .. Len(q) /\ j - 1 \in 0 .. Len(p)
      BY <1>1
    <3>2. Bare(q, s, (i + 1) + 1, (j - 1) + 1)
      BY <1>3, <3>1
    <3> QED
      BY <3>2, <1>1
  <2>2. /\ i + 1 \in 1 .. Len(q) /\ j + 1 \in 1 .. Len(q) /\ i + 1 < j + 1
        /\ (i + 1) + 1 = i + 2 /\ (j + 1) - 1 = j
    BY <1>1
  <2> QED
    BY <1>1, <2>1, <2>2 DEF Ordered
<1>5. Follows(p, s, r)
  <2> SUFFICES ASSUME r # NoSession, NEW j \in 1 .. Len(p),
                      DataOf(s, p[j]), Bare(p, s, 1, j - 1)
               PROVE  p[j].transfer = r.transfer
    BY DEF Follows
  <2>1. Bare(q, s, 2, j)
    <3>1. j - 1 \in 0 .. Len(p) /\ (j - 1) + 1 = j
      BY <1>1
    <3>2. Bare(q, s, 1 + 1, (j - 1) + 1)
      BY <1>1, <1>3, <3>1
    <3> QED
      BY <3>1, <3>2
  <2>2. 1 < j + 1 /\ j + 1 \in 1 .. Len(q) /\ (j + 1) - 1 = j /\ 1 \in 1 .. Len(q)
    BY <1>1
  <2>3. q[1].transfer = q[j + 1].transfer
    BY <1>1, <1>2, <2>1, <2>2 DEF Ordered
  <2> QED
    BY <1>1, <1>2, <2>3
<1>6. ASSUME NEW old, Current(q, s, old, t) PROVE Current(p, s, r, t)
  <2>1. ASSUME NEW i \in 1 .. Len(p), HeaderOf(s, p[i]), Bare(p, s, i + 1, Len(p))
        PROVE  p[i].transfer = t
    <3>1. Bare(q, s, (i + 1) + 1, Len(p) + 1)
      BY <1>1, <1>3, <2>1
    <3>2. i + 1 \in 1 .. Len(q) /\ Len(p) + 1 = Len(q)
      BY <1>1
    <3> QED
      BY <1>1, <1>6, <2>1, <3>1, <3>2 DEF Current
  <2>2. ASSUME Bare(p, s, 1, Len(p)) PROVE r.transfer = t
    <3>1. Bare(q, s, 1 + 1, Len(p) + 1)
      BY <1>1, <1>3, <2>2
    <3>2. 1 \in 1 .. Len(q) /\ Len(p) + 1 = Len(q)
      BY <1>1
    <3> QED
      BY <1>2, <1>6, <3>1, <3>2 DEF Current
  <2> QED
    BY <2>1, <2>2 DEF Current
<1> QED
  BY <1>4, <1>5, <1>6 DEF p

LEMMA AppendFacts ==
  ASSUME NEW q \in Seq(Frame), NEW f \in Frame
  PROVE  /\ Len(q) \in Nat
         /\ Append(q, f) \in Seq(Frame) /\ Len(Append(q, f)) = Len(q) + 1
         /\ \A i \in 1 .. Len(q) : Append(q, f)[i] = q[i]
         /\ Append(q, f)[Len(q) + 1] = f
BY AppendProperties, LenProperties

(* Positions before the appended frame are what they were. *)
LEMMA AppendBare ==
  ASSUME NEW q \in Seq(Frame), NEW f \in Frame, NEW s,
         NEW a \in Nat \ {0}, NEW b \in 0 .. Len(q)
  PROVE  Bare(Append(q, f), s, a, b) <=> Bare(q, s, a, b)
<1>1. Len(q) \in Nat /\ \A i \in 1 .. Len(q) : Append(q, f)[i] = q[i]
  BY AppendFacts
<1>2. a .. b \subseteq 1 .. Len(q)
  BY <1>1
<1> QED
  BY <1>1, <1>2 DEF Bare

(* A frame that is neither a header nor a DT of s changes nothing for s. *)
LEMMA AppendOther ==
  ASSUME NEW q \in Seq(Frame), NEW f \in Frame, NEW s, NEW r, NEW t,
         ~HeaderOf(s, f), ~DataOf(s, f), Ordered(q, s), Follows(q, s, r)
  PROVE  /\ Ordered(Append(q, f), s)
         /\ Follows(Append(q, f), s, r)
         /\ Current(q, s, r, t) => Current(Append(q, f), s, r, t)
<1> DEFINE p == Append(q, f)
<1>1. /\ Len(q) \in Nat /\ Len(p) = Len(q) + 1 /\ p[Len(q) + 1] = f
      /\ \A i \in 1 .. Len(q) : p[i] = q[i]
  BY AppendFacts
<1>2. \A a \in Nat \ {0}, b \in 0 .. Len(q) : Bare(p, s, a, b) <=> Bare(q, s, a, b)
  BY AppendBare
<1> HIDE DEF p
<1>3. Ordered(p, s)
  <2> SUFFICES ASSUME NEW i \in 1 .. Len(p), NEW j \in 1 .. Len(p), i < j,
                      HeaderOf(s, p[i]), DataOf(s, p[j]), Bare(p, s, i + 1, j - 1)
               PROVE  p[i].transfer = p[j].transfer
    BY DEF Ordered
  <2>1. j \in 1 .. Len(q) /\ i \in 1 .. Len(q) /\ j - 1 \in 0 .. Len(q)
    BY <1>1
  <2>2. Bare(q, s, i + 1, j - 1)
    BY <1>2, <2>1
  <2> QED
    BY <1>1, <2>1, <2>2 DEF Ordered
<1>4. Follows(p, s, r)
  <2> SUFFICES ASSUME r # NoSession, NEW j \in 1 .. Len(p),
                      DataOf(s, p[j]), Bare(p, s, 1, j - 1)
               PROVE  p[j].transfer = r.transfer
    BY DEF Follows
  <2>1. j \in 1 .. Len(q) /\ j - 1 \in 0 .. Len(q)
    BY <1>1
  <2>2. Bare(q, s, 1, j - 1)
    BY <1>2, <2>1
  <2> QED
    BY <1>1, <2>1, <2>2 DEF Follows
<1>5. ASSUME Current(q, s, r, t) PROVE Current(p, s, r, t)
  <2>1. ASSUME NEW a \in Nat \ {0}, Bare(p, s, a, Len(p)) PROVE Bare(q, s, a, Len(q))
    <3>1. Bare(p, s, a, Len(q))
      BY <1>1, <2>1 DEF Bare
    <3> QED
      BY <1>1, <1>2, <3>1
  <2>2. ASSUME NEW i \in 1 .. Len(p), HeaderOf(s, p[i]), Bare(p, s, i + 1, Len(p))
        PROVE  p[i].transfer = t
    <3>1. i \in 1 .. Len(q)
      BY <1>1, <2>2
    <3>2. Bare(q, s, i + 1, Len(q))
      BY <2>1, <2>2
    <3> QED
      BY <1>1, <1>5, <2>2, <3>1, <3>2 DEF Current
  <2>3. r # NoSession /\ Bare(p, s, 1, Len(p)) => r.transfer = t
    BY <1>5, <2>1 DEF Current
  <2> QED
    BY <2>2, <2>3 DEF Current
<1> QED
  BY <1>3, <1>4, <1>5 DEF p

(* A DT of the current transfer of s. *)
LEMMA AppendData ==
  ASSUME NEW q \in Seq(Frame), NEW f \in Frame, NEW s, NEW r, DataOf(s, f),
         Ordered(q, s), Follows(q, s, r), Current(q, s, r, f.transfer)
  PROVE  /\ Ordered(Append(q, f), s)
         /\ Follows(Append(q, f), s, r)
         /\ Current(Append(q, f), s, r, f.transfer)
<1> DEFINE p == Append(q, f)
<1>1. /\ Len(q) \in Nat /\ Len(p) = Len(q) + 1 /\ p[Len(q) + 1] = f
      /\ \A i \in 1 .. Len(q) : p[i] = q[i]
  BY AppendFacts
<1>2. \A a \in Nat \ {0}, b \in 0 .. Len(q) : Bare(p, s, a, b) <=> Bare(q, s, a, b)
  BY AppendBare
<1>3. ~HeaderOf(s, f)
  BY DEF HeaderOf, DataOf, IsHeader
<1> HIDE DEF p
<1>4. Ordered(p, s)
  <2> SUFFICES ASSUME NEW i \in 1 .. Len(p), NEW j \in 1 .. Len(p), i < j,
                      HeaderOf(s, p[i]), DataOf(s, p[j]), Bare(p, s, i + 1, j - 1)
               PROVE  p[i].transfer = p[j].transfer
    BY DEF Ordered
  <2>1. i \in 1 .. Len(q) /\ j - 1 \in 0 .. Len(q) /\ (j \in 1 .. Len(q) \/ j = Len(q) + 1)
    BY <1>1
  <2>2. Bare(q, s, i + 1, j - 1)
    BY <1>2, <2>1
  <2>3. CASE j \in 1 .. Len(q)
    BY <1>1, <2>1, <2>2, <2>3 DEF Ordered
  <2>4. CASE j = Len(q) + 1
    <3>1. j - 1 = Len(q)
      BY <1>1, <2>4
    <3> QED
      BY <1>1, <2>1, <2>2, <2>4, <3>1 DEF Current
  <2> QED
    BY <2>1, <2>3, <2>4
<1>5. Follows(p, s, r)
  <2> SUFFICES ASSUME r # NoSession, NEW j \in 1 .. Len(p),
                      DataOf(s, p[j]), Bare(p, s, 1, j - 1)
               PROVE  p[j].transfer = r.transfer
    BY DEF Follows
  <2>1. j - 1 \in 0 .. Len(q) /\ (j \in 1 .. Len(q) \/ j = Len(q) + 1)
    BY <1>1
  <2>2. Bare(q, s, 1, j - 1)
    BY <1>2, <2>1
  <2>3. CASE j \in 1 .. Len(q)
    BY <1>1, <2>2, <2>3 DEF Follows
  <2>4. CASE j = Len(q) + 1
    <3>1. j - 1 = Len(q)
      BY <1>1, <2>4
    <3> QED
      BY <1>1, <2>2, <2>4, <3>1 DEF Current
  <2> QED
    BY <2>1, <2>3, <2>4
<1>6. Current(p, s, r, f.transfer)
  <2>1. ASSUME NEW a \in Nat \ {0}, Bare(p, s, a, Len(p)) PROVE Bare(q, s, a, Len(q))
    <3>1. Bare(p, s, a, Len(q))
      BY <1>1, <2>1 DEF Bare
    <3> QED
      BY <1>1, <1>2, <3>1
  <2>2. ASSUME NEW i \in 1 .. Len(p), HeaderOf(s, p[i]), Bare(p, s, i + 1, Len(p))
        PROVE  p[i].transfer = f.transfer
    <3>1. i \in 1 .. Len(q)
      BY <1>1, <1>3, <2>2
    <3>2. Bare(q, s, i + 1, Len(q))
      BY <2>1, <2>2
    <3> QED
      BY <1>1, <2>2, <3>1, <3>2 DEF Current
  <2>3. r # NoSession /\ Bare(p, s, 1, Len(p)) => r.transfer = f.transfer
    BY <2>1 DEF Current
  <2> QED
    BY <2>2, <2>3 DEF Current
<1> QED
  BY <1>4, <1>5, <1>6 DEF p

(* A new header of s makes its transfer the current one. *)
LEMMA AppendHeader ==
  ASSUME NEW q \in Seq(Frame), NEW f \in Frame, NEW s, NEW r, HeaderOf(s, f),
         Ordered(q, s), Follows(q, s, r)
  PROVE  /\ Ordered(Append(q, f), s)
         /\ Follows(Append(q, f), s, r)
         /\ Current(Append(q, f), s, r, f.transfer)
<1> DEFINE p == Append(q, f)
<1>1. /\ Len(q) \in Nat /\ Len(p) = Len(q) + 1 /\ p[Len(q) + 1] = f
      /\ \A i \in 1 .. Len(q) : p[i] = q[i]
  BY AppendFacts
<1>2. \A a \in Nat \ {0}, b \in 0 .. Len(q) : Bare(p, s, a, b) <=> Bare(q, s, a, b)
  BY AppendBare
<1>3. ~DataOf(s, f)
  BY DEF HeaderOf, DataOf, IsHeader
<1> HIDE DEF p
<1>4. Ordered(p, s)
  <2> SUFFICES ASSUME NEW i \in 1 .. Len(p), NEW j \in 1 .. Len(p), i < j,
                      HeaderOf(s, p[i]), DataOf(s, p[j]), Bare(p, s, i + 1, j - 1)
               PROVE  p[i].transfer = p[j].transfer
    BY DEF Ordered
  <2>1. j \in 1 .. Len(q) /\ i \in 1 .. Len(q) /\ j - 1 \in 0 .. Len(q)
    BY <1>1, <1>3
  <2>2. Bare(q, s, i + 1, j - 1)
    BY <1>2, <2>1
  <2> QED
    BY <1>1, <2>1, <2>2 DEF Ordered
<1>5. Follows(p, s, r)
  <2> SUFFICES ASSUME r # NoSession, NEW j \in 1 .. Len(p),
                      DataOf(s, p[j]), Bare(p, s, 1, j - 1)
               PROVE  p[j].transfer = r.transfer
    BY DEF Follows
  <2>1. j \in 1 .. Len(q) /\ j - 1 \in 0 .. Len(q)
    BY <1>1, <1>3
  <2>2. Bare(q, s, 1, j - 1)
    BY <1>2, <2>1
  <2> QED
    BY <1>1, <2>1, <2>2 DEF Follows
<1>6. Current(p, s, r, f.transfer)
  <2>1. ASSUME NEW i \in 1 .. Len(p), HeaderOf(s, p[i]), Bare(p, s, i + 1, Len(p))
        PROVE  p[i].transfer = f.transfer
    <3>1. i = Len(p)
      BY <1>1, <2>1 DEF Bare
    <3> QED
      BY <1>1, <3>1
  <2>2. ~Bare(p, s, 1, Len(p))
    BY <1>1 DEF Bare
  <2> QED
    BY <2>1, <2>2 DEF Current
<1> QED
  BY <1>4, <1>5, <1>6 DEF p

(* Closing the session, or keeping its transfer. *)
LEMMA SameSession ==
  ASSUME NEW q, NEW s, NEW r, NEW new, NEW t,
         new = NoSession \/ (r # NoSession /\ new.transfer = r.transfer),
         Follows(q, s, r)
  PROVE  /\ Follows(q, s, new)
         /\ Current(q, s, r, t) => Current(q, s, new, t)
BY DEF Follows, Current

-----------------------------------------------------------------------------
(* Type correctness. *)

LEMMA NextNumber ==
  ASSUME NEW k \in Seq8
  PROVE  /\ Next8(k) \in Seq8
         /\ k + 1 < SeqMod => Next8(k) = k + 1
         /\ k + 1 = SeqMod => Next8(k) = 0
BY TransferAssumption DEF Seq8, Next8

LEMMA FrameTypes ==
  ASSUME NEW s \in Node, NEW d \in Node \cup {All}, NEW t \in Transfer, NEW k \in Seq8,
         NEW kind \in {"RTS", "BAM", "CTS", "EOM"}
  PROVE  /\ Control(kind, s, d, t, k) \in Frame
         /\ Control("ABORT", s, d, NoTransfer, 0) \in Frame
         /\ Data(s, d, t, k) \in Frame
<1>1. Part(t, k) \in Nat
  BY TransferAssumption DEF Part, Seq8
<1>2. 0 \in Seq8 /\ 0 \in Nat
  BY TransferAssumption DEF Seq8
<1> QED
  BY <1>1, <1>2 DEF Control, Data, Frame

LEMMA SentType ==
  ASSUME NEW box \in [Node -> Seq(Frame)], NEW s, NEW f \in Frame
  PROVE  Sent(box, s, f) \in [Node -> Seq(Frame)]
BY AppendProperties DEF Sent

LEMMA ReceivedType ==
  ASSUME TypeOK, NEW n \in Node, inbox[n] # <<>>
  PROVE  Received(n) \in [Node -> Seq(Frame)] /\ Head(inbox[n]) \in Frame
BY HeadTailProperties DEF TypeOK, Received

LEMMA OpenedType ==
  ASSUME NEW f \in Frame, f.transfer \in Transfer
  PROVE  /\ Opened(f) \in Session /\ Opened(f) # NoSession
         /\ Opened(f).transfer = f.transfer
         /\ Opened(f).next = 1 /\ Opened(f).data = <<>>
<1>1. 1 \in Seq8 /\ (f.kind = "BAM") \in BOOLEAN /\ <<>> \in Seq(Chunk)
  BY TransferAssumption, EmptySeq DEF Seq8
<1>2. Opened(f) \in Session
  BY <1>1 DEF Opened, Session
<1> QED
  BY <1>2, NoSessionAssumption DEF Opened

LEMMA AcceptedType ==
  ASSUME NEW r \in Session, NEW f \in Frame, f.transfer \in Transfer
  PROVE  /\ Accepted(r, f) \in Session /\ Accepted(r, f) # NoSession
         /\ Accepted(r, f).transfer = r.transfer
         /\ Accepted(r, f).next = Next8(r.next)
         /\ Accepted(r, f).data = IF Len(r.data) < Packets[r.transfer]
                                  THEN Append(r.data, <<f.transfer, f.part>>) ELSE r.data
<1>1. /\ r.transfer \in Transfer /\ r.next \in Seq8 /\ r.data \in Seq(Chunk)
      /\ r.bam \in BOOLEAN /\ f.part \in Nat
  BY DEF Session, Frame
<1>2. <<f.transfer, f.part>> \in Chunk
  BY <1>1 DEF Chunk
<1>3. Append(r.data, <<f.transfer, f.part>>) \in Seq(Chunk)
  BY <1>1, <1>2, AppendProperties
<1>4. Next8(r.next) \in Seq8
  BY <1>1, NextNumber
<1>5. Accepted(r, f) \in Session
  BY <1>1, <1>3, <1>4 DEF Accepted, Session
<1> QED
  BY <1>5, NoSessionAssumption DEF Accepted, Session

LEMMA CtsType ==
  ASSUME NEW n \in Node, NEW s \in Node, NEW r \in Session
  PROVE  Cts(n, s, r) \in Frame
BY FrameTypes DEF Cts, Session

LEMMA TypeInit == Init => TypeOK
<1> SUFFICES ASSUME Init PROVE TypeOK
  OBVIOUS
<1>1. 0 \in Seq8 /\ 0 \in 0 .. MaxLosses /\ 0 \in 0 .. MaxAborts
  BY TransferAssumption, TransportBounds DEF Seq8
<1> QED
  BY <1>1, EmptySeq DEF Init, TypeOK

(* What the type invariant says of the frame at the head of a queue and of *)
(* the session it meets.                                                   *)
LEMMA HeadType ==
  ASSUME TypeOK, NEW n \in Node, inbox[n] # <<>>
  PROVE  LET f == Head(inbox[n])
         IN  /\ f \in Frame /\ f.sa \in Node /\ f.seq \in Seq8
             /\ f.kind # "ABORT" => f.transfer \in Transfer
             /\ tx[n][f.sa] \in Transfer \cup {NoTransfer}
             /\ rx[n][f.sa] # NoSession =>
                  rx[n][f.sa] \in Session /\ rx[n][f.sa].transfer \in Transfer
<1> DEFINE f == Head(inbox[n])
<1>1. f \in Frame
  BY ReceivedType
<1>2. f.sa \in Node /\ f.seq \in Seq8 /\ (f.kind # "ABORT" => f.transfer \in Transfer)
  BY <1>1 DEF Frame
<1> HIDE DEF f
<1>3. tx[n][f.sa] \in Transfer \cup {NoTransfer} /\ rx[n][f.sa] \in Session \cup {NoSession}
  BY <1>2 DEF TypeOK
<1> QED
  BY <1>1, <1>2, <1>3 DEF f, Session

LEMMA TypeHandle ==
  ASSUME TypeOK, NEW n \in Node, RxFrame(n)
  PROVE  TypeOK'
<1> DEFINE f == Head(inbox[n])
<1> USE DEF RxFrame
<1>1. /\ f \in Frame /\ f.sa \in Node /\ f.seq \in Seq8
      /\ f.kind # "ABORT" => f.transfer \in Transfer
      /\ tx[n][f.sa] \in Transfer \cup {NoTransfer}
      /\ rx[n][f.sa] # NoSession =>
           rx[n][f.sa] \in Session /\ rx[n][f.sa].transfer \in Transfer
  BY HeadType
<1>2. Received(n) \in [Node -> Seq(Frame)]
  BY ReceivedType
<1>3. /\ inbox[n] # <<>> /\ Handle(n, f)
      /\ UNCHANGED <<seq, losses, aborts>>
  OBVIOUS
<1> HIDE DEF f, RxFrame
<1>4. \A g \in Frame : Sent(Received(n), n, g) \in [Node -> Seq(Frame)]
  BY <1>2, SentType
<1>5. /\ seq' \in [Transfer -> Seq8] /\ losses' \in 0 .. MaxLosses /\ aborts' \in 0 .. MaxAborts
  BY <1>3 DEF TypeOK
<1>6. SUFFICES /\ inbox' \in [Node -> Seq(Frame)]
               /\ rx' \in [Node -> [Node -> Session \cup {NoSession}]]
               /\ tx' \in [Node -> [Node -> Transfer \cup {NoTransfer}]]
               /\ status' \in [Transfer -> {"idle", "rts", "bam", "ok", "refused", "failed", "aborted", "timeout"}]
               /\ delivered' \in [Node -> Seq([transfer : Transfer, data : Seq(Chunk)])]
  BY <1>5 DEF TypeOK
<1>7. \A r \in Session \cup {NoSession} :
        [rx EXCEPT ![n][f.sa] = r] \in [Node -> [Node -> Session \cup {NoSession}]]
  BY <1>1 DEF TypeOK
<1>8. [tx EXCEPT ![n][f.sa] = NoTransfer] \in [Node -> [Node -> Transfer \cup {NoTransfer}]]
  BY <1>1 DEF TypeOK
<1>9. \A o \in {"ok", "aborted"} : Concluded(tx[n][f.sa], o) \in
        [Transfer -> {"idle", "rts", "bam", "ok", "refused", "failed", "aborted", "timeout"}]
  BY <1>1 DEF TypeOK, Concluded
<1>10. CASE HearRts(n, f)
  <2>1. f.transfer \in Transfer
    BY <1>1, <1>10 DEF HearRts
  <2>2. Opened(f) \in Session
    BY <1>1, <2>1, OpenedType
  <2>3. Cts(n, f.sa, Opened(f)) \in Frame
    BY <1>1, <2>2, CtsType
  <2> QED
    BY <1>4, <1>7, <1>10, <2>2, <2>3 DEF HearRts, TypeOK
<1>11. CASE HearBam(n, f)
  <2>1. f.transfer \in Transfer
    BY <1>1, <1>11 DEF HearBam
  <2>2. Opened(f) \in Session
    BY <1>1, <2>1, OpenedType
  <2> QED
    BY <1>2, <1>7, <1>11, <2>2 DEF HearBam, TypeOK
<1>12. CASE HearCts(n, f)
  <2>1. CASE tx[n][f.sa] = NoTransfer
    BY <1>2, <1>12, <2>1 DEF HearCts, TypeOK
  <2>2. CASE tx[n][f.sa] # NoTransfer
    <3>1. Data(n, f.sa, tx[n][f.sa], f.seq) \in Frame
      BY <1>1, <2>2, FrameTypes
    <3> QED
      BY <1>4, <1>12, <2>2, <3>1 DEF HearCts, TypeOK
  <2> QED
    BY <2>1, <2>2
<1>13. CASE HearEom(n, f)
  BY <1>2, <1>8, <1>9, <1>13 DEF HearEom, TypeOK
<1>14. CASE HearAbort(n, f)
  BY <1>2, <1>7, <1>8, <1>9, <1>14 DEF HearAbort, TypeOK
<1>15. CASE HearStrayDt(n, f)
  BY <1>2, <1>15 DEF HearStrayDt, TypeOK
<1>16. CASE HearWrongDt(n, f)
  <2>1. rx[n][f.sa] \in Session
    BY <1>1, <1>16 DEF HearWrongDt
  <2>2. Cts(n, f.sa, rx[n][f.sa]) \in Frame
    BY <1>1, <2>1, CtsType
  <2> QED
    BY <1>2, <1>4, <1>16, <2>2 DEF HearWrongDt, TypeOK
<1>17. CASE HearNextDt(n, f)
  <2> DEFINE r == Accepted(rx[n][f.sa], f)
  <2>1. rx[n][f.sa] \in Session /\ f.transfer \in Transfer
    BY <1>1, <1>17 DEF HearNextDt
  <2>2. r \in Session
    BY <1>1, <2>1, AcceptedType
  <2>3. Cts(n, f.sa, r) \in Frame
    BY <1>1, <2>2, CtsType
  <2>4. /\ rx' = [rx EXCEPT ![n][f.sa] = r]
        /\ inbox' = IF r.bam THEN Received(n) ELSE Sent(Received(n), n, Cts(n, f.sa, r))
        /\ UNCHANGED <<tx, status, delivered>>
    BY <1>17 DEF HearNextDt
  <2> HIDE DEF r
  <2> QED
    BY <1>2, <1>4, <1>7, <2>2, <2>3, <2>4 DEF TypeOK
<1>18. CASE HearLastDt(n, f)
  <2> DEFINE r == Accepted(rx[n][f.sa], f)
             g == Control("EOM", n, f.sa, r.transfer, 0)
  <2>1. rx[n][f.sa] \in Session /\ f.transfer \in Transfer
    BY <1>1, <1>18 DEF HearLastDt
  <2>2. r \in Session
    BY <1>1, <2>1, AcceptedType
  <2>3. r.transfer \in Transfer /\ r.data \in Seq(Chunk) /\ 0 \in Seq8
    BY <2>2, TransferAssumption DEF Session, Seq8
  <2>4. g \in Frame
    BY <1>1, <2>3, FrameTypes
  <2>5. /\ rx' = [rx EXCEPT ![n][f.sa] = NoSession]
        /\ inbox' = IF r.bam THEN Received(n) ELSE Sent(Received(n), n, g)
        /\ delivered' = [delivered EXCEPT ![n] =
             Append(@, [transfer |-> r.transfer, data |-> r.data])]
        /\ UNCHANGED <<tx, status>>
    BY <1>18 DEF HearLastDt
  <2> HIDE DEF r, g
  <2>6. [transfer |-> r.transfer, data |-> r.data] \in [transfer : Transfer, data : Seq(Chunk)]
    BY <2>3
  <2>7. delivered' \in [Node -> Seq([transfer : Transfer, data : Seq(Chunk)])]
    BY <2>5, <2>6, AppendProperties DEF TypeOK
  <2> QED
    BY <1>2, <1>4, <1>7, <2>4, <2>5, <2>7 DEF TypeOK
<1> QED
  BY <1>3, <1>10, <1>11, <1>12, <1>13, <1>14, <1>15, <1>16, <1>17, <1>18 DEF Handle

LEMMA TypeNext == TypeOK /\ [Next]_vars => TypeOK'
<1> SUFFICES ASSUME TypeOK, [Next]_vars PROVE TypeOK'
  OBVIOUS
<1>1. ASSUME NEW t \in Transfer, StartRts(t) PROVE TypeOK'
  <2>1. Src[t] \in Node /\ Dst[t] \in Node /\ 0 \in Seq8
    BY <1>1, TransferAssumption DEF StartRts, Seq8
  <2>2. Sent(inbox, Src[t], Control("RTS", Src[t], Dst[t], t, 0)) \in [Node -> Seq(Frame)]
    BY <2>1, FrameTypes, SentType DEF TypeOK
  <2>3. tx' \in [Node -> [Node -> Transfer \cup {NoTransfer}]]
    BY <1>1, <2>1 DEF StartRts, TypeOK
  <2> QED
    BY <1>1, <2>2, <2>3 DEF StartRts, TypeOK
<1>2. ASSUME NEW t \in Transfer, StartBam(t) PROVE TypeOK'
  <2>1. Src[t] \in Node /\ 0 \in Seq8 /\ 1 \in Seq8
    BY TransferAssumption DEF Seq8
  <2>2. Sent(inbox, Src[t], Control("BAM", Src[t], All, t, 0)) \in [Node -> Seq(Frame)]
    BY <2>1, FrameTypes, SentType DEF TypeOK
  <2> QED
    BY <1>2, <2>1, <2>2 DEF StartBam, TypeOK
<1>3. ASSUME NEW t \in Transfer, StepBam(t) PROVE TypeOK'
  <2>1. Src[t] \in Node /\ seq[t] \in Seq8 /\ Next8(seq[t]) \in Seq8
    BY TransferAssumption, NextNumber DEF TypeOK
  <2>2. Sent(inbox, Src[t], Data(Src[t], All, t, seq[t])) \in [Node -> Seq(Frame)]
    BY <2>1, FrameTypes, SentType DEF TypeOK
  <2> QED
    BY <1>3, <2>1, <2>2 DEF StepBam, TypeOK
<1>4. ASSUME NEW t \in Transfer, EndBam(t) \/ StartFails(t) PROVE TypeOK'
  BY <1>4 DEF EndBam, StartFails, TypeOK
<1>10. ASSUME NEW t \in Transfer, BamFails(t) PROVE TypeOK'
  <2>1. losses' \in 0 .. MaxLosses
    BY <1>10, TransportBounds DEF BamFails, TypeOK
  <2> QED
    BY <1>10, <2>1 DEF BamFails, TypeOK
<1>5. ASSUME NEW t \in Transfer, Timeout(t) PROVE TypeOK'
  <2>1. tx' \in [Node -> [Node -> Transfer \cup {NoTransfer}]]
    BY <1>5, TransferAssumption DEF Timeout, TypeOK
  <2> QED
    BY <1>5, <2>1 DEF Timeout, TypeOK
<1>6. ASSUME NEW n \in Node, RxFrame(n) PROVE TypeOK'
  BY <1>6, TypeHandle
<1>7. ASSUME NEW n \in Node, Lose(n) PROVE TypeOK'
  <2>1. Received(n) \in [Node -> Seq(Frame)]
    BY <1>7, ReceivedType DEF Lose
  <2>2. losses' \in 0 .. MaxLosses
    BY <1>7, TransportBounds DEF Lose, TypeOK
  <2> QED
    BY <1>7, <2>1, <2>2 DEF Lose, TypeOK
<1>8. ASSUME NEW s \in Node, NEW d \in Node, ForeignAbort(s, d) PROVE TypeOK'
  <2>1. Control("ABORT", s, d, NoTransfer, 0) \in Frame
    <3>1. 0 \in Seq8
      BY TransferAssumption DEF Seq8
    <3> QED
      BY <3>1 DEF Control, Frame
  <2>2. aborts' \in 0 .. MaxAborts
    BY <1>8, TransportBounds DEF ForeignAbort, TypeOK
  <2> QED
    BY <1>8, <2>1, <2>2, SentType DEF ForeignAbort, TypeOK
<1>9. CASE UNCHANGED vars
  BY <1>9 DEF vars, TypeOK
<1> QED
  BY <1>1, <1>2, <1>3, <1>4, <1>5, <1>6, <1>7, <1>8, <1>9, <1>10 DEF Next

(* Every variable keeps its type: in particular packet numbers stay within *)
(* their byte and every session entry belongs to a transfer.               *)
THEOREM TypeCorrect == Spec => []TypeOK
<1>1. Init => TypeOK
  BY TypeInit
<1>2. TypeOK /\ [Next]_vars => TypeOK'
  BY TypeNext
<1> QED
  BY <1>1, <1>2, PTL DEF Spec

-----------------------------------------------------------------------------
(* The invariant behind DeliveredIntact. *)

(* A session holds the first packets of its transfer. *)
Prefix(r) ==
  /\ Len(r.data) <= Packets[r.transfer]
  /\ \A i \in 1 .. Len(r.data) : r.data[i] = <<r.transfer, i>>
  /\ Len(r.data) < Packets[r.transfer] => r.next = Len(r.data) + 1

(* Frames come from another node, and a DT carries the packet of its number. *)
Genuine(n, f) ==
  f.sa # n /\ (f.kind = "DT" => f.part = Part(f.transfer, f.seq))

FramesGenuine == \A n \in Node : \A i \in 1 .. Len(inbox[n]) : Genuine(n, inbox[n][i])

OneBusy == \A t, u \in Transfer : Busy(t) /\ Busy(u) /\ Src[t] = Src[u] => t = u

Registered ==
  \A s, d \in Node : tx[s][d] # NoTransfer =>
    Src[tx[s][d]] = s /\ Dst[tx[s][d]] = d /\ status[tx[s][d]] = "rts"

InStep(n, s) ==
  /\ Ordered(inbox[n], s)
  /\ Follows(inbox[n], s, rx[n][s])
  /\ \A t \in Transfer : Busy(t) /\ Src[t] = s => Current(inbox[n], s, rx[n][s], t)

StreamsInStep == \A n, s \in Node : n # s => InStep(n, s)

Prefixes == \A n, s \in Node : rx[n][s] # NoSession => Prefix(rx[n][s])

IntactInv ==
  /\ TypeOK /\ FramesGenuine /\ OneBusy /\ Registered
  /\ StreamsInStep /\ Prefixes /\ DeliveredIntact

LEMMA IntactInit == Init => IntactInv
<1> SUFFICES ASSUME Init PROVE IntactInv
  OBVIOUS
<1>1. TypeOK
  BY TypeInit
<1>2. \A n \in Node : Len(inbox[n]) = 0
  BY EmptySeq DEF Init
<1>3. FramesGenuine
  BY <1>2 DEF FramesGenuine
<1>4. OneBusy /\ Registered /\ Prefixes
  BY DEF Init, OneBusy, Busy, Registered, Prefixes
<1>5. StreamsInStep
  <2> SUFFICES ASSUME NEW n \in Node, NEW s \in Node PROVE InStep(n, s)
    BY DEF StreamsInStep
  <2>1. rx[n][s] = NoSession /\ \A t \in Transfer : ~Busy(t)
    BY DEF Init, Busy
  <2> QED
    BY <1>2, <2>1 DEF InStep, Ordered, Follows
<1>6. DeliveredIntact
  BY EmptySeq DEF Init, DeliveredIntact
<1> QED
  BY <1>1, <1>3, <1>4, <1>5, <1>6 DEF IntactInv

(* What handling a frame may do to the queues, the sessions and the        *)
(* transfers that are open.                                                *)
LEMMA HandleEffect ==
  ASSUME IntactInv, NEW n \in Node, RxFrame(n)
  PROVE  LET f == Head(inbox[n])
         IN  /\ f \in Frame /\ f.sa \in Node /\ f.sa # n
             /\ \/ inbox' = Received(n)
                \/ \E g \in Frame :
                     /\ inbox' = Sent(Received(n), n, g)
                     /\ g.sa = n /\ ~IsHeader(g)
                     /\ g.kind = "DT" =>
                          /\ g.part = Part(g.transfer, g.seq)
                          /\ g.transfer \in Transfer
                          /\ Busy(g.transfer) /\ Src[g.transfer] = n
             /\ \E r \in Session \cup {NoSession} :
                  /\ rx' = [rx EXCEPT ![n][f.sa] = r]
                  /\ IsHeader(f) => r # NoSession /\ r.transfer = f.transfer
                  /\ ~IsHeader(f) =>
                       \/ r = NoSession
                       \/ rx[n][f.sa] # NoSession /\ r.transfer = rx[n][f.sa].transfer
             /\ \A t \in Transfer : Busy(t)' => Busy(t)
<1> DEFINE f == Head(inbox[n])
           Reply(g) == /\ inbox' = Sent(Received(n), n, g)
                       /\ g.sa = n /\ ~IsHeader(g)
                       /\ g.kind = "DT" =>
                            /\ g.part = Part(g.transfer, g.seq)
                            /\ g.transfer \in Transfer
                            /\ Busy(g.transfer) /\ Src[g.transfer] = n
           Opens(r) == /\ rx' = [rx EXCEPT ![n][f.sa] = r]
                       /\ IsHeader(f) => r # NoSession /\ r.transfer = f.transfer
                       /\ ~IsHeader(f) =>
                            \/ r = NoSession
                            \/ rx[n][f.sa] # NoSession /\ r.transfer = rx[n][f.sa].transfer
           Queues == inbox' = Received(n) \/ \E g \in Frame : Reply(g)
           Sessions == \E r \in Session \cup {NoSession} : Opens(r)
           Fewer == \A t \in Transfer : Busy(t)' => Busy(t)
<1>1. TypeOK /\ inbox[n] # <<>> /\ Handle(n, f)
  BY DEF IntactInv, RxFrame
<1>2. /\ f \in Frame /\ f.sa \in Node /\ f.seq \in Seq8
      /\ f.kind # "ABORT" => f.transfer \in Transfer
      /\ tx[n][f.sa] \in Transfer \cup {NoTransfer}
      /\ rx[n][f.sa] # NoSession =>
           rx[n][f.sa] \in Session /\ rx[n][f.sa].transfer \in Transfer
  BY <1>1, HeadType
<1>3. f.sa # n
  <2>1. inbox[n] \in Seq(Frame)
    BY <1>1 DEF TypeOK
  <2>2. 1 \in 1 .. Len(inbox[n]) /\ f = inbox[n][1]
    BY <1>1, <2>1, TailFacts
  <2> QED
    BY <2>2 DEF IntactInv, FramesGenuine, Genuine
<1>4. SUFFICES Queues /\ Sessions /\ Fewer
  BY <1>2, <1>3
<1>5. rx[n][f.sa] \in Session \cup {NoSession} /\ rx = [rx EXCEPT ![n][f.sa] = rx[n][f.sa]]
  BY <1>1, <1>2 DEF TypeOK
<1> HIDE DEF f
<1>6. ASSUME UNCHANGED rx, ~IsHeader(f) PROVE Sessions
  <2>1. Opens(rx[n][f.sa])
    BY <1>5, <1>6
  <2> QED
    BY <1>5, <2>1
<1>7. ASSUME UNCHANGED status PROVE Fewer
  BY <1>7 DEF Busy
<1>8. ASSUME NEW o \in {"ok", "aborted"}, status' = Concluded(tx[n][f.sa], o) PROVE Fewer
  BY <1>1, <1>8 DEF Concluded, Busy, TypeOK
<1>9. ASSUME NEW s \in Node, NEW r \in Session, inbox' = Sent(Received(n), n, Cts(n, s, r))
      PROVE  Queues
  <2>1. Cts(n, s, r) \in Frame
    BY CtsType
  <2>2. Reply(Cts(n, s, r))
    BY <1>9 DEF Cts, Control, IsHeader
  <2> QED
    BY <2>1, <2>2
<1>10. CASE HearRts(n, f)
  <2>1. Opened(f) \in Session /\ Opened(f) # NoSession /\ Opened(f).transfer = f.transfer
    BY <1>2, <1>10, OpenedType DEF HearRts
  <2>2. Opens(Opened(f))
    BY <1>10, <2>1 DEF HearRts, IsHeader
  <2>3. Sessions
    BY <2>1, <2>2
  <2>4. inbox' = Sent(Received(n), n, Cts(n, f.sa, Opened(f))) /\ UNCHANGED status
    BY <1>10 DEF HearRts
  <2> HIDE DEF Queues, Sessions, Fewer
  <2> QED
    BY <1>2, <1>7, <1>9, <2>1, <2>3, <2>4
<1>11. CASE HearBam(n, f)
  <2>1. Opened(f) \in Session /\ Opened(f) # NoSession /\ Opened(f).transfer = f.transfer
    BY <1>2, <1>11, OpenedType DEF HearBam
  <2>2. Opens(Opened(f))
    BY <1>11, <2>1 DEF HearBam, IsHeader
  <2> QED
    BY <1>7, <1>11, <2>1, <2>2 DEF HearBam
<1>12. CASE HearCts(n, f)
  <2> DEFINE g == Data(n, f.sa, tx[n][f.sa], f.seq)
  <2>1. ~IsHeader(f) /\ UNCHANGED <<rx, status>>
    BY <1>12 DEF HearCts, IsHeader
  <2>2. CASE tx[n][f.sa] = NoTransfer
    BY <1>6, <1>7, <1>12, <2>1, <2>2 DEF HearCts
  <2>3. CASE tx[n][f.sa] # NoTransfer
    <3>1. g \in Frame
      BY <1>2, <2>3, FrameTypes
    <3>2. Src[tx[n][f.sa]] = n /\ Busy(tx[n][f.sa])
      BY <1>2, <2>3 DEF IntactInv, Registered, Busy
    <3>3. Reply(g)
      BY <1>2, <1>12, <2>3, <3>2 DEF HearCts, Data, IsHeader
    <3> QED
      BY <1>6, <1>7, <2>1, <3>1, <3>3
  <2> QED
    BY <2>2, <2>3
<1>13. CASE HearEom(n, f)
  <2>1. ~IsHeader(f) /\ UNCHANGED rx /\ inbox' = Received(n)
        /\ status' = Concluded(tx[n][f.sa], "ok")
    BY <1>13 DEF HearEom, IsHeader
  <2> QED
    BY <1>6, <1>8, <2>1
<1>14. CASE HearAbort(n, f)
  <2>1. ~IsHeader(f) /\ inbox' = Received(n) /\ status' = Concluded(tx[n][f.sa], "aborted")
        /\ rx' = [rx EXCEPT ![n][f.sa] = NoSession]
    BY <1>14 DEF HearAbort, IsHeader
  <2> QED
    BY <1>8, <2>1
<1>15. CASE HearStrayDt(n, f)
  <2>1. ~IsHeader(f) /\ UNCHANGED <<rx, status>> /\ inbox' = Received(n)
    BY <1>15 DEF HearStrayDt, IsHeader
  <2> QED
    BY <1>6, <1>7, <2>1
<1>16. CASE HearWrongDt(n, f)
  <2>1. /\ ~IsHeader(f) /\ UNCHANGED <<rx, status>> /\ rx[n][f.sa] \in Session
        /\ \/ inbox' = Received(n)
           \/ inbox' = Sent(Received(n), n, Cts(n, f.sa, rx[n][f.sa]))
    BY <1>2, <1>16 DEF HearWrongDt, IsHeader
  <2>2. Queues
    BY <1>2, <1>9, <2>1
  <2> QED
    BY <1>6, <1>7, <2>1, <2>2
<1>17. CASE HearNextDt(n, f)
  <2> DEFINE r == Accepted(rx[n][f.sa], f)
  <2>1. /\ ~IsHeader(f) /\ UNCHANGED status /\ rx[n][f.sa] # NoSession
        /\ rx' = [rx EXCEPT ![n][f.sa] = r] /\ f.transfer \in Transfer
        /\ inbox' = Received(n) \/ inbox' = Sent(Received(n), n, Cts(n, f.sa, r))
    BY <1>2, <1>17 DEF HearNextDt, IsHeader
  <2>2. r \in Session /\ r.transfer = rx[n][f.sa].transfer
    BY <1>2, <2>1, AcceptedType
  <2> HIDE DEF r
  <2>3. Queues
    BY <1>2, <1>9, <2>1, <2>2
  <2>4. Opens(r)
    BY <2>1, <2>2
  <2> QED
    BY <1>7, <2>1, <2>2, <2>3, <2>4
<1>18. CASE HearLastDt(n, f)
  <2> DEFINE r == Accepted(rx[n][f.sa], f)
             g == Control("EOM", n, f.sa, r.transfer, 0)
  <2>1. /\ ~IsHeader(f) /\ UNCHANGED status /\ rx[n][f.sa] # NoSession
        /\ rx' = [rx EXCEPT ![n][f.sa] = NoSession] /\ f.transfer \in Transfer
        /\ inbox' = Received(n) \/ inbox' = Sent(Received(n), n, g)
    BY <1>2, <1>18 DEF HearLastDt, IsHeader
  <2>2. r.transfer \in Transfer
    BY <1>2, <2>1, AcceptedType
  <2> HIDE DEF r
  <2>3. g \in Frame
    <3>1. 0 \in Seq8
      BY TransferAssumption DEF Seq8
    <3> QED
      BY <1>2, <2>2, <3>1, FrameTypes
  <2>4. g.sa = n /\ ~IsHeader(g) /\ g.kind # "DT"
    BY DEF Control, IsHeader
  <2>5. Queues
    BY <2>1, <2>3, <2>4
  <2> QED
    BY <1>7, <2>1, <2>5
<1> QED
  BY <1>1, <1>10, <1>11, <1>12, <1>13, <1>14, <1>15, <1>16, <1>17, <1>18 DEF Handle

(* Every queue stays in step with its sessions, whatever n handles. *)
LEMMA HandleInStep ==
  ASSUME IntactInv, NEW n \in Node, RxFrame(n)
  PROVE  StreamsInStep'
<1> DEFINE f == Head(inbox[n])
<1>1. /\ f \in Frame /\ f.sa \in Node /\ f.sa # n
      /\ \/ inbox' = Received(n)
         \/ \E g \in Frame :
              /\ inbox' = Sent(Received(n), n, g)
              /\ g.sa = n /\ ~IsHeader(g)
              /\ g.kind = "DT" =>
                   /\ g.part = Part(g.transfer, g.seq)
                   /\ g.transfer \in Transfer
                   /\ Busy(g.transfer) /\ Src[g.transfer] = n
      /\ \E r \in Session \cup {NoSession} :
           /\ rx' = [rx EXCEPT ![n][f.sa] = r]
           /\ IsHeader(f) => r # NoSession /\ r.transfer = f.transfer
           /\ ~IsHeader(f) =>
                \/ r = NoSession
                \/ rx[n][f.sa] # NoSession /\ r.transfer = rx[n][f.sa].transfer
      /\ \A t \in Transfer : Busy(t)' => Busy(t)
  BY HandleEffect
<1>2. TypeOK /\ OneBusy /\ StreamsInStep /\ inbox[n] # <<>>
  BY DEF IntactInv, RxFrame
<1>3. /\ inbox \in [Node -> Seq(Frame)]
      /\ rx \in [Node -> [Node -> Session \cup {NoSession}]]
  BY <1>2 DEF TypeOK
<1> HIDE DEF f
<1> SUFFICES ASSUME NEW m \in Node, NEW s \in Node, m # s PROVE InStep(m, s)'
  BY DEF StreamsInStep
<1>4. InStep(m, s)
  BY <1>2 DEF StreamsInStep
<1>5. CASE m = n
  <2> DEFINE q == inbox[n]
             old == rx[n][s]
             new == rx'[n][s]
  <2>1. q \in Seq(Frame) /\ q # <<>> /\ inbox'[n] = Tail(q) /\ f = Head(q)
    <3>1. Received(n)[n] = Tail(inbox[n])
      BY <1>3 DEF Received
    <3>2. \A g : Sent(Received(n), n, g)[n] = Tail(inbox[n])
      BY <3>1 DEF Sent
    <3> QED
      BY <1>1, <1>2, <1>3, <3>1, <3>2 DEF f
  <2>2. /\ Ordered(q, s) /\ Follows(q, s, old)
        /\ \A t \in Transfer : Busy(t) /\ Src[t] = s => Current(q, s, old, t)
    BY <1>4, <1>5 DEF InStep
  <2>3. SUFFICES /\ Ordered(Tail(q), s) /\ Follows(Tail(q), s, new)
                 /\ \A t : Current(q, s, old, t) => Current(Tail(q), s, new, t)
    BY <1>1, <1>5, <2>1, <2>2 DEF InStep
  <2>4. CASE HeaderOf(s, f)
    <3>1. new.transfer = f.transfer
      BY <1>1, <1>3, <2>4 DEF HeaderOf
    <3> HIDE DEF q, old, new
    <3> QED
      BY <2>1, <2>2, <2>4, <3>1, TailHeader
  <2>5. CASE ~HeaderOf(s, f)
    <3>1. new = old \/ new = NoSession \/ (old # NoSession /\ new.transfer = old.transfer)
      BY <1>1, <1>3, <2>5 DEF HeaderOf
    <3> HIDE DEF q, old, new
    <3>2. /\ Ordered(Tail(q), s) /\ Follows(Tail(q), s, old)
          /\ \A t : Current(q, s, old, t) => Current(Tail(q), s, old, t)
      BY <2>1, <2>2, <2>5, TailBare
    <3>3. CASE new = old
      BY <3>2, <3>3
    <3>4. CASE new = NoSession \/ (old # NoSession /\ new.transfer = old.transfer)
      <4> DEFINE p == Tail(q)
      <4>1. Follows(p, s, old)
        BY <3>2
      <4>2. Follows(p, s, new) /\ \A t : Current(p, s, old, t) => Current(p, s, new, t)
        <5> HIDE DEF p
        <5> QED
          BY <3>4, <4>1, SameSession
      <4> QED
        BY <3>2, <4>2
    <3> QED
      BY <3>1, <3>3, <3>4
  <2> QED
    BY <2>4, <2>5
<1>6. CASE m # n
  <2> DEFINE q == inbox[m]
             r == rx[m][s]
  <2>1. q \in Seq(Frame) /\ rx'[m][s] = r
    BY <1>1, <1>3, <1>6
  <2>2. /\ Ordered(q, s) /\ Follows(q, s, r)
        /\ \A t \in Transfer : Busy(t) /\ Src[t] = s => Current(q, s, r, t)
    BY <1>4 DEF InStep
  <2>3. Received(n)[m] = q
    BY <1>3, <1>6 DEF Received
  <2>4. CASE inbox' = Received(n)
    <3>1. inbox'[m] = q
      BY <2>3, <2>4
    <3> QED
      BY <1>1, <2>1, <2>2, <3>1 DEF InStep
  <2>5. ASSUME NEW g \in Frame, inbox' = Sent(Received(n), n, g), g.sa = n, ~IsHeader(g),
               g.kind = "DT" => g.transfer \in Transfer /\ Busy(g.transfer)
                                /\ Src[g.transfer] = n
        PROVE  InStep(m, s)'
    <3>1. inbox'[m] = Append(q, g)
      BY <1>6, <2>3, <2>5 DEF Sent
    <3>2. SUFFICES /\ Ordered(Append(q, g), s) /\ Follows(Append(q, g), s, r)
                   /\ \A t \in Transfer : Busy(t) /\ Src[t] = s =>
                        Current(Append(q, g), s, r, t)
      BY <1>1, <2>1, <3>1 DEF InStep
    <3> HIDE DEF q, r
    <3>3. CASE DataOf(s, g)
      <4>1. /\ g.transfer \in Transfer /\ Busy(g.transfer) /\ Src[g.transfer] = s
        BY <2>5, <3>3 DEF DataOf
      <4>2. Current(q, s, r, g.transfer)
        BY <2>2, <4>1
      <4>3. /\ Ordered(Append(q, g), s) /\ Follows(Append(q, g), s, r)
            /\ Current(Append(q, g), s, r, g.transfer)
        BY <2>1, <2>2, <3>3, <4>2, AppendData
      <4> QED
        BY <1>2, <4>1, <4>3 DEF OneBusy
    <3>4. CASE ~DataOf(s, g)
      <4>1. ~HeaderOf(s, g)
        BY <2>5 DEF HeaderOf
      <4> QED
        BY <2>1, <2>2, <3>4, <4>1, AppendOther
    <3> QED
      BY <3>3, <3>4
  <2> QED
    BY <1>1, <2>4, <2>5
<1> QED
  BY <1>5, <1>6

(* The same for a frame that s sends of its own accord. *)
LEMMA SendInStep ==
  ASSUME IntactInv, NEW s \in Node, NEW g \in Frame, g.sa = s,
         inbox' = Sent(inbox, s, g), UNCHANGED rx,
         \A t \in Transfer : Busy(t)' /\ Src[t] # s => Busy(t),
         IsHeader(g) => \A t \in Transfer : Busy(t)' /\ Src[t] = s => t = g.transfer,
         ~IsHeader(g) => \A t \in Transfer : Busy(t)' => Busy(t),
         g.kind = "DT" => g.transfer \in Transfer /\ Busy(g.transfer) /\ Src[g.transfer] = s
  PROVE  StreamsInStep'
<1>1. TypeOK /\ OneBusy /\ StreamsInStep
  BY DEF IntactInv
<1>2. inbox \in [Node -> Seq(Frame)]
  BY <1>1 DEF TypeOK
<1> SUFFICES ASSUME NEW n \in Node, NEW u \in Node, n # u PROVE InStep(n, u)'
  BY DEF StreamsInStep
<1> DEFINE q == inbox[n]
           r == rx[n][u]
<1>3. q \in Seq(Frame) /\ rx'[n][u] = r
  BY <1>2
<1>4. /\ Ordered(q, u) /\ Follows(q, u, r)
      /\ \A t \in Transfer : Busy(t) /\ Src[t] = u => Current(q, u, r, t)
  BY <1>1 DEF StreamsInStep, InStep
<1>5. inbox'[n] = IF n = s THEN q ELSE Append(q, g)
  BY DEF Sent
<1>6. CASE n = s
  <2>1. \A t \in Transfer : Busy(t)' /\ Src[t] = u => Busy(t)
    BY <1>6
  <2> QED
    BY <1>3, <1>4, <1>5, <1>6, <2>1 DEF InStep
<1>7. CASE n # s
  <2>1. SUFFICES /\ Ordered(Append(q, g), u) /\ Follows(Append(q, g), u, r)
                 /\ \A t \in Transfer : Busy(t)' /\ Src[t] = u =>
                      Current(Append(q, g), u, r, t)
    BY <1>3, <1>5, <1>7 DEF InStep
  <2> HIDE DEF q, r
  <2>2. CASE HeaderOf(u, g)
    <3>1. /\ Ordered(Append(q, g), u) /\ Follows(Append(q, g), u, r)
          /\ Current(Append(q, g), u, r, g.transfer)
      BY <1>3, <1>4, <2>2, AppendHeader
    <3>2. \A t \in Transfer : Busy(t)' /\ Src[t] = u => t = g.transfer
      BY <2>2 DEF HeaderOf
    <3> QED
      BY <3>1, <3>2
  <2>3. CASE DataOf(u, g)
    <3>1. /\ g.transfer \in Transfer /\ Busy(g.transfer) /\ Src[g.transfer] = u
          /\ ~IsHeader(g)
      BY <2>3 DEF DataOf, IsHeader
    <3>2. Current(q, u, r, g.transfer)
      BY <1>4, <3>1
    <3>3. /\ Ordered(Append(q, g), u) /\ Follows(Append(q, g), u, r)
          /\ Current(Append(q, g), u, r, g.transfer)
      BY <1>3, <1>4, <2>3, <3>2, AppendData
    <3>4. \A t \in Transfer : Busy(t)' /\ Src[t] = u => t = g.transfer
      BY <1>1, <3>1 DEF OneBusy
    <3> QED
      BY <3>3, <3>4
  <2>4. CASE ~HeaderOf(u, g) /\ ~DataOf(u, g)
    <3>1. \A t : Current(q, u, r, t) => Current(Append(q, g), u, r, t)
      BY <1>3, <1>4, <2>4, AppendOther
    <3>2. Ordered(Append(q, g), u) /\ Follows(Append(q, g), u, r)
      BY <1>3, <1>4, <2>4, AppendOther
    <3>3. \A t \in Transfer : Busy(t)' /\ Src[t] = u => Busy(t)
      BY <2>4 DEF HeaderOf
    <3> QED
      BY <1>4, <3>1, <3>2, <3>3
  <2> QED
    BY <2>2, <2>3, <2>4
<1> QED
  BY <1>6, <1>7

LEMMA SendGenuine ==
  ASSUME NEW box \in [Node -> Seq(Frame)], NEW s \in Node, NEW g \in Frame, g.sa = s,
         g.kind = "DT" => g.part = Part(g.transfer, g.seq),
         \A n \in Node : \A i \in 1 .. Len(box[n]) : Genuine(n, box[n][i]),
         inbox' = Sent(box, s, g)
  PROVE  FramesGenuine'
<1> SUFFICES ASSUME NEW n \in Node, NEW i \in 1 .. Len(inbox'[n])
             PROVE  Genuine(n, inbox'[n][i])
  BY DEF FramesGenuine
<1>1. CASE n = s
  BY <1>1 DEF Sent
<1>2. CASE n # s
  <2>1. inbox'[n] = Append(box[n], g) /\ box[n] \in Seq(Frame)
    BY <1>2 DEF Sent
  <2>2. Genuine(n, g)
    BY <1>2 DEF Genuine
  <2>3. i \in 1 .. Len(box[n]) \/ i = Len(box[n]) + 1
    BY <2>1, AppendFacts
  <2> QED
    BY <2>1, <2>2, <2>3, AppendFacts
<1> QED
  BY <1>1, <1>2

LEMMA HandleGenuine ==
  ASSUME IntactInv, NEW n \in Node, RxFrame(n)
  PROVE  FramesGenuine'
<1>1. /\ inbox \in [Node -> Seq(Frame)] /\ inbox[n] # <<>>
      /\ \A m \in Node : \A i \in 1 .. Len(inbox[m]) : Genuine(m, inbox[m][i])
  BY DEF IntactInv, TypeOK, RxFrame, FramesGenuine
<1> DEFINE box == Received(n)
<1>2. box \in [Node -> Seq(Frame)]
  BY ReceivedType DEF IntactInv, RxFrame
<1>3. ASSUME NEW m \in Node, NEW i \in 1 .. Len(box[m]) PROVE Genuine(m, box[m][i])
  <2>1. CASE m = n
    <3>1. box[m] = Tail(inbox[n])
      BY <1>1, <2>1 DEF Received
    <3>2. i + 1 \in 1 .. Len(inbox[n]) /\ box[m][i] = inbox[n][i + 1]
      BY <1>1, <3>1, TailFacts
    <3> QED
      BY <1>1, <2>1, <3>2
  <2>2. CASE m # n
    BY <1>1, <2>2 DEF Received
  <2> QED
    BY <2>1, <2>2
<1>4. \/ inbox' = box
      \/ \E g \in Frame : /\ inbox' = Sent(box, n, g) /\ g.sa = n
                          /\ g.kind = "DT" => g.part = Part(g.transfer, g.seq)
  BY HandleEffect
<1> HIDE DEF box
<1>5. CASE inbox' = box
  BY <1>3, <1>5 DEF FramesGenuine
<1>6. ASSUME NEW g \in Frame, inbox' = Sent(box, n, g), g.sa = n,
             g.kind = "DT" => g.part = Part(g.transfer, g.seq)
      PROVE  FramesGenuine'
  BY <1>2, <1>3, <1>6, SendGenuine
<1> QED
  BY <1>4, <1>5, <1>6

LEMMA HandleRegistered ==
  ASSUME IntactInv, NEW n \in Node, RxFrame(n)
  PROVE  OneBusy' /\ Registered'
<1> DEFINE f == Head(inbox[n])
<1>1. TypeOK /\ OneBusy /\ Registered /\ Handle(n, f)
  BY DEF IntactInv, RxFrame
<1>2. f.sa \in Node /\ \A t \in Transfer : Busy(t)' => Busy(t)
  BY HandleEffect
<1> HIDE DEF f
<1>3. OneBusy'
  BY <1>1, <1>2 DEF OneBusy
<1>4. CASE UNCHANGED <<tx, status>>
  BY <1>1, <1>3, <1>4 DEF Registered
<1>5. ASSUME NEW o \in {"ok", "aborted"}, status' = Concluded(tx[n][f.sa], o),
             tx' = [tx EXCEPT ![n][f.sa] = NoTransfer]
      PROVE  Registered'
  <2> SUFFICES ASSUME NEW s \in Node, NEW d \in Node, tx'[s][d] # NoTransfer
               PROVE  Src[tx'[s][d]] = s /\ Dst[tx'[s][d]] = d /\ status'[tx'[s][d]] = "rts"
    BY DEF Registered
  <2>1. tx'[s][d] = tx[s][d] /\ ~(s = n /\ d = f.sa)
    BY <1>1, <1>2, <1>5 DEF TypeOK
  <2>2. Src[tx[s][d]] = s /\ Dst[tx[s][d]] = d /\ status[tx[s][d]] = "rts"
    BY <1>1, <2>1 DEF Registered
  <2>3. tx[s][d] # tx[n][f.sa]
    BY <1>1, <1>2, <2>1, <2>2 DEF Registered
  <2>4. status'[tx[s][d]] = status[tx[s][d]]
    BY <1>1, <1>2, <1>5, <2>3 DEF Concluded, TypeOK
  <2> QED
    BY <2>1, <2>2, <2>4
<1>6. \/ UNCHANGED <<tx, status>>
      \/ \E o \in {"ok", "aborted"} : /\ status' = Concluded(tx[n][f.sa], o)
                                     /\ tx' = [tx EXCEPT ![n][f.sa] = NoTransfer]
  BY <1>1 DEF Handle, HearRts, HearBam, HearCts, HearEom, HearAbort, HearStrayDt,
              HearWrongDt, HearNextDt, HearLastDt
<1> QED
  BY <1>3, <1>4, <1>5, <1>6

-----------------------------------------------------------------------------
(* Packet numbers that do not wrap: a session holds a prefix of its        *)
(* message, and the whole message when it is complete.                     *)

LEMMA PrefixOpened ==
  ASSUME NEW f \in Frame, f.transfer \in Transfer
  PROVE  Prefix(Opened(f))
<1>1. Packets[f.transfer] \in Nat
  BY TransferAssumption
<1>2. Len(<<>>) = 0
  OBVIOUS
<1> QED
  BY <1>1, <1>2 DEF Opened, Prefix

LEMMA PrefixAccepted ==
  ASSUME NEW r \in Session, NEW f \in Frame, Prefix(r), Expected(r, f),
         r.transfer \in Transfer, f.transfer = r.transfer,
         f.part = Part(f.transfer, f.seq), Packets[r.transfer] < SeqMod
  PROVE  /\ Prefix(Accepted(r, f))
         /\ IsComplete(Accepted(r, f)) => Accepted(r, f).data = Service!Payload(r.transfer)
<1> DEFINE t == r.transfer
           a == Accepted(r, f)
           c == <<t, f.part>>
<1>1. /\ a \in Session /\ a.transfer = t /\ a.next = Next8(r.next)
      /\ a.data = IF Len(r.data) < Packets[t] THEN Append(r.data, c) ELSE r.data
  BY AcceptedType
<1>2. /\ r.data \in Seq(Chunk) /\ Len(r.data) \in Nat /\ r.next \in Seq8
      /\ Packets[t] \in Nat \ {0, 1} /\ SeqMod \in Nat /\ f.part \in Nat
  BY TransferAssumption, LenProperties DEF Session, Frame
<1>3. /\ Len(r.data) <= Packets[t]
      /\ \A i \in 1 .. Len(r.data) : r.data[i] = <<t, i>>
      /\ Len(r.data) < Packets[t] => r.next = Len(r.data) + 1
  BY DEF Prefix
<1>4. a.data \in Seq(Chunk)
  BY <1>1 DEF Session
<1> HIDE DEF a
<1>5. CASE Len(r.data) < Packets[t]
  <2>1. r.next = Len(r.data) + 1 /\ f.seq = Len(r.data) + 1
    BY <1>3, <1>5 DEF Expected
  <2>2. c = <<t, Len(r.data) + 1>>
    BY <1>2, <1>5, <2>1 DEF Part
  <2>3. /\ a.data = Append(r.data, c) /\ Len(a.data) = Len(r.data) + 1
        /\ \A i \in 1 .. Len(r.data) : a.data[i] = r.data[i]
        /\ a.data[Len(r.data) + 1] = c
    <3>1. c \in Chunk
      BY <1>2 DEF Chunk
    <3> HIDE DEF c
    <3> QED
      BY <1>1, <1>2, <1>5, <3>1, AppendProperties
  <2>4. \A i \in 1 .. Len(a.data) : a.data[i] = <<t, i>>
    BY <1>2, <1>3, <2>2, <2>3
  <2>5. Len(a.data) <= Packets[t]
    BY <1>2, <1>5, <2>3
  <2>6. Len(a.data) < Packets[t] => a.next = Len(a.data) + 1
    <3> SUFFICES ASSUME Len(a.data) < Packets[t] PROVE a.next = Len(a.data) + 1
      OBVIOUS
    <3>1. r.next + 1 < SeqMod
      BY <1>2, <2>1, <2>3
    <3> QED
      BY <1>1, <1>2, <2>1, <2>3, <3>1, NextNumber
  <2>7. ASSUME IsComplete(a) PROVE Len(a.data) = Packets[t]
    <3>1. a.next > Packets[t]
      <4>1. Packets[t] % SeqMod = Packets[t]
        BY <1>2
      <4> QED
        BY <1>1, <2>7, <4>1 DEF IsComplete, Total
    <3>2. ~(Len(a.data) < Packets[t])
      BY <1>2, <2>3, <2>6, <3>1
    <3> QED
      BY <1>2, <2>3, <2>5, <3>2
  <2>8. IsComplete(a) => a.data = [i \in 1 .. Packets[t] |-> <<t, i>>]
    BY <1>4, <2>4, <2>7, LenProperties, ElementOfSeq
  <2> QED
    BY <1>1, <2>4, <2>5, <2>6, <2>8 DEF Prefix, Service!Payload, a
<1>6. CASE ~(Len(r.data) < Packets[t])
  <2>1. a.data = r.data /\ Len(r.data) = Packets[t]
    BY <1>1, <1>2, <1>3, <1>6
  <2>2. Len(a.data) = Packets[t] /\ \A i \in 1 .. Len(a.data) : a.data[i] = <<t, i>>
    BY <1>3, <2>1
  <2>3. a.data = [i \in 1 .. Packets[t] |-> <<t, i>>]
    BY <1>4, <2>2, LenProperties, ElementOfSeq
  <2> QED
    BY <1>1, <1>2, <2>1, <2>2, <2>3 DEF Prefix, Service!Payload, a
<1> QED
  BY <1>5, <1>6

(* The head of a queue, when it is a DT, belongs to the session it meets. *)
LEMMA HeadBelongs ==
  ASSUME IntactInv, NEW n \in Node, inbox[n] # <<>>, Head(inbox[n]).kind = "DT",
         rx[n][Head(inbox[n]).sa] # NoSession
  PROVE  LET f == Head(inbox[n])
         IN  /\ f.transfer = rx[n][f.sa].transfer
             /\ f.part = Part(f.transfer, f.seq)
             /\ Prefix(rx[n][f.sa])
<1> DEFINE f == Head(inbox[n])
<1>1. inbox[n] \in Seq(Frame)
  BY DEF IntactInv, TypeOK
<1>2. f = inbox[n][1] /\ 1 \in 1 .. Len(inbox[n]) /\ f.sa \in Node
  BY <1>1, TailFacts, HeadType DEF IntactInv
<1>3. f.sa # n /\ f.part = Part(f.transfer, f.seq)
  BY <1>2 DEF IntactInv, FramesGenuine, Genuine
<1>4. Follows(inbox[n], f.sa, rx[n][f.sa])
  BY <1>2, <1>3 DEF IntactInv, StreamsInStep, InStep
<1>5. DataOf(f.sa, inbox[n][1]) /\ Bare(inbox[n], f.sa, 1, 1 - 1)
  BY <1>2 DEF DataOf, Bare
<1>6. f.transfer = rx[n][f.sa].transfer
  <2> DEFINE r == rx[n][f.sa]
  <2>1. r # NoSession /\ Follows(inbox[n], f.sa, r)
    BY <1>4
  <2> HIDE DEF r
  <2> QED
    BY <1>2, <1>5, <2>1 DEF Follows, r
<1> QED
  BY <1>2, <1>3, <1>6 DEF IntactInv, Prefixes

LEMMA HandlePrefix ==
  ASSUME IntactInv, \A t \in Transfer : Packets[t] < SeqMod, NEW n \in Node, RxFrame(n)
  PROVE  Prefixes' /\ DeliveredIntact'
<1> DEFINE f == Head(inbox[n])
           old == rx[n][f.sa]
           r == Accepted(old, f)
<1>1. TypeOK /\ Prefixes /\ DeliveredIntact /\ inbox[n] # <<>> /\ Handle(n, f)
  BY DEF IntactInv, RxFrame
<1>2. /\ f \in Frame /\ f.sa \in Node
      /\ f.kind # "ABORT" => f.transfer \in Transfer
      /\ old # NoSession => old \in Session /\ old.transfer \in Transfer
  BY <1>1, HeadType
<1>3. ASSUME NEW new, new # NoSession => Prefix(new), rx' = [rx EXCEPT ![n][f.sa] = new]
      PROVE  Prefixes'
  <2> SUFFICES ASSUME NEW m \in Node, NEW s \in Node, rx'[m][s] # NoSession
               PROVE  Prefix(rx'[m][s])
    BY DEF Prefixes
  <2>1. CASE m = n /\ s = f.sa
    <3>1. rx'[m][s] = new
      BY <1>1, <1>3, <2>1 DEF TypeOK
    <3> QED
      BY <1>3, <3>1
  <2>2. CASE ~(m = n /\ s = f.sa)
    <3>1. rx'[m][s] = rx[m][s]
      BY <1>1, <1>2, <1>3, <2>2 DEF TypeOK
    <3> QED
      BY <1>1, <3>1 DEF Prefixes
  <2> QED
    BY <2>1, <2>2
<1>4. ASSUME UNCHANGED rx PROVE Prefixes'
  BY <1>1, <1>4 DEF Prefixes
<1>5. ASSUME UNCHANGED delivered PROVE DeliveredIntact'
  BY <1>1, <1>5 DEF DeliveredIntact
<1>6. ASSUME f.kind = "DT", old # NoSession, Expected(old, f)
      PROVE  /\ Prefix(r) /\ r.transfer = old.transfer
             /\ IsComplete(r) => r.data = Service!Payload(old.transfer)
  <2>1. /\ f.transfer = old.transfer /\ f.part = Part(f.transfer, f.seq) /\ Prefix(old)
    BY <1>1, <1>6, HeadBelongs
  <2>2. old \in Session /\ old.transfer \in Transfer /\ Packets[old.transfer] < SeqMod
    BY <1>2, <1>6
  <2> HIDE DEF f, old
  <2> QED
    BY <1>2, <1>6, <2>1, <2>2, PrefixAccepted, AcceptedType
<1> HIDE DEF f, old, r
<1>7. CASE HearRts(n, f) \/ HearBam(n, f)
  <2>1. /\ f.transfer \in Transfer /\ rx' = [rx EXCEPT ![n][f.sa] = Opened(f)]
        /\ UNCHANGED delivered
    BY <1>2, <1>7 DEF HearRts, HearBam
  <2>2. Prefix(Opened(f))
    BY <1>2, <2>1, PrefixOpened
  <2> QED
    BY <1>3, <1>5, <2>1, <2>2
<1>8. CASE HearCts(n, f) \/ HearEom(n, f) \/ HearStrayDt(n, f) \/ HearWrongDt(n, f)
  <2>1. UNCHANGED <<rx, delivered>>
    BY <1>8 DEF HearCts, HearEom, HearStrayDt, HearWrongDt
  <2> QED
    BY <1>4, <1>5, <2>1
<1>9. CASE HearAbort(n, f)
  <2>1. rx' = [rx EXCEPT ![n][f.sa] = NoSession] /\ UNCHANGED delivered
    BY <1>9 DEF HearAbort
  <2> QED
    BY <1>3, <1>5, <2>1
<1>10. CASE HearNextDt(n, f)
  <2>1. /\ f.kind = "DT" /\ old # NoSession /\ Expected(old, f)
        /\ rx' = [rx EXCEPT ![n][f.sa] = r] /\ UNCHANGED delivered
    BY <1>10 DEF HearNextDt, old, r
  <2>2. Prefix(r)
    BY <1>6, <2>1
  <2> QED
    BY <1>3, <1>5, <2>1, <2>2
<1>11. CASE HearLastDt(n, f)
  <2>1. /\ f.kind = "DT" /\ old # NoSession /\ Expected(old, f) /\ IsComplete(r)
        /\ rx' = [rx EXCEPT ![n][f.sa] = NoSession]
        /\ delivered' = [delivered EXCEPT ![n] =
             Append(@, [transfer |-> r.transfer, data |-> r.data])]
    BY <1>11 DEF HearLastDt, old, r
  <2> DEFINE msg == [transfer |-> r.transfer, data |-> r.data]
  <2>2. msg = Service!Message(msg.transfer)
    BY <1>6, <2>1 DEF Service!Message
  <2>3. DeliveredIntact'
    <3> SUFFICES ASSUME NEW m \in Node, NEW i \in DOMAIN delivered'[m]
                 PROVE  delivered'[m][i] = Service!Message(delivered'[m][i].transfer)
      BY DEF DeliveredIntact
    <3>1. CASE m # n
      BY <1>1, <2>1, <3>1 DEF DeliveredIntact, TypeOK
    <3>2. CASE m = n
      <4>1. /\ delivered[n] \in Seq([transfer : Transfer, data : Seq(Chunk)])
            /\ delivered'[n] = Append(delivered[n], msg)
        BY <1>1, <2>1 DEF TypeOK
      <4>2. msg \in [transfer : Transfer, data : Seq(Chunk)]
        <5>1. r \in Session
          BY <1>2, <2>1, AcceptedType DEF r
        <5> QED
          BY <5>1 DEF Session
      <4> HIDE DEF msg
      <4>3. \/ i \in DOMAIN delivered[n] /\ delivered'[m][i] = delivered[n][i]
            \/ delivered'[m][i] = msg
        BY <3>2, <4>1, <4>2, AppendProperties, LenProperties
      <4> QED
        BY <1>1, <2>2, <3>2, <4>3 DEF DeliveredIntact
    <3> QED
      BY <3>1, <3>2
  <2> QED
    BY <1>3, <2>1, <2>3
<1> QED
  BY <1>1, <1>7, <1>8, <1>9, <1>10, <1>11 DEF Handle

-----------------------------------------------------------------------------
(* The other actions, and the theorem. *)

LEMMA StartKeeps ==
  ASSUME IntactInv, OneAtATime, NEW t \in Transfer, StartRts(t) \/ StartBam(t)
  PROVE  IntactInv'
<1> DEFINE s == Src[t]
           kind == IF Dst[t] = All THEN "BAM" ELSE "RTS"
           g == Control(kind, s, Dst[t], t, 0)
<1>1. /\ TypeOK /\ FramesGenuine /\ OneBusy /\ Registered /\ Prefixes /\ DeliveredIntact
  BY DEF IntactInv
<1>2. /\ MayStart(t) /\ inbox' = Sent(inbox, s, g) /\ UNCHANGED <<rx, delivered>>
      /\ \/ Dst[t] = All /\ status' = [status EXCEPT ![t] = "bam"] /\ UNCHANGED tx
         \/ /\ Dst[t] # All /\ status' = [status EXCEPT ![t] = "rts"]
            /\ tx' = [tx EXCEPT ![s][Dst[t]] = IF @ = NoTransfer THEN t ELSE @]
  BY DEF StartRts, StartBam
<1>3. g \in Frame /\ g.sa = s /\ g.kind # "DT" /\ IsHeader(g) /\ g.transfer = t /\ s \in Node
  <2>1. 0 \in Seq8 /\ s \in Node /\ Dst[t] \in Node \cup {All}
    BY TransferAssumption DEF Seq8
  <2> QED
    BY <2>1, FrameTypes DEF Control, IsHeader
<1>4. TypeOK'
  <2>1. Next
    BY DEF Next
  <2> QED
    BY <1>1, <2>1, TypeNext
<1> HIDE DEF g
<1>5. \A u \in Transfer : Busy(u)' => u = t \/ Busy(u)
  BY <1>1, <1>2 DEF Busy, TypeOK
<1>6. \A u \in Transfer : Src[u] = s => ~Busy(u)
  BY <1>2 DEF MayStart
<1>7. OneBusy'
  BY <1>1, <1>5, <1>6 DEF OneBusy
<1>8. FramesGenuine'
  BY <1>1, <1>2, <1>3, SendGenuine DEF FramesGenuine, TypeOK
<1>9. StreamsInStep'
  BY <1>2, <1>3, <1>5, <1>6, SendInStep
<1>10. Registered'
  <2>1. \A d \in Node : tx[s][d] = NoTransfer
    <3> SUFFICES ASSUME NEW d \in Node, tx[s][d] # NoTransfer PROVE FALSE
      OBVIOUS
    <3>1. tx[s][d] \in Transfer
      BY <1>1, <1>3 DEF TypeOK
    <3>2. Src[tx[s][d]] = s /\ status[tx[s][d]] = "rts"
      BY <1>1, <1>3 DEF Registered
    <3> QED
      BY <1>6, <3>1, <3>2 DEF Busy
  <2> SUFFICES ASSUME NEW a \in Node, NEW d \in Node, tx'[a][d] # NoTransfer
               PROVE  Src[tx'[a][d]] = a /\ Dst[tx'[a][d]] = d /\ status'[tx'[a][d]] = "rts"
    BY DEF Registered
  <2>2. CASE tx'[a][d] = tx[a][d]
    <3>1. Src[tx[a][d]] = a /\ Dst[tx[a][d]] = d /\ status[tx[a][d]] = "rts"
      BY <1>1, <2>2 DEF Registered
    <3>2. tx[a][d] # t
      BY <1>2, <3>1 DEF MayStart
    <3> QED
      BY <1>1, <1>2, <2>2, <3>1, <3>2 DEF TypeOK
  <2>3. CASE tx'[a][d] # tx[a][d]
    <3>1. a = s /\ d = Dst[t] /\ status' = [status EXCEPT ![t] = "rts"] /\ tx'[a][d] = t
      BY <1>1, <1>2, <1>3, <2>1, <2>3 DEF TypeOK
    <3> QED
      BY <1>1, <3>1 DEF TypeOK
  <2> QED
    BY <2>2, <2>3
<1>11. Prefixes' /\ DeliveredIntact'
  BY <1>1, <1>2 DEF Prefixes, DeliveredIntact
<1> QED
  BY <1>4, <1>7, <1>8, <1>9, <1>10, <1>11 DEF IntactInv

LEMMA BamKeeps ==
  ASSUME IntactInv, NEW t \in Transfer, StepBam(t) \/ EndBam(t)
  PROVE  IntactInv'
<1> DEFINE s == Src[t]
           g == Data(s, All, t, seq[t])
<1>1. /\ TypeOK /\ FramesGenuine /\ OneBusy /\ Registered /\ Prefixes /\ DeliveredIntact
      /\ StreamsInStep
  BY DEF IntactInv
<1>2. TypeOK'
  <2>1. Next
    BY DEF Next
  <2> QED
    BY <1>1, <2>1, TypeNext
<1>3. UNCHANGED <<rx, tx, delivered>>
  BY DEF StepBam, EndBam
<1>4. Prefixes' /\ DeliveredIntact'
  BY <1>1, <1>3 DEF Prefixes, DeliveredIntact
<1>5. CASE StepBam(t)
  <2>1. /\ status[t] = "bam" /\ UNCHANGED status /\ inbox' = Sent(inbox, s, g)
    BY <1>5 DEF StepBam
  <2>2. /\ g \in Frame /\ g.sa = s /\ s \in Node /\ ~IsHeader(g) /\ g.transfer = t
        /\ g.part = Part(g.transfer, g.seq)
    <3>1. s \in Node /\ seq[t] \in Seq8
      BY <1>1, TransferAssumption DEF TypeOK
    <3> QED
      BY <3>1, FrameTypes DEF Data, IsHeader
  <2> HIDE DEF g
  <2>3. Busy(t) /\ \A u \in Transfer : Busy(u)' => Busy(u)
    BY <2>1 DEF Busy
  <2>4. FramesGenuine'
    BY <1>1, <2>1, <2>2, SendGenuine DEF FramesGenuine, TypeOK
  <2>5. StreamsInStep'
    BY <1>3, <2>1, <2>2, <2>3, SendInStep
  <2>6. OneBusy' /\ Registered'
    BY <1>1, <1>3, <2>1 DEF OneBusy, Registered, Busy
  <2> QED
    BY <1>2, <1>4, <2>4, <2>5, <2>6 DEF IntactInv
<1>6. CASE EndBam(t)
  <2>1. /\ status[t] = "bam" /\ status' = [status EXCEPT ![t] = "ok"] /\ UNCHANGED inbox
    BY <1>6 DEF EndBam
  <2>2. \A u \in Transfer : Busy(u)' => Busy(u)
    BY <1>1, <2>1 DEF Busy, TypeOK
  <2>3. FramesGenuine' /\ OneBusy'
    BY <1>1, <2>1, <2>2 DEF FramesGenuine, OneBusy
  <2>4. StreamsInStep'
    BY <1>1, <1>3, <2>1, <2>2 DEF StreamsInStep, InStep
  <2>5. Registered'
    BY <1>1, <1>3, <2>1 DEF Registered, TypeOK
  <2> QED
    BY <1>2, <1>4, <2>3, <2>4, <2>5 DEF IntactInv
<1> QED
  BY <1>5, <1>6

(* A refused start leaves everything but the outcome as it is.             *)
LEMMA RefusalKeeps ==
  ASSUME IntactInv, NEW t \in Transfer, StartFails(t)
  PROVE  IntactInv'
<1>1. /\ TypeOK /\ FramesGenuine /\ OneBusy /\ Registered /\ Prefixes /\ DeliveredIntact
      /\ StreamsInStep
  BY DEF IntactInv
<1>2. /\ status[t] = "idle" /\ status' = [status EXCEPT ![t] = "refused"]
      /\ UNCHANGED <<inbox, rx, tx, delivered>>
  BY DEF StartFails, MayStart
<1>3. TypeOK'
  <2>1. Next
    BY DEF Next
  <2> QED
    BY <1>1, <2>1, TypeNext
<1>4. \A u \in Transfer : Busy(u)' => Busy(u)
  BY <1>1, <1>2 DEF Busy, TypeOK
<1>5. FramesGenuine' /\ OneBusy' /\ Prefixes' /\ DeliveredIntact'
  BY <1>1, <1>2, <1>4 DEF FramesGenuine, OneBusy, Prefixes, DeliveredIntact
<1>6. StreamsInStep'
  BY <1>1, <1>2, <1>4 DEF StreamsInStep, InStep
<1>7. Registered'
  BY <1>1, <1>2 DEF Registered, TypeOK
<1> QED
  BY <1>3, <1>5, <1>6, <1>7 DEF IntactInv

(* So does a broadcast that breaks off.                                    *)
LEMMA BreakKeeps ==
  ASSUME IntactInv, NEW t \in Transfer, BamFails(t)
  PROVE  IntactInv'
<1>1. /\ TypeOK /\ FramesGenuine /\ OneBusy /\ Registered /\ Prefixes /\ DeliveredIntact
      /\ StreamsInStep
  BY DEF IntactInv
<1>2. /\ status[t] = "bam" /\ status' = [status EXCEPT ![t] = "failed"]
      /\ UNCHANGED <<inbox, rx, tx, delivered>>
  BY DEF BamFails
<1>3. TypeOK'
  <2>1. Next
    BY DEF Next
  <2> QED
    BY <1>1, <2>1, TypeNext
<1>4. \A u \in Transfer : Busy(u)' => Busy(u)
  BY <1>1, <1>2 DEF Busy, TypeOK
<1>5. FramesGenuine' /\ OneBusy' /\ Prefixes' /\ DeliveredIntact'
  BY <1>1, <1>2, <1>4 DEF FramesGenuine, OneBusy, Prefixes, DeliveredIntact
<1>6. StreamsInStep'
  BY <1>1, <1>2, <1>4 DEF StreamsInStep, InStep
<1>7. Registered'
  BY <1>1, <1>2 DEF Registered, TypeOK
<1> QED
  BY <1>3, <1>5, <1>6, <1>7 DEF IntactInv

LEMMA TimeoutKeeps ==
  ASSUME IntactInv, NEW t \in Transfer, Timeout(t)
  PROVE  IntactInv'
<1>1. /\ TypeOK /\ FramesGenuine /\ OneBusy /\ Registered /\ Prefixes /\ DeliveredIntact
      /\ StreamsInStep
  BY DEF IntactInv
<1>2. /\ status[t] = "rts" /\ tx' = [tx EXCEPT ![Src[t]][Dst[t]] = NoTransfer]
      /\ status' = [status EXCEPT ![t] = "timeout"] /\ UNCHANGED <<inbox, rx, delivered>>
  BY DEF Timeout
<1>3. TypeOK'
  <2>1. Next
    BY DEF Next
  <2> QED
    BY <1>1, <2>1, TypeNext
<1>4. \A u \in Transfer : Busy(u)' => Busy(u)
  BY <1>1, <1>2 DEF Busy, TypeOK
<1>5. FramesGenuine' /\ OneBusy' /\ Prefixes' /\ DeliveredIntact'
  BY <1>1, <1>2, <1>4 DEF FramesGenuine, OneBusy, Prefixes, DeliveredIntact
<1>6. StreamsInStep'
  BY <1>1, <1>2, <1>4 DEF StreamsInStep, InStep
<1>7. Registered'
  <2> SUFFICES ASSUME NEW s \in Node, NEW d \in Node, tx'[s][d] # NoTransfer
               PROVE  Src[tx'[s][d]] = s /\ Dst[tx'[s][d]] = d /\ status'[tx'[s][d]] = "rts"
    BY DEF Registered
  <2>1. tx'[s][d] = tx[s][d] /\ ~(s = Src[t] /\ d = Dst[t])
    BY <1>1, <1>2 DEF TypeOK
  <2>2. Src[tx[s][d]] = s /\ Dst[tx[s][d]] = d /\ status[tx[s][d]] = "rts"
    BY <1>1, <2>1 DEF Registered
  <2> QED
    BY <1>1, <1>2, <2>1, <2>2 DEF TypeOK
<1> QED
  BY <1>3, <1>5, <1>6, <1>7 DEF IntactInv

LEMMA AbortKeeps ==
  ASSUME IntactInv, NEW s \in Node, NEW d \in Node, s # d, ForeignAbort(s, d)
  PROVE  IntactInv'
<1> DEFINE g == Control("ABORT", s, d, NoTransfer, 0)
<1>1. /\ TypeOK /\ FramesGenuine /\ OneBusy /\ Registered /\ Prefixes /\ DeliveredIntact
  BY DEF IntactInv
<1>2. /\ inbox' = Sent(inbox, s, g) /\ UNCHANGED <<rx, tx, status, delivered>>
  BY DEF ForeignAbort
<1>3. TypeOK'
  <2>1. Next
    BY DEF Next
  <2> QED
    BY <1>1, <2>1, TypeNext
<1>4. g \in Frame /\ g.sa = s /\ ~IsHeader(g) /\ g.kind # "DT"
  <2>1. 0 \in Seq8
    BY TransferAssumption DEF Seq8
  <2> QED
    BY <2>1 DEF Control, Frame, IsHeader
<1> HIDE DEF g
<1>5. FramesGenuine'
  BY <1>1, <1>2, <1>4, SendGenuine DEF FramesGenuine, TypeOK
<1>6. StreamsInStep'
  <2>1. \A t \in Transfer : Busy(t)' => Busy(t)
    BY <1>2 DEF Busy
  <2> QED
    BY <1>2, <1>4, <2>1, SendInStep
<1>7. OneBusy' /\ Registered' /\ Prefixes' /\ DeliveredIntact'
  BY <1>1, <1>2 DEF OneBusy, Busy, Registered, Prefixes, DeliveredIntact
<1> QED
  BY <1>3, <1>5, <1>6, <1>7 DEF IntactInv

LEMMA IntactNext ==
  ASSUME OneAtATime, \A t \in Transfer : Packets[t] < SeqMod,
         IntactInv, [Next]_vars, \A n \in Node : ~Lose(n)
  PROVE  IntactInv'
<1>1. ASSUME NEW t \in Transfer, StartRts(t) \/ StartBam(t) PROVE IntactInv'
  BY <1>1, StartKeeps
<1>7. ASSUME NEW t \in Transfer, StartFails(t) \/ BamFails(t) PROVE IntactInv'
  BY <1>7, RefusalKeeps, BreakKeeps
<1>2. ASSUME NEW t \in Transfer, StepBam(t) \/ EndBam(t) PROVE IntactInv'
  BY <1>2, BamKeeps
<1>3. ASSUME NEW t \in Transfer, Timeout(t) PROVE IntactInv'
  BY <1>3, TimeoutKeeps
<1>4. ASSUME NEW n \in Node, RxFrame(n) PROVE IntactInv'
  <2>1. TypeOK'
    BY <1>4, TypeHandle DEF IntactInv
  <2>2. FramesGenuine' /\ OneBusy' /\ Registered'
    BY <1>4, HandleGenuine, HandleRegistered
  <2>3. StreamsInStep' /\ Prefixes' /\ DeliveredIntact'
    BY <1>4, HandleInStep, HandlePrefix
  <2> QED
    BY <2>1, <2>2, <2>3 DEF IntactInv
<1>5. ASSUME NEW s \in Node, NEW d \in Node, s # d, ForeignAbort(s, d) PROVE IntactInv'
  BY <1>5, AbortKeeps
<1>6. CASE UNCHANGED vars
  <2>1. TypeOK'
    BY <1>6, TypeNext DEF IntactInv
  <2>2. UNCHANGED <<inbox, rx, tx, status, delivered>>
    BY <1>6 DEF vars
  <2> QED
    BY <2>1, <2>2 DEF IntactInv, FramesGenuine, OneBusy, Busy, Registered,
                      StreamsInStep, InStep, Prefixes, DeliveredIntact
<1> QED
  BY <1>1, <1>2, <1>3, <1>4, <1>5, <1>6, <1>7 DEF Next

LEMMA Spared ==
  ASSUME TypeOK, TypeOK', [Next]_vars, losses' = 0
  PROVE  losses = 0 /\ \A n \in Node : ~Lose(n)
<1>1. losses \in Nat
  BY TransportBounds DEF TypeOK
<1>2. losses' = losses \/ losses' = losses + 1
  BY DEF Next, vars, StartRts, StartBam, StartFails, StepBam, BamFails, EndBam, Timeout,
         RxFrame, Lose, ForeignAbort
<1>3. \A n \in Node : Lose(n) => losses' = losses + 1
  BY DEF Lose
<1> QED
  BY <1>1, <1>2, <1>3

(* As long as no frame is lost, whatever an application is handed is      *)
(* exactly one sender's message, for any number of nodes and transfers,    *)
(* with timeouts firing at any moment and Aborts from other equipment,     *)
(* provided that each node has one transfer open at a time and no message  *)
(* needs more packets than a packet number can count (on_tp_cm, on_tp_dt). *)
THEOREM IntactUntilLoss ==
  ASSUME OneAtATime, \A t \in Transfer : Packets[t] < SeqMod
  PROVE  Spec => [](losses = 0 => DeliveredIntact)
<1> DEFINE Inv == TypeOK /\ (losses = 0 => IntactInv)
<1>1. Init => Inv
  BY IntactInit DEF IntactInv
<1>2. Inv /\ [Next]_vars => Inv'
  BY TypeNext, Spared, IntactNext
<1>3. Inv => (losses = 0 => DeliveredIntact)
  BY DEF IntactInv
<1> QED
  BY <1>1, <1>2, <1>3, PTL DEF Spec

(* So with receive buffers that hold whatever the bus brings.              *)
THEOREM Intact ==
  ASSUME OneAtATime, MaxLosses = 0, \A t \in Transfer : Packets[t] < SeqMod
  PROVE  Spec => []DeliveredIntact
<1>1. TypeOK /\ (losses = 0 => DeliveredIntact) => DeliveredIntact
  BY DEF TypeOK
<1> QED
  BY <1>1, TypeCorrect, IntactUntilLoss, PTL

-----------------------------------------------------------------------------
(* Two ECUs on a bus that loses a frame at most: the transport layer       *)
(* implements its service, and until the loss every unicast transfer is a  *)
(* dialogue with one frame under way at any time.  (With a third ECU that  *)
(* overhears the dialogue and answers too, or with stale answers after a   *)
(* timeout or an Abort, neither is so.)                                    *)
TwoNodes == \E m, n \in Node : m # n /\ Node = {m, n}

Quiet == MaxAborts = 0 /\ ~EarlyTimeout

Unicast(t) == Dst[t] # All

(* The frames by which a sender drives a transfer. *)
Stream(f) == f.kind \in {"RTS", "BAM", "DT"}

(* What a frame says of its transfer. *)
Honest(n, f) ==
  /\ f.kind # "ABORT"
  /\ f.kind \in {"RTS", "CTS", "EOM"} => Unicast(f.transfer)
  /\ f.kind = "BAM" => ~Unicast(f.transfer)
  /\ Stream(f) => f.sa = Src[f.transfer]

FramesHonest == \A n \in Node : \A i \in DOMAIN inbox[n] : Honest(n, inbox[n][i])

SessionsHonest ==
  \A n, s \in Node : rx[n][s] # NoSession =>
    /\ n # s /\ s = Src[rx[n][s].transfer]
    /\ rx[n][s].bam = ~Unicast(rx[n][s].transfer)

(* A send() in progress is of the kind its destination asks for. *)
KindsFit ==
  \A t \in Transfer : /\ status[t] = "rts" => Unicast(t)
                      /\ status[t] = "bam" => ~Unicast(t)

(* A node hears of a transfer once: by the one header in its queue, by its *)
(* session, or by having been handed the message.                          *)
Announced(n, t) ==
  {i \in DOMAIN inbox[n] : IsHeader(inbox[n][i]) /\ inbox[n][i].transfer = t}

Handed(n, t) == \E i \in DOMAIN delivered[n] : delivered[n][i].transfer = t

Held(n, t) == \E s \in Node : rx[n][s] # NoSession /\ rx[n][s].transfer = t

(* Nothing of a transfer has been sent: not begun, or refused at once.     *)
Unsent(t) == status[t] \in {"idle", "refused"}

Once(n, t) ==
  /\ \A i, j \in Announced(n, t) : i = j
  /\ Announced(n, t) # {} => ~Held(n, t) /\ ~Handed(n, t)
  /\ Held(n, t) => ~Handed(n, t)
  /\ Unsent(t) =>
       Announced(n, t) = {} /\ ~Held(n, t) /\ ~Handed(n, t)

OnceInv == \A n \in Node, t \in Transfer : Once(n, t)

(* The stages of a dialogue, each named for the frame under way.           *)
Receiving(t, k) ==
  LET r == rx[Dst[t]][Src[t]]
  IN  r # NoSession /\ r.transfer = t /\ r.next = k

(* Nothing else that the sender drives is in the receiver's queue. *)
Alone(t) ==
  \A j \in DOMAIN inbox[Dst[t]] :
    Stream(inbox[Dst[t]][j]) => inbox[Dst[t]][j].transfer = t

Stage(t, n, i) ==
  LET f == inbox[n][i]
  IN  \/ /\ f.kind = "RTS" /\ n = Dst[t]
         /\ \A j \in DOMAIN inbox[n] : j > i => ~Stream(inbox[n][j])
      \/ f.kind = "DT" /\ n = Dst[t] /\ Receiving(t, f.seq) /\ Alone(t)
      \/ f.kind = "CTS" /\ n = Src[t] /\ Receiving(t, f.seq) /\ Alone(t)
      \/ f.kind = "EOM" /\ n = Src[t] /\ Handed(Dst[t], t)

Sole(t, n, i) ==
  /\ inbox[n][i].transfer = t
  /\ \A m \in Node : \A j \in DOMAIN inbox[m] :
       inbox[m][j].transfer = t => m = n /\ j = i

Silent(t) == \A m \in Node : \A j \in DOMAIN inbox[m] : inbox[m][j].transfer # t

Open(t) ==
  /\ tx[Src[t]][Dst[t]] = t
  /\ \E n \in Node : \E i \in DOMAIN inbox[n] : Sole(t, n, i) /\ Stage(t, n, i)

(* The frame of t was lost: both sides wait, until the timer fires.        *)
Stalled(t) == losses = 1 /\ tx[Src[t]][Dst[t]] = t /\ Silent(t)

Dialogue(t) == IF status[t] = "rts" THEN Open(t) \/ Stalled(t) ELSE Silent(t)

DialogueInv == \A t \in Transfer : Unicast(t) => Dialogue(t)

QuietInv ==
  IntactInv /\ FramesHonest /\ SessionsHonest /\ KindsFit /\ OnceInv /\ DialogueInv

-----------------------------------------------------------------------------
(* How a queue changes: p is q without its first c frames and with frames  *)
(* of added behind.                                                        *)
Shifted(q, p, c, added) ==
  /\ \A i \in DOMAIN q : i <= c \/ (i - c \in DOMAIN p /\ p[i - c] = q[i])
  /\ \A j \in DOMAIN p :
       \/ j + c \in DOMAIN q /\ p[j] = q[j + c]
       \/ p[j] \in added /\ \A i \in DOMAIN q : i - c < j

LEMMA QueueDomain ==
  ASSUME NEW q \in Seq(Frame)
  PROVE  /\ Len(q) \in Nat /\ DOMAIN q = 1 .. Len(q)
         /\ \A i \in DOMAIN q : q[i] \in Frame /\ i \in Nat /\ i >= 1
BY LenProperties, ElementOfSeq

LEMMA TailShifted ==
  ASSUME NEW q \in Seq(Frame), q # <<>>
  PROVE  Shifted(q, Tail(q), 1, {}) /\ 1 \in DOMAIN q /\ Head(q) = q[1]
<1> DEFINE p == Tail(q)
<1>1. /\ Len(q) \in Nat \ {0} /\ p \in Seq(Frame) /\ Len(p) = Len(q) - 1
      /\ \A i \in 1 .. Len(q) - 1 : p[i] = q[i + 1]
      /\ Head(q) = q[1]
  BY TailFacts
<1>2. DOMAIN q = 1 .. Len(q) /\ DOMAIN p = 1 .. Len(p)
  BY <1>1, QueueDomain
<1> HIDE DEF p
<1>3. ASSUME NEW i \in DOMAIN q, ~(i <= 1) PROVE i - 1 \in DOMAIN p /\ p[i - 1] = q[i]
  <2>1. i - 1 \in 1 .. Len(q) - 1 /\ (i - 1) + 1 = i
    BY <1>1, <1>2, <1>3
  <2> QED
    BY <1>1, <1>2, <2>1
<1>4. ASSUME NEW j \in DOMAIN p PROVE j + 1 \in DOMAIN q /\ p[j] = q[j + 1]
  BY <1>1, <1>2
<1> QED
  BY <1>1, <1>2, <1>3, <1>4 DEF Shifted, p

LEMMA AppendShifted ==
  ASSUME NEW q \in Seq(Frame), NEW g \in Frame
  PROVE  /\ Shifted(q, Append(q, g), 0, {g})
         /\ Len(q) + 1 \in DOMAIN Append(q, g) /\ Append(q, g)[Len(q) + 1] = g
         /\ \A j \in DOMAIN Append(q, g) : j <= Len(q) + 1
         /\ Len(q) + 1 \notin DOMAIN q
<1> DEFINE p == Append(q, g)
<1>1. /\ Len(q) \in Nat /\ DOMAIN q = 1 .. Len(q)
      /\ DOMAIN p = 1 .. Len(q) + 1
      /\ \A i \in 1 .. Len(q) : p[i] = q[i]
      /\ p[Len(q) + 1] = g
  BY QueueDomain, AppendProperties
<1> HIDE DEF p
<1>2. \A i \in DOMAIN q : i - 0 = i /\ i + 0 = i /\ i < Len(q) + 1
  BY <1>1
<1>3. \A j \in DOMAIN p : j = Len(q) + 1 \/ (j \in DOMAIN q /\ j + 0 = j)
  BY <1>1
<1>4. \A i \in DOMAIN q : i - 0 \in DOMAIN p /\ p[i - 0] = q[i]
  BY <1>1, <1>2
<1>5. \A j \in DOMAIN p :
        \/ j + 0 \in DOMAIN q /\ p[j] = q[j + 0]
        \/ p[j] \in {g} /\ \A i \in DOMAIN q : i - 0 < j
  BY <1>1, <1>2, <1>3
<1> QED
  BY <1>1, <1>4, <1>5 DEF Shifted, p

LEMMA SameShifted ==
  ASSUME NEW q \in Seq(Frame)
  PROVE  Shifted(q, q, 0, {})
<1>1. \A i \in DOMAIN q : i - 0 = i /\ i + 0 = i
  BY QueueDomain
<1> QED
  BY <1>1 DEF Shifted

LEMMA Pair ==
  ASSUME TwoNodes, NEW n \in Node
  PROVE  \E m \in Node : m # n /\ Node = {m, n}
BY DEF TwoNodes

(* The two ways in which the queues of two nodes change.                   *)
LEMMA SentShifted ==
  ASSUME TypeOK, NEW n \in Node, NEW m \in Node, m # n, Node = {m, n},
         NEW g \in Frame, inbox' = Sent(inbox, n, g)
  PROVE  /\ inbox'[n] = inbox[n] /\ inbox'[m] = Append(inbox[m], g)
         /\ Shifted(inbox[n], inbox'[n], 0, {}) /\ Shifted(inbox[m], inbox'[m], 0, {g})
<1>1. inbox'[n] = inbox[n] /\ inbox'[m] = Append(inbox[m], g)
  BY DEF Sent
<1>2. inbox[n] \in Seq(Frame) /\ inbox[m] \in Seq(Frame)
  BY DEF TypeOK
<1> QED
  BY <1>1, <1>2, SameShifted, AppendShifted

LEMMA ReceivedShifted ==
  ASSUME TypeOK, NEW n \in Node, NEW m \in Node, m # n, inbox[n] # <<>>,
         inbox' = Received(n)
  PROVE  /\ inbox'[n] = Tail(inbox[n]) /\ inbox'[m] = inbox[m]
         /\ Shifted(inbox[n], inbox'[n], 1, {}) /\ Shifted(inbox[m], inbox'[m], 0, {})
<1>1. inbox'[n] = Tail(inbox[n]) /\ inbox'[m] = inbox[m]
  BY DEF Received, TypeOK
<1>2. inbox[n] \in Seq(Frame) /\ inbox[m] \in Seq(Frame)
  BY DEF TypeOK
<1> QED
  BY <1>1, <1>2, SameShifted, TailShifted

LEMMA RepliedShifted ==
  ASSUME TypeOK, NEW n \in Node, NEW m \in Node, m # n, Node = {m, n}, inbox[n] # <<>>,
         NEW g \in Frame, inbox' = Sent(Received(n), n, g)
  PROVE  /\ inbox'[n] = Tail(inbox[n]) /\ inbox'[m] = Append(inbox[m], g)
         /\ Shifted(inbox[n], inbox'[n], 1, {}) /\ Shifted(inbox[m], inbox'[m], 0, {g})
<1>1. inbox'[n] = Tail(inbox[n]) /\ inbox'[m] = Append(inbox[m], g)
  BY DEF Received, Sent, TypeOK
<1>2. inbox[n] \in Seq(Frame) /\ inbox[m] \in Seq(Frame)
  BY DEF TypeOK
<1> QED
  BY <1>1, <1>2, TailShifted, AppendShifted

(* A transfer that a step does not touch stays silent, or open.            *)
LEMMA SilentKept ==
  ASSUME NEW t \in Transfer, Silent(t),
         NEW c \in [Node -> {0, 1}], NEW added \in [Node -> SUBSET Frame],
         \A m \in Node : /\ Shifted(inbox[m], inbox'[m], c[m], added[m])
                         /\ \A g \in added[m] : g.transfer # t
  PROVE  Silent(t)'
<1> SUFFICES ASSUME NEW m \in Node, NEW j \in DOMAIN inbox'[m], inbox'[m][j].transfer = t
             PROVE  FALSE
  BY DEF Silent
<1>1. \/ j + c[m] \in DOMAIN inbox[m] /\ inbox'[m][j] = inbox[m][j + c[m]]
      \/ inbox'[m][j] \in added[m]
  BY DEF Shifted
<1> QED
  BY <1>1 DEF Silent

LEMMA OpenKept ==
  ASSUME TypeOK, TypeOK', NEW t \in Transfer, Unicast(t), Open(t),
         NEW c \in [Node -> {0, 1}], NEW added \in [Node -> SUBSET Frame],
         \A m \in Node :
           /\ Shifted(inbox[m], inbox'[m], c[m], added[m])
           /\ c[m] = 1 => inbox[m] # <<>> /\ Head(inbox[m]).transfer # t
           /\ \A g \in added[m] : g.transfer # t /\ (m = Dst[t] => ~Stream(g)),
         tx'[Src[t]][Dst[t]] = tx[Src[t]][Dst[t]],
         Alone(t) => rx'[Dst[t]][Src[t]] = rx[Dst[t]][Src[t]],
         Handed(Dst[t], t) => Handed(Dst[t], t)'
  PROVE  Open(t)'
<1>0. PICK n \in Node : \E i \in DOMAIN inbox[n] : Sole(t, n, i) /\ Stage(t, n, i)
  BY DEF Open
<1>1. PICK i \in DOMAIN inbox[n] : Sole(t, n, i) /\ Stage(t, n, i)
  BY <1>0
<1>2. PICK l : l = i - c[n]
  OBVIOUS
<1>3. \A m \in Node : inbox[m] \in Seq(Frame) /\ inbox'[m] \in Seq(Frame) /\ c[m] \in {0, 1}
  BY DEF TypeOK
<1>4. i \in Nat /\ i >= 1 /\ ~(i <= c[n])
  <2>1. i \in Nat /\ i >= 1
    BY <1>3, QueueDomain
  <2>2. c[n] = 1 => i # 1
    BY <1>1, <1>3, TailShifted DEF Sole
  <2> QED
    BY <1>3, <2>1, <2>2
<1>5. l \in DOMAIN inbox'[n] /\ inbox'[n][l] = inbox[n][i]
  BY <1>2, <1>4 DEF Shifted
(* Where a frame of the new queues comes from.                             *)
<1>6. ASSUME NEW m \in Node, NEW j \in DOMAIN inbox'[m]
      PROVE  \/ j + c[m] \in DOMAIN inbox[m] /\ inbox'[m][j] = inbox[m][j + c[m]]
             \/ inbox'[m][j] \in added[m]
  BY DEF Shifted
<1>7. Sole(t, n, l)'
  <2> SUFFICES ASSUME NEW m \in Node, NEW j \in DOMAIN inbox'[m], inbox'[m][j].transfer = t
               PROVE  m = n /\ j = l
    BY <1>1, <1>5 DEF Sole
  <2>1. j + c[m] \in DOMAIN inbox[m] /\ inbox'[m][j] = inbox[m][j + c[m]]
    BY <1>6
  <2>2. m = n /\ j + c[m] = i
    BY <1>1, <2>1 DEF Sole
  <2>3. j \in Nat
    BY <1>3, QueueDomain
  <2>4. j = i - c[n]
    BY <1>3, <1>4, <2>2, <2>3
  <2> QED
    BY <1>2, <2>2, <2>4
<1>8. Stage(t, n, l)'
  <2> DEFINE f == inbox[n][i]
  <2>1. CASE /\ f.kind = "RTS" /\ n = Dst[t]
             /\ \A j \in DOMAIN inbox[n] : j > i => ~Stream(inbox[n][j])
    <3>1. ASSUME NEW j \in DOMAIN inbox'[n], j > l PROVE ~Stream(inbox'[n][j])
      <4>1. CASE inbox'[n][j] \in added[n]
        BY <2>1, <4>1
      <4>2. CASE j + c[n] \in DOMAIN inbox[n] /\ inbox'[n][j] = inbox[n][j + c[n]]
        <5>1. j \in Nat
          BY <1>3, QueueDomain
        <5>2. j + c[n] > i
          <6>1. PICK k \in {0, 1} : k = c[n]
            BY <1>3
          <6>2. l = i - k /\ j > l /\ i \in Nat /\ j \in Nat
            BY <1>2, <1>4, <3>1, <5>1, <6>1
          <6>3. j + k > i
            BY ONLY <6>2, k \in {0, 1}
          <6> QED
            BY <6>1, <6>3
        <5> QED
          BY <2>1, <4>2, <5>2
      <4> QED
        BY <1>6, <4>1, <4>2
    <3> QED
      BY <1>5, <2>1, <3>1 DEF Stage, Stream
  <2>2. ASSUME Alone(t)
        PROVE  /\ Alone(t)' /\ \A k : Receiving(t, k) => Receiving(t, k)'
    <3>1. Dst[t] \in Node
      BY TransferAssumption DEF Unicast
    <3>2. ASSUME NEW j \in DOMAIN inbox'[Dst[t]], Stream(inbox'[Dst[t]][j])
          PROVE  inbox'[Dst[t]][j].transfer = t
      <4>1. inbox'[Dst[t]][j] \notin added[Dst[t]]
        BY <3>1, <3>2
      <4>2. PICK k \in DOMAIN inbox[Dst[t]] : inbox'[Dst[t]][j] = inbox[Dst[t]][k]
        BY <1>6, <3>1, <4>1
      <4> QED
        BY <2>2, <3>2, <4>2 DEF Alone
    <3>3. rx'[Dst[t]][Src[t]] = rx[Dst[t]][Src[t]]
      BY <2>2
    <3> QED
      BY <3>2, <3>3 DEF Alone, Receiving, Stream
  <2>3. CASE /\ (f.kind = "DT" /\ n = Dst[t]) \/ (f.kind = "CTS" /\ n = Src[t])
             /\ Receiving(t, f.seq) /\ Alone(t)
    BY <1>5, <2>2, <2>3 DEF Stage
  <2>4. CASE f.kind = "EOM" /\ n = Src[t] /\ Handed(Dst[t], t)
    BY <1>5, <2>4 DEF Stage
  <2> QED
    BY <1>1, <2>1, <2>3, <2>4 DEF Stage
<1>9. tx'[Src[t]][Dst[t]] = t
  BY DEF Open
<1> QED
  BY <1>5, <1>7, <1>8, <1>9 DEF Open

(* A transfer none of whose frames stays in a queue is silent, or has the  *)
(* one frame that is added.                                                *)
Moved(c, added) == \A k \in Node : Shifted(inbox[k], inbox'[k], c[k], added[k])

TakenBy(t, c) ==
  \A k \in Node : \A j \in DOMAIN inbox[k] :
    inbox[k][j].transfer = t => c[k] = 1 /\ j = 1

Put(m, g, l) == l = Len(inbox[m]) + 1 /\ inbox'[m] = Append(inbox[m], g)

OnlyAt(m, added) == \A k \in Node : k # m => added[k] = {}

LEMMA TakenBefore ==
  ASSUME TypeOK', NEW t \in Transfer,
         NEW c \in [Node -> {0, 1}], NEW added \in [Node -> SUBSET Frame],
         Moved(c, added), TakenBy(t, c),
         NEW m \in Node, NEW j \in DOMAIN inbox'[m], inbox'[m][j].transfer = t
  PROVE  inbox'[m][j] \in added[m]
<1> SUFFICES ASSUME inbox'[m][j] \notin added[m] PROVE FALSE
  OBVIOUS
<1>1. j + c[m] \in DOMAIN inbox[m] /\ inbox'[m][j] = inbox[m][j + c[m]]
  BY DEF Moved, Shifted
<1>2. c[m] = 1 /\ j + c[m] = 1
  BY <1>1 DEF TakenBy
<1>3. inbox'[m] \in Seq(Frame)
  BY DEF TypeOK
<1>4. j \in Nat /\ j >= 1
  BY <1>3, QueueDomain
<1> QED
  BY <1>2, <1>4

LEMMA TakenSilent ==
  ASSUME TypeOK', NEW t \in Transfer,
         NEW c \in [Node -> {0, 1}], NEW added \in [Node -> SUBSET Frame],
         Moved(c, added), TakenBy(t, c),
         \A m \in Node : \A g \in added[m] : g.transfer # t
  PROVE  Silent(t)'
<1> SUFFICES ASSUME NEW m \in Node, NEW j \in DOMAIN inbox'[m], inbox'[m][j].transfer = t
             PROVE  FALSE
  BY DEF Silent
<1>1. inbox'[m][j] \in added[m]
  BY TakenBefore
<1> QED
  BY <1>1

LEMMA TakenSole ==
  ASSUME TypeOK, TypeOK', NEW t \in Transfer,
         NEW c \in [Node -> {0, 1}], NEW added \in [Node -> SUBSET Frame],
         Moved(c, added), TakenBy(t, c),
         NEW m \in Node, NEW g \in Frame, NEW l \in Nat,
         Put(m, g, l), c[m] = 0, g.transfer = t, OnlyAt(m, added)
  PROVE  Sole(t, m, l)' /\ l \in DOMAIN inbox'[m] /\ inbox'[m][l] = g
<1>1. inbox[m] \in Seq(Frame)
  BY DEF TypeOK
<1> USE DEF Put
<1>2. l \in DOMAIN inbox'[m] /\ inbox'[m][l] = g
  BY <1>1, AppendShifted
<1>3. ASSUME NEW k \in Node, NEW j \in DOMAIN inbox'[k], inbox'[k][j].transfer = t
      PROVE  k = m /\ j = l
  <2>1. k = m
    <3>1. inbox'[k][j] \in added[k]
      BY <1>3, TakenBefore
    <3> QED
      BY <3>1 DEF OnlyAt
  <2>2. \A i \in 1 .. Len(inbox[m]) : inbox'[m][i] = inbox[m][i] /\ i \in DOMAIN inbox[m]
    BY <1>1, QueueDomain, AppendProperties
  <2>3. j \in 1 .. Len(inbox[m]) \/ j = l
    BY <1>1, <1>3, <2>1, AppendProperties
  <2>4. ~(j \in 1 .. Len(inbox[m]))
    BY <1>3, <2>1, <2>2 DEF TakenBy
  <2> QED
    BY <2>1, <2>3, <2>4
<1> QED
  BY <1>2, <1>3 DEF Sole

(* What a queue says of the frame at its head.                             *)
LEMMA QuietHead ==
  ASSUME QuietInv, NEW n \in Node, NEW m \in Node, m # n, Node = {m, n},
         inbox[n] # <<>>, NEW f, f = Head(inbox[n]), NEW t, t = f.transfer
  PROVE  /\ f \in Frame /\ f = inbox[n][1] /\ 1 \in DOMAIN inbox[n] /\ f.sa = m
         /\ f.seq \in Seq8 /\ t \in Transfer /\ Honest(n, f)
         /\ Unicast(t) =>
              /\ status[t] = "rts" /\ tx[Src[t]][Dst[t]] = t
              /\ Sole(t, n, 1) /\ Stage(t, n, 1)
              /\ (n = Src[t] /\ m = Dst[t]) \/ (n = Dst[t] /\ m = Src[t])
<1>1. TypeOK /\ FramesGenuine /\ FramesHonest /\ DialogueInv
  BY DEF QuietInv, IntactInv
<1>2. inbox[n] \in Seq(Frame)
  BY <1>1 DEF TypeOK
<1>3. f = inbox[n][1] /\ 1 \in DOMAIN inbox[n] /\ 1 \in 1 .. Len(inbox[n])
  BY <1>2, TailFacts, TailShifted
<1>4. Honest(n, f) /\ Genuine(n, f)
  BY <1>1, <1>3 DEF FramesHonest, FramesGenuine
<1>5. f \in Frame /\ f.sa \in Node /\ f.seq \in Seq8 /\ t \in Transfer
  BY <1>1, <1>4, HeadType DEF Honest
<1>6. f.sa = m
  BY <1>4, <1>5 DEF Genuine
<1>7. ASSUME Unicast(t)
      PROVE  /\ status[t] = "rts" /\ tx[Src[t]][Dst[t]] = t
             /\ Sole(t, n, 1) /\ Stage(t, n, 1)
             /\ (n = Src[t] /\ m = Dst[t]) \/ (n = Dst[t] /\ m = Src[t])
  <2>1. ~Silent(t)
    BY <1>3 DEF Silent
  <2>2. status[t] = "rts" /\ Open(t)
    BY <1>1, <1>5, <1>7, <2>1 DEF DialogueInv, Dialogue, Stalled
  <2>3. PICK k \in Node : \E i \in DOMAIN inbox[k] : Sole(t, k, i) /\ Stage(t, k, i)
    BY <2>2 DEF Open
  <2>4. PICK i \in DOMAIN inbox[k] : Sole(t, k, i) /\ Stage(t, k, i)
    BY <2>3
  <2>5. k = n /\ i = 1
    BY <1>3, <2>4 DEF Sole
  <2>6. Src[t] \in Node /\ Dst[t] \in Node /\ Src[t] # Dst[t]
    BY <1>5, <1>7, TransferAssumption DEF Unicast
  <2> QED
    BY <2>2, <2>4, <2>5, <2>6 DEF Open
<1> QED
  BY <1>3, <1>4, <1>5, <1>6, <1>7

(* A broadcast is heard and not answered.                                  *)
LEMMA HearBroadcast ==
  ASSUME QuietInv, NEW n \in Node, NEW m \in Node, m # n, Node = {m, n}, RxFrame(n),
         NEW f, f = Head(inbox[n]), ~Unicast(f.transfer)
  PROVE  /\ Stream(f) /\ inbox' = Received(n) /\ UNCHANGED <<tx, status>>
<1>1. /\ f.sa = m /\ Honest(n, f) /\ Handle(n, f) /\ f.transfer \in Transfer
  BY QuietHead DEF RxFrame
<1>2. f.kind \in {"BAM", "DT"}
  BY <1>1 DEF Honest, Handle, HearRts, HearBam, HearCts, HearEom, HearAbort, HearStrayDt,
              HearWrongDt, HearNextDt, HearLastDt
<1>3. CASE f.kind = "BAM"
  BY <1>1, <1>3 DEF Stream, Handle, HearRts, HearBam, HearCts, HearEom, HearAbort, HearStrayDt,
              HearWrongDt, HearNextDt, HearLastDt
<1>4. CASE f.kind = "DT"
  <2>1. CASE HearStrayDt(n, f)
    BY <1>4, <2>1 DEF Stream, HearStrayDt
  <2>2. CASE ~HearStrayDt(n, f)
    <3>1. HearWrongDt(n, f) \/ HearNextDt(n, f) \/ HearLastDt(n, f)
      BY <1>1, <1>4, <2>2 DEF Handle, HearRts, HearBam, HearCts, HearEom, HearAbort
    <3>2. rx[n][m] # NoSession
      BY <1>1, <3>1 DEF HearWrongDt, HearNextDt, HearLastDt
    <3>3. rx[n][m].transfer = f.transfer
      BY <1>1, <1>4, <3>2, HeadBelongs DEF QuietInv, RxFrame
    <3>4. rx[n][m].bam
      BY <3>2, <3>3 DEF QuietInv, SessionsHonest
    <3>5. Accepted(rx[n][m], f).bam
      <4>1. rx[n][m] \in Session
        BY <3>2 DEF QuietInv, IntactInv, TypeOK
      <4> QED
        BY <3>4, <4>1 DEF Accepted, Session
    <3> QED
      BY <1>1, <1>4, <3>1, <3>4, <3>5 DEF Stream, HearWrongDt, HearNextDt, HearLastDt
  <2> QED
    BY <2>1, <2>2
<1> QED
  BY <1>2, <1>3, <1>4

(* A frame of a dialogue is answered by the next frame of the dialogue, or *)
(* ends it.                                                                *)
Ends(n, m, t) ==
  /\ n = Src[t] /\ m = Dst[t] /\ Handed(m, t) /\ inbox' = Received(n)
  /\ tx' = [tx EXCEPT ![n][m] = NoTransfer] /\ status' = [status EXCEPT ![t] = "ok"]
  /\ UNCHANGED <<rx, delivered>>

(* What is queued behind the head that t's sender drives is t's. *)
AloneBehind(n, t) ==
  \A j \in DOMAIN inbox[n] :
    j # 1 /\ Stream(inbox[n][j]) => inbox[n][j].transfer = t

Answers(n, m, t, g) ==
  /\ inbox' = Sent(Received(n), n, g)
  /\ g.transfer = t /\ Honest(m, g) /\ ~IsHeader(g) /\ UNCHANGED <<tx, status>>
  /\ \/ /\ g.kind = "DT" /\ n = Src[t] /\ m = Dst[t]
        /\ Receiving(t, g.seq) /\ Alone(t) /\ UNCHANGED <<rx, delivered>>
     \/ /\ g.kind = "CTS" /\ n = Dst[t] /\ m = Src[t]
        /\ Receiving(t, g.seq)' /\ AloneBehind(n, t)
     \/ g.kind = "EOM" /\ n = Dst[t] /\ m = Src[t] /\ Handed(n, t)'

LEMMA HandedAppend ==
  ASSUME TypeOK, NEW n \in Node, NEW x \in [transfer : Transfer, data : Seq(Chunk)],
         delivered' = [delivered EXCEPT ![n] = Append(@, x)]
  PROVE  \A k \in Node, u \in Transfer :
           Handed(k, u)' <=> Handed(k, u) \/ (k = n /\ u = x.transfer)
<1>1. delivered[n] \in Seq([transfer : Transfer, data : Seq(Chunk)])
      /\ delivered'[n] = Append(delivered[n], x)
      /\ \A k \in Node : k # n => delivered'[k] = delivered[k]
  BY DEF TypeOK
<1> DEFINE q == delivered[n]
           p == delivered'[n]
<1>2. /\ Len(q) \in Nat /\ DOMAIN q = 1 .. Len(q) /\ DOMAIN p = 1 .. Len(q) + 1
      /\ \A i \in 1 .. Len(q) : p[i] = q[i]
      /\ p[Len(q) + 1] = x
  BY <1>1, AppendProperties, LenProperties
<1> HIDE DEF q, p
<1>3. ASSUME NEW u \in Transfer
      PROVE  (\E i \in DOMAIN p : p[i].transfer = u)
               <=> (\E i \in DOMAIN q : q[i].transfer = u) \/ u = x.transfer
  <2>1. ASSUME NEW i \in DOMAIN q, q[i].transfer = u PROVE i \in DOMAIN p /\ p[i].transfer = u
    BY <1>2, <2>1
  <2>2. ASSUME u = x.transfer PROVE Len(q) + 1 \in DOMAIN p /\ p[Len(q) + 1].transfer = u
    BY <1>2, <2>2
  <2>3. ASSUME NEW i \in DOMAIN p, p[i].transfer = u
        PROVE  (i \in DOMAIN q /\ q[i].transfer = u) \/ u = x.transfer
    BY <1>2, <2>3
  <2> QED
    BY <2>1, <2>2, <2>3
<1> QED
  BY <1>1, <1>3 DEF Handed, q, p

LEMMA HearUnicast ==
  ASSUME QuietInv, NEW n \in Node, NEW m \in Node, m # n, Node = {m, n}, RxFrame(n),
         NEW f, f = Head(inbox[n]), NEW t, t = f.transfer, Unicast(t)
  PROVE  (f.kind = "EOM" /\ Ends(n, m, t)) \/ \E g \in Frame : Answers(n, m, t, g)
<1>1. /\ f \in Frame /\ f = inbox[n][1] /\ 1 \in DOMAIN inbox[n] /\ f.sa = m
      /\ f.seq \in Seq8 /\ t \in Transfer /\ Honest(n, f)
      /\ status[t] = "rts" /\ tx[Src[t]][Dst[t]] = t
      /\ Sole(t, n, 1) /\ Stage(t, n, 1)
      /\ (n = Src[t] /\ m = Dst[t]) \/ (n = Dst[t] /\ m = Src[t])
  BY QuietHead DEF RxFrame
<1>2. /\ TypeOK /\ inbox[n] # <<>> /\ Handle(n, f) /\ t # NoTransfer
  BY <1>1, NothingAssumption DEF QuietInv, IntactInv, RxFrame
<1>3. f.kind \in {"RTS", "CTS", "EOM", "DT"}
  BY <1>1 DEF Honest, Stage
<1>4. CASE f.kind = "EOM"
  <2>1. n = Src[t] /\ Handed(Dst[t], t)
    BY <1>1, <1>4 DEF Stage
  <2>2. HearEom(n, f)
    BY <1>2, <1>4 DEF Handle, HearRts, HearBam, HearCts, HearEom, HearAbort, HearStrayDt,
                      HearWrongDt, HearNextDt, HearLastDt
  <2>3. tx[n][m] = t /\ m = Dst[t]
    BY <1>1, <2>1
  <2> QED
    BY <1>1, <1>2, <1>4, <2>1, <2>2, <2>3 DEF HearEom, Concluded, Ends
<1>5. CASE f.kind = "CTS"
  <2>1. n = Src[t] /\ m = Dst[t] /\ Receiving(t, f.seq) /\ Alone(t)
    BY <1>1, <1>5 DEF Stage
  <2>2. HearCts(n, f)
    BY <1>2, <1>5 DEF Handle, HearRts, HearBam, HearCts, HearEom, HearAbort, HearStrayDt,
                      HearWrongDt, HearNextDt, HearLastDt
  <2> DEFINE g == Data(n, m, t, f.seq)
  <2>3. tx[n][f.sa] = t /\ f.sa = m
    BY <1>1, <2>1
  <2>4. inbox' = Sent(Received(n), n, g) /\ UNCHANGED <<rx, tx, status, delivered>>
    BY <1>2, <2>2, <2>3 DEF HearCts
  <2>5. /\ g \in Frame /\ g.kind = "DT" /\ g.sa = n /\ g.transfer = t /\ g.seq = f.seq
    BY <1>1, FrameTypes DEF Data
  <2> HIDE DEF g
  <2>6. Honest(m, g) /\ ~IsHeader(g)
    BY <2>1, <2>5 DEF Honest, Stream, IsHeader
  <2>7. Answers(n, m, t, g)
    BY <2>1, <2>4, <2>5, <2>6 DEF Answers
  <2> QED
    BY <2>5, <2>7
<1>6. CASE f.kind = "RTS"
  <2>1. /\ n = Dst[t] /\ m = Src[t]
        /\ \A j \in DOMAIN inbox[n] : j > 1 => ~Stream(inbox[n][j])
    BY <1>1, <1>6 DEF Stage
  <2>2. HearRts(n, f)
    BY <1>2, <1>6 DEF Handle, HearRts, HearBam, HearCts, HearEom, HearAbort, HearStrayDt,
                      HearWrongDt, HearNextDt, HearLastDt
  <2> DEFINE g == Control("CTS", n, m, t, 1)
  <2>3. /\ Opened(f) # NoSession /\ Opened(f).transfer = t /\ Opened(f).next = 1
    BY <1>1, OpenedType
  <2>4. /\ inbox' = Sent(Received(n), n, g) /\ UNCHANGED <<tx, status>>
        /\ rx' = [rx EXCEPT ![n][m] = Opened(f)]
    BY <1>1, <2>2, <2>3 DEF HearRts, Cts
  <2>5. /\ g \in Frame /\ g.kind = "CTS" /\ g.transfer = t /\ g.seq = 1
    <3>1. 1 \in Seq8
      BY TransferAssumption DEF Seq8
    <3> QED
      BY <1>1, <3>1, FrameTypes DEF Control
  <2> HIDE DEF g
  <2>6. Honest(m, g) /\ ~IsHeader(g)
    BY <2>1, <2>5 DEF Honest, Stream, IsHeader
  <2>7. Receiving(t, 1)'
    <3>1. rx'[n][m] = Opened(f)
      BY <1>2, <2>4 DEF TypeOK
    <3> QED
      BY <2>1, <2>3, <3>1 DEF Receiving
  <2>8. AloneBehind(n, t)
    <3>1. inbox[n] \in Seq(Frame)
      BY <1>2 DEF TypeOK
    <3>2. \A j \in DOMAIN inbox[n] : j # 1 => j > 1
      BY <3>1, QueueDomain
    <3> QED
      BY <2>1, <3>2 DEF AloneBehind
  <2>9. Answers(n, m, t, g)
    BY <2>1, <2>4, <2>5, <2>6, <2>7, <2>8 DEF Answers
  <2> QED
    BY <2>5, <2>9
<1>7. CASE f.kind = "DT"
  <2> DEFINE r == rx[n][m]
  <2>0. PICK a : a = Accepted(r, f)
    OBVIOUS
  <2>1. n = Dst[t] /\ m = Src[t] /\ Receiving(t, f.seq) /\ Alone(t)
    BY <1>1, <1>7 DEF Stage
  <2>2. r # NoSession /\ r.transfer = t /\ r.next = f.seq /\ r \in Session
    BY <1>2, <2>1 DEF Receiving, TypeOK
  <2>3. ~r.bam
    BY <2>1, <2>2, <1>1 DEF QuietInv, SessionsHonest
  <2>4. HearNextDt(n, f) \/ HearLastDt(n, f)
    BY <1>1, <1>2, <1>7, <2>2
       DEF Handle, HearRts, HearBam, HearCts, HearEom, HearAbort, HearStrayDt,
           HearWrongDt, Expected
  <2>5. /\ a # NoSession /\ a.transfer = t /\ ~a.bam /\ a \in Session
    <3>1. a # NoSession /\ a.transfer = t /\ a \in Session
      BY <1>1, <2>0, <2>2, AcceptedType
    <3> QED
      BY <2>0, <2>2, <2>3, <3>1 DEF Accepted, Session
  <2>6. CASE HearNextDt(n, f)
    <3> DEFINE g == Control("CTS", n, m, t, a.next)
    <3>1. /\ inbox' = Sent(Received(n), n, g) /\ UNCHANGED <<tx, status>>
          /\ rx' = [rx EXCEPT ![n][m] = a]
      BY <1>1, <2>0, <2>5, <2>6 DEF HearNextDt, Cts
    <3>2. /\ g \in Frame /\ g.kind = "CTS" /\ g.transfer = t /\ g.seq = a.next
      <4>1. a.next \in Seq8
        BY <2>5 DEF Session
      <4> QED
        BY <1>1, <4>1, FrameTypes DEF Control
    <3>3. Receiving(t, g.seq)'
      <4> HIDE DEF g, r
      <4>1. rx'[n][m] = a
        BY <1>2, <3>1 DEF TypeOK
      <4> QED
        BY <2>1, <2>5, <3>2, <4>1 DEF Receiving
    <3> HIDE DEF g, r
    <3>4. Honest(m, g) /\ ~IsHeader(g)
      BY <3>2 DEF Honest, Stream, IsHeader
    <3>5. AloneBehind(n, t)
      BY <2>1 DEF Alone, AloneBehind
    <3>6. Answers(n, m, t, g)
      BY <2>1, <3>1, <3>2, <3>3, <3>4, <3>5 DEF Answers
    <3> QED
      BY <3>2, <3>6
  <2>7. CASE HearLastDt(n, f)
    <3> DEFINE g == Control("EOM", n, m, t, 0)
               x == [transfer |-> t, data |-> a.data]
    <3>1. /\ inbox' = Sent(Received(n), n, g) /\ UNCHANGED <<tx, status>>
          /\ delivered' = [delivered EXCEPT ![n] = Append(@, x)]
      BY <1>1, <2>0, <2>5, <2>7 DEF HearLastDt
    <3>2. /\ g \in Frame /\ g.kind = "EOM" /\ g.transfer = t
      <4>1. 0 \in Seq8
        BY TransferAssumption DEF Seq8
      <4> QED
        BY <1>1, <4>1, FrameTypes DEF Control
    <3>3. Handed(n, t)'
      <4>1. x \in [transfer : Transfer, data : Seq(Chunk)] /\ x.transfer = t
        BY <1>1, <2>5 DEF Session
      <4> HIDE DEF x
      <4> QED
        BY <1>1, <1>2, <3>1, <4>1, HandedAppend
    <3> HIDE DEF g, r, x
    <3>4. Honest(m, g) /\ ~IsHeader(g)
      BY <3>2 DEF Honest, Stream, IsHeader
    <3>5. Answers(n, m, t, g)
      BY <2>1, <3>1, <3>2, <3>3, <3>4 DEF Answers
    <3> QED
      BY <3>2, <3>5
  <2> QED
    BY <2>4, <2>6, <2>7
<1> QED
  BY <1>3, <1>4, <1>5, <1>6, <1>7

(* Only a frame that its sender drives changes a session, the one with its *)
(* source; messages once handed over stay handed over.                     *)
LEMMA HearSessions ==
  ASSUME QuietInv, NEW n \in Node, NEW m \in Node, m # n, Node = {m, n}, RxFrame(n),
         NEW f, f = Head(inbox[n])
  PROVE  /\ \A k, s \in Node : rx'[k][s] # rx[k][s] => k = n /\ s = m /\ Stream(f)
         /\ \/ rx'[n][m] = rx[n][m] \/ rx'[n][m] = NoSession
            \/ IsHeader(f) /\ rx'[n][m] = Opened(f)
            \/ rx[n][m] # NoSession /\ rx'[n][m] = Accepted(rx[n][m], f)
         /\ IsHeader(f) => rx'[n][m] = Opened(f)
<1>1. /\ f.sa = m /\ Honest(n, f) /\ Handle(n, f) /\ TypeOK
  BY QuietHead DEF RxFrame, QuietInv, IntactInv
<1>2. f.kind # "ABORT"
  BY <1>1 DEF Honest
<1> USE <1>1, <1>2 DEF TypeOK, Stream, IsHeader
<1>3. CASE HearRts(n, f)
  BY <1>3 DEF HearRts
<1>4. CASE HearBam(n, f)
  BY <1>4 DEF HearBam
<1>5. CASE HearCts(n, f)
  BY <1>5 DEF HearCts
<1>6. CASE HearEom(n, f)
  BY <1>6 DEF HearEom
<1>7. CASE HearStrayDt(n, f)
  BY <1>7 DEF HearStrayDt
<1>8. CASE HearWrongDt(n, f)
  BY <1>8 DEF HearWrongDt
<1>9. CASE HearNextDt(n, f)
  BY <1>9 DEF HearNextDt
<1>10. CASE HearLastDt(n, f)
  BY <1>10 DEF HearLastDt
<1> QED
  BY <1>3, <1>4, <1>5, <1>6, <1>7, <1>8, <1>9, <1>10 DEF Handle, HearAbort

(* What a handler hands over was held, and is held no more.                *)
LEMMA HearHanded ==
  ASSUME QuietInv, NEW n \in Node, NEW m \in Node, m # n, Node = {m, n}, RxFrame(n)
  PROVE  \/ UNCHANGED delivered
         \/ \E r \in Session :
              /\ r = rx[n][m] /\ rx'[n][m] = NoSession /\ UNCHANGED status
              /\ \E d \in Seq(Chunk) :
                   delivered' = [delivered EXCEPT ![n] = Append(@, [transfer |-> r.transfer, data |-> d])]
<1> DEFINE f == Head(inbox[n])
           r == rx[n][m]
           a == Accepted(r, f)
<1>1. /\ f.sa = m /\ f \in Frame /\ Handle(n, f) /\ TypeOK /\ f.transfer \in Transfer
  BY QuietHead DEF RxFrame, QuietInv, IntactInv
<1> HIDE DEF f
<1>2. CASE HearLastDt(n, f)
  <2>1. /\ r # NoSession /\ rx' = [rx EXCEPT ![n][m] = NoSession]
        /\ delivered' = [delivered EXCEPT ![n] = Append(@, [transfer |-> a.transfer, data |-> a.data])]
        /\ UNCHANGED status
    BY <1>1, <1>2 DEF HearLastDt
  <2>2. r \in Session /\ rx'[n][m] = NoSession
    BY <1>1, <2>1 DEF TypeOK
  <2>3. a.transfer = r.transfer /\ a \in Session
    BY <1>1, <2>2, AcceptedType
  <2>4. a.data \in Seq(Chunk)
    BY <2>3 DEF Session
  <2> QED
    BY <2>1, <2>2, <2>3, <2>4
<1>3. CASE ~HearLastDt(n, f)
  BY <1>1, <1>3 DEF Handle, HearRts, HearBam, HearCts, HearEom, HearAbort, HearStrayDt,
                    HearWrongDt, HearNextDt
<1> QED
  BY <1>2, <1>3

LEMMA HearKeepsHanded ==
  ASSUME QuietInv, NEW n \in Node, NEW m \in Node, m # n, Node = {m, n}, RxFrame(n),
         NEW k \in Node, NEW u \in Transfer
  PROVE  /\ Handed(k, u) => Handed(k, u)'
         /\ Handed(k, u)' => \/ Handed(k, u)
                             \/ /\ k = n /\ rx[n][m] # NoSession /\ rx[n][m].transfer = u
                                /\ rx'[n][m] = NoSession
<1>1. CASE UNCHANGED delivered
  BY <1>1 DEF Handed
<1>2. ASSUME NEW r \in Session, r = rx[n][m], rx'[n][m] = NoSession, NEW d \in Seq(Chunk),
             delivered' = [delivered EXCEPT ![n] = Append(@, [transfer |-> r.transfer, data |-> d])]
      PROVE  /\ Handed(k, u) => Handed(k, u)'
             /\ Handed(k, u)' => \/ Handed(k, u)
                                 \/ /\ k = n /\ rx[n][m] # NoSession /\ rx[n][m].transfer = u
                                    /\ rx'[n][m] = NoSession
  <2> DEFINE x == [transfer |-> r.transfer, data |-> d]
  <2>1. x \in [transfer : Transfer, data : Seq(Chunk)] /\ x.transfer = r.transfer
    BY DEF Session
  <2>2. delivered' = [delivered EXCEPT ![n] = Append(@, x)]
    BY <1>2
  <2> HIDE DEF x
  <2>3. Handed(k, u)' <=> Handed(k, u) \/ (k = n /\ u = r.transfer)
    BY <2>1, <2>2, HandedAppend DEF QuietInv, IntactInv
  <2> QED
    BY <1>2, <2>1, <2>3, NoSessionAssumption
<1> QED
  BY <1>1, <1>2, HearHanded

(* The queues of a step that takes n's head and adds at most g at m.       *)
Taking(n) == [k \in Node |-> IF k = n THEN 1 ELSE 0]
Adding(m, G) == [k \in Node |-> IF k = m THEN G ELSE {}]

LEMMA HearQueues ==
  ASSUME TypeOK, NEW n \in Node, NEW m \in Node, m # n, Node = {m, n}, inbox[n] # <<>>,
         NEW G \in SUBSET Frame,
         \/ G = {} /\ inbox' = Received(n)
         \/ \E g \in Frame : G = {g} /\ inbox' = Sent(Received(n), n, g)
  PROVE  /\ Taking(n) \in [Node -> {0, 1}] /\ Adding(m, G) \in [Node -> SUBSET Frame]
         /\ \A k \in Node : Shifted(inbox[k], inbox'[k], Taking(n)[k], Adding(m, G)[k])
         /\ Taking(n)[n] = 1 /\ Taking(n)[m] = 0
         /\ Adding(m, G)[n] = {} /\ Adding(m, G)[m] = G
<1>1. /\ Taking(n) \in [Node -> {0, 1}] /\ Adding(m, G) \in [Node -> SUBSET Frame]
      /\ Taking(n)[n] = 1 /\ Taking(n)[m] = 0
      /\ Adding(m, G)[n] = {} /\ Adding(m, G)[m] = G
  BY DEF Taking, Adding
<1>2. Shifted(inbox[n], inbox'[n], 1, {}) /\ Shifted(inbox[m], inbox'[m], 0, G)
  <2>1. CASE G = {} /\ inbox' = Received(n)
    BY <2>1, ReceivedShifted
  <2>2. ASSUME NEW g \in Frame, G = {g}, inbox' = Sent(Received(n), n, g)
        PROVE  Shifted(inbox[n], inbox'[n], 1, {}) /\ Shifted(inbox[m], inbox'[m], 0, G)
    BY <2>2, RepliedShifted
  <2> QED
    BY <2>1, <2>2
<1> QED
  BY <1>1, <1>2

LEMMA SendQueues ==
  ASSUME TypeOK, NEW n \in Node, NEW m \in Node, m # n, Node = {m, n},
         NEW g \in Frame, inbox' = Sent(inbox, n, g)
  PROVE  /\ [k \in Node |-> 0] \in [Node -> {0, 1}]
         /\ Adding(m, {g}) \in [Node -> SUBSET Frame]
         /\ \A k \in Node : Shifted(inbox[k], inbox'[k], [x \in Node |-> 0][k], Adding(m, {g})[k])
         /\ \A k \in Node : [x \in Node |-> 0][k] = 0
         /\ Adding(m, {g})[n] = {} /\ Adding(m, {g})[m] = {g}
<1>1. /\ [k \in Node |-> 0] \in [Node -> {0, 1}]
      /\ Adding(m, {g}) \in [Node -> SUBSET Frame]
      /\ \A k \in Node : [x \in Node |-> 0][k] = 0
      /\ Adding(m, {g})[n] = {} /\ Adding(m, {g})[m] = {g}
  BY DEF Adding
<1>2. Shifted(inbox[n], inbox'[n], 0, {}) /\ Shifted(inbox[m], inbox'[m], 0, {g})
  BY SentShifted
<1> QED
  BY <1>1, <1>2

(* What n sends in answer to a frame of t is of t, and drives t only if n  *)
(* is its sender; no other session is touched.                             *)
Drives(n, t, G) ==
  \A g \in G : g.transfer = t /\ (Stream(g) => n = Src[t] /\ status[t] = "rts")

TxKept(t) ==
  \A s, d \in Node : tx'[s][d] # tx[s][d] => s = Src[t] /\ status[t] = "rts"

(* The other dialogues go on when n takes a frame of t.                    *)
LEMMA HearOthers ==
  ASSUME QuietInv, TypeOK', NEW n \in Node, NEW m \in Node, m # n, Node = {m, n}, RxFrame(n),
         NEW f, f = Head(inbox[n]), NEW t, t = f.transfer,
         NEW G \in SUBSET Frame,
         \/ G = {} /\ inbox' = Received(n)
         \/ \E g \in Frame : G = {g} /\ inbox' = Sent(Received(n), n, g),
         Drives(n, t, G), TxKept(t),
         NEW u \in Transfer, u # t, Unicast(u), status'[u] = status[u]
  PROVE  Dialogue(u)'
<1>1. /\ TypeOK /\ OneBusy /\ inbox[n] # <<>> /\ Dialogue(u)
  BY DEF QuietInv, IntactInv, RxFrame, DialogueInv
<1>2. /\ f = inbox[n][1] /\ 1 \in DOMAIN inbox[n] /\ t \in Transfer
  BY <1>1, QuietHead
<1>3. PICK c \in [Node -> {0, 1}], added \in [Node -> SUBSET Frame] :
        /\ \A k \in Node : Shifted(inbox[k], inbox'[k], c[k], added[k])
        /\ c[n] = 1 /\ c[m] = 0 /\ added[n] = {} /\ added[m] = G
  <2> DEFINE c == Taking(n)
             added == Adding(m, G)
  <2>1. /\ c \in [Node -> {0, 1}] /\ added \in [Node -> SUBSET Frame]
        /\ \A k \in Node : Shifted(inbox[k], inbox'[k], c[k], added[k])
        /\ c[n] = 1 /\ c[m] = 0 /\ added[n] = {} /\ added[m] = G
    BY <1>1, HearQueues
  <2> HIDE DEF c, added
  <2> QED
    BY <2>1
<1>4. \A k \in Node : \A g \in added[k] : g.transfer # u
  BY <1>3 DEF Drives
<1>5. CASE status[u] # "rts"
  <2>1. Silent(u)
    BY <1>1, <1>5 DEF Dialogue
  <2>2. Silent(u)'
    BY <1>3, <1>4, <2>1, SilentKept
  <2> QED
    BY <1>5, <2>2 DEF Dialogue
<1>6. CASE status[u] = "rts" /\ Stalled(u)
  <2>1. Silent(u)'
    BY <1>3, <1>4, <1>6, SilentKept DEF Stalled
  <2>2. Src[u] \in Node /\ Dst[u] \in Node
    BY TransferAssumption DEF Unicast
  <2>3. tx'[Src[u]][Dst[u]] = tx[Src[u]][Dst[u]]
    BY <1>1, <1>2, <1>6, <2>2 DEF OneBusy, Busy, TxKept
  <2>4. losses' = losses
    BY DEF RxFrame
  <2> QED
    BY <1>6, <2>1, <2>3, <2>4 DEF Dialogue, Stalled
<1>7. CASE status[u] = "rts" /\ Open(u)
  <2>1. Open(u) /\ status[u] = "rts"
    BY <1>7
  <2>2. Src[u] \in Node /\ Dst[u] \in Node /\ Src[u] # Dst[u]
    BY TransferAssumption DEF Unicast
  <2>3. ~(Src[u] = Src[t] /\ status[t] = "rts")
    BY <1>1, <1>2, <1>7 DEF OneBusy, Busy
  <2>4. tx'[Src[u]][Dst[u]] = tx[Src[u]][Dst[u]]
    BY <2>2, <2>3 DEF TxKept
  <2>5. ASSUME Alone(u) PROVE rx'[Dst[u]][Src[u]] = rx[Dst[u]][Src[u]]
    <3>1. Dst[u] = n /\ Stream(f) => f.transfer = u
      BY <1>2, <2>5 DEF Alone
    <3> QED
      BY <2>2, <3>1, HearSessions
  <2>6. Handed(Dst[u], u) => Handed(Dst[u], u)'
    BY <2>2, HearKeepsHanded
  <2>7. \A k \in Node :
          /\ Shifted(inbox[k], inbox'[k], c[k], added[k])
          /\ c[k] = 1 => inbox[k] # <<>> /\ Head(inbox[k]).transfer # u
          /\ \A g \in added[k] : g.transfer # u /\ (k = Dst[u] => ~Stream(g))
    BY <1>1, <1>3, <1>4, <2>2, <2>3 DEF Drives
  <2>8. Open(u)'
    BY <1>1, <2>1, <2>4, <2>5, <2>6, <2>7, OpenKept
  <2> QED
    BY <1>7, <2>8 DEF Dialogue
<1> QED
  BY <1>1, <1>5, <1>6, <1>7 DEF Dialogue

(* The dialogue whose frame n takes goes on, or is over.                   *)
LEMMA HearOwn ==
  ASSUME QuietInv, TypeOK', NEW n \in Node, NEW m \in Node, m # n, Node = {m, n}, RxFrame(n),
         NEW t, t = Head(inbox[n]).transfer, Unicast(t),
         NEW G \in SUBSET Frame,
         \/ G = {} /\ Ends(n, m, t)
         \/ \E g \in Frame : G = {g} /\ Answers(n, m, t, g)
  PROVE  Dialogue(t)'
<1>1. /\ TypeOK /\ inbox[n] # <<>> /\ t \in Transfer
      /\ status[t] = "rts" /\ tx[Src[t]][Dst[t]] = t /\ Sole(t, n, 1)
      /\ inbox[n] \in Seq(Frame)
  BY QuietHead DEF QuietInv, IntactInv, RxFrame, TypeOK
<1>2. \/ G = {} /\ inbox' = Received(n)
      \/ \E g \in Frame : G = {g} /\ inbox' = Sent(Received(n), n, g)
  BY DEF Ends, Answers
<1>3. PICK c \in [Node -> {0, 1}], added \in [Node -> SUBSET Frame] :
        /\ \A k \in Node : Shifted(inbox[k], inbox'[k], c[k], added[k])
        /\ c[n] = 1 /\ c[m] = 0 /\ added[n] = {} /\ added[m] = G
  <2> DEFINE c == Taking(n)
             added == Adding(m, G)
  <2>1. /\ c \in [Node -> {0, 1}] /\ added \in [Node -> SUBSET Frame]
        /\ \A k \in Node : Shifted(inbox[k], inbox'[k], c[k], added[k])
        /\ c[n] = 1 /\ c[m] = 0 /\ added[n] = {} /\ added[m] = G
    BY <1>1, <1>2, HearQueues
  <2> HIDE DEF c, added
  <2> QED
    BY <2>1
<1>4. Moved(c, added) /\ TakenBy(t, c)
  BY <1>1, <1>3 DEF Sole, Moved, TakenBy
<1>5. CASE G = {} /\ Ends(n, m, t)
  <2>1. status'[t] = "ok"
    BY <1>1, <1>5 DEF Ends, TypeOK
  <2>2. Silent(t)'
    <3>1. \A k \in Node : \A g \in added[k] : g.transfer # t
      BY <1>3, <1>5
    <3> QED
      BY <1>1, <1>3, <1>4, <3>1, TakenSilent
  <2> QED
    BY <2>1, <2>2 DEF Dialogue
<1>6. ASSUME NEW g \in Frame, G = {g}, Answers(n, m, t, g)
      PROVE  Dialogue(t)'
  <2>1. /\ inbox' = Sent(Received(n), n, g) /\ g.transfer = t /\ UNCHANGED <<tx, status>>
    BY <1>6 DEF Answers
  <2>2. inbox'[n] = Tail(inbox[n]) /\ inbox'[m] = Append(inbox[m], g)
    BY <1>1, <2>1, RepliedShifted
  <2>3. PICK l \in Nat : l = Len(inbox[m]) + 1
    <3>1. inbox[m] \in Seq(Frame)
      BY <1>1 DEF TypeOK
    <3> QED
      BY <3>1, LenProperties
  <2>4. Sole(t, m, l)' /\ l \in DOMAIN inbox'[m] /\ inbox'[m][l] = g
    <3>1. OnlyAt(m, added)
      BY <1>3 DEF OnlyAt
    <3>2. /\ TypeOK /\ t \in Transfer /\ Put(m, g, l) /\ c[m] = 0
          /\ g.transfer = t /\ l \in Nat
          /\ c \in [Node -> {0, 1}] /\ added \in [Node -> SUBSET Frame]
      BY <1>1, <1>3, <2>1, <2>2, <2>3 DEF Put
    <3> QED
      BY <1>4, <3>1, <3>2, TakenSole
  <2>5. Stage(t, m, l)'
    <3>1. CASE /\ g.kind = "DT" /\ n = Src[t] /\ m = Dst[t]
               /\ Receiving(t, g.seq) /\ Alone(t) /\ UNCHANGED <<rx, delivered>>
      <4>1. Receiving(t, g.seq)'
        BY <3>1 DEF Receiving
      <4>2. Alone(t)'
        <5> SUFFICES ASSUME NEW j \in DOMAIN inbox'[m], Stream(inbox'[m][j])
                     PROVE  inbox'[m][j].transfer = t
          BY <3>1 DEF Alone, Stream
        <5>1. \/ j + c[m] \in DOMAIN inbox[m] /\ inbox'[m][j] = inbox[m][j + c[m]]
              \/ inbox'[m][j] \in added[m]
          BY <1>3 DEF Shifted
        <5> QED
          BY <1>3, <1>6, <2>1, <3>1, <5>1 DEF Alone
      <4> QED
        BY <2>4, <3>1, <4>1, <4>2 DEF Stage
    <3>2. CASE /\ g.kind = "CTS" /\ n = Dst[t] /\ m = Src[t]
               /\ Receiving(t, g.seq)' /\ AloneBehind(n, t)
      <4>1. Alone(t)'
        <5> SUFFICES ASSUME NEW j \in DOMAIN inbox'[n], Stream(inbox'[n][j])
                     PROVE  inbox'[n][j].transfer = t
          BY <3>2 DEF Alone, Stream
        <5>1. j + 1 \in DOMAIN inbox[n] /\ inbox'[n][j] = inbox[n][j + 1]
          BY <1>3 DEF Shifted
        <5>2. j + 1 # 1
          <6>1. inbox'[n] \in Seq(Frame)
            BY DEF TypeOK
          <6>2. j \in Nat /\ j >= 1
            BY <6>1, QueueDomain
          <6> QED
            BY <6>2
        <5> QED
          BY <3>2, <5>1, <5>2 DEF AloneBehind
      <4> QED
        BY <2>4, <3>2, <4>1 DEF Stage
    <3>3. CASE g.kind = "EOM" /\ n = Dst[t] /\ m = Src[t] /\ Handed(n, t)'
      BY <2>4, <3>3 DEF Stage
    <3> QED
      BY <1>6, <3>1, <3>2, <3>3 DEF Answers
  <2>6. tx'[Src[t]][Dst[t]] = t /\ status'[t] = "rts"
    BY <1>1, <2>1
  <2> QED
    BY <2>4, <2>5, <2>6 DEF Dialogue, Open
<1> QED
  BY <1>5, <1>6

LEMMA HearDialogues ==
  ASSUME QuietInv, TypeOK', NEW n \in Node, NEW m \in Node, m # n, Node = {m, n}, RxFrame(n)
  PROVE  DialogueInv'
<1>1. PICK f : f = Head(inbox[n])
  OBVIOUS
<1>2. PICK t : t = f.transfer
  OBVIOUS
<1>3. /\ TypeOK /\ inbox[n] # <<>> /\ t \in Transfer
      /\ Unicast(t) => status[t] = "rts"
  BY <1>1, <1>2, QuietHead DEF QuietInv, IntactInv, RxFrame
<1> SUFFICES ASSUME NEW u \in Transfer, Unicast(u) PROVE Dialogue(u)'
  BY DEF DialogueInv, Unicast
<1>4. CASE ~Unicast(t)
  <2>1. inbox' = Received(n) /\ UNCHANGED <<tx, status>>
    BY <1>1, <1>2, <1>4, HearBroadcast
  <2>2. u # t
    BY <1>4
  <2> DEFINE G == {}
  <2>3. /\ G \in SUBSET Frame /\ G = {} /\ status'[u] = status[u]
        /\ Drives(n, t, G) /\ TxKept(t)
    BY <2>1 DEF Drives, TxKept
  <2> HIDE DEF G
  <2> QED
    BY <1>1, <1>2, <2>1, <2>2, <2>3, HearOthers
<1>5. CASE Unicast(t) /\ Ends(n, m, t)
  <2>1. /\ n = Src[t] /\ inbox' = Received(n)
        /\ \A s, d \in Node : tx'[s][d] # tx[s][d] => s = n
        /\ \A x \in Transfer : x # t => status'[x] = status[x]
    BY <1>3, <1>5 DEF Ends, TypeOK
  <2> DEFINE G == {}
  <2>2. G \in SUBSET Frame /\ G = {} /\ \A g \in G : FALSE
    OBVIOUS
  <2> HIDE DEF G
  <2>3. CASE u = t
    <3>1. t = Head(inbox[n]).transfer
      BY <1>1, <1>2
    <3>2. Dialogue(t)'
      BY <1>5, <2>2, <3>1, HearOwn
    <3> QED
      BY <2>3, <3>2
  <2>4. CASE u # t
    <3>1. Drives(n, t, G) /\ TxKept(t) /\ status'[u] = status[u] /\ inbox' = Received(n)
      BY <1>3, <1>5, <2>1, <2>2, <2>4 DEF Drives, TxKept
    <3> QED
      BY <1>1, <1>2, <2>2, <2>4, <3>1, HearOthers
  <2> QED
    BY <2>3, <2>4
<1>6. ASSUME Unicast(t), NEW g \in Frame, Answers(n, m, t, g)
      PROVE  Dialogue(u)'
  <2>1. /\ inbox' = Sent(Received(n), n, g) /\ UNCHANGED <<tx, status>> /\ g.transfer = t
        /\ Stream(g) => n = Src[t]
    BY <1>6 DEF Answers, Stream
  <2> DEFINE G == {g}
  <2>2. /\ G \in SUBSET Frame /\ \A x \in G : x = g
        /\ \E x \in Frame : G = {x} /\ Answers(n, m, t, x)
        /\ \E x \in Frame : G = {x} /\ inbox' = Sent(Received(n), n, x)
    BY <1>6, <2>1
  <2> HIDE DEF G
  <2>3. CASE u = t
    <3>1. t = Head(inbox[n]).transfer
      BY <1>1, <1>2
    <3>2. Dialogue(t)'
      BY <1>6, <2>2, <3>1, HearOwn
    <3> QED
      BY <2>3, <3>2
  <2>4. CASE u # t
    <3>1. Drives(n, t, G) /\ TxKept(t) /\ status'[u] = status[u]
      BY <1>3, <1>6, <2>1, <2>2 DEF Drives, TxKept
    <3> QED
      BY <1>1, <1>2, <2>2, <2>4, <3>1, HearOthers
  <2> QED
    BY <2>3, <2>4
<1> QED
  BY <1>1, <1>2, <1>4, <1>5, <1>6, HearUnicast

(* What the frames and sessions say of their transfers.                    *)
LEMMA HearHonest ==
  ASSUME QuietInv, TypeOK', NEW n \in Node, NEW m \in Node, m # n, Node = {m, n}, RxFrame(n)
  PROVE  FramesHonest' /\ SessionsHonest' /\ KindsFit'
<1>1. PICK f : f = Head(inbox[n])
  OBVIOUS
<1>2. PICK t : t = f.transfer
  OBVIOUS
<1>3. /\ TypeOK /\ inbox[n] # <<>> /\ t \in Transfer /\ f \in Frame /\ f.sa = m /\ Honest(n, f)
      /\ FramesHonest /\ SessionsHonest /\ KindsFit
  BY <1>1, <1>2, QuietHead DEF QuietInv, IntactInv, RxFrame
<1>4. PICK G \in SUBSET Frame :
        /\ \A g \in G : Honest(m, g)
        /\ \/ G = {} /\ inbox' = Received(n)
           \/ \E g \in Frame : G = {g} /\ inbox' = Sent(Received(n), n, g)
  <2>1. CASE inbox' = Received(n)
    BY <2>1
  <2>2. ASSUME NEW g \in Frame, Answers(n, m, t, g)
        PROVE  \E G \in SUBSET Frame :
                 /\ \A x \in G : Honest(m, x)
                 /\ \E x \in Frame : G = {x} /\ inbox' = Sent(Received(n), n, x)
    <3>1. {g} \in SUBSET Frame /\ Honest(m, g) /\ inbox' = Sent(Received(n), n, g)
      BY <2>2 DEF Answers
    <3> QED
      BY <3>1
  <2> QED
    BY <1>1, <1>2, <2>1, <2>2, HearBroadcast, HearUnicast DEF Ends
<1>5. FramesHonest'
  <2> DEFINE c == Taking(n)
             added == Adding(m, G)
  <2>1. /\ \A k \in Node : Shifted(inbox[k], inbox'[k], c[k], added[k])
        /\ added[n] = {} /\ added[m] = G
    BY <1>3, <1>4, HearQueues
  <2> HIDE DEF c, added
  <2> SUFFICES ASSUME NEW k \in Node, NEW j \in DOMAIN inbox'[k]
               PROVE  Honest(k, inbox'[k][j])
    BY DEF FramesHonest, Honest, Stream, Unicast
  <2>2. \/ j + c[k] \in DOMAIN inbox[k] /\ inbox'[k][j] = inbox[k][j + c[k]]
        \/ inbox'[k][j] \in added[k]
    BY <2>1 DEF Shifted
  <2> QED
    BY <1>3, <1>4, <2>1, <2>2 DEF FramesHonest
<1>6. SessionsHonest'
  <2> SUFFICES ASSUME NEW k \in Node, NEW s \in Node, rx'[k][s] # NoSession
               PROVE  /\ k # s /\ s = Src[rx'[k][s].transfer]
                      /\ rx'[k][s].bam = ~Unicast(rx'[k][s].transfer)
    BY DEF SessionsHonest, Unicast
  <2>1. CASE rx'[k][s] = rx[k][s]
    BY <1>3, <2>1 DEF SessionsHonest
  <2>2. CASE rx'[k][s] # rx[k][s]
    <3>1. k = n /\ s = m /\ Stream(f)
      BY <1>1, <2>2, HearSessions
    <3>2. Src[t] = m
      BY <1>2, <1>3, <3>1 DEF Honest
    <3>3. CASE IsHeader(f) /\ rx'[n][m] = Opened(f)
      <4>1. (f.kind = "BAM") = ~Unicast(t)
        BY <1>2, <1>3, <3>3 DEF Honest, IsHeader
      <4> QED
        BY <1>2, <3>1, <3>2, <3>3, <4>1 DEF Opened
    <3>4. CASE rx[n][m] # NoSession /\ rx'[n][m] = Accepted(rx[n][m], f)
      <4>1. rx[n][m] \in Session
        BY <1>3, <3>4 DEF TypeOK
      <4>2. rx'[n][m].transfer = rx[n][m].transfer /\ rx'[n][m].bam = rx[n][m].bam
        BY <3>4, <4>1 DEF Accepted, Session
      <4> QED
        BY <1>3, <3>1, <3>4, <4>2 DEF SessionsHonest
    <3> QED
      BY <1>1, <2>2, <3>1, <3>3, <3>4, HearSessions
  <2> QED
    BY <2>1, <2>2
<1>7. KindsFit'
  <2>1. \A u \in Transfer : status'[u] = status[u] \/ status'[u] = "ok"
    BY <1>1, <1>2, <1>3, HearBroadcast, HearUnicast DEF Ends, Answers, TypeOK
  <2> QED
    BY <1>3, <2>1 DEF KindsFit, Unicast
<1> QED
  BY <1>5, <1>6, <1>7

(* A node goes on to hear of a transfer once.                              *)
LEMMA AnnouncedKept ==
  ASSUME TypeOK', NEW n \in Node, NEW t \in Transfer, NEW c \in {0, 1}, NEW A,
         Shifted(inbox[n], inbox'[n], c, A),
         \A g \in A : IsHeader(g) => g.transfer # t,
         NEW i, i \in Announced(n, t)'
  PROVE  i + c \in Announced(n, t) /\ i \in Nat /\ i >= 1
<1>1. i \in DOMAIN inbox'[n] /\ IsHeader(inbox'[n][i]) /\ inbox'[n][i].transfer = t
  BY DEF Announced, IsHeader
<1>2. i + c \in DOMAIN inbox[n] /\ inbox'[n][i] = inbox[n][i + c]
  BY <1>1 DEF Shifted
<1>3. inbox'[n] \in Seq(Frame)
  BY DEF TypeOK
<1>4. i \in Nat /\ i >= 1
  BY <1>1, <1>3, QueueDomain
<1> QED
  BY <1>1, <1>2, <1>4 DEF Announced

LEMMA OnceKept ==
  ASSUME TypeOK', NEW n \in Node, NEW t \in Transfer, Once(n, t), NEW c \in {0, 1}, NEW A,
         Shifted(inbox[n], inbox'[n], c, A),
         \A g \in A : IsHeader(g) => g.transfer # t,
         Held(n, t)' => Held(n, t), Handed(n, t)' => Handed(n, t),
         Unsent(t)' => Unsent(t)
  PROVE  Once(n, t)'
<1>1. \A i \in Announced(n, t)' : i + c \in Announced(n, t) /\ i \in Nat
  BY AnnouncedKept
<1>2. ASSUME NEW i \in Announced(n, t)', NEW j \in Announced(n, t)' PROVE i = j
  <2>1. i + c = j + c
    BY <1>1 DEF Once
  <2> QED
    BY <1>1, <2>1
<1>3. Announced(n, t)' # {} => Announced(n, t) # {}
  BY <1>1
<1> QED
  BY <1>2, <1>3 DEF Once

LEMMA HearOnce ==
  ASSUME QuietInv, TypeOK', SessionsHonest',
         NEW n \in Node, NEW m \in Node, m # n, Node = {m, n}, RxFrame(n)
  PROVE  OnceInv'
<1>1. PICK f : f = Head(inbox[n])
  OBVIOUS
<1>2. PICK t : t = f.transfer
  OBVIOUS
<1>3. /\ TypeOK /\ inbox[n] # <<>> /\ t \in Transfer /\ f \in Frame /\ f.sa = m
      /\ f = inbox[n][1] /\ 1 \in DOMAIN inbox[n] /\ OnceInv
  BY <1>1, <1>2, QuietHead DEF QuietInv, IntactInv, RxFrame
<1>4. PICK G \in SUBSET Frame :
        /\ \A g \in G : ~IsHeader(g)
        /\ \/ G = {} /\ inbox' = Received(n)
           \/ \E g \in Frame : G = {g} /\ inbox' = Sent(Received(n), n, g)
  <2>1. CASE inbox' = Received(n)
    BY <2>1
  <2>2. ASSUME NEW g \in Frame, Answers(n, m, t, g)
        PROVE  \E H \in SUBSET Frame :
                 /\ \A x \in H : ~IsHeader(x)
                 /\ \E x \in Frame : H = {x} /\ inbox' = Sent(Received(n), n, x)
    <3>1. {g} \in SUBSET Frame /\ ~IsHeader(g) /\ inbox' = Sent(Received(n), n, g)
      BY <2>2 DEF Answers
    <3> QED
      BY <3>1
  <2> QED
    BY <1>1, <1>2, <2>1, <2>2, HearBroadcast, HearUnicast DEF Ends
<1>5. Shifted(inbox[n], inbox'[n], 1, {}) /\ Shifted(inbox[m], inbox'[m], 0, G)
  <2> DEFINE c == Taking(n)
             added == Adding(m, G)
  <2>1. /\ \A k \in Node : Shifted(inbox[k], inbox'[k], c[k], added[k])
        /\ c[n] = 1 /\ c[m] = 0 /\ added[n] = {} /\ added[m] = G
    BY <1>3, <1>4, HearQueues
  <2> HIDE DEF c, added
  <2> QED
    BY <2>1
<1>6. \A u \in Transfer : Unsent(u)' => Unsent(u)
  <2>1. \A u \in Transfer : status'[u] = status[u] \/ status'[u] = "ok"
    BY <1>1, <1>2, <1>3, HearBroadcast, HearUnicast DEF Ends, Answers, TypeOK
  <2> QED
    BY <2>1 DEF Unsent
<1> SUFFICES ASSUME NEW k \in Node, NEW u \in Transfer PROVE Once(k, u)'
  BY DEF OnceInv
<1>7. Once(k, u)
  BY <1>3 DEF OnceInv
<1>8. CASE k = m
  <2>1. Held(m, u)' => Held(m, u)
    <3>1. \A s \in Node : rx'[m][s] = rx[m][s]
      BY <1>1, HearSessions
    <3> QED
      BY <3>1 DEF Held
  <2>2. Handed(m, u)' => Handed(m, u)
    BY HearKeepsHanded
  <2>3. \A g \in G : IsHeader(g) => g.transfer # u
    BY <1>4
  <2>4. 0 \in {0, 1}
    OBVIOUS
  <2> QED
    BY <1>5, <1>6, <1>7, <1>8, <2>1, <2>2, <2>3, <2>4, OnceKept
<1>9. CASE k = n
  <2> DEFINE r == rx[n][m]
  <2>1. \A s \in Node : s # m => rx'[n][s] = rx[n][s]
    BY <1>1, HearSessions
  <2>2. /\ \/ rx'[n][m] = r \/ rx'[n][m] = NoSession
           \/ IsHeader(f) /\ rx'[n][m] = Opened(f)
           \/ r # NoSession /\ rx'[n][m] = Accepted(r, f)
        /\ IsHeader(f) => rx'[n][m] = Opened(f)
    BY <1>1, HearSessions
  <2>3. Opened(f) # NoSession /\ Opened(f).transfer = t
    BY <1>2, <1>3, OpenedType
  <2>4. r # NoSession => r \in Session /\ Accepted(r, f).transfer = r.transfer
    <3>1. r # NoSession => r \in Session
      BY <1>3 DEF TypeOK
    <3> QED
      BY <1>2, <1>3, <3>1, AcceptedType
  <2>5. \A i \in Announced(n, u)' : i + 1 \in Announced(n, u) /\ i \in Nat /\ i >= 1
    <3>1. 1 \in {0, 1} /\ \A g \in {} : IsHeader(g) => g.transfer # u
      OBVIOUS
    <3> QED
      BY <1>5, <3>1, AnnouncedKept
  <2>6. Handed(n, u)' => \/ Handed(n, u)
                         \/ r # NoSession /\ r.transfer = u /\ rx'[n][m] = NoSession
    BY HearKeepsHanded
  <2>7. Held(n, u)' => Held(n, u) \/ (IsHeader(f) /\ u = t)
    <3> SUFFICES ASSUME NEW s \in Node, rx'[n][s] # NoSession, rx'[n][s].transfer = u
                 PROVE  Held(n, u) \/ (IsHeader(f) /\ u = t)
      BY DEF Held
    <3>1. CASE s # m
      BY <2>1, <3>1 DEF Held
    <3>2. CASE s = m
      BY <2>2, <2>3, <2>4, <3>2 DEF Held
    <3> QED
      BY <3>1, <3>2
  <2>8. CASE r # NoSession /\ r.transfer = u /\ rx'[n][m] = NoSession
    <3>1. Held(n, u)
      BY <2>8 DEF Held
    <3>2. Announced(n, u) = {} /\ ~Unsent(u)
      BY <1>7, <1>9, <3>1 DEF Once
    <3>3. Announced(n, u)' = {}
      BY <2>5, <3>2
    <3>4. ~Held(n, u)'
      <4> SUFFICES ASSUME NEW s \in Node, rx'[n][s] # NoSession PROVE FALSE
        BY DEF Held
      <4> QED
        BY <2>8 DEF SessionsHonest
    <3> QED
      BY <1>6, <1>9, <3>2, <3>3, <3>4 DEF Once
  <2>9. CASE IsHeader(f) /\ u = t
    <3>1. 1 \in Announced(n, u)
      BY <1>2, <1>3, <2>9 DEF Announced
    <3>2. ~Handed(n, u) /\ ~Unsent(u)
      BY <1>7, <1>9, <3>1 DEF Once
    <3>3. Announced(n, u)' = {}
      <4> SUFFICES ASSUME NEW i \in Announced(n, u)' PROVE FALSE
        OBVIOUS
      <4>1. i + 1 = 1
        BY <1>7, <1>9, <2>5, <3>1 DEF Once
      <4> QED
        BY <2>5, <4>1
    <3>4. ~Handed(n, u)'
      BY <2>2, <2>3, <2>6, <2>9, <3>2
    <3> QED
      BY <1>6, <1>9, <3>2, <3>3, <3>4 DEF Once
  <2>10. CASE ~(IsHeader(f) /\ u = t) /\ ~(r # NoSession /\ r.transfer = u /\ rx'[n][m] = NoSession)
    <3>1. \A g \in {} : IsHeader(g) => g.transfer # u
      OBVIOUS
    <3>2. 1 \in {0, 1}
      OBVIOUS
    <3>3. (Held(n, u)' => Held(n, u)) /\ (Handed(n, u)' => Handed(n, u))
      BY <2>6, <2>7, <2>10
    <3> QED
      BY <1>5, <1>6, <1>7, <1>9, <3>1, <3>2, <3>3, OnceKept
  <2> QED
    BY <2>8, <2>9, <2>10
<1> QED
  BY <1>8, <1>9

(* The other dialogues go on when n sends a frame of its own transfer t.   *)
LEMMA SendOthers ==
  ASSUME QuietInv, TypeOK', NEW n \in Node, NEW m \in Node, m # n, Node = {m, n},
         NEW t \in Transfer, Src[t] = n, NEW g \in Frame, g.transfer = t,
         inbox' = Sent(inbox, n, g), UNCHANGED <<rx, delivered>>,
         \A s, d \in Node : tx'[s][d] # tx[s][d] => s = n, losses' = losses,
         NEW u \in Transfer, u # t, Unicast(u), status'[u] = status[u],
         Src[u] = n => ~Busy(u)
  PROVE  Dialogue(u)'
<1>1. TypeOK /\ Dialogue(u)
  BY DEF QuietInv, IntactInv, DialogueInv
<1>2. PICK c \in [Node -> {0, 1}], added \in [Node -> SUBSET Frame] :
        /\ \A k \in Node : Shifted(inbox[k], inbox'[k], c[k], added[k])
        /\ \A k \in Node : c[k] = 0
        /\ added[n] = {} /\ added[m] = {g}
  <2> DEFINE c == [k \in Node |-> 0]
             added == Adding(m, {g})
  <2>1. /\ c \in [Node -> {0, 1}] /\ added \in [Node -> SUBSET Frame]
        /\ \A k \in Node : Shifted(inbox[k], inbox'[k], c[k], added[k])
        /\ \A k \in Node : c[k] = 0
        /\ added[n] = {} /\ added[m] = {g}
    BY <1>1, SendQueues
  <2> HIDE DEF c, added
  <2> QED
    BY <2>1
<1>3. \A k \in Node : \A h \in added[k] : h.transfer # u
  BY <1>2
<1>4. CASE status[u] # "rts"
  <2>1. Silent(u)
    BY <1>1, <1>4 DEF Dialogue
  <2>2. Silent(u)'
    BY <1>2, <1>3, <2>1, SilentKept
  <2> QED
    BY <1>4, <2>2 DEF Dialogue
<1>5. CASE status[u] = "rts"
  <2>1. CASE Stalled(u)
    <3>1. Silent(u)'
      BY <1>2, <1>3, <2>1, SilentKept DEF Stalled
    <3>2. Src[u] \in Node /\ Dst[u] \in Node /\ Src[u] # n
      BY <1>5, TransferAssumption DEF Unicast, Busy
    <3> QED
      BY <1>5, <2>1, <3>1, <3>2 DEF Dialogue, Stalled
  <2>2. Src[u] = m /\ Dst[u] = n
    <3>1. Src[u] \in Node /\ Dst[u] \in Node /\ Src[u] # Dst[u]
      BY TransferAssumption DEF Unicast
    <3> QED
      BY <1>5, <3>1 DEF Busy
  <2>3. /\ tx'[Src[u]][Dst[u]] = tx[Src[u]][Dst[u]]
        /\ rx'[Dst[u]][Src[u]] = rx[Dst[u]][Src[u]]
        /\ Handed(Dst[u], u) => Handed(Dst[u], u)'
    BY <2>2 DEF Handed
  <2>4. \A k \in Node :
          /\ Shifted(inbox[k], inbox'[k], c[k], added[k])
          /\ c[k] = 1 => inbox[k] # <<>> /\ Head(inbox[k]).transfer # u
          /\ \A h \in added[k] : h.transfer # u /\ (k = Dst[u] => ~Stream(h))
    BY <1>2, <1>3, <2>2
  <2>5. ASSUME Open(u) PROVE Open(u)'
    BY <1>1, <2>3, <2>4, <2>5, OpenKept
  <2> QED
    BY <1>1, <1>5, <2>1, <2>5 DEF Dialogue
<1> QED
  BY <1>4, <1>5

LEMMA SendHonest ==
  ASSUME QuietInv, NEW n \in Node, NEW m \in Node, m # n, Node = {m, n},
         NEW g \in Frame, Honest(m, g), inbox' = Sent(inbox, n, g), UNCHANGED rx
  PROVE  FramesHonest' /\ SessionsHonest'
<1>1. TypeOK /\ FramesHonest /\ SessionsHonest
  BY DEF QuietInv, IntactInv
<1>2. Shifted(inbox[n], inbox'[n], 0, {}) /\ Shifted(inbox[m], inbox'[m], 0, {g})
  BY <1>1, SentShifted
<1>3. FramesHonest'
  <2> SUFFICES ASSUME NEW k \in Node, NEW j \in DOMAIN inbox'[k]
               PROVE  Honest(k, inbox'[k][j])
    BY DEF FramesHonest, Honest, Stream, Unicast
  <2>1. \/ j + 0 \in DOMAIN inbox[k] /\ inbox'[k][j] = inbox[k][j + 0]
        \/ k = m /\ inbox'[k][j] = g
    BY <1>2 DEF Shifted
  <2> QED
    BY <1>1, <2>1 DEF FramesHonest
<1>4. SessionsHonest'
  BY <1>1 DEF SessionsHonest, Unicast
<1> QED
  BY <1>3, <1>4

LEMMA SendOnce ==
  ASSUME QuietInv, TypeOK', NEW n \in Node, NEW m \in Node, m # n, Node = {m, n},
         NEW t \in Transfer, NEW g \in Frame, g.transfer = t, inbox' = Sent(inbox, n, g),
         UNCHANGED <<rx, delivered>>, ~Unsent(t)',
         IsHeader(g) => Unsent(t),
         \A u \in Transfer : Unsent(u)' => Unsent(u)
  PROVE  OnceInv'
<1>1. TypeOK /\ OnceInv
  BY DEF QuietInv, IntactInv
<1>2. /\ Shifted(inbox[n], inbox'[n], 0, {}) /\ Shifted(inbox[m], inbox'[m], 0, {g})
      /\ inbox'[m] = Append(inbox[m], g)
  BY <1>1, SentShifted
<1> SUFFICES ASSUME NEW k \in Node, NEW u \in Transfer PROVE Once(k, u)'
  BY DEF OnceInv
<1>3. Once(k, u)
  BY <1>1 DEF OnceInv
<1>4. (Held(k, u)' <=> Held(k, u)) /\ (Handed(k, u)' <=> Handed(k, u))
  BY DEF Held, Handed
<1>5. CASE ~(k = m /\ u = t /\ IsHeader(g))
  <2> DEFINE A == IF k = m THEN {g} ELSE {}
  <2>1. Shifted(inbox[k], inbox'[k], 0, A)
    BY <1>2
  <2>2. 0 \in {0, 1} /\ \A h \in A : IsHeader(h) => h.transfer # u
    BY <1>5
  <2> HIDE DEF A
  <2> QED
    BY <1>3, <1>4, <2>1, <2>2, OnceKept
<1>6. CASE k = m /\ u = t /\ IsHeader(g)
  <2>1. Announced(m, t) = {} /\ ~Held(m, t) /\ ~Handed(m, t)
    BY <1>3, <1>6 DEF Once
  <2>2. inbox[m] \in Seq(Frame)
    BY <1>1 DEF TypeOK
  <2>3. \A i \in Announced(m, t)' : i = Len(inbox[m]) + 1
    <3> SUFFICES ASSUME NEW i \in Announced(m, t)' PROVE i = Len(inbox[m]) + 1
      OBVIOUS
    <3>1. i \in DOMAIN inbox'[m] /\ IsHeader(inbox'[m][i]) /\ inbox'[m][i].transfer = t
      BY DEF Announced, IsHeader
    <3>2. i \in 1 .. Len(inbox[m]) \/ i = Len(inbox[m]) + 1
      BY <1>2, <2>2, <3>1, AppendProperties
    <3>3. ASSUME i \in 1 .. Len(inbox[m]) PROVE FALSE
      <4>1. inbox'[m][i] = inbox[m][i] /\ i \in DOMAIN inbox[m]
        BY <1>2, <2>2, <3>3, AppendProperties, QueueDomain
      <4> QED
        BY <2>1, <3>1, <4>1 DEF Announced
    <3> QED
      BY <3>2, <3>3
  <2>4. \A i, j \in Announced(m, t)' : i = j
    BY <2>3
  <2> QED
    BY <1>4, <1>6, <2>1, <2>4 DEF Once
<1> QED
  BY <1>5, <1>6

LEMMA StartQuiet ==
  ASSUME QuietInv, TwoNodes, OneAtATime, IntactInv', NEW t \in Transfer,
         StartRts(t) \/ StartBam(t)
  PROVE  QuietInv'
<1>1. PICK n : n = Src[t]
  OBVIOUS
<1>2. n \in Node
  BY <1>1, TransferAssumption
<1>3. PICK m \in Node : m # n /\ Node = {m, n}
  BY <1>2, Pair
<1>4. PICK kind : kind = IF Dst[t] = All THEN "BAM" ELSE "RTS"
  OBVIOUS
<1>5. PICK g : g = Control(kind, n, Dst[t], t, 0)
  OBVIOUS
<1>6. /\ TypeOK /\ OneBusy /\ Registered /\ FramesHonest /\ SessionsHonest /\ KindsFit
      /\ OnceInv /\ DialogueInv /\ TypeOK'
  BY DEF QuietInv, IntactInv
<1>7. /\ MayStart(t) /\ inbox' = Sent(inbox, n, g) /\ UNCHANGED <<rx, delivered>>
      /\ \/ ~Unicast(t) /\ status' = [status EXCEPT ![t] = "bam"] /\ UNCHANGED tx
         \/ /\ Unicast(t) /\ status' = [status EXCEPT ![t] = "rts"]
            /\ tx' = [tx EXCEPT ![n][Dst[t]] = IF @ = NoTransfer THEN t ELSE @]
      /\ losses' = losses
  BY <1>1, <1>4, <1>5 DEF StartRts, StartBam, Unicast
<1>8. /\ g \in Frame /\ g.sa = n /\ g.transfer = t /\ g.kind = kind /\ IsHeader(g)
      /\ Dst[t] \in Node \cup {All}
  <2>1. 0 \in Seq8 /\ Dst[t] \in Node \cup {All}
    BY TransferAssumption DEF Seq8
  <2> QED
    BY <1>2, <1>4, <1>5, <2>1, FrameTypes DEF Control, IsHeader
<1>9. Honest(m, g)
  BY <1>1, <1>4, <1>8 DEF Honest, Unicast, Stream
<1>10. FramesHonest' /\ SessionsHonest'
  BY <1>2, <1>3, <1>7, <1>8, <1>9, SendHonest
<1>11. /\ status[t] = "idle" /\ status'[t] = IF Unicast(t) THEN "rts" ELSE "bam"
       /\ \A u \in Transfer : u # t => status'[u] = status[u]
       /\ \A u \in Transfer : Src[u] = n => ~Busy(u)
  BY <1>1, <1>6, <1>7 DEF MayStart, TypeOK
<1>12. KindsFit'
  BY <1>6, <1>11 DEF KindsFit, Unicast
<1>13. OnceInv'
  <2>1. Unsent(t) /\ ~Unsent(t)' /\ \A u \in Transfer : Unsent(u)' => Unsent(u)
    BY <1>11 DEF Unsent
  <2> QED
    BY <1>2, <1>3, <1>6, <1>7, <1>8, <2>1, SendOnce
<1>14. \A s, d \in Node : tx'[s][d] # tx[s][d] => s = n
  BY <1>6, <1>7 DEF TypeOK
<1>15. ASSUME NEW u \in Transfer, u # t, Unicast(u) PROVE Dialogue(u)'
  BY <1>1, <1>2, <1>3, <1>6, <1>7, <1>8, <1>11, <1>14, <1>15, SendOthers
<1>16. ASSUME Unicast(t) PROVE Dialogue(t)'
  <2>1. Dst[t] = m
    BY <1>1, <1>3, <1>8, <1>16, TransferAssumption DEF Unicast
  <2>2. Silent(t)
    BY <1>6, <1>11, <1>16 DEF DialogueInv, Dialogue
  <2>3. tx[n][m] = NoTransfer
    <3> SUFFICES ASSUME tx[n][m] # NoTransfer PROVE FALSE
      OBVIOUS
    <3>1. tx[n][m] \in Transfer /\ Src[tx[n][m]] = n /\ status[tx[n][m]] = "rts"
      BY <1>2, <1>6 DEF TypeOK, Registered
    <3> QED
      BY <1>11, <3>1 DEF Busy
  <2>4. tx'[Src[t]][Dst[t]] = t
    BY <1>1, <1>2, <1>6, <1>7, <1>16, <2>1, <2>3 DEF TypeOK
  <2>5. inbox'[m] = Append(inbox[m], g) /\ inbox[m] \in Seq(Frame)
    BY <1>2, <1>3, <1>6, <1>7, <1>8, SentShifted DEF TypeOK
  <2>6. PICK l \in Nat : l = Len(inbox[m]) + 1
    BY <2>5, LenProperties
  <2>7. Sole(t, m, l)' /\ l \in DOMAIN inbox'[m] /\ inbox'[m][l] = g
    <3> DEFINE c == [k \in Node |-> 0]
               added == Adding(m, {g})
    <3>1. /\ c \in [Node -> {0, 1}] /\ added \in [Node -> SUBSET Frame]
          /\ Moved(c, added) /\ c[m] = 0 /\ OnlyAt(m, added)
      <4>1. /\ c \in [Node -> {0, 1}] /\ added \in [Node -> SUBSET Frame]
            /\ \A k \in Node : Shifted(inbox[k], inbox'[k], c[k], added[k])
            /\ \A k \in Node : c[k] = 0
            /\ added[n] = {} /\ added[m] = {g}
        BY <1>2, <1>3, <1>6, <1>7, <1>8, SendQueues
      <4> HIDE DEF c, added
      <4> QED
        BY <1>3, <4>1 DEF Moved, OnlyAt
    <3>2. TakenBy(t, c)
      BY <2>2 DEF Silent, TakenBy
    <3>3. Put(m, g, l)
      BY <2>5, <2>6 DEF Put
    <3> HIDE DEF c, added
    <3> QED
      BY <1>6, <1>8, <2>6, <3>1, <3>2, <3>3, TakenSole
  <2>8. Stage(t, m, l)'
    <3>1. ASSUME NEW j \in DOMAIN inbox'[m], j > l PROVE FALSE
      <4>1. j <= Len(inbox[m]) + 1
        BY <1>8, <2>5, AppendShifted
      <4>2. j \in Nat
        BY <1>6, QueueDomain DEF TypeOK
      <4> QED
        BY <2>5, <2>6, <3>1, <4>1, <4>2, LenProperties
    <3>2. g.kind = "RTS"
      BY <1>4, <1>8, <1>16 DEF Unicast
    <3> QED
      BY <2>1, <2>7, <3>1, <3>2 DEF Stage
  <2>9. status'[t] = "rts"
    BY <1>11, <1>16
  <2> QED
    BY <1>3, <2>4, <2>7, <2>8, <2>9 DEF Dialogue, Open
<1>17. DialogueInv'
  BY <1>15, <1>16 DEF DialogueInv, Unicast
<1> QED
  BY <1>10, <1>12, <1>13, <1>17 DEF QuietInv

LEMMA BamQuiet ==
  ASSUME QuietInv, TwoNodes, IntactInv', NEW t \in Transfer, StepBam(t) \/ EndBam(t)
  PROVE  QuietInv'
<1>1. PICK n : n = Src[t]
  OBVIOUS
<1>2. n \in Node
  BY <1>1, TransferAssumption
<1>3. PICK m \in Node : m # n /\ Node = {m, n}
  BY <1>2, Pair
<1>4. /\ TypeOK /\ OneBusy /\ FramesHonest /\ SessionsHonest /\ KindsFit
      /\ OnceInv /\ DialogueInv /\ TypeOK'
  BY DEF QuietInv, IntactInv
<1>5. /\ status[t] = "bam" /\ ~Unicast(t) /\ UNCHANGED <<rx, tx, delivered, losses>>
  BY <1>4 DEF StepBam, EndBam, KindsFit
<1>6. CASE StepBam(t)
  <2>1. PICK g : g = Data(n, All, t, seq[t])
    OBVIOUS
  <2>2. inbox' = Sent(inbox, n, g) /\ UNCHANGED status
    BY <1>1, <1>6, <2>1 DEF StepBam
  <2>3. g \in Frame /\ g.sa = n /\ g.transfer = t /\ g.kind = "DT"
    <3>1. seq[t] \in Seq8
      BY <1>4 DEF TypeOK
    <3> QED
      BY <1>2, <2>1, <3>1, FrameTypes DEF Data
  <2>4. Honest(m, g) /\ ~IsHeader(g)
    BY <1>1, <2>3 DEF Honest, Stream, IsHeader
  <2>5. FramesHonest' /\ SessionsHonest'
    BY <1>2, <1>3, <1>5, <2>2, <2>3, <2>4, SendHonest
  <2>6. KindsFit'
    BY <1>4, <2>2 DEF KindsFit, Unicast
  <2>7. OnceInv'
    <3>1. ~Unsent(t)' /\ \A u \in Transfer : Unsent(u)' => Unsent(u)
      BY <1>5, <2>2 DEF Unsent
    <3> QED
      BY <1>2, <1>3, <1>4, <1>5, <2>2, <2>3, <2>4, <3>1, SendOnce
  <2>8. ASSUME NEW u \in Transfer, Unicast(u) PROVE Dialogue(u)'
    <3>1. u # t /\ (Src[u] = n => ~Busy(u))
      BY <1>1, <1>4, <1>5, <2>8 DEF OneBusy, Busy
    <3>2. /\ \A s, d \in Node : tx'[s][d] # tx[s][d] => s = n
          /\ status'[u] = status[u]
      BY <1>5, <2>2
    <3> QED
      BY <1>1, <1>2, <1>3, <1>4, <1>5, <2>2, <2>3, <2>8, <3>1, <3>2, SendOthers
  <2>9. DialogueInv'
    BY <2>8 DEF DialogueInv, Unicast
  <2> QED
    BY <2>5, <2>6, <2>7, <2>9 DEF QuietInv
<1>7. CASE EndBam(t)
  <2>1. UNCHANGED inbox /\ status' = [status EXCEPT ![t] = "ok"]
    BY <1>7 DEF EndBam
  <2>2. /\ \A u \in Transfer : u # t => status'[u] = status[u]
        /\ status'[t] = "ok"
    BY <1>4, <2>1 DEF TypeOK
  <2>3. FramesHonest' /\ SessionsHonest'
    BY <1>4, <1>5, <2>1 DEF FramesHonest, SessionsHonest, Honest, Unicast, Stream
  <2>4. KindsFit'
    BY <1>4, <2>2 DEF KindsFit, Unicast
  <2>5. OnceInv'
    <3> SUFFICES ASSUME NEW k \in Node, NEW u \in Transfer PROVE Once(k, u)'
      BY DEF OnceInv
    <3>1. /\ Announced(k, u)' = Announced(k, u) /\ (Held(k, u)' <=> Held(k, u))
          /\ (Handed(k, u)' <=> Handed(k, u))
      BY <1>5, <2>1 DEF Announced, Held, Handed, IsHeader
    <3>2. Once(k, u) /\ (Unsent(u)' => Unsent(u))
      BY <1>4, <2>2 DEF OnceInv, Unsent
    <3> QED
      BY <3>1, <3>2 DEF Once
  <2>6. DialogueInv'
    <3> SUFFICES ASSUME NEW u \in Transfer, Unicast(u) PROVE Dialogue(u)'
      BY DEF DialogueInv, Unicast
    <3>1. Dialogue(u) /\ status'[u] = status[u]
      BY <1>4, <1>5, <2>2 DEF DialogueInv
    <3> QED
      BY <1>5, <2>1, <3>1 DEF Dialogue, Stalled, Silent, Open, Sole, Stage, Receiving, Alone, Stream, Handed
  <2> QED
    BY <2>3, <2>4, <2>5, <2>6 DEF QuietInv
<1> QED
  BY <1>6, <1>7

(* The timer of a transfer fires only when its frame was lost.             *)
LEMMA TimerFires ==
  ASSUME QuietInv, Quiet, NEW t \in Transfer, Timeout(t)
  PROVE  Unicast(t) /\ \A u \in Transfer : Unicast(u) => Silent(u) /\ ~Open(u)
<1>1. status[t] = "rts" /\ \A n \in Node : inbox[n] = <<>>
  BY DEF Timeout, Quiet
<1>2. Unicast(t)
  BY <1>1 DEF QuietInv, KindsFit
<1>3. \A n \in Node : DOMAIN inbox[n] = {}
  BY <1>1 DEF QuietInv, IntactInv, TypeOK
<1> QED
  BY <1>2, <1>3 DEF Silent, Open

LEMMA TimeoutQuiet ==
  ASSUME QuietInv, Quiet, IntactInv', NEW t \in Transfer, Timeout(t)
  PROVE  QuietInv'
<1>1. /\ TypeOK /\ OneBusy /\ FramesHonest /\ SessionsHonest /\ KindsFit
      /\ OnceInv /\ DialogueInv
  BY DEF QuietInv, IntactInv
<1>2. /\ status[t] = "rts" /\ tx' = [tx EXCEPT ![Src[t]][Dst[t]] = NoTransfer]
      /\ status' = [status EXCEPT ![t] = "timeout"]
      /\ UNCHANGED <<inbox, rx, delivered, losses>>
  BY DEF Timeout
<1>3. \A u \in Transfer : status'[u] = IF u = t THEN "timeout" ELSE status[u]
  BY <1>1, <1>2 DEF TypeOK
<1>4. FramesHonest' /\ SessionsHonest' /\ KindsFit'
  BY <1>1, <1>2, <1>3 DEF FramesHonest, SessionsHonest, Honest, Unicast, Stream, KindsFit
<1>5. OnceInv'
  <2> SUFFICES ASSUME NEW k \in Node, NEW u \in Transfer PROVE Once(k, u)'
    BY DEF OnceInv
  <2>1. /\ Announced(k, u)' = Announced(k, u) /\ (Held(k, u)' <=> Held(k, u))
        /\ (Handed(k, u)' <=> Handed(k, u))
    BY <1>2 DEF Announced, Held, Handed, IsHeader
  <2>2. Once(k, u) /\ (Unsent(u)' => Unsent(u))
    BY <1>1, <1>3 DEF OnceInv, Unsent
  <2> QED
    BY <2>1, <2>2 DEF Once
<1>6. DialogueInv'
  <2> SUFFICES ASSUME NEW u \in Transfer, Unicast(u) PROVE Dialogue(u)'
    BY DEF DialogueInv, Unicast
  <2>1. Dialogue(u) /\ Silent(u) /\ ~Open(u) /\ Unicast(t)
    BY <1>1, TimerFires DEF DialogueInv
  <2>2. Silent(u)'
    BY <1>2, <2>1 DEF Silent
  <2>3. CASE status'[u] = "rts"
    <3>1. u # t /\ status[u] = "rts" /\ Stalled(u)
      BY <1>3, <2>1, <2>3 DEF Dialogue
    <3>2. Src[u] # Src[t]
      BY <1>1, <1>2, <3>1 DEF OneBusy, Busy
    <3>3. tx'[Src[u]][Dst[u]] = tx[Src[u]][Dst[u]]
      BY <1>1, <1>2, <3>2, TransferAssumption DEF TypeOK, Unicast
    <3> QED
      BY <1>2, <2>2, <2>3, <3>1, <3>3 DEF Dialogue, Stalled
  <2> QED
    BY <2>2, <2>3 DEF Dialogue
<1> QED
  BY <1>4, <1>5, <1>6 DEF QuietInv

(* What ends without a frame leaves the dialogues as they are.             *)
LEMMA FailQuiet ==
  ASSUME QuietInv, IntactInv', NEW t \in Transfer,
         StartFails(t) \/ (BamFails(t) /\ losses = 0)
  PROVE  QuietInv'
<1>1. /\ TypeOK /\ OneBusy /\ FramesHonest /\ SessionsHonest /\ KindsFit
      /\ OnceInv /\ DialogueInv
  BY DEF QuietInv, IntactInv
<1>2. /\ UNCHANGED <<inbox, rx, tx, delivered>>
      /\ \/ /\ status[t] = "idle" /\ status' = [status EXCEPT ![t] = "refused"]
            /\ UNCHANGED losses
         \/ status[t] = "bam" /\ status' = [status EXCEPT ![t] = "failed"] /\ losses = 0
  BY DEF StartFails, MayStart, BamFails
<1>3. /\ \A u \in Transfer : u # t => status'[u] = status[u]
      /\ status'[t] \in {"refused", "failed"} /\ status[t] \in {"idle", "bam"}
      /\ Unsent(t)' => Unsent(t)
  BY <1>1, <1>2 DEF TypeOK, Unsent
<1>4. FramesHonest' /\ SessionsHonest' /\ KindsFit'
  BY <1>1, <1>2, <1>3
     DEF FramesHonest, SessionsHonest, Honest, Unicast, Stream, KindsFit
<1>5. OnceInv'
  <2> SUFFICES ASSUME NEW k \in Node, NEW u \in Transfer PROVE Once(k, u)'
    BY DEF OnceInv
  <2>1. /\ Announced(k, u)' = Announced(k, u) /\ (Held(k, u)' <=> Held(k, u))
        /\ (Handed(k, u)' <=> Handed(k, u))
    BY <1>2 DEF Announced, Held, Handed, IsHeader
  <2>2. Once(k, u) /\ (Unsent(u)' => Unsent(u))
    BY <1>1, <1>3 DEF OnceInv, Unsent
  <2> QED
    BY <2>1, <2>2 DEF Once
<1>6. DialogueInv'
  <2> SUFFICES ASSUME NEW u \in Transfer, Unicast(u) PROVE Dialogue(u)'
    BY DEF DialogueInv, Unicast
  <2>1. Dialogue(u)
    BY <1>1 DEF DialogueInv
  <2>2. (Silent(u) => Silent(u)') /\ (Open(u) => Open(u)')
    BY <1>2 DEF Silent, Open, Sole, Stage, Receiving, Alone, Stream, Handed
  <2>3. CASE status'[u] = "rts"
    <3>1. status[u] = "rts"
      BY <1>3, <2>3
    <3>2. Stalled(u) => Stalled(u)'
      BY <1>2, <2>2 DEF Stalled
    <3> QED
      BY <2>1, <2>2, <2>3, <3>1, <3>2 DEF Dialogue
  <2>4. CASE status'[u] # "rts"
    <3>1. status[u] # "rts"
      BY <1>3, <2>4
    <3> QED
      BY <2>1, <2>2, <2>4, <3>1 DEF Dialogue
  <2> QED
    BY <2>3, <2>4
<1> QED
  BY <1>4, <1>5, <1>6 DEF QuietInv

LEMMA QuietInit == Init => QuietInv
<1> SUFFICES ASSUME Init PROVE QuietInv
  OBVIOUS
<1>1. IntactInv
  BY IntactInit
<1>2. /\ \A n \in Node : inbox[n] = <<>> /\ delivered[n] = <<>>
      /\ \A n, s \in Node : rx[n][s] = NoSession
      /\ \A t \in Transfer : status[t] = "idle"
  BY DEF Init
<1>3. \A n \in Node : DOMAIN inbox[n] = {} /\ DOMAIN delivered[n] = {}
  BY <1>2
<1>4. FramesHonest /\ SessionsHonest /\ KindsFit
  BY <1>2, <1>3 DEF FramesHonest, SessionsHonest, KindsFit
<1>5. OnceInv
  <2> SUFFICES ASSUME NEW n \in Node, NEW t \in Transfer PROVE Once(n, t)
    BY DEF OnceInv
  <2>1. Announced(n, t) = {} /\ ~Held(n, t) /\ ~Handed(n, t)
    BY <1>2, <1>3 DEF Announced, Held, Handed
  <2> QED
    BY <2>1 DEF Once
<1>6. DialogueInv
  BY <1>2, <1>3 DEF DialogueInv, Dialogue, Silent
<1> QED
  BY <1>1, <1>4, <1>5, <1>6 DEF QuietInv

LEMMA QuietNext ==
  ASSUME TwoNodes, Quiet, OneAtATime, \A t \in Transfer : Packets[t] < SeqMod,
         QuietInv, [Next]_vars, \A n \in Node : ~Lose(n), \A t \in Transfer : ~BamFails(t)
  PROVE  QuietInv'
<1>1. IntactInv'
  BY IntactNext DEF QuietInv
<1>2. TypeOK'
  BY <1>1 DEF IntactInv
<1>3. ASSUME NEW t \in Transfer, StartRts(t) \/ StartBam(t) PROVE QuietInv'
  BY <1>1, <1>3, StartQuiet
<1>9. ASSUME NEW t \in Transfer, StartFails(t) PROVE QuietInv'
  BY <1>1, <1>9, FailQuiet
<1>4. ASSUME NEW t \in Transfer, StepBam(t) \/ EndBam(t) PROVE QuietInv'
  BY <1>1, <1>4, BamQuiet
<1>5. ASSUME NEW t \in Transfer, Timeout(t) PROVE QuietInv'
  BY <1>1, <1>5, TimeoutQuiet
<1>6. ASSUME NEW n \in Node, RxFrame(n) PROVE QuietInv'
  <2>1. PICK m \in Node : m # n /\ Node = {m, n}
    BY Pair
  <2>2. FramesHonest' /\ SessionsHonest' /\ KindsFit'
    BY <1>2, <1>6, <2>1, HearHonest
  <2>3. OnceInv' /\ DialogueInv'
    BY <1>2, <1>6, <2>1, <2>2, HearOnce, HearDialogues
  <2> QED
    BY <1>1, <2>2, <2>3 DEF QuietInv
<1>7. ASSUME NEW s \in Node, NEW d \in Node, ForeignAbort(s, d) PROVE QuietInv'
  BY <1>7 DEF ForeignAbort, Quiet, QuietInv, IntactInv, TypeOK
<1>8. CASE UNCHANGED vars
  <2>1. UNCHANGED <<inbox, rx, tx, status, delivered, losses>>
    BY <1>8 DEF vars
  <2>2. FramesHonest' /\ SessionsHonest' /\ KindsFit'
    BY <2>1 DEF QuietInv, FramesHonest, SessionsHonest, KindsFit, Honest, Unicast, Stream
  <2>3. OnceInv'
    <3> SUFFICES ASSUME NEW k \in Node, NEW u \in Transfer PROVE Once(k, u)'
      BY DEF OnceInv
    <3>1. /\ Announced(k, u)' = Announced(k, u) /\ (Held(k, u)' <=> Held(k, u))
          /\ (Handed(k, u)' <=> Handed(k, u)) /\ status'[u] = status[u]
      BY <2>1 DEF Announced, Held, Handed, IsHeader
    <3> QED
      BY <3>1 DEF Once, Unsent, QuietInv, OnceInv
  <2>4. DialogueInv'
    <3> SUFFICES ASSUME NEW u \in Transfer, Unicast(u) PROVE Dialogue(u)'
      BY DEF DialogueInv, Unicast
    <3>1. Dialogue(u)
      BY DEF QuietInv, DialogueInv
    <3> QED
      BY <2>1, <3>1 DEF Dialogue, Stalled, Silent, Open, Sole, Stage, Receiving, Alone, Stream, Handed
  <2> QED
    BY <1>1, <2>2, <2>3, <2>4 DEF QuietInv
<1> QED
  BY <1>3, <1>4, <1>5, <1>6, <1>7, <1>8, <1>9 DEF Next

-----------------------------------------------------------------------------
(* Why one lost frame does no harm: until then every session is complete   *)
(* before the next header of its source comes up, so that a header that is *)
(* lost leaves no session for the packets behind it.                       *)

(* Packets k to l of t are queued in q at a or later, and no header of     *)
(* their source before them.                                               *)
Train(q, t, a, k, l) ==
  \A p \in k .. l : \E j \in DOMAIN q :
    /\ j >= a /\ q[j].kind = "DT" /\ q[j].transfer = t /\ q[j].seq = p
    /\ Bare(q, Src[t], a, j)

SentUpTo(t) ==
  CASE Unsent(t) -> 0
    [] status[t] = "bam" -> seq[t] - 1
    [] OTHER -> Total(t)

(* The packet numbers of t do not come round, and its broadcast ends.      *)
Short(t) == Total(t) + 1 < SeqMod

DtsOf(n, t) ==
  {j \in DOMAIN inbox[n] : inbox[n][j].kind = "DT" /\ inbox[n][j].transfer = t}

(* What a broadcaster has under way is the last of its queued frames.      *)
InLine(n, t) ==
  status[t] = "bam" =>
    /\ \A i \in Announced(n, t) : Bare(inbox[n], Src[t], i + 1, Len(inbox[n]))
    /\ Held(n, t) => Bare(inbox[n], Src[t], 1, Len(inbox[n]))

(* What a session waits for, and what a header announces, follows it.      *)
SessionFed(n, t) ==
  LET r == rx[n][Src[t]]
  IN  r # NoSession /\ r.transfer = t =>
        /\ r.next \in 1 .. Total(t) /\ r.next <= SentUpTo(t) + 1
        /\ Train(inbox[n], t, 1, r.next, SentUpTo(t))
        /\ \A j \in DtsOf(n, t) : inbox[n][j].seq >= r.next

HeaderFed(n, t) ==
  \A i \in Announced(n, t) : Train(inbox[n], t, i + 1, 1, SentUpTo(t))

Numbered(n, t) ==
  /\ status[t] = "bam" => seq[t] \in 1 .. Total(t) + 1
  /\ \A j \in DtsOf(n, t) : inbox[n][j].seq \in 1 .. SentUpTo(t)
  /\ \A i, j \in DtsOf(n, t) : i < j => inbox[n][i].seq < inbox[n][j].seq

OnTrack(n, t) ==
  /\ InLine(n, t)
  /\ Short(t) => SessionFed(n, t) /\ HeaderFed(n, t) /\ Numbered(n, t)
  /\ ~Short(t) => Unsent(t) \/ status[t] = "bam"

TrackInv ==
  \A n \in Node, t \in Transfer : ~Unicast(t) /\ n # Src[t] => OnTrack(n, t)

(* A unicast session is held only while its sender waits.                  *)
HeldOpen == \A n \in Node, t \in Transfer : Held(n, t) /\ Unicast(t) => status[t] = "rts"

LEMMA TotalFacts ==
  ASSUME NEW t \in Transfer, Packets[t] < SeqMod
  PROVE  /\ Total(t) = Packets[t] /\ Total(t) \in Nat \ {0, 1} /\ Total(t) < SeqMod
         /\ SeqMod \in Nat
<1>1. Packets[t] \in Nat \ {0, 1} /\ SeqMod \in Nat \ {0, 1}
  BY TransferAssumption
<1>2. Packets[t] % SeqMod = Packets[t]
  BY <1>1
<1> QED
  BY <1>1, <1>2 DEF Total

LEMMA TrainTail ==
  ASSUME NEW q \in Seq(Frame), q # <<>>, NEW t, NEW a \in Nat \ {0}, NEW k, NEW l,
         Train(q, t, a + 1, k, l)
  PROVE  Train(Tail(q), t, a, k, l)
<1> DEFINE p == Tail(q)
<1>1. Shifted(q, p, 1, {}) /\ p \in Seq(Frame)
  BY TailShifted, TailFacts
<1>2. /\ \A i \in DOMAIN q : i <= 1 \/ (i - 1 \in DOMAIN p /\ p[i - 1] = q[i])
      /\ \A j \in DOMAIN p : j + 1 \in DOMAIN q /\ p[j] = q[j + 1]
  BY <1>1 DEF Shifted
<1>3. DOMAIN q = 1 .. Len(q) /\ DOMAIN p = 1 .. Len(p) /\ Len(q) \in Nat /\ Len(p) \in Nat
  BY <1>1, QueueDomain
<1> HIDE DEF p
<1> SUFFICES ASSUME NEW x \in k .. l
             PROVE  \E j \in DOMAIN p :
                      /\ j >= a /\ p[j].kind = "DT" /\ p[j].transfer = t /\ p[j].seq = x
                      /\ Bare(p, Src[t], a, j)
  BY DEF Train, p
<1>4. PICK i \in DOMAIN q :
        /\ i >= a + 1 /\ q[i].kind = "DT" /\ q[i].transfer = t /\ q[i].seq = x
        /\ Bare(q, Src[t], a + 1, i)
  BY DEF Train
<1>5. i \in Nat /\ i > 1 /\ i - 1 >= a
  BY <1>3, <1>4
<1>6. i - 1 \in DOMAIN p /\ p[i - 1] = q[i]
  BY <1>2, <1>5
<1>7. ASSUME NEW y \in a .. (i - 1) PROVE ~HeaderOf(Src[t], p[y])
  <2>1. y \in DOMAIN p /\ y + 1 \in (a + 1) .. i
    BY <1>3, <1>5, <1>6, <1>7
  <2>2. p[y] = q[y + 1]
    BY <1>2, <2>1
  <2> QED
    BY <1>4, <2>1, <2>2 DEF Bare
<1> QED
  BY <1>4, <1>5, <1>6, <1>7 DEF Bare

LEMMA TrainPast ==
  ASSUME NEW q \in Seq(Frame), q # <<>>, NEW t, NEW k \in Nat, NEW b \in Nat, b >= k,
         NEW l \in Int, Train(q, t, 1, k, l),
         \A x \in b .. l : ~(q[1].kind = "DT" /\ q[1].transfer = t /\ q[1].seq = x)
  PROVE  Train(Tail(q), t, 1, b, l)
<1>1. DOMAIN q = 1 .. Len(q) /\ Len(q) \in Nat
  BY QueueDomain
<1>2. Train(q, t, 2, b, l)
  <2> SUFFICES ASSUME NEW x \in b .. l
               PROVE  \E j \in DOMAIN q :
                        /\ j >= 2 /\ q[j].kind = "DT" /\ q[j].transfer = t /\ q[j].seq = x
                        /\ Bare(q, Src[t], 2, j)
    BY DEF Train
  <2>1. x \in k .. l
    OBVIOUS
  <2>2. PICK j \in DOMAIN q :
          /\ j >= 1 /\ q[j].kind = "DT" /\ q[j].transfer = t /\ q[j].seq = x
          /\ Bare(q, Src[t], 1, j)
    BY <2>1 DEF Train
  <2>3. j # 1 /\ j \in Nat
    BY <1>1, <2>2
  <2>4. Bare(q, Src[t], 2, j)
    <3>1. \A y \in 2 .. j : y \in 1 .. j
      BY <2>3
    <3> QED
      BY <2>2, <3>1 DEF Bare
  <2> QED
    BY <2>2, <2>3, <2>4
<1>3. 2 = 1 + 1
  OBVIOUS
<1> QED
  BY <1>2, <1>3, TrainTail

LEMMA TrainAppend ==
  ASSUME NEW q \in Seq(Frame), NEW g \in Frame, NEW t, NEW a \in Nat \ {0}, NEW k, NEW l,
         Train(q, t, a, k, l)
  PROVE  Train(Append(q, g), t, a, k, l)
<1> DEFINE p == Append(q, g)
<1>1. /\ Len(q) \in Nat /\ DOMAIN q = 1 .. Len(q) /\ DOMAIN p = 1 .. Len(q) + 1
      /\ \A i \in 1 .. Len(q) : p[i] = q[i]
  BY QueueDomain, AppendProperties
<1> HIDE DEF p
<1>2. \A j \in DOMAIN q : j \in DOMAIN p /\ p[j] = q[j]
                          /\ (Bare(q, Src[t], a, j) => Bare(p, Src[t], a, j))
  <2> SUFFICES ASSUME NEW j \in DOMAIN q
               PROVE  j \in DOMAIN p /\ p[j] = q[j]
                      /\ (Bare(q, Src[t], a, j) => Bare(p, Src[t], a, j))
    OBVIOUS
  <2>1. \A y \in a .. j : y \in 1 .. Len(q)
    BY <1>1
  <2> QED
    BY <1>1, <2>1 DEF Bare
<1> QED
  BY <1>2 DEF Train, p

LEMMA TrainGrows ==
  ASSUME NEW q \in Seq(Frame), NEW g \in Frame, NEW t, NEW a \in Nat \ {0}, NEW k, NEW l \in Int,
         Train(q, t, a, k, l), Bare(q, Src[t], a, Len(q)), a <= Len(q) + 1,
         g.kind = "DT", g.transfer = t, g.seq = l + 1, k \in Int
  PROVE  Train(Append(q, g), t, a, k, l + 1)
<1> DEFINE p == Append(q, g)
           e == Len(q) + 1
<1>1. /\ Len(q) \in Nat /\ DOMAIN p = 1 .. e /\ p[e] = g
      /\ \A i \in 1 .. Len(q) : p[i] = q[i]
  BY QueueDomain, AppendProperties
<1>2. Train(p, t, a, k, l)
  BY TrainAppend
<1> HIDE DEF p
<1>3. e \in DOMAIN p /\ e >= a
  BY <1>1
<1>4. Bare(p, Src[t], a, e)
  <2> SUFFICES ASSUME NEW y \in a .. e PROVE ~HeaderOf(Src[t], p[y])
    BY DEF Bare
  <2>1. CASE y = e
    BY <1>1, <2>1 DEF HeaderOf, IsHeader
  <2>2. CASE y # e
    <3>1. y \in a .. Len(q) /\ y \in 1 .. Len(q)
      BY <1>1, <2>2
    <3> QED
      BY <1>1, <3>1 DEF Bare
  <2> QED
    BY <2>1, <2>2
<1> SUFFICES ASSUME NEW x \in k .. (l + 1)
             PROVE  \E j \in DOMAIN p :
                      /\ j >= a /\ p[j].kind = "DT" /\ p[j].transfer = t /\ p[j].seq = x
                      /\ Bare(p, Src[t], a, j)
  BY DEF Train, p
<1>5. CASE x = l + 1
  <2>1. /\ e >= a /\ p[e].kind = "DT" /\ p[e].transfer = t /\ p[e].seq = x
        /\ Bare(p, Src[t], a, e)
    BY <1>1, <1>3, <1>4, <1>5
  <2> QED
    BY <1>3, <2>1
<1>6. CASE x # l + 1
  <2>1. x \in k .. l
    BY <1>6
  <2> QED
    BY <1>2, <2>1 DEF Train
<1> QED
  BY <1>5, <1>6

(* The header that is lost leaves no session behind.                       *)
LEMMA HeaderFindsNone ==
  ASSUME QuietInv, TrackInv, HeldOpen, losses = 0, TwoNodes,
         NEW n \in Node, NEW m \in Node, m # n,
         inbox[n] # <<>>, HeaderOf(m, Head(inbox[n]))
  PROVE  rx[n][m] = NoSession
<1> SUFFICES ASSUME rx[n][m] # NoSession PROVE FALSE
  OBVIOUS
<1>1. /\ TypeOK /\ SessionsHonest /\ OnceInv /\ DialogueInv
  BY DEF QuietInv, IntactInv
<1>2. PICK t : t = rx[n][m].transfer
  OBVIOUS
<1>3. inbox[n] \in Seq(Frame) /\ rx[n][m] \in Session
  BY <1>1 DEF TypeOK
<1>4. /\ t \in Transfer /\ m = Src[t] /\ Held(n, t)
  BY <1>1, <1>2, <1>3 DEF SessionsHonest, Held, Session
<1>5. Announced(n, t) = {} /\ ~Handed(n, t) /\ ~Unsent(t)
  BY <1>1, <1>4 DEF OnceInv, Once
<1>6. /\ 1 \in DOMAIN inbox[n] /\ 1 \in 1 .. Len(inbox[n])
      /\ HeaderOf(m, inbox[n][1]) /\ IsHeader(inbox[n][1])
  BY <1>3, TailShifted, QueueDomain DEF HeaderOf
<1>7. CASE Unicast(t)
  <2>1. status[t] = "rts"
    BY <1>4, <1>7 DEF HeldOpen
  <2>2. Open(t)
    BY <1>1, <1>4, <1>7, <2>1 DEF DialogueInv, Dialogue, Stalled
  <2>3. PICK k \in Node : \E i \in DOMAIN inbox[k] : Sole(t, k, i) /\ Stage(t, k, i)
    BY <2>2 DEF Open
  <2>4. PICK i \in DOMAIN inbox[k] : Sole(t, k, i) /\ Stage(t, k, i)
    BY <2>3
  <2>5. Dst[t] = n
    <3>1. Dst[t] \in Node /\ Dst[t] # m
      BY <1>4, <1>7, TransferAssumption DEF Unicast
    <3>2. Node = {m, n}
      BY Pair
    <3> QED
      BY <3>1, <3>2
  <2>6. ~Alone(t)
    BY <1>5, <1>6, <2>5 DEF Alone, Announced, IsHeader, Stream
  <2>7. ~(inbox[k][i].kind = "RTS" /\ k = n)
    BY <1>5, <2>4 DEF Announced, IsHeader, Sole
  <2> QED
    BY <1>5, <2>4, <2>5, <2>6, <2>7 DEF Stage
<1>8. CASE ~Unicast(t)
  <2>1. OnTrack(n, t)
    BY <1>4, <1>8 DEF TrackInv
  <2>2. status[t] # "bam"
    <3> SUFFICES ASSUME status[t] = "bam" PROVE FALSE
      OBVIOUS
    <3>1. Bare(inbox[n], m, 1, Len(inbox[n]))
      BY <1>4, <2>1 DEF OnTrack, InLine
    <3> QED
      BY <1>6, <3>1 DEF Bare
  <2>3. Short(t) /\ SessionFed(n, t) /\ SentUpTo(t) = Total(t)
    BY <1>5, <2>1, <2>2 DEF OnTrack, SentUpTo
  <2>4. /\ rx[n][m].next \in 1 .. Total(t)
        /\ Train(inbox[n], t, 1, rx[n][m].next, Total(t))
    BY <1>2, <1>4, <2>3 DEF SessionFed
  <2>5. rx[n][m].next \in rx[n][m].next .. Total(t)
    BY <2>4
  <2>6. PICK j \in DOMAIN inbox[n] : j >= 1 /\ Bare(inbox[n], m, 1, j)
    BY <1>4, <2>4, <2>5 DEF Train
  <2>7. 1 \in 1 .. j
    BY <1>3, <2>6, QueueDomain
  <2> QED
    BY <1>6, <2>6, <2>7 DEF Bare
<1> QED
  BY <1>7, <1>8

LEMMA LoseQuiet ==
  ASSUME QuietInv, TrackInv, HeldOpen, losses = 0, TwoNodes, TypeOK', NEW n \in Node, Lose(n)
  PROVE  QuietInv'
<1>1. PICK m \in Node : m # n /\ Node = {m, n}
  BY Pair
<1>2. /\ inbox[n] # <<>> /\ inbox' = Received(n) /\ losses' = 1
      /\ UNCHANGED <<rx, tx, seq, status, delivered>>
  BY DEF Lose
<1>3. /\ TypeOK /\ FramesGenuine /\ OneBusy /\ Registered /\ StreamsInStep
      /\ Prefixes /\ DeliveredIntact
      /\ FramesHonest /\ SessionsHonest /\ KindsFit /\ OnceInv /\ DialogueInv
  BY DEF QuietInv, IntactInv
<1>4. /\ inbox'[n] = Tail(inbox[n]) /\ inbox'[m] = inbox[m]
      /\ Shifted(inbox[n], inbox'[n], 1, {}) /\ Shifted(inbox[m], inbox'[m], 0, {})
  BY <1>1, <1>2, <1>3, ReceivedShifted
<1>5. inbox[n] \in Seq(Frame) /\ inbox[m] \in Seq(Frame) /\ inbox'[n] \in Seq(Frame)
  BY <1>3 DEF TypeOK
<1>6. \A k \in Node : \A j \in DOMAIN inbox'[k] :
        \E i \in DOMAIN inbox[k] : inbox'[k][j] = inbox[k][i]
  <2> SUFFICES ASSUME NEW k \in Node, NEW j \in DOMAIN inbox'[k]
               PROVE  \E i \in DOMAIN inbox[k] : inbox'[k][j] = inbox[k][i]
    OBVIOUS
  <2>1. PICK c \in {0, 1} : Shifted(inbox[k], inbox'[k], c, {})
    BY <1>1, <1>4
  <2>2. j + c \in DOMAIN inbox[k] /\ inbox'[k][j] = inbox[k][j + c]
    BY <2>1 DEF Shifted
  <2> QED
    BY <2>2
<1>7. FramesGenuine' /\ FramesHonest'
  <2>1. FramesHonest'
    BY <1>3, <1>6 DEF FramesHonest, Honest, Stream, Unicast
  <2>2. \A k \in Node : \A j \in DOMAIN inbox'[k] : Genuine(k, inbox'[k][j])
    <3>1. \A k \in Node : DOMAIN inbox[k] = 1 .. Len(inbox[k])
      BY <1>3, QueueDomain DEF TypeOK
    <3> QED
      BY <1>3, <1>6, <3>1 DEF FramesGenuine
  <2>3. \A k \in Node : DOMAIN inbox'[k] = 1 .. Len(inbox'[k])
    BY QueueDomain DEF TypeOK
  <2> QED
    BY <2>1, <2>2, <2>3 DEF FramesGenuine, Genuine
<1>8. /\ OneBusy' /\ Registered' /\ Prefixes' /\ DeliveredIntact'
      /\ SessionsHonest' /\ KindsFit'
  BY <1>2, <1>3 DEF OneBusy, Busy, Registered, Prefixes, DeliveredIntact, SessionsHonest,
                    KindsFit, Unicast
<1>9. StreamsInStep'
  <2> SUFFICES ASSUME NEW k \in Node, NEW s \in Node, k # s PROVE InStep(k, s)'
    BY DEF StreamsInStep
  <2>1. InStep(k, s)
    BY <1>3 DEF StreamsInStep
  <2>2. CASE k = m
    BY <1>2, <1>4, <2>1, <2>2 DEF InStep, Busy
  <2>3. CASE k = n /\ ~HeaderOf(s, Head(inbox[n]))
    <3>1. Ordered(inbox'[n], s) /\ Follows(inbox'[n], s, rx[n][s])
      BY <1>2, <1>4, <1>5, <2>1, <2>3, TailBare DEF InStep
    <3>2. ASSUME NEW t \in Transfer, Current(inbox[n], s, rx[n][s], t)
          PROVE  Current(inbox'[n], s, rx[n][s], t)
      BY <1>2, <1>4, <1>5, <2>1, <2>3, <3>2, TailBare DEF InStep
    <3> QED
      BY <1>2, <2>1, <2>3, <3>1, <3>2 DEF InStep, Busy
  <2>4. CASE k = n /\ HeaderOf(s, Head(inbox[n]))
    <3>1. rx[n][s] = NoSession
      BY <1>2, <2>4, HeaderFindsNone
    <3>2. PICK r : r = Opened(Head(inbox[n]))
      OBVIOUS
    <3>3. r.transfer = Head(inbox[n]).transfer
      BY <3>2 DEF Opened
    <3>4. Ordered(inbox[n], s)
      BY <2>1, <2>4 DEF InStep
    <3>5. Ordered(inbox'[n], s)
      BY <1>2, <1>4, <1>5, <2>4, <3>3, <3>4, TailHeader
    <3>6. ASSUME NEW t \in Transfer, Current(inbox[n], s, rx[n][s], t)
          PROVE  Current(inbox'[n], s, NoSession, t)
      <4>1. Current(inbox'[n], s, r, t)
        BY <1>2, <1>4, <1>5, <2>4, <3>3, <3>4, <3>6, TailHeader
      <4> QED
        BY <4>1 DEF Current
    <3> QED
      BY <1>2, <2>1, <2>4, <3>1, <3>5, <3>6 DEF InStep, Busy, Follows
  <2> QED
    BY <1>1, <2>2, <2>3, <2>4
<1>10. OnceInv'
  <2> SUFFICES ASSUME NEW k \in Node, NEW u \in Transfer PROVE Once(k, u)'
    BY DEF OnceInv
  <2>1. PICK c \in {0, 1} : Shifted(inbox[k], inbox'[k], c, {})
    BY <1>1, <1>4
  <2> DEFINE A == {}
  <2> HIDE DEF A
  <2>2. (Held(k, u)' => Held(k, u)) /\ (Handed(k, u)' => Handed(k, u)) /\ Once(k, u)
    BY <1>2, <1>3 DEF Held, Handed, OnceInv
  <2>3. /\ Shifted(inbox[k], inbox'[k], c, A)
        /\ \A g \in A : IsHeader(g) => g.transfer # u
    BY <2>1 DEF A
  <2> QED
    BY <1>2, <2>1, <2>2, <2>3, OnceKept DEF Unsent
<1>11. DialogueInv'
  <2> SUFFICES ASSUME NEW u \in Transfer, Unicast(u) PROVE Dialogue(u)'
    BY DEF DialogueInv, Unicast
  <2>1. PICK c \in [Node -> {0, 1}], added \in [Node -> SUBSET Frame] :
          /\ \A k \in Node : Shifted(inbox[k], inbox'[k], c[k], added[k])
          /\ c[n] = 1 /\ c[m] = 0 /\ \A k \in Node : added[k] = {}
    <3> DEFINE c == Taking(n)
               added == Adding(m, {})
    <3>1. /\ c \in [Node -> {0, 1}] /\ added \in [Node -> SUBSET Frame]
          /\ \A k \in Node : Shifted(inbox[k], inbox'[k], c[k], added[k])
          /\ c[n] = 1 /\ c[m] = 0 /\ added[n] = {} /\ added[m] = {}
      <4>1. {} \in SUBSET Frame
        OBVIOUS
      <4> QED
        BY <1>1, <1>2, <1>3, <4>1, HearQueues
    <3> HIDE DEF c, added
    <3> QED
      BY <1>1, <3>1
  <2>2. Dialogue(u)
    BY <1>3 DEF DialogueInv
  <2>3. CASE Silent(u)
    <3>1. Silent(u)'
      BY <2>1, <2>3, SilentKept
    <3>2. status[u] # "rts"
      <4> SUFFICES ASSUME status[u] = "rts" PROVE FALSE
        OBVIOUS
      <4>1. Open(u)
        BY <2>2 DEF Dialogue, Stalled
      <4> QED
        BY <2>3, <4>1 DEF Open, Sole, Silent
    <3> QED
      BY <1>2, <3>1, <3>2 DEF Dialogue
  <2>4. CASE ~Silent(u)
    <3>1. status[u] = "rts" /\ Open(u)
      BY <2>2, <2>4 DEF Dialogue, Stalled
    <3>2. CASE Head(inbox[n]).transfer = u
      <4>1. PICK f : f = Head(inbox[n])
        OBVIOUS
      <4>2. Sole(u, n, 1)
        BY <1>1, <1>2, <3>2, <4>1, QuietHead
      <4>3. Moved(c, added) /\ TakenBy(u, c)
        BY <2>1, <4>2 DEF Moved, TakenBy, Sole
      <4>4. \A k \in Node : \A g \in added[k] : g.transfer # u
        BY <2>1
      <4>5. Silent(u)'
        BY <4>3, <4>4, TakenSilent
      <4> QED
        BY <1>2, <3>1, <4>5 DEF Dialogue, Stalled, Open
    <3>3. CASE Head(inbox[n]).transfer # u
      <4>1. \A k \in Node :
              /\ Shifted(inbox[k], inbox'[k], c[k], added[k])
              /\ c[k] = 1 => inbox[k] # <<>> /\ Head(inbox[k]).transfer # u
              /\ \A g \in added[k] : g.transfer # u /\ (k = Dst[u] => ~Stream(g))
        BY <1>1, <1>2, <2>1, <3>3
      <4>2. /\ tx'[Src[u]][Dst[u]] = tx[Src[u]][Dst[u]]
            /\ rx'[Dst[u]][Src[u]] = rx[Dst[u]][Src[u]]
            /\ Handed(Dst[u], u) => Handed(Dst[u], u)'
        BY <1>2 DEF Handed
      <4>3. Open(u)'
        BY <1>3, <3>1, <4>1, <4>2, OpenKept
      <4> QED
        BY <1>2, <3>1, <4>3 DEF Dialogue
    <3> QED
      BY <3>2, <3>3
  <2> QED
    BY <2>3, <2>4
<1> QED
  BY <1>7, <1>8, <1>9, <1>10, <1>11 DEF QuietInv, IntactInv

(* What is queued behind a broadcast leaves its train as it is.            *)
LEMMA TrackAppend ==
  ASSUME TypeOK, NEW n \in Node, NEW t \in Transfer, OnTrack(n, t),
         NEW g \in Frame, g.transfer # t, status[t] = "bam" => ~HeaderOf(Src[t], g),
         inbox'[n] \in {inbox[n], Append(inbox[n], g)},
         rx'[n] = rx[n], status'[t] = status[t], seq'[t] = seq[t]
  PROVE  OnTrack(n, t)'
<1> DEFINE q == inbox[n]
           p == inbox'[n]
<1>1. q \in Seq(Frame) /\ SentUpTo(t)' = SentUpTo(t) /\ (Short(t)' <=> Short(t))
  BY DEF TypeOK, SentUpTo, Unsent, Short, Total
<1>2. /\ Len(q) \in Nat /\ DOMAIN q = 1 .. Len(q)
      /\ \A i \in DOMAIN q : i \in DOMAIN p /\ p[i] = q[i]
      /\ \A i \in DOMAIN p : i \in DOMAIN q \/ (i = Len(q) + 1 /\ p[i] = g)
      /\ Len(p) \in {Len(q), Len(q) + 1}
      /\ Len(p) = Len(q) + 1 => p[Len(q) + 1] = g
  <2>1. CASE p = q
    BY <1>1, <2>1, QueueDomain
  <2>2. CASE p = Append(q, g)
    <3>1. Len(q) \in Nat /\ DOMAIN q = 1 .. Len(q)
      BY <1>1, QueueDomain
    <3>2. /\ Len(p) = Len(q) + 1 /\ DOMAIN p = 1 .. Len(q) + 1
          /\ \A i \in 1 .. Len(q) : p[i] = q[i]
          /\ p[Len(q) + 1] = g
      BY <1>1, <2>2, AppendProperties, LenProperties
    <3> HIDE DEF p, q
    <3> QED
      BY <3>1, <3>2
  <2> QED
    BY <2>1, <2>2
<1>3. p = q \/ p = Append(q, g)
  OBVIOUS
<1> HIDE DEF p, q
<1>4. \A a, k, l : a \in Nat \ {0} /\ Train(q, t, a, k, l) => Train(p, t, a, k, l)
  BY <1>1, <1>3, TrainAppend
<1>5. \A a : a \in Nat \ {0} /\ Bare(q, Src[t], a, Len(q)) /\ ~HeaderOf(Src[t], g)
               => Bare(p, Src[t], a, Len(p))
  <2> SUFFICES ASSUME NEW a \in Nat \ {0}, Bare(q, Src[t], a, Len(q)),
                      ~HeaderOf(Src[t], g), NEW i \in a .. Len(p)
               PROVE  ~HeaderOf(Src[t], p[i])
    BY DEF Bare
  <2>1. i \in a .. Len(q) \/ (i = Len(q) + 1 /\ Len(p) = Len(q) + 1)
    BY <1>2
  <2>2. ASSUME i \in a .. Len(q) PROVE p[i] = q[i]
    <3>1. i \in DOMAIN q
      BY <1>2, <2>2
    <3> QED
      BY <1>2, <3>1
  <2> QED
    BY <1>2, <2>1, <2>2 DEF Bare
<1>6. Announced(n, t)' = Announced(n, t) /\ \A i \in Announced(n, t) : i \in Nat \ {0}
  <2>1. \A i \in DOMAIN p : p[i].transfer = t => i \in DOMAIN q /\ p[i] = q[i]
    BY <1>2
  <2>2. Announced(n, t)' = {i \in DOMAIN p : IsHeader(p[i]) /\ p[i].transfer = t}
    BY DEF Announced, p, IsHeader
  <2>3. Announced(n, t) = {i \in DOMAIN q : IsHeader(q[i]) /\ q[i].transfer = t}
    BY DEF Announced, q
  <2> QED
    BY <1>2, <2>1, <2>2, <2>3
<1>7. DtsOf(n, t)' = DtsOf(n, t) /\ \A j \in DtsOf(n, t) : p[j] = q[j]
  <2>1. \A i \in DOMAIN p : p[i].transfer = t => i \in DOMAIN q /\ p[i] = q[i]
    BY <1>2
  <2>2. DtsOf(n, t)' = {i \in DOMAIN p : p[i].kind = "DT" /\ p[i].transfer = t}
    BY DEF DtsOf, p
  <2>3. DtsOf(n, t) = {i \in DOMAIN q : q[i].kind = "DT" /\ q[i].transfer = t}
    BY DEF DtsOf, q
  <2> QED
    BY <1>2, <2>1, <2>2, <2>3
<1>8. Held(n, t)' <=> Held(n, t)
  BY DEF Held
<1>9. InLine(n, t)'
  <2>1. ASSUME status[t] = "bam", NEW i \in Announced(n, t)
        PROVE  Bare(p, Src[t], i + 1, Len(p))
    <3>1. i + 1 \in Nat \ {0} /\ Bare(q, Src[t], i + 1, Len(q))
      BY <1>6, <2>1 DEF OnTrack, InLine, q
    <3> QED
      BY <1>5, <2>1, <3>1
  <2>2. ASSUME status[t] = "bam", Held(n, t) PROVE Bare(p, Src[t], 1, Len(p))
    <3>1. Bare(q, Src[t], 1, Len(q))
      BY <2>2 DEF OnTrack, InLine, q
    <3> QED
      BY <1>5, <2>2, <3>1
  <2> QED
    BY <1>6, <1>8, <2>1, <2>2 DEF InLine, p
<1>10. ASSUME Short(t) PROVE SessionFed(n, t)' /\ HeaderFed(n, t)' /\ Numbered(n, t)'
  <2>1. SessionFed(n, t) /\ HeaderFed(n, t) /\ Numbered(n, t)
    BY <1>10 DEF OnTrack
  <2>2. HeaderFed(n, t)'
    <3>1. ASSUME NEW i \in Announced(n, t) PROVE Train(p, t, i + 1, 1, SentUpTo(t))
      <4>1. i + 1 \in Nat \ {0} /\ Train(q, t, i + 1, 1, SentUpTo(t))
        BY <1>6, <2>1 DEF HeaderFed, q
      <4> QED
        BY <1>4, <4>1
    <3> QED
      BY <1>1, <1>6, <3>1 DEF HeaderFed, p, Train, Bare, HeaderOf, IsHeader
  <2>3. SessionFed(n, t)'
    <3> DEFINE r == rx[n][Src[t]]
    <3> SUFFICES ASSUME r # NoSession, r.transfer = t
                 PROVE  /\ r.next \in 1 .. Total(t) /\ r.next <= SentUpTo(t) + 1
                        /\ Train(p, t, 1, r.next, SentUpTo(t))
                        /\ \A j \in DtsOf(n, t) : p[j].seq >= r.next
      BY <1>1, <1>7 DEF SessionFed, p, Train, Bare, HeaderOf, IsHeader, Total
    <3>1. /\ Train(q, t, 1, r.next, SentUpTo(t))
          /\ r.next \in 1 .. Total(t) /\ r.next <= SentUpTo(t) + 1
          /\ \A j \in DtsOf(n, t) : q[j].seq >= r.next
      BY <2>1 DEF SessionFed, q
    <3> QED
      BY <1>4, <1>7, <3>1
  <2>4. Numbered(n, t)'
    <3>1. /\ \A j \in DtsOf(n, t) : p[j].seq \in 1 .. SentUpTo(t)
          /\ \A i, j \in DtsOf(n, t) : i < j => p[i].seq < p[j].seq
          /\ status[t] = "bam" => seq[t] \in 1 .. Total(t) + 1
      BY <1>7, <2>1 DEF Numbered, q
    <3> QED
      BY <1>1, <1>7, <3>1 DEF Numbered, p, Total
  <2> QED
    BY <2>2, <2>3, <2>4
<1> QED
  BY <1>1, <1>9, <1>10 DEF OnTrack, Unsent

LEMMA TrackSame ==
  ASSUME NEW n \in Node, NEW t \in Transfer, OnTrack(n, t),
         inbox'[n] = inbox[n], rx'[n] = rx[n], status'[t] = status[t], seq'[t] = seq[t]
  PROVE  OnTrack(n, t)'
<1>1. /\ Announced(n, t)' = Announced(n, t) /\ DtsOf(n, t)' = DtsOf(n, t)
      /\ (Held(n, t)' <=> Held(n, t)) /\ (Short(t)' <=> Short(t))
      /\ SentUpTo(t)' = SentUpTo(t)
  BY DEF Unsent, Announced, DtsOf, Held, Short, SentUpTo, Total, IsHeader
<1>2. InLine(n, t)'
  BY <1>1 DEF OnTrack, InLine, Bare, HeaderOf, IsHeader
<1>3. ASSUME Short(t) PROVE SessionFed(n, t)' /\ HeaderFed(n, t)' /\ Numbered(n, t)'
  BY <1>1, <1>3 DEF OnTrack, SessionFed, HeaderFed, Numbered, Train, Bare, HeaderOf, IsHeader, Total
<1> QED
  BY <1>1, <1>2, <1>3 DEF OnTrack, Unsent

(* What handling a frame leaves alone of a broadcast.                      *)
LEMMA HearLeaves ==
  ASSUME QuietInv, NEW n \in Node, NEW m \in Node, m # n, Node = {m, n}, RxFrame(n)
  PROVE  /\ \A t \in Transfer : ~Unicast(t) => status'[t] = status[t] /\ seq'[t] = seq[t]
         /\ rx'[m] = rx[m] /\ losses' = losses
         /\ \/ inbox' = Received(n)
            \/ \E g \in Frame : /\ inbox' = Sent(Received(n), n, g)
                                /\ Unicast(g.transfer) /\ ~IsHeader(g)
<1>1. PICK f : f = Head(inbox[n])
  OBVIOUS
<1>2. PICK u : u = f.transfer
  OBVIOUS
<1>3. TypeOK /\ inbox[n] # <<>> /\ u \in Transfer /\ seq' = seq /\ losses' = losses
  BY <1>1, <1>2, QuietHead DEF QuietInv, IntactInv, RxFrame
<1>4. rx'[m] = rx[m]
  <2>1. f.kind \in {"RTS", "BAM", "CTS", "EOM", "ABORT", "DT"} /\ Handle(n, f) /\ f.sa = m
    BY <1>1, QuietHead DEF RxFrame, Handle, HearRts, HearBam, HearCts, HearEom, HearAbort,
       HearStrayDt, HearWrongDt, HearNextDt, HearLastDt
  <2> QED
    BY <1>3, <2>1 DEF TypeOK, Handle, HearRts, HearBam, HearCts, HearEom, HearAbort,
       HearStrayDt, HearWrongDt, HearNextDt, HearLastDt
<1>5. CASE ~Unicast(u)
  <2>1. inbox' = Received(n) /\ UNCHANGED status
    BY <1>1, <1>2, <1>5, HearBroadcast
  <2> QED
    BY <1>3, <1>4, <2>1
<1>6. CASE Unicast(u) /\ Ends(n, m, u)
  <2>1. \A t \in Transfer : ~Unicast(t) => status'[t] = status[t]
    BY <1>3, <1>6 DEF Ends, TypeOK
  <2> QED
    BY <1>3, <1>4, <1>6, <2>1 DEF Ends
<1>7. ASSUME Unicast(u), NEW g \in Frame, Answers(n, m, u, g)
      PROVE  /\ UNCHANGED status /\ inbox' = Sent(Received(n), n, g)
             /\ Unicast(g.transfer) /\ ~IsHeader(g)
  BY <1>7 DEF Answers
<1> QED
  BY <1>1, <1>2, <1>3, <1>4, <1>5, <1>6, <1>7, HearUnicast

(* At the other node a broadcast is not disturbed.                         *)
LEMMA TrackElsewhere ==
  ASSUME QuietInv, TrackInv, NEW n \in Node, NEW m \in Node, m # n, Node = {m, n}, RxFrame(n),
         NEW t \in Transfer, ~Unicast(t), m # Src[t]
  PROVE  OnTrack(m, t)'
<1>1. TypeOK /\ OnTrack(m, t) /\ inbox[n] # <<>>
  BY DEF QuietInv, IntactInv, TrackInv, RxFrame
<1>2. status'[t] = status[t] /\ seq'[t] = seq[t] /\ rx'[m] = rx[m]
  BY HearLeaves
<1>3. CASE inbox' = Received(n)
  BY <1>1, <1>2, <1>3, ReceivedShifted, TrackSame
<1>4. ASSUME NEW g \in Frame, inbox' = Sent(Received(n), n, g), Unicast(g.transfer), ~IsHeader(g)
      PROVE  OnTrack(m, t)'
  <2>1. inbox'[m] = Append(inbox[m], g)
    BY <1>1, <1>4, RepliedShifted
  <2>2. g.transfer # t /\ ~HeaderOf(Src[t], g)
    BY <1>4 DEF HeaderOf
  <2> QED
    BY <1>1, <1>2, <2>1, <2>2, TrackAppend
<1> QED
  BY <1>3, <1>4, HearLeaves

(* The node that takes a frame.                                            *)
LEMMA TrackTaken ==
  ASSUME TypeOK, TypeOK', NEW n \in Node, NEW t \in Transfer, inbox[n] # <<>>,
         inbox'[n] = Tail(inbox[n])
  PROVE  /\ \A i \in Announced(n, t)' : i \in Nat \ {0} /\ i + 1 \in Announced(n, t)
         /\ \A j \in DtsOf(n, t)' : /\ j \in Nat \ {0} /\ j + 1 \in DtsOf(n, t)
                                   /\ inbox'[n][j] = inbox[n][j + 1]
         /\ \A a \in Nat \ {0} : Bare(inbox[n], Src[t], a + 1, Len(inbox[n]))
                                => Bare(inbox'[n], Src[t], a, Len(inbox'[n]))
         /\ Len(inbox'[n]) = Len(inbox[n]) - 1 /\ Len(inbox[n]) \in Nat
<1> DEFINE q == inbox[n]
           p == inbox'[n]
<1>1. q \in Seq(Frame) /\ p \in Seq(Frame) /\ p = Tail(q)
  BY DEF TypeOK
<1>2. /\ Len(q) \in Nat \ {0} /\ Len(p) = Len(q) - 1
      /\ \A i \in 1 .. Len(q) - 1 : p[i] = q[i + 1]
      /\ DOMAIN q = 1 .. Len(q) /\ DOMAIN p = 1 .. Len(p)
  BY <1>1, TailFacts, QueueDomain
<1> HIDE DEF p, q
<1>3. \A i \in DOMAIN p : i \in Nat \ {0} /\ i + 1 \in DOMAIN q /\ p[i] = q[i + 1]
  BY <1>2
<1>4. \A i \in Announced(n, t)' : i \in Nat \ {0} /\ i + 1 \in Announced(n, t)
  <2>1. Announced(n, t)' = {i \in DOMAIN p : IsHeader(p[i]) /\ p[i].transfer = t}
    BY DEF Announced, p, IsHeader
  <2>2. Announced(n, t) = {i \in DOMAIN q : IsHeader(q[i]) /\ q[i].transfer = t}
    BY DEF Announced, q
  <2> QED
    BY <1>3, <2>1, <2>2
<1>5. \A j \in DtsOf(n, t)' : j \in Nat \ {0} /\ j + 1 \in DtsOf(n, t) /\ p[j] = q[j + 1]
  <2>1. DtsOf(n, t)' = {i \in DOMAIN p : p[i].kind = "DT" /\ p[i].transfer = t}
    BY DEF DtsOf, p
  <2>2. DtsOf(n, t) = {i \in DOMAIN q : q[i].kind = "DT" /\ q[i].transfer = t}
    BY DEF DtsOf, q
  <2> QED
    BY <1>3, <2>1, <2>2
<1>6. \A a \in Nat \ {0} : Bare(q, Src[t], a + 1, Len(q)) => Bare(p, Src[t], a, Len(p))
  <2> SUFFICES ASSUME NEW a \in Nat \ {0}, Bare(q, Src[t], a + 1, Len(q)), NEW i \in a .. Len(p)
               PROVE  ~HeaderOf(Src[t], p[i])
    BY DEF Bare
  <2>1. i + 1 \in (a + 1) .. Len(q) /\ i \in DOMAIN p
    BY <1>2
  <2> QED
    BY <1>3, <2>1 DEF Bare
<1> QED
  BY <1>2, <1>4, <1>5, <1>6 DEF p, q

(* The next packet of the session comes next.                              *)
LEMMA HeadIsNext ==
  ASSUME TypeOK, NEW n \in Node, NEW t \in Transfer, inbox[n] # <<>>,
         SessionFed(n, t), Numbered(n, t), SentUpTo(t) \in Int,
         rx[n][Src[t]] # NoSession, rx[n][Src[t]].transfer = t, 1 \in DtsOf(n, t)
  PROVE  inbox[n][1].seq = rx[n][Src[t]].next
<1> DEFINE q == inbox[n]
           k == rx[n][Src[t]].next
           l == SentUpTo(t)
<1>1. q \in Seq(Frame) /\ k \in 1 .. Total(t)
  BY DEF TypeOK, SessionFed
<1>2. q[1].seq >= k /\ q[1].seq \in 1 .. l /\ Train(q, t, 1, k, l)
  BY DEF SessionFed, Numbered
<1>3. k \in k .. l /\ k \in Nat
  <2>1. k \in Nat /\ l \in Int
    BY <1>1
  <2>2. PICK x : x = q[1].seq
    OBVIOUS
  <2>3. x >= k /\ x \in 1 .. l
    BY <1>2, <2>2
  <2> HIDE DEF k, l, q
  <2> QED
    BY <2>1, <2>3
<1>4. PICK j \in DOMAIN q : q[j].kind = "DT" /\ q[j].transfer = t /\ q[j].seq = k
  <2> HIDE DEF k, l, q
  <2> QED
    BY <1>2, <1>3 DEF Train
<1>5. j \in DtsOf(n, t) /\ j \in Nat /\ j >= 1
  BY <1>1, <1>4, QueueDomain DEF DtsOf
<1>6. ASSUME j # 1 PROVE FALSE
  <2>1. q[1].seq < q[j].seq
    BY <1>5, <1>6 DEF Numbered
  <2> HIDE DEF k, l, q
  <2> QED
    BY <1>2, <1>3, <1>4, <2>1
<1> QED
  BY <1>4, <1>6

LEMMA SessionStep ==
  ASSUME QuietInv, NEW n \in Node, NEW m \in Node, m # n, Node = {m, n}, RxFrame(n),
         NEW f, f = Head(inbox[n]), ~IsHeader(f), rx'[n][m] # NoSession
  PROVE  /\ rx[n][m] # NoSession /\ rx'[n][m].transfer = rx[n][m].transfer
         /\ f.kind = "DT" /\ f.seq = rx[n][m].next =>
              /\ rx'[n][m].next = Next8(rx[n][m].next)
              /\ ~(rx'[n][m].next > Total(rx[n][m].transfer))
         /\ ~(f.kind = "DT" /\ f.seq = rx[n][m].next) => rx'[n][m] = rx[n][m]
<1>1. /\ f \in Frame /\ f.sa = m /\ f.transfer \in Transfer /\ Handle(n, f) /\ TypeOK
      /\ f.kind # "ABORT" /\ f.kind # "RTS" /\ f.kind # "BAM"
  BY QuietHead DEF RxFrame, QuietInv, IntactInv, Honest, IsHeader
<1>2. CASE HearCts(n, f) \/ HearEom(n, f)
  BY <1>1, <1>2 DEF HearCts, HearEom
<1>3. CASE HearStrayDt(n, f)
  BY <1>1, <1>3 DEF HearStrayDt
<1>4. CASE HearWrongDt(n, f)
  BY <1>1, <1>4 DEF HearWrongDt, Expected
<1>5. CASE HearNextDt(n, f)
  <2>1. /\ f.seq = rx[n][m].next /\ rx[n][m] # NoSession
        /\ rx'[n][m] = Accepted(rx[n][m], f) /\ ~IsComplete(Accepted(rx[n][m], f))
    BY <1>1, <1>5 DEF HearNextDt, Expected, TypeOK
  <2>2. rx[n][m] \in Session
    BY <1>1, <2>1 DEF TypeOK
  <2>3. PICK r : r = rx[n][m]
    OBVIOUS
  <2>4. PICK a : a = Accepted(r, f)
    OBVIOUS
  <2>5. /\ a.transfer = r.transfer /\ a.next = Next8(r.next) /\ ~(a.next > Total(r.transfer))
    BY <1>1, <2>1, <2>2, <2>3, <2>4, AcceptedType DEF IsComplete
  <2>6. f.kind = "DT"
    BY <1>5 DEF HearNextDt
  <2> QED
    BY <2>1, <2>3, <2>4, <2>5, <2>6
<1>6. CASE HearLastDt(n, f)
  <2>1. rx'[n][m] = NoSession
    BY <1>1, <1>6 DEF HearLastDt, TypeOK
  <2> QED
    BY <2>1
<1> QED
  BY <1>1, <1>2, <1>3, <1>4, <1>5, <1>6 DEF Handle, HearRts, HearBam, HearAbort

(* Taking a frame leaves on its track the broadcast of the other node.     *)
LEMMA TrackHear ==
  ASSUME QuietInv, TrackInv, TypeOK', SessionsHonest', \A t \in Transfer : Packets[t] < SeqMod,
         NEW n \in Node, NEW m \in Node, m # n, Node = {m, n}, RxFrame(n),
         NEW t \in Transfer, ~Unicast(t), n # Src[t]
  PROVE  OnTrack(n, t)'
<1> DEFINE q == inbox[n]
           p == inbox'[n]
           l == SentUpTo(t)
<1>1. /\ TypeOK /\ SessionsHonest /\ OnTrack(n, t) /\ q # <<>>
      /\ q \in Seq(Frame) /\ p \in Seq(Frame)
  BY DEF QuietInv, IntactInv, TrackInv, RxFrame, TypeOK
<1>2. Src[t] = m
  BY TransferAssumption
<1>3. PICK f : f = Head(q)
  OBVIOUS
<1>4. f \in Frame /\ f = q[1] /\ 1 \in DOMAIN q /\ f.sa = m
  BY <1>1, <1>3, QuietHead
<1>5. status'[t] = status[t] /\ seq'[t] = seq[t]
  BY HearLeaves
<1>6. p = Tail(q)
  <2>1. CASE inbox' = Received(n)
    BY <1>1, <2>1, ReceivedShifted
  <2>2. ASSUME NEW g \in Frame, inbox' = Sent(Received(n), n, g) PROVE p = Tail(q)
    BY <1>1, <2>2, RepliedShifted
  <2> QED
    BY <2>1, <2>2, HearLeaves
<1>7. /\ \A i \in Announced(n, t)' : i \in Nat \ {0} /\ i + 1 \in Announced(n, t)
      /\ \A j \in DtsOf(n, t)' : /\ j \in Nat \ {0} /\ j + 1 \in DtsOf(n, t)
                                /\ p[j] = q[j + 1]
      /\ \A a \in Nat \ {0} : Bare(q, Src[t], a + 1, Len(q)) => Bare(p, Src[t], a, Len(p))
  BY <1>1, <1>6, TrackTaken
<1>8. /\ SentUpTo(t)' = l /\ (Short(t)' <=> Short(t))
  BY <1>5 DEF SentUpTo, Unsent, Short, Total
<1>9. IsHeader(f) => rx'[n][m] = Opened(f) /\ (f.transfer = t => 1 \in Announced(n, t))
  BY <1>3, <1>4, HearSessions DEF Announced
<1>10. l \in Int
  BY <1>1, TotalFacts DEF SentUpTo, TypeOK, Seq8
<1> HIDE DEF l
<1>11. InLine(n, t)'
  <2>1. ASSUME status[t] = "bam", NEW i \in Announced(n, t)' PROVE Bare(p, Src[t], i + 1, Len(p))
    <3>1. i \in Nat \ {0} /\ i + 1 \in Announced(n, t)
      BY <1>7
    <3>2. Bare(q, Src[t], (i + 1) + 1, Len(q))
      BY <1>1, <2>1, <3>1 DEF OnTrack, InLine
    <3> QED
      BY <1>7, <3>1, <3>2
  <2>2. ASSUME status[t] = "bam", Held(n, t)' PROVE Bare(p, Src[t], 1, Len(p))
    <3>1. rx'[n][m] # NoSession /\ rx'[n][m].transfer = t
      BY <1>2, <2>2 DEF Held, SessionsHonest
    <3>2. Bare(q, Src[t], 1 + 1, Len(q))
      <4>1. CASE IsHeader(f)
        <5>1. 1 \in Announced(n, t)
          BY <1>9, <3>1, <4>1 DEF Opened
        <5> QED
          BY <1>1, <2>2, <5>1 DEF OnTrack, InLine
      <4>2. CASE ~IsHeader(f)
        <5>1. Held(n, t)
          BY <1>3, <3>1, <4>2, SessionStep DEF Held
        <5>2. Bare(q, Src[t], 1, Len(q))
          BY <1>1, <2>2, <5>1 DEF OnTrack, InLine
        <5>3. \A y \in (1 + 1) .. Len(q) : y \in 1 .. Len(q)
          OBVIOUS
        <5> QED
          BY <5>2, <5>3 DEF Bare
      <4> QED
        BY <4>1, <4>2
    <3> QED
      BY <1>7, <3>2
  <2> QED
    BY <1>5, <2>1, <2>2 DEF InLine, Bare, HeaderOf, IsHeader
<1>12. ASSUME Short(t) PROVE SessionFed(n, t)' /\ HeaderFed(n, t)' /\ Numbered(n, t)'
  <2>1. SessionFed(n, t) /\ HeaderFed(n, t) /\ Numbered(n, t)
    BY <1>1, <1>12 DEF OnTrack
  <2>2. \A i \in Nat \ {0} : \A k : Train(q, t, i + 1, k, l) => Train(p, t, i, k, l)
    BY <1>1, <1>6, TrainTail
  <2>3. \A i \in Announced(n, t)' : Train(p, t, i + 1, 1, l)
    <3> SUFFICES ASSUME NEW i \in Announced(n, t)' PROVE Train(p, t, i + 1, 1, l)
      OBVIOUS
    <3>1. i \in Nat \ {0} /\ i + 1 \in Announced(n, t) /\ i + 1 \in Nat \ {0}
      BY <1>7
    <3>2. Train(q, t, (i + 1) + 1, 1, l)
      BY <2>1, <3>1 DEF HeaderFed, l
    <3> QED
      BY <2>2, <3>1, <3>2
  <2>4. HeaderFed(n, t)'
    BY <1>8, <2>3 DEF HeaderFed, Train, Bare, HeaderOf, IsHeader
  <2>5. \A j \in DtsOf(n, t)' : p[j].seq \in 1 .. l
    BY <1>7, <2>1 DEF Numbered, l
  <2>6. Numbered(n, t)'
    <3>1. \A i, j \in DtsOf(n, t)' : i < j => p[i].seq < p[j].seq
      <4> SUFFICES ASSUME NEW i \in DtsOf(n, t)', NEW j \in DtsOf(n, t)', i < j
                   PROVE  p[i].seq < p[j].seq
        OBVIOUS
      <4>1. /\ i \in Nat /\ i + 1 \in DtsOf(n, t) /\ p[i] = q[i + 1]
            /\ j \in Nat /\ j + 1 \in DtsOf(n, t) /\ p[j] = q[j + 1]
        BY <1>7
      <4>2. i + 1 < j + 1
        BY <4>1
      <4> QED
        BY <2>1, <4>1, <4>2 DEF Numbered
    <3>2. status[t] = "bam" => seq[t] \in 1 .. Total(t) + 1
      BY <2>1 DEF Numbered
    <3> QED
      BY <1>5, <1>8, <2>5, <3>1, <3>2 DEF Numbered, Total
  <2>7. ASSUME rx'[n][m] # NoSession, rx'[n][m].transfer = t
        PROVE  /\ rx'[n][m].next \in 1 .. Total(t) /\ rx'[n][m].next <= l + 1
               /\ Train(p, t, 1, rx'[n][m].next, l)
               /\ \A j \in DtsOf(n, t)' : p[j].seq >= rx'[n][m].next
    <3>1. CASE IsHeader(f)
      <4>1. rx'[n][m].next = 1 /\ 1 \in Announced(n, t)
        BY <1>9, <2>7, <3>1 DEF Opened
      <4>2. Train(p, t, 1, 1, l)
        BY <2>1, <2>2, <4>1 DEF HeaderFed, l
      <4>3. 1 \in 1 .. Total(t)
        BY TotalFacts
      <4>4. \A j \in DtsOf(n, t)' : p[j].seq >= 1
        BY <2>5
      <4>5. 1 <= l + 1
        <5>1. Total(t) \in Nat
          BY TotalFacts
        <5>2. status[t] = "bam" => seq[t] \in 1 .. Total(t) + 1
          BY <2>1 DEF Numbered
        <5> QED
          BY <5>1, <5>2 DEF l, SentUpTo
      <4> QED
        BY <4>1, <4>2, <4>3, <4>4, <4>5
    <3>2. CASE ~IsHeader(f)
      <4>1. PICK r : r = rx[n][m]
        OBVIOUS
      <4>2. PICK k : k = r.next
        OBVIOUS
      <4>3. /\ r # NoSession /\ r.transfer = t
            /\ f.kind = "DT" /\ f.seq = k => rx'[n][m].next = Next8(k) /\ ~(Next8(k) > Total(t))
            /\ ~(f.kind = "DT" /\ f.seq = k) => rx'[n][m] = r
        BY <1>3, <2>7, <3>2, <4>1, <4>2, SessionStep
      <4>4. /\ k \in 1 .. Total(t) /\ k <= l + 1 /\ Train(q, t, 1, k, l)
            /\ \A j \in DtsOf(n, t) : q[j].seq >= k
        BY <1>2, <2>1, <4>1, <4>2, <4>3 DEF SessionFed, l
      <4>5. CASE f.kind = "DT" /\ f.seq = k
        <5>1. f.transfer = t
          BY <1>1, <1>3, <1>4, <4>1, <4>3, <4>5, HeadBelongs DEF QuietInv
        <5>2. 1 \in DtsOf(n, t)
          BY <1>4, <4>5, <5>1 DEF DtsOf
        <5>3. Next8(k) = k + 1 /\ k \in Nat /\ k + 1 \in Nat /\ k + 1 >= k
          <6>1. Total(t) \in Nat /\ SeqMod \in Nat /\ Total(t) + 1 < SeqMod
            BY <1>12, TotalFacts DEF Short
          <6>2. k \in Nat /\ k + 1 < SeqMod
            BY <4>4, <6>1
          <6>3. (k + 1) % SeqMod = k + 1
            BY <6>1, <6>2
          <6> QED
            BY <6>2, <6>3 DEF Next8
        <5>4. k + 1 \in 1 .. Total(t)
          <6>1. Total(t) \in Nat
            BY TotalFacts
          <6> QED
            BY <4>3, <4>5, <5>3, <6>1
        <5>5. Train(p, t, 1, k + 1, l)
          <6>1. \A x \in (k + 1) .. l : ~(q[1].kind = "DT" /\ q[1].transfer = t /\ q[1].seq = x)
            BY <1>4, <4>5, <5>3
          <6> QED
            BY <1>1, <1>6, <1>10, <4>4, <5>3, <6>1, TrainPast
        <5>6. \A j \in DtsOf(n, t)' : p[j].seq >= k + 1
          <6> SUFFICES ASSUME NEW j \in DtsOf(n, t)' PROVE p[j].seq >= k + 1
            OBVIOUS
          <6>1. j \in Nat \ {0} /\ j + 1 \in DtsOf(n, t) /\ p[j] = q[j + 1]
            BY <1>7
          <6>2. 1 < j + 1
            BY <6>1
          <6>3. q[1].seq < q[j + 1].seq
            BY <2>1, <5>2, <6>1, <6>2 DEF Numbered
          <6>4. PICK x : x = p[j].seq
            OBVIOUS
          <6>5. x \in Int /\ k < x
            BY <1>4, <2>5, <4>5, <6>1, <6>3, <6>4
          <6> QED
            BY <5>3, <6>4, <6>5
        <5>7. k + 1 <= l + 1
          <6>1. k \in 1 .. l
            BY <1>4, <2>1, <4>5, <5>2 DEF Numbered, l
          <6> QED
            BY <1>10, <6>1
        <5> QED
          BY <4>3, <4>5, <5>3, <5>4, <5>5, <5>6, <5>7
      <4>6. CASE ~(f.kind = "DT" /\ f.seq = k)
        <5>1. rx'[n][m].next = k /\ k \in Nat /\ k >= k
          BY <4>2, <4>3, <4>4, <4>6
        <5>2. ~(q[1].kind = "DT" /\ q[1].transfer = t)
          <6> SUFFICES ASSUME q[1].kind = "DT", q[1].transfer = t PROVE FALSE
            OBVIOUS
          <6>1. 1 \in DtsOf(n, t)
            BY <1>4 DEF DtsOf
          <6>2. q[1].seq = k
            BY <1>1, <1>2, <1>10, <2>1, <4>1, <4>2, <4>3, <6>1, HeadIsNext DEF l
          <6> QED
            BY <1>4, <4>6, <6>2
        <5>3. Train(p, t, 1, k, l)
          BY <1>1, <1>6, <1>10, <4>4, <5>1, <5>2, TrainPast
        <5>4. \A j \in DtsOf(n, t)' : p[j].seq >= k
          BY <1>7, <4>4
        <5> QED
          BY <4>4, <5>1, <5>3, <5>4
      <4> QED
        BY <4>5, <4>6
    <3> QED
      BY <3>1, <3>2
  <2>8. SessionFed(n, t)'
    BY <1>2, <1>8, <2>7 DEF SessionFed, Train, Bare, HeaderOf, IsHeader, Total
  <2> QED
    BY <2>4, <2>6, <2>8
<1> QED
  BY <1>1, <1>5, <1>8, <1>11, <1>12 DEF OnTrack, Unsent

(* What a broadcaster appends.                                             *)
LEMMA OwnAppend ==
  ASSUME TypeOK, NEW n \in Node, NEW t \in Transfer, NEW g \in Frame,
         inbox'[n] = Append(inbox[n], g)
  PROVE  /\ Len(inbox[n]) \in Nat /\ Len(inbox'[n]) = Len(inbox[n]) + 1
         /\ \A i \in Announced(n, t) : i \in 1 .. Len(inbox[n])
         /\ \A i \in Announced(n, t)' :
              i \in Announced(n, t) \/ (i = Len(inbox[n]) + 1 /\ IsHeader(g))
         /\ \A j \in DtsOf(n, t)' :
              \/ /\ j \in DtsOf(n, t) /\ inbox'[n][j] = inbox[n][j]
                 /\ j \in 1 .. Len(inbox[n])
              \/ j = Len(inbox[n]) + 1 /\ g.kind = "DT" /\ inbox'[n][j] = g
         /\ \A a \in Nat \ {0} : Bare(inbox[n], Src[t], a, Len(inbox[n])) /\ ~IsHeader(g)
                                   => Bare(inbox'[n], Src[t], a, Len(inbox'[n]))
<1> DEFINE q == inbox[n]
           p == inbox'[n]
           e == Len(q) + 1
<1>1. /\ q \in Seq(Frame) /\ Len(q) \in Nat /\ DOMAIN q = 1 .. Len(q)
      /\ Len(p) = e /\ DOMAIN p = 1 .. e /\ p[e] = g
      /\ \A i \in 1 .. Len(q) : p[i] = q[i]
  BY QueueDomain, AppendProperties, LenProperties DEF TypeOK
<1> HIDE DEF p, q
<1>2. \A i \in DOMAIN p : i \in 1 .. Len(q) \/ i = e
  BY <1>1
<1>3. /\ Announced(n, t)' = {i \in DOMAIN p : IsHeader(p[i]) /\ p[i].transfer = t}
      /\ Announced(n, t) = {i \in DOMAIN q : IsHeader(q[i]) /\ q[i].transfer = t}
  BY DEF Announced, p, q, IsHeader
<1>4. /\ DtsOf(n, t)' = {i \in DOMAIN p : p[i].kind = "DT" /\ p[i].transfer = t}
      /\ DtsOf(n, t) = {i \in DOMAIN q : q[i].kind = "DT" /\ q[i].transfer = t}
  BY DEF DtsOf, p, q
<1>5. ASSUME NEW a \in Nat \ {0}, Bare(q, Src[t], a, Len(q)), ~IsHeader(g)
      PROVE  Bare(p, Src[t], a, Len(p))
  <2> SUFFICES ASSUME NEW i \in a .. Len(p) PROVE ~HeaderOf(Src[t], p[i])
    BY DEF Bare
  <2>1. CASE i = e
    BY <1>1, <1>5, <2>1 DEF HeaderOf
  <2>2. CASE i # e
    <3>1. i \in a .. Len(q) /\ i \in 1 .. Len(q)
      BY <1>1, <2>2
    <3> QED
      BY <1>1, <1>5, <3>1 DEF Bare
  <2> QED
    BY <2>1, <2>2
<1>6. \A i \in Announced(n, t)' : i \in Announced(n, t) \/ (i = e /\ IsHeader(g))
  BY <1>1, <1>2, <1>3
<1>7. \A j \in DtsOf(n, t)' : \/ j \in DtsOf(n, t) /\ p[j] = q[j] /\ j \in 1 .. Len(q)
                              \/ j = e /\ g.kind = "DT" /\ p[j] = g
  BY <1>1, <1>2, <1>4
<1>8. \A i \in Announced(n, t) : i \in 1 .. Len(q)
  BY <1>1, <1>3
<1> QED
  BY <1>1, <1>5, <1>6, <1>7, <1>8 DEF p, q

(* An announcement puts its broadcast on its track.                        *)
LEMMA TrackStart ==
  ASSUME QuietInv, TypeOK', NEW n \in Node, NEW t \in Transfer, Packets[t] < SeqMod,
         ~Unicast(t), n # Src[t], OnTrack(n, t), StartBam(t)
  PROVE  OnTrack(n, t)'
<1> DEFINE q == inbox[n]
           p == inbox'[n]
           e == Len(q) + 1
<1>1. PICK g : g = Control("BAM", Src[t], All, t, 0)
  OBVIOUS
<1>2. TypeOK /\ Src[t] \in Node
  BY TransferAssumption DEF QuietInv, IntactInv
<1>3. g \in Frame /\ g.kind = "BAM"
  <2>1. 0 \in Seq8
    BY TransferAssumption DEF Seq8
  <2> QED
    BY <1>1, <1>2, <2>1, FrameTypes DEF Control
<1>4. p = Append(q, g)
  BY <1>1, <1>2 DEF StartBam, Sent
<1>5. /\ status[t] = "idle" /\ status'[t] = "bam" /\ seq'[t] = 1 /\ rx' = rx
  BY <1>2 DEF StartBam, MayStart, TypeOK
<1>6. Announced(n, t) = {} /\ ~Held(n, t)
  BY <1>2, <1>5 DEF QuietInv, OnceInv, Once, Unsent
<1>7. /\ Len(q) \in Nat /\ Len(p) = e
      /\ \A i \in Announced(n, t)' : i = e
      /\ \A j \in DtsOf(n, t)' : j \in DtsOf(n, t)
  BY <1>2, <1>3, <1>4, <1>6, OwnAppend
<1>8. ~Held(n, t)'
  BY <1>5, <1>6 DEF Held
<1>9. InLine(n, t)'
  <2>1. \A i \in Announced(n, t)' : (i + 1) .. Len(p) = {}
    BY <1>7
  <2> QED
    BY <1>8, <2>1 DEF InLine, Bare
<1>10. SentUpTo(t)' = 0 /\ (Short(t)' <=> Short(t))
  BY <1>5 DEF SentUpTo, Unsent, Short, Total
<1>11. ASSUME Short(t) PROVE SessionFed(n, t)' /\ HeaderFed(n, t)' /\ Numbered(n, t)'
  <2>1. Numbered(n, t) /\ SentUpTo(t) = 0
    BY <1>5, <1>11 DEF OnTrack, SentUpTo, Unsent
  <2>2. DtsOf(n, t)' = {}
    BY <1>7, <2>1 DEF Numbered
  <2>3. SessionFed(n, t)'
    BY <1>2, <1>8 DEF SessionFed, Held
  <2>4. HeaderFed(n, t)'
    BY <1>10 DEF HeaderFed, Train
  <2>5. 1 \in 1 .. Total(t) + 1
    BY TotalFacts
  <2>6. Numbered(n, t)'
    BY <1>5, <2>2, <2>5 DEF Numbered, Total
  <2> QED
    BY <2>3, <2>4, <2>6
<1> QED
  BY <1>5, <1>9, <1>10, <1>11 DEF OnTrack

(* A packet more makes its train one longer.                               *)
LEMMA TrackStep ==
  ASSUME QuietInv, TypeOK', NEW n \in Node, NEW t \in Transfer, Packets[t] < SeqMod,
         ~Unicast(t), n # Src[t], OnTrack(n, t), StepBam(t)
  PROVE  OnTrack(n, t)'
<1> DEFINE q == inbox[n]
           p == inbox'[n]
           e == Len(q) + 1
           l == SentUpTo(t)
<1>1. PICK x : x = seq[t]
  OBVIOUS
<1>2. PICK g : g = Data(Src[t], All, t, x)
  OBVIOUS
<1>3. TypeOK /\ Src[t] \in Node /\ x \in Seq8
  BY <1>1, TransferAssumption DEF QuietInv, IntactInv, TypeOK
<1>4. g \in Frame /\ g.kind = "DT" /\ g.transfer = t /\ g.seq = x /\ ~IsHeader(g)
  BY <1>2, <1>3, FrameTypes DEF Data, IsHeader
<1>5. p = Append(q, g)
  BY <1>1, <1>2, <1>3 DEF StepBam, Sent
<1>6. /\ status[t] = "bam" /\ status' = status /\ rx' = rx /\ x <= Total(t)
      /\ seq'[t] = Next8(x)
  BY <1>1, <1>3 DEF StepBam, MorePackets, TypeOK
<1>7. /\ q \in Seq(Frame) /\ Len(q) \in Nat /\ Len(p) = e
      /\ \A i \in Announced(n, t) : i \in 1 .. Len(q)
      /\ \A i \in Announced(n, t)' : i \in Announced(n, t)
      /\ \A j \in DtsOf(n, t)' : \/ j \in DtsOf(n, t) /\ p[j] = q[j] /\ j \in 1 .. Len(q)
                                 \/ j = e /\ p[j] = g
      /\ \A a \in Nat \ {0} : Bare(q, Src[t], a, Len(q)) => Bare(p, Src[t], a, Len(p))
  <2>1. /\ Len(q) \in Nat /\ Len(p) = e
        /\ \A i \in Announced(n, t) : i \in 1 .. Len(q)
    BY <1>3, <1>4, <1>5, OwnAppend
  <2>5. q \in Seq(Frame)
    BY <1>3 DEF TypeOK
  <2>2. \A i \in Announced(n, t)' : i \in Announced(n, t)
    BY <1>3, <1>4, <1>5, OwnAppend
  <2>3. \A j \in DtsOf(n, t)' : \/ j \in DtsOf(n, t) /\ p[j] = q[j] /\ j \in 1 .. Len(q)
                                \/ j = e /\ p[j] = g
    BY <1>3, <1>4, <1>5, OwnAppend
  <2>4. \A a \in Nat \ {0} : Bare(q, Src[t], a, Len(q)) => Bare(p, Src[t], a, Len(p))
    BY <1>3, <1>4, <1>5, OwnAppend
  <2> QED
    BY <2>1, <2>2, <2>3, <2>4, <2>5
<1>8. Held(n, t)' <=> Held(n, t)
  BY <1>6 DEF Held
<1>9. \A i \in Announced(n, t) : i + 1 \in Nat \ {0} /\ i + 1 <= Len(q) + 1
  BY <1>7
<1>10. InLine(n, t)
  BY DEF OnTrack
<1> HIDE DEF p
<1>11. InLine(n, t)'
  <2>1. \A i \in Announced(n, t)' : Bare(p, Src[t], i + 1, Len(p))
    BY <1>6, <1>7, <1>9, <1>10 DEF InLine
  <2>2. Held(n, t)' => Bare(p, Src[t], 1, Len(p))
    BY <1>6, <1>7, <1>8, <1>10 DEF InLine
  <2> QED
    BY <2>1, <2>2 DEF InLine, p, Bare, HeaderOf, IsHeader
<1>12. Short(t)' <=> Short(t)
  BY DEF Short, Total
<1>13. ASSUME Short(t) PROVE SessionFed(n, t)' /\ HeaderFed(n, t)' /\ Numbered(n, t)'
  <2>1. SessionFed(n, t) /\ HeaderFed(n, t) /\ Numbered(n, t)
    BY <1>13 DEF OnTrack
  <2>2. Total(t) \in Nat /\ SeqMod \in Nat /\ Total(t) + 1 < SeqMod
    BY <1>13, TotalFacts DEF Short
  <2>3. x \in 1 .. Total(t) + 1
    BY <1>1, <1>6, <2>1 DEF Numbered
  <2>4. x \in Nat \ {0} /\ Next8(x) = x + 1 /\ x + 1 \in 1 .. Total(t) + 1
    <3>1. x \in Nat \ {0} /\ x + 1 < SeqMod /\ x + 1 <= Total(t) + 1
      BY <1>6, <2>2, <2>3
    <3>2. (x + 1) % SeqMod = x + 1
      BY <2>2, <3>1
    <3> QED
      BY <2>2, <3>1, <3>2 DEF Next8
  <2>5. l = x - 1 /\ l \in Nat /\ l + 1 = x /\ SentUpTo(t)' = x
    BY <1>1, <1>6, <2>4 DEF SentUpTo
  <2> HIDE DEF l
  <2>6. \A a \in Nat \ {0} : \A k \in Int :
          Train(q, t, a, k, l) /\ Bare(q, Src[t], a, Len(q)) /\ a <= Len(q) + 1
            => Train(p, t, a, k, l + 1)
    <3> SUFFICES ASSUME NEW a \in Nat \ {0}, NEW k \in Int, Train(q, t, a, k, l),
                        Bare(q, Src[t], a, Len(q)), a <= Len(q) + 1
                 PROVE  Train(p, t, a, k, l + 1)
      OBVIOUS
    <3>1. q \in Seq(Frame) /\ l \in Int /\ g.seq = l + 1 /\ p = Append(q, g)
      BY <1>4, <1>5, <1>7, <2>5
    <3> HIDE DEF q
    <3> QED
      BY <1>4, <3>1, TrainGrows
  <2>7. \A i \in Announced(n, t)' : Train(p, t, i + 1, 1, x)
    <3> SUFFICES ASSUME NEW i \in Announced(n, t)' PROVE Train(p, t, i + 1, 1, x)
      OBVIOUS
    <3>1. /\ i \in Announced(n, t) /\ Bare(q, Src[t], i + 1, Len(q))
          /\ Train(q, t, i + 1, 1, l)
      BY <1>6, <1>7, <1>10, <2>1 DEF InLine, HeaderFed, l
    <3> QED
      BY <1>9, <2>5, <2>6, <3>1
  <2>8. HeaderFed(n, t)'
    BY <2>5, <2>7 DEF HeaderFed, p, Train, Bare, HeaderOf, IsHeader
  <2>9. \A j \in DtsOf(n, t)' : \/ j \in DtsOf(n, t) /\ j < e /\ p[j].seq = q[j].seq /\ q[j].seq \in 1 .. l
                                \/ j = e /\ p[j].seq = x
    BY <1>4, <1>7, <2>1 DEF Numbered, l
  <2>10. SessionFed(n, t)'
    <3> SUFFICES ASSUME NEW r, r = rx[n][Src[t]], r # NoSession, r.transfer = t
                 PROVE  /\ r.next \in 1 .. Total(t) /\ r.next <= x + 1
                        /\ Train(p, t, 1, r.next, x)
                        /\ \A j \in DtsOf(n, t)' : p[j].seq >= r.next
      BY <1>6, <2>5 DEF SessionFed, p, Train, Bare, HeaderOf, IsHeader, Total
    <3>1. PICK k : k = r.next
      OBVIOUS
    <3>2. /\ k \in 1 .. Total(t) /\ k <= l + 1 /\ Train(q, t, 1, k, l)
          /\ \A j \in DtsOf(n, t) : q[j].seq >= k
      BY <2>1, <3>1 DEF SessionFed, l
    <3>3. Bare(q, Src[t], 1, Len(q))
      BY <1>3, <1>6, <1>10 DEF InLine, Held
    <3>4. k \in Int /\ k <= x
      BY <2>5, <3>2
    <3>5. Train(p, t, 1, k, x)
      BY <1>7, <2>5, <2>6, <3>2, <3>3, <3>4
    <3>6. \A j \in DtsOf(n, t)' : p[j].seq >= k
      BY <2>4, <2>9, <3>2, <3>4
    <3> QED
      BY <2>4, <3>1, <3>2, <3>4, <3>5, <3>6
  <2>11. \A j \in DtsOf(n, t)' : p[j].seq \in 1 .. x
    <3> SUFFICES ASSUME NEW j \in DtsOf(n, t)' PROVE p[j].seq \in 1 .. x
      OBVIOUS
    <3>1. PICK y : y = p[j].seq
      OBVIOUS
    <3>2. y \in 1 .. l \/ y = x
      BY <2>9, <3>1
    <3> QED
      BY <2>4, <2>5, <3>1, <3>2
  <2>12. \A i, j \in DtsOf(n, t)' : i < j => p[i].seq < p[j].seq
    <3> SUFFICES ASSUME NEW i \in DtsOf(n, t)', NEW j \in DtsOf(n, t)', i < j
                 PROVE  p[i].seq < p[j].seq
      OBVIOUS
    <3>1. i \in DtsOf(n, t) /\ p[i].seq = q[i].seq /\ q[i].seq \in 1 .. l
      <4>1. ~(i = e)
        <5>1. j \in Int /\ j <= e
          BY <1>7, <2>9
        <5> QED
          BY <1>7, <5>1
      <4> QED
        BY <2>9, <4>1
    <3>2. CASE j \in DtsOf(n, t) /\ p[j].seq = q[j].seq
      BY <2>1, <3>1, <3>2 DEF Numbered
    <3>3. CASE p[j].seq = x
      <4>1. PICK y : y = q[i].seq
        OBVIOUS
      <4>2. y < x
        BY <2>5, <3>1, <4>1
      <4> QED
        BY <3>1, <3>3, <4>1, <4>2
    <3> QED
      BY <2>9, <3>2, <3>3
  <2>13. Numbered(n, t)'
    BY <1>6, <2>4, <2>5, <2>11, <2>12 DEF Numbered, p, Total
  <2> QED
    BY <2>8, <2>10, <2>13
<1> QED
  BY <1>6, <1>11, <1>12, <1>13 DEF OnTrack

(* A broadcast that ends has sent all its packets.                         *)
LEMMA TrackEnd ==
  ASSUME QuietInv, NEW n \in Node, NEW t \in Transfer, Packets[t] < SeqMod,
         ~Unicast(t), n # Src[t], OnTrack(n, t), EndBam(t)
  PROVE  OnTrack(n, t)'
<1>1. TypeOK /\ seq[t] \in Seq8
  BY DEF QuietInv, IntactInv, TypeOK
<1>2. /\ status[t] = "bam" /\ status'[t] = "ok" /\ ~(seq[t] <= Total(t))
      /\ inbox' = inbox /\ rx' = rx /\ seq' = seq
  BY <1>1 DEF EndBam, MorePackets, TypeOK
<1>3. Total(t) \in Nat /\ SeqMod \in Nat
  BY TotalFacts
<1>4. Short(t)
  BY <1>1, <1>2, <1>3 DEF Short, Seq8
<1>5. SessionFed(n, t) /\ HeaderFed(n, t) /\ Numbered(n, t)
  BY <1>4 DEF OnTrack
<1>6. seq[t] \in 1 .. Total(t) + 1
  BY <1>2, <1>5 DEF Numbered
<1>7. seq[t] - 1 = Total(t)
  BY <1>2, <1>3, <1>6
<1>8. SentUpTo(t) = Total(t) /\ SentUpTo(t)' = Total(t)
  BY <1>2, <1>7 DEF SentUpTo, Unsent, Total
<1>9. /\ Announced(n, t)' = Announced(n, t) /\ DtsOf(n, t)' = DtsOf(n, t)
      /\ (Short(t)' <=> Short(t))
  BY <1>2 DEF Announced, DtsOf, IsHeader, Short, Total
<1>10. SessionFed(n, t)' /\ HeaderFed(n, t)' /\ Numbered(n, t)'
  BY <1>2, <1>5, <1>8, <1>9 DEF SessionFed, HeaderFed, Numbered, Train, Bare, HeaderOf,
                                IsHeader, Total
<1>11. InLine(n, t)'
  BY <1>2 DEF InLine
<1> QED
  BY <1>4, <1>9, <1>10, <1>11 DEF OnTrack

(* A broadcast that is refused has nothing under way, as before.           *)
LEMMA TrackRefused ==
  ASSUME TypeOK, NEW n \in Node, NEW t \in Transfer, OnTrack(n, t), StartFails(t)
  PROVE  OnTrack(n, t)'
<1>1. /\ inbox' = inbox /\ rx' = rx /\ seq' = seq
      /\ status[t] = "idle" /\ status'[t] = "refused"
  BY DEF StartFails, MayStart, TypeOK
<1>2. /\ Announced(n, t)' = Announced(n, t) /\ DtsOf(n, t)' = DtsOf(n, t)
      /\ (Short(t)' <=> Short(t)) /\ SentUpTo(t)' = SentUpTo(t) /\ Unsent(t)'
  BY <1>1 DEF Announced, DtsOf, Short, SentUpTo, Unsent, Total, IsHeader
<1>3. InLine(n, t)'
  BY <1>1 DEF InLine
<1>4. ASSUME Short(t) PROVE SessionFed(n, t)' /\ HeaderFed(n, t)' /\ Numbered(n, t)'
  BY <1>1, <1>2, <1>4
     DEF OnTrack, SessionFed, HeaderFed, Numbered, Train, Bare, HeaderOf, IsHeader, Total
<1> QED
  BY <1>2, <1>3, <1>4 DEF OnTrack

(* A step that loses nothing leaves every broadcast on its track.          *)
LEMMA TrackNext ==
  ASSUME TwoNodes, Quiet, OneAtATime, \A t \in Transfer : Packets[t] < SeqMod,
         QuietInv, QuietInv', TrackInv, [Next]_vars, \A n \in Node : ~Lose(n),
         \A t \in Transfer : ~BamFails(t)
  PROVE  TrackInv'
<1> SUFFICES ASSUME NEW n \in Node, NEW t \in Transfer, ~Unicast(t), n # Src[t]
             PROVE  OnTrack(n, t)'
  BY DEF TrackInv, Unicast
<1>1. /\ TypeOK /\ TypeOK' /\ SessionsHonest' /\ OnTrack(n, t) /\ KindsFit /\ Packets[t] < SeqMod
  BY DEF QuietInv, IntactInv, TrackInv
<1>2. PICK m : m = Src[t]
  OBVIOUS
<1>3. m \in Node /\ m # n /\ Node = {m, n}
  <2>1. m \in Node /\ m # n
    BY <1>2, TransferAssumption
  <2> QED
    BY <2>1, Pair
<1>4. ASSUME NEW u \in Transfer, u # t, NEW g \in Frame, g.transfer = u, g.sa = Src[u],
             inbox' = Sent(inbox, Src[u], g), rx' = rx, status'[t] = status[t], seq'[t] = seq[t],
             status[t] = "bam" => ~HeaderOf(Src[t], g)
      PROVE  OnTrack(n, t)'
  <2>1. inbox'[n] \in {inbox[n], Append(inbox[n], g)}
    BY <1>4 DEF Sent
  <2> QED
    BY <1>1, <1>4, <2>1, TrackAppend
<1>5. ASSUME NEW u \in Transfer, MayStart(u), status[t] = "bam" PROVE Src[u] # Src[t]
  BY <1>5 DEF MayStart, Busy
<1>6. ASSUME NEW u \in Transfer, NEW kind \in {"RTS", "BAM"}, NEW d \in Node \cup {All},
             NEW k \in Seq8
      PROVE  /\ Src[u] \in Node
             /\ Control(kind, Src[u], d, u, k) \in Frame /\ Data(Src[u], d, u, k) \in Frame
             /\ Control(kind, Src[u], d, u, k).transfer = u /\ Data(Src[u], d, u, k).transfer = u
             /\ Control(kind, Src[u], d, u, k).sa = Src[u] /\ Data(Src[u], d, u, k).sa = Src[u]
             /\ ~IsHeader(Data(Src[u], d, u, k))
  <2>1. Src[u] \in Node /\ kind \in {"RTS", "BAM", "CTS", "EOM"}
    BY TransferAssumption
  <2>2. Control(kind, Src[u], d, u, k) \in Frame /\ Data(Src[u], d, u, k) \in Frame
    BY <2>1, FrameTypes
  <2> QED
    BY <2>1, <2>2 DEF Control, Data, IsHeader
<1>7. 0 \in Seq8 /\ \A u \in Transfer : seq[u] \in Seq8 /\ Dst[u] \in Node \cup {All}
  BY <1>1, TransferAssumption DEF Seq8, TypeOK
<1>8. ASSUME NEW u \in Transfer, StartRts(u) PROVE OnTrack(n, t)'
  <2>1. u # t /\ MayStart(u)
    BY <1>8 DEF StartRts, Unicast
  <2>2. PICK g : g = Control("RTS", Src[u], Dst[u], u, 0)
    OBVIOUS
  <2>3. g \in Frame /\ g.transfer = u /\ g.sa = Src[u]
    <3>1. "RTS" \in {"RTS", "BAM"} /\ Dst[u] \in Node \cup {All} /\ 0 \in Seq8
      BY <1>7
    <3>2. /\ Control("RTS", Src[u], Dst[u], u, 0) \in Frame
          /\ Control("RTS", Src[u], Dst[u], u, 0).transfer = u
          /\ Control("RTS", Src[u], Dst[u], u, 0).sa = Src[u]
      BY ONLY <1>6, <3>1, u \in Transfer
    <3> QED
      BY <2>2, <3>2
  <2>4. /\ inbox' = Sent(inbox, Src[u], g) /\ rx' = rx /\ seq' = seq
        /\ status'[t] = status[t]
    BY <1>1, <1>8, <2>1, <2>2 DEF StartRts, TypeOK
  <2>5. status[t] = "bam" => ~HeaderOf(Src[t], g)
    BY <1>5, <2>1, <2>3 DEF HeaderOf
  <2> QED
    BY <1>4, <2>1, <2>3, <2>4, <2>5
<1>9. ASSUME NEW u \in Transfer, StartBam(u) PROVE OnTrack(n, t)'
  <2>1. CASE u = t
    BY <1>1, <1>9, <2>1, TrackStart
  <2>2. CASE u # t
    <3>1. MayStart(u) /\ Dst[u] = All
      BY <1>9 DEF StartBam
    <3>2. PICK g : g = Control("BAM", Src[u], Dst[u], u, 0)
      OBVIOUS
    <3>3. g \in Frame /\ g.transfer = u /\ g.sa = Src[u]
      <4>1. "BAM" \in {"RTS", "BAM"} /\ Dst[u] \in Node \cup {All} /\ 0 \in Seq8
        BY <1>7
      <4> QED
        BY <1>6, <3>2, <4>1
    <3>4. /\ inbox' = Sent(inbox, Src[u], g) /\ rx' = rx
          /\ seq'[t] = seq[t] /\ status'[t] = status[t]
      BY <1>1, <1>9, <2>2, <3>1, <3>2 DEF StartBam, TypeOK
    <3>5. status[t] = "bam" => ~HeaderOf(Src[t], g)
      BY <1>5, <3>1, <3>3 DEF HeaderOf
    <3> QED
      BY <1>4, <2>2, <3>3, <3>4, <3>5
  <2> QED
    BY <2>1, <2>2
<1>10. ASSUME NEW u \in Transfer, StepBam(u) PROVE OnTrack(n, t)'
  <2>1. CASE u = t
    BY <1>1, <1>10, <2>1, TrackStep
  <2>2. CASE u # t
    <3>1. PICK g : g = Data(Src[u], All, u, seq[u])
      OBVIOUS
    <3>2. g \in Frame /\ g.transfer = u /\ g.sa = Src[u] /\ ~IsHeader(g)
      <4>1. seq[u] \in Seq8 /\ All \in Node \cup {All} /\ "BAM" \in {"RTS", "BAM"}
        BY <1>7
      <4>2. /\ Data(Src[u], All, u, seq[u]) \in Frame
            /\ Data(Src[u], All, u, seq[u]).transfer = u
            /\ Data(Src[u], All, u, seq[u]).sa = Src[u]
            /\ ~IsHeader(Data(Src[u], All, u, seq[u]))
        BY ONLY <1>6, <4>1, u \in Transfer
      <4> QED
        BY <3>1, <4>2
    <3>3. /\ inbox' = Sent(inbox, Src[u], g) /\ rx' = rx
          /\ seq'[t] = seq[t] /\ status'[t] = status[t]
      BY <1>1, <1>10, <2>2, <3>1 DEF StepBam, TypeOK
    <3> QED
      BY <1>4, <2>2, <3>2, <3>3 DEF HeaderOf
  <2> QED
    BY <2>1, <2>2
<1>11. ASSUME NEW u \in Transfer, EndBam(u) PROVE OnTrack(n, t)'
  <2>1. CASE u = t
    BY <1>1, <1>11, <2>1, TrackEnd
  <2>2. CASE u # t
    <3>1. inbox' = inbox /\ rx' = rx /\ seq' = seq /\ status'[t] = status[t]
      BY <1>1, <1>11, <2>2 DEF EndBam, TypeOK
    <3> QED
      BY <1>1, <3>1, TrackSame
  <2> QED
    BY <2>1, <2>2
<1>16. ASSUME NEW u \in Transfer, StartFails(u) PROVE OnTrack(n, t)'
  <2>1. inbox' = inbox /\ rx' = rx /\ seq' = seq
    BY <1>16 DEF StartFails
  <2>2. CASE u = t
    BY <1>1, <1>16, <2>2, TrackRefused
  <2>3. CASE u # t
    <3>1. status'[t] = status[t]
      BY <1>1, <1>16, <2>3 DEF StartFails, TypeOK
    <3> QED
      BY <1>1, <2>1, <3>1, TrackSame
  <2> QED
    BY <2>2, <2>3
<1>12. ASSUME NEW u \in Transfer, Timeout(u) PROVE OnTrack(n, t)'
  <2>1. u # t
    BY <1>1, <1>12 DEF Timeout, KindsFit
  <2>2. inbox' = inbox /\ rx' = rx /\ seq' = seq /\ status'[t] = status[t]
    BY <1>1, <1>12, <2>1 DEF Timeout, TypeOK
  <2> QED
    BY <1>1, <2>2, TrackSame
<1>13. ASSUME NEW k \in Node, RxFrame(k) PROVE OnTrack(n, t)'
  <2>1. CASE k = n
    BY <1>1, <1>3, <1>13, <2>1, TrackHear
  <2>2. CASE k = m
    <3>1. Node = {n, m}
      BY <1>3
    <3> QED
      BY <1>2, <1>3, <1>13, <2>2, <3>1, TrackElsewhere
  <2> QED
    BY <1>3, <2>1, <2>2
<1>14. ASSUME NEW s \in Node, NEW d \in Node, ForeignAbort(s, d) PROVE OnTrack(n, t)'
  BY <1>1, <1>14 DEF ForeignAbort, Quiet, TypeOK
<1>15. CASE UNCHANGED vars
  <2>1. inbox' = inbox /\ rx' = rx /\ seq' = seq /\ status' = status
    BY <1>15 DEF vars
  <2> QED
    BY <1>1, <2>1, TrackSame
<1> QED
  BY <1>8, <1>9, <1>10, <1>11, <1>12, <1>13, <1>14, <1>15, <1>16 DEF Next

(* No step but a loss parts a unicast session from its waiting sender.     *)
LEMMA HeldNext ==
  ASSUME TwoNodes, Quiet, losses = 0, QuietInv, QuietInv', HeldOpen, [Next]_vars,
         \A n \in Node : ~Lose(n), \A t \in Transfer : ~BamFails(t)
  PROVE  HeldOpen'
<1> SUFFICES ASSUME NEW k \in Node, NEW u \in Transfer, Held(k, u)', Unicast(u)
             PROVE  status'[u] = "rts"
  BY DEF HeldOpen, Unicast
<1>1. /\ TypeOK /\ SessionsHonest /\ KindsFit /\ OnceInv /\ DialogueInv
  BY DEF QuietInv, IntactInv
<1>2. ASSUME rx' = rx PROVE status[u] = "rts"
  BY <1>2 DEF Held, HeldOpen
<1>3. ASSUME NEW t \in Transfer,
             StartRts(t) \/ StartBam(t) \/ StartFails(t) \/ StepBam(t) \/ EndBam(t)
      PROVE  status'[u] = "rts"
  <2>1. rx' = rx /\ status[t] # "rts" /\ \A v \in Transfer : v # t => status'[v] = status[v]
    BY <1>1, <1>3 DEF StartRts, StartBam, StartFails, StepBam, EndBam, MayStart, TypeOK
  <2> QED
    BY <1>2, <2>1
<1>4. ASSUME NEW t \in Transfer, Timeout(t) PROVE FALSE
  <2>1. Unicast(t) /\ ~Open(t) /\ status[t] = "rts"
    BY <1>4, TimerFires DEF Timeout
  <2> QED
    BY <1>1, <2>1 DEF DialogueInv, Dialogue, Stalled
<1>5. ASSUME NEW n \in Node, RxFrame(n) PROVE status'[u] = "rts"
  <2>1. PICK m \in Node : m # n /\ Node = {m, n}
    BY Pair
  <2>2. PICK f : f = Head(inbox[n])
    OBVIOUS
  <2>3. PICK w : w = f.transfer
    OBVIOUS
  <2>4. w \in Transfer /\ (Unicast(w) => status[w] = "rts")
    BY <1>5, <2>1, <2>2, <2>3, QuietHead DEF RxFrame
  <2>5. PICK s \in Node : rx'[k][s] # NoSession /\ rx'[k][s].transfer = u
    BY DEF Held
  <2>6. ASSUME Held(k, u) PROVE status[u] = "rts"
    BY <2>6 DEF HeldOpen
  <2>7. ASSUME Unicast(w), Ends(n, m, w) PROVE status'[u] = "rts"
    <3>1. Held(k, u)
      BY <2>5, <2>7 DEF Ends, Held
    <3>2. u # w
      <4> SUFFICES ASSUME u = w PROVE FALSE
        OBVIOUS
      <4>1. ~Held(m, u)
        BY <1>1, <2>7 DEF Ends, OnceInv, Once
      <4>2. k = n
        BY <2>1, <3>1, <4>1
      <4> QED
        BY <1>1, <2>7, <3>1, <4>2 DEF Ends, Held, SessionsHonest
    <3>3. status'[u] = status[u]
      BY <1>1, <2>7, <3>2 DEF Ends, TypeOK
    <3> QED
      BY <2>6, <3>1, <3>3
  <2>8. ASSUME UNCHANGED status PROVE status'[u] = "rts"
    <3>1. CASE Held(k, u)
      BY <2>6, <2>8, <3>1
    <3>2. CASE ~Held(k, u)
      <4>1. rx'[k][s] # rx[k][s]
        BY <2>5, <3>2 DEF Held
      <4>2. k = n /\ s = m
        BY <1>5, <2>1, <2>2, <4>1, HearSessions
      <4>3. \/ IsHeader(f) /\ rx'[n][m] = Opened(f)
            \/ rx[n][m] # NoSession /\ rx'[n][m] = Accepted(rx[n][m], f)
        BY <1>5, <2>1, <2>2, <2>5, <4>1, <4>2, HearSessions
      <4>4. CASE IsHeader(f) /\ rx'[n][m] = Opened(f)
        <5>1. u = w
          BY <2>3, <2>5, <4>2, <4>4 DEF Opened
        <5> QED
          BY <2>4, <2>8, <5>1
      <4>5. CASE rx[n][m] # NoSession /\ rx'[n][m] = Accepted(rx[n][m], f)
        <5>1. rx[n][m] \in Session /\ f \in Frame
          BY <1>1, <1>5, <2>1, <2>2, <4>5, QuietHead DEF TypeOK, RxFrame
        <5>2. rx[n][m].transfer = u
          <6>1. Accepted(rx[n][m], f).transfer = rx[n][m].transfer
            BY <2>3, <2>4, <5>1, AcceptedType
          <6> QED
            BY <2>5, <4>2, <4>5, <6>1
        <5> QED
          BY <3>2, <4>2, <4>5, <5>2 DEF Held
      <4> QED
        BY <4>3, <4>4, <4>5
    <3> QED
      BY <3>1, <3>2
  <2>9. CASE ~Unicast(w)
    BY <1>5, <2>1, <2>2, <2>3, <2>8, <2>9, HearBroadcast
  <2>10. CASE Unicast(w)
    BY <1>5, <2>1, <2>2, <2>3, <2>7, <2>8, <2>10, HearUnicast DEF Answers
  <2> QED
    BY <2>9, <2>10
<1>6. ASSUME NEW s \in Node, NEW d \in Node, ForeignAbort(s, d) PROVE FALSE
  BY <1>1, <1>6 DEF ForeignAbort, Quiet, TypeOK
<1>7. CASE UNCHANGED vars
  BY <1>2, <1>7 DEF vars
<1> QED
  BY <1>3, <1>4, <1>5, <1>6, <1>7 DEF Next

(* What holds on a bus that has lost a frame at most.                      *)
BusInv == TypeOK /\ (losses <= 1 => QuietInv) /\ (losses = 0 => TrackInv /\ HeldOpen)

LEMMA BusInit == Init => BusInv
<1> SUFFICES ASSUME Init PROVE BusInv
  OBVIOUS
<1>1. QuietInv
  BY QuietInit
<1>2. /\ \A n \in Node : DOMAIN inbox[n] = {}
      /\ \A n, s \in Node : rx[n][s] = NoSession
      /\ \A t \in Transfer : status[t] = "idle"
  BY DEF Init
<1>3. HeldOpen
  BY <1>2 DEF HeldOpen, Held
<1>4. TrackInv
  <2> SUFFICES ASSUME NEW n \in Node, NEW t \in Transfer PROVE OnTrack(n, t)
    BY DEF TrackInv
  <2>1. Announced(n, t) = {} /\ DtsOf(n, t) = {} /\ status[t] = "idle" /\ Src[t] \in Node
    BY <1>2, TransferAssumption DEF Announced, DtsOf
  <2> QED
    BY <1>2, <2>1 DEF Unsent, OnTrack, InLine, SessionFed, HeaderFed, Numbered
<1> QED
  BY <1>1, <1>3, <1>4 DEF BusInv, QuietInv, IntactInv

LEMMA BusNext ==
  ASSUME TwoNodes, Quiet, OneAtATime, \A t \in Transfer : Packets[t] < SeqMod,
         BusInv, [Next]_vars
  PROVE  BusInv'
<1>1. TypeOK /\ TypeOK' /\ losses \in Nat /\ losses' \in Nat
  <2>1. TypeOK /\ TypeOK'
    BY TypeNext DEF BusInv
  <2>2. losses \in 0 .. MaxLosses
    BY <2>1 DEF TypeOK
  <2>3. losses' \in 0 .. MaxLosses
    BY <2>1 DEF TypeOK
  <2> QED
    BY <2>1, <2>2, <2>3, TransportBounds
<1>2. CASE (\A n \in Node : ~Lose(n)) /\ \A t \in Transfer : ~BamFails(t)
  <2>1. losses' = losses
    BY <1>2 DEF Next, vars, StartRts, StartBam, StartFails, StepBam, EndBam, Timeout, RxFrame,
                ForeignAbort
  <2>2. losses <= 1 => QuietInv'
    BY <1>2, QuietNext DEF BusInv
  <2>3. losses = 0 => TrackInv' /\ HeldOpen'
    BY <1>2, <2>2, TrackNext, HeldNext DEF BusInv
  <2> QED
    BY <1>1, <2>1, <2>2, <2>3 DEF BusInv
<1>3. ASSUME NEW n \in Node, Lose(n) PROVE BusInv'
  <2>1. losses' = losses + 1
    BY <1>3 DEF Lose
  <2>2. losses' <= 1 => losses = 0 /\ losses <= 1
    BY <1>1, <2>1
  <2>3. losses' <= 1 => QuietInv'
    BY <1>1, <1>3, <2>2, LoseQuiet DEF BusInv
  <2>4. losses' # 0
    BY <1>1, <2>1
  <2> QED
    BY <1>1, <2>3, <2>4 DEF BusInv
<1>4. ASSUME NEW t \in Transfer, BamFails(t) PROVE BusInv'
  <2>1. losses' = losses + 1
    BY <1>4 DEF BamFails
  <2>2. losses' <= 1 => losses = 0 /\ losses <= 1
    BY <1>1, <2>1
  <2>3. ASSUME losses' <= 1 PROVE QuietInv'
    <3>1. QuietInv /\ losses = 0
      BY <2>2, <2>3 DEF BusInv
    <3>2. IntactInv'
      BY <1>4, <3>1, BreakKeeps DEF QuietInv
    <3> QED
      BY <1>4, <3>1, <3>2, FailQuiet
  <2>4. losses' # 0
    BY <1>1, <2>1
  <2> QED
    BY <1>1, <2>3, <2>4 DEF BusInv
<1> QED
  BY <1>2, <1>3, <1>4

(* As long as no frame is lost: while a transfer between the two nodes is  *)
(* open exactly one frame of it is under way, and none before and after    *)
(* (RtsCtsSession, Receiver).                                              *)
THEOREM Alternates ==
  ASSUME TwoNodes, Quiet, OneAtATime, \A t \in Transfer : Packets[t] < SeqMod
  PROVE  Spec => []StopAndWait
<1>1. Init => BusInv
  BY BusInit
<1>2. BusInv /\ [Next]_vars => BusInv'
  BY BusNext
<1>3. BusInv => StopAndWait
  <2> SUFFICES ASSUME BusInv, losses = 0, NEW t \in Transfer, Unicast(t)
               PROVE  Cardinality(Underway(t)) = IF status[t] = "rts" THEN 1 ELSE 0
    BY DEF StopAndWait, Unicast
  <2>1. Dialogue(t) /\ ~Stalled(t)
    BY DEF BusInv, QuietInv, DialogueInv, Stalled
  <2>2. CASE status[t] = "rts"
    <3>1. PICK n \in Node : \E i \in DOMAIN inbox[n] : Sole(t, n, i)
      BY <2>1, <2>2 DEF Dialogue, Open
    <3>2. PICK i \in DOMAIN inbox[n] : Sole(t, n, i)
      BY <3>1
    <3>3. Underway(t) = {<<n, i>>}
      BY <3>2 DEF Sole, Underway
    <3> QED
      BY <2>2, <3>3, FS_Singleton
  <2>3. CASE status[t] # "rts"
    <3>1. Underway(t) = {}
      BY <2>1, <2>3 DEF Dialogue, Silent, Underway
    <3> QED
      BY <2>3, <3>1, FS_EmptySet
  <2> QED
    BY <2>2, <2>3
<1> QED
  BY <1>1, <1>2, <1>3, PTL DEF Spec

-----------------------------------------------------------------------------
(* The service. *)

Outcome(s) ==
  CASE s \in {"rts", "bam"} -> "pending"
    [] s \in {"failed", "aborted", "timeout"} -> "failed"
    [] OTHER -> s

Progress == [t \in Transfer |-> Outcome(status[t])]

LEMMA ProgressChange ==
  ASSUME TypeOK, NEW t \in Transfer, NEW s, status' = [status EXCEPT ![t] = s]
  PROVE  Progress' = [Progress EXCEPT ![t] = Outcome(s)]
BY DEF TypeOK, Progress, Outcome

(* An EOM, and the end of a broadcast, report a success.                   *)
LEMMA ReportsSuccess ==
  ASSUME TypeOK, NEW t \in Transfer, status[t] \in {"rts", "bam"},
         status' = [status EXCEPT ![t] = "ok"], UNCHANGED delivered,
         Dst[t] \in Node => Handed(Dst[t], t)
  PROVE  Service!Succeed(t)
<1>1. Progress' = [Progress EXCEPT ![t] = "ok"]
  BY ProgressChange DEF Outcome
<1>2. Progress[t] = "pending"
  BY DEF Progress, Outcome
<1> QED
  BY <1>1, <1>2 DEF Service!Succeed, Service!Has, Handed, Progress, Outcome

(* The last DT hands over the message the transfer stands for.             *)
LEMMA HandsOver ==
  ASSUME QuietInv, DeliveredIntact', NEW n \in Node, NEW m \in Node, m # n, Node = {m, n},
         RxFrame(n), NEW r \in Session, r = rx[n][m], UNCHANGED status, NEW d \in Seq(Chunk),
         delivered' = [delivered EXCEPT ![n] = Append(@, [transfer |-> r.transfer, data |-> d])]
  PROVE  Service!Deliver(n, r.transfer)
<1>1. PICK t \in Transfer : t = r.transfer
  BY DEF Session
<1>2. PICK x : x = [transfer |-> r.transfer, data |-> d]
  OBVIOUS
<1>3. TypeOK /\ x \in [transfer : Transfer, data : Seq(Chunk)] /\ x.transfer = t
  BY <1>1, <1>2 DEF QuietInv, IntactInv
<1>4. Held(n, t) /\ n # Src[t]
  <2>1. r # NoSession
    BY NoSessionAssumption
  <2> QED
    BY <1>1, <2>1 DEF Held, QuietInv, SessionsHonest
<1>5. ~Handed(n, t) /\ ~Unsent(t)
  BY <1>4 DEF QuietInv, OnceInv, Once
<1>6. x = Service!Message(t)
  <2> DEFINE q == delivered[n]
             p == delivered'[n]
  <2>1. q \in Seq([transfer : Transfer, data : Seq(Chunk)]) /\ p = Append(q, x)
    BY <1>2, <1>3 DEF TypeOK
  <2>2. Len(q) + 1 \in DOMAIN p /\ p[Len(q) + 1] = x
    <3> HIDE DEF q, p
    <3> QED
      BY <1>3, <2>1, AppendProperties, LenProperties
  <2>3. \A i \in DOMAIN p : p[i] = Service!Message(p[i].transfer)
    BY DEF DeliveredIntact, Service!Message, Service!Payload
  <2> HIDE DEF q, p
  <2> QED
    BY <1>3, <2>2, <2>3
<1>7. Progress[t] \notin {"idle", "refused"} /\ UNCHANGED Progress
  BY <1>3, <1>5 DEF Progress, Outcome, TypeOK, Unsent
<1> QED
  BY <1>1, <1>2, <1>4, <1>5, <1>6, <1>7 DEF Service!Deliver, Service!Has, Handed, Progress, Outcome

LEMMA HearMapped ==
  ASSUME QuietInv, QuietInv', NEW n \in Node, NEW m \in Node, m # n, Node = {m, n}, RxFrame(n)
  PROVE  Service!ServiceNext \/ UNCHANGED <<status, delivered>>
<1>1. PICK f : f = Head(inbox[n])
  OBVIOUS
<1>2. PICK t : t = f.transfer
  OBVIOUS
<1>3. /\ TypeOK /\ t \in Transfer /\ DeliveredIntact'
      /\ Unicast(t) => status[t] = "rts"
  BY <1>1, <1>2, QuietHead DEF QuietInv, IntactInv, RxFrame
<1>4. CASE UNCHANGED delivered
  <2>1. CASE UNCHANGED status
    BY <1>4, <2>1
  <2>2. CASE Unicast(t) /\ Ends(n, m, t)
    <3>1. Service!Succeed(t)
      BY <1>3, <1>4, <2>2, ReportsSuccess DEF Ends
    <3> QED
      BY <1>3, <3>1 DEF Service!ServiceNext
  <2> QED
    BY <1>1, <1>2, <2>1, <2>2, HearBroadcast, HearUnicast DEF Answers
<1>5. ASSUME NEW r \in Session, r = rx[n][m], UNCHANGED status, NEW d \in Seq(Chunk),
             delivered' = [delivered EXCEPT ![n] = Append(@, [transfer |-> r.transfer, data |-> d])]
      PROVE  Service!ServiceNext
  <2>1. Service!Deliver(n, r.transfer)
    BY <1>3, <1>5, HandsOver
  <2>2. r.transfer \in Transfer
    BY DEF Session
  <2> QED
    BY <2>1, <2>2 DEF Service!ServiceNext
<1> QED
  BY <1>4, <1>5, HearHanded

LEMMA StepMapped ==
  ASSUME TwoNodes, Quiet, QuietInv, QuietInv', [Next]_vars
  PROVE  [Service!ServiceNext]_(Service!serviceVars)
<1>1. TypeOK
  BY DEF QuietInv, IntactInv
<1>2. ASSUME UNCHANGED <<status, delivered>>
      PROVE  UNCHANGED Service!serviceVars
  BY <1>2 DEF Service!serviceVars
<1>3. ASSUME NEW t \in Transfer, StartRts(t) \/ StartBam(t)
      PROVE  Service!ServiceNext
  <2>1. /\ status[t] = "idle" /\ UNCHANGED delivered
        /\ \E s \in {"rts", "bam"} : status' = [status EXCEPT ![t] = s]
    BY <1>3 DEF StartRts, StartBam, MayStart
  <2>2. Progress' = [Progress EXCEPT ![t] = "pending"]
    BY <1>1, <2>1, ProgressChange DEF Outcome
  <2>3. Progress[t] = "idle"
    BY <2>1 DEF Progress, Outcome
  <2>4. Service!Begin(t)
    BY <2>1, <2>2, <2>3 DEF Service!Begin, Progress, Outcome
  <2> QED
    BY <2>4 DEF Service!ServiceNext
<1>11. ASSUME NEW t \in Transfer, StartFails(t) PROVE Service!ServiceNext
  <2>1. /\ status[t] = "idle" /\ status' = [status EXCEPT ![t] = "refused"]
        /\ UNCHANGED delivered
    BY <1>11 DEF StartFails, MayStart
  <2>2. Progress' = [Progress EXCEPT ![t] = "refused"]
    BY <1>1, <2>1, ProgressChange DEF Outcome
  <2>3. Progress[t] = "idle"
    BY <2>1 DEF Progress, Outcome
  <2>4. Service!Refuse(t)
    BY <2>1, <2>2, <2>3 DEF Service!Refuse, Progress, Outcome
  <2> QED
    BY <2>4 DEF Service!ServiceNext
<1>12. ASSUME NEW t \in Transfer, BamFails(t) PROVE Service!ServiceNext
  <2>1. /\ status[t] = "bam" /\ status' = [status EXCEPT ![t] = "failed"]
        /\ UNCHANGED delivered
    BY <1>12 DEF BamFails
  <2>2. Progress' = [Progress EXCEPT ![t] = "failed"]
    BY <1>1, <2>1, ProgressChange DEF Outcome
  <2>3. Progress[t] = "pending"
    BY <2>1 DEF Progress, Outcome
  <2>4. Service!Fail(t)
    BY <2>1, <2>2, <2>3 DEF Service!Fail, Progress, Outcome
  <2> QED
    BY <2>4 DEF Service!ServiceNext
<1>4. ASSUME NEW t \in Transfer, StepBam(t) PROVE UNCHANGED <<status, delivered>>
  BY <1>4 DEF StepBam
<1>5. ASSUME NEW t \in Transfer, EndBam(t) PROVE Service!ServiceNext
  <2>1. /\ status[t] = "bam" /\ status' = [status EXCEPT ![t] = "ok"] /\ UNCHANGED delivered
    BY <1>5 DEF EndBam
  <2>2. Dst[t] \notin Node
    BY <2>1, TransferAssumption DEF QuietInv, KindsFit, Unicast
  <2>3. Service!Succeed(t)
    BY <1>1, <2>1, <2>2, ReportsSuccess
  <2> QED
    BY <2>3 DEF Service!ServiceNext
<1>6. ASSUME NEW t \in Transfer, Timeout(t) PROVE Service!ServiceNext
  <2>1. /\ status[t] = "rts" /\ status' = [status EXCEPT ![t] = "timeout"]
        /\ UNCHANGED delivered
    BY <1>6 DEF Timeout
  <2>2. Progress' = [Progress EXCEPT ![t] = "failed"]
    BY <1>1, <2>1, ProgressChange DEF Outcome
  <2>3. Progress[t] = "pending"
    BY <2>1 DEF Progress, Outcome
  <2>4. Service!Fail(t)
    BY <2>1, <2>2, <2>3 DEF Service!Fail, Progress, Outcome
  <2> QED
    BY <2>4 DEF Service!ServiceNext
<1>7. ASSUME NEW n \in Node, RxFrame(n)
      PROVE  Service!ServiceNext \/ UNCHANGED <<status, delivered>>
  <2>1. PICK m \in Node : m # n /\ Node = {m, n}
    BY Pair
  <2> QED
    BY <1>7, <2>1, HearMapped
<1>8. ASSUME NEW n \in Node, Lose(n) PROVE UNCHANGED <<status, delivered>>
  BY <1>8 DEF Lose
<1>9. ASSUME NEW s \in Node, NEW d \in Node, ForeignAbort(s, d)
      PROVE  UNCHANGED <<status, delivered>>
  BY <1>9 DEF ForeignAbort
<1>10. CASE UNCHANGED vars
  BY <1>2, <1>10 DEF vars
<1> QED
  BY <1>2, <1>3, <1>4, <1>5, <1>6, <1>7, <1>8, <1>9, <1>10, <1>11, <1>12 DEF Next

(* The transport layer implements its service, also when the bus loses one *)
(* frame: a node is handed a message at most once and whole, and a success *)
(* that is reported has happened (on_tp_cm, on_tp_dt, RtsCtsSession).      *)
THEOREM Implements ==
  ASSUME TwoNodes, Quiet, OneAtATime, MaxLosses <= 1,
         \A t \in Transfer : Packets[t] < SeqMod
  PROVE  Spec => ImplementsService
<1>1. Init => BusInv
  BY BusInit
<1>2. BusInv /\ [Next]_vars => BusInv'
  BY BusNext
<1>3. Init => Service!ServiceInit
  BY DEF Init, Service!ServiceInit
<1>4. BusInv => QuietInv
  <2>1. TypeOK => losses <= 1
    BY TransportBounds DEF TypeOK
  <2> QED
    BY <2>1 DEF BusInv
<1>5. QuietInv /\ QuietInv' /\ [Next]_vars => [Service!ServiceNext]_(Service!serviceVars)
  BY StepMapped
<1> QED
  BY <1>1, <1>2, <1>3, <1>4, <1>5, PTL DEF Spec, ImplementsService, Service!ServiceSpec
=============================================================================
