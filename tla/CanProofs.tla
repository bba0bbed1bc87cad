------------------------------ MODULE CanProofs ------------------------------
(***************************************************************************)
(* The theorems about the packages under the protocol stack: can_engine    *)
(* (CanEngine) and can_codec (Codec).                                      *)
(*                                                                         *)
(* Of the engine, for any CAN IDs, filters, signals and table sizes, any   *)
(* number of starts and of events, and every interleaving of its two       *)
(* threads: its types, that its loops go on, that each frame is handled    *)
(* once, that at most one periodic frame is late, that the snapshot adds   *)
(* up and that no recorded frame is hidden from the poller.                *)
(*                                                                         *)
(* Of the codec, for every message definition, whatever its fields, and    *)
(* for every value and payload: RoundTrip and NumbersSurvive.              *)
(***************************************************************************)
EXTENDS CanEngine, Codec, SequenceTheorems, WellFoundedInduction, TLAPS

(* The two threads of the engine. *)
Thread == {"app", "io"}

-----------------------------------------------------------------------------
(* The engine's invariant, part by part. *)

(* What the application may be in the middle of: nothing, stopping, or     *)
(* sending.                                                                *)
AppTask(t) ==
  \/ t = Rest
  \/ t.at \in {"deactivate", "free"} /\ t.for \in {"stop", "stop_all"}
  \/ t.at \in {"halt", "join"} /\ t.for = "stop"
  \/ /\ t.at \in {"scan", "record", "store1", "store2"}
     /\ t.for = "send" /\ t.id \in SentId

(* What the I/O thread may be in the middle of: one handler, as far as it  *)
(* has come.                                                               *)
IoTask(t) ==
  \/ t = Rest
  \/ /\ t.at \in {"write", "scan", "record", "store1", "store2", "rearm"}
     /\ \/ t.for = "periodic" /\ t.id \in PeriodicId
        \/ t.for = "ghost" /\ t.id \in Id
  \/ /\ t.at \in {"scan", "record", "store1", "store2"}
     /\ t.for = "frame" /\ t.id \in HeardId
  \/ t.at = "rearm" /\ t.for \in {"frame", "highlight"}
  \/ t.at \in {"store1", "store2", "rearm"} /\ t.for = "busload"

(* What the two threads may be in the middle of, and what the buffer holds.*)
WorkInv ==
  /\ AppTask(work["app"]) /\ IoTask(work["io"])
  /\ buffer \in BusId \cup {NoId}

(* How far start() and stop() have come: the thread runs between them,     *)
(* reads are outstanding and entries kept only while it may.               *)
PhaseInv ==
  /\ running => ctx = "run" /\ work["app"].for # "stop"
  /\ ~running => (Idle("app") /\ ctx = "off") \/ work["app"].for = "stop"
  /\ work["app"].for = "stop" =>
       IF work["app"].at = "join" THEN ctx \in {"stopped", "off"} ELSE ctx = "run"
  /\ ctx = "off" => Idle("io")
  /\ Idle("app") /\ ~running => reads = 0 /\ \A p \in PeriodicId : entry[p] = "none"
  /\ work["app"].for = "stop" /\ work["app"].at \in {"halt", "join"} =>
       \A p \in PeriodicId : entry[p] = "none"
(* A timer that must go on: one of the engine's own, or an active entry's. *)
Wanted(t) == t \in PeriodicId => entry[t] = "on"

(* The I/O thread is in the handler of timer t, at whose end it waits      *)
(* again.                                                                  *)
Busy(t) == IF t \in PeriodicId THEN Doing("periodic", t) ELSE work["io"].for = t

(* Timer t will expire again: it runs, has expired, or is being handled. *)
Going(t) == wait[t] \/ due[t] > 0 \/ Busy(t)

(* A frame is being handled, after which the next read starts. *)
Handling == IF work["io"].for = "frame" THEN 1 ELSE 0

(* Every timer that must go on does. There is one chain of reads, and none *)
(* after a failed read; while the engine stops there may be none either.   *)
LoopInv ==
  /\ running => \A t \in Timer : Wanted(t) => Going(t)
  /\ "leftover" \notin odd =>
       /\ reads + done + Handling <= 1
       /\ running => reads + done + Handling = IF failed THEN 0 ELSE 1

(* What was read and not handled is in the buffer. *)
FrameInv ==
  "leftover" \notin odd =>
    IF done = 0 THEN shown = heard ELSE done = 1 /\ heard = Append(shown, buffer)

(* No frame of an active entry is late, and one that is on its way counts. *)
LateInv ==
  "wild" \notin odd =>
    \A p \in PeriodicId :
      /\ entry[p] = "on" => late[p] = 0
      /\ late[p] + (IF At("io", "write") /\ Doing("periodic", p) THEN 1 ELSE 0) <= 1

(* Thread w is between its two stores of the sequence number. *)
Storing(w) == work[w].at \in {"store1", "store2"}

(* One thread writes at a time, with the number it read, which is odd      *)
(* between its stores. A change the poller has not seen is not yet         *)
(* published or has a higher number.                                       *)
SequenceInv ==
  "clash" \notin odd =>
    /\ ~(Writing("app") /\ Writing("io"))
    /\ sequence % 2 = IF \E w \in Thread : At(w, "store2") THEN 1 ELSE 0
    /\ \A w \in Thread : Storing(w) => work[w].tmp = sequence
    /\ seen <= sequence
    /\ dirty => seen < sequence \/ \E w \in Thread : Storing(w)

(* Thread w has a frame that no row counts yet. *)
Counting(w) == work[w].at \in {"scan", "record"}

(* The frames of i that were received or sent and that no row counts yet. *)
Uncounted ==
  [i \in Id |-> IF \E w \in Thread : Counting(w) /\ work[w].id = i THEN 1 ELSE 0]

(* There is a row of i. *)
HasRow(i) == \E r \in DOMAIN rows : rows[r].id = i

(* The rows and what they do not count yet make the tally. A thread that   *)
(* found no row is right.                                                  *)
RowInv ==
  "clash" \notin odd =>
    /\ \A r, q \in DOMAIN rows : rows[r].id = rows[q].id => r = q
    /\ \A r \in DOMAIN rows : rows[r].count + Uncounted[rows[r].id] = tally[rows[r].id]
    /\ \A i \in Id : tally[i] >= Uncounted[i]
    /\ \A i \in Id : tally[i] > Uncounted[i] => Len(rows) = MaxMessages \/ HasRow(i)
    /\ \A w \in Thread :
         At(w, "record") /\ work[w].row = 0 => ~HasRow(work[w].id)

(* The head is where the next frame goes; the cell of the n-th frame is    *)
(* that of n, counted round the ring.                                      *)
LogHolds ==
  /\ log.head = Len(logged) % MaxFrames
  /\ log.count = IF Len(logged) < MaxFrames THEN Len(logged) ELSE MaxFrames
  /\ \A n \in DOMAIN logged :
       n > Len(logged) - log.count => log.cells[((n - 1) % MaxFrames) + 1] = logged[n]

(* So it is as long as the two threads did not write at once.              *)
LogInv == "clash" \notin odd => LogHolds

(* One graph per signal, with the values since it was added. *)
GraphInv ==
    /\ \A g, h \in DOMAIN graphs : graphs[g].signal = graphs[h].signal => g = h
    /\ \A g \in DOMAIN graphs :
         LET n == fed[graphs[g].signal] IN
           graphs[g].points = IF n < MaxPoints THEN n ELSE MaxPoints

(* A row that was found is still there: rows only grow while one writes.   *)
FoundInv ==
  \A w \in Thread :
    At(w, "record") /\ work[w].row # 0 =>
      work[w].row \in DOMAIN rows /\ rows[work[w].row].id = work[w].id

(* The sizes of the tables. *)
LEMMA Sizes ==
  /\ MaxMessages \in Nat \ {0} /\ MaxFrames \in Nat \ {0}
  /\ MaxGraphs \in Nat \ {0} /\ MaxPoints \in Nat \ {0}
BY SizeAssumption

(* The IDs of each kind are IDs to record, and that of error frames is     *)
(* none.                                                                   *)
LEMMA IdsDiffer ==
  /\ HeardId \subseteq Id /\ SentId \subseteq Id /\ PeriodicId \subseteq Id
  /\ NoId \notin Id /\ NoId \notin BusId
  /\ \A i \in BusId : Bare[i] \in HeardId /\ Bare[i] \in Id
BY IdAssumption DEF Id, HeardId

(* What the three ways of moving on leave of a thread's task. *)
LEMMA Moves ==
  ASSUME work \in [Thread -> Task], NEW w \in Thread, NEW t \in Task,
         work' = [work EXCEPT ![w] = t]
  PROVE  /\ work' \in [Thread -> Task]
         /\ work'[w] = t
         /\ \A v \in Thread : v # w => work'[v] = work[v]
OBVIOUS

(* A thread that rests. *)
LEMMA RestTyped ==
  /\ Rest \in Task /\ Rest.at = "idle" /\ Rest.for = "none" /\ Rest.id = NoId
  /\ Rest.row = 0 /\ Rest.tmp = 0
BY DEF Rest, Task

(* A thread takes up a task. *)
LEMMA BeginsMoves ==
  ASSUME work \in [Thread -> Task], NEW w \in Thread, NEW what, NEW i, NEW p,
         what \in {"stop", "stop_all", "send", "frame", "busload", "highlight",
                   "periodic", "ghost"},
         i \in Id \cup {NoId},
         p \in {"deactivate", "write", "scan", "rearm"},
         Begins(w, what, i, p)
  PROVE  /\ work' \in [Thread -> Task]
         /\ work'[w].at = p /\ work'[w].for = what /\ work'[w].id = i
         /\ work'[w].row = 0 /\ work'[w].tmp = 0
         /\ \A v \in Thread : v # w => work'[v] = work[v]
<1> DEFINE t == [Rest EXCEPT !.at = p, !.for = what, !.id = i]
<1>1. /\ t \in Task /\ t.at = p /\ t.for = what /\ t.id = i /\ t.row = 0 /\ t.tmp = 0
  BY DEF Rest, Task
<1>2. work' = [work EXCEPT ![w] = t]
  BY DEF Begins
<1> HIDE DEF t
<1>3. QED
  BY <1>1, <1>2, Moves

(* A thread goes on with its task. *)
LEMMA GoesMoves ==
  ASSUME work \in [Thread -> Task], NEW w \in Thread, NEW p,
         p \in {"free", "join", "scan"},
         Goes(w, p)
  PROVE  /\ work' \in [Thread -> Task]
         /\ work'[w].at = p /\ work'[w].for = work[w].for /\ work'[w].id = work[w].id
         /\ work'[w].row = work[w].row /\ work'[w].tmp = work[w].tmp
         /\ \A v \in Thread : v # w => work'[v] = work[v]
<1> DEFINE t == [work[w] EXCEPT !.at = p]
<1>1. /\ t \in Task /\ t.at = p /\ t.for = work[w].for /\ t.id = work[w].id
      /\ t.row = work[w].row /\ t.tmp = work[w].tmp
  BY DEF Task
<1>2. work' = [work EXCEPT ![w] = t]
  BY DEF Goes
<1> HIDE DEF t
<1>3. QED
  BY <1>1, <1>2, Moves

(* A thread ends its task. *)
LEMMA EndsMoves ==
  ASSUME work \in [Thread -> Task], NEW w \in Thread, Ends(w)
  PROVE  /\ work' \in [Thread -> Task]
         /\ work'[w] = Rest /\ work'[w].at = "idle" /\ work'[w].for = "none"
         /\ \A v \in Thread : v # w => work'[v] = work[v]
BY RestTyped, Moves DEF Ends

(* A thread reads the sequence number. *)
LEMMA LoadsMoves ==
  ASSUME work \in [Thread -> Task], NEW w \in Thread, NEW p, NEW n \in Nat,
         p \in {"store1", "store2"},
         Loads(w, p, n)
  PROVE  /\ work' \in [Thread -> Task]
         /\ work'[w].at = p /\ work'[w].for = work[w].for /\ work'[w].id = work[w].id
         /\ work'[w].row = work[w].row /\ work'[w].tmp = n
         /\ \A v \in Thread : v # w => work'[v] = work[v]
<1> DEFINE t == [work[w] EXCEPT !.tmp = n, !.at = p]
<1>1. /\ t \in Task /\ t.at = p /\ t.for = work[w].for /\ t.id = work[w].id
      /\ t.row = work[w].row /\ t.tmp = n
  BY DEF Task
<1>2. work' = [work EXCEPT ![w] = t]
  BY DEF Loads
<1> HIDE DEF t
<1>3. QED
  BY <1>1, <1>2, Moves

(* A thread ends its search for a row. *)
LEMMA ScanMoves ==
  ASSUME work \in [Thread -> Task], NEW w \in Thread, NEW r \in Nat,
         work' = [work EXCEPT ![w].row = r, ![w].at = "record"]
  PROVE  /\ work' \in [Thread -> Task]
         /\ work'[w].at = "record" /\ work'[w].for = work[w].for
         /\ work'[w].id = work[w].id /\ work'[w].row = r /\ work'[w].tmp = work[w].tmp
         /\ \A v \in Thread : v # w => work'[v] = work[v]
<1> DEFINE t == [work[w] EXCEPT !.row = r, !.at = "record"]
<1>1. /\ t \in Task /\ t.at = "record" /\ t.for = work[w].for /\ t.id = work[w].id
      /\ t.row = r /\ t.tmp = work[w].tmp
  BY DEF Task
<1>2. work' = [work EXCEPT ![w] = t]
  OBVIOUS
<1> HIDE DEF t
<1>3. QED
  BY <1>1, <1>2, Moves

(* The I/O thread has written. *)
LEMMA RearmMoves ==
  ASSUME work \in [Thread -> Task],
         work' = [work EXCEPT !["io"].tmp = 0, !["io"].row = 0, !["io"].at = "rearm"]
  PROVE  /\ work' \in [Thread -> Task]
         /\ work'["io"].at = "rearm" /\ work'["io"].for = work["io"].for
         /\ work'["io"].id = work["io"].id
         /\ work'["app"] = work["app"]
<1> DEFINE t == [work["io"] EXCEPT !.tmp = 0, !.row = 0, !.at = "rearm"]
<1>1. t \in Task /\ t.at = "rearm" /\ t.for = work["io"].for /\ t.id = work["io"].id
  BY DEF Task, Thread
<1>2. work' = [work EXCEPT !["io"] = t]
  BY DEF Thread
<1>3. "io" \in Thread /\ "app" \in Thread
  BY DEF Thread
<1> HIDE DEF t
<1>4. QED
  BY <1>1, <1>2, <1>3, Moves

(* What clear() does to the tasks of both threads. *)
LEMMA FreeMoves ==
  ASSUME work \in [Thread -> Task], Free
  PROVE  /\ work' \in [Thread -> Task]
         /\ IF work["app"].for = "stop"
            THEN work'["app"].at = "halt" /\ work'["app"].for = "stop"
            ELSE work'["app"] = Rest
         /\ work'["io"].for = IF work["io"].for = "periodic" THEN "ghost"
                                ELSE work["io"].for
         /\ work'["io"].at = work["io"].at /\ work'["io"].id = work["io"].id
         /\ work'["io"].row = work["io"].row /\ work'["io"].tmp = work["io"].tmp
<1> DEFINE a == IF work["app"].for = "stop" THEN [work["app"] EXCEPT !.at = "halt"]
                ELSE Rest
           b == [work["io"] EXCEPT !.for = IF @ = "periodic" THEN "ghost" ELSE @]
<1>1. work["app"] \in Task /\ work["io"] \in Task
  BY DEF Thread
<1>2. /\ a \in Task
      /\ IF work["app"].for = "stop" THEN a.at = "halt" /\ a.for = "stop" ELSE a = Rest
  BY <1>1, RestTyped DEF Task
<1>3. /\ b \in Task
      /\ b.for = IF work["io"].for = "periodic" THEN "ghost" ELSE work["io"].for
      /\ b.at = work["io"].at /\ b.id = work["io"].id
      /\ b.row = work["io"].row /\ b.tmp = work["io"].tmp
  BY <1>1 DEF Task
<1>4. work' = [work EXCEPT !["app"] = a, !["io"] = b]
  BY DEF Free, Thread
<1> HIDE DEF a, b
<1>5. work' \in [Thread -> Task] /\ work'["app"] = a /\ work'["io"] = b
  BY <1>2, <1>3, <1>4 DEF Thread
<1>6. QED
  BY <1>2, <1>3, <1>5

-----------------------------------------------------------------------------
(* The types, by what the variables are about. *)

(* The phase, the reads, the numbers and the marks. *)
ControlTyped ==
  /\ running \in BOOLEAN /\ ctx \in {"off", "run", "stopped"}
  /\ reads \in Nat /\ done \in Nat /\ failed \in BOOLEAN
  /\ passing \in SUBSET Id /\ loaded \in BOOLEAN
  /\ sequence \in Nat /\ seen \in Nat /\ dirty \in BOOLEAN
  /\ odd \subseteq {"clash", "leftover", "wild"}
  /\ spent \in [Things -> Nat]

(* The timers and the entries. *)
TimersTyped ==
  /\ wait \in [Timer -> BOOLEAN] /\ due \in [Timer -> Nat]
  /\ entry \in [PeriodicId -> {"none", "on", "off"}]
  /\ ghosts \in [PeriodicId -> Nat] /\ late \in [PeriodicId -> Nat]

(* The rows. *)
RowsTyped ==
  /\ rows \in Seq([id : Id, count : Nat]) /\ lit \subseteq Nat
  /\ "clash" \notin odd => Len(rows) <= MaxMessages
  /\ tally \in [Id -> Nat]

(* The log, the graphs and the totals. *)
TablesTyped ==
  /\ log \in [cells : [1..MaxFrames -> Id \cup {NoId}], head : 0..MaxFrames - 1,
              count : Nat]
  /\ "clash" \notin odd => log.count <= MaxFrames
  /\ logged \in Seq(Id)
  /\ graphs \in Seq([signal : Signal, points : 0..MaxPoints])
  /\ Len(graphs) <= MaxGraphs /\ fed \in [Signal -> Nat]
  /\ totals \in [rx : Nat, tx : Nat, errors : Nat, load : Nat, reported : Nat]

(* The buffer and the frames. *)
FramesTyped ==
  /\ buffer \in BusId \cup {NoId}
  /\ heard \in Seq(BusId \cup {NoId}) /\ shown \in Seq(BusId \cup {NoId})

(* TypeOK is these parts. *)
LEMMA TypeParts ==
  TypeOK <=> /\ ControlTyped /\ TimersTyped /\ RowsTyped /\ TablesTyped /\ FramesTyped
             /\ work \in [Thread -> Task]
BY DEF TypeOK, ControlTyped, TimersTyped, RowsTyped, TablesTyped, FramesTyped, Thread

(* A count goes up by one. *)
LEMMA OneMore ==
  ASSUME NEW S, NEW f \in [S -> Nat], NEW x \in S
  PROVE  [f EXCEPT ![x] = @ + 1] \in [S -> Nat]
OBVIOUS

(* A count goes down by one. *)
LEMMA OneLess ==
  ASSUME NEW S, NEW f \in [S -> Nat], NEW x \in S, f[x] > 0
  PROVE  [f EXCEPT ![x] = @ - 1] \in [S -> Nat]
OBVIOUS

(* What is spent stays a count. *)
LEMMA SpendsTyped ==
  ASSUME spent \in [Things -> Nat], NEW b \in Things, Spends(b)
  PROVE  spent' \in [Things -> Nat]
BY OneMore DEF Spends

(* The threads, the bounds and the timers by name. *)
LEMMA Names ==
  /\ "app" \in Thread /\ "io" \in Thread
  /\ \A w \in Thread : w = "app" \/ w = "io"
  /\ "starts" \in Things /\ "events" \in Things
  /\ "busload" \in Timer /\ "highlight" \in Timer /\ PeriodicId \subseteq Timer
  /\ Other("app") = "io" /\ Other("io") = "app"
BY DEF Thread, Things, Timer, Other

(* Whose frame a thread counts. *)
LEMMA CountedId ==
  ASSUME WorkInv, NEW w \in Thread, work[w].at \in {"scan", "record"}
  PROVE  work[w].id \in Id
BY IdsDiffer, Names DEF WorkInv, AppTask, IoTask, Rest

(* A periodic frame that is out is to be counted. *)
LEMMA WritePeriodicMoves ==
  ASSUME work \in [Thread -> Task], WorkInv, WritePeriodic
  PROVE  /\ work' \in [Thread -> Task]
         /\ work["io"].at = "write" /\ work["io"].for \in {"periodic", "ghost"}
         /\ work["io"].for = "periodic" =>
              work["io"].id \in PeriodicId /\ work'["io"].id = work["io"].id
         /\ work'["io"].at = "scan" /\ work'["io"].id \in Id
         /\ work'["io"].for = work["io"].for /\ work'["app"] = work["app"]
         /\ tally' = [tally EXCEPT ![work'["io"].id] = @ + 1]
<1>1. work["io"].at = "write"
  BY DEF WritePeriodic, At
<1>2. /\ work["io"].for \in {"periodic", "ghost"}
      /\ work["io"].for = "periodic" => work["io"].id \in PeriodicId
  BY <1>1 DEF WorkInv, IoTask, Rest
<1>3. PICK i \in IF work["io"].for = "ghost" THEN Id ELSE {work["io"].id} :
        /\ tally' = [tally EXCEPT ![i] = @ + 1]
        /\ work' = [work EXCEPT !["io"].id = i, !["io"].at = "scan"]
  BY DEF WritePeriodic
<1>4. i \in Id /\ (work["io"].for = "periodic" => i = work["io"].id)
  BY <1>2, <1>3, IdsDiffer
<1> DEFINE t == [work["io"] EXCEPT !.id = i, !.at = "scan"]
<1>5. t \in Task /\ t.at = "scan" /\ t.id = i /\ t.for = work["io"].for
  <2>1. work["io"] \in Task
    BY Names
  <2>2. QED
    BY <1>4, <2>1 DEF Task
<1>6. work' = [work EXCEPT !["io"] = t]
  BY <1>3, Names
<1> HIDE DEF t
<1>7. work' \in [Thread -> Task] /\ work'["io"] = t /\ work'["app"] = work["app"]
  BY <1>5, <1>6, Moves, Names
<1>8. QED
  BY <1>1, <1>2, <1>3, <1>4, <1>5, <1>7

(* A step keeps their types. *)
LEMMA ControlStep ==
  ASSUME ControlTyped, work \in [Thread -> Task], Next
  PROVE  ControlTyped'
<1> USE DEF ControlTyped
<1>1. CASE Start
  <2>1. odd' \subseteq {"clash", "leftover", "wild"}
    BY <1>1 DEF Start
  <2>2. reads' \in Nat /\ passing' = passing /\ loaded' = loaded /\ done' = done
    BY <1>1 DEF Start
  <2>3. spent' \in [Things -> Nat]
    BY <1>1, SpendsTyped, Names DEF Start
  <2>4. QED
    BY <1>1, <2>1, <2>2, <2>3 DEF Start
<1>2. CASE \/ Stop \/ StopAllPeriodicTx \/ Deactivate \/ Free \/ Halt \/ Join
           \/ ClearDisplayFilter \/ LoadSignals \/ Poll \/ ReadFails \/ Leave
           \/ OnBusloadTick \/ OnHighlightTick \/ WritePeriodic \/ ReadAgain \/ GhostEnds
  <2>1. CASE Stop
    BY <2>1 DEF Stop, socket, signals, snapshot, history
  <2>2. CASE StopAllPeriodicTx \/ Deactivate \/ Free
    BY <2>2
       DEF StopAllPeriodicTx, Deactivate, Free, socket, signals, snapshot, history
  <2>3. CASE Halt
    BY <2>3 DEF Halt, socket, signals, snapshot, history
  <2>4. CASE Join
    BY <2>4 DEF Join, signals, snapshot, history
  <2>5. CASE Leave
    BY <2>5 DEF Leave, socket, signals, snapshot, history
  <2>6. CASE ClearDisplayFilter \/ LoadSignals
    BY <2>6 DEF ClearDisplayFilter, Filter, LoadSignals, Changes, socket, snapshot
  <2>7. CASE Poll
    BY <2>7 DEF Poll, socket, signals, snapshot
  <2>8. CASE ReadFails
    BY <2>8 DEF ReadFails, signals, snapshot, history
  <2>9. CASE OnHighlightTick
    BY <2>9 DEF OnHighlightTick, socket, signals, snapshot, history
  <2>10. CASE ReadAgain
    BY <2>10 DEF ReadAgain, signals, snapshot, history
  <2>11. CASE OnBusloadTick \/ WritePeriodic \/ GhostEnds
    BY <2>11
       DEF OnBusloadTick, WritePeriodic, GhostEnds, Clash, socket, signals, snapshot
  <2>12. QED
    BY <1>2, <2>1, <2>2, <2>3, <2>4, <2>5, <2>6, <2>7, <2>8, <2>9, <2>10, <2>11
<1>3. ASSUME NEW p \in PeriodicId, StartPeriodicTx(p) \/ StopPeriodicTx(p)
      PROVE  ControlTyped'
  <2>1. CASE StartPeriodicTx(p)
    BY <2>1, SpendsTyped, Names DEF StartPeriodicTx, socket, signals, snapshot
  <2>2. CASE StopPeriodicTx(p)
    BY <2>2 DEF StopPeriodicTx, socket, signals, snapshot, history
  <2>3. QED
    BY <1>3, <2>1, <2>2
<1>4. ASSUME NEW i \in SentId, SendFrame(i)
      PROVE  ControlTyped'
  BY <1>4, SpendsTyped, Names DEF SendFrame, Clash, socket, signals, snapshot
<1>5. ASSUME NEW K \in Filters, SetDisplayFilter(K)
      PROVE  ControlTyped'
  BY <1>5, SpendsTyped, Names, FilterAssumption
     DEF SetDisplayFilter, Filter, Changes, socket, snapshot
<1>6. ASSUME NEW s \in Signal, AddGraphSignal(s) \/ RemoveGraphSignal(s)
      PROVE  ControlTyped'
  <2>1. CASE AddGraphSignal(s)
    BY <2>1, SpendsTyped, Names DEF AddGraphSignal, Changes, socket, snapshot
  <2>2. CASE RemoveGraphSignal(s)
    BY <2>2 DEF RemoveGraphSignal, Changes, socket, snapshot
  <2>3. QED
    BY <1>6, <2>1, <2>2
<1>7. ASSUME NEW i \in BusId \cup {NoId}, Arrive(i)
      PROVE  ControlTyped'
  BY <1>7, SpendsTyped, Names DEF Arrive, signals, snapshot
<1>8. ASSUME NEW t \in Timer, Expire(t) \/ WaitAgain(t)
      PROVE  ControlTyped'
  <2>1. CASE Expire(t)
    BY <2>1, SpendsTyped, Names DEF Expire, socket, signals, snapshot, history
  <2>2. CASE WaitAgain(t)
    BY <2>2 DEF WaitAgain, socket, signals, snapshot, history
  <2>3. QED
    BY <1>8, <2>1, <2>2
<1>9. CASE OnFrame
  <2>1. done' \in Nat /\ odd' \subseteq {"clash", "leftover", "wild"}
    BY <1>9 DEF OnFrame, Clash
  <2>2. QED
    BY <1>9, <2>1 DEF OnFrame, signals
<1>10. ASSUME NEW p \in PeriodicId, OnPeriodic(p) \/ OnGhost(p)
       PROVE  ControlTyped'
  BY <1>10 DEF OnPeriodic, OnGhost, socket, signals, snapshot, history
<1>11. ASSUME NEW w \in Thread, Scan(w) \/ Record(w) \/ Store1(w) \/ Store2(w)
       PROVE  ControlTyped'
  <2>1. CASE Scan(w) \/ Record(w)
    <3>1. dirty' \in BOOLEAN
      BY <2>1 DEF Scan, Record, history
    <3>2. QED
      BY <2>1, <3>1 DEF Scan, Record, socket, signals, snapshot, history
  <2>2. CASE Store1(w) \/ Store2(w)
    <3>1. work[w].tmp \in Nat
      BY DEF Task
    <3>2. sequence' = work[w].tmp + 1
      BY <2>2 DEF Store1, Store2
    <3>3. QED
      BY <2>2, <3>1, <3>2 DEF Store1, Store2, socket, signals, history
  <2>3. QED
    BY <1>11, <2>1, <2>2
<1>12. QED
  BY <1>1, <1>2, <1>3, <1>4, <1>5, <1>6, <1>7, <1>8, <1>9, <1>10, <1>11, Names
     DEF Next, AppGoesOn, IoGoesOn

(* A step keeps the types of timers and entries. *)
LEMMA TimersStep ==
  ASSUME ControlTyped, TimersTyped, WorkInv, Next
  PROVE  TimersTyped'
<1> USE DEF TimersTyped
<1>1. CASE Start \/ Deactivate \/ Free
  <2>1. CASE Start
    BY <2>1 DEF Start
  <2>2. CASE Deactivate
    BY <2>2 DEF Deactivate, history
  <2>3. CASE Free
    <3>1. \A p \in PeriodicId : ghosts[p] + due[p] \in Nat
      BY Names
    <3>2. QED
      BY <2>3, <3>1 DEF Free, history
  <2>4. QED
    BY <1>1, <2>1, <2>2, <2>3
<1>2. CASE \/ Stop \/ StopAllPeriodicTx \/ Halt \/ Join \/ ClearDisplayFilter
           \/ LoadSignals \/ Poll \/ ReadFails \/ Leave \/ OnFrame \/ ReadAgain
           \/ GhostEnds
  BY <1>2
     DEF Stop, StopAllPeriodicTx, Halt, Join, ClearDisplayFilter, Filter, LoadSignals,
         Poll, ReadFails, Leave, OnFrame, ReadAgain, GhostEnds, timers, history
<1>3. ASSUME NEW p \in PeriodicId, StartPeriodicTx(p) \/ StopPeriodicTx(p)
      PROVE  TimersTyped'
  <2>1. CASE StartPeriodicTx(p)
    <3> DEFINE waits == wait[p] \/ entry[p] # "on"
    <3>1. wait' = [wait EXCEPT ![p] = waits]
      BY <2>1 DEF StartPeriodicTx
    <3>2. waits \in BOOLEAN
      OBVIOUS
    <3> HIDE DEF waits
    <3>3. wait' \in [Timer -> BOOLEAN]
      BY <3>1, <3>2
    <3>4. QED
      BY <2>1, <3>3 DEF StartPeriodicTx
  <2>2. CASE StopPeriodicTx(p)
    BY <2>2, Names DEF StopPeriodicTx, history
  <2>3. QED
    BY <1>3, <2>1, <2>2
<1>4. ASSUME NEW i \in SentId, SendFrame(i)
      PROVE  TimersTyped'
  BY <1>4 DEF SendFrame, timers
<1>5. ASSUME NEW K \in Filters, SetDisplayFilter(K)
      PROVE  TimersTyped'
  BY <1>5 DEF SetDisplayFilter, Filter, timers
<1>6. ASSUME NEW s \in Signal, AddGraphSignal(s) \/ RemoveGraphSignal(s)
      PROVE  TimersTyped'
  BY <1>6 DEF AddGraphSignal, RemoveGraphSignal, timers
<1>7. ASSUME NEW i \in BusId \cup {NoId}, Arrive(i)
      PROVE  TimersTyped'
  BY <1>7 DEF Arrive, timers
<1>8. ASSUME NEW t \in Timer, Expire(t) \/ WaitAgain(t)
      PROVE  TimersTyped'
  <2>1. CASE Expire(t)
    BY <2>1, OneMore DEF Expire, history
  <2>2. CASE WaitAgain(t)
    <3> DEFINE again == wait[t] \/ running \/ t \in PeriodicId
    <3>1. wait' = [wait EXCEPT ![t] = again]
      BY <2>2 DEF WaitAgain
    <3>2. again \in BOOLEAN
      OBVIOUS
    <3> HIDE DEF again
    <3>3. wait' \in [Timer -> BOOLEAN]
      BY <3>1, <3>2
    <3>4. QED
      BY <2>2, <3>3 DEF WaitAgain, history
  <2>3. QED
    BY <1>8, <2>1, <2>2
<1>9. CASE OnBusloadTick \/ OnHighlightTick
  <2>1. CASE OnBusloadTick
    BY <2>1, OneLess, Names DEF OnBusloadTick
  <2>2. CASE OnHighlightTick
    BY <2>2, OneLess, Names DEF OnHighlightTick, history
  <2>3. QED
    BY <1>9, <2>1, <2>2
<1>10. ASSUME NEW p \in PeriodicId, OnPeriodic(p) \/ OnGhost(p)
       PROVE  TimersTyped'
  <2>1. CASE OnPeriodic(p)
    BY <2>1, OneLess, Names DEF OnPeriodic, history
  <2>2. CASE OnGhost(p)
    BY <2>2, OneLess DEF OnGhost
  <2>3. QED
    BY <1>10, <2>1, <2>2
<1>11. CASE WritePeriodic
  <2>1. late' \in [PeriodicId -> Nat]
    BY <1>11 DEF WritePeriodic
  <2>2. QED
    BY <1>11, <2>1 DEF WritePeriodic, timers
<1>12. ASSUME NEW w \in Thread, Scan(w) \/ Record(w) \/ Store1(w) \/ Store2(w)
       PROVE  TimersTyped'
  BY <1>12 DEF Scan, Record, Store1, Store2, timers, history
<1>13. QED
  BY <1>1, <1>2, <1>3, <1>4, <1>5, <1>6, <1>7, <1>8, <1>9, <1>10, <1>11, <1>12, Names
     DEF Next, AppGoesOn, IoGoesOn

(* The order of the naturals, as a relation. *)
NatLess == {ij \in Nat \X Nat : ij[1] < ij[2]}

(* A set of numbers that is not empty has a least one. *)
LEMMA Least ==
  ASSUME NEW S, S \subseteq Nat, S # {}
  PROVE  \E x \in S : \A y \in S : x <= y
<1>1. IsWellFoundedOn(NatLess, Nat)
  BY NatLessThanWellFounded DEF OpToRel, NatLess
<1>2. PICK x \in S : \A y \in S : <<y, x>> \notin NatLess
  BY <1>1, WFMin
<1>3. ASSUME NEW y \in S PROVE x <= y
  <2>1. x \in Nat /\ y \in Nat
    OBVIOUS
  <2>2. y < x => <<y, x>> \in NatLess
    BY <2>1 DEF NatLess
  <2>3. QED
    BY <1>2, <2>1, <2>2
<1>4. QED
  BY <1>3

(* What the search finds: no row, or one of the ID it looks for. *)
LEMMA FoundRow ==
  ASSUME NEW w \in Thread, rows \in Seq([id : Id, count : Nat]), Scan(w)
  PROVE  \E r \in Nat :
           /\ work' = [work EXCEPT ![w].row = r, ![w].at = "record"]
           /\ IF r = 0 THEN ~HasRow(work[w].id)
              ELSE r \in DOMAIN rows /\ rows[r].id = work[w].id
<1> DEFINE found == {r \in DOMAIN rows : rows[r].id = work[w].id}
<1>1. found \subseteq Nat
  OBVIOUS
<1>2. CASE found = {}
  <2>1. work' = [work EXCEPT ![w].row = 0, ![w].at = "record"]
    BY <1>2 DEF Scan
  <2>2. ~HasRow(work[w].id)
    BY <1>2 DEF HasRow
  <2>3. QED
    BY <2>1, <2>2
<1>3. CASE found # {}
  <2> DEFINE first == CHOOSE r \in found : \A q \in found : r <= q
  <2>2. \E r \in found : \A q \in found : r <= q
    BY <1>1, <1>3, Least
  <2>3. first \in found
    BY <2>2
  <2>4. work' = [work EXCEPT ![w].row = first, ![w].at = "record"]
    BY <1>3 DEF Scan
  <2> HIDE DEF first
  <2>5. first \in Nat \ {0}
    BY <2>3
  <2>6. QED
    BY <2>3, <2>4, <2>5
<1>4. QED
  BY <1>2, <1>3

(* A step leaves each thread in the middle of something it may be in the   *)
(* middle of.                                                              *)
LEMMA WorkStep ==
  ASSUME ControlTyped, RowsTyped, work \in [Thread -> Task], WorkInv, Next
  PROVE  WorkInv' /\ work' \in [Thread -> Task]
<1>1. AppTask(work["app"]) /\ IoTask(work["io"]) /\ buffer \in BusId \cup {NoId}
  BY DEF WorkInv
<1>2. AppTask(Rest) /\ IoTask(Rest)
  BY DEF AppTask, IoTask
<1>3. ASSUME UNCHANGED <<work, buffer>>
      PROVE  WorkInv' /\ work' \in [Thread -> Task]
  BY <1>1, <1>3 DEF WorkInv
<1>4. CASE Stop \/ StopAllPeriodicTx
  <2>1. PICK f \in {"stop", "stop_all"} : Begins("app", f, NoId, "deactivate")
    BY <1>4 DEF Stop, StopAllPeriodicTx
  <2>2. /\ work' \in [Thread -> Task]
        /\ work'["app"].at = "deactivate" /\ work'["app"].for = f
        /\ work'["io"] = work["io"]
    BY <2>1, BeginsMoves, Names
  <2>3. buffer' = buffer
    BY <1>4 DEF Stop, StopAllPeriodicTx, socket
  <2>4. QED
    BY <1>1, <2>2, <2>3 DEF WorkInv, AppTask
<1>5. CASE Deactivate \/ Halt
  <2>1. PICK p \in {"free", "join"} :
          Goes("app", p) /\ work["app"].at = IF p = "join" THEN "halt" ELSE "deactivate"
    BY <1>5 DEF Deactivate, Halt, At
  <2>2. /\ work' \in [Thread -> Task]
        /\ work'["app"].at = p /\ work'["app"].for = work["app"].for
        /\ work'["io"] = work["io"]
    BY <2>1, GoesMoves, Names
  <2>3. AppTask(work'["app"])
    BY <1>1, <2>1, <2>2 DEF AppTask, Rest
  <2>4. buffer' = buffer
    BY <1>5 DEF Deactivate, Halt, socket
  <2>5. QED
    BY <1>1, <2>2, <2>3, <2>4 DEF WorkInv
<1>6. CASE Free
  <2>1. buffer' = buffer /\ work["app"].at = "free"
    BY <1>6 DEF Free, socket, At
  <2>2. AppTask(work'["app"]) /\ work' \in [Thread -> Task]
    BY <1>2, <1>6, FreeMoves DEF AppTask
  <2>3. IoTask(work'["io"])
    <3>1. CASE work["io"] = Rest
      <4>1. work'["io"] \in Task /\ Rest \in Task
        BY <2>2, RestTyped, Names
      <4>2. work'["io"] = Rest
        BY <1>6, <3>1, <4>1, FreeMoves, RestTyped DEF Task
      <4>3. QED
        BY <1>2, <4>2
    <3>2. CASE work["io"] # Rest
      <4>1. /\ work'["io"].for = IF work["io"].for = "periodic" THEN "ghost"
                                 ELSE work["io"].for
            /\ work'["io"].at = work["io"].at /\ work'["io"].id = work["io"].id
        BY <1>6, FreeMoves
      <4>2. CASE work["io"].for = "periodic"
        <5>1. /\ work["io"].id \in PeriodicId
              /\ work["io"].at \in {"write", "scan", "record", "store1", "store2", "rearm"}
          BY <1>1, <3>2, <4>2 DEF IoTask
        <5>2. QED
          BY <4>1, <4>2, <5>1, IdsDiffer DEF IoTask
      <4>3. CASE work["io"].for # "periodic"
        BY <1>1, <3>2, <4>1, <4>3 DEF IoTask
      <4>4. QED
        BY <4>2, <4>3
    <3>3. QED
      BY <3>1, <3>2
  <2>4. QED
    BY <1>1, <2>1, <2>2, <2>3 DEF WorkInv
<1>7. CASE Join \/ ReadAgain \/ GhostEnds
  <2>1. PICK w \in Thread : Ends(w)
    BY <1>7, Names DEF Join, ReadAgain, GhostEnds
  <2>2. /\ work' \in [Thread -> Task] /\ work'[w] = Rest
        /\ \A v \in Thread : v # w => work'[v] = work[v]
    BY <2>1, EndsMoves
  <2>3. buffer' = buffer
    BY <1>7 DEF Join, ReadAgain, GhostEnds, socket
  <2>4. QED
    BY <1>1, <1>2, <2>2, <2>3, Names DEF WorkInv
<1>8. ASSUME NEW i \in SentId, SendFrame(i)
      PROVE  WorkInv' /\ work' \in [Thread -> Task]
  <2>1. Begins("app", "send", i, "scan") /\ buffer' = buffer
    BY <1>8 DEF SendFrame, socket
  <2>2. /\ work' \in [Thread -> Task]
        /\ work'["app"].at = "scan" /\ work'["app"].for = "send" /\ work'["app"].id = i
        /\ work'["io"] = work["io"]
    BY <2>1, BeginsMoves, Names, IdsDiffer
  <2>3. QED
    BY <1>1, <2>1, <2>2 DEF WorkInv, AppTask
<1>9. ASSUME NEW i \in BusId \cup {NoId}, Arrive(i)
      PROVE  WorkInv' /\ work' \in [Thread -> Task]
  BY <1>1, <1>9 DEF Arrive, WorkInv
<1>10. CASE OnFrame
  <2>1. buffer' = buffer
    BY <1>10 DEF OnFrame
  <2>2. PICK p \in {"scan", "rearm"}, i \in Id \cup {NoId} :
          /\ Begins("io", "frame", i, p)
          /\ p = "scan" => i \in HeardId
    BY <1>1, <1>10, IdsDiffer DEF OnFrame
  <2>3. /\ work' \in [Thread -> Task]
        /\ work'["io"].at = p /\ work'["io"].for = "frame" /\ work'["io"].id = i
        /\ work'["app"] = work["app"]
    BY <1>1, <2>2, BeginsMoves, Names
  <2>4. QED
    BY <1>1, <2>1, <2>2, <2>3 DEF WorkInv, IoTask
<1>11. CASE OnBusloadTick
  <2> DEFINE t == [Rest EXCEPT !.at = "store1", !.for = "busload", !.tmp = sequence]
  <2>1. work' = [work EXCEPT !["io"] = t] /\ buffer' = buffer
    BY <1>11 DEF OnBusloadTick, socket
  <2>2. t \in Task /\ t.at = "store1" /\ t.for = "busload"
    BY DEF Rest, Task, ControlTyped
  <2> HIDE DEF t
  <2>3. work' \in [Thread -> Task] /\ work'["io"] = t /\ work'["app"] = work["app"]
    BY <2>1, <2>2, Moves, Names
  <2>4. QED
    BY <1>1, <2>1, <2>2, <2>3 DEF WorkInv, IoTask
<1>12. CASE OnHighlightTick
  <2>1. Begins("io", "highlight", NoId, "rearm") /\ buffer' = buffer
    BY <1>12 DEF OnHighlightTick, socket
  <2>2. /\ work' \in [Thread -> Task]
        /\ work'["io"].at = "rearm" /\ work'["io"].for = "highlight"
        /\ work'["app"] = work["app"]
    BY <2>1, BeginsMoves, Names
  <2>3. QED
    BY <1>1, <2>1, <2>2 DEF WorkInv, IoTask
<1>13. ASSUME NEW p \in PeriodicId, OnPeriodic(p) \/ OnGhost(p)
       PROVE  WorkInv' /\ work' \in [Thread -> Task]
  <2>1. buffer' = buffer
    BY <1>13 DEF OnPeriodic, OnGhost, socket
  <2>2. CASE UNCHANGED work
    BY <1>3, <2>1, <2>2
  <2>3. CASE ~UNCHANGED work
    <3>1. PICK f \in {"periodic", "ghost"} : Begins("io", f, p, "write")
      BY <1>13, <2>3 DEF OnPeriodic, OnGhost
    <3>2. /\ work' \in [Thread -> Task]
          /\ work'["io"].at = "write" /\ work'["io"].for = f /\ work'["io"].id = p
          /\ work'["app"] = work["app"]
      BY <3>1, BeginsMoves, Names, IdsDiffer
    <3>3. QED
      BY <1>1, <2>1, <3>2, IdsDiffer DEF WorkInv, IoTask
  <2>4. QED
    BY <2>2, <2>3
<1>14. CASE WritePeriodic
  <2>1. buffer' = buffer
    BY <1>14 DEF WritePeriodic, socket
  <2>2. /\ work' \in [Thread -> Task]
        /\ work["io"].for \in {"periodic", "ghost"}
        /\ work["io"].for = "periodic" =>
             work["io"].id \in PeriodicId /\ work'["io"].id = work["io"].id
        /\ work'["io"].at = "scan" /\ work'["io"].for = work["io"].for
        /\ work'["io"].id \in Id /\ work'["app"] = work["app"]
    BY <1>14, WritePeriodicMoves
  <2>3. QED
    BY <1>1, <2>1, <2>2 DEF WorkInv, IoTask
<1>15. ASSUME NEW t \in Timer, WaitAgain(t)
       PROVE  WorkInv' /\ work' \in [Thread -> Task]
  <2>1. Ends("io") /\ buffer' = buffer
    BY <1>15 DEF WaitAgain, socket
  <2>2. work' \in [Thread -> Task] /\ work'["io"] = Rest /\ work'["app"] = work["app"]
    BY <2>1, EndsMoves, Names
  <2>3. QED
    BY <1>1, <1>2, <2>1, <2>2 DEF WorkInv
<1>16. ASSUME NEW w \in Thread, Scan(w) \/ Record(w) \/ Store1(w) \/ Store2(w)
       PROVE  WorkInv' /\ work' \in [Thread -> Task]
  <2>1. buffer' = buffer
    BY <1>16 DEF Scan, Record, Store1, Store2, socket
  <2>2. CASE Scan(w) \/ Record(w) \/ Store1(w)
    <3>1. /\ work' \in [Thread -> Task]
          /\ work'[w].at \in {"record", "store1", "store2"}
          /\ work[w].at \in {"scan", "record", "store1"}
          /\ work'[w].for = work[w].for /\ work'[w].id = work[w].id
          /\ \A v \in Thread : v # w => work'[v] = work[v]
          /\ Scan(w) => work[w].at = "scan"
          /\ work'[w].at = "record" => work[w].at = "scan"
      <4>1. CASE Scan(w)
        <5>1. PICK r \in Nat : work' = [work EXCEPT ![w].row = r, ![w].at = "record"]
          BY <4>1, FoundRow DEF RowsTyped
        <5>2. work[w].at = "scan"
          BY <4>1 DEF Scan, At
        <5>3. QED
          BY <5>1, <5>2, ScanMoves
      <4>2. CASE Record(w)
        <5>1. Loads(w, "store1", sequence) /\ work[w].at = "record" /\ sequence \in Nat
          BY <4>2 DEF Record, At, ControlTyped
        <5>2. QED
          BY <5>1, LoadsMoves DEF Scan, At
      <4>3. CASE Store1(w)
        <5>1. /\ Loads(w, "store2", work[w].tmp + 1) /\ work[w].at = "store1"
              /\ work[w].tmp + 1 \in Nat
          BY <4>3 DEF Store1, At, Task
        <5>2. QED
          BY <5>1, LoadsMoves DEF Scan, At
      <4>4. QED
        BY <2>2, <4>1, <4>2, <4>3
    <3>2. w = "app" => AppTask(work'["app"])
      BY <1>1, <3>1 DEF AppTask, Rest
    <3>3. w = "io" => IoTask(work'["io"])
      BY <1>1, <3>1 DEF IoTask, Rest
    <3>4. QED
      BY <1>1, <2>1, <3>1, <3>2, <3>3, Names DEF WorkInv
  <2>3. CASE Store2(w)
    <3>1. CASE w = "app"
      <4>1. Ends("app")
        BY <2>3, <3>1 DEF Store2
      <4>2. work' \in [Thread -> Task] /\ work'["app"] = Rest /\ work'["io"] = work["io"]
        BY <4>1, EndsMoves, Names
      <4>3. QED
        BY <1>1, <1>2, <2>1, <4>2 DEF WorkInv
    <3>2. CASE w = "io"
      <4>1. /\ work["io"].at = "store2"
            /\ work' = [work EXCEPT !["io"].tmp = 0, !["io"].row = 0, !["io"].at = "rearm"]
        BY <2>3, <3>2 DEF Store2, At
      <4>2. /\ work' \in [Thread -> Task] /\ work'["app"] = work["app"]
            /\ work'["io"].at = "rearm" /\ work'["io"].for = work["io"].for
            /\ work'["io"].id = work["io"].id
        BY <4>1, RearmMoves
      <4>3. IoTask(work'["io"])
        BY <1>1, <4>1, <4>2 DEF IoTask, Rest
      <4>4. QED
        BY <1>1, <2>1, <4>2, <4>3 DEF WorkInv
    <3>3. QED
      BY <3>1, <3>2, Names
  <2>4. QED
    BY <1>16, <2>2, <2>3
<1>17. CASE Start \/ ClearDisplayFilter \/ LoadSignals \/ Poll \/ ReadFails \/ Leave
  BY <1>3, <1>17
     DEF Start, ClearDisplayFilter, Filter, LoadSignals, Poll, ReadFails, Leave, socket
<1>18. ASSUME NEW p \in PeriodicId, StartPeriodicTx(p) \/ StopPeriodicTx(p)
       PROVE  WorkInv' /\ work' \in [Thread -> Task]
  BY <1>3, <1>18 DEF StartPeriodicTx, StopPeriodicTx, socket
<1>19. ASSUME NEW K \in Filters, SetDisplayFilter(K)
       PROVE  WorkInv' /\ work' \in [Thread -> Task]
  BY <1>3, <1>19 DEF SetDisplayFilter, Filter, socket
<1>20. ASSUME NEW s \in Signal, AddGraphSignal(s) \/ RemoveGraphSignal(s)
       PROVE  WorkInv' /\ work' \in [Thread -> Task]
  BY <1>3, <1>20 DEF AddGraphSignal, RemoveGraphSignal, socket
<1>21. ASSUME NEW t \in Timer, Expire(t)
       PROVE  WorkInv' /\ work' \in [Thread -> Task]
  BY <1>3, <1>21 DEF Expire, socket
<1>22. QED
  BY <1>4, <1>5, <1>6, <1>7, <1>8, <1>9, <1>10, <1>11, <1>12, <1>13, <1>14, <1>15, <1>16,
     <1>17, <1>18, <1>19, <1>20, <1>21, Names
     DEF Next, AppGoesOn, IoGoesOn

-----------------------------------------------------------------------------
(* The steps by which the two threads write, and those by which they do    *)
(* not: Quiet.                                                             *)

(* A thread that writes keeps its place, its ID, its row and its number. *)
Keeps(v) ==
  Writing(v) \/ Writing(v)' =>
    /\ work'[v].at = work[v].at /\ work'[v].id = work[v].id
    /\ work'[v].row = work[v].row /\ work'[v].tmp = work[v].tmp

(* A step that no thread takes in writing: what is written does not        *)
(* change.                                                                 *)
Quiet ==
  /\ \A v \in Thread : Keeps(v)
  /\ UNCHANGED <<rows, tally, sequence>>
  /\ odd \subseteq odd'
  /\ UNCHANGED <<seen, dirty>> \/ (seen' = sequence /\ dirty' = FALSE)

(* A thread that does nothing keeps. *)
LEMMA KeepsSame ==
  ASSUME NEW v, work'[v] = work[v]
  PROVE  Keeps(v)
BY DEF Keeps

(* A thread that neither writes nor begins to keeps. *)
LEMMA KeepsOut ==
  ASSUME NEW v, ~Writing(v), work'[v].at \notin {"scan", "record", "store1", "store2"}
  PROVE  Keeps(v)
BY DEF Keeps, Writing

(* Every step begins to write, writes, starts the engine, or is quiet. *)
LEMMA StepKinds ==
  ASSUME work \in [Thread -> Task], Next
  PROVE  \/ Start
         \/ \E i \in SentId : SendFrame(i)
         \/ OnFrame \/ OnBusloadTick \/ WritePeriodic
         \/ \E w \in Thread : Scan(w) \/ Record(w) \/ Store1(w) \/ Store2(w)
         \/ Quiet
<1>1. CASE \/ ClearDisplayFilter \/ LoadSignals \/ Poll \/ ReadFails \/ Leave
           \/ \E p \in PeriodicId : StartPeriodicTx(p) \/ StopPeriodicTx(p)
           \/ \E K \in Filters : SetDisplayFilter(K)
           \/ \E s \in Signal : AddGraphSignal(s) \/ RemoveGraphSignal(s)
           \/ \E i \in BusId \cup {NoId} : Arrive(i)
           \/ \E t \in Timer : Expire(t)
  <2>1. work' = work /\ UNCHANGED <<rows, tally, sequence>> /\ odd \subseteq odd'
    BY <1>1
       DEF ClearDisplayFilter, Filter, LoadSignals, Poll, ReadFails, Leave, StartPeriodicTx,
           StopPeriodicTx, SetDisplayFilter, AddGraphSignal, RemoveGraphSignal, Arrive,
           Expire, Changes, snapshot, history
  <2>2. UNCHANGED <<seen, dirty>> \/ (seen' = sequence /\ dirty' = FALSE)
    BY <1>1
       DEF ClearDisplayFilter, Filter, LoadSignals, Poll, ReadFails, Leave, StartPeriodicTx,
           StopPeriodicTx, SetDisplayFilter, AddGraphSignal, RemoveGraphSignal, Arrive,
           Expire, history
  <2>3. QED
    BY <2>1, <2>2, KeepsSame DEF Quiet
<1>2. CASE Stop \/ StopAllPeriodicTx \/ Deactivate \/ Free \/ Halt \/ Join
  <2>1. UNCHANGED <<rows, tally, sequence>> /\ odd \subseteq odd' /\ UNCHANGED <<seen, dirty>>
    BY <1>2
       DEF Stop, StopAllPeriodicTx, Deactivate, Free, Halt, Join, snapshot, history
  <2>2. work["app"].at \in {"idle", "deactivate", "free", "halt", "join"}
    BY <1>2
       DEF Stop, StopAllPeriodicTx, Deactivate, Free, Halt, Join, Idle, At
  <2>3. Keeps("app") /\ Keeps("io")
    <3>1. CASE Stop \/ StopAllPeriodicTx
      <4>1. PICK f \in {"stop", "stop_all"} : Begins("app", f, NoId, "deactivate")
        BY <3>1 DEF Stop, StopAllPeriodicTx
      <4>2. work'["app"].at = "deactivate" /\ work'["io"] = work["io"]
        BY <4>1, BeginsMoves, Names
      <4>3. QED
        BY <2>2, <4>2, KeepsSame, KeepsOut DEF Writing
    <3>2. CASE Deactivate \/ Halt
      <4>1. PICK p \in {"free", "join"} : Goes("app", p)
        BY <3>2 DEF Deactivate, Halt
      <4>2. work'["app"].at = p /\ work'["io"] = work["io"]
        BY <4>1, GoesMoves, Names
      <4>3. QED
        BY <2>2, <4>2, KeepsSame, KeepsOut DEF Writing
    <3>3. CASE Free
      <4>1. Keeps("io")
        BY <3>3, FreeMoves DEF Keeps
      <4>2. work'["app"].at \in {"halt", "idle"}
        BY <3>3, FreeMoves, RestTyped
      <4>3. QED
        BY <2>2, <4>1, <4>2, KeepsOut DEF Writing
    <3>4. CASE Join
      <4>1. work'["app"].at = "idle" /\ work'["io"] = work["io"]
        BY <3>4, EndsMoves, Names DEF Join
      <4>2. QED
        BY <2>2, <4>1, KeepsSame, KeepsOut DEF Writing
    <3>5. QED
      BY <1>2, <3>1, <3>2, <3>3, <3>4
  <2>4. QED
    BY <2>1, <2>3, Names DEF Quiet
<1>3. CASE \/ OnHighlightTick
           \/ \E p \in PeriodicId : OnPeriodic(p) \/ OnGhost(p)
           \/ ReadAgain \/ GhostEnds \/ \E t \in Timer : WaitAgain(t)
  <2>1. UNCHANGED <<rows, tally, sequence>> /\ odd \subseteq odd' /\ UNCHANGED <<seen, dirty>>
    BY <1>3
       DEF OnHighlightTick, OnPeriodic, OnGhost, ReadAgain, GhostEnds, WaitAgain, snapshot,
           history
  <2>2. work["io"].at \in {"idle", "rearm"}
    BY <1>3
       DEF OnHighlightTick, OnPeriodic, OnGhost, ReadAgain, GhostEnds, WaitAgain, Waits,
           Idle, At
  <2>3. \/ UNCHANGED work
        \/ work'["io"].at \in {"idle", "write", "rearm"} /\ work'["app"] = work["app"]
    <3>1. CASE Ends("io")
      BY <3>1, EndsMoves, Names
    <3>2. CASE Begins("io", "highlight", NoId, "rearm")
      BY <3>2, BeginsMoves, Names
    <3>3. ASSUME NEW p \in PeriodicId, NEW f \in {"periodic", "ghost"},
                 Begins("io", f, p, "write")
          PROVE  work'["io"].at = "write" /\ work'["app"] = work["app"]
      BY <3>3, BeginsMoves, Names, IdsDiffer
    <3>4. QED
      BY <1>3, <3>1, <3>2, <3>3
         DEF OnHighlightTick, OnPeriodic, OnGhost, ReadAgain, GhostEnds, WaitAgain
  <2>4. Keeps("app") /\ Keeps("io")
    BY <2>2, <2>3, KeepsSame, KeepsOut DEF Writing
  <2>5. QED
    BY <2>1, <2>4, Names DEF Quiet
<1>4. QED
  BY <1>1, <1>2, <1>3, Names DEF Next, AppGoesOn, IoGoesOn

(* send_frame() begins to write. *)
LEMMA SendFrameMoves ==
  ASSUME work \in [Thread -> Task], NEW i \in SentId, SendFrame(i)
  PROVE  /\ work["app"].at = "idle"
         /\ work'["app"].at = "scan" /\ work'["app"].id = i
         /\ work'["io"] = work["io"]
<1>1. Begins("app", "send", i, "scan") /\ work["app"].at = "idle"
  BY DEF SendFrame, Idle
<1>2. QED
  BY <1>1, BeginsMoves, Names, IdsDiffer

(* on_frame() begins to write, unless it has an error frame. *)
LEMMA OnFrameMoves ==
  ASSUME work \in [Thread -> Task], buffer \in BusId \cup {NoId}, OnFrame
  PROVE  /\ work["io"].at = "idle"
         /\ IF buffer = NoId
            THEN work'["io"].at = "rearm"
            ELSE work'["io"].at = "scan" /\ work'["io"].id = Bare[buffer]
         /\ work'["io"].for = "frame" /\ work'["app"] = work["app"]
<1>1. work["io"].at = "idle"
  BY DEF OnFrame, Waits, Idle
<1>2. CASE buffer = NoId
  <2>1. Begins("io", "frame", NoId, "rearm")
    BY <1>2 DEF OnFrame
  <2>2. QED
    BY <1>1, <1>2, <2>1, BeginsMoves, Names
<1>3. CASE buffer # NoId
  <2>1. Begins("io", "frame", Bare[buffer], "scan") /\ Bare[buffer] \in Id
    BY <1>3, IdsDiffer DEF OnFrame
  <2>2. QED
    BY <1>1, <1>3, <2>1, BeginsMoves, Names, IdsDiffer
<1>4. QED
  BY <1>2, <1>3

(* The bus load goes straight to the sequence number. *)
LEMMA OnBusloadTickMoves ==
  ASSUME work \in [Thread -> Task], sequence \in Nat, OnBusloadTick
  PROVE  /\ work["io"].at = "idle"
         /\ work'["io"].at = "store1" /\ work'["io"].tmp = sequence
         /\ work'["io"].for = "busload" /\ work'["app"] = work["app"]
<1> DEFINE t == [Rest EXCEPT !.at = "store1", !.for = "busload", !.tmp = sequence]
<1>1. work["io"].at = "idle" /\ work' = [work EXCEPT !["io"] = t]
  BY DEF OnBusloadTick, Waits, Idle
<1>2. t \in Task /\ t.at = "store1" /\ t.tmp = sequence /\ t.for = "busload"
  BY DEF Rest, Task
<1> HIDE DEF t
<1>3. QED
  BY <1>1, <1>2, Moves, Names

(* The row is written; the sequence number is read. *)
LEMMA RecordMoves ==
  ASSUME work \in [Thread -> Task], sequence \in Nat, NEW w \in Thread, Record(w)
  PROVE  /\ work[w].at = "record" /\ work'[w].at = "store1" /\ work'[w].tmp = sequence
         /\ work'[w].id = work[w].id /\ work'[w].for = work[w].for
         /\ \A v \in Thread : v # w => work'[v] = work[v]
<1>1. Loads(w, "store1", sequence) /\ work[w].at = "record"
  BY DEF Record, At
<1>2. QED
  BY <1>1, LoadsMoves

(* The first store of the sequence number. *)
LEMMA Store1Moves ==
  ASSUME work \in [Thread -> Task], NEW w \in Thread, Store1(w)
  PROVE  /\ work[w].tmp \in Nat
         /\ work[w].at = "store1" /\ work'[w].at = "store2"
         /\ work'[w].tmp = work[w].tmp + 1 /\ work'[w].for = work[w].for
         /\ work'[w].id = work[w].id
         /\ \A v \in Thread : v # w => work'[v] = work[v]
<1>1. /\ Loads(w, "store2", work[w].tmp + 1) /\ work[w].at = "store1"
      /\ work[w].tmp \in Nat /\ work[w].tmp + 1 \in Nat
  BY DEF Store1, At, Task
<1>2. QED
  BY <1>1, LoadsMoves

(* The second store ends the writing. *)
LEMMA Store2Moves ==
  ASSUME work \in [Thread -> Task], NEW w \in Thread, Store2(w)
  PROVE  /\ work[w].tmp \in Nat
         /\ work[w].at = "store2"
         /\ work'[w].at = IF w = "app" THEN "idle" ELSE "rearm"
         /\ w = "app" => work'["app"] = Rest
         /\ w = "io" => work'["io"].for = work["io"].for /\ work'["io"].id = work["io"].id
         /\ \A v \in Thread : v # w => work'[v] = work[v]
<1>1. work[w].at = "store2" /\ work[w].tmp \in Nat
  BY DEF Store2, At, Task
<1>2. CASE w = "app"
  BY <1>1, <1>2, EndsMoves, Names DEF Store2
<1>3. CASE w = "io"
  <2>1. work' = [work EXCEPT !["io"].tmp = 0, !["io"].row = 0, !["io"].at = "rearm"]
    BY <1>3 DEF Store2
  <2>2. QED
    BY <1>1, <1>3, <2>1, RearmMoves, Names
<1>4. QED
  BY <1>2, <1>3, Names

-----------------------------------------------------------------------------
(* The rows. *)

(* A row. *)
Row == [id : Id, count : Nat]

(* What becomes of the rows when one more frame of i is counted. *)
LEMMA WithRowOf ==
  ASSUME rows \in Seq(Row), NEW room \in BOOLEAN,
         NEW i \in Id, NEW r \in Nat, r # 0 => r \in DOMAIN rows
  PROVE  /\ WithRow(i, r, room) \in Seq(Row)
         /\ Len(WithRow(i, r, room)) <= IF room THEN Len(rows) + 1 ELSE Len(rows)
         /\ Len(rows) <= Len(WithRow(i, r, room))
         /\ \A k \in DOMAIN rows :
              /\ k \in DOMAIN WithRow(i, r, room)
              /\ WithRow(i, r, room)[k].id = rows[k].id
              /\ WithRow(i, r, room)[k].count = rows[k].count + IF k = r THEN 1 ELSE 0
         /\ \A k \in DOMAIN WithRow(i, r, room) \ DOMAIN rows :
              /\ r = 0 /\ k = Len(rows) + 1
              /\ WithRow(i, r, room)[k].id = i /\ WithRow(i, r, room)[k].count = 1
         /\ r = 0 /\ room => Len(rows) + 1 \in DOMAIN WithRow(i, r, room)
<1>1. Len(rows) \in Nat /\ DOMAIN rows = 1 .. Len(rows)
  BY LenProperties
<1>0. ASSUME NEW k \in DOMAIN rows
      PROVE  rows[k] \in Row /\ rows[k].id \in Id /\ rows[k].count \in Nat /\ k # 0
  <2>1. rows[k] \in Row /\ k # 0
    BY <1>1, ElementOfSeq
  <2>2. QED
    BY <2>1 DEF Row
<1>2. CASE r # 0
  <2> DEFINE more == [rows[r] EXCEPT !.count = @ + 1]
  <2>1. more \in Row /\ more.id = rows[r].id /\ more.count = rows[r].count + 1
    <3>1. rows[r] \in Row
      BY <1>0, <1>2
    <3>2. QED
      BY <3>1 DEF Row
  <2>2. WithRow(i, r, room) = [rows EXCEPT ![r] = more]
    BY <1>2 DEF WithRow
  <2> HIDE DEF more
  <2>3. WithRow(i, r, room) \in Seq(Row) /\ Len(WithRow(i, r, room)) = Len(rows)
        /\ DOMAIN WithRow(i, r, room) = DOMAIN rows
    BY <1>2, <2>1, <2>2, ExceptSeq
  <2>4. ASSUME NEW k \in DOMAIN rows
        PROVE  /\ WithRow(i, r, room)[k].id = rows[k].id
               /\ WithRow(i, r, room)[k].count = rows[k].count + IF k = r THEN 1 ELSE 0
    <3>1. WithRow(i, r, room)[k] = IF k = r THEN more ELSE rows[k]
      BY <2>2
    <3>2. rows[k] \in Row /\ rows[k].count \in Nat
      BY <1>0
    <3>3. QED
      BY <2>1, <3>1, <3>2
  <2>5. /\ DOMAIN WithRow(i, r, room) \ DOMAIN rows = {}
        /\ Len(rows) <= Len(WithRow(i, r, room))
        /\ Len(WithRow(i, r, room)) <= IF room THEN Len(rows) + 1 ELSE Len(rows)
    BY <1>1, <2>3
  <2>6. QED
    BY <1>2, <2>3, <2>4, <2>5
<1>3. CASE r = 0 /\ room
  <2> DEFINE new == [id |-> i, count |-> 1]
  <2>1. new \in Row /\ new.id = i /\ new.count = 1
    BY DEF Row
  <2>2. WithRow(i, r, room) = Append(rows, new)
    BY <1>3 DEF WithRow
  <2> HIDE DEF new
  <2>3. /\ WithRow(i, r, room) \in Seq(Row) /\ Len(WithRow(i, r, room)) = Len(rows) + 1
        /\ DOMAIN WithRow(i, r, room) = 1 .. Len(rows) + 1
        /\ WithRow(i, r, room)[Len(rows) + 1] = new
        /\ \A k \in 1 .. Len(rows) : WithRow(i, r, room)[k] = rows[k]
    BY <2>1, <2>2, AppendProperties
  <2>4. ASSUME NEW k \in DOMAIN rows
        PROVE  /\ WithRow(i, r, room)[k].id = rows[k].id
               /\ WithRow(i, r, room)[k].count = rows[k].count + IF k = r THEN 1 ELSE 0
    <3>1. rows[k] \in Row /\ rows[k].count \in Nat /\ k # 0
      BY <1>0
    <3>2. WithRow(i, r, room)[k] = rows[k]
      BY <1>1, <2>3
    <3>3. k # r
      BY <1>3, <3>1
    <3>4. rows[k].count = rows[k].count + IF k = r THEN 1 ELSE 0
      BY <3>1, <3>3
    <3>5. QED
      BY <3>2, <3>4
  <2>5. /\ DOMAIN WithRow(i, r, room) \ DOMAIN rows = {Len(rows) + 1}
        /\ Len(rows) <= Len(WithRow(i, r, room))
        /\ Len(WithRow(i, r, room)) <= IF room THEN Len(rows) + 1 ELSE Len(rows)
        /\ DOMAIN rows \subseteq DOMAIN WithRow(i, r, room)
        /\ Len(rows) + 1 \in DOMAIN WithRow(i, r, room)
    <3>1. PICK n \in Nat : n = Len(rows)
      BY <1>1
    <3>2. /\ DOMAIN rows = 1 .. n /\ DOMAIN WithRow(i, r, room) = 1 .. n + 1
          /\ Len(WithRow(i, r, room)) = n + 1
      BY <1>1, <2>3, <3>1
    <3>3. (1 .. n + 1) \ (1 .. n) = {n + 1} /\ (1 .. n) \subseteq (1 .. n + 1)
          /\ n + 1 \in 1 .. n + 1 /\ n <= n + 1 /\ n + 1 <= n + 1
      OBVIOUS
    <3>4. (IF room THEN Len(rows) + 1 ELSE Len(rows)) = n + 1
      BY <1>3, <3>1
    <3>5. QED
      BY <3>1, <3>2, <3>3, <3>4
  <2>6. QED
    BY <1>3, <2>1, <2>3, <2>4, <2>5
<1>4. CASE r = 0 /\ ~room
  <2>1. WithRow(i, r, room) = rows
    BY <1>4 DEF WithRow
  <2>2. Len(rows) <= Len(rows)
    BY <1>1
  <2>3. ASSUME NEW k \in DOMAIN rows
        PROVE  rows[k].count = rows[k].count + IF k = r THEN 1 ELSE 0
    <3>1. rows[k] \in Row /\ rows[k].count \in Nat /\ k # 0
      BY <1>0
    <3>2. QED
      BY <1>4, <3>1
  <2>4. QED
    BY <1>4, <2>1, <2>2, <2>3
<1>5. QED
  BY <1>2, <1>3, <1>4

(* The tally goes up by one for one ID. *)
LEMMA TallyMore ==
  ASSUME tally \in [Id -> Nat], NEW i \in Id, tally' = [tally EXCEPT ![i] = @ + 1]
  PROVE  /\ tally' \in [Id -> Nat]
         /\ \A j \in Id : tally'[j] = tally[j] + IF j = i THEN 1 ELSE 0
OBVIOUS

(* What a step that records does to the rows. *)
LEMMA RecordRows ==
  ASSUME RowsTyped, work \in [Thread -> Task], WorkInv, FoundInv,
         NEW w \in Thread, Record(w)
  PROVE  /\ work[w].id \in Id /\ work[w].row \in Nat
         /\ work[w].row # 0 => work[w].row \in DOMAIN rows
                               /\ rows[work[w].row].id = work[w].id
         /\ \E room \in BOOLEAN :
              /\ "clash" \notin odd => room = (Len(rows) < MaxMessages)
              /\ rows' = WithRow(work[w].id, work[w].row, room)
         /\ tally' = tally
<1>1. work[w].at = "record"
  BY DEF Record, At
<1>2. work[w].id \in Id
  BY <1>1, CountedId
<1>3. work[w].row \in Nat
  BY DEF Task
<1>4. /\ \E room \in BOOLEAN :
           /\ "clash" \notin odd => room = (Len(rows) < MaxMessages)
           /\ rows' = WithRow(work[w].id, work[w].row, room)
      /\ tally' = tally
  <2> DEFINE seen0 == Len(rows) < MaxMessages
  <2>1. seen0 \in BOOLEAN
    OBVIOUS
  <2>2. PICK room \in Sees(seen0) : rows' = WithRow(work[w].id, work[w].row, room)
    BY DEF Record
  <2>3. tally' = tally
    BY DEF Record
  <2>4. room \in BOOLEAN /\ ("clash" \notin odd => room = seen0)
    <3> HIDE DEF seen0
    <3>1. CASE "clash" \in odd
      <4>1. room \in {TRUE, seen0}
        BY <2>2, <3>1 DEF Sees
      <4>2. QED
        BY <2>1, <3>1, <4>1
    <3>2. CASE "clash" \notin odd
      <4>1. room \in {seen0}
        BY <2>2, <3>2 DEF Sees
      <4>2. QED
        BY <2>1, <4>1
    <3>3. QED
      BY <3>1, <3>2
  <2>5. QED
    BY <2>2, <2>3, <2>4
<1>5. work[w].row # 0 => work[w].row \in DOMAIN rows /\ rows[work[w].row].id = work[w].id
  BY <1>1 DEF FoundInv, At
<1>6. QED
  BY <1>2, <1>3, <1>4, <1>5

(* What went wrong stays on record until the next start. *)
LEMMA OddGrows ==
  ASSUME Next
  PROVE  Start \/ odd \subseteq odd'
<1>1. CASE \/ ClearDisplayFilter \/ LoadSignals \/ Poll \/ ReadFails \/ Leave
           \/ \E K \in Filters : SetDisplayFilter(K)
           \/ \E s \in Signal : AddGraphSignal(s) \/ RemoveGraphSignal(s)
           \/ \E p \in PeriodicId : StartPeriodicTx(p) \/ StopPeriodicTx(p)
           \/ \E i \in BusId \cup {NoId} : Arrive(i)
           \/ \E t \in Timer : Expire(t)
  BY <1>1
     DEF ClearDisplayFilter, Filter, LoadSignals, Poll, ReadFails, Leave, SetDisplayFilter,
         AddGraphSignal, RemoveGraphSignal, StartPeriodicTx, StopPeriodicTx, Arrive, Expire,
         Changes, history
<1>2. CASE \/ Stop \/ StopAllPeriodicTx \/ Deactivate \/ Free \/ Halt \/ Join
           \/ \E i \in SentId : SendFrame(i)
           \/ \E w \in Thread : Scan(w) \/ Record(w) \/ Store1(w) \/ Store2(w)
  BY <1>2
     DEF Stop, StopAllPeriodicTx, Deactivate, Free, Halt, Join, SendFrame, Scan, Record,
         Store1, Store2, history
<1>3. CASE \/ OnFrame \/ OnBusloadTick \/ OnHighlightTick \/ WritePeriodic \/ ReadAgain
           \/ GhostEnds
           \/ \E p \in PeriodicId : OnPeriodic(p) \/ OnGhost(p)
           \/ \E t \in Timer : WaitAgain(t)
  BY <1>3
     DEF OnFrame, OnBusloadTick, OnHighlightTick, WritePeriodic, ReadAgain, GhostEnds,
         OnPeriodic, OnGhost, WaitAgain, history
<1>4. QED
  BY <1>1, <1>2, <1>3, Names DEF Next, AppGoesOn, IoGoesOn

(* The highlights are those of rows: only recording adds one. *)
LEMMA LitStep ==
  ASSUME lit \subseteq Nat, work \in [Thread -> Task], Next,
         \A w \in Thread : Record(w) => DOMAIN rows' \subseteq Nat
  PROVE  lit' \subseteq Nat
<1>1. CASE \/ ClearDisplayFilter \/ LoadSignals \/ Poll \/ ReadFails \/ Leave \/ Start
           \/ \E K \in Filters : SetDisplayFilter(K)
           \/ \E s \in Signal : AddGraphSignal(s) \/ RemoveGraphSignal(s)
           \/ \E p \in PeriodicId : StartPeriodicTx(p) \/ StopPeriodicTx(p)
           \/ \E i \in BusId \cup {NoId} : Arrive(i)
           \/ \E t \in Timer : Expire(t)
  BY <1>1
     DEF ClearDisplayFilter, Filter, LoadSignals, Poll, ReadFails, Leave, SetDisplayFilter,
         AddGraphSignal, RemoveGraphSignal, StartPeriodicTx, StopPeriodicTx, Arrive, Expire,
         Start, snapshot
<1>2. CASE \/ Stop \/ StopAllPeriodicTx \/ Deactivate \/ Free \/ Halt \/ Join
           \/ \E i \in SentId : SendFrame(i)
           \/ \E w \in Thread : Scan(w) \/ Store1(w) \/ Store2(w)
  BY <1>2
     DEF Stop, StopAllPeriodicTx, Deactivate, Free, Halt, Join, SendFrame, Scan,
         Store1, Store2, snapshot
<1>3. ASSUME NEW w \in Thread, Record(w)
      PROVE  lit' \subseteq Nat
  <2>1. work[w].row \in Nat /\ DOMAIN rows' \subseteq Nat
    BY <1>3 DEF Task
  <2>2. lit' = lit \cup IF work[w].row # 0 THEN {work[w].row}
                       ELSE {r \in DOMAIN rows' : r > Len(rows)}
    BY <1>3 DEF Record
  <2>3. QED
    BY <2>1, <2>2
<1>4. CASE \/ OnFrame \/ OnBusloadTick \/ OnHighlightTick \/ WritePeriodic \/ ReadAgain
           \/ GhostEnds
           \/ \E p \in PeriodicId : OnPeriodic(p) \/ OnGhost(p)
           \/ \E t \in Timer : WaitAgain(t)
  BY <1>4
     DEF OnFrame, OnBusloadTick, OnHighlightTick, WritePeriodic, ReadAgain, GhostEnds,
         OnPeriodic, OnGhost, WaitAgain, snapshot
<1>5. QED
  BY <1>1, <1>2, <1>3, <1>4, Names DEF Next, AppGoesOn, IoGoesOn

(* A step keeps the type of the rows, and there are never too many unless  *)
(* two threads wrote at once.                                              *)
LEMMA RowsStep ==
  ASSUME RowsTyped, work \in [Thread -> Task], WorkInv, FoundInv, Next
  PROVE  RowsTyped'
<1> DEFINE Right == /\ rows' \in Seq(Row) /\ tally' \in [Id -> Nat]
                    /\ "clash" \notin odd' => Len(rows') <= MaxMessages
<1>1. rows \in Seq(Row) /\ tally \in [Id -> Nat] /\ lit \subseteq Nat
      /\ ("clash" \notin odd => Len(rows) <= MaxMessages)
  BY DEF RowsTyped, Row
<1>2. CASE Start
  <2>1. rows' = <<>> /\ tally' = [i \in Id |-> 0] /\ lit' = {}
    BY <1>2 DEF Start
  <2>2. Len(<<>>) <= MaxMessages /\ <<>> \in Seq(Row)
    BY Sizes, EmptySeq
  <2>3. tally' \in [Id -> Nat]
    BY <2>1
  <2>4. QED
    BY <2>1, <2>2, <2>3 DEF RowsTyped, Row
<1>3. CASE ~Start
  <2>0. odd \subseteq odd'
    BY <1>3, OddGrows
  <2>1. ASSUME UNCHANGED <<rows, tally>>
        PROVE  Right
    BY <1>1, <2>0, <2>1
  <2>2. ASSUME NEW i \in Id, rows' = rows, tally' = [tally EXCEPT ![i] = @ + 1]
        PROVE  Right
    BY <1>1, <2>0, <2>2, TallyMore
  <2>3. ASSUME NEW i \in SentId, SendFrame(i)
        PROVE  Right
    <3>1. rows' = rows /\ tally' = [tally EXCEPT ![i] = @ + 1] /\ i \in Id
      BY <2>3, IdsDiffer DEF SendFrame, snapshot
    <3> HIDE DEF Right
    <3>2. QED
      BY <2>2, <3>1
  <2>4. ASSUME OnFrame
        PROVE  Right
    <3>1. CASE buffer = NoId
      <4>1. UNCHANGED <<rows, tally>>
        BY <2>4, <3>1 DEF OnFrame
      <4> HIDE DEF Right
      <4>2. QED
        BY <2>1, <4>1
    <3>2. CASE buffer # NoId
      <4>1. /\ rows' = rows /\ tally' = [tally EXCEPT ![Bare[buffer]] = @ + 1]
            /\ Bare[buffer] \in Id
        BY <2>4, <3>2, IdsDiffer DEF OnFrame, WorkInv
      <4> HIDE DEF Right
      <4>2. QED
        BY <2>2, <4>1
    <3>3. QED
      BY <3>1, <3>2
  <2>5. ASSUME WritePeriodic
        PROVE  Right
    <3>1. rows' = rows
      BY <2>5 DEF WritePeriodic, snapshot
    <3>2. work'["io"].id \in Id /\ tally' = [tally EXCEPT ![work'["io"].id] = @ + 1]
      BY <2>5, WritePeriodicMoves
    <3> HIDE DEF Right
    <3>3. QED
      BY <2>2, <3>1, <3>2
  <2>6. ASSUME NEW w \in Thread, Record(w)
        PROVE  Right
    <3>1. PICK room \in BOOLEAN :
            /\ "clash" \notin odd => room = (Len(rows) < MaxMessages)
            /\ rows' = WithRow(work[w].id, work[w].row, room)
      BY <2>6, RecordRows
    <3>2. /\ rows' \in Seq(Row)
          /\ Len(rows') <= IF room THEN Len(rows) + 1 ELSE Len(rows)
      BY <1>1, <2>6, <3>1, RecordRows, WithRowOf
    <3>3. tally' = tally /\ odd' = odd
      BY <2>6, RecordRows DEF Record
    <3>5. "clash" \notin odd => Len(rows') <= MaxMessages
      <4>1. PICK l \in Nat, k \in Nat, m \in Nat :
              l = Len(rows) /\ k = Len(rows') /\ m = MaxMessages
        BY <1>1, <3>2, Sizes, LenProperties
      <4>2. CASE "clash" \notin odd /\ room
        <5>1. l < m /\ k <= l + 1
          BY <3>1, <3>2, <4>1, <4>2
        <5>2. k <= m
          BY <5>1
        <5>3. QED
          BY <4>1, <5>2
      <4>3. CASE "clash" \notin odd /\ ~room
        <5>1. l <= m /\ k <= l
          BY <1>1, <3>2, <4>1, <4>3
        <5>2. k <= m
          BY <5>1
        <5>3. QED
          BY <4>1, <5>2
      <4>4. QED
        BY <4>2, <4>3
    <3>6. QED
      BY <1>1, <3>2, <3>3, <3>5
  <2>7. ASSUME OnBusloadTick \/ \E w \in Thread : Scan(w) \/ Store1(w) \/ Store2(w)
        PROVE  Right
    <3>1. UNCHANGED <<rows, tally>>
      BY <2>7 DEF OnBusloadTick, Scan, Store1, Store2, snapshot, history
    <3> HIDE DEF Right
    <3>2. QED
      BY <2>1, <3>1
  <2>8. Right
    <3> HIDE DEF Right
    <3>1. QED
      BY <1>3, <2>1, <2>3, <2>4, <2>5, <2>6, <2>7, StepKinds DEF Quiet
  <2>9. lit' \subseteq Nat
    <3>1. rows' \in Seq(Row)
      BY <2>8
    <3>2. DOMAIN rows' \subseteq Nat
      BY <3>1, LenProperties
    <3>3. QED
      BY <1>1, <3>2, LitStep
  <2>10. QED
    BY <2>8, <2>9 DEF RowsTyped, Row
<1>4. QED
  BY <1>2, <1>3

(* A step leaves a row that was found where it was. *)
LEMMA FoundStep ==
  ASSUME ControlTyped, RowsTyped, work \in [Thread -> Task], WorkInv, PhaseInv, FoundInv,
         Next
  PROVE  FoundInv'
<1> SUFFICES ASSUME NEW v \in Thread, work'[v].at = "record", work'[v].row # 0
             PROVE  work'[v].row \in DOMAIN rows' /\ rows'[work'[v].row].id = work'[v].id
  BY DEF FoundInv, At
<1> DEFINE Goal == work'[v].row \in DOMAIN rows' /\ rows'[work'[v].row].id = work'[v].id
<1>1. rows \in Seq(Row) /\ sequence \in Nat
  BY DEF RowsTyped, Row, ControlTyped
<1>2. ASSUME work[v].at = "record", work'[v].row = work[v].row, work'[v].id = work[v].id,
             rows' = rows
      PROVE  Goal
  BY <1>2 DEF FoundInv, At
<1>3. CASE Start
  <2>1. work' = work /\ running = FALSE /\ ctx = "off" /\ work["app"].at = "idle"
    <3>1. ~running /\ work["app"].at = "idle" /\ work' = work
      BY <1>3 DEF Start, Idle
    <3>2. work["app"].for # "stop"
      BY <3>1 DEF WorkInv, AppTask, Rest
    <3>3. QED
      BY <3>1, <3>2 DEF PhaseInv, ControlTyped
  <2>2. work["io"].at = "idle"
    BY <2>1 DEF PhaseInv, Idle
  <2>3. QED
    BY <2>1, <2>2, Names
<1>4. ASSUME NEW i \in SentId, SendFrame(i)
      PROVE  Goal
  <2>1. rows' = rows
    BY <1>4 DEF SendFrame, snapshot
  <2>2. work'[v] = work[v]
    BY <1>4, SendFrameMoves, Names
  <2>3. QED
    BY <1>2, <2>1, <2>2
<1>5. CASE OnFrame \/ OnBusloadTick \/ WritePeriodic
  <2>1. rows' = rows
    BY <1>5 DEF OnFrame, OnBusloadTick, WritePeriodic, snapshot
  <2>2. work'["io"].at # "record" /\ work'["app"] = work["app"]
    BY <1>1, <1>5, OnFrameMoves, OnBusloadTickMoves, WritePeriodicMoves DEF WorkInv
  <2>3. QED
    BY <1>2, <2>1, <2>2, Names
<1>6. ASSUME NEW w \in Thread, Scan(w)
      PROVE  Goal
  <2>1. rows' = rows
    BY <1>6 DEF Scan, snapshot
  <2>2. PICK r \in Nat :
          /\ work' = [work EXCEPT ![w].row = r, ![w].at = "record"]
          /\ IF r = 0 THEN ~HasRow(work[w].id)
             ELSE r \in DOMAIN rows /\ rows[r].id = work[w].id
    BY <1>1, <1>6, FoundRow DEF Row
  <2>3. work'[w].row = r /\ work'[w].id = work[w].id /\ (v # w => work'[v] = work[v])
    BY <2>2, ScanMoves
  <2>4. QED
    BY <1>2, <2>1, <2>2, <2>3
<1>7. ASSUME NEW w \in Thread, Record(w)
      PROVE  Goal
  <2>1. v # w /\ work'[v] = work[v]
    BY <1>1, <1>7, RecordMoves
  <2>2. work[v].row \in DOMAIN rows /\ rows[work[v].row].id = work[v].id
    BY <2>1 DEF FoundInv, At
  <2>3. \A k \in DOMAIN rows : k \in DOMAIN rows' /\ rows'[k].id = rows[k].id
    BY <1>1, <1>7, RecordRows, WithRowOf
  <2>4. QED
    BY <2>1, <2>2, <2>3
<1>8. ASSUME NEW w \in Thread, Store1(w) \/ Store2(w)
      PROVE  Goal
  <2>1. rows' = rows
    BY <1>8 DEF Store1, Store2
  <2>2. v # w /\ work'[v] = work[v]
    BY <1>8, Store1Moves, Store2Moves
  <2>3. QED
    BY <1>2, <2>1, <2>2
<1>9. CASE Quiet
  <2>1. Writing(v)' /\ Keeps(v) /\ rows' = rows
    BY <1>9 DEF Quiet, Writing
  <2>2. QED
    BY <1>2, <2>1 DEF Keeps
<1>10. QED
  BY <1>3, <1>4, <1>5, <1>6, <1>7, <1>8, <1>9, StepKinds

-----------------------------------------------------------------------------
(* The sequence number. *)

(* Nobody is at work when the engine starts. *)
LEMMA StartIdle ==
  ASSUME ControlTyped, WorkInv, PhaseInv, Start
  PROVE  /\ work' = work /\ work["app"].at = "idle" /\ work["io"].at = "idle"
         /\ work["io"].for = "none"
         /\ reads = 0 /\ \A p \in PeriodicId : entry[p] = "none"
<1>1. ~running /\ work["app"].at = "idle" /\ work' = work
  BY DEF Start, Idle
<1>2. work["app"].for # "stop"
  BY <1>1 DEF WorkInv, AppTask, Rest
<1>3. ctx = "off" /\ reads = 0 /\ \A p \in PeriodicId : entry[p] = "none"
  BY <1>1, <1>2 DEF PhaseInv, Idle
<1>4. work["io"].at = "idle"
  BY <1>3 DEF PhaseInv, Idle
<1>5. work["io"].for = "none"
  BY <1>4 DEF WorkInv, IoTask, Rest
<1>6. QED
  BY <1>1, <1>3, <1>4, <1>5

(* At most one thread writes. *)
Alone == ~(Writing("app") /\ Writing("io"))

(* Odd and even numbers alternate. *)
LEMMA NextEven ==
  ASSUME NEW n \in Nat
  PROVE  /\ n % 2 = 0 => (n + 1) % 2 = 1
         /\ n % 2 = 1 => (n + 1) % 2 = 0
OBVIOUS

(* Who does not write is at none of its stages. *)
LEMMA NoStores ==
  ASSUME NEW v, ~Writing(v)
  PROVE  ~At(v, "store2") /\ ~Storing(v) /\ ~Counting(v)
BY DEF Writing, Storing, At, Counting

(* Who begins to write without a clash is alone. *)
LEMMA BeginsAlone ==
  ASSUME work \in [Thread -> Task], WorkInv, sequence \in Nat, "clash" \notin odd',
         \/ \E i \in SentId : SendFrame(i)
         \/ OnFrame /\ buffer # NoId
         \/ OnBusloadTick \/ WritePeriodic
  PROVE  /\ ~Writing("app") /\ ~Writing("io")
         /\ \E w \in Thread : /\ work'[w].at = IF OnBusloadTick THEN "store1" ELSE "scan"
                              /\ OnBusloadTick => work'[w].tmp = sequence
                              /\ work'[Other(w)] = work[Other(w)]
<1>1. ASSUME NEW i \in SentId, SendFrame(i)
      PROVE  /\ ~Writing("app") /\ ~Writing("io") /\ work'["app"].at = "scan"
             /\ work'["io"] = work["io"]
  <2>1. Clash("app") = {}
    BY <1>1 DEF SendFrame, Clash
  <2>2. QED
    BY <1>1, <2>1, SendFrameMoves, Names DEF Clash, Writing
<1>2. ASSUME OnFrame, buffer # NoId
      PROVE  /\ ~Writing("app") /\ ~Writing("io") /\ work'["io"].at = "scan"
             /\ work'["app"] = work["app"]
  <2>1. Clash("io") = {}
    BY <1>2 DEF OnFrame, Clash
  <2>2. QED
    BY <1>2, <2>1, OnFrameMoves, Names DEF Clash, Writing, WorkInv
<1>3. ASSUME OnBusloadTick
      PROVE  /\ ~Writing("app") /\ ~Writing("io") /\ work'["io"].at = "store1"
             /\ work'["io"].tmp = sequence /\ work'["app"] = work["app"]
  <2>1. Clash("io") = {}
    BY <1>3 DEF OnBusloadTick, Clash
  <2>2. QED
    BY <1>3, <2>1, OnBusloadTickMoves, Names DEF Clash, Writing
<1>4. ASSUME WritePeriodic
      PROVE  /\ ~Writing("app") /\ ~Writing("io") /\ work'["io"].at = "scan"
             /\ work'["app"] = work["app"]
  <2>1. Clash("io") = {}
    BY <1>4 DEF WritePeriodic, Clash
  <2>2. QED
    BY <1>4, <2>1, WritePeriodicMoves, Names DEF Clash, Writing
<1>5. CASE OnBusloadTick
  BY <1>3, <1>5, Names
<1>6. CASE ~OnBusloadTick
  BY <1>1, <1>2, <1>4, <1>6, Names
<1>7. QED
  BY <1>5, <1>6

(* A step keeps SequenceInv: without a clash the two threads take turns. *)
LEMMA SequenceStep ==
  ASSUME ControlTyped, work \in [Thread -> Task], WorkInv, PhaseInv, SequenceInv, Next
  PROVE  SequenceInv'
<1> SUFFICES ASSUME "clash" \notin odd'
             PROVE  /\ ~(Writing("app") /\ Writing("io"))'
                    /\ sequence' % 2 = IF \E w \in Thread : At(w, "store2")' THEN 1 ELSE 0
                    /\ \A w \in Thread : Storing(w)' => work'[w].tmp = sequence'
                    /\ seen' <= sequence'
                    /\ dirty' => seen' < sequence' \/ \E w \in Thread : Storing(w)'
  BY DEF SequenceInv
<1> DEFINE Goal == /\ ~(Writing("app") /\ Writing("io"))'
                   /\ sequence' % 2 = IF \E w \in Thread : At(w, "store2")' THEN 1 ELSE 0
                   /\ \A w \in Thread : Storing(w)' => work'[w].tmp = sequence'
                   /\ seen' <= sequence'
                   /\ dirty' => seen' < sequence' \/ \E w \in Thread : Storing(w)'
<1>1. CASE Start
  <2>1. /\ work'["app"].at = "idle" /\ work'["io"].at = "idle"
        /\ sequence' = 0 /\ seen' = 0 /\ dirty' = FALSE
    BY <1>1, StartIdle DEF Start
  <2>2. \A w \in Thread : ~Writing(w)' /\ ~At(w, "store2")' /\ ~Storing(w)'
    BY <2>1, Names DEF Writing, At, Storing
  <2>3. QED
    BY <2>1, <2>2, Names
<1>2. ASSUME "clash" \notin odd
      PROVE  /\ Alone
             /\ sequence % 2 = IF \E w \in Thread : At(w, "store2") THEN 1 ELSE 0
             /\ \A w \in Thread : Storing(w) => work[w].tmp = sequence
             /\ seen <= sequence
             /\ dirty => seen < sequence \/ \E w \in Thread : Storing(w)
  BY <1>2 DEF SequenceInv, Alone
<1>3. sequence \in Nat /\ seen \in Nat
  BY DEF ControlTyped
<1>4. CASE \/ \E i \in SentId : SendFrame(i)
           \/ OnFrame /\ buffer # NoId
           \/ OnBusloadTick \/ WritePeriodic
  <2>1. "clash" \notin odd /\ UNCHANGED <<sequence, seen, dirty>>
    BY <1>4 DEF SendFrame, OnFrame, OnBusloadTick, WritePeriodic, snapshot
  <2>2. ~Writing("app") /\ ~Writing("io")
    BY <1>3, <1>4, BeginsAlone
  <2>3. PICK w \in Thread : /\ work'[w].at = IF OnBusloadTick THEN "store1" ELSE "scan"
                            /\ OnBusloadTick => work'[w].tmp = sequence
                            /\ work'[Other(w)] = work[Other(w)]
    BY <1>3, <1>4, BeginsAlone
  <2>4. ~Writing(Other(w))' /\ ~At(w, "store2")'
    BY <2>2, <2>3, Names DEF Writing, At
  <2>5. \A v \in Thread : ~At(v, "store2") /\ ~Storing(v)
    BY <2>2, NoStores, Names
  <2>6. \A v \in Thread : ~At(v, "store2")'
    BY <2>3, <2>4, Names DEF At, Writing
  <2>7. \A v \in Thread : Storing(v)' => v = w /\ OnBusloadTick
    BY <2>3, <2>4, Names DEF Writing, Storing
  <2>8. Alone'
    BY <2>4, Names DEF Alone
  <2>9. sequence' % 2 = 0 /\ seen' <= sequence' /\ (dirty' => seen' < sequence')
    BY <1>2, <2>1, <2>5
  <2>10. QED
    BY <2>1, <2>3, <2>6, <2>7, <2>8, <2>9 DEF Alone
<1>5. CASE OnFrame /\ ~(buffer # NoId)
  <2>1. "clash" \notin odd /\ UNCHANGED <<sequence, seen, dirty>>
    BY <1>5 DEF OnFrame
  <2>2. /\ work["io"].at = "idle" /\ work'["io"].at = "rearm" /\ work'["app"] = work["app"]
    BY <1>5, OnFrameMoves DEF WorkInv
  <2>3. /\ Writing("app")' <=> Writing("app")
        /\ ~Writing("io")'
        /\ \A v \in Thread : (At(v, "store2")' <=> At(v, "store2"))
                             /\ (Storing(v)' <=> Storing(v))
                             /\ (Storing(v) => work'[v].tmp = work[v].tmp)
    BY <2>2, Names DEF Writing, At, Storing
  <2>4. QED
    BY <1>2, <2>1, <2>3
<1>6. ASSUME NEW w \in Thread, Scan(w)
      PROVE  Goal
  <2>1. "clash" \notin odd /\ UNCHANGED <<sequence, seen, dirty>> /\ work[w].at = "scan"
    BY <1>6 DEF Scan, snapshot, history, At
  <2>2. PICK r : work' = [work EXCEPT ![w].row = r, ![w].at = "record"]
    BY <1>6 DEF Scan
  <2>3. work'[w].at = "record" /\ \A v \in Thread : v # w => work'[v] = work[v]
    BY <2>2
  <2>4. \A v \in Thread : /\ Writing(v)' <=> Writing(v)
                          /\ At(v, "store2")' <=> At(v, "store2")
                          /\ Storing(v)' <=> Storing(v)
                          /\ Storing(v) => work'[v].tmp = work[v].tmp
    BY <2>1, <2>3 DEF Writing, At, Storing
  <2>5. QED
    BY <1>2, <2>1, <2>4, Names DEF Alone
<1>7. ASSUME NEW w \in Thread, Record(w)
      PROVE  Goal
  <2>1. "clash" \notin odd /\ UNCHANGED <<sequence, seen>>
    BY <1>7 DEF Record
  <2>2. /\ work[w].at = "record" /\ work'[w].at = "store1" /\ work'[w].tmp = sequence
        /\ \A v \in Thread : v # w => work'[v] = work[v]
    BY <1>3, <1>7, RecordMoves
  <2>3. \A v \in Thread : /\ Writing(v)' <=> Writing(v)
                          /\ At(v, "store2")' <=> At(v, "store2")
                          /\ v # w => (Storing(v)' <=> Storing(v))
                          /\ Storing(v) => work'[v].tmp = work[v].tmp
    BY <2>2 DEF Writing, At, Storing
  <2>4. Storing(w)'
    BY <2>2 DEF Storing
  <2>5. QED
    BY <1>2, <2>1, <2>2, <2>3, <2>4, Names DEF Alone
<1>8. ASSUME NEW w \in Thread, Store1(w) \/ Store2(w)
      PROVE  Goal
  <2>1. /\ "clash" \notin odd /\ UNCHANGED <<seen, dirty>>
        /\ sequence' = work[w].tmp + 1
    BY <1>8 DEF Store1, Store2, history
  <2>2. /\ work[w].at \in {"store1", "store2"}
        /\ \A v \in Thread : v # w => work'[v] = work[v]
    BY <1>8, Store1Moves, Store2Moves
  <2>3. Storing(w) /\ Writing(w) /\ \A v \in Thread : v # w => ~Writing(v)
    BY <1>2, <2>1, <2>2, Names DEF Storing, Writing, Alone
  <2>4. work[w].tmp = sequence
    BY <1>2, <2>1, <2>3
  <2>5. \A v \in Thread : v # w => /\ ~At(v, "store2") /\ ~Writing(v)'
                                   /\ ~At(v, "store2")' /\ ~Storing(v)'
    BY <2>2, <2>3 DEF Writing, At, Storing
  <2>6. Alone'
    BY <2>5, Names DEF Alone
  <2>7. seen' < sequence' /\ seen' <= sequence'
    BY <1>2, <1>3, <2>1, <2>4
  <2>8. CASE Store1(w)
    <3>1. work[w].at = "store1" /\ work'[w].at = "store2" /\ work'[w].tmp = sequence + 1
      BY <2>4, <2>8, Store1Moves
    <3>2. sequence % 2 = 0
      BY <1>2, <2>1, <2>5, <3>1 DEF At
    <3>3. sequence' % 2 = 1 /\ At(w, "store2")'
      BY <1>3, <2>1, <2>4, <3>1, <3>2, NextEven DEF At
    <3>4. \A v \in Thread : Storing(v)' => work'[v].tmp = sequence'
      BY <2>1, <2>4, <2>5, <3>1
    <3>5. QED
      BY <2>6, <2>7, <3>3, <3>4 DEF Alone
  <2>9. CASE Store2(w)
    <3>1. work[w].at = "store2" /\ work'[w].at \in {"idle", "rearm"}
      BY <2>9, Store2Moves
    <3>2. sequence % 2 = 1
      BY <1>2, <2>1, <3>1 DEF At
    <3>3. sequence' % 2 = 0
      BY <1>3, <2>1, <2>4, <3>2, NextEven
    <3>4. \A v \in Thread : ~Storing(v)' /\ ~At(v, "store2")'
      BY <2>5, <3>1 DEF Storing, At
    <3>5. QED
      BY <2>6, <2>7, <3>3, <3>4 DEF Alone
  <2>10. QED
    BY <1>8, <2>8, <2>9
<1>9. CASE Quiet
  <2>1. "clash" \notin odd /\ sequence' = sequence
    BY <1>9 DEF Quiet
  <2>2. \A v \in Thread : /\ Writing(v)' <=> Writing(v)
                          /\ At(v, "store2")' <=> At(v, "store2")
                          /\ Storing(v)' <=> Storing(v)
                          /\ Storing(v) => work'[v].tmp = work[v].tmp
    BY <1>9 DEF Quiet, Keeps, Writing, At, Storing
  <2>3. seen' <= sequence' /\ (dirty' => seen' < sequence' \/ \E w \in Thread : Storing(w)')
    BY <1>2, <1>3, <1>9, <2>1, <2>2 DEF Quiet
  <2>4. QED
    BY <1>2, <2>1, <2>2, <2>3, Names DEF Alone
<1>10. QED
  BY <1>1, <1>4, <1>5, <1>6, <1>7, <1>8, <1>9, StepKinds

(* When nobody writes, the number tells the poller of every change. *)
LEMMA SequenceShows == ControlTyped /\ SequenceInv => ChangesShow
<1> SUFFICES ASSUME ControlTyped, SequenceInv, NoWriter, "clash" \notin odd
             PROVE  sequence % 2 = 0 /\ (dirty => sequence # seen)
  BY DEF ChangesShow
<1>1. \A w \in Thread : ~At(w, "store2") /\ ~Storing(w)
  BY NoStores DEF NoWriter, Thread
<1>2. QED
  BY <1>1 DEF SequenceInv, ControlTyped

-----------------------------------------------------------------------------
(* RowInv: each frame is counted, or is about to be. *)

(* Nobody counts: nothing is uncounted. *)
LEMMA UncountedNone ==
  ASSUME \A w \in Thread : ~Counting(w)
  PROVE  \A i \in Id : Uncounted[i] = 0
BY DEF Uncounted

(* One thread counts: its ID has one frame uncounted. *)
LEMMA UncountedOne ==
  ASSUME NEW w \in Thread, Counting(w), \A v \in Thread : v # w => ~Counting(v)
  PROVE  \A i \in Id : Uncounted[i] = IF i = work[w].id THEN 1 ELSE 0
BY DEF Uncounted

(* The same of the next state. *)
LEMMA UncountedNoneNext ==
  ASSUME \A w \in Thread : ~Counting(w)'
  PROVE  \A i \in Id : Uncounted'[i] = 0
BY DEF Uncounted

(* The same of the next state. *)
LEMMA UncountedOneNext ==
  ASSUME NEW w \in Thread, Counting(w)', \A v \in Thread : v # w => ~Counting(v)'
  PROVE  \A i \in Id : Uncounted'[i] = IF i = work'[w].id THEN 1 ELSE 0
BY DEF Uncounted

(* Nobody begins or ends to count. *)
LEMMA UncountedSame ==
  ASSUME \A v \in Thread : /\ Counting(v)' <=> Counting(v)
                           /\ Counting(v) => work'[v].id = work[v].id
  PROVE  \A i \in Id : Uncounted'[i] = Uncounted[i]
BY DEF Uncounted

(* The part of RowInv that is not about a search. *)
RowsCount ==
  /\ \A r, q \in DOMAIN rows : rows[r].id = rows[q].id => r = q
  /\ \A r \in DOMAIN rows : rows[r].count + Uncounted[rows[r].id] = tally[rows[r].id]
  /\ \A i \in Id : tally[i] >= Uncounted[i]
  /\ \A i \in Id : tally[i] > Uncounted[i] => Len(rows) = MaxMessages \/ HasRow(i)

(* A thread that found no row is right. *)
Searched ==
  \A w \in Thread : At(w, "record") /\ work[w].row = 0 => ~HasRow(work[w].id)

(* RowInv in two parts, what is counted and what was searched. *)
LEMMA RowParts == RowInv <=> ("clash" \notin odd => RowsCount /\ Searched)
BY DEF RowInv, RowsCount, Searched

(* The types of a row's parts. *)
LEMMA RowIds ==
  ASSUME RowsTyped, NEW r \in DOMAIN rows
  PROVE  rows[r].id \in Id /\ rows[r].count \in Nat
<1>1. rows \in Seq(Row)
  BY DEF RowsTyped, Row
<1>2. rows[r] \in Row
  BY <1>1, ElementOfSeq, LenProperties
<1>3. QED
  BY <1>2 DEF Row

(* Nothing is counted. *)
LEMMA RowsCountSame ==
  ASSUME RowsTyped, RowsCount, UNCHANGED <<rows, tally>>,
         \A i \in Id : Uncounted'[i] = Uncounted[i]
  PROVE  RowsCount'
<1>1. \A r \in DOMAIN rows : rows[r].id \in Id
  BY RowIds
<1>2. \A i \in Id : HasRow(i)' <=> HasRow(i)
  BY DEF HasRow
<1>3. \A r \in DOMAIN rows' :
        rows'[r].count + Uncounted'[rows'[r].id] = tally'[rows'[r].id]
  BY <1>1 DEF RowsCount
<1>4. QED
  BY <1>2, <1>3 DEF RowsCount

(* A frame begins to be counted. *)
LEMMA RowsCountMore ==
  ASSUME RowsTyped, RowsCount, NEW i \in Id, rows' = rows,
         tally' = [tally EXCEPT ![i] = @ + 1],
         \A j \in Id : Uncounted[j] = 0,
         \A j \in Id : Uncounted'[j] = IF j = i THEN 1 ELSE 0
  PROVE  RowsCount'
<1>1. \A r \in DOMAIN rows : rows[r].id \in Id /\ rows[r].count \in Nat
  BY RowIds
<1>2. \A j \in Id : tally'[j] = tally[j] + (IF j = i THEN 1 ELSE 0) /\ tally[j] \in Nat
  BY DEF RowsTyped
<1>3. \A j \in Id : HasRow(j)' <=> HasRow(j)
  BY DEF HasRow
<1>4. \A r, q \in DOMAIN rows' : rows'[r].id = rows'[q].id => r = q
  BY DEF RowsCount
<1>5. ASSUME NEW r \in DOMAIN rows'
      PROVE  rows'[r].count + Uncounted'[rows'[r].id] = tally'[rows'[r].id]
  <2>1. rows[r].count + 0 = tally[rows[r].id]
    BY <1>1 DEF RowsCount
  <2>2. QED
    BY <1>1, <1>2, <2>1
<1>6. ASSUME NEW j \in Id
      PROVE  /\ tally'[j] >= Uncounted'[j]
             /\ tally'[j] > Uncounted'[j] => Len(rows') = MaxMessages \/ HasRow(j)'
  <2>1. tally[j] > 0 => Len(rows) = MaxMessages \/ HasRow(j)
    BY DEF RowsCount
  <2>2. QED
    BY <1>2, <1>3, <2>1
<1>7. QED
  BY <1>4, <1>5, <1>6 DEF RowsCount

(* A frame is counted in its row. *)
LEMMA RowsCountRecord ==
  ASSUME RowsTyped, work \in [Thread -> Task], WorkInv, FoundInv, RowsCount, Searched,
         "clash" \notin odd, NEW w \in Thread, Record(w),
         \A i \in Id : Uncounted[i] = IF i = work[w].id THEN 1 ELSE 0,
         \A i \in Id : Uncounted'[i] = 0
  PROVE  RowsCount'
<1> DEFINE i == work[w].id
           r == work[w].row
<1>1. rows \in Seq(Row) /\ Len(rows) <= MaxMessages /\ MaxMessages \in Nat
      /\ Len(rows) \in Nat /\ DOMAIN rows = 1 .. Len(rows)
  BY Sizes, LenProperties DEF RowsTyped, Row
<1>2. /\ i \in Id /\ r \in Nat
      /\ r # 0 => r \in DOMAIN rows /\ rows[r].id = i
      /\ rows' = WithRow(i, r, Len(rows) < MaxMessages) /\ tally' = tally
  BY RecordRows
<1>3. r = 0 => ~HasRow(i)
  BY DEF Searched, Record
<1> HIDE DEF i, r
<1>4. /\ rows' \in Seq(Row) /\ Len(rows') <= MaxMessages
      /\ Len(rows) <= Len(rows') /\ Len(rows') \in Nat
      /\ DOMAIN rows' = 1 .. Len(rows')
      /\ \A k \in DOMAIN rows :
           /\ k \in DOMAIN rows'
           /\ rows'[k].id = rows[k].id
           /\ rows'[k].count = rows[k].count + IF k = r THEN 1 ELSE 0
      /\ \A k \in DOMAIN rows' \ DOMAIN rows :
           /\ r = 0 /\ k = Len(rows) + 1
           /\ rows'[k].id = i /\ rows'[k].count = 1
      /\ r = 0 => Len(rows) = MaxMessages \/ Len(rows) + 1 \in DOMAIN rows'
  <2>1. /\ rows \in Seq(Row) /\ Len(rows) <= MaxMessages /\ i \in Id /\ r \in Nat
        /\ r # 0 => r \in DOMAIN rows
    BY <1>1, <1>2
  <2>2. /\ rows' \in Seq(Row) /\ Len(rows') <= MaxMessages
        /\ Len(rows) <= Len(rows')
        /\ \A k \in DOMAIN rows :
             /\ k \in DOMAIN rows'
             /\ rows'[k].id = rows[k].id
             /\ rows'[k].count = rows[k].count + IF k = r THEN 1 ELSE 0
        /\ \A k \in DOMAIN rows' \ DOMAIN rows :
             /\ r = 0 /\ k = Len(rows) + 1
             /\ rows'[k].id = i /\ rows'[k].count = 1
        /\ r = 0 => Len(rows) = MaxMessages \/ Len(rows) + 1 \in DOMAIN rows'
    <3> DEFINE room == Len(rows) < MaxMessages
    <3>1. room \in BOOLEAN /\ rows' = WithRow(i, r, room)
      BY <1>2
    <3>0. PICK l \in Nat, m \in Nat : l = Len(rows) /\ m = MaxMessages
      BY <1>1
    <3>2. /\ room => l + 1 <= m
          /\ ~room => l = m
      <4>1. l <= m /\ room = (l < m)
        BY <1>1, <3>0
      <4>2. QED
        BY <4>1
    <3> HIDE DEF room
    <3>3. /\ rows' \in Seq(Row)
          /\ Len(rows') <= IF room THEN Len(rows) + 1 ELSE Len(rows)
          /\ Len(rows) <= Len(rows')
          /\ \A k \in DOMAIN rows :
               /\ k \in DOMAIN rows'
               /\ rows'[k].id = rows[k].id
               /\ rows'[k].count = rows[k].count + IF k = r THEN 1 ELSE 0
          /\ \A k \in DOMAIN rows' \ DOMAIN rows :
               /\ r = 0 /\ k = Len(rows) + 1
               /\ rows'[k].id = i /\ rows'[k].count = 1
          /\ r = 0 /\ room => Len(rows) + 1 \in DOMAIN rows'
      BY <2>1, <3>1, WithRowOf
    <3>4. PICK k \in Nat : k = Len(rows')
      BY <3>3, LenProperties
    <3>5. k <= m
      <4>1. CASE room
        <5>1. k <= l + 1 /\ l + 1 <= m
          BY <3>0, <3>2, <3>3, <3>4, <4>1
        <5>2. QED
          BY <5>1
      <4>2. CASE ~room
        BY <3>0, <3>2, <3>3, <3>4, <4>2
      <4>3. QED
        BY <4>1, <4>2
    <3>6. r = 0 => Len(rows) = MaxMessages \/ Len(rows) + 1 \in DOMAIN rows'
      BY <3>0, <3>2, <3>3
    <3>7. Len(rows') <= MaxMessages
      BY <3>0, <3>4, <3>5
    <3>8. QED
      BY <3>3, <3>6, <3>7
  <2>3. Len(rows') \in Nat /\ DOMAIN rows' = 1 .. Len(rows')
    BY <2>2, LenProperties
  <2>4. QED
    BY <2>2, <2>3
<1>5. \A k \in DOMAIN rows : rows[k].id \in Id /\ rows[k].count \in Nat
  BY RowIds
<1>6. \A j \in Id : tally[j] \in Nat
  BY DEF RowsTyped
<1>7. \A k \in DOMAIN rows : rows[k].id = i <=> k = r
  <2>1. r = 0 => \A k \in DOMAIN rows : rows[k].id # i /\ k # r
    BY <1>1, <1>3 DEF HasRow
  <2>2. r # 0 => \A k \in DOMAIN rows : rows[k].id = i <=> k = r
    BY <1>2 DEF RowsCount
  <2>3. QED
    BY <2>1, <2>2
<1>8. \A k, q \in DOMAIN rows' : rows'[k].id = rows'[q].id => k = q
  <2>1. \A k, q \in DOMAIN rows : rows[k].id = rows[q].id => k = q
    BY DEF RowsCount
  <2>2. ASSUME NEW k \in DOMAIN rows, NEW q \in DOMAIN rows' \ DOMAIN rows
        PROVE  rows'[k].id # rows'[q].id
    <3>1. r = 0 /\ rows'[q].id = i
      BY <1>4, <2>2
    <3>2. rows'[k].id = rows[k].id /\ k # 0
      BY <1>4, <2>2
    <3>3. QED
      BY <1>7, <3>1, <3>2
  <2>3. \A k, q \in DOMAIN rows' \ DOMAIN rows : k = q
    BY <1>4
  <2>4. QED
    BY <1>4, <2>1, <2>2, <2>3
<1>9. ASSUME NEW k \in DOMAIN rows'
      PROVE  rows'[k].count + Uncounted'[rows'[k].id] = tally'[rows'[k].id]
  <2>1. CASE k \in DOMAIN rows
    <3>1. rows[k].count + (IF k = r THEN 1 ELSE 0) = tally[rows[k].id]
      BY <1>5, <1>7, <2>1 DEF RowsCount, i
    <3>2. rows'[k].count = tally[rows[k].id] /\ rows'[k].id = rows[k].id
      BY <1>4, <2>1, <3>1
    <3>3. Uncounted'[rows'[k].id] = 0
      BY <1>5, <2>1, <3>2
    <3>4. QED
      BY <1>2, <1>5, <1>6, <2>1, <3>2, <3>3
  <2>2. CASE k \notin DOMAIN rows
    <3>1. r = 0 /\ k = Len(rows) + 1 /\ rows'[k].id = i /\ rows'[k].count = 1
      BY <1>4, <2>2
    <3>2. Len(rows) # MaxMessages
      <4>1. /\ Len(rows) + 1 \in 1 .. Len(rows') /\ Len(rows') <= MaxMessages
            /\ Len(rows') \in Nat
        BY <1>4, <3>1
      <4>2. Len(rows) \in Nat /\ MaxMessages \in Nat
        BY <1>1
      <4>3. \A a, b, m \in Nat : a + 1 \in 1 .. b /\ b <= m => a # m
        OBVIOUS
      <4>4. QED
        BY <4>1, <4>2, <4>3
    <3>3. Uncounted[i] = 1 /\ Uncounted'[i] = 0
      BY <1>2 DEF i
    <3>4. tally[i] = 1
      BY <1>2, <1>3, <1>6, <3>1, <3>2, <3>3 DEF RowsCount
    <3>5. QED
      BY <1>2, <3>1, <3>3, <3>4
  <2>3. QED
    BY <2>1, <2>2
<1>10. ASSUME NEW j \in Id
       PROVE  /\ tally'[j] >= Uncounted'[j]
              /\ tally'[j] > Uncounted'[j] => Len(rows') = MaxMessages \/ HasRow(j)'
  <2>1. tally'[j] = tally[j] /\ tally[j] \in Nat /\ Uncounted'[j] = 0
    BY <1>2, <1>6
  <2>2. CASE j = i
    <3>1. r # 0 => HasRow(j)'
      BY <1>2, <1>4, <2>2 DEF HasRow
    <3>2. r = 0 => Len(rows') = MaxMessages \/ HasRow(j)'
      <4>1. Len(rows) = MaxMessages => Len(rows') = MaxMessages
        BY <1>1, <1>4
      <4>2. r = 0 /\ Len(rows) + 1 \in DOMAIN rows' => HasRow(j)'
        <5>1. Len(rows) + 1 \notin DOMAIN rows
          BY <1>1
        <5>2. Len(rows) + 1 \in DOMAIN rows' => rows'[Len(rows) + 1].id = i
          BY <1>4, <5>1
        <5>3. QED
          BY <2>2, <5>2 DEF HasRow
      <4>3. QED
        BY <1>4, <4>1, <4>2
    <3>3. QED
      BY <2>1, <3>1, <3>2
  <2>3. CASE j # i
    <3>1. Uncounted[j] = 0
      BY <2>3 DEF i
    <3>2. tally[j] > 0 => Len(rows) = MaxMessages \/ HasRow(j)
      BY <3>1 DEF RowsCount
    <3>3. HasRow(j) => HasRow(j)'
      BY <1>4 DEF HasRow
    <3>4. Len(rows) = MaxMessages => Len(rows') = MaxMessages
      BY <1>1, <1>4
    <3>5. QED
      BY <2>1, <3>2, <3>3, <3>4
  <2>4. QED
    BY <2>2, <2>3
<1>11. QED
  BY <1>8, <1>9, <1>10 DEF RowsCount

(* A step keeps RowInv. *)
LEMMA RowStep ==
  ASSUME ControlTyped, RowsTyped, work \in [Thread -> Task], WorkInv, PhaseInv, FoundInv,
         SequenceInv, RowInv, Next
  PROVE  RowInv'
<1> SUFFICES ASSUME "clash" \notin odd'
             PROVE  RowsCount' /\ Searched'
  BY DEF RowInv, RowsCount, Searched
<1>1. CASE Start
  <2>1. /\ work'["app"].at = "idle" /\ work'["io"].at = "idle"
        /\ rows' = <<>> /\ tally' = [i \in Id |-> 0]
    BY <1>1, StartIdle DEF Start
  <2>2. \A w \in Thread : ~Counting(w)' /\ ~At(w, "record")'
    BY <2>1, Names DEF Counting, At
  <2>3. \A i \in Id : Uncounted'[i] = 0
    BY <2>2, UncountedNoneNext
  <2>4. RowsCount'
    BY <2>1, <2>3 DEF RowsCount
  <2>5. QED
    BY <2>2, <2>4 DEF Searched
<1>2. ASSUME "clash" \notin odd
      PROVE  RowsCount /\ Searched /\ Alone
  BY <1>2, RowParts DEF SequenceInv, Alone
<1>3. sequence \in Nat
  BY DEF ControlTyped
<1>4. ASSUME NEW i \in Id, NEW w \in Thread,
             \/ \E j \in SentId : SendFrame(j)
             \/ OnFrame /\ buffer # NoId
             \/ WritePeriodic,
             "clash" \notin odd, rows' = rows, tally' = [tally EXCEPT ![i] = @ + 1],
             work'[w].at = "scan", work'[w].id = i, work'[Other(w)] = work[Other(w)]
      PROVE  RowsCount' /\ Searched'
  <2>1. ~Writing("app") /\ ~Writing("io")
    BY <1>3, <1>4, BeginsAlone
  <2>2. \A v \in Thread : ~Counting(v)
    BY <2>1, NoStores, Names
  <2>3. Counting(w)' /\ \A v \in Thread : v # w => ~Counting(v)'
    BY <1>4, <2>2, Names DEF Counting
  <2>4. \A v \in Thread : ~At(v, "record")'
    BY <1>4, <2>3 DEF At, Counting
  <2>5. \A j \in Id : Uncounted[j] = 0
    BY <2>2, UncountedNone
  <2>6. \A j \in Id : Uncounted'[j] = IF j = i THEN 1 ELSE 0
    BY <1>4, <2>3, UncountedOneNext
  <2>7. RowsCount'
    BY <1>2, <1>4, <2>5, <2>6, RowsCountMore
  <2>8. QED
    BY <2>4, <2>7 DEF Searched
<1>5. ASSUME "clash" \notin odd, UNCHANGED <<rows, tally>>,
             \A v \in Thread : /\ Counting(v)' <=> Counting(v)
                               /\ Counting(v) => work'[v].id = work[v].id,
             \A v \in Thread : At(v, "record")' =>
               At(v, "record") /\ work'[v].row = work[v].row
      PROVE  RowsCount' /\ Searched'
  <2>1. \A j \in Id : Uncounted'[j] = Uncounted[j]
    <3>1. \A v \in Thread : /\ Counting(v)' <=> Counting(v)
                            /\ Counting(v) => work'[v].id = work[v].id
      BY <1>5 DEF Counting
    <3>2. QED
      BY <3>1, UncountedSame
  <2>2. RowsCount'
    BY <1>2, <1>5, <2>1, RowsCountSame
  <2>3. ASSUME NEW v \in Thread, At(v, "record")', work'[v].row = 0
        PROVE  ~\E k \in DOMAIN rows' : rows'[k].id = work'[v].id
    <3>1. At(v, "record") /\ work[v].row = 0 /\ work'[v].id = work[v].id
      BY <1>5, <2>3 DEF At, Counting
    <3>2. ~HasRow(work[v].id)
      BY <1>2, <1>5, <3>1 DEF Searched
    <3>3. QED
      BY <1>5, <3>1, <3>2 DEF HasRow
  <2>4. QED
    BY <2>2, <2>3 DEF Searched, HasRow
<1>6. ASSUME NEW i \in SentId, SendFrame(i)
      PROVE  RowsCount' /\ Searched'
  <2>1. /\ "clash" \notin odd /\ rows' = rows /\ i \in Id
        /\ tally' = [tally EXCEPT ![i] = @ + 1]
    BY <1>6, IdsDiffer DEF SendFrame, snapshot
  <2>2. QED
    BY <1>4, <1>6, <2>1, SendFrameMoves, Names
<1>7. CASE OnFrame
  <2>1. "clash" \notin odd /\ rows' = rows
    BY <1>7 DEF OnFrame
  <2>2. CASE buffer # NoId
    <3>1. Bare[buffer] \in Id /\ tally' = [tally EXCEPT ![Bare[buffer]] = @ + 1]
      BY <1>7, <2>2, IdsDiffer DEF OnFrame, WorkInv
    <3>2. /\ work'["io"].at = "scan" /\ work'["io"].id = Bare[buffer]
          /\ work'["app"] = work["app"]
      BY <1>7, <2>2, OnFrameMoves DEF WorkInv
    <3>3. QED
      BY <1>4, <1>7, <2>1, <2>2, <3>1, <3>2, Names
  <2>3. CASE buffer = NoId
    <3>1. tally' = tally
      BY <1>7, <2>3 DEF OnFrame
    <3>2. /\ work["io"].at = "idle" /\ work'["io"].at = "rearm"
          /\ work'["app"] = work["app"]
      BY <1>7, <2>3, OnFrameMoves DEF WorkInv
    <3>3. QED
      BY <1>5, <2>1, <3>1, <3>2, Names DEF Counting, At
  <2>4. QED
    BY <2>2, <2>3
<1>8. CASE WritePeriodic
  <2>1. "clash" \notin odd /\ rows' = rows
    BY <1>8 DEF WritePeriodic, snapshot
  <2>2. QED
    BY <1>4, <1>8, <2>1, WritePeriodicMoves, Names
<1>9. CASE OnBusloadTick
  <2>1. "clash" \notin odd /\ UNCHANGED <<rows, tally>>
    BY <1>9 DEF OnBusloadTick
  <2>2. /\ work["io"].at = "idle" /\ work'["io"].at = "store1"
        /\ work'["app"] = work["app"]
    BY <1>3, <1>9, OnBusloadTickMoves
  <2>3. QED
    BY <1>5, <2>1, <2>2, Names DEF Counting, At
<1>10. ASSUME NEW w \in Thread, Scan(w)
       PROVE  RowsCount' /\ Searched'
  <2>1. /\ "clash" \notin odd /\ UNCHANGED <<rows, tally>> /\ work[w].at = "scan"
    BY <1>10 DEF Scan, snapshot, history, At
  <2>2. PICK r \in Nat :
          /\ work' = [work EXCEPT ![w].row = r, ![w].at = "record"]
          /\ IF r = 0 THEN ~HasRow(work[w].id)
             ELSE r \in DOMAIN rows /\ rows[r].id = work[w].id
    BY <1>10, FoundRow DEF RowsTyped
  <2>3. /\ work'[w].at = "record" /\ work'[w].id = work[w].id /\ work'[w].row = r
        /\ \A v \in Thread : v # w => work'[v] = work[v]
    BY <2>2, ScanMoves
  <2>4. \A v \in Thread : /\ Counting(v)' <=> Counting(v)
                          /\ Counting(v) => work'[v].id = work[v].id
    BY <2>1, <2>3 DEF Counting
  <2>5. \A j \in Id : Uncounted'[j] = Uncounted[j]
    BY <2>4, UncountedSame
  <2>6. RowsCount'
    BY <1>2, <2>1, <2>5, RowsCountSame
  <2>7. ASSUME NEW v \in Thread, At(v, "record")', work'[v].row = 0
        PROVE  ~\E k \in DOMAIN rows' : rows'[k].id = work'[v].id
    <3>1. v = w
      <4>1. At(v, "record")' /\ v # w => Writing(v) /\ Writing(w)
        BY <2>1, <2>3 DEF Writing, At
      <4>2. QED
        BY <1>2, <2>1, <2>7, <4>1, Names DEF Alone
    <3>2. ~HasRow(work[w].id)
      BY <2>2, <2>3, <2>7, <3>1
    <3>3. QED
      BY <2>1, <2>3, <3>1, <3>2 DEF HasRow
  <2>8. QED
    BY <2>6, <2>7 DEF Searched, HasRow
<1>11. ASSUME NEW w \in Thread, Record(w)
       PROVE  RowsCount' /\ Searched'
  <2>1. "clash" \notin odd
    BY <1>11 DEF Record
  <2>2. /\ work[w].at = "record" /\ work'[w].at = "store1"
        /\ \A v \in Thread : v # w => work'[v] = work[v]
    BY <1>3, <1>11, RecordMoves
  <2>3. Writing(w) /\ Counting(w)
    BY <2>2 DEF Writing, Counting
  <2>4. \A v \in Thread : v # w => ~Writing(v)
    BY <1>2, <2>1, <2>3, Names DEF Alone
  <2>5. \A v \in Thread : v # w => ~Counting(v)
    BY <2>4, NoStores
  <2>6. \A v \in Thread : ~Counting(v)' /\ ~At(v, "record")'
    BY <2>2, <2>5 DEF Counting, At
  <2>7. \A i \in Id : Uncounted[i] = IF i = work[w].id THEN 1 ELSE 0
    BY <2>3, <2>5, UncountedOne
  <2>8. \A i \in Id : Uncounted'[i] = 0
    BY <2>6, UncountedNoneNext
  <2>9. RowsCount'
    BY <1>2, <1>11, <2>1, <2>7, <2>8, RowsCountRecord
  <2>10. QED
    BY <2>6, <2>9 DEF Searched
<1>12. ASSUME NEW w \in Thread, Store1(w) \/ Store2(w)
       PROVE  RowsCount' /\ Searched'
  <2>1. "clash" \notin odd /\ UNCHANGED <<rows, tally>>
    BY <1>12 DEF Store1, Store2, history
  <2>2. /\ work[w].at \in {"store1", "store2"} /\ work'[w].at \in {"store2", "idle", "rearm"}
        /\ \A v \in Thread : v # w => work'[v] = work[v]
    BY <1>12, Store1Moves, Store2Moves
  <2>3. QED
    BY <1>5, <2>1, <2>2 DEF Counting, At
<1>13. CASE Quiet
  <2>1. "clash" \notin odd /\ UNCHANGED <<rows, tally>>
    BY <1>13 DEF Quiet
  <2>2. \A v \in Thread : /\ Counting(v)' <=> Counting(v)
                          /\ Counting(v) => work'[v].id = work[v].id
    BY <1>13 DEF Quiet, Keeps, Writing, Counting
  <2>3. \A v \in Thread : At(v, "record")' =>
          At(v, "record") /\ work'[v].row = work[v].row
    BY <1>13 DEF Quiet, Keeps, Writing, At
  <2>4. QED
    BY <1>5, <2>1, <2>2, <2>3
<1>14. QED
  BY <1>1, <1>6, <1>7, <1>8, <1>9, <1>10, <1>11, <1>12, <1>13, StepKinds

(* When nobody writes, the rows add up. *)
LEMMA RowsShow == RowsTyped /\ RowInv => RowsAddUp
<1> SUFFICES ASSUME RowsTyped, RowInv, NoWriter, "clash" \notin odd
             PROVE  /\ \A r, q \in DOMAIN rows : rows[r].id = rows[q].id => r = q
                    /\ \A r \in DOMAIN rows : rows[r].count = tally[rows[r].id]
                    /\ \A i \in Id :
                         tally[i] > 0 => Len(rows) = MaxMessages \/ HasRow(i)
  BY DEF RowsAddUp, HasRow
<1>1. \A w \in Thread : ~Counting(w)
  BY NoStores DEF NoWriter, Thread
<1>2. \A i \in Id : Uncounted[i] = 0
  BY <1>1, UncountedNone
<1>3. RowsCount
  BY RowParts
<1>4. \A r \in DOMAIN rows : rows[r].id \in Id /\ rows[r].count \in Nat
  BY RowIds
<1>5. \A r \in DOMAIN rows : rows[r].count + 0 = tally[rows[r].id]
  BY <1>2, <1>3, <1>4 DEF RowsCount
<1>6. QED
  BY <1>2, <1>3, <1>4, <1>5 DEF RowsCount

-----------------------------------------------------------------------------
(* Starting and stopping. *)

(* What the application's steps do to the two threads. *)
LEMMA AppMoves ==
  ASSUME work \in [Thread -> Task]
  PROVE  /\ Stop => work'["app"].at = "deactivate" /\ work'["app"].for = "stop"
                    /\ work'["io"] = work["io"]
         /\ StopAllPeriodicTx =>
              work'["app"].at = "deactivate" /\ work'["app"].for = "stop_all"
              /\ work'["io"] = work["io"]
         /\ Deactivate => work'["app"].at = "free" /\ work'["app"].for = work["app"].for
                          /\ work'["io"] = work["io"]
         /\ Halt => work'["app"].at = "join" /\ work'["app"].for = work["app"].for
                    /\ work'["io"] = work["io"]
         /\ Join => work'["app"] = Rest /\ work'["io"] = work["io"]
         /\ \A i \in SentId : SendFrame(i) =>
              work'["app"].at = "scan" /\ work'["app"].for = "send"
              /\ work'["io"] = work["io"]
<1>1. ASSUME NEW f \in {"stop", "stop_all"}, Begins("app", f, NoId, "deactivate")
      PROVE  work'["app"].at = "deactivate" /\ work'["app"].for = f
             /\ work'["io"] = work["io"]
  BY <1>1, BeginsMoves, Names
<1>2. ASSUME NEW p \in {"free", "join"}, Goes("app", p)
      PROVE  work'["app"].at = p /\ work'["app"].for = work["app"].for
             /\ work'["io"] = work["io"]
  BY <1>2, GoesMoves, Names
<1>3. Ends("app") => work'["app"] = Rest /\ work'["io"] = work["io"]
  BY EndsMoves, Names
<1>4. ASSUME NEW i \in SentId, Begins("app", "send", i, "scan")
      PROVE  work'["app"].at = "scan" /\ work'["app"].for = "send"
             /\ work'["io"] = work["io"]
  BY <1>4, BeginsMoves, Names, IdsDiffer
<1>5. QED
  BY <1>1, <1>2, <1>3, <1>4
     DEF Stop, StopAllPeriodicTx, Deactivate, Halt, Join, SendFrame

(* What the writing steps leave as it is. *)
LEMMA WriterMoves ==
  ASSUME ControlTyped, RowsTyped, work \in [Thread -> Task], NEW w \in Thread,
         Scan(w) \/ Record(w) \/ Store1(w) \/ Store2(w)
  PROVE  /\ \A v \in Thread : v # w => work'[v] = work[v]
         /\ work[w].at \in {"scan", "record", "store1", "store2"}
         /\ \/ work'[w].for = work[w].for /\ work'[w].id = work[w].id
               /\ work'[w].at \in {"record", "store1", "store2", "rearm"}
            \/ w = "app" /\ work'[w] = Rest
<1>1. CASE Scan(w)
  <2>1. PICK r \in Nat : work' = [work EXCEPT ![w].row = r, ![w].at = "record"]
    BY <1>1, FoundRow DEF RowsTyped
  <2>2. work[w].at = "scan"
    BY <1>1 DEF Scan, At
  <2>3. QED
    BY <2>1, <2>2, ScanMoves
<1>2. CASE Record(w)
  BY <1>2, RecordMoves DEF ControlTyped
<1>3. CASE Store1(w)
  BY <1>3, Store1Moves
<1>4. CASE Store2(w)
  BY <1>4, Store2Moves, Names
<1>5. QED
  BY <1>1, <1>2, <1>3, <1>4

(* The steps of the I/O thread's handlers and their ends. *)
LEMMA IoMoves ==
  ASSUME work \in [Thread -> Task], WorkInv, sequence \in Nat
  PROVE  /\ OnFrame \/ OnBusloadTick \/ OnHighlightTick \/ WritePeriodic
            \/ ReadAgain \/ GhostEnds => work'["app"] = work["app"]
         /\ \A p \in PeriodicId : OnPeriodic(p) \/ OnGhost(p) => work'["app"] = work["app"]
         /\ \A t \in Timer : WaitAgain(t) => work'["app"] = work["app"]
         /\ OnHighlightTick => /\ work["io"].at = "idle" /\ work'["io"].at = "rearm"
                               /\ work'["io"].for = "highlight"
         /\ ReadAgain \/ GhostEnds => work["io"].at = "rearm" /\ work'["io"] = Rest
         /\ \A t \in Timer : WaitAgain(t) => work["io"].at = "rearm" /\ work'["io"] = Rest
         /\ \A p \in PeriodicId :
              /\ OnPeriodic(p) \/ OnGhost(p) => work["io"].at = "idle"
              /\ OnPeriodic(p) => IF entry[p] = "on"
                                  THEN /\ work'["io"].at = "write"
                                       /\ work'["io"].for = "periodic"
                                       /\ work'["io"].id = p
                                  ELSE work'["io"] = work["io"]
              /\ OnGhost(p) => \/ work'["io"] = work["io"]
                               \/ work'["io"].at = "write" /\ work'["io"].for = "ghost"
<1>1. OnFrame => work'["app"] = work["app"]
  BY OnFrameMoves DEF WorkInv
<1>2. OnBusloadTick => work'["app"] = work["app"]
  BY OnBusloadTickMoves
<1>3. WritePeriodic => work'["app"] = work["app"]
  BY WritePeriodicMoves
<1>4. OnHighlightTick => /\ work["io"].at = "idle" /\ work'["io"].at = "rearm"
                         /\ work'["io"].for = "highlight" /\ work'["app"] = work["app"]
  <2>1. OnHighlightTick => Begins("io", "highlight", NoId, "rearm") /\ work["io"].at = "idle"
    BY DEF OnHighlightTick, Waits, Idle
  <2>2. QED
    BY <2>1, BeginsMoves, Names
<1>5. Ends("io") => work'["io"] = Rest /\ work'["app"] = work["app"]
  BY EndsMoves, Names
<1>6. ReadAgain \/ GhostEnds => /\ work["io"].at = "rearm" /\ work'["io"] = Rest
                                /\ work'["app"] = work["app"]
  BY <1>5 DEF ReadAgain, GhostEnds, At
<1>7. ASSUME NEW t \in Timer, WaitAgain(t)
      PROVE  /\ work["io"].at = "rearm" /\ work'["io"] = Rest
             /\ work'["app"] = work["app"]
  BY <1>5, <1>7 DEF WaitAgain, At
<1>8. ASSUME NEW p \in PeriodicId, NEW f \in {"periodic", "ghost"},
             Begins("io", f, p, "write")
      PROVE  /\ work'["io"].at = "write" /\ work'["io"].for = f /\ work'["io"].id = p
             /\ work'["app"] = work["app"]
  BY <1>8, BeginsMoves, Names, IdsDiffer
<1>9. ASSUME NEW p \in PeriodicId
      PROVE  /\ OnPeriodic(p) \/ OnGhost(p) =>
                  work["io"].at = "idle" /\ work'["app"] = work["app"]
             /\ OnPeriodic(p) => IF entry[p] = "on"
                                 THEN /\ work'["io"].at = "write"
                                      /\ work'["io"].for = "periodic"
                                      /\ work'["io"].id = p
                                 ELSE work'["io"] = work["io"]
             /\ OnGhost(p) => \/ work'["io"] = work["io"]
                              \/ work'["io"].at = "write" /\ work'["io"].for = "ghost"
  BY <1>8 DEF OnPeriodic, OnGhost, Waits, Idle
<1>10. QED
  BY <1>1, <1>2, <1>3, <1>4, <1>6, <1>7, <1>9

(* A step keeps PhaseInv. *)
LEMMA PhaseStep ==
  ASSUME ControlTyped, TimersTyped, RowsTyped, work \in [Thread -> Task], WorkInv,
         PhaseInv, Next
  PROVE  PhaseInv'
<1>1. /\ running => ctx = "run" /\ work["app"].for # "stop"
      /\ ~running => (Idle("app") /\ ctx = "off") \/ work["app"].for = "stop"
      /\ work["app"].for = "stop" =>
           IF work["app"].at = "join" THEN ctx \in {"stopped", "off"} ELSE ctx = "run"
      /\ ctx = "off" => Idle("io")
      /\ Idle("app") /\ ~running => reads = 0 /\ \A p \in PeriodicId : entry[p] = "none"
      /\ work["app"].for = "stop" /\ work["app"].at \in {"halt", "join"} =>
           \A p \in PeriodicId : entry[p] = "none"
  BY DEF PhaseInv
<1>2. /\ Idle("app") => work["app"].for = "none"
      /\ work["app"].at \in {"halt", "join"} => work["app"].for = "stop"
      /\ work["app"].at \in {"scan", "record", "store1", "store2"} =>
           work["app"].for = "send"
  BY DEF WorkInv, AppTask, Rest, Idle
<1>3. Rest.at = "idle" /\ Rest.for = "none"
  BY DEF Rest
<1>4. sequence \in Nat
  BY DEF ControlTyped
<1>5. ASSUME UNCHANGED <<running, ctx, entry>>, reads' = reads \/ running,
             work'["app"] = work["app"], ctx # "off"
      PROVE  PhaseInv'
  BY <1>1, <1>5 DEF PhaseInv, Idle
<1>6. CASE Start
  BY <1>1, <1>2, <1>6 DEF PhaseInv, Start, Idle
<1>7. CASE Stop
  BY <1>1, <1>7, AppMoves DEF PhaseInv, Stop, Idle
<1>8. CASE StopAllPeriodicTx
  BY <1>1, <1>8, AppMoves DEF PhaseInv, StopAllPeriodicTx, Idle
<1>9. CASE Deactivate
  <2>1. work["app"].at = "deactivate" /\ UNCHANGED <<running, ctx>>
    BY <1>9 DEF Deactivate, At
  <2>2. work'["app"].at = "free" /\ work'["app"].for = work["app"].for
        /\ work'["io"] = work["io"]
    BY <1>9, AppMoves
  <2>3. QED
    BY <1>1, <2>1, <2>2 DEF PhaseInv, Idle
<1>10. CASE Free
  <2>1. work["app"].at = "free" /\ UNCHANGED <<running, ctx, reads>>
    BY <1>10 DEF Free, At, socket
  <2>2. \A p \in PeriodicId : entry'[p] = "none"
    BY <1>10 DEF Free
  <2>3. IF work["app"].for = "stop"
        THEN work'["app"].at = "halt" /\ work'["app"].for = "stop"
        ELSE work'["app"] = Rest
    BY <1>10, FreeMoves
  <2>4. work'["io"].at = work["io"].at
    BY <1>10, FreeMoves
  <2>5. QED
    BY <1>1, <1>3, <2>1, <2>2, <2>3, <2>4 DEF PhaseInv, Idle
<1>11. CASE Halt
  <2>1. work["app"].at = "halt" /\ UNCHANGED <<running, entry>> /\ ctx' = "stopped"
    BY <1>11 DEF Halt, At, timers
  <2>2. work'["app"].at = "join" /\ work'["app"].for = work["app"].for
    BY <1>11, AppMoves
  <2>3. QED
    BY <1>1, <1>2, <2>1, <2>2 DEF PhaseInv, Idle
<1>12. CASE Join
  <2>1. /\ work["app"].at = "join" /\ ctx = "off" /\ UNCHANGED <<running, entry, ctx>>
        /\ reads' = 0
    BY <1>12 DEF Join, At, timers
  <2>2. work'["app"] = Rest /\ work'["io"] = work["io"]
    BY <1>12, AppMoves
  <2>3. QED
    BY <1>1, <1>2, <1>3, <2>1, <2>2 DEF PhaseInv, Idle
<1>13. ASSUME NEW p \in PeriodicId, StartPeriodicTx(p) \/ StopPeriodicTx(p)
       PROVE  PhaseInv'
  <2>1. Idle("app") /\ running /\ UNCHANGED <<running, ctx, work>>
    BY <1>13 DEF StartPeriodicTx, StopPeriodicTx
  <2>2. QED
    BY <1>1, <1>2, <2>1 DEF PhaseInv, Idle
<1>14. ASSUME NEW i \in SentId, SendFrame(i)
       PROVE  PhaseInv'
  <2>1. running /\ UNCHANGED <<running, ctx>>
    BY <1>14 DEF SendFrame
  <2>2. work'["app"].at = "scan" /\ work'["app"].for = "send"
    BY <1>14, AppMoves
  <2>3. QED
    BY <1>1, <2>1, <2>2 DEF PhaseInv, Idle
<1>15. CASE \/ ClearDisplayFilter \/ LoadSignals \/ Poll
            \/ \E K \in Filters : SetDisplayFilter(K)
            \/ \E s \in Signal : AddGraphSignal(s) \/ RemoveGraphSignal(s)
  <2>1. UNCHANGED <<running, ctx, reads, entry, work>>
    BY <1>15
       DEF ClearDisplayFilter, Filter, LoadSignals, Poll, SetDisplayFilter, AddGraphSignal,
           RemoveGraphSignal, socket, timers
  <2>2. QED
    BY <1>1, <2>1 DEF PhaseInv, Idle
<1>16. CASE \/ ReadFails \/ \E i \in BusId \cup {NoId} : Arrive(i)
            \/ \E t \in Timer : Expire(t)
  <2>1. ctx = "run" /\ UNCHANGED <<running, ctx, entry, work>>
    BY <1>16 DEF ReadFails, Arrive, Expire, Waits, timers
  <2>2. QED
    BY <1>1, <1>2, <2>1 DEF PhaseInv, Idle
<1>17. CASE Leave
  <2>1. ctx = "stopped" /\ Idle("io") /\ ctx' = "off"
        /\ UNCHANGED <<running, reads, entry, work>>
    BY <1>17 DEF Leave, socket, timers
  <2>2. QED
    BY <1>1, <1>2, <2>1 DEF PhaseInv, Idle
<1>18. CASE OnFrame \/ OnBusloadTick \/ OnHighlightTick \/ WritePeriodic \/ GhostEnds
            \/ ReadAgain
  <2>1. UNCHANGED <<running, ctx, entry>> /\ (reads' = reads \/ running)
    BY <1>18
       DEF OnFrame, OnBusloadTick, OnHighlightTick, WritePeriodic, GhostEnds, ReadAgain,
           socket, timers
  <2>2. ctx # "off"
    BY <1>1, <1>18
       DEF OnFrame, OnBusloadTick, OnHighlightTick, WritePeriodic, GhostEnds, ReadAgain,
           Waits, At, Idle
  <2>3. work'["app"] = work["app"]
    BY <1>4, <1>18, IoMoves
  <2>4. QED
    BY <1>5, <2>1, <2>2, <2>3
<1>19. CASE \/ \E p \in PeriodicId : OnPeriodic(p) \/ OnGhost(p)
            \/ \E t \in Timer : WaitAgain(t)
  <2>1. UNCHANGED <<running, ctx, entry, reads>>
    BY <1>19 DEF OnPeriodic, OnGhost, WaitAgain, socket
  <2>2. ctx # "off"
    BY <1>1, <1>19 DEF OnPeriodic, OnGhost, WaitAgain, Waits, At, Idle
  <2>3. work'["app"] = work["app"]
    BY <1>4, <1>19, IoMoves
  <2>4. QED
    BY <1>5, <2>1, <2>2, <2>3
<1>20. ASSUME NEW w \in Thread, Scan(w) \/ Record(w) \/ Store1(w) \/ Store2(w)
       PROVE  PhaseInv'
  <2>1. UNCHANGED <<running, ctx, entry, reads>>
    BY <1>20 DEF Scan, Record, Store1, Store2, socket, timers
  <2>2. CASE w = "io"
    <3>1. work'["app"] = work["app"] /\ work["io"].at # "idle"
      BY <1>20, <2>2, WriterMoves, Names
    <3>2. QED
      BY <1>1, <1>5, <2>1, <3>1 DEF Idle
  <2>3. CASE w = "app"
    <3>1. /\ work["app"].at \in {"scan", "record", "store1", "store2"}
          /\ \/ work'["app"].for = work["app"].for
                /\ work'["app"].at \in {"record", "store1", "store2", "rearm"}
             \/ work'["app"] = Rest
      BY <1>20, <2>3, WriterMoves
    <3>2. work["app"].for = "send" /\ running
      BY <1>1, <1>2, <3>1 DEF Idle
    <3>3. work'["app"].for # "stop"
      BY <1>3, <3>1, <3>2
    <3>4. QED
      BY <1>1, <2>1, <3>2, <3>3 DEF PhaseInv
  <2>4. QED
    BY <2>2, <2>3, Names
<1>21. QED
  BY <1>6, <1>7, <1>8, <1>9, <1>10, <1>11, <1>12, <1>13, <1>14, <1>15, <1>16, <1>17,
     <1>18, <1>19, <1>20, Names
     DEF Next, AppGoesOn, IoGoesOn

-----------------------------------------------------------------------------
(* The loops. *)

(* One timer is handled at a time. *)
LEMMA BusyOnce ==
  ASSUME NEW t \in Timer, NEW u \in Timer, Busy(t), Busy(u)
  PROVE  t = u
BY DEF Busy, Doing, Timer

(* Who handles something else handles no timer. *)
LEMMA NotBusy ==
  ASSUME NEW t \in Timer, work["io"].for \in {"none", "frame", "ghost"}
  PROVE  ~Busy(t)
BY DEF Busy, Doing, Timer

(* The I/O thread waits with no task in hand. *)
LEMMA IdleRests ==
  ASSUME WorkInv
  PROVE  work["io"].at = "idle" => work["io"].for = "none"
BY DEF WorkInv, IoTask, Rest

(* The steps that leave the handler of the I/O thread what it is. Only a   *)
(* ghost's ID may change.                                                  *)
LEMMA IoKept ==
  ASSUME ControlTyped, RowsTyped, work \in [Thread -> Task], WorkInv,
         \/ Stop \/ StopAllPeriodicTx \/ Deactivate \/ Halt \/ Join \/ WritePeriodic
         \/ \E i \in SentId : SendFrame(i)
         \/ \E w \in Thread : Scan(w) \/ Record(w) \/ Store1(w) \/ Store2(w)
         \/ UNCHANGED work
  PROVE  /\ work'["io"].for = work["io"].for
         /\ work["io"].for # "ghost" => work'["io"].id = work["io"].id
<1>1. CASE \/ Stop \/ StopAllPeriodicTx \/ Deactivate \/ Halt \/ Join
           \/ \E i \in SentId : SendFrame(i)
  BY <1>1, AppMoves
<1>2. CASE WritePeriodic
  BY <1>2, WritePeriodicMoves
<1>3. CASE \E w \in Thread : Scan(w) \/ Record(w) \/ Store1(w) \/ Store2(w)
  BY <1>3, WriterMoves, Names
<1>4. QED
  BY <1>1, <1>2, <1>3

(* No step loses a timer that must go on. *)
LEMMA GoingStep ==
  ASSUME ControlTyped, TimersTyped, RowsTyped, work \in [Thread -> Task], WorkInv,
         PhaseInv, LoopInv, Next, running', NEW t \in Timer, Wanted(t)'
  PROVE  Going(t)'
<1>1. due \in [Timer -> Nat] /\ wait \in [Timer -> BOOLEAN] /\ sequence \in Nat
  BY DEF TimersTyped, ControlTyped
<1>2. CASE Start
  <2>1. UNCHANGED entry /\ \A p \in PeriodicId : entry[p] = "none"
    BY <1>2, StartIdle DEF Start
  <2>2. t \in {"busload", "highlight"}
    BY <2>1 DEF Wanted, Timer
  <2>3. wait' = [wait EXCEPT !["busload"] = TRUE, !["highlight"] = TRUE]
    BY <1>2 DEF Start
  <2>4. wait'[t]
    BY <1>1, <2>2, <2>3, Names
  <2>5. QED
    BY <2>4 DEF Going
<1>3. ~Start => running
  BY DEF Next, AppGoesOn, IoGoesOn, Stop, StopAllPeriodicTx, StartPeriodicTx,
         StopPeriodicTx, SendFrame, SetDisplayFilter, ClearDisplayFilter, Filter, LoadSignals,
         AddGraphSignal, RemoveGraphSignal, Poll, Arrive, ReadFails, Expire, Deactivate, Free,
         Halt, Join, Scan, Record, Store1, Store2, OnFrame, OnBusloadTick, OnHighlightTick,
         OnPeriodic, OnGhost, WritePeriodic, ReadAgain, GhostEnds, WaitAgain, Leave
<1>4. ASSUME ~Start, Wanted(t)
      PROVE  Going(t)
  BY <1>3, <1>4 DEF LoopInv
<1>5. ASSUME ~Start, UNCHANGED <<wait, due, entry>>, Busy(t) => Busy(t)'
      PROVE  Going(t)'
  <2>1. Wanted(t)
    BY <1>5 DEF Wanted
  <2>2. QED
    BY <1>4, <1>5, <2>1 DEF Going
<1>6. ASSUME work'["io"].for = work["io"].for,
             work["io"].for # "ghost" => work'["io"].id = work["io"].id
      PROVE  Busy(t) => Busy(t)'
  BY <1>6 DEF Busy, Doing
<1>7. CASE ~Start /\ (\/ Stop \/ StopAllPeriodicTx \/ Halt \/ Join \/ WritePeriodic
                      \/ \E i \in SentId : SendFrame(i)
                      \/ \E w \in Thread : Scan(w) \/ Record(w) \/ Store1(w) \/ Store2(w))
  <2>1. UNCHANGED <<wait, due, entry>>
    BY <1>7 DEF Stop, StopAllPeriodicTx, Halt, Join, WritePeriodic, SendFrame, Scan, Record,
                Store1, Store2, timers
  <2>2. QED
    BY <1>5, <1>6, <1>7, <2>1, IoKept
<1>8. CASE ~Start /\ (\/ ClearDisplayFilter \/ LoadSignals \/ Poll \/ ReadFails \/ Leave
                      \/ \E K \in Filters : SetDisplayFilter(K)
                      \/ \E s \in Signal : AddGraphSignal(s) \/ RemoveGraphSignal(s)
                      \/ \E i \in BusId \cup {NoId} : Arrive(i))
  <2>1. UNCHANGED <<wait, due, entry, work>>
    BY <1>8 DEF ClearDisplayFilter, Filter, LoadSignals, Poll, ReadFails, Leave,
                SetDisplayFilter, AddGraphSignal, RemoveGraphSignal, Arrive, timers
  <2>2. QED
    BY <1>5, <1>6, <1>8, <2>1
<1>9. CASE ~Start /\ Deactivate
  <2>1. t \notin PeriodicId
    <3>1. \A p \in PeriodicId : entry'[p] # "on"
      BY <1>9 DEF Deactivate
    <3>2. QED
      BY <3>1 DEF Wanted
  <2>2. wait' = [u \in Timer |-> wait[u] /\ u \notin PeriodicId] /\ due' = due
    BY <1>9 DEF Deactivate
  <2>3. Going(t)
    BY <1>4, <1>9, <2>1 DEF Wanted
  <2>4. wait[t] => wait'[t]
    BY <2>1, <2>2, Zenon
  <2>5. Busy(t) => Busy(t)'
    BY <1>6, <1>9, IoKept
  <2>6. QED
    BY <2>2, <2>3, <2>4, <2>5 DEF Going
<1>10. CASE ~Start /\ Free
  <2>1. t \notin PeriodicId
    <3>1. \A p \in PeriodicId : entry'[p] # "on"
      BY <1>10 DEF Free
    <3>2. QED
      BY <3>1 DEF Wanted
  <2>2. wait' = wait /\ due'[t] = due[t]
    BY <1>10, <2>1 DEF Free
  <2>3. Going(t)
    BY <1>4, <1>10, <2>1 DEF Wanted
  <2>4. Busy(t) => Busy(t)'
    BY <1>10, <2>1, FreeMoves DEF Busy, Timer
  <2>5. QED
    BY <2>2, <2>3, <2>4 DEF Going
<1>11. ASSUME ~Start, NEW p \in PeriodicId, StartPeriodicTx(p)
       PROVE  Going(t)'
  <2>1. /\ wait' = [wait EXCEPT ![p] = @ \/ entry[p] # "on"]
        /\ UNCHANGED <<due, work>> /\ entry' = [entry EXCEPT ![p] = "on"]
    BY <1>11 DEF StartPeriodicTx
  <2>2. Busy(t) => Busy(t)'
    BY <1>6, <2>1
  <2>3. CASE t = p
    <3>1. wait'[t] <=> wait[t] \/ entry[t] # "on"
      BY <1>1, <2>1, <2>3, Zenon
    <3>2. CASE entry[t] # "on"
      BY <3>1, <3>2 DEF Going
    <3>3. CASE entry[t] = "on"
      <4>1. Going(t)
        BY <1>4, <1>11, <3>3 DEF Wanted
      <4>2. QED
        BY <2>1, <2>2, <3>1, <4>1 DEF Going
    <3>4. QED
      BY <3>2, <3>3
  <2>4. CASE t # p
    <3>1. wait'[t] = wait[t]
      BY <1>1, <2>1, <2>4
    <3>2. Wanted(t)
      BY <2>1, <2>4 DEF Wanted, TimersTyped
    <3>3. QED
      BY <1>4, <1>11, <2>1, <2>2, <3>1, <3>2 DEF Going
  <2>5. QED
    BY <2>3, <2>4
<1>12. ASSUME ~Start, NEW p \in PeriodicId, StopPeriodicTx(p)
       PROVE  Going(t)'
  <2>1. /\ wait' = [wait EXCEPT ![p] = FALSE]
        /\ UNCHANGED <<due, work>> /\ entry' = [entry EXCEPT ![p] = "off"]
    BY <1>12 DEF StopPeriodicTx
  <2>2. Busy(t) => Busy(t)'
    BY <1>6, <2>1
  <2>3. t # p
    BY <2>1 DEF Wanted, TimersTyped
  <2>4. wait'[t] = wait[t] /\ Wanted(t)
    BY <1>1, <2>1, <2>3 DEF Wanted, TimersTyped
  <2>5. QED
    BY <1>4, <1>12, <2>1, <2>2, <2>4 DEF Going
<1>13. ASSUME ~Start, NEW u \in Timer, Expire(u)
       PROVE  Going(t)'
  <2>1. /\ wait' = [wait EXCEPT ![u] = FALSE] /\ due' = [due EXCEPT ![u] = @ + 1]
        /\ UNCHANGED <<entry, work>>
    BY <1>13 DEF Expire
  <2>2. CASE t = u
    <3>1. due'[t] > 0
      BY <1>1, <2>1, <2>2
    <3>2. QED
      BY <3>1 DEF Going
  <2>3. CASE t # u
    <3>1. wait'[t] = wait[t] /\ due'[t] = due[t]
      BY <1>1, <2>1, <2>3
    <3>2. Wanted(t) /\ (Busy(t) => Busy(t)')
      BY <1>6, <2>1 DEF Wanted
    <3>3. QED
      BY <1>4, <1>13, <3>1, <3>2 DEF Going
  <2>4. QED
    BY <2>2, <2>3
<1>14. CASE ~Start /\ (OnFrame \/ \E p \in PeriodicId : OnGhost(p))
  <2>1. UNCHANGED <<wait, due, entry>>
    BY <1>14 DEF OnFrame, OnGhost, timers
  <2>2. work["io"].at = "idle"
    BY <1>14 DEF OnFrame, OnGhost, Waits, Idle
  <2>3. ~Busy(t)
    BY <2>2, IdleRests, NotBusy
  <2>4. QED
    BY <1>5, <1>14, <2>1, <2>3
<1>15. CASE ~Start /\ (ReadAgain \/ GhostEnds)
  <2>1. UNCHANGED <<wait, due, entry>> /\ work["io"].for \in {"frame", "ghost"}
    BY <1>15 DEF ReadAgain, GhostEnds, timers
  <2>2. ~Busy(t)
    BY <2>1, NotBusy
  <2>3. QED
    BY <1>5, <1>15, <2>1, <2>2
<1>16. ASSUME ~Start, NEW u \in Timer, due' = [due EXCEPT ![u] = @ - 1],
              UNCHANGED <<wait, entry>>, work["io"].at = "idle",
              Wanted(u) => Busy(u)'
       PROVE  Going(t)'
  <2>1. ~Busy(t)
    BY <1>16, IdleRests, NotBusy
  <2>2. Wanted(t)
    BY <1>16 DEF Wanted
  <2>3. wait[t] \/ due[t] > 0
    BY <1>4, <1>16, <2>1, <2>2 DEF Going
  <2>4. CASE t = u
    BY <1>16, <2>2, <2>4 DEF Going
  <2>5. CASE t # u
    <3>1. due'[t] = due[t] /\ wait'[t] = wait[t]
      BY <1>1, <1>16, <2>5
    <3>2. QED
      BY <2>3, <3>1 DEF Going
  <2>6. QED
    BY <2>4, <2>5
<1>17. CASE ~Start /\ OnBusloadTick
  <2>1. /\ due' = [due EXCEPT !["busload"] = @ - 1] /\ UNCHANGED <<wait, entry>>
        /\ work["io"].at = "idle"
    BY <1>17 DEF OnBusloadTick, Waits, Idle
  <2>2. work'["io"].for = "busload"
    BY <1>1, <1>17, OnBusloadTickMoves
  <2>3. Busy("busload")'
    BY <2>2, TimerAssumption DEF Busy
  <2>4. QED
    BY <1>16, <1>17, <2>1, <2>3, Names
<1>18. CASE ~Start /\ OnHighlightTick
  <2>1. /\ due' = [due EXCEPT !["highlight"] = @ - 1] /\ UNCHANGED <<wait, entry>>
        /\ work["io"].at = "idle"
    BY <1>18 DEF OnHighlightTick, Waits, Idle
  <2>2. work'["io"].for = "highlight"
    BY <1>1, <1>18, IoMoves
  <2>3. Busy("highlight")'
    BY <2>2, TimerAssumption DEF Busy
  <2>4. QED
    BY <1>16, <1>18, <2>1, <2>3, Names
<1>19. ASSUME ~Start, NEW p \in PeriodicId, OnPeriodic(p)
       PROVE  Going(t)'
  <2>1. /\ due' = [due EXCEPT ![p] = @ - 1] /\ UNCHANGED <<wait, entry>>
        /\ work["io"].at = "idle"
    BY <1>19 DEF OnPeriodic, Waits, Idle
  <2>2. entry[p] = "on" => work'["io"].for = "periodic" /\ work'["io"].id = p
    BY <1>1, <1>19, IoMoves
  <2>3. Wanted(p) => Busy(p)'
    BY <2>2 DEF Wanted, Busy, Doing
  <2>4. QED
    BY <1>16, <1>19, <2>1, <2>3, Names
<1>20. ASSUME ~Start, NEW u \in Timer, WaitAgain(u)
       PROVE  Going(t)'
  <2>1. /\ wait' = [wait EXCEPT ![u] = @ \/ running \/ u \in PeriodicId]
        /\ UNCHANGED <<due, entry>> /\ Busy(u)
    BY <1>20 DEF WaitAgain, Busy, Doing
  <2>2. running
    BY <1>3, <1>20
  <2>3. CASE t = u
    <3>1. wait'[t]
      BY <1>1, <2>1, <2>2, <2>3, Zenon
    <3>2. QED
      BY <3>1 DEF Going
  <2>4. CASE t # u
    <3>1. wait'[t] = wait[t]
      BY <1>1, <2>1, <2>4
    <3>2. ~Busy(t) /\ Wanted(t)
      BY <2>1, <2>4, BusyOnce DEF Wanted
    <3>3. QED
      BY <1>4, <1>20, <2>1, <3>1, <3>2 DEF Going
  <2>5. QED
    BY <2>3, <2>4
<1>21. QED
  BY <1>2, <1>7, <1>8, <1>9, <1>10, <1>11, <1>12, <1>13, <1>14, <1>15, <1>17, <1>18,
     <1>19, <1>20, Names
     DEF Next, AppGoesOn, IoGoesOn

(* The chain of reads: outstanding, completed, or being handled. *)
Chain == reads + done + Handling

(* A step keeps LoopInv. *)
LEMMA LoopStep ==
  ASSUME ControlTyped, TimersTyped, RowsTyped, work \in [Thread -> Task], WorkInv,
         PhaseInv, LoopInv, Next
  PROVE  LoopInv'
<1>1. running' => \A t \in Timer : Wanted(t)' => Going(t)'
  BY GoingStep
<1>2. SUFFICES ASSUME "leftover" \notin odd'
               PROVE  Chain' <= 1 /\ (running' => Chain' = IF failed' THEN 0 ELSE 1)
  BY <1>1 DEF LoopInv, Chain
<1>3. /\ reads \in Nat /\ done \in Nat /\ Handling \in {0, 1} /\ failed \in BOOLEAN
      /\ "leftover" \notin odd =>
           Chain <= 1 /\ (running => Chain = IF failed THEN 0 ELSE 1)
  BY DEF ControlTyped, LoopInv, Chain, Handling
<1>4. work'["io"].for = work["io"].for => Handling' = Handling
  BY DEF Handling
<1>5. ASSUME "leftover" \notin odd, Chain' = Chain, failed' = failed, running' => running
      PROVE  Chain' <= 1 /\ (running' => Chain' = IF failed' THEN 0 ELSE 1)
  BY <1>3, <1>5
<1>6. CASE Start
  <2>1. /\ reads' = reads + 1 /\ done' = done /\ failed' = FALSE /\ work' = work
        /\ reads = 0 /\ work["io"].for = "none"
    BY <1>6, StartIdle DEF Start
  <2>2. done = 0
    BY <1>2, <1>3, <1>6 DEF Start
  <2>3. Chain' = 1
    BY <2>1, <2>2 DEF Chain, Handling
  <2>4. QED
    BY <2>1, <2>3
<1>7. CASE \/ Stop \/ StopAllPeriodicTx \/ Deactivate \/ Halt \/ WritePeriodic
           \/ \E i \in SentId : SendFrame(i)
           \/ \E w \in Thread : Scan(w) \/ Record(w) \/ Store1(w) \/ Store2(w)
           \/ ClearDisplayFilter \/ LoadSignals \/ Poll \/ Leave
           \/ \E K \in Filters : SetDisplayFilter(K)
           \/ \E s \in Signal : AddGraphSignal(s) \/ RemoveGraphSignal(s)
           \/ \E p \in PeriodicId : StartPeriodicTx(p) \/ StopPeriodicTx(p)
           \/ \E t \in Timer : Expire(t)
  <2>1. UNCHANGED <<reads, done, failed>>
    BY <1>7
       DEF Stop, StopAllPeriodicTx, Deactivate, Halt, WritePeriodic, SendFrame, Scan, Record,
           Store1, Store2, ClearDisplayFilter, Filter, LoadSignals, Poll, Leave,
           SetDisplayFilter, AddGraphSignal, RemoveGraphSignal, StartPeriodicTx,
           StopPeriodicTx, Expire, socket
  <2>2. running' => running
    BY <1>7
       DEF Stop, StopAllPeriodicTx, Deactivate, Halt, WritePeriodic, SendFrame, Scan, Record,
           Store1, Store2, ClearDisplayFilter, Filter, LoadSignals, Poll, Leave,
           SetDisplayFilter, AddGraphSignal, RemoveGraphSignal, StartPeriodicTx,
           StopPeriodicTx, Expire
  <2>3. "leftover" \notin odd
    BY <1>2, <1>7
       DEF Stop, StopAllPeriodicTx, Deactivate, Halt, WritePeriodic, SendFrame, Scan, Record,
           Store1, Store2, ClearDisplayFilter, Filter, LoadSignals, Poll, Leave,
           SetDisplayFilter, AddGraphSignal, RemoveGraphSignal, StartPeriodicTx,
           StopPeriodicTx, Expire, history, Changes
  <2>4. \/ Stop \/ StopAllPeriodicTx \/ Deactivate \/ Halt \/ Join \/ WritePeriodic
        \/ \E i \in SentId : SendFrame(i)
        \/ \E w \in Thread : Scan(w) \/ Record(w) \/ Store1(w) \/ Store2(w)
        \/ UNCHANGED work
    BY <1>7
       DEF ClearDisplayFilter, Filter, LoadSignals, Poll, Leave, SetDisplayFilter,
           AddGraphSignal, RemoveGraphSignal, StartPeriodicTx, StopPeriodicTx, Expire
  <2>5. work'["io"].for = work["io"].for
    BY <2>4, IoKept
  <2>6. Chain' = Chain
    BY <1>4, <2>1, <2>5 DEF Chain
  <2>7. QED
    BY <1>5, <2>1, <2>2, <2>3, <2>6
<1>8. CASE \E i \in BusId \cup {NoId} : Arrive(i)
  <2>1. /\ reads' = reads - 1 /\ done' = done + 1 /\ UNCHANGED <<running, failed, odd, work>>
    BY <1>8 DEF Arrive
  <2>2. Chain' = Chain
    BY <1>3, <1>4, <2>1 DEF Chain
  <2>3. QED
    BY <1>2, <1>5, <2>1, <2>2
<1>9. CASE ReadFails
  <2>1. /\ reads' = reads - 1 /\ reads > 0 /\ failed' = TRUE
        /\ UNCHANGED <<running, done, odd, work>>
    BY <1>9 DEF ReadFails, history
  <2>2. Chain' = Chain - 1 /\ Chain' \in Nat /\ Chain \in Nat
    BY <1>3, <1>4, <2>1 DEF Chain
  <2>3. QED
    BY <1>2, <1>3, <2>1, <2>2
<1>10. CASE Free
  <2>1. UNCHANGED <<reads, done, failed, running, odd>>
    BY <1>10 DEF Free, socket, history
  <2>2. Handling' = Handling
    BY <1>10, FreeMoves DEF Handling
  <2>3. Chain' = Chain
    BY <2>1, <2>2 DEF Chain
  <2>4. QED
    BY <1>2, <1>5, <2>1, <2>3
<1>11. CASE Join
  <2>1. reads' = 0 /\ UNCHANGED <<done, running, odd>> /\ work["app"].at = "join"
    BY <1>11 DEF Join, history, At
  <2>2. work["app"].for = "stop"
    BY <2>1 DEF WorkInv, AppTask, Rest
  <2>3. ~running'
    BY <2>1, <2>2 DEF PhaseInv
  <2>4. Handling' = Handling
    BY <1>4, <1>11, IoKept
  <2>5. Chain' <= Chain
    BY <1>3, <2>1, <2>4 DEF Chain
  <2>6. Chain \in Nat /\ Chain' \in Nat
    BY <1>3, <2>1, <2>4 DEF Chain
  <2>7. QED
    BY <1>2, <1>3, <2>1, <2>3, <2>5, <2>6
<1>12. CASE OnFrame
  <2>1. /\ done > 0 /\ done' = done - 1 /\ UNCHANGED <<reads, failed, running>>
        /\ odd \subseteq odd' /\ work["io"].at = "idle"
    BY <1>12 DEF OnFrame, Waits, Idle
  <2>2. work["io"].for = "none" /\ work'["io"].for = "frame"
    BY <1>12, <2>1, IdleRests, OnFrameMoves DEF WorkInv
  <2>3. Handling = 0 /\ Handling' = 1
    BY <2>2 DEF Handling
  <2>4. Chain' = Chain
    BY <1>3, <2>1, <2>3 DEF Chain
  <2>5. QED
    BY <1>2, <1>5, <2>1, <2>4
<1>13. CASE \/ OnBusloadTick \/ OnHighlightTick
            \/ \E p \in PeriodicId : OnPeriodic(p) \/ OnGhost(p)
  <2>1. /\ UNCHANGED <<reads, done, failed, running>> /\ odd \subseteq odd'
        /\ work["io"].at = "idle"
    BY <1>13 DEF OnBusloadTick, OnHighlightTick, OnPeriodic, OnGhost, socket, history, Waits,
                 Idle
  <2>2. work["io"].for = "none"
    BY <2>1, IdleRests
  <2>3. work'["io"].for # "frame"
    BY <1>3, <1>13, <2>2, IoMoves, OnBusloadTickMoves DEF ControlTyped
  <2>4. Chain' = Chain
    BY <2>1, <2>2, <2>3 DEF Chain, Handling
  <2>5. QED
    BY <1>2, <1>5, <2>1, <2>4
<1>14. CASE ReadAgain
  <2>1. /\ reads' = IF running THEN reads + 1 ELSE reads
        /\ UNCHANGED <<done, failed, running, odd>> /\ work["io"].for = "frame"
    BY <1>14 DEF ReadAgain, history
  <2>2. work'["io"].for = "none"
    BY <1>14, IoMoves, RestTyped DEF ControlTyped
  <2>3. Handling = 1 /\ Handling' = 0
    BY <2>1, <2>2 DEF Handling
  <2>4. running => Chain' = Chain
    BY <1>3, <2>1, <2>3 DEF Chain
  <2>5. ~running => Chain' <= Chain /\ Chain' \in Nat /\ Chain \in Nat
    BY <1>3, <2>1, <2>3 DEF Chain
  <2>6. QED
    BY <1>2, <1>3, <1>5, <2>1, <2>4, <2>5
<1>15. CASE GhostEnds \/ \E t \in Timer : WaitAgain(t)
  <2>1. /\ UNCHANGED <<reads, done, failed, running>> /\ odd \subseteq odd'
        /\ work["io"].for # "frame"
    BY <1>15, TimerAssumption DEF GhostEnds, WaitAgain, socket, history, Timer
  <2>2. work'["io"].for = "none"
    BY <1>15, IoMoves, RestTyped DEF ControlTyped
  <2>3. Chain' = Chain
    BY <2>1, <2>2 DEF Chain, Handling
  <2>4. QED
    BY <1>2, <1>5, <2>1, <2>3
<1>16. QED
  BY <1>6, <1>7, <1>8, <1>9, <1>10, <1>11, <1>12, <1>13, <1>14, <1>15, Names
     DEF Next, AppGoesOn, IoGoesOn

(* LoopInv says what LoopsGoOn promises. *)
LEMMA LoopsShow == LoopInv => LoopsGoOn
<1> SUFFICES ASSUME LoopInv, running
             PROVE  /\ \A t \in {"busload", "highlight"} :
                         wait[t] \/ due[t] > 0 \/ work["io"].for = t
                    /\ \A p \in PeriodicId :
                         entry[p] = "on" => wait[p] \/ due[p] > 0 \/ Doing("periodic", p)
                    /\ "leftover" \notin odd =>
                         reads + done + Handling = IF failed THEN 0 ELSE 1
  BY DEF LoopsGoOn, Handling
<1>1. ASSUME NEW t \in {"busload", "highlight"}
      PROVE  wait[t] \/ due[t] > 0 \/ work["io"].for = t
  <2>1. t \in Timer /\ t \notin PeriodicId
    BY TimerAssumption DEF Timer
  <2>2. Going(t)
    BY <2>1 DEF LoopInv, Wanted
  <2>3. QED
    BY <2>1, <2>2 DEF Going, Busy
<1>2. ASSUME NEW p \in PeriodicId, entry[p] = "on"
      PROVE  wait[p] \/ due[p] > 0 \/ Doing("periodic", p)
  <2>1. Going(p)
    BY <1>2, Names DEF LoopInv, Wanted
  <2>2. QED
    BY <2>1 DEF Going, Busy
<1>3. QED
  BY <1>1, <1>2 DEF LoopInv

-----------------------------------------------------------------------------
(* The frames. *)

(* The steps that move frames. *)
LEMMA FrameKinds ==
  ASSUME Next
  PROVE  \/ Start \/ OnFrame \/ \E i \in BusId \cup {NoId} : Arrive(i)
         \/ UNCHANGED <<done, buffer, heard, shown>> /\ odd \subseteq odd'
<1>1. CASE \/ ClearDisplayFilter \/ LoadSignals \/ Poll \/ ReadFails \/ Leave
           \/ \E K \in Filters : SetDisplayFilter(K)
           \/ \E s \in Signal : AddGraphSignal(s) \/ RemoveGraphSignal(s)
           \/ \E p \in PeriodicId : StartPeriodicTx(p) \/ StopPeriodicTx(p)
           \/ \E t \in Timer : Expire(t)
  BY <1>1
     DEF ClearDisplayFilter, Filter, LoadSignals, Poll, ReadFails, Leave, SetDisplayFilter,
         AddGraphSignal, RemoveGraphSignal, StartPeriodicTx, StopPeriodicTx, Expire, Changes,
         socket, history
<1>2. CASE \/ Stop \/ StopAllPeriodicTx \/ Deactivate \/ Free \/ Halt \/ Join
           \/ \E i \in SentId : SendFrame(i)
           \/ \E w \in Thread : Scan(w) \/ Record(w) \/ Store1(w) \/ Store2(w)
  BY <1>2
     DEF Stop, StopAllPeriodicTx, Deactivate, Free, Halt, Join, SendFrame, Scan, Record,
         Store1, Store2, socket, history
<1>3. CASE \/ OnBusloadTick \/ OnHighlightTick \/ WritePeriodic \/ ReadAgain \/ GhostEnds
           \/ \E p \in PeriodicId : OnPeriodic(p) \/ OnGhost(p)
           \/ \E t \in Timer : WaitAgain(t)
  BY <1>3
     DEF OnBusloadTick, OnHighlightTick, WritePeriodic, ReadAgain, GhostEnds, OnPeriodic,
         OnGhost, WaitAgain, socket, history
<1>4. QED
  BY <1>1, <1>2, <1>3, Names DEF Next, AppGoesOn, IoGoesOn

(* A step keeps FrameInv: nothing is read into a buffer that is full, as   *)
(* there is one chain of reads.                                            *)
LEMMA FramesStep ==
  ASSUME ControlTyped, FramesTyped, LoopInv, FrameInv, Next
  PROVE  FramesTyped' /\ FrameInv'
<1>1. CASE Start
  <2>1. /\ heard' = <<>> /\ shown' = <<>> /\ UNCHANGED <<buffer, done>>
        /\ "leftover" \notin odd' => ~(done > 0)
    BY <1>1 DEF Start
  <2>2. FramesTyped'
    BY <2>1 DEF FramesTyped
  <2>3. QED
    BY <2>1, <2>2 DEF FrameInv, ControlTyped
<1>2. ASSUME NEW i \in BusId \cup {NoId}, Arrive(i)
      PROVE  FramesTyped' /\ FrameInv'
  <2>1. /\ reads > 0 /\ done' = done + 1 /\ buffer' = i /\ heard' = Append(heard, i)
        /\ UNCHANGED <<shown, odd>>
    BY <1>2 DEF Arrive
  <2>2. FramesTyped'
    BY <2>1, IdsDiffer DEF FramesTyped
  <2>3. ASSUME "leftover" \notin odd
        PROVE  done = 0
    BY <2>1, <2>3 DEF LoopInv, ControlTyped, Handling
  <2>4. QED
    BY <2>1, <2>2, <2>3 DEF FrameInv
<1>3. CASE OnFrame
  <2>1. /\ done > 0 /\ done' = done - 1 /\ shown' = Append(shown, buffer)
        /\ UNCHANGED <<heard, buffer>> /\ odd \subseteq odd'
    BY <1>3 DEF OnFrame
  <2>2. FramesTyped'
    BY <2>1 DEF FramesTyped
  <2>3. QED
    BY <2>1, <2>2 DEF FrameInv
<1>4. CASE UNCHANGED <<done, buffer, heard, shown>> /\ odd \subseteq odd'
  BY <1>4 DEF FramesTyped, FrameInv
<1>5. QED
  BY <1>1, <1>2, <1>3, <1>4, FrameKinds

(* FrameInv says what FramesOnce promises. *)
LEMMA FramesShow == FramesTyped /\ FrameInv => FramesOnce
<1> SUFFICES ASSUME FramesTyped, FrameInv, "leftover" \notin odd, done # 0
             PROVE  /\ done = 1 /\ Len(heard) = Len(shown) + 1
                    /\ shown = SubSeq(heard, 1, Len(shown))
                    /\ buffer = heard[Len(heard)]
  BY DEF FramesOnce, FrameInv
<1>1. /\ done = 1 /\ heard = Append(shown, buffer)
      /\ shown \in Seq(BusId \cup {NoId}) /\ buffer \in BusId \cup {NoId}
  BY DEF FrameInv, FramesTyped
<1>2. SubSeq(Append(shown, buffer), 1, Len(shown)) = shown
  BY <1>1, AppendProperties, SubSeqProperties, SeqEqual
<1>3. QED
  BY <1>1, <1>2

-----------------------------------------------------------------------------
(* The periodic frames. *)

(* A frame of p is about to leave. *)
Leaving(p) == At("io", "write") /\ Doing("periodic", p)

(* Who neither sends one nor begins to.                                    *)
LEMMA LateKinds ==
  ASSUME ControlTyped, RowsTyped, work \in [Thread -> Task], WorkInv, PhaseInv, Next
  PROVE  \/ WritePeriodic
         \/ \E p \in PeriodicId : StartPeriodicTx(p) \/ OnPeriodic(p) \/ OnGhost(p)
         \/ /\ UNCHANGED late /\ ("wild" \in odd => "wild" \in odd')
            /\ \A p \in PeriodicId : /\ entry'[p] = "on" => entry[p] = "on"
                                     /\ Leaving(p)' => Leaving(p)
<1>1. ASSUME \A p \in PeriodicId : entry'[p] = "on" => entry[p] = "on",
             work'["io"] = work["io"] \/ work'["io"].at # "write",
             UNCHANGED late, "wild" \in odd => "wild" \in odd'
      PROVE  /\ UNCHANGED late /\ ("wild" \in odd => "wild" \in odd')
             /\ \A p \in PeriodicId : /\ entry'[p] = "on" => entry[p] = "on"
                                      /\ Leaving(p)' => Leaving(p)
  BY <1>1 DEF Leaving, At, Doing
<1>2. CASE \/ ClearDisplayFilter \/ LoadSignals \/ Poll \/ ReadFails \/ Leave
           \/ \E K \in Filters : SetDisplayFilter(K)
           \/ \E s \in Signal : AddGraphSignal(s) \/ RemoveGraphSignal(s)
           \/ \E i \in BusId \cup {NoId} : Arrive(i)
           \/ \E t \in Timer : Expire(t)
  <2>1. UNCHANGED <<entry, work, late>> /\ odd \subseteq odd'
    BY <1>2
       DEF ClearDisplayFilter, Filter, LoadSignals, Poll, ReadFails, Leave, SetDisplayFilter,
           AddGraphSignal, RemoveGraphSignal, Arrive, Expire, Changes, timers, history
  <2>2. QED
    BY <1>1, <2>1
<1>3. CASE Start
  <2>1. UNCHANGED <<entry, work, late>> /\ ("wild" \in odd => "wild" \in odd')
    BY <1>3 DEF Start
  <2>2. QED
    BY <1>1, <2>1
<1>4. CASE \/ Stop \/ StopAllPeriodicTx \/ Halt \/ Join
           \/ \E i \in SentId : SendFrame(i)
  <2>1. UNCHANGED <<entry, late>> /\ odd \subseteq odd'
    BY <1>4 DEF Stop, StopAllPeriodicTx, Halt, Join, SendFrame, timers, history
  <2>2. work'["io"] = work["io"]
    BY <1>4, AppMoves
  <2>3. QED
    BY <1>1, <2>1, <2>2
<1>5. CASE Deactivate
  <2>1. \A p \in PeriodicId : entry'[p] # "on"
    BY <1>5 DEF Deactivate
  <2>2. UNCHANGED <<late, odd>> /\ work'["io"] = work["io"]
    BY <1>5, AppMoves DEF Deactivate, history
  <2>3. QED
    BY <1>1, <2>1, <2>2
<1>6. CASE Free
  <2>1. \A p \in PeriodicId : entry'[p] # "on"
    BY <1>6 DEF Free
  <2>2. UNCHANGED <<late, odd>>
    BY <1>6 DEF Free, history
  <2>3. \A p \in PeriodicId : Leaving(p)' => Leaving(p)
    BY <1>6, FreeMoves DEF Leaving, At, Doing
  <2>4. QED
    BY <2>1, <2>2, <2>3
<1>7. ASSUME NEW p \in PeriodicId, StopPeriodicTx(p)
      PROVE  /\ UNCHANGED late /\ ("wild" \in odd => "wild" \in odd')
             /\ \A q \in PeriodicId : /\ entry'[q] = "on" => entry[q] = "on"
                                      /\ Leaving(q)' => Leaving(q)
  <2>1. entry' = [entry EXCEPT ![p] = "off"] /\ UNCHANGED <<late, odd, work>>
    BY <1>7 DEF StopPeriodicTx, history
  <2>2. \A q \in PeriodicId : entry'[q] = "on" => entry[q] = "on"
    BY <2>1
  <2>3. QED
    BY <1>1, <2>1, <2>2
<1>8. CASE \/ OnFrame \/ OnBusloadTick \/ OnHighlightTick \/ ReadAgain \/ GhostEnds
           \/ \E t \in Timer : WaitAgain(t)
  <2>1. UNCHANGED <<entry, late>> /\ odd \subseteq odd'
    BY <1>8 DEF OnFrame, OnBusloadTick, OnHighlightTick, ReadAgain, GhostEnds, WaitAgain,
                timers, history
  <2>2. work'["io"].at # "write"
    BY <1>8, IoMoves, OnFrameMoves, OnBusloadTickMoves, RestTyped DEF ControlTyped, WorkInv
  <2>3. QED
    BY <1>1, <2>1, <2>2
<1>9. ASSUME NEW w \in Thread, Scan(w) \/ Record(w) \/ Store1(w) \/ Store2(w)
      PROVE  /\ UNCHANGED late /\ ("wild" \in odd => "wild" \in odd')
             /\ \A p \in PeriodicId : /\ entry'[p] = "on" => entry[p] = "on"
                                      /\ Leaving(p)' => Leaving(p)
  <2>1. UNCHANGED <<entry, late, odd>>
    BY <1>9 DEF Scan, Record, Store1, Store2, timers, history
  <2>2. work'["io"] = work["io"] \/ work'["io"].at # "write"
    BY <1>9, WriterMoves, RestTyped, Names
  <2>3. QED
    BY <1>1, <2>1, <2>2
<1>10. QED
  BY <1>2, <1>3, <1>4, <1>5, <1>6, <1>7, <1>8, <1>9, Names DEF Next, AppGoesOn, IoGoesOn

(* A step keeps LateInv. *)
LEMMA LateStep ==
  ASSUME ControlTyped, TimersTyped, RowsTyped, work \in [Thread -> Task], WorkInv,
         PhaseInv, LateInv, Next
  PROVE  LateInv'
<1> DEFINE Now(p) == IF Leaving(p) THEN 1 ELSE 0
<1>1. LateInv <=> ("wild" \notin odd =>
                     \A p \in PeriodicId : (entry[p] = "on" => late[p] = 0)
                                           /\ late[p] + Now(p) <= 1)
  BY DEF LateInv, Leaving
<1>2. SUFFICES ASSUME "wild" \notin odd', NEW q \in PeriodicId
               PROVE  (entry'[q] = "on" => late'[q] = 0)
                      /\ late'[q] + (IF Leaving(q)' THEN 1 ELSE 0) <= 1
  BY DEF LateInv, Leaving
<1>3. late \in [PeriodicId -> Nat] /\ entry \in [PeriodicId -> {"none", "on", "off"}]
      /\ late[q] \in Nat
  BY DEF TimersTyped
<1>4. ASSUME "wild" \notin odd
      PROVE  (entry[q] = "on" => late[q] = 0)
             /\ late[q] + (IF Leaving(q) THEN 1 ELSE 0) <= 1
  BY <1>1, <1>4
<1>5. CASE /\ UNCHANGED late /\ ("wild" \in odd => "wild" \in odd')
           /\ \A p \in PeriodicId : /\ entry'[p] = "on" => entry[p] = "on"
                                    /\ Leaving(p)' => Leaving(p)
  BY <1>2, <1>3, <1>4, <1>5
<1>6. CASE WritePeriodic
  <2>1. UNCHANGED entry /\ "wild" \notin odd /\ work["io"].for # "ghost"
    BY <1>2, <1>6 DEF WritePeriodic, timers
  <2>2. /\ work["io"].at = "write" /\ work["io"].for = "periodic"
        /\ work["io"].id \in PeriodicId /\ work'["io"].at = "scan"
    BY <1>6, <2>1, WritePeriodicMoves
  <2>3. ~Leaving(q)'
    BY <2>2 DEF Leaving, At
  <2>4. late'[q] = IF work["io"].id = q /\ entry[q] # "on" THEN late[q] + 1 ELSE late[q]
    BY <1>6 DEF WritePeriodic
  <2>5. CASE q = work["io"].id
    <3>1. Leaving(q)
      BY <2>2, <2>5 DEF Leaving, At, Doing
    <3>2. late'[q] = IF entry[q] = "on" THEN late[q] ELSE late[q] + 1
      BY <2>4, <2>5
    <3>3. QED
      BY <1>3, <1>4, <2>1, <2>3, <3>1, <3>2
  <2>6. CASE q # work["io"].id
    <3>1. late'[q] = late[q]
      BY <2>4, <2>6
    <3>2. QED
      BY <1>3, <1>4, <2>1, <2>3, <3>1
  <2>7. QED
    BY <2>5, <2>6
<1>7. ASSUME NEW p \in PeriodicId, StartPeriodicTx(p)
      PROVE  (entry'[q] = "on" => late'[q] = 0)
             /\ late'[q] + (IF Leaving(q)' THEN 1 ELSE 0) <= 1
  <2>1. /\ entry' = [entry EXCEPT ![p] = "on"] /\ late' = [late EXCEPT ![p] = 0]
        /\ UNCHANGED <<work, odd>>
    BY <1>7 DEF StartPeriodicTx
  <2>2. Leaving(q)' => Leaving(q)
    BY <2>1 DEF Leaving, At, Doing
  <2>3. CASE q = p
    BY <1>3, <2>1, <2>3
  <2>4. CASE q # p
    <3>1. late'[q] = late[q] /\ entry'[q] = entry[q]
      BY <1>3, <2>1, <2>4
    <3>2. QED
      BY <1>2, <1>3, <1>4, <2>1, <2>2, <3>1
  <2>5. QED
    BY <2>3, <2>4
<1>8. ASSUME NEW p \in PeriodicId, OnPeriodic(p)
      PROVE  (entry'[q] = "on" => late'[q] = 0)
             /\ late'[q] + (IF Leaving(q)' THEN 1 ELSE 0) <= 1
  <2>1. UNCHANGED <<entry, late, odd>>
    BY <1>8 DEF OnPeriodic, history
  <2>2. CASE entry[p] = "on"
    <3>1. work'["io"].id = p
      BY <1>8, <2>2, IoMoves DEF ControlTyped
    <3>2. Leaving(q)' => q = p
      BY <3>1 DEF Leaving, Doing
    <3>3. QED
      BY <1>2, <1>3, <1>4, <2>1, <2>2, <3>2
  <2>3. CASE entry[p] # "on"
    <3>1. UNCHANGED work
      BY <1>8, <2>3 DEF OnPeriodic
    <3>2. Leaving(q)' => Leaving(q)
      BY <3>1 DEF Leaving, At, Doing
    <3>3. QED
      BY <1>2, <1>3, <1>4, <2>1, <3>2
  <2>4. QED
    BY <2>2, <2>3
<1>9. ASSUME NEW p \in PeriodicId, OnGhost(p)
      PROVE  FALSE
  BY <1>2, <1>9 DEF OnGhost
<1>10. QED
  BY <1>5, <1>6, <1>7, <1>8, <1>9, LateKinds

(* LateInv says what LastFrame promises. *)
LEMMA LateShows == TimersTyped /\ LateInv => LastFrame
<1>1. ASSUME LateInv, TimersTyped, "wild" \notin odd, NEW p \in PeriodicId
      PROVE  late[p] <= 1
  <2>1. late[p] + (IF At("io", "write") /\ Doing("periodic", p) THEN 1 ELSE 0) <= 1
    BY <1>1 DEF LateInv
  <2>2. late[p] \in Nat
    BY <1>1 DEF TimersTyped
  <2>3. QED
    BY <2>1, <2>2
<1>2. QED
  BY <1>1 DEF LastFrame

-----------------------------------------------------------------------------
(* Remainders. *)
LEMMA ModDef ==
  ASSUME NEW n \in Nat, NEW m \in Nat \ {0}
  PROVE  /\ n % m \in 0 .. m - 1 /\ n \div m \in Nat
         /\ n = m * (n \div m) + (n % m)
OBVIOUS

(* There is only one remainder. *)
LEMMA ModUnique ==
  ASSUME NEW q \in Nat, NEW m \in Nat \ {0}, NEW r \in 0 .. m - 1
  PROVE  (m * q + r) % m = r
OBVIOUS

(* Once round the ring is the same place. *)
LEMMA ModWrap ==
  ASSUME NEW a \in Nat, NEW m \in Nat \ {0}
  PROVE  (a + m) % m = a % m
<1>1. PICK q \in Nat, r \in 0 .. m - 1 : a = m * q + r /\ a % m = r
  BY ModDef
<1>2. m * (q + 1) = m * q + m
  OBVIOUS
<1>3. a + m = m * (q + 1) + r
  BY <1>1, <1>2
<1>4. (m * (q + 1) + r) % m = r
  BY ModUnique
<1>5. QED
  BY <1>1, <1>3, <1>4

(* A remainder may be taken before adding. *)
LEMMA ModAdd ==
  ASSUME NEW a \in Nat, NEW b \in Nat, NEW m \in Nat \ {0}
  PROVE  ((a % m) + b) % m = (a + b) % m
<1>1. PICK q \in Nat, r \in 0 .. m - 1 : a = m * q + r /\ a % m = r
  BY ModDef
<1>2. PICK p \in Nat, s \in 0 .. m - 1 : r + b = m * p + s /\ (r + b) % m = s
  <2>1. r + b \in Nat
    OBVIOUS
  <2>2. QED
    BY <2>1, ModDef
<1>3. m * (q + p) = m * q + m * p
  OBVIOUS
<1>4. a + b = m * (q + p) + s
  <2>1. \A x, y \in Nat : a = x + r /\ r + b = y + s => a + b = x + y + s
    OBVIOUS
  <2>2. m * q \in Nat /\ m * p \in Nat
    OBVIOUS
  <2>3. QED
    BY <1>1, <1>2, <1>3, <2>1, <2>2
<1>5. (m * (q + p) + s) % m = s
  BY ModUnique
<1>6. QED
  BY <1>1, <1>2, <1>4, <1>5

(* Less than once round the ring is another place. *)
LEMMA ModApart ==
  ASSUME NEW a \in Nat, NEW b \in Nat, NEW m \in Nat \ {0}, a < b, b < a + m
  PROVE  a % m # b % m
<1>1. PICK q \in Nat, r \in 0 .. m - 1 : a = m * q + r /\ a % m = r
  BY ModDef
<1>2. PICK p \in Nat, s \in 0 .. m - 1 : b = m * p + s /\ b % m = s
  BY ModDef
<1>3. SUFFICES ASSUME r = s
               PROVE  FALSE
  BY <1>1, <1>2
<1>4. b - a = m * (p - q)
  <2>1. m * (p - q) = m * p - m * q
    OBVIOUS
  <2>2. \A x, y \in Int : a = x + r /\ b = y + r => b - a = y - x
    OBVIOUS
  <2>3. m * q \in Int /\ m * p \in Int
    OBVIOUS
  <2>4. QED
    BY <1>1, <1>2, <1>3, <2>1, <2>2, <2>3
<1>5. b - a \in 1 .. m - 1
  OBVIOUS
<1>6. \A d \in Int : m * d \notin 1 .. m - 1
  <2>1. \A d \in Int : d >= 1 => m * d >= m
    OBVIOUS
  <2>2. \A d \in Int : d <= 0 => m * d <= 0
    OBVIOUS
  <2>3. QED
    BY <2>1, <2>2
<1>7. QED
  BY <1>4, <1>5, <1>6

-----------------------------------------------------------------------------
(* The log, the graphs and the totals. *)

(* The steps that change the log, the graphs or the totals. *)
LEMMA TableKinds ==
  ASSUME Next
  PROVE  \/ Start \/ OnFrame \/ OnBusloadTick \/ \E w \in Thread : Record(w)
         \/ \E s \in Signal : AddGraphSignal(s) \/ RemoveGraphSignal(s)
         \/ UNCHANGED <<log, logged, graphs, fed, totals>>
<1>1. CASE \/ ClearDisplayFilter \/ LoadSignals \/ Poll \/ ReadFails \/ Leave
           \/ \E K \in Filters : SetDisplayFilter(K)
           \/ \E p \in PeriodicId : StartPeriodicTx(p) \/ StopPeriodicTx(p)
           \/ \E i \in BusId \cup {NoId} : Arrive(i)
           \/ \E t \in Timer : Expire(t)
  BY <1>1
     DEF ClearDisplayFilter, Filter, LoadSignals, Poll, ReadFails, Leave, SetDisplayFilter,
         StartPeriodicTx, StopPeriodicTx, Arrive, Expire, snapshot, signals, history
<1>2. CASE \/ Stop \/ StopAllPeriodicTx \/ Deactivate \/ Free \/ Halt \/ Join
           \/ \E i \in SentId : SendFrame(i)
           \/ \E w \in Thread : Scan(w) \/ Store1(w) \/ Store2(w)
  BY <1>2
     DEF Stop, StopAllPeriodicTx, Deactivate, Free, Halt, Join, SendFrame, Scan, Store1,
         Store2, snapshot, signals, history
<1>3. CASE \/ OnHighlightTick \/ WritePeriodic \/ ReadAgain \/ GhostEnds
           \/ \E p \in PeriodicId : OnPeriodic(p) \/ OnGhost(p)
           \/ \E t \in Timer : WaitAgain(t)
  BY <1>3
     DEF OnHighlightTick, WritePeriodic, ReadAgain, GhostEnds, OnPeriodic, OnGhost, WaitAgain,
         snapshot, signals, history
<1>4. QED
  BY <1>1, <1>2, <1>3, Names DEF Next, AppGoesOn, IoGoesOn

(* The log. *)
LogTyped ==
  /\ log \in [cells : [1..MaxFrames -> Id \cup {NoId}], head : 0..MaxFrames - 1,
              count : Nat]
  /\ "clash" \notin odd => log.count <= MaxFrames
  /\ logged \in Seq(Id)

(* The types of its parts. *)
LEMMA LogParts ==
  ASSUME LogTyped
  PROVE  /\ log.cells \in [1..MaxFrames -> Id \cup {NoId}]
         /\ log.head \in 0..MaxFrames - 1 /\ log.count \in Nat
         /\ logged \in Seq(Id) /\ Len(logged) \in Nat /\ DOMAIN logged = 1..Len(logged)
BY DEF LogTyped

(* It is empty at first. *)
LEMMA LogStarts ==
  ASSUME log' = NoFrames, logged' = <<>>
  PROVE  LogTyped' /\ LogInv'
<1>1. MaxFrames \in Nat \ {0} /\ 0 % MaxFrames = 0
  BY Sizes
<1>2. LogTyped'
  BY <1>1 DEF LogTyped, NoFrames
<1>3. QED
  BY <1>1, <1>2 DEF LogInv, LogHolds, NoFrames

(* A frame that is still kept after the next came was kept before.         *)
LEMMA KeptBefore ==
  ASSUME NEW m \in Nat \ {0}, NEW size \in Nat, NEW n \in 1..size + 1, n # size + 1,
         NEW count, count = IF size < m THEN size ELSE m,
         NEW more, more = IF size + 1 < m THEN size + 1 ELSE m,
         n > size + 1 - more
  PROVE  /\ n \in 1..size /\ n > size - count
         /\ n - 1 \in Nat /\ n - 1 < size /\ size < n - 1 + m
OBVIOUS

(* Whatever append_frame_row() sees of the limit, it writes within the     *)
(* cells.                                                                  *)
LEMMA LogTypeKept ==
  ASSUME LogTyped, NEW i \in Id, NEW room \in BOOLEAN, log' = WithFrame(i, room),
         logged' = Append(logged, i), "clash" \in odd'
  PROVE  LogTyped'
<1>1. /\ log.cells \in [1..MaxFrames -> Id \cup {NoId}]
      /\ log.head \in 0..MaxFrames - 1 /\ log.count \in Nat /\ logged \in Seq(Id)
  BY LogParts
<1>2. MaxFrames \in Nat \ {0}
  BY Sizes
<1>3. [log.cells EXCEPT ![log.head + 1] = i] \in [1..MaxFrames -> Id \cup {NoId}]
  BY <1>1, <1>2
<1>4. (log.head + 1) % MaxFrames \in 0..MaxFrames - 1
  <2>1. log.head + 1 \in Nat
    BY <1>1
  <2>2. QED
    BY <1>2, <2>1, ModDef
<1>5. (IF room THEN log.count + 1 ELSE log.count) \in Nat
  BY <1>1
<1>6. Append(logged, i) \in Seq(Id)
  BY <1>1, AppendProperties
<1>7. QED
  BY <1>3, <1>4, <1>5, <1>6 DEF LogTyped, WithFrame

(* append_frame_row() fills the cell after the last.                       *)
LEMMA LogGrows ==
  ASSUME LogTyped, LogHolds, NEW i \in Id, log' = WithFrame(i, log.count < MaxFrames),
         logged' = Append(logged, i)
  PROVE  LogTyped' /\ LogHolds'
<1> DEFINE size == Len(logged)
           place(n) == ((n - 1) % MaxFrames) + 1
<1>1. /\ log.cells \in [1..MaxFrames -> Id \cup {NoId}]
      /\ log.head \in 0..MaxFrames - 1 /\ log.count \in Nat
      /\ logged \in Seq(Id) /\ size \in Nat /\ DOMAIN logged = 1..size
  BY LogParts
<1>2. MaxFrames \in Nat \ {0}
  BY Sizes
<1>3. /\ log.head = size % MaxFrames
      /\ log.count = IF size < MaxFrames THEN size ELSE MaxFrames
      /\ \A n \in 1..size : n > size - log.count => log.cells[place(n)] = logged[n]
  BY <1>1 DEF LogHolds
<1>4. /\ log'.cells = [log.cells EXCEPT ![log.head + 1] = i]
      /\ log'.head = (log.head + 1) % MaxFrames
      /\ log'.count = IF log.count < MaxFrames THEN log.count + 1 ELSE log.count
      /\ log' = [cells |-> log'.cells, head |-> log'.head, count |-> log'.count]
  BY DEF WithFrame
<1>5. /\ logged' \in Seq(Id) /\ Len(logged') = size + 1 /\ DOMAIN logged' = 1..size + 1
      /\ logged'[size + 1] = i /\ \A n \in 1..size : logged'[n] = logged[n]
  BY <1>1, AppendProperties
<1>6. log'.cells \in [1..MaxFrames -> Id \cup {NoId}]
  BY <1>1, <1>2, <1>4
<1>7. log'.head \in 0..MaxFrames - 1
  <2>1. log.head + 1 \in Nat
    BY <1>1
  <2>2. QED
    BY <1>2, <1>4, <2>1, ModDef
<1>8. log'.count \in 0..MaxFrames
      /\ log'.count = IF size + 1 < MaxFrames THEN size + 1 ELSE MaxFrames
  BY <1>1, <1>2, <1>3, <1>4
<1>9. LogTyped'
  BY <1>4, <1>5, <1>6, <1>7, <1>8 DEF LogTyped
<1>10. log'.head = (size + 1) % MaxFrames
  <2>1. ((size % MaxFrames) + 1) % MaxFrames = (size + 1) % MaxFrames
    BY <1>1, <1>2, ModAdd
  <2>2. QED
    BY <1>3, <1>4, <2>1
<1>11. ASSUME NEW n \in 1..size + 1, n > size + 1 - log'.count
       PROVE  log'.cells[place(n)] = logged'[n]
  <2>1. CASE n = size + 1
    <3>1. place(n) = log.head + 1
      BY <1>1, <1>3, <2>1
    <3>2. log.head + 1 \in 1..MaxFrames
      BY <1>1, <1>2
    <3>3. QED
      BY <1>1, <1>4, <1>5, <2>1, <3>1, <3>2
  <2>2. CASE n # size + 1
    <3>1. /\ n \in 1..size /\ n > size - log.count
          /\ n - 1 \in Nat /\ n - 1 < size /\ size < n - 1 + MaxFrames
      BY <1>1, <1>2, <1>3, <1>8, <1>11, <2>2, KeptBefore
    <3>2. (n - 1) % MaxFrames # size % MaxFrames
      BY <1>1, <1>2, <3>1, ModApart
    <3>3. (n - 1) % MaxFrames \in 0..MaxFrames - 1
      BY <1>2, <3>1, ModDef
    <3>4. place(n) \in 1..MaxFrames /\ place(n) # log.head + 1
      <4>1. PICK m \in Nat, h \in Nat, q \in Nat :
              m = MaxFrames /\ h = log.head /\ q = (n - 1) % MaxFrames
        <5> DEFINE rest == (n - 1) % MaxFrames
        <5>1. MaxFrames \in Nat /\ log.head \in Nat
          BY <1>1, <1>2
        <5>2. rest \in Nat
          BY <1>2, <3>3
        <5> HIDE DEF rest
        <5>3. \E m \in Nat, h \in Nat, q \in Nat :
                m = MaxFrames /\ h = log.head /\ q = rest
          BY <5>1, <5>2
        <5>4. QED
          BY <5>3 DEF rest
      <4>2. q \in 0 .. m - 1 /\ q # h
        BY <1>3, <3>2, <3>3, <4>1
      <4>3. q + 1 \in 1 .. m /\ q + 1 # h + 1
        BY <4>2
      <4>4. place(n) = q + 1
        BY <4>1
      <4> HIDE DEF place
      <4>5. QED
        BY <4>1, <4>3, <4>4
    <3> HIDE DEF place
    <3>5. log'.cells[place(n)] = log.cells[place(n)]
      BY <1>1, <1>4, <3>4
    <3>6. QED
      BY <1>3, <1>5, <3>1, <3>5
  <2>3. QED
    BY <2>1, <2>2
<1>12. QED
  BY <1>5, <1>8, <1>9, <1>10, <1>11 DEF LogHolds

(* A step keeps LogInv. *)
LEMMA LogStep ==
  ASSUME LogTyped, LogInv, WorkInv, Next
  PROVE  LogTyped' /\ LogInv'
<1>1. CASE Start
  BY <1>1, LogStarts DEF Start
<1>0. ASSUME ~Start, UNCHANGED <<log, logged>>
      PROVE  LogTyped' /\ LogInv'
  <2>1. odd \subseteq odd'
    BY <1>0, OddGrows
  <2>2. QED
    BY <1>0, <2>1 DEF LogTyped, LogInv, LogHolds
<1>2. ASSUME NEW w \in Thread, Record(w), ~Start
      PROVE  LogTyped' /\ LogInv'
  <2>1. work[w].id \in Id /\ odd' = odd
    BY <1>2, CountedId DEF Record, At
  <2>2. CASE Appends(w)
    <3>1. PICK room \in BOOLEAN :
            /\ "clash" \notin odd => room = (log.count < MaxFrames)
            /\ log' = WithFrame(work[w].id, room)
      <4> DEFINE seen0 == log.count < MaxFrames
      <4>1. seen0 \in BOOLEAN
        OBVIOUS
      <4>2. PICK room \in Sees(seen0) : log' = WithFrame(work[w].id, room)
        BY <1>2, <2>2 DEF Record
      <4> HIDE DEF seen0
      <4>3. CASE "clash" \in odd
        <5>1. room \in {TRUE, seen0}
          BY <4>2, <4>3 DEF Sees
        <5>2. QED
          BY <4>1, <4>2, <4>3, <5>1
      <4>4. CASE "clash" \notin odd
        <5>1. room = seen0
          BY <4>2, <4>4 DEF Sees
        <5>2. QED
          BY <4>1, <4>2, <5>1 DEF seen0
      <4>5. QED
        BY <4>3, <4>4
    <3>2. logged' = Append(logged, work[w].id)
      BY <1>2, <2>2 DEF Record, Appends
    <3>3. CASE "clash" \in odd
      BY <2>1, <3>1, <3>2, <3>3, LogTypeKept DEF LogInv
    <3>4. CASE "clash" \notin odd
      <4>1. log' = WithFrame(work[w].id, log.count < MaxFrames) /\ LogHolds
        BY <3>1, <3>4 DEF LogInv
      <4>2. QED
        BY <2>1, <3>2, <4>1, LogGrows DEF LogInv
    <3>5. QED
      BY <3>3, <3>4
  <2>3. CASE ~Appends(w)
    <3>1. log' = log
      BY <1>2, <2>3 DEF Record
    <3>2. logged' = logged
      BY <1>2, <2>3 DEF Record, Appends
    <3>3. QED
      BY <1>0, <1>2, <3>1, <3>2
  <2>4. QED
    BY <2>2, <2>3
<1>3. CASE ~Start /\ (\/ OnFrame \/ OnBusloadTick
                      \/ \E s \in Signal : AddGraphSignal(s) \/ RemoveGraphSignal(s))
  <2>1. UNCHANGED <<log, logged>>
    BY <1>3 DEF OnFrame, OnBusloadTick, AddGraphSignal, RemoveGraphSignal, snapshot
  <2>2. QED
    BY <1>0, <1>3, <2>1
<1>4. CASE ~Start /\ UNCHANGED <<log, logged, graphs, fed, totals>>
  BY <1>0, <1>4
<1>5. QED
  BY <1>1, <1>2, <1>3, <1>4, TableKinds

(* LogInv, read from the oldest cell on. *)
LEMMA LogShows == LogTyped /\ LogInv => LogIsTail
<1> SUFFICES ASSUME LogTyped, LogInv, "clash" \notin odd
             PROVE  LogIsTail
  BY DEF LogIsTail
<1> DEFINE size == Len(logged)
           kept == size - log.count
<1>1. /\ log.count \in Nat /\ size \in Nat /\ DOMAIN logged = 1..size
      /\ MaxFrames \in Nat \ {0} /\ log.head = size % MaxFrames
      /\ log.count = IF size < MaxFrames THEN size ELSE MaxFrames
  BY LogParts, Sizes DEF LogInv, LogHolds
<1>2. log.head \in Nat
  BY <1>1, LogParts
<1>3. ASSUME NEW n \in 1..log.count
      PROVE  log.cells[((log.head + MaxFrames - log.count + n - 1) % MaxFrames) + 1]
               = logged[kept + n]
  <2>1. /\ MaxFrames - log.count + n - 1 \in Nat /\ kept + n - 1 \in Nat
        /\ size + (MaxFrames - log.count + n - 1) = (kept + n - 1) + MaxFrames
        /\ log.head + MaxFrames - log.count + n - 1
             = log.head + (MaxFrames - log.count + n - 1)
        /\ kept + n \in 1..size /\ kept + n > size - log.count
        /\ (kept + n) - 1 = kept + n - 1
    <3>1. PICK c \in Nat, h \in Nat, z \in Nat, m \in Nat \ {0} :
            c = log.count /\ h = log.head /\ z = size /\ m = MaxFrames
      BY <1>1, <1>2
    <3>2. n \in Nat /\ n \in 1..c /\ c = (IF z < m THEN z ELSE m)
      <4>1. n \in 1..c
        BY <1>3, <3>1
      <4>2. c = (IF z < m THEN z ELSE m)
        BY <1>1, <3>1
      <4>3. QED
        BY <4>1, <4>2
    <3>3. /\ m - c + n - 1 \in Nat /\ z - c + n - 1 \in Nat
          /\ z + (m - c + n - 1) = (z - c + n - 1) + m
          /\ h + m - c + n - 1 = h + (m - c + n - 1)
          /\ z - c + n \in 1..z /\ z - c + n > z - c
          /\ (z - c + n) - 1 = z - c + n - 1
      BY <3>2
    <3>4. QED
      BY <3>1, <3>3
  <2> DEFINE b == MaxFrames - log.count + n - 1
             c == kept + n - 1
  <2>2. log.cells[(c % MaxFrames) + 1] = logged[kept + n]
    <3>1. log.cells[(((kept + n) - 1) % MaxFrames) + 1] = logged[kept + n]
      BY <1>1, <2>1 DEF LogInv, LogHolds
    <3>2. QED
      BY <2>1, <3>1
  <2>3. b \in Nat /\ c \in Nat /\ size + b = c + MaxFrames
        /\ log.head + MaxFrames - log.count + n - 1 = log.head + b
    BY <2>1
  <2> HIDE DEF b, c, kept
  <2>4. ((size % MaxFrames) + b) % MaxFrames = (size + b) % MaxFrames
    BY <1>1, <2>3, ModAdd
  <2>5. (c + MaxFrames) % MaxFrames = c % MaxFrames
    BY <1>1, <2>3, ModWrap
  <2>6. QED
    BY <1>1, <2>2, <2>3, <2>4, <2>5
<1>4. QED
  BY <1>1, <1>3 DEF LogIsTail

(* The graphs. *)
Graph == [signal : Signal, points : 0..MaxPoints]

(* The graphs. *)
GraphTyped ==
  /\ graphs \in Seq(Graph)
  /\ Len(graphs) <= MaxGraphs /\ fed \in [Signal -> Nat]

(* The types of their parts. *)
LEMMA GraphParts ==
  ASSUME GraphTyped
  PROVE  /\ Len(graphs) \in Nat /\ DOMAIN graphs = 1..Len(graphs)
         /\ \A g \in DOMAIN graphs :
              /\ graphs[g] \in Graph
              /\ graphs[g].signal \in Signal /\ graphs[g].points \in 0..MaxPoints
              /\ fed[graphs[g].signal] \in Nat
         /\ MaxPoints \in Nat \ {0} /\ MaxGraphs \in Nat \ {0}
<1>1. Len(graphs) \in Nat /\ DOMAIN graphs = 1..Len(graphs)
  BY DEF GraphTyped
<1>2. ASSUME NEW g \in DOMAIN graphs
      PROVE  /\ graphs[g] \in Graph
             /\ graphs[g].signal \in Signal /\ graphs[g].points \in 0..MaxPoints
             /\ fed[graphs[g].signal] \in Nat
  <2>1. graphs[g] \in Graph
    BY <1>1, <1>2 DEF GraphTyped
  <2>2. graphs[g].signal \in Signal /\ graphs[g].points \in 0..MaxPoints
    BY <2>1 DEF Graph
  <2>3. QED
    BY <2>1, <2>2 DEF GraphTyped
<1>3. QED
  BY <1>1, <1>2, Sizes

(* The points of a graph that n values came to. *)
Points(n) == IF n < MaxPoints THEN n ELSE MaxPoints

(* There is none at first. *)
LEMMA GraphStarts ==
  ASSUME GraphTyped, graphs' = <<>>, fed' = fed
  PROVE  GraphTyped' /\ GraphInv'
<1>1. DOMAIN graphs' = {} /\ Len(graphs') = 0
  OBVIOUS
<1>2. GraphTyped'
  BY <1>1, Sizes DEF GraphTyped
<1>3. QED
  BY <1>1, <1>2 DEF GraphInv

(* A new graph has no points and disturbs no other. *)
LEMMA GraphAdded ==
  ASSUME GraphTyped, GraphInv, NEW s \in Signal, AddGraphSignal(s)
  PROVE  GraphTyped' /\ GraphInv'
<1> DEFINE new == [signal |-> s, points |-> 0]
<1>1. /\ Len(graphs) < MaxGraphs /\ graphs' = Append(graphs, new)
      /\ fed' = [fed EXCEPT ![s] = 0]
      /\ \A g \in DOMAIN graphs : graphs[g].signal # s
  BY DEF AddGraphSignal, Graphed
<1>2. new \in Graph /\ new.signal = s /\ new.points = 0
  BY Sizes DEF Graph
<1> HIDE DEF new
<1>3. /\ Len(graphs) \in Nat /\ DOMAIN graphs = 1..Len(graphs) /\ MaxGraphs \in Nat
      /\ MaxPoints \in Nat \ {0}
      /\ \A g \in DOMAIN graphs : graphs[g].signal \in Signal
  BY GraphParts
<1>4. /\ graphs' \in Seq(Graph)
      /\ Len(graphs') = Len(graphs) + 1 /\ DOMAIN graphs' = 1..Len(graphs) + 1
      /\ \A g \in 1..Len(graphs) : graphs'[g] = graphs[g]
      /\ graphs'[Len(graphs) + 1] = new
  BY <1>1, <1>2, AppendProperties DEF GraphTyped
<1>5. /\ fed' \in [Signal -> Nat] /\ fed'[s] = 0
      /\ \A u \in Signal : u # s => fed'[u] = fed[u]
  BY <1>1 DEF GraphTyped
<1>6. GraphTyped'
  BY <1>1, <1>3, <1>4, <1>5 DEF GraphTyped
<1>7. ASSUME NEW g \in DOMAIN graphs', NEW h \in DOMAIN graphs',
             graphs'[g].signal = graphs'[h].signal
      PROVE  g = h
  <2>1. CASE g = Len(graphs) + 1 \/ h = Len(graphs) + 1
    BY <1>1, <1>2, <1>3, <1>4, <1>7, <2>1
  <2>2. CASE g # Len(graphs) + 1 /\ h # Len(graphs) + 1
    BY <1>3, <1>4, <1>7, <2>2 DEF GraphInv
  <2>3. QED
    BY <2>1, <2>2
<1>8. ASSUME NEW g \in DOMAIN graphs'
      PROVE  graphs'[g].points = Points(fed'[graphs'[g].signal])
  <2>1. CASE g = Len(graphs) + 1
    BY <1>2, <1>3, <1>4, <1>5, <2>1 DEF Points
  <2>2. CASE g # Len(graphs) + 1
    <3>1. /\ g \in DOMAIN graphs /\ graphs'[g] = graphs[g]
          /\ graphs[g].signal \in Signal /\ graphs[g].signal # s
      BY <1>1, <1>3, <1>4, <2>2
    <3>2. fed'[graphs[g].signal] = fed[graphs[g].signal]
      BY <1>5, <3>1
    <3>3. QED
      BY <3>1, <3>2 DEF GraphInv, Points
  <2>3. QED
    BY <2>1, <2>2
<1>9. QED
  BY <1>6, <1>7, <1>8 DEF GraphInv, Points

(* The graphs that move up keep what they hold. *)
LEMMA GraphRemoved ==
  ASSUME GraphTyped, GraphInv, NEW s \in Signal, RemoveGraphSignal(s)
  PROVE  GraphTyped' /\ GraphInv'
<1>1. PICK gone : /\ gone \in DOMAIN graphs
                  /\ graphs' = [g \in 1 .. Len(graphs) - 1 |->
                                  graphs[IF g < gone THEN g ELSE g + 1]]
                  /\ fed' = fed
  BY DEF RemoveGraphSignal, Graphed
<1>2. Len(graphs) \in Nat /\ DOMAIN graphs = 1..Len(graphs) /\ Len(graphs) <= MaxGraphs
      /\ MaxGraphs \in Nat
  BY GraphParts DEF GraphTyped
<1> DEFINE old(g) == IF g < gone THEN g ELSE g + 1
<1>3. \A g \in 1 .. Len(graphs) - 1 : old(g) \in DOMAIN graphs
  BY <1>1, <1>2
<1>4. \A g, h \in 1 .. Len(graphs) - 1 : old(g) = old(h) => g = h
  BY <1>1, <1>2
<1>5. /\ DOMAIN graphs' = 1 .. Len(graphs) - 1
      /\ \A g \in 1 .. Len(graphs) - 1 : graphs'[g] = graphs[old(g)]
  BY <1>1
<1> HIDE DEF old
<1>6. /\ graphs' \in Seq(Graph)
      /\ Len(graphs') = Len(graphs) - 1
  <2>1. Len(graphs) - 1 \in Nat
    BY <1>1, <1>2
  <2>2. graphs' \in [1 .. Len(graphs) - 1 -> Graph]
    BY <1>1, <1>3, <1>5, GraphParts DEF old
  <2>3. graphs' \in Seq(Graph)
    BY <2>1, <2>2, IsASeq
  <2>4. QED
    BY <1>5, <2>1, <2>3, LenProperties
<1>7. GraphTyped'
  BY <1>1, <1>2, <1>6 DEF GraphTyped
<1>8. \A g, h \in DOMAIN graphs' : graphs'[g].signal = graphs'[h].signal => g = h
  BY <1>3, <1>4, <1>5 DEF GraphInv
<1>9. \A g \in DOMAIN graphs' : graphs'[g].points = Points(fed'[graphs'[g].signal])
  BY <1>1, <1>3, <1>5 DEF GraphInv, Points
<1>10. QED
  BY <1>7, <1>8, <1>9 DEF GraphInv, Points

(* A graph gets a value. *)
LEMMA PointMore ==
  ASSUME NEW g \in Graph
  PROVE  /\ WithPoint(g) \in Graph
         /\ WithPoint(g).signal = g.signal
         /\ WithPoint(g).points = IF g.points < MaxPoints THEN g.points + 1 ELSE g.points
<1>1. MaxPoints \in Nat \ {0}
  BY Sizes
<1>2. QED
  BY <1>1 DEF WithPoint, Graph

(* One more value, one more point, up to the ring's size. *)
LEMMA PointsMore ==
  ASSUME NEW n \in Nat
  PROVE  Points(n + 1) = IF Points(n) < MaxPoints THEN Points(n) + 1 ELSE Points(n)
<1>1. MaxPoints \in Nat \ {0}
  BY Sizes
<1>2. QED
  BY <1>1 DEF Points

(* A decoded frame feeds the graphs of its signals and no other. *)
LEMMA GraphFed ==
  ASSUME GraphTyped, GraphInv, NEW i, DecodeSignals(i)
  PROVE  GraphTyped' /\ GraphInv'
<1>1. CASE ~loaded
  <2>1. UNCHANGED <<graphs, fed>>
    BY <1>1 DEF DecodeSignals
  <2>2. QED
    BY <2>1 DEF GraphTyped, GraphInv
<1>2. CASE loaded
  <2> DEFINE Feeds(s) == s \in SignalsOf[i]
             next(g) == IF Feeds(graphs[g].signal) THEN WithPoint(graphs[g]) ELSE graphs[g]
  <2>1. /\ graphs' = [g \in DOMAIN graphs |-> next(g)]
        /\ fed' = [s \in Signal |->
                     IF Feeds(s) /\ Graphed(s) THEN fed[s] + 1 ELSE fed[s]]
    BY <1>2 DEF DecodeSignals
  <2> HIDE DEF Feeds
  <2>2. /\ Len(graphs) \in Nat /\ DOMAIN graphs = 1..Len(graphs)
        /\ fed \in [Signal -> Nat] /\ Len(graphs) <= MaxGraphs
        /\ \A g \in DOMAIN graphs :
             /\ graphs[g] \in Graph
             /\ graphs[g].signal \in Signal /\ fed[graphs[g].signal] \in Nat
    BY GraphParts DEF GraphTyped
  <2>3. ASSUME NEW g \in DOMAIN graphs
        PROVE  /\ next(g) \in Graph
               /\ next(g).signal = graphs[g].signal
               /\ ~Feeds(graphs[g].signal) => next(g).points = graphs[g].points
               /\ Feeds(graphs[g].signal) =>
                    next(g).points = IF graphs[g].points < MaxPoints
                                     THEN graphs[g].points + 1 ELSE graphs[g].points
    BY <2>2, PointMore
  <2> HIDE DEF next
  <2>4. /\ DOMAIN graphs' = DOMAIN graphs
        /\ \A g \in DOMAIN graphs : graphs'[g] = next(g)
    BY <2>1
  <2>5. /\ graphs' \in Seq(Graph)
        /\ Len(graphs') = Len(graphs)
    <3>1. graphs' \in [1..Len(graphs) -> Graph]
      BY <2>1, <2>2, <2>3
    <3>2. graphs' \in Seq(Graph)
      BY <2>2, <3>1, IsASeq
    <3>3. QED
      BY <2>2, <2>4, <3>2, LenProperties
  <2>6. fed' \in [Signal -> Nat]
    BY <2>1, <2>2
  <2>7. GraphTyped'
    BY <2>2, <2>5, <2>6 DEF GraphTyped
  <2>8. \A g, h \in DOMAIN graphs' : graphs'[g].signal = graphs'[h].signal => g = h
    BY <2>3, <2>4 DEF GraphInv
  <2>9. ASSUME NEW g \in DOMAIN graphs'
        PROVE  graphs'[g].points = Points(fed'[graphs'[g].signal])
    <3>1. g \in DOMAIN graphs /\ Graphed(graphs[g].signal)
      BY <2>4 DEF Graphed
    <3>2. fed'[graphs[g].signal] = IF Feeds(graphs[g].signal)
                                   THEN fed[graphs[g].signal] + 1
                                   ELSE fed[graphs[g].signal]
      BY <2>1, <2>2, <3>1
    <3>3. graphs[g].points = Points(fed[graphs[g].signal])
      BY <3>1 DEF GraphInv, Points
    <3>4. QED
      BY <2>2, <2>3, <2>4, <3>1, <3>2, <3>3, PointsMore
  <2>10. QED
    BY <2>7, <2>8, <2>9 DEF GraphInv, Points
<1>3. QED
  BY <1>1, <1>2

(* A step keeps GraphInv. *)
LEMMA GraphStep ==
  ASSUME GraphTyped, GraphInv, Next
  PROVE  GraphTyped' /\ GraphInv'
<1>1. CASE UNCHANGED <<graphs, fed>>
  BY <1>1 DEF GraphTyped, GraphInv
<1>2. CASE Start
  BY <1>2, GraphStarts DEF Start
<1>3. ASSUME NEW w \in Thread, Record(w)
      PROVE  GraphTyped' /\ GraphInv'
  <2>1. DecodeSignals(work[w].id) \/ UNCHANGED <<graphs, fed>>
    BY <1>3 DEF Record
  <2>2. QED
    BY <1>1, <2>1, GraphFed
<1>4. CASE OnFrame \/ OnBusloadTick
  <2>1. UNCHANGED <<graphs, fed>>
    BY <1>4 DEF OnFrame, OnBusloadTick, signals
  <2>2. QED
    BY <1>1, <2>1
<1>5. QED
  BY <1>1, <1>2, <1>3, <1>4, GraphAdded, GraphRemoved, TableKinds

(* GraphInv says what GraphsFollow promises. *)
LEMMA GraphsShow == GraphInv => GraphsFollow
BY DEF GraphInv, GraphsFollow

(* The totals. *)
TotalsTyped == totals \in [rx : Nat, tx : Nat, errors : Nat, load : Nat, reported : Nat]

(* A step keeps the totals equal. *)
LEMMA TotalsStep ==
  ASSUME TotalsTyped, SecondsAddUp, Next
  PROVE  TotalsTyped' /\ SecondsAddUp'
<1>1. /\ totals.rx \in Nat /\ totals.tx \in Nat /\ totals.errors \in Nat
      /\ totals.load \in Nat /\ totals.reported \in Nat
      /\ totals.reported + totals.load = totals.rx + totals.errors
  BY DEF TotalsTyped, SecondsAddUp
<1>2. CASE Start
  BY <1>2 DEF Start, NoTotals, TotalsTyped, SecondsAddUp
<1>3. CASE OnFrame
  <2>1. \/ totals' = [totals EXCEPT !.load = @ + 1, !.errors = @ + 1]
        \/ totals' = [totals EXCEPT !.load = @ + 1, !.rx = @ + 1]
    BY <1>3 DEF OnFrame
  <2>2. CASE totals' = [totals EXCEPT !.load = @ + 1, !.errors = @ + 1]
    <3>1. totals' = [rx |-> totals.rx, tx |-> totals.tx, errors |-> totals.errors + 1,
                    load |-> totals.load + 1, reported |-> totals.reported]
      BY <2>2 DEF TotalsTyped
    <3>2. QED
      BY <1>1, <3>1 DEF TotalsTyped, SecondsAddUp
  <2>3. CASE totals' = [totals EXCEPT !.load = @ + 1, !.rx = @ + 1]
    <3>1. totals' = [rx |-> totals.rx + 1, tx |-> totals.tx, errors |-> totals.errors,
                    load |-> totals.load + 1, reported |-> totals.reported]
      BY <2>3 DEF TotalsTyped
    <3>2. QED
      BY <1>1, <3>1 DEF TotalsTyped, SecondsAddUp
  <2>4. QED
    BY <2>1, <2>2, <2>3
<1>4. CASE OnBusloadTick
  <2>1. totals' = [totals EXCEPT !.reported = @ + totals.load, !.load = 0]
    BY <1>4 DEF OnBusloadTick
  <2>2. totals' = [rx |-> totals.rx, tx |-> totals.tx, errors |-> totals.errors,
                    load |-> 0, reported |-> totals.reported + totals.load]
    BY <2>1 DEF TotalsTyped
  <2>3. QED
    BY <1>1, <2>2 DEF TotalsTyped, SecondsAddUp
<1>5. ASSUME NEW w \in Thread, Record(w)
      PROVE  TotalsTyped' /\ SecondsAddUp'
  <2>1. totals' = [totals EXCEPT !.tx = IF work[w].for = "frame" THEN @ ELSE @ + 1]
    BY <1>5 DEF Record
  <2>2. QED
    BY <1>1, <2>1 DEF TotalsTyped, SecondsAddUp
<1>6. CASE \E s \in Signal : AddGraphSignal(s) \/ RemoveGraphSignal(s)
  BY <1>6 DEF AddGraphSignal, RemoveGraphSignal, snapshot, TotalsTyped, SecondsAddUp
<1>7. CASE UNCHANGED <<log, logged, graphs, fed, totals>>
  BY <1>7 DEF TotalsTyped, SecondsAddUp
<1>8. QED
  BY <1>2, <1>3, <1>4, <1>5, <1>6, <1>7, TableKinds

(* TablesTyped in three parts. *)
LEMMA TableParts == TablesTyped <=> LogTyped /\ GraphTyped /\ TotalsTyped
BY DEF TablesTyped, LogTyped, GraphTyped, Graph, TotalsTyped

-----------------------------------------------------------------------------
(* The engine as a whole. *)

(* All types. *)
Typed ==
  /\ ControlTyped /\ TimersTyped /\ RowsTyped /\ TablesTyped /\ FramesTyped
  /\ work \in [Thread -> Task]

(* What the threads do, the loops, the frames, and the snapshot. *)
EngineInv ==
  /\ Typed /\ WorkInv /\ PhaseInv
  /\ LoopInv /\ FrameInv /\ LateInv
  /\ FoundInv /\ RowInv /\ SequenceInv
  /\ LogInv /\ GraphInv /\ SecondsAddUp

(* It holds before the first start(). *)
LEMMA EngineStarts == Init => EngineInv
<1> SUFFICES ASSUME Init PROVE EngineInv
  OBVIOUS
<1>1. /\ running = FALSE /\ ctx = "off" /\ reads = 0 /\ done = 0 /\ buffer = NoId
      /\ failed = FALSE /\ rows = <<>> /\ lit = {} /\ log = NoFrames /\ sequence = 0
      /\ totals = NoTotals /\ passing = Id /\ loaded = FALSE /\ graphs = <<>> /\ seen = 0
      /\ heard = <<>> /\ shown = <<>> /\ logged = <<>> /\ dirty = FALSE /\ odd = {}
      /\ wait = [t \in Timer |-> FALSE] /\ due = [t \in Timer |-> 0]
      /\ entry = [p \in PeriodicId |-> "none"] /\ ghosts = [p \in PeriodicId |-> 0]
      /\ fed = [s \in Signal |-> 0] /\ tally = [i \in Id |-> 0]
      /\ late = [p \in PeriodicId |-> 0] /\ spent = [b \in Things |-> 0]
  BY DEF Init
<1>2. work \in [Thread -> Task] /\ work["app"] = Rest /\ work["io"] = Rest
      /\ \A w \in Thread : work[w].at = "idle"
  <2>1. work = [w \in Thread |-> Rest]
    BY DEF Init, Thread
  <2>2. QED
    BY <2>1, RestTyped DEF Thread
<1>3. ControlTyped /\ TimersTyped
  BY <1>1 DEF ControlTyped, TimersTyped
<1>4. RowsTyped /\ FramesTyped
  BY <1>1, Sizes DEF RowsTyped, FramesTyped
<1>5. LogTyped /\ LogInv
  <2>1. MaxFrames \in Nat \ {0} /\ 0 % MaxFrames = 0
    BY Sizes
  <2>2. LogTyped
    BY <1>1, <2>1 DEF LogTyped, NoFrames
  <2>3. QED
    BY <1>1, <2>1, <2>2 DEF LogInv, LogHolds, NoFrames
<1>6. GraphTyped /\ GraphInv
  BY <1>1, Sizes DEF GraphTyped, GraphInv
<1>7. TotalsTyped /\ SecondsAddUp
  BY <1>1 DEF NoTotals, TotalsTyped, SecondsAddUp
<1>8. WorkInv /\ PhaseInv
  BY <1>1, <1>2, RestTyped DEF WorkInv, AppTask, IoTask, PhaseInv, Idle
<1>9. LoopInv /\ FrameInv
  BY <1>1, <1>2, RestTyped DEF LoopInv, FrameInv, Handling
<1>10. LateInv
  BY <1>1, <1>2 DEF LateInv, At
<1>11. FoundInv
  BY <1>2 DEF FoundInv, At
<1>12. \A w \in Thread : ~Counting(w)
  BY <1>2 DEF Counting
<1>13. RowInv
  BY <1>1, <1>2, <1>12, UncountedNone DEF RowInv, At
<1>14. SequenceInv
  <2>1. \A w \in Thread : ~Storing(w) /\ ~At(w, "store2") /\ ~Writing(w)
    BY <1>2 DEF Storing, At, Writing
  <2>2. QED
    BY <1>1, <2>1, Names DEF SequenceInv
<1>15. QED
  BY <1>2, <1>3, <1>4, <1>5, <1>6, <1>7, <1>8, <1>9, <1>10, <1>11, <1>13, <1>14, TableParts
     DEF EngineInv, Typed

(* Every step keeps it. *)
LEMMA EngineSteps == EngineInv /\ Next => EngineInv'
<1> SUFFICES ASSUME EngineInv, Next PROVE EngineInv'
  OBVIOUS
<1>1. /\ ControlTyped /\ TimersTyped /\ RowsTyped /\ TablesTyped /\ FramesTyped
      /\ work \in [Thread -> Task] /\ WorkInv /\ PhaseInv
      /\ LoopInv /\ FrameInv /\ LateInv
      /\ FoundInv /\ RowInv /\ SequenceInv
      /\ LogInv /\ GraphInv /\ SecondsAddUp
      /\ LogTyped /\ GraphTyped /\ TotalsTyped
  BY TableParts DEF EngineInv, Typed
<1>2. ControlTyped' /\ TimersTyped'
  BY <1>1, ControlStep, TimersStep
<1>3. WorkInv' /\ (work \in [Thread -> Task])'
  BY <1>1, WorkStep
<1>4. RowsTyped'
  BY <1>1, RowsStep
<1>5. FoundInv'
  BY <1>1, FoundStep
<1>6. PhaseInv' /\ LoopInv'
  BY <1>1, PhaseStep, LoopStep
<1>7. FramesTyped' /\ FrameInv'
  BY <1>1, FramesStep
<1>8. LateInv'
  BY <1>1, LateStep
<1>9. SequenceInv'
  BY <1>1, SequenceStep
<1>10. RowInv'
  BY <1>1, RowStep
<1>11. LogTyped' /\ LogInv'
  BY <1>1, LogStep
<1>12. GraphTyped' /\ GraphInv'
  BY <1>1, GraphStep
<1>13. TotalsTyped' /\ SecondsAddUp'
  BY <1>1, TotalsStep
<1>14. TablesTyped'
  BY <1>11, <1>12, <1>13 DEF TablesTyped, LogTyped, GraphTyped, Graph, TotalsTyped
<1>15. QED
  BY <1>2, <1>3, <1>4, <1>5, <1>6, <1>7, <1>8, <1>9, <1>10, <1>11, <1>12, <1>13, <1>14
     DEF EngineInv, Typed

(* It is about nothing but the engine. *)
LEMMA EngineStays == EngineInv /\ UNCHANGED vars => EngineInv'
<1> SUFFICES ASSUME EngineInv, UNCHANGED vars PROVE EngineInv'
  OBVIOUS
<1>1. UNCHANGED <<running, ctx, reads, done, buffer, failed, wait, due, entry, ghosts, work,
                  rows, lit, log, sequence, totals, loaded, graphs, fed, passing, seen, heard,
                  shown, logged, tally, late, dirty, odd, spent>>
  BY DEF vars, socket, timers, snapshot, signals, history
<1>2. Typed'
  BY <1>1 DEF EngineInv, Typed, ControlTyped, TimersTyped, RowsTyped, TablesTyped, FramesTyped
<1>3. WorkInv' /\ PhaseInv'
  BY <1>1 DEF EngineInv, WorkInv, PhaseInv, Idle
<1>4. LoopInv'
  BY <1>1 DEF EngineInv, LoopInv, Wanted, Going, Busy, Doing, Handling
<1>5. FrameInv' /\ LateInv'
  BY <1>1 DEF EngineInv, FrameInv, LateInv, At, Doing
<1>6. FoundInv' /\ SequenceInv'
  BY <1>1 DEF EngineInv, FoundInv, SequenceInv, At, Storing, Writing
<1>7. RowInv'
  BY <1>1 DEF EngineInv, RowInv, Uncounted, Counting, HasRow, At
<1>8. LogInv' /\ GraphInv' /\ SecondsAddUp'
  BY <1>1 DEF EngineInv, LogInv, LogHolds, GraphInv, SecondsAddUp
<1>9. QED
  BY <1>2, <1>3, <1>4, <1>5, <1>6, <1>7, <1>8 DEF EngineInv

(* The invariant of the engine: what its threads are in the middle of,     *)
(* where the chains of reads and waits stand, and what the snapshot, not   *)
(* yet complete while one writes it, still lacks.                          *)
THEOREM EngineCorrect == Spec => []EngineInv
BY EngineStarts, EngineSteps, EngineStays, PTL DEF Spec

(* The types of the engine's state, and with them that the graphs stay     *)
(* within the sizes of snapshot.h, and the rows and the log do as long as  *)
(* the two threads did not write at once.                                  *)
THEOREM EngineTypeCorrect == Spec => []TypeOK
<1>1. EngineInv => TypeOK
  BY TypeParts DEF EngineInv, Typed
<1>2. QED
  BY <1>1, EngineCorrect, PTL

(* The loops of a running engine go on, whatever its application calls:    *)
(* on_frame() reads again, a timer waits again, and a restart makes no     *)
(* second chain of reads unless a completed read was left over.            *)
THEOREM LoopsNeverDie == Spec => []LoopsGoOn
<1>1. EngineInv => LoopsGoOn
  BY LoopsShow DEF EngineInv
<1>2. QED
  BY <1>1, EngineCorrect, PTL

(* Every frame read from the socket reaches process_frame() once and in    *)
(* order, although all reads share frame_buffer_.                          *)
THEOREM FramesHandledOnce == Spec => []FramesOnce
<1>1. EngineInv => FramesOnce
  BY FramesShow DEF EngineInv, Typed
<1>2. QED
  BY <1>1, EngineCorrect, PTL

(* After stop_periodic_tx() and stop_all_periodic_tx() at most one frame   *)
(* of an entry leaves.                                                     *)
THEOREM OneFrameLate == Spec => []LastFrame
<1>1. EngineInv => LastFrame
  BY LateShows DEF EngineInv, Typed
<1>2. QED
  BY <1>1, EngineCorrect, PTL

(* The snapshot's rows, its append log, its graphs and its totals are what *)
(* the frames since start() make of them, each under the ID it is recorded *)
(* under: a received one without its flags, a sent one as given.  As long  *)
(* as the two threads do not write at once and, for the rows, no ID is     *)
(* read from freed memory.                                                 *)
THEOREM SnapshotRight == Spec => []SnapshotAddsUp
<1>1. EngineInv => SnapshotAddsUp
  BY RowsShow, LogShows, GraphsShow, TableParts DEF EngineInv, Typed, SnapshotAddsUp
<1>2. QED
  BY <1>1, EngineCorrect, PTL

(* A frame that was recorded is never hidden from the poller behind a      *)
(* sequence number it knows, as long as the two threads do not write at    *)
(* once.  A highlight that goes out is, and is not meant here.             *)
THEOREM NoChangeHidden == Spec => []ChangesShow
<1>1. EngineInv => ChangesShow
  BY SequenceShows DEF EngineInv, Typed
<1>2. QED
  BY <1>1, EngineCorrect, PTL

-----------------------------------------------------------------------------
(* The codec. *)

LEMMA FieldTypes ==
  ASSUME NEW m \in MessageDefinition, NEW i \in Named(m)
  PROVE  /\ m.fields[i] \in FieldDefinition
         /\ m.fields[i].bitOffset \in Nat
         /\ m.fields[i].bitLength \in Nat /\ m.fields[i].bitLength > 0
         /\ m.fields[i].type \in FieldType \ {"reserved"}
<1>1. i \in DOMAIN m.fields /\ m.fields[i].type # "reserved"
  BY DEF Named
<1>2. m.fields \in Seq(FieldDefinition)
  BY DEF MessageDefinition
<1>3. m.fields[i] \in FieldDefinition
  BY <1>1, <1>2
<1>4. QED
  BY <1>1, <1>3 DEF FieldDefinition

LEMMA CaseTypes ==
  ASSUME NEW c \in Case
  PROVE  /\ c.message \in MessageDefinition
         /\ NamesDiffer(c.message)
         /\ "values" \in DOMAIN c => ValuesFor(c.message, c.values)
BY CaseAssumption

LEMMA IndexOfName ==
  ASSUME NEW m, NamesDiffer(m), NEW i \in Named(m)
  PROVE  IndexOf(m, NameOf(m, i)) = i
BY DEF NamesDiffer, IndexOf

(* What is decoded of a field, whatever the others hold. *)
LEMMA DecodedOf ==
  ASSUME NEW m, NamesDiffer(m), NEW i \in Named(m), NEW d, NEW n
  PROVE  /\ NameOf(m, i) \in DOMAIN Decoded(m, d, n) <=> ~Omitted(m.fields[i], d)
         /\ NameOf(m, i) \in DOMAIN Decoded(m, d, n) =>
              Decoded(m, d, n)[NameOf(m, i)] = DecodedField(m.fields[i], d, n)
<1>1. DOMAIN Decoded(m, d, n) = {NameOf(m, j) : j \in Present(m, d)}
  BY DEF Decoded
<1>2. NameOf(m, i) \in DOMAIN Decoded(m, d, n) <=> i \in Present(m, d)
  BY <1>1 DEF NamesDiffer, Present
<1>3. NameOf(m, i) \in DOMAIN Decoded(m, d, n) =>
        Decoded(m, d, n)[NameOf(m, i)]
          = DecodedField(m.fields[IndexOf(m, NameOf(m, i))], d, n)
  BY <1>1 DEF Decoded
<1>4. QED
  BY <1>2, <1>3, IndexOfName DEF Present

(* What is encoded for a field that no other shares its bits with. *)
LEMMA EncodedOf ==
  ASSUME NEW m \in MessageDefinition, NEW i \in Named(m), Placed(m, i), NEW v
  PROVE  Encoded(m, v) \cap Cells(m.fields[i]) =
           IF NameOf(m, i) \in DOMAIN v
           THEN Written(m.fields[i], v[NameOf(m, i)])
           ELSE Cells(m.fields[i])
<1> DEFINE f == m.fields[i]
<1>1. Cells(f) \subseteq 0 .. 8 * m.dataLength - 1
  BY DEF Placed
<1>2. ASSUME NEW b \in Cells(f)
      PROVE  Writers(m, v, b) = IF NameOf(m, i) \in DOMAIN v THEN {i} ELSE {}
  BY <1>2 DEF Writers, Placed
<1>3. \A w : Written(f, w) \subseteq Cells(f)
  BY DEF Written, Padded, WriteBits
<1>4. i \in Int
  BY DEF Named, MessageDefinition
<1>5. ~(i > i)
  BY <1>4
<1>6. ASSUME NEW b \in Cells(f)
      PROVE  b \in Encoded(m, v) <=>
               \/ NameOf(m, i) \notin DOMAIN v
               \/ b \in Written(f, v[NameOf(m, i)])
  BY <1>1, <1>2, <1>5, <1>6 DEF Encoded
<1>7. QED
  BY <1>3, <1>6

-----------------------------------------------------------------------------
(* Numbers. *)

Numeric == FieldType \ {"string", "reserved"}

LEMMA NumberDecoded ==
  ASSUME NEW f \in FieldDefinition, f.type \in Numeric, f.bitLength <= 48,
         NEW v, v.bits \subseteq Word, v = Number(v.bits), Speakable(f, v),
         NEW d, d \cap Cells(f) = Written(f, v), NEW n
  PROVE  ~Omitted(f, d) /\ DecodedField(f, d, n) = v
<1> DEFINE w == f.bitLength
           o == f.bitOffset
           raw == v.bits \cap Low(w)
<1>1. w \in 1 .. 48 /\ o \in Nat
  BY DEF FieldDefinition
<1>2. f.type # "string"
  BY DEF Numeric
<1>3. \A i \in Low(w) : o + i \in Cells(f) /\ (o + i) - o = i /\ i \in Word
  BY <1>1, <1>2 DEF Cells, Low, Word
<1>4. \A i \in Low(w) : o + i \in d <=> i \in v.bits
  BY <1>2, <1>3 DEF Written, WriteBits
<1>5. Extracted(f, d) = raw
  BY <1>3, <1>4 DEF Extracted
<1>6. ~isNa(raw, w) /\ ~isOor(raw, w)
  BY <1>2 DEF Speakable, Reserved
<1>7. CASE f.type = "signed"
  <2>1. v.bits \cap (w - 1 .. 63) \in {{}, w - 1 .. 63}
    BY <1>2, <1>7 DEF Speakable
  <2>2. Word = Low(w) \cup (w .. 63) /\ w - 1 \in Low(w) /\ w - 1 \in w - 1 .. 63
    BY <1>1 DEF Word, Low
  <2>3. w .. 63 \subseteq w - 1 .. 63
    BY <1>1
  <2>4. CASE v.bits \cap (w - 1 .. 63) = w - 1 .. 63
    <3>1. w - 1 \in raw /\ raw \cup (w .. 63) = v.bits
      BY <2>2, <2>3, <2>4
    <3>2. ToSigned(raw, w) = v.bits
      BY <1>1, <3>1 DEF ToSigned
    <3>3. QED
      BY <1>5, <1>6, <1>7, <3>2 DEF Omitted, DecodedField
  <2>5. CASE v.bits \cap (w - 1 .. 63) = {}
    <3>1. w - 1 \notin raw /\ raw = v.bits
      BY <2>2, <2>3, <2>5
    <3>2. ToSigned(raw, w) = v.bits
      BY <3>1 DEF ToSigned
    <3>3. QED
      BY <1>5, <1>6, <1>7, <3>2 DEF Omitted, DecodedField
  <2>6. QED
    BY <2>1, <2>4, <2>5
<1>8. CASE f.type # "signed"
  <2>1. raw = v.bits
    BY <1>2, <1>8 DEF Speakable
  <2>2. QED
    BY <1>2, <1>5, <1>6, <1>8, <2>1 DEF Omitted, DecodedField
<1>9. QED
  BY <1>7, <1>8

LEMMA AbsentOmitted ==
  ASSUME NEW f \in FieldDefinition, f.type \in Numeric, f.bitLength <= 48,
         NEW d
  PROVE  Omitted(f, d) <=> Cells(f) \subseteq d
<1> DEFINE w == f.bitLength
           o == f.bitOffset
<1>1. w \in 1 .. 48 /\ o \in Nat
  BY DEF FieldDefinition
<1>2. f.type # "string"
  BY DEF Numeric
<1>3. \A i \in Low(w) : o + i \in Cells(f) /\ i \in Word
  BY <1>1, <1>2 DEF Cells, Low, Word
<1>4. \A b \in Cells(f) : b - o \in Low(w) /\ o + (b - o) = b
  BY <1>1, <1>2 DEF Cells, Low
<1>5. Omitted(f, d) <=> \A i \in Low(w) : o + i \in d
  BY <1>1, <1>3 DEF Omitted, isNa, Extracted
<1>6. QED
  BY <1>3, <1>4, <1>5

(* A number that is decoded and encoded again sets the bits it was read    *)
(* from.                                                                   *)
LEMMA NumberWritten ==
  ASSUME NEW f \in FieldDefinition, f.type \in Numeric, f.bitLength <= 48,
         NEW d, NEW n, DecodedField(f, d, n) # NaN
  PROVE  Written(f, DecodedField(f, d, n)) = d \cap Cells(f)
<1> DEFINE w == f.bitLength
           o == f.bitOffset
           raw == Extracted(f, d)
           v == DecodedField(f, d, n)
<1>1. w \in 1 .. 48 /\ o \in Nat
  BY DEF FieldDefinition
<1>2. f.type # "string"
  BY DEF Numeric
<1>3. v = Number(ToSigned(raw, w)) \/ v = Number(raw)
  BY <1>2 DEF DecodedField
<1>4. \A i \in Low(w) : i \in v.bits <=> i \in raw
  BY <1>1, <1>3 DEF Number, ToSigned, Low
<1>5. \A b \in Cells(f) : b - o \in Low(w) /\ b - o \in Word /\ o + (b - o) = b
  BY <1>1, <1>2 DEF Cells, Low, Word
<1>6. \A b \in Cells(f) : b - o \in raw <=> b \in d
  BY <1>5 DEF Extracted
<1>7. QED
  BY <1>2, <1>4, <1>5, <1>6 DEF Written, WriteBits

-----------------------------------------------------------------------------
(* Texts. *)

LEMMA DivMod ==
  \A k \in Nat, b \in 0 .. 7 : (8 * k + b) % 8 = b /\ (8 * k + b) \div 8 = k
OBVIOUS

LEMMA CharKept ==
  ASSUME NEW f \in FieldDefinition, f.type = "string",
         NEW units \in Seq(SUBSET Nat), \A k \in DOMAIN units : units[k] \subseteq Byte,
         NEW d, d \cap Cells(f) = Padded(f, units),
         NEW i \in 0 .. Chars(f) - 1
  PROVE  CharAt(f, d, i) = IF i < Len(units) THEN units[i + 1] ELSE Byte
<1> DEFINE q == f.bitOffset \div 8
           c == Chars(f)
<1>1. q \in Nat /\ c \in Nat /\ Base(f) = 8 * q
  BY DEF FieldDefinition, Chars, Base
<1>2. ASSUME NEW b \in Byte
      PROVE  Base(f) + 8 * i + b \in d <=> b \in CharBits(f, units, i)
  <2> DEFINE x == Base(f) + 8 * i + b
  <2>1. b \in 0 .. 7 /\ i \in 0 .. c - 1 /\ x = 8 * (q + i) + b
    BY <1>1, <1>2 DEF Byte
  <2> HIDE DEF x
  <2>2. x \in Cells(f)
    <3>1. Cells(f) = 8 * q .. 8 * q + 8 * c - 1
      BY <1>1 DEF Cells
    <3>2. i + 1 \in Nat /\ i + 1 <= c
      BY <1>1, <2>1
    <3>3. 8 * (q + i) = 8 * q + 8 * i /\ 8 * (i + 1) = 8 * i + 8 /\ 8 * (i + 1) <= 8 * c
      BY <1>1, <2>1, <3>2
    <3>4. x \in 8 * q .. 8 * q + 8 * c - 1
      <4> HIDE DEF q, c
      <4>1. QED
        BY <1>1, <2>1, <3>2, <3>3
    <3>5. QED
      BY <3>1, <3>4
  <2>3. x % 8 = b
    <3>1. q + i \in Nat
      BY <1>1, <2>1
    <3>2. QED
      BY <2>1, <3>1, DivMod
  <2>4. (x - Base(f)) \div 8 = i
    <3>1. i \in Nat /\ b \in Nat
      BY <1>1, <2>1
    <3>2. 8 * (q + i) = 8 * q + 8 * i
      BY <1>1, <3>1
    <3>3. x - Base(f) = 8 * i + b
      BY <1>1, <2>1, <3>1, <3>2
    <3>4. QED
      BY <2>1, <3>1, <3>3, DivMod
  <2>5. x \in d <=> x \in Padded(f, units)
    BY <2>2
  <2>6. x \in Padded(f, units) <=> x % 8 \in CharBits(f, units, (x - Base(f)) \div 8)
    BY <2>2 DEF Padded
  <2>7. x \in d <=> b \in CharBits(f, units, i)
    BY <2>3, <2>4, <2>5, <2>6
  <2>8. QED
    BY <2>7 DEF x
<1>3. CharBits(f, units, i) \subseteq Byte
  <2>1. i < Len(units) => i + 1 \in DOMAIN units
    BY <1>1
  <2>2. QED
    BY <2>1 DEF CharBits
<1>4. CharAt(f, d, i) = CharBits(f, units, i)
  BY <1>2, <1>3 DEF CharAt
<1>5. QED
  BY <1>4 DEF CharBits

LEMMA EndKept ==
  ASSUME NEW f \in FieldDefinition, f.type = "string",
         NEW units \in Seq(SUBSET Nat), \A k \in DOMAIN units : units[k] \subseteq Byte,
         NEW d, d \cap Cells(f) = Padded(f, units),
         Len(units) <= Chars(f), units # <<>> => units[Len(units)] \notin Blank
  PROVE  TextEnd(f, d) = Len(units)
<1> DEFINE l == Len(units)
           c == Chars(f)
           EndsAt(n) == /\ n > 0 => CharAt(f, d, n - 1) \notin Blank
                        /\ \A i \in n .. c - 1 : CharAt(f, d, i) \in Blank
<1>1. c \in Nat /\ l \in 0 .. c
  BY DEF FieldDefinition, Chars
<1>2. \A i \in 0 .. c - 1 :
        CharAt(f, d, i) = IF i < l THEN units[i + 1] ELSE Byte
  BY CharKept
<1>3. l > 0 => CharAt(f, d, l - 1) \notin Blank
  <2>1. l > 0 => l - 1 \in 0 .. c - 1 /\ l - 1 < l /\ (l - 1) + 1 = l /\ units # <<>>
    BY <1>1
  <2>2. QED
    BY <1>2, <2>1
<1>4. Byte \in Blank
  BY DEF Blank
<1>5. EndsAt(l)
  BY <1>1, <1>2, <1>3, <1>4
<1>6. ASSUME NEW n \in 0 .. c, EndsAt(n)
      PROVE  n = l
  <2>1. CASE n < l
    <3>1. l - 1 \in n .. c - 1 /\ l > 0
      BY <1>1, <2>1
    <3>2. QED
      BY <1>3, <1>6, <3>1
  <2>2. CASE n > l
    <3>1. n - 1 \in 0 .. c - 1 /\ ~(n - 1 < l) /\ n > 0
      BY <1>1, <2>2
    <3>2. CharAt(f, d, n - 1) = Byte
      BY <1>2, <3>1
    <3>3. QED
      BY <1>4, <1>6, <3>1, <3>2
  <2>3. QED
    BY <1>1, <2>1, <2>2
<1>7. TextEnd(f, d) = CHOOSE n \in 0 .. c : EndsAt(n)
  BY DEF TextEnd
<1> HIDE DEF EndsAt
<1>8. QED
  BY <1>1, <1>5, <1>6, <1>7

LEMMA TextDecoded ==
  ASSUME NEW f \in FieldDefinition, f.type = "string",
         NEW v, v = Text(v.units), v.units \in Seq(SUBSET Nat), Speakable(f, v),
         NEW d, d \cap Cells(f) = Written(f, v),
         NEW n \in Nat, Cells(f) \subseteq 0 .. 8 * n - 1
  PROVE  ~Omitted(f, d) /\ DecodedField(f, d, n) = v
<1> DEFINE units == v.units
           c == Chars(f)
<1>1. /\ f.bitLength >= 64
      /\ Len(units) <= Chars(f)
      /\ \A k \in DOMAIN units : units[k] \subseteq Byte
      /\ units # <<>> => units[Len(units)] \notin Blank
  BY DEF Speakable
<1>2. ~Omitted(f, d) /\ ~isOor(Extracted(f, d), f.bitLength)
  BY <1>1 DEF Omitted, isNa, isOor, FieldDefinition
<1>3. d \cap Cells(f) = Padded(f, units)
  BY DEF Written
<1>4. TextEnd(f, d) = Len(units)
  BY <1>1, <1>3, EndKept
<1>5. c \in Nat /\ c >= 8 /\ Base(f) \in Nat
  BY <1>1 DEF FieldDefinition, Chars, Base
<1>6. ~(Base(f) + 8 * c > 8 * n)
  <2>1. Base(f) + 8 * c - 1 \in Cells(f)
    BY <1>5 DEF Cells
  <2>2. Base(f) + 8 * c - 1 \in 0 .. 8 * n - 1
    BY <2>1
  <2>3. QED
    BY <1>5, <2>2
<1>7. ExtractString(f, d, n) = units
  <2>1. ASSUME NEW k \in 1 .. Len(units)
        PROVE  CharAt(f, d, k - 1) = units[k]
    <3>1. k - 1 \in 0 .. c - 1 /\ k - 1 < Len(units) /\ (k - 1) + 1 = k
      BY <1>1, <1>5
    <3>2. QED
      BY <1>1, <1>3, <3>1, CharKept
  <2>2. ExtractString(f, d, n) = [k \in 1 .. Len(units) |-> CharAt(f, d, k - 1)]
    BY <1>4, <1>6 DEF ExtractString
  <2>3. units = [k \in 1 .. Len(units) |-> units[k]]
    OBVIOUS
  <2>4. QED
    BY <2>1, <2>2, <2>3
<1>8. QED
  BY <1>2, <1>7 DEF DecodedField

-----------------------------------------------------------------------------
(* What the fields of a case keep, while values are encoded and decoded in *)
(* turn: Kept, of the values, and Held, of the payload.                    *)

Given(c, i) == NameOf(c.message, i) \in DOMAIN c.values

GivenValue(c, i) == c.values[NameOf(c.message, i)]

Said(c, i) ==
  GivenValue(c, i) # NaN /\ Speakable(c.message.fields[i], GivenValue(c, i))

Regular(m) == {i \in Named(m) : Placed(m, i) /\ Exact(m.fields[i])}

Kept(c, vals) ==
  \A i \in Regular(c.message) :
    LET name == NameOf(c.message, i)
    IN  IF Given(c, i)
        THEN Said(c, i) => name \in DOMAIN vals /\ vals[name] = GivenValue(c, i)
        ELSE c.message.fields[i].type # "string" => name \notin DOMAIN vals

Held(c, d) ==
  \A i \in Regular(c.message) :
    LET f == c.message.fields[i]
    IN  IF Given(c, i)
        THEN Said(c, i) => d \cap Cells(f) = Written(f, GivenValue(c, i))
        ELSE f.type # "string" => Cells(f) \subseteq d

LEMMA EncodeHolds ==
  ASSUME NEW c \in Case, "values" \in DOMAIN c, NEW vals, Kept(c, vals)
  PROVE  Held(c, Encoded(c.message, vals))
<1> DEFINE m == c.message
<1> SUFFICES ASSUME NEW i \in Regular(m)
             PROVE  LET f == m.fields[i]
                        d == Encoded(m, vals)
                    IN  IF Given(c, i)
                        THEN Said(c, i) => d \cap Cells(f) = Written(f, GivenValue(c, i))
                        ELSE f.type # "string" => Cells(f) \subseteq d
  BY DEF Held
<1>1. m \in MessageDefinition /\ i \in Named(m) /\ Placed(m, i)
  BY CaseTypes DEF Regular
<1>2. Encoded(m, vals) \cap Cells(m.fields[i]) =
        IF NameOf(m, i) \in DOMAIN vals
        THEN Written(m.fields[i], vals[NameOf(m, i)])
        ELSE Cells(m.fields[i])
  BY <1>1, EncodedOf
<1>3. IF Given(c, i)
      THEN Said(c, i) => /\ NameOf(m, i) \in DOMAIN vals
                         /\ vals[NameOf(m, i)] = GivenValue(c, i)
      ELSE m.fields[i].type # "string" => NameOf(m, i) \notin DOMAIN vals
  BY DEF Kept
<1>4. QED
  BY <1>2, <1>3

LEMMA DecodeKeeps ==
  ASSUME NEW c \in Case, "values" \in DOMAIN c, NEW d, Held(c, d)
  PROVE  Kept(c, Decoded(c.message, d, c.message.dataLength))
<1> DEFINE m == c.message
           n == m.dataLength
<1> SUFFICES ASSUME NEW i \in Regular(m)
             PROVE  LET name == NameOf(m, i)
                        vals == Decoded(m, d, n)
                    IN  IF Given(c, i)
                        THEN Said(c, i) => name \in DOMAIN vals /\ vals[name] = GivenValue(c, i)
                        ELSE m.fields[i].type # "string" => name \notin DOMAIN vals
  BY DEF Kept
<1> DEFINE f == m.fields[i]
           v == GivenValue(c, i)
<1>1. m \in MessageDefinition /\ NamesDiffer(m) /\ ValuesFor(m, c.values)
  BY CaseTypes
<1>2. i \in Named(m) /\ Placed(m, i) /\ Exact(f)
  BY DEF Regular
<1>3. f \in FieldDefinition /\ f.type \in FieldType \ {"reserved"}
  BY <1>1, <1>2, FieldTypes
<1>4. n \in Nat /\ Cells(f) \subseteq 0 .. 8 * n - 1
  BY <1>1, <1>2 DEF MessageDefinition, Placed
<1>5. f.type # "string" => f.type \in Numeric /\ f.bitLength <= 48
  BY <1>2, <1>3 DEF Numeric, Exact
<1>6. /\ NameOf(m, i) \in DOMAIN Decoded(m, d, n) <=> ~Omitted(f, d)
      /\ NameOf(m, i) \in DOMAIN Decoded(m, d, n) =>
           Decoded(m, d, n)[NameOf(m, i)] = DecodedField(f, d, n)
  BY <1>1, <1>2, DecodedOf
<1>7. ASSUME Given(c, i), Said(c, i)
      PROVE  ~Omitted(f, d) /\ DecodedField(f, d, n) = v
  <2>1. v \in Value /\ Suits(f, v) /\ v # NaN
    BY <1>1, <1>2, <1>7 DEF ValuesFor, Given, GivenValue, Said
  <2>2. Speakable(f, v) /\ d \cap Cells(f) = Written(f, v)
    BY <1>7 DEF Said, Held
  <2>3. CASE f.type = "string"
    <3>1. v = Text(v.units) /\ v.units \in Seq(SUBSET Nat)
      BY <2>1, <2>3 DEF Value, Suits, Text, NaN
    <3>2. f \in FieldDefinition /\ n \in Nat /\ Cells(f) \subseteq 0 .. 8 * n - 1
      BY <1>3, <1>4
    <3> HIDE DEF f, v, n
    <3>3. QED
      BY <2>2, <2>3, <3>1, <3>2, TextDecoded
  <2>4. CASE f.type # "string"
    <3>1. v = Number(v.bits) /\ v.bits \subseteq Word
      BY <2>1, <2>4 DEF Value, Suits, Number, NaN
    <3>2. QED
      BY <1>3, <1>5, <2>2, <2>4, <3>1, NumberDecoded
  <2>5. QED
    BY <2>3, <2>4
<1>8. ASSUME ~Given(c, i), f.type # "string"
      PROVE  Omitted(f, d)
  <2>1. Cells(f) \subseteq d
    BY <1>8 DEF Held
  <2>2. QED
    BY <1>3, <1>5, <1>8, <2>1, AbsentOmitted
<1>9. QED
  BY <1>6, <1>7, <1>8

-----------------------------------------------------------------------------
(* The inductive invariant: what was said is kept by the values and, until *)
(* it is decoded, held by the payload; and what is about to be encoded     *)
(* again is what was decoded.                                              *)
CodecInv ==
  /\ case \in Case
  /\ FromValues => Kept(case, values)
  /\ FromValues /\ turn = "decode" =>
       Held(case, data) /\ length = message.dataLength
  /\ turn = "encode" /\ trips > 0 => values = Decoded(message, data, length)
  /\ trips \in Nat

LEMMA InitCodec == CodecInit => CodecInv
<1> SUFFICES ASSUME CodecInit PROVE CodecInv
  OBVIOUS
<1>1. case \in Case /\ trips = 0
  BY DEF CodecInit
<1>2. FromValues => values = case.values /\ turn = "encode"
  BY DEF CodecInit
<1>3. FromValues => Kept(case, case.values)
  BY DEF Kept, Given, GivenValue
<1>4. QED
  BY <1>1, <1>2, <1>3 DEF CodecInv

LEMMA NextCodec == CodecInv /\ [CodecNext]_codecVars => CodecInv'
<1> SUFFICES ASSUME CodecInv, [CodecNext]_codecVars PROVE CodecInv'
  OBVIOUS
<1>1. ASSUME Encode PROVE CodecInv'
  <2>1. FromValues => Held(case, data') /\ length' = message.dataLength
    BY <1>1, EncodeHolds DEF Encode, CodecInv, message, FromValues
  <2>2. QED
    BY <1>1, <2>1 DEF Encode, CodecInv, message, FromValues
<1>2. ASSUME EncodeThrows PROVE CodecInv'
  BY <1>2 DEF EncodeThrows, CodecInv, message, FromValues
<1>3. ASSUME DecodeShort PROVE CodecInv'
  BY <1>3 DEF DecodeShort, CodecInv, message, FromValues
<1>4. ASSUME Decode PROVE CodecInv'
  <2>1. FromValues => Kept(case, values')
    BY <1>4, DecodeKeeps DEF Decode, CodecInv, message, FromValues
  <2>2. values' = Decoded(message, data, length)
    BY <1>4 DEF Decode
  <2>3. QED
    BY <1>4, <2>1, <2>2 DEF Decode, CodecInv, message, FromValues
<1>5. CASE UNCHANGED codecVars
  BY <1>5 DEF codecVars, CodecInv, message, FromValues
<1>6. QED
  BY <1>1, <1>2, <1>3, <1>4, <1>5 DEF CodecNext

(* Whatever the definitions of messages, the values and the payloads:      *)
(* values are kept, and payloads hold them (encode, decode).               *)
THEOREM CodecInvariant == CodecSpec => []CodecInv
<1>1. QED
  BY InitCodec, NextCodec, PTL DEF CodecSpec

(* What encode() was given and could be said is what decode() returns, for *)
(* every definition a message may have and every value that neither the    *)
(* code nor the comment on its sentinels reserves.                         *)
THEOREM ValuesReturn == CodecSpec => []RoundTrip
<1>1. CodecInv => RoundTrip
  <2> SUFFICES ASSUME CodecInv, FromValues
               PROVE  RoundTrip
    BY DEF RoundTrip
  <2>1. Kept(case, values)
    BY DEF CodecInv
  <2>2. QED
    BY <2>1 DEF RoundTrip, Kept, Given, GivenValue, Said, Regular, message
<1>2. QED
  BY <1>1, CodecInvariant, PTL

(* Decoding a payload and encoding the values again changes no bit of a    *)
(* number, for every definition and every payload.                         *)
THEOREM NumbersKept == CodecSpec => NumbersSurvive
<1> DEFINE Step == turn = "encode" /\ turn' = "decode" /\ trips > 0 =>
                     \A i \in Named(message) :
                       LET f == message.fields[i]
                       IN  f.type # "string" /\ Placed(message, i) /\ Exact(f)
                             => data' \cap Cells(f) = data \cap Cells(f)
<1>1. CodecInv /\ [CodecNext]_codecVars => [Step]_codecVars
  <2> SUFFICES ASSUME CodecInv, CodecNext, turn = "encode", turn' = "decode", trips > 0,
                      NEW i \in Named(message), Placed(message, i),
                      message.fields[i].type # "string", Exact(message.fields[i])
               PROVE  data' \cap Cells(message.fields[i])
                        = data \cap Cells(message.fields[i])
    OBVIOUS
  <2> DEFINE f == message.fields[i]
             name == NameOf(message, i)
  <2>1. Encode
    BY DEF CodecNext, EncodeThrows, DecodeShort, Decode
  <2>2. message \in MessageDefinition /\ NamesDiffer(message)
    BY CaseTypes DEF CodecInv, message
  <2>3. f \in FieldDefinition /\ f.type \in Numeric /\ f.bitLength <= 48
    BY <2>2, FieldTypes DEF Numeric, Exact
  <2>4. values = Decoded(message, data, length)
    BY DEF CodecInv
  <2>5. /\ name \in DOMAIN values <=> ~Omitted(f, data)
        /\ name \in DOMAIN values => values[name] = DecodedField(f, data, length)
    BY <2>2, <2>4, DecodedOf
  <2>6. data' \cap Cells(f) =
          IF name \in DOMAIN values THEN Written(f, values[name]) ELSE Cells(f)
    BY <2>1, <2>2, EncodedOf DEF Encode
  <2>7. CASE name \in DOMAIN values
    <3>1. DecodedField(f, data, length) # NaN
      BY <2>1, <2>5, <2>7 DEF Encode, Encodable
    <3>2. Written(f, DecodedField(f, data, length)) = data \cap Cells(f)
      BY <2>3, <3>1, NumberWritten
    <3>3. QED
      BY <2>5, <2>6, <2>7, <3>2
  <2>8. CASE name \notin DOMAIN values
    <3>1. Cells(f) \subseteq data
      BY <2>3, <2>5, <2>8, AbsentOmitted
    <3>2. QED
      BY <2>6, <2>8, <3>1
  <2>9. QED
    BY <2>7, <2>8
<1>2. QED
  BY <1>1, CodecInvariant, PTL DEF CodecSpec, NumbersSurvive
=============================================================================
