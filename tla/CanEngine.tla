------------------------------ MODULE CanEngine ------------------------------
(***************************************************************************)
(* The native engine of can_engine: its application, one Dart isolate that *)
(* calls the C API and polls the snapshot, and its I/O thread, which runs  *)
(* the handlers of one asio io_context.  No lock stands between them: both *)
(* write the snapshot's rows and its sequence number.                      *)
(*                                                                         *)
(* A step is what a thread does between two accesses of the shared state   *)
(* that the other can come between.  A handler that asio aborts does       *)
(* nothing and has no step.  Where both write at once, what the rows, the  *)
(* log and the graphs hold is left to the build, and how long they are:    *)
(* odd remembers it, and no property speaks of them any more.  A frame is  *)
(* its can_id, flags included: what its bytes are, how they are decoded    *)
(* and formatted is left out.                                              *)
(***************************************************************************)
EXTENDS Integers, Sequences, FiniteSets

CONSTANTS
  BusId,        (* the can_id of frames read from the socket, with flags   *)
  Bare,         (* Bare[i]: the ID a frame with can_id i is recorded under *)
  SentId,       (* those of single frames the application sends, with      *)
                (* flags or without, as it likes                           *)
  PeriodicId,   (* those of frames it sends periodically                   *)
  NoId,         (* the can_id of an error frame                            *)
  Filters,      (* the display filters the application may set             *)
  Signal,       (* the signals of the database                             *)
  SignalsOf,    (* SignalsOf[i]: those of the message with the ID i        *)
  MaxMessages,  (* MAX_MESSAGES                                            *)
  MaxFrames,    (* MAX_FRAMES                                              *)
  MaxGraphs,    (* MAX_GRAPH_SIGNALS                                       *)
  MaxPoints,    (* MAX_GRAPH_POINTS                                        *)
  Bound         (* of the starts, and of all events in one behaviour: a    *)
                (* frame arrives, a timer expires, the application sends,  *)
                (* filters, or asks for a periodic frame or a graph        *)

(* process_frame() masks the flags of a can_id, send_frame() and the       *)
(* periodic frames are recorded under the can_id as it was given.          *)
HeardId == {Bare[i] : i \in BusId}
Id == HeardId \cup SentId \cup PeriodicId

ASSUME IdAssumption == NoId \notin Id \cup BusId
ASSUME TimerAssumption == {"busload", "highlight"} \cap PeriodicId = {}
ASSUME FilterAssumption == Filters \subseteq SUBSET Id
ASSUME SignalAssumption == SignalsOf \in [HeardId -> SUBSET Signal]
ASSUME SizeAssumption ==
  \A size \in {MaxMessages, MaxFrames, MaxGraphs, MaxPoints} : size \in Nat \ {0}

VARIABLES
  running,   (* snapshot_.running                                          *)
  ctx,       (* "off": no I/O thread, "run", "stopped": io_ctx_.stop()     *)
  reads,     (* outstanding reads of the socket                            *)
  done,      (* completed ones, whose on_frame() is queued                 *)
  buffer,    (* frame_buffer_                                              *)
  failed,    (* a read failed: error_code 4                                *)
  wait,      (* wait[t]: timer t runs                                      *)
  due,       (* due[t]: its expired handlers that are queued               *)
  entry,     (* periodic_txs_: "none", "on" (active) or "off"              *)
  ghosts,    (* ghosts[p]: queued handlers of freed entries of p          *)
  work,      (* what the application and the I/O thread are doing          *)
  rows,      (* messages[0 .. message_count - 1]                           *)
  lit,       (* the rows whose highlight is 1                              *)
  log,       (* frames, frame_head and frame_count                         *)
  passing,   (* the IDs the display filter passes, all if there is none    *)
  loaded,    (* load_signals() was called                                  *)
  graphs,    (* graphs[0 .. graph_count - 1]                               *)
  sequence,
  totals,    (* the statistics and the bus load counter                    *)
  seen,      (* the poller's _lastSequence                                 *)
  heard,     (* history: the frames read from the socket since start()     *)
  shown,     (* history: the frames on_frame() handled since start()       *)
  logged,    (* history: the frames since start() that the filter passes   *)
  tally,     (* history: tally[i] frames to record under i since then      *)
  fed,       (* history: the values of s since it was given a graph        *)
  late,      (* history: late[p] frames of p left after it was stopped     *)
  dirty,     (* history: a frame was recorded since the poller read them   *)
  odd,       (* history: what happened that voids a promise                *)
  spent      (* spent[b]: how much of Bound[b] is used up                  *)

socket == <<reads, done, buffer, failed>>
timers == <<wait, due, entry, ghosts>>
signals == <<loaded, graphs, fed, passing>>
snapshot == <<rows, lit, log, sequence, totals>>
history == <<heard, shown, logged, tally, late, dirty, odd>>
vars == <<running, ctx, socket, timers, work, snapshot, signals, seen, history,
          spent>>

Timer == {"busload", "highlight"} \cup PeriodicId
Things == {"starts", "events"}

Rest == [at |-> "idle", for |-> "none", id |-> NoId, row |-> 0, tmp |-> 0]

Idle(w) == work[w].at = "idle"
At(w, p) == work[w].at = p
Goes(w, p) == work' = [work EXCEPT ![w].at = p]
Begins(w, what, i, p) ==
  work' = [work EXCEPT ![w] = [Rest EXCEPT !.at = p, !.for = what, !.id = i]]
Ends(w) == work' = [work EXCEPT ![w] = Rest]

(* Between the first read of the rows and the second store of sequence. *)
Writing(w) ==
  work[w].at \in {"scan", "record", "store1", "store2"}
Other(w) == IF w = "app" THEN "io" ELSE "app"

(* Thread w begins to write: a clash if the other is at it. *)
Clash(w) == IF Writing(Other(w)) THEN {"clash"} ELSE {}

(* A bounded thing happens once more. *)
Spends(b) == spent[b] < Bound[b] /\ spent' = [spent EXCEPT ![b] = @ + 1]

NoFrames == [cells |-> [c \in 1..MaxFrames |-> NoId], head |-> 0, count |-> 0]
NoTotals == [rx |-> 0, tx |-> 0, errors |-> 0, load |-> 0, reported |-> 0]

-----------------------------------------------------------------------------
Init ==
  /\ running = FALSE /\ ctx = "off"
  /\ reads = 0 /\ done = 0 /\ buffer = NoId /\ failed = FALSE
  /\ wait = [t \in Timer |-> FALSE] /\ due = [t \in Timer |-> 0]
  /\ entry = [p \in PeriodicId |-> "none"] /\ ghosts = [p \in PeriodicId |-> 0]
  /\ work = [w \in {"app", "io"} |-> Rest]
  /\ rows = <<>> /\ lit = {} /\ log = NoFrames /\ sequence = 0 /\ totals = NoTotals
  /\ passing = Id /\ loaded = FALSE /\ graphs = <<>>
  /\ fed = [s \in Signal |-> 0]
  /\ seen = 0
  /\ heard = <<>> /\ shown = <<>> /\ logged = <<>>
  /\ tally = [i \in Id |-> 0]
  /\ late = [p \in PeriodicId |-> 0]
  /\ dirty = FALSE /\ odd = {}
  /\ spent = [b \in Things |-> 0]

(* start(): the snapshot is reset, the loops are set going, then the       *)
(* thread.  expires_after() cancels a wait that is left, not a handler     *)
(* that is queued.  A poller begins with _lastSequence 0.                  *)
Start ==
  /\ Idle("app") /\ ~running
  /\ Spends("starts")
  /\ running' = TRUE /\ ctx' = "run"
  /\ reads' = reads + 1 /\ failed' = FALSE
  /\ wait' = [wait EXCEPT !["busload"] = TRUE, !["highlight"] = TRUE]
  /\ rows' = <<>> /\ lit' = {} /\ log' = NoFrames
  /\ sequence' = 0 /\ totals' = NoTotals
  /\ seen' = 0
  /\ heard' = <<>> /\ shown' = <<>> /\ logged' = <<>>
  /\ tally' = [i \in Id |-> 0]
  /\ dirty' = FALSE
  /\ odd' = (odd \cap {"wild"}) \cup IF done > 0 THEN {"leftover"} ELSE {}
  /\ graphs' = <<>>
  /\ UNCHANGED <<done, buffer, due, entry, ghosts, work, passing, loaded, fed,
                 late>>

(* stop(), as far as stop_all_periodic_tx(). *)
Stop ==
  /\ Idle("app") /\ running
  /\ running' = FALSE
  /\ Begins("app", "stop", NoId, "deactivate")
  /\ UNCHANGED <<ctx, socket, timers, snapshot, signals, seen, history, spent>>

StopAllPeriodicTx ==
  /\ Idle("app") /\ running
  /\ \E p \in PeriodicId : entry[p] # "none"
  /\ Begins("app", "stop_all", NoId, "deactivate")
  /\ UNCHANGED <<running, ctx, socket, timers, snapshot, signals, seen, history, spent>>

(* The loop of stop_all_periodic_tx(). *)
Deactivate ==
  /\ At("app", "deactivate")
  /\ entry' = [p \in PeriodicId |-> IF entry[p] = "none" THEN "none" ELSE "off"]
  /\ wait' = [t \in Timer |-> wait[t] /\ t \notin PeriodicId]
  /\ Goes("app", "free")
  /\ UNCHANGED <<running, ctx, socket, due, ghosts, snapshot, signals, seen, history,
                 spent>>

(* Its clear(): the handlers queued or running refer to freed entries. *)
Free ==
  /\ At("app", "free")
  /\ entry' = [p \in PeriodicId |-> "none"]
  /\ ghosts' = [p \in PeriodicId |-> ghosts[p] + due[p]]
  /\ due' = [t \in Timer |-> IF t \in PeriodicId THEN 0 ELSE due[t]]
  /\ work' =
       [work EXCEPT
         !["app"] = IF @.for = "stop" THEN [@ EXCEPT !.at = "halt"] ELSE Rest,
         !["io"].for = IF @ = "periodic" THEN "ghost" ELSE @]
  /\ UNCHANGED <<running, ctx, socket, wait, snapshot, signals, seen, history, spent>>

Halt ==
  /\ At("app", "halt")
  /\ ctx' = "stopped"
  /\ Goes("app", "join")
  /\ UNCHANGED <<running, socket, timers, snapshot, signals, seen, history, spent>>

(* A slip: a completed on_frame() is thrown away with the reads.           *)
Join_DropsFrame ==
  /\ At("app", "join") /\ ctx = "off"
  /\ reads' = 0 /\ done' = 0
  /\ Ends("app")
  /\ UNCHANGED <<running, ctx, buffer, failed, timers, snapshot, signals, seen,
                 history, spent>>

(* The thread has returned from run(); the stream is reset, which aborts   *)
(* its reads but not an on_frame() that is queued.                         *)
Join ==
  /\ At("app", "join") /\ ctx = "off"
  /\ reads' = 0
  /\ Ends("app")
  /\ UNCHANGED <<running, ctx, done, buffer, failed, timers, snapshot, signals, seen,
                 history, spent>>

-----------------------------------------------------------------------------
(* The application's periodic frames. *)

StartPeriodicTx(p) ==
  /\ Idle("app") /\ running
  /\ Spends("events")
  /\ entry' = [entry EXCEPT ![p] = "on"]
  /\ wait' = [wait EXCEPT ![p] = @ \/ entry[p] # "on"]
  /\ late' = [late EXCEPT ![p] = 0]
  /\ UNCHANGED <<running, ctx, socket, due, ghosts, work, snapshot, signals, seen,
                 heard, shown, logged, tally, dirty, odd>>

StopPeriodicTx(p) ==
  /\ Idle("app") /\ running /\ entry[p] # "none"
  /\ entry' = [entry EXCEPT ![p] = "off"]
  /\ wait' = [wait EXCEPT ![p] = FALSE]
  /\ UNCHANGED <<running, ctx, socket, due, ghosts, work, snapshot, signals, seen,
                 history, spent>>

(* send_frame(), once the frame is written to the socket. *)
SendFrame(i) ==
  /\ Idle("app") /\ running
  /\ Spends("events")
  /\ Begins("app", "send", i, "scan")
  /\ odd' = odd \cup Clash("app")
  /\ tally' = [tally EXCEPT ![i] = @ + 1]
  /\ UNCHANGED <<running, ctx, socket, timers, snapshot, signals, seen, heard, shown,
                 logged, late, dirty>>

(* The application changes what append_frame_row() and decode_signals()    *)
(* read: a clash if the I/O thread is in them.                             *)
Changes ==
  odd' = odd \cup IF At("io", "record") /\ work["io"].for = "frame" THEN {"clash"} ELSE {}

(* set_display_filter() and clear_display_filter() *)
Filter(K) ==
  /\ Idle("app")
  /\ passing' = K
  /\ Changes
  /\ UNCHANGED <<running, ctx, socket, timers, work, snapshot, loaded, graphs,
                 fed, seen, heard, shown, logged, tally, late, dirty>>

SetDisplayFilter(K) == Filter(K) /\ Spends("events")

ClearDisplayFilter == Filter(Id) /\ UNCHANGED spent

LoadSignals ==
  /\ Idle("app") /\ ~loaded
  /\ loaded' = TRUE
  /\ Changes
  /\ UNCHANGED <<running, ctx, socket, timers, work, snapshot, graphs,
                 passing, fed, seen, heard, shown, logged, tally, late, dirty, spent>>

Graphed(s) == \E g \in DOMAIN graphs : graphs[g].signal = s

AddGraphSignal(s) ==
  /\ Idle("app") /\ loaded
  /\ Len(graphs) < MaxGraphs /\ ~Graphed(s)
  /\ Spends("events")
  /\ graphs' = Append(graphs, [signal |-> s, points |-> 0])
  /\ fed' = [fed EXCEPT ![s] = 0]
  /\ Changes
  /\ UNCHANGED <<running, ctx, socket, timers, work, snapshot, passing, loaded,
                 seen, heard, shown, logged, tally, late, dirty>>

(* The graphs behind it move up. *)
RemoveGraphSignal(s) ==
  /\ Idle("app") /\ Graphed(s)
  /\ LET gone == CHOOSE g \in DOMAIN graphs : graphs[g].signal = s IN
       graphs' = [g \in 1 .. Len(graphs) - 1 |->
                    graphs[IF g < gone THEN g ELSE g + 1]]
  /\ Changes
  /\ UNCHANGED <<running, ctx, socket, timers, work, snapshot, passing, loaded,
                 fed, seen, heard, shown, logged, tally, late, dirty, spent>>

(* The poller reads the rows if the sequence number is another. *)
Poll ==
  /\ Idle("app") /\ running /\ sequence # seen
  /\ seen' = sequence /\ dirty' = FALSE
  /\ UNCHANGED <<running, ctx, socket, timers, work, snapshot, signals, heard, shown,
                 logged, tally, late, odd, spent>>

-----------------------------------------------------------------------------
(* The reactor, which the I/O thread runs between two handlers. *)

Waits == ctx = "run" /\ Idle("io")

(* A read completes with a frame, or with an error frame. *)
Arrive(i) ==
  /\ Waits /\ reads > 0
  /\ Spends("events")
  /\ reads' = reads - 1 /\ done' = done + 1
  /\ buffer' = i
  /\ heard' = Append(heard, i)
  /\ UNCHANGED <<running, ctx, failed, timers, work, snapshot, signals, seen, shown,
                 logged, tally, late, dirty, odd>>

(* A read fails, and on_frame() starts no other. *)
ReadFails ==
  /\ Waits /\ reads > 0
  /\ reads' = reads - 1 /\ failed' = TRUE
  /\ UNCHANGED <<running, ctx, done, buffer, timers, work, snapshot, signals, seen,
                 history, spent>>

Expire(t) ==
  /\ Waits /\ wait[t]
  /\ Spends("events")
  /\ wait' = [wait EXCEPT ![t] = FALSE]
  /\ due' = [due EXCEPT ![t] = @ + 1]
  /\ UNCHANGED <<running, ctx, socket, entry, ghosts, work, snapshot, signals, seen,
                 history>>

(* run() returns, at the earliest after the handler it is in. *)
Leave ==
  /\ ctx = "stopped" /\ Idle("io")
  /\ ctx' = "off"
  /\ UNCHANGED <<running, socket, timers, work, snapshot, signals, seen, history, spent>>

-----------------------------------------------------------------------------
(* The handlers, each as far as the shared snapshot. *)

(* process_frame() masks the flags before it looks for the row.            *)
OnFrame ==
  /\ Waits /\ done > 0
  /\ done' = done - 1
  /\ shown' = Append(shown, buffer)
  /\ IF buffer = NoId
     THEN /\ totals' = [totals EXCEPT !.load = @ + 1, !.errors = @ + 1]
          /\ Begins("io", "frame", NoId, "rearm")
          /\ UNCHANGED <<odd, tally>>
     ELSE /\ totals' = [totals EXCEPT !.load = @ + 1, !.rx = @ + 1]
          /\ Begins("io", "frame", Bare[buffer], "scan")
          /\ odd' = odd \cup Clash("io")
          /\ tally' = [tally EXCEPT ![Bare[buffer]] = @ + 1]
  /\ UNCHANGED <<running, ctx, reads, buffer, failed, timers, rows, lit, log,
                 sequence, signals, seen, heard, logged, late, dirty, spent>>

OnBusloadTick ==
  /\ Waits /\ due["busload"] > 0
  /\ due' = [due EXCEPT !["busload"] = @ - 1]
  /\ totals' = [totals EXCEPT !.reported = @ + totals.load, !.load = 0]
  /\ work' = [work EXCEPT !["io"] = [Rest EXCEPT !.at = "store1",
                                    !.for = "busload", !.tmp = sequence]]
  /\ odd' = odd \cup Clash("io")
  /\ UNCHANGED <<running, ctx, socket, wait, entry, ghosts, rows, lit, log,
                 sequence, signals, seen, heard, shown, logged, tally, late, dirty, spent>>

(* The highlights of all rows go out, without a new sequence number, and   *)
(* whatever the application is writing.                                    *)
OnHighlightTick ==
  /\ Waits /\ due["highlight"] > 0
  /\ due' = [due EXCEPT !["highlight"] = @ - 1]
  /\ lit' = {}
  /\ Begins("io", "highlight", NoId, "rearm")
  /\ UNCHANGED <<running, ctx, socket, wait, entry, ghosts, rows, log, sequence,
                 totals, signals, seen, history, spent>>

(* A slip: the handler does not ask whether its entry is still active.     *)
OnPeriodic_Unasked(p) ==
  /\ Waits /\ due[p] > 0
  /\ due' = [due EXCEPT ![p] = @ - 1]
  /\ Begins("io", "periodic", p, "write")
  /\ UNCHANGED <<running, ctx, socket, wait, entry, ghosts, snapshot, signals, seen,
                 history, spent>>

(* The handler of schedule_periodic_tx() finds its entry active or not. *)
OnPeriodic(p) ==
  /\ Waits /\ due[p] > 0
  /\ due' = [due EXCEPT ![p] = @ - 1]
  /\ IF entry[p] = "on" THEN Begins("io", "periodic", p, "write")
     ELSE UNCHANGED work
  /\ UNCHANGED <<running, ctx, socket, wait, entry, ghosts, snapshot, signals, seen,
                 history, spent>>

(* It reads an entry that was freed, and finds anything. *)
OnGhost(p) ==
  /\ Waits /\ ghosts[p] > 0
  /\ ghosts' = [ghosts EXCEPT ![p] = @ - 1]
  /\ odd' = odd \cup {"wild"}
  /\ Begins("io", "ghost", p, "write") \/ UNCHANGED work
  /\ UNCHANGED <<running, ctx, socket, wait, due, entry, snapshot, signals, seen, heard,
                 shown, logged, tally, late, dirty, spent>>

(* It writes the frame to the socket.  Of a freed entry it sends and       *)
(* records what it finds there.                                            *)
WritePeriodic ==
  /\ At("io", "write")
  /\ \E i \in IF work["io"].for = "ghost" THEN Id ELSE {work["io"].id} :
       /\ tally' = [tally EXCEPT ![i] = @ + 1]
       /\ work' = [work EXCEPT !["io"].id = i, !["io"].at = "scan"]
  /\ late' = [p \in PeriodicId |->
                IF work["io"].id = p /\ entry[p] # "on" THEN late[p] + 1 ELSE late[p]]
  /\ odd' = odd \cup Clash("io")
                \cup IF work["io"].for = "ghost" THEN {"wild"} ELSE {}
  /\ UNCHANGED <<running, ctx, socket, timers, snapshot, signals, seen, heard, shown,
                 logged, dirty, spent>>

-----------------------------------------------------------------------------
(* update_message_row(): first the search, then the rest.  Rows only grow, *)
(* so a row found stays where it was.                                      *)

Scan(w) ==
  /\ At(w, "scan")
  /\ LET found == {r \in DOMAIN rows : rows[r].id = work[w].id} IN
       work' = [work EXCEPT
         ![w].row = IF found = {} THEN 0
                    ELSE CHOOSE r \in found : \A q \in found : r <= q,
         ![w].at = "record"]
  /\ UNCHANGED <<running, ctx, socket, timers, snapshot, signals, seen, history, spent>>

(* A slip: the table of rows has no limit.                                 *)
WithRow_NoLimit(i, r, room) ==
  IF r # 0 THEN [rows EXCEPT ![r].count = @ + 1]
  ELSE Append(rows, [id |-> i, count |-> 1])

(* A slip: the frame that makes a new row is not counted in it.            *)
WithRow_FromZero(i, r, room) ==
  IF r # 0 THEN [rows EXCEPT ![r].count = @ + 1]
  ELSE IF room THEN Append(rows, [id |-> i, count |-> 0])
  ELSE rows

(* The row it found, a new one, or none if it sees no room. *)
WithRow(i, r, room) ==
  IF r # 0 THEN [rows EXCEPT ![r].count = @ + 1]
  ELSE IF room THEN Append(rows, [id |-> i, count |-> 1])
  ELSE rows

(* A slip: the log does not ask the display filter.                        *)
Appends_Unfiltered(w) == work[w].for \in {"frame", "send"}

(* append_frame_row(), which is not called for periodic frames, asks the   *)
(* display filter.                                                         *)
Appends(w) == work[w].for \in {"frame", "send"} /\ work[w].id \in passing

(* frame_count grows as long as the log is not seen to be full; frame_head *)
(* is stored modulo the size and never leaves it.                          *)
WithFrame(i, room) ==
  [cells |-> [log.cells EXCEPT ![log.head + 1] = i],
   head |-> (log.head + 1) % MaxFrames,
   count |-> IF room THEN log.count + 1 ELSE log.count]

(* publish_snapshot() loads and stores sequence twice.  Each load is one   *)
(* step with what the thread did before.                                   *)
Loads(w, p, n) == work' = [work EXCEPT ![w].tmp = n, ![w].at = p]

(* update_graph() for one of the signals decoded. *)
WithPoint(g) ==
  [g EXCEPT !.points = IF @ < MaxPoints THEN @ + 1 ELSE @]

(* decode_signals(): each signal of the message gets a value and, if it    *)
(* has a graph, a point.                                                   *)
DecodeSignals(i) ==
  IF loaded
  THEN /\ graphs' = [g \in DOMAIN graphs |->
            IF graphs[g].signal \in SignalsOf[i] THEN WithPoint(graphs[g])
            ELSE graphs[g]]
       /\ fed' = [s \in Signal |->
            IF s \in SignalsOf[i] /\ Graphed(s) THEN fed[s] + 1 ELSE fed[s]]
  ELSE UNCHANGED <<graphs, fed>>

(* What a thread sees of a limit that it checks before it counts up.  The  *)
(* two are not one: once two threads write at once, the check may be of an *)
(* earlier time, when there was room, and the count pass the array's end.  *)
Sees(room) == IF "clash" \in odd THEN {TRUE, room} ELSE {room}

(* The rest of update_message_row(), the append log, the signals of a      *)
(* frame received, and the counter of those sent.                          *)
Record(w) ==
  /\ At(w, "record")
  /\ \E room \in Sees(Len(rows) < MaxMessages) :
       /\ rows' = WithRow(work[w].id, work[w].row, room)
       /\ lit' = lit \cup IF work[w].row # 0 THEN {work[w].row}
                          ELSE {r \in DOMAIN rows' : r > Len(rows)}
  /\ \E room \in Sees(log.count < MaxFrames) :
       log' = IF Appends(w) THEN WithFrame(work[w].id, room) ELSE log
  /\ logged' = IF work[w].for \in {"frame", "send"} /\ work[w].id \in passing
               THEN Append(logged, work[w].id) ELSE logged
  /\ IF work[w].for = "frame" THEN DecodeSignals(work[w].id)
     ELSE UNCHANGED <<graphs, fed>>
  /\ totals' = [totals EXCEPT !.tx = IF work[w].for = "frame" THEN @ ELSE @ + 1]
  /\ dirty' = TRUE
  /\ Loads(w, "store1", sequence)
  /\ UNCHANGED <<running, ctx, socket, timers, passing, loaded, sequence, seen, heard,
                 shown, tally, late, odd, spent>>

(* A slip: the number goes out once, before the rows count as written.     *)
Store1_Once(w) ==
  /\ At(w, "store1")
  /\ sequence' = work[w].tmp + 1
  /\ Loads(w, "store2", work[w].tmp)
  /\ UNCHANGED <<running, ctx, socket, timers, rows, lit, log, totals, signals, seen,
                 history, spent>>

Store1(w) ==
  /\ At(w, "store1")
  /\ sequence' = work[w].tmp + 1
  /\ Loads(w, "store2", work[w].tmp + 1)
  /\ UNCHANGED <<running, ctx, socket, timers, rows, lit, log, totals, signals, seen,
                 history, spent>>

Store2(w) ==
  /\ At(w, "store2")
  /\ sequence' = work[w].tmp + 1
  /\ IF w = "app" THEN Ends(w)
     ELSE work' = [work EXCEPT ![w].tmp = 0, ![w].row = 0, ![w].at = "rearm"]
  /\ UNCHANGED <<running, ctx, socket, timers, rows, lit, log, totals, signals, seen,
                 history, spent>>

-----------------------------------------------------------------------------
(* The end of a handler: the next read, or the next wait of its timer. *)

ReadAgain ==
  /\ At("io", "rearm") /\ work["io"].for = "frame"
  /\ reads' = IF running THEN reads + 1 ELSE reads
  /\ Ends("io")
  /\ UNCHANGED <<running, ctx, done, buffer, failed, timers, snapshot, signals, seen,
                 history, spent>>

(* A slip: a periodic frame is sent once and its timer not armed again.    *)
WaitAgain_NoPeriodic(t) ==
  /\ At("io", "rearm")
  /\ IF t \in PeriodicId
     THEN work["io"].for = "periodic" /\ work["io"].id = t
     ELSE work["io"].for = t
  /\ wait' = [wait EXCEPT ![t] = @ \/ (running /\ t \notin PeriodicId)]
  /\ Ends("io")
  /\ UNCHANGED <<running, ctx, socket, due, entry, ghosts, snapshot, signals, seen,
                 history, spent>>

WaitAgain(t) ==
  /\ At("io", "rearm")
  /\ IF t \in PeriodicId
     THEN work["io"].for = "periodic" /\ work["io"].id = t
     ELSE work["io"].for = t
  /\ wait' = [wait EXCEPT ![t] = @ \/ running \/ t \in PeriodicId]
  /\ Ends("io")
  /\ UNCHANGED <<running, ctx, socket, due, entry, ghosts, snapshot, signals, seen,
                 history, spent>>

(* The timer it would arm is gone. *)
GhostEnds ==
  /\ At("io", "rearm") /\ work["io"].for = "ghost"
  /\ odd' = odd \cup {"wild"}
  /\ Ends("io")
  /\ UNCHANGED <<running, ctx, socket, timers, snapshot, signals, seen, heard, shown,
                 logged, tally, late, dirty, spent>>

-----------------------------------------------------------------------------
AppGoesOn ==
  \/ Deactivate \/ Free \/ Halt \/ Join
  \/ Scan("app") \/ Record("app") \/ Store1("app") \/ Store2("app")

IoGoesOn ==
  \/ OnFrame \/ OnBusloadTick \/ OnHighlightTick
  \/ \E p \in PeriodicId : OnPeriodic(p) \/ OnGhost(p)
  \/ WritePeriodic
  \/ Scan("io") \/ Record("io") \/ Store1("io") \/ Store2("io")
  \/ ReadAgain \/ GhostEnds \/ \E t \in Timer : WaitAgain(t)
  \/ Leave

Next ==
  \/ Start \/ Stop \/ StopAllPeriodicTx
  \/ \E p \in PeriodicId : StartPeriodicTx(p) \/ StopPeriodicTx(p)
  \/ \E i \in SentId : SendFrame(i)
  \/ \E K \in Filters : SetDisplayFilter(K)
  \/ ClearDisplayFilter
  \/ LoadSignals
  \/ \E s \in Signal : AddGraphSignal(s) \/ RemoveGraphSignal(s)
  \/ Poll
  \/ \E i \in BusId \cup {NoId} : Arrive(i)
  \/ ReadFails
  \/ \E t \in Timer : Expire(t)
  \/ AppGoesOn \/ IoGoesOn

Spec == Init /\ [][Next]_vars

-----------------------------------------------------------------------------
Task ==
  [at : {"idle", "deactivate", "free", "halt", "join", "write", "scan",
         "record", "store1", "store2", "rearm"},
   for : {"none", "stop", "stop_all", "send", "frame", "busload",
          "highlight", "periodic", "ghost"},
   id : Id \cup {NoId}, row : Nat, tmp : Nat]

TypeOK ==
  /\ running \in BOOLEAN /\ ctx \in {"off", "run", "stopped"}
  /\ reads \in Nat /\ done \in Nat /\ buffer \in BusId \cup {NoId}
  /\ failed \in BOOLEAN
  /\ wait \in [Timer -> BOOLEAN] /\ due \in [Timer -> Nat]
  /\ entry \in [PeriodicId -> {"none", "on", "off"}]
  /\ ghosts \in [PeriodicId -> Nat]
  /\ work \in [{"app", "io"} -> Task]
  /\ rows \in Seq([id : Id, count : Nat]) /\ lit \subseteq Nat
  /\ log \in [cells : [1..MaxFrames -> Id \cup {NoId}], head : 0..MaxFrames - 1,
              count : Nat]
  /\ "clash" \notin odd => Len(rows) <= MaxMessages /\ log.count <= MaxFrames
  /\ passing \in SUBSET Id /\ loaded \in BOOLEAN
  /\ graphs \in Seq([signal : Signal, points : 0..MaxPoints])
  /\ Len(graphs) <= MaxGraphs /\ fed \in [Signal -> Nat]
  /\ sequence \in Nat /\ seen \in Nat
  /\ totals \in [rx : Nat, tx : Nat, errors : Nat, load : Nat, reported : Nat]
  /\ heard \in Seq(BusId \cup {NoId}) /\ shown \in Seq(BusId \cup {NoId})
  /\ logged \in Seq(Id)
  /\ tally \in [Id -> Nat] /\ late \in [PeriodicId -> Nat] /\ dirty \in BOOLEAN
  /\ odd \subseteq {"clash", "leftover", "wild"}
  /\ spent \in [Things -> Nat]

Doing(what, i) == work["io"].for = what /\ work["io"].id = i

(* While the engine runs, none of its loops dies, and there is one chain   *)
(* of reads: a restart neither stops a loop nor starts a second one.  But  *)
(* a failed read ends the chain, and a read that had completed when the    *)
(* engine was stopped makes a second one.                                  *)
LoopsGoOn ==
  running =>
    /\ \A t \in {"busload", "highlight"} :
         wait[t] \/ due[t] > 0 \/ work["io"].for = t
    /\ \A p \in PeriodicId :
         entry[p] = "on" => wait[p] \/ due[p] > 0 \/ Doing("periodic", p)
    /\ "leftover" \notin odd =>
         reads + done + (IF work["io"].for = "frame" THEN 1 ELSE 0)
           = IF failed THEN 0 ELSE 1

(* Every frame read from the socket is handled once, and in order: the one *)
(* buffer that all reads share is not written again before it is handled.  *)
FramesOnce ==
  "leftover" \notin odd =>
    IF done = 0 THEN shown = heard
    ELSE /\ done = 1 /\ Len(heard) = Len(shown) + 1
         /\ shown = SubSeq(heard, 1, Len(shown))
         /\ buffer = heard[Len(heard)]

(* At most one frame leaves after stop_periodic_tx() or                    *)
(* stop_all_periodic_tx() has returned: the one whose handler had already  *)
(* seen the entry active.                                                  *)
LastFrame == "wild" \notin odd => \A p \in PeriodicId : late[p] <= 1

NoWriter == \A w \in {"app", "io"} : ~Writing(w)

(* One row per ID under which frames are recorded, which counts them all,  *)
(* as long as there are rows left for a new ID.  (A frame received is      *)
(* recorded under its ID without flags, one sent under the can_id given.)  *)
(* Unless two threads wrote at once: then a row may be there twice; or the *)
(* ID was read from freed memory.                                          *)
RowsAddUp ==
  (NoWriter /\ odd \cap {"clash", "wild"} = {}) =>
    /\ \A r, q \in DOMAIN rows : rows[r].id = rows[q].id => r = q
    /\ \A r \in DOMAIN rows : rows[r].count = tally[rows[r].id]
    /\ \A i \in Id :
         tally[i] > 0 => Len(rows) = MaxMessages \/ \E r \in DOMAIN rows : rows[r].id = i

(* The append log, read from its oldest cell on, holds the last frames     *)
(* received and sent, in order.  Unless two threads wrote at once: then    *)
(* both may have filled one cell.                                          *)
LogIsTail ==
  LET kept == Len(logged) - log.count
      cell(n) == log.cells[((log.head + MaxFrames - log.count + n - 1) % MaxFrames) + 1]
  IN  "clash" \notin odd =>
        /\ log.count = IF Len(logged) < MaxFrames THEN Len(logged) ELSE MaxFrames
        /\ \A n \in 1..log.count : cell(n) = logged[kept + n]

(* A signal has at most one graph, which holds as many of its values, up   *)
(* to the ring's size, as came since it was added: adding and removing     *)
(* other graphs disturbs none.  Unless it happens while a frame is decoded.*)
GraphsFollow ==
  "clash" \notin odd =>
    /\ \A g, h \in DOMAIN graphs : graphs[g].signal = graphs[h].signal => g = h
    /\ \A g \in DOMAIN graphs :
         LET n == fed[graphs[g].signal] IN
           graphs[g].points = IF n < MaxPoints THEN n ELSE MaxPoints

(* Once nobody writes, sequence is even, and it differs from the one the   *)
(* poller knows if a frame was recorded since it read the rows: no frame   *)
(* is hidden from it.  (A highlight that goes out is: no number is stored  *)
(* for it.)  Unless two threads wrote at once: the second may store the    *)
(* number the poller has just read.                                        *)
ChangesShow ==
  (NoWriter /\ "clash" \notin odd) =>
    sequence % 2 = 0 /\ (dirty => sequence # seen)

(* Every frame received is counted in exactly one second's bus load. *)
SecondsAddUp == totals.reported + totals.load = totals.rx + totals.errors

(* The snapshot, written in place by two threads, is what the frames since *)
(* start() make of it: its rows, its append log, its graphs, its totals.   *)
SnapshotAddsUp == RowsAddUp /\ LogIsTail /\ GraphsFollow /\ SecondsAddUp
=============================================================================
