# can_dart in TLA+

`can_dart` is a set of Dart packages for CAN buses on Linux with two native
libraries: a J1939 / NMEA 2000 / RV-C protocol stack in C++
(`packages/j1939/src/`) and a signal engine in C++ (`packages/can_engine/src/`).
This directory holds TLA+ models of the parts in which order, concurrency,
time-outs or bit widths matter, the TLC runs that check them on small
instances, and proofs, checked by TLAPS, of what holds for instances of any
size. Paths below are relative to `src/packages/` unless they begin with `src/`.

## 1. The system

```
 application isolate (Dart)
   Nmea2000Ecu ── BusRegistry          RvcEcu ── RvcBusRegistry      CanEngine (FFI)   can_socket
        │  group functions, heartbeat, auto-responder │                   │              isolates
        └───────────────┬──────────────────────────────┘                 │
                    J1939Ecu (FFI, pending sends, event port)       can_engine I/O thread
   ─────────────────────┼─────────────────────────────────────────────────┼───────────────
                    Ecu (C++): receive thread, ASIO thread, callers
        AddressClaimer · transport::{Receiver,RtsCtsSession,BamSender} · fast_packet::{Sender,Receiver}
                    can::Socket (CAN_RAW) ─────────── bus ─────────── other ECUs
```

### 1.1 Components

| component | state it keeps | operations | module |
|---|---|---|---|
| Address claiming: `j1939/src/j1939/Network.{hpp,cpp}`, and `create`, `~Ecu`, `rx_loop`, `send_request` of `Ecu.cpp` | preferred and current address, claimed flag, elapsed window, NAME heard per address, own address, what the claim callback was told | create, destroy, tick, claim heard, request heard, request sent | `AddressClaim` |
| Transport protocol: `Transport.{hpp,cpp}` and the TP part of `Ecu.cpp` | receive session per source address, send session per destination, packet numbers, a timer per transfer | start RTS/CTS or BAM, failed write, each kind of TP.CM and TP.DT frame, response timer | `Transport`, over `TransferService` |
| Sending and threads of an `Ecu`: `Ecu.cpp` | the map `tx_sessions_`, one mutex, a timer and a `fired` flag per send, BAM coroutines on a strand | `send`, `send_async`, `send_dm1_response`, timer handler, frames routed to sessions, `~Ecu` | `EcuSend` |
| NMEA 2000 Fast Packet: `FastPacket.{hpp,cpp}` | sequence counter of the sender; receiver's sessions by source and PGN, each with its age | send, failed send, plain send of a short payload, frame received by kind, expiry, eviction | `FastPacket` |
| Group functions: `nmea2000/lib/src/nmea2000_ecu.dart`, `group_function*.dart`, the asynchronous send of `j1939/lib/j1939.dart` | `_pendingGf`, `_pendingSends`, the event port, the disposed flag | `command`, `readFields`, `writeFields`, send result, reply, timeout, dispose | `GroupFunction` |
| Message codec: `can_codec/lib/src/` | none between calls | `encode`, `decode` | `Codec` |
| Message tables: `nmea2000/lib/src/{nmea2000_registry.dart,pgns/}`, `rvc/lib/src/{rvc_registry.dart,dgns/}` | constant | lookup by PGN | `Messages` |
| J1939 Dart binding and FFI: `j1939/lib/j1939.dart`, `j1939/ffi/j1939_ffi.cpp` | pool of receive buffers (one for all ECUs), event port, `_pendingSends`, phase of `create()` and `dispose()` | create, handlers set, frame / DM1 / claim posted, asynchronous send, event handled, finalizer, dispose | `EcuBinding`; the asynchronous send also in `GroupFunction` |
| DM1 diagnostics | list of trouble codes | answer a request for DM1 | its session, in `EcuSend` |
| PGN to transport table (`PgnTransport.cpp`) | constant | which transport a PGN uses | the entries of PGN 126208 in `GroupFunction` and of the mandatory PGNs in `Discovery` |
| SocketCAN socket (`can/Socket.cpp`) | descriptor, kernel queue | send, poll and receive | a queue in each model |
| `Nmea2000Ecu`: heartbeat and auto-responder | heartbeat timer, product data, PGN list | create, heartbeat tick, ISO request, dispose | `Discovery` |
| `nmea2000_bus`: `bus_registry.dart` | device map, last-heard times, status, pending requests | frame heard, timeout check, product and list request | `Discovery` |
| `rvc_bus` registry | the same, without requests | frame heard, timeout check | not yet |
| `can_engine/src/engine.cpp`, `snapshot.h` | snapshot with its sequence number, append log, signal graphs, periodic frames, read buffer, two timers | start, stop, load, send, start/stop periodic, add/remove graph, display filter, the handlers of the I/O thread | `CanEngine` |
| `can_engine`: kernel filters, filter chains, signal extraction, ISO-TP socket | filter lists, filter chain per signal | set filters, subscribe | not yet |
| `can_dbc` | none | tokenize, parse, compile signals | not yet |
| `can_socket` | descriptors, a reading isolate per stream | open, listen, cancel, BCM and ISO-TP set-up | not yet |
| `rvc` (`RvcEcu`), simulators, command lines, example apps, build hooks | – | – | no state of interest |

### 1.2 How they interact

* **On the bus** every frame reaches every other open socket, in one order. A
  socket's queue is finite; what does not fit is lost. All models share this
  picture and differ in which frames travel.
* **In an `Ecu`** three kinds of threads meet. Application threads call `send`
  and `send_async`. The receive thread alternates `tick` of the claimer and one
  `poll` of the socket. The ASIO thread runs response timers and BAM
  coroutines. They share `Ecu::Impl::mutex_`, under which the receive thread
  handles most frames.
* **Between C++ and Dart** the native threads post messages to a port; the
  isolate takes them one at a time, between its own calls. The bytes of a frame
  are not copied: the message carries a buffer of the pool, which comes back
  when the collector finds that nobody holds the `Uint8List` any more.
* **Across packages** `Nmea2000Ecu` looks a PGN's definition up in the registry
  (`Messages`), encodes with `can_codec` (`Codec`), and hands the payload to
  `J1939Ecu`; the C++ side decides by PGN and length whether it becomes one
  frame, Fast Packet (`FastPacket`), or TP (`Transport`). `BusRegistry` listens
  to the frames of an `Nmea2000Ecu` and sends its requests through it; the other
  devices answer by their auto-responders (`Discovery`).
* **In the engine** the isolate calls the C API and reads the snapshot through a
  pointer, while one I/O thread runs the handlers that write it. Both write its
  rows and its sequence number, and no lock stands between them.

### 1.3 What is hard, and what makes each part correct

* *Address claiming* — claims cross on the bus; the timer is advanced before
  the queue is read; peers come late or restart. Correct: no two settled ECUs
  share an address; an ECU stays off addresses held by a NAME with priority; it
  gives up last; callback, own address and claimer agree; every ECU settles.
* *Transport* — one receive session per source, no session timers, 8-bit
  packet numbers, loss, early time-outs. Correct: what is delivered is one
  sender's message, whole; a reported success is a delivery; nobody waits for
  an answer that nobody owes.
* *Sending* — timer against answer against failed start against destructor,
  across three threads. Correct: each caller is told exactly once; no session
  outlives its send; nothing waits for the mutex it holds.
* *Fast Packet* — 3-bit counter, sessions keyed by source and PGN, expiry only
  on demand, a cap of 256, plain frames of the same PGN. Correct: only whole
  messages, or one of two mixtures that nothing in the frames gives away; a loss
  costs only the message it hits; the cap holds.
* *Binding* — the receive thread, the ASIO thread, the isolate and the collector
  share buffers and ports, and an ECU may be created or disposed at any moment.
  Correct: a buffer has one holder or is free; bytes that the application can
  reach do not change; the stream of events is what the ECU heard; a send's
  future is told once, and in the end.
* *Group functions* — replies carry no mark of their request. Correct: a call
  gets its own reply; the map forgets what is over; every call ends.
* *Codec* — sentinels, signs, widths, fields that share bytes or are cut off.
  Correct: what is encoded is decoded; what is decoded can be passed on.
* *Discovery* — two timeouts against frames under way, requests made once,
  addresses that change hands. Correct: events and registry agree; who talks is
  online, who left is noticed; a device becomes known; what is known of it is
  not older than it.
* *Engine* — two threads write the snapshot, the poller reads it meanwhile, a
  restart meets what is left of the run before. Correct: no loop dies; each
  frame is handled once and counted once, in the row of the ID it is recorded
  under; no recorded frame escapes the poller; nothing
  is sent after it was stopped but the frame already on its way.

`PROJECT.json` lists the hazards line by line, with the properties that watch
them, or why none does yet.

## 2. The modules

Every module of the stack is written for any number of ECUs, transfers, sends,
calls or messages; the `MC…` modules and `.cfg` files choose small ones.
`…Proofs` modules hold the theorems. Operators named `X_Something` just before
an operator `X` are *deviations*: what `X` would be with one slip in the code.
No specification uses them; with one put in the place of `X`, a property of the
run must fail. They show that the property can notice the slip.

### 2.1 `AddressClaim`

State: `current`, `claimed`, `elapsed`, `peers` are the fields of
`AddressClaimer`; `own` and `rxOwn` are the two copies of the address that `Ecu`
sends and filters with; `reports` counts the outcomes the claim callback was
told; `inbox`, `since` and `pc` are the socket queue, the time since the last
tick, and where the receive thread is in its loop.

One pass of `rx_loop` is two steps. `RxTick` advances the claim timer by the
time since the last pass and settles (`TickClaimed`), fails (`TickFailed`) or
does neither (`TickIdle`). `RxPoll` times out or handles one frame: `HearClaim`,
`Defend` (own NAME has priority), `Yield` (search a free address, claim it, or
send Cannot Claim), `HearRequest`. `Create`, `Destroy` and `SendRequest` are
calls of the application. `FindFree` is `find_free_address`, the scan from the
preferred address up and then from 0.

Time is discrete, in units of which `Milli` make a millisecond. A pass counts
the whole milliseconds since the last one and drops the rest (`Aged`), as
`Ecu.cpp:179-183` truncates the difference and then moves `last_tick` to now.
So the window can last longer than it says: on a bus with a frame at least every
millisecond each pass counts 0, and an ECU there never settles.
`EventuallySettles` speaks of an ECU whose receive thread again and again takes a
millisecond or more for a pass (`Rested`); a bus that is quiet for the 10 ms of
a receive time-out gives it that. Without this condition TLC finds the ECU that
is never told. `Elapse` is enabled while no receive thread lags by more than
`MaxLag`, counted both since its last tick and for each frame it has not read.
`UniqueAddresses` rests on it, because `tick` runs before the queue is read
(`Ecu.cpp:179`). For two ECUs the condition is `KeepsUp`, proved sufficient in
`AddressClaimProofs`: twice the lag, and the lag plus the time between
creations, stay below the window. The run's three ECUs are unique with a lag of
a quarter of the window, and not with a third. No fixed fraction is enough for
every number of ECUs: with four, preferring 0, 1, 1 and 2 and created together
on a bus of three addresses, TLC finds two of them on one address at a lag of a
quarter of the window. The one that is last in a chain of yields claims an
address whose owner it never heard, as requests for claims go unanswered
(`Ecu.cpp:242`), and the owner has settled by then and no longer defends
(`Network.cpp:42`).

### 2.2 `TransferService` and `Transport`

`TransferService` is the abstract promise: a transfer begins, may be handed to
nodes other than its sender, each at most once and whole, and ends in success or
failure, or is refused before anything went out; a unicast success implies
delivery to its destination.

`Transport` has, per node, receive sessions `rx[n][source]` and send sessions
`tx[n][destination]`, and per transfer `seq` and `status`. `StartRts`/`StartBam`,
`StepBam`/`EndBam` and `Timeout` are the sender; `RxFrame` handles the frame at
the head of a queue by kind (`HearRts`, `HearBam`, `HearCts`, `HearEom`,
`HearAbort`, and four cases of TP.DT). A write that fails is in `StartFails`
(the header does not get out: the caller is refused at once and nothing is left
behind) and `BamFails` (a packet does not: the broadcast breaks off, which counts
as one of the `MaxLosses`, as its receivers miss what follows). A reply, or a packet
of a unicast transfer, that cannot be written is a lost frame to the one other ECU
(`Lose`); the code does not look at the result. The payload is the sequence of its
packets, each tagged with transfer and index, so that a mixture is visible.
Packet numbers count modulo `SeqMod`, 256 in the code.

`ImplementsService` maps `status` to the `progress` of the service by
`INSTANCE TransferService WITH …`. The unicast side is the blocking `send()`,
which is why a status, once ended, ignores later answers.

### 2.3 `EcuSend`

The frames are those of `Transport` and are not repeated. A *job* is one send:
`wait` is `send()`, `async` is `send_async()` to one peer, `bam` is its broadcast
form, `dm1` is `send_dm1_response()` on the receive thread. A step is what a
thread does between two points where it can be held up: `OpenAsync` registers a
session after the RTS is out, `Expires`/`TimerHandler`/`TimerErases` are the
timer's expiry, the handler's wait for the mutex, and its body. `wedged` records
that the receive thread locks the mutex that it holds. `Destroy`, `JoinAsio`,
`JoinRx` are `~Ecu`.

### 2.4 `FastPacket`

Several senders and the one receiver that hears them. A message is named by how
many sends of its ECU succeeded and failed before it; its counter is the former
modulo `SeqMod` (8 in the code, for all PGNs together). `order` is the sessions
by age and `stale` how many of the oldest are past 750 ms, so that expiry
(`Unexpired`) and eviction (`Roomy`) happen where `on_frame` runs them, when a
frame is handled and not before.

`Ecu::send` sends payloads of up to 8 bytes as plain frames before it looks at the
transport (`Ecu.cpp:418`), and receivers take them for Fast Packet frames.
`SendPlain` is one, of 8 bytes, with what its data is taken to say (`Readings`). Two
kinds of mixture can come out whole, and the ghosts name them: `reused` are the
messages begun while frames of their source, PGN and counter were still queued or
held in a session (the counter came round, or stayed after a failed send), `crossed`
those with a plain frame between their frames. `mishaps` counts failing writes,
plain frames and losses together.

### 2.5 `GroupFunction`

One `Nmea2000Ecu` with the isolate's event port under it, and the ECUs it asks.
`Start…` is the call up to the native send, `NativeReturns` its return,
`OnSent`/`OnReply` the isolate's events, `Expires` the 2 s timeout, `Dispose`
both `dispose()`s. `pending` is `_pendingGf`: keyed by PGN, function code and
source, not by request. `ReplyTravels` is where the length of a reply meets the
choice of transport at `Ecu.cpp:418`.

### 2.6 `Codec` and `Messages`

A payload is the set of its bits that are 1; an integer is the set of its bits
in 64-bit two's complement, in steps of the field's resolution. So widths, masks,
sign extension, sentinels and reads past the end are those of the code, without
arithmetic on large numbers. `Encode`, `EncodeThrows`, `DecodeShort` and `Decode`
alternate; `trips` bounds how often. `Messages` is the two registries, message
by message, as records of name, bit offset, length and type.

### 2.7 `Discovery`

One node with a `BusRegistry` (`Watcher`) and the devices of its bus, each an
`Nmea2000Ecu` at an address. A device is a number, another one after each plug,
and that number is all its product data says: so a registry that shows what an
earlier device said is caught. `port[n]` are the frames posted to the isolate
of `n`; only what somebody listens for is kept. `device` is `_devices`,
`asking` is `_pendingProductInfoRequests`, `view` is what a listener makes of
the events it is sent.

`Create`, `Unplug` and `Heartbeat` are a device's life, `HandleIsoRequest` its
auto-responder, which answers requests whoever they were sent to.
`HearKnown`/`HearNew` are `_onFrame`; the latter sends the product request, and
`AskForList` is the delayed one. `CheckTimeouts` is the timer's. `Arrives` is
where a short payload of a Fast Packet PGN gets lost: the heartbeat, whose
first bytes 0x60 0xEA read as the header of a message of 234 bytes.

`Tick` moves time by one unit (30 s at the periods of the code) once all that
is due in this unit was done (`AllDone`); `silence` counts units begun, so an
elapsed time may be one less than it says, and `CheckTimeouts` may or may not
see a timeout as passed that lies within that unit. `AskForList` and requests
of the application come when no frame is under way: the 250 ms between the two
requests are taken to be longer than the bus and the isolates need. The last
device at an address stays plugged, so that time can be bounded by what is
worth counting.

### 2.8 `CanEngine`

The isolate that calls the C API (`work["app"]`) and the I/O thread
(`work["io"]`) interleave; a step is what one of them does between two accesses
that the other can come between, so `publish_snapshot()` is two steps (`Store1`,
`Store2`), each with its own load, and `update_message_row()` is a search
(`Scan`) and a write (`Record`). `Waits` is `io_context::run()` between two
handlers: a read completes (`Arrive`) into the one `buffer`, a timer expires
(`Expire`), and the handler runs later (`OnFrame`, `OnPeriodic`, the two ticks).
`Stop` is in its steps: `Deactivate` and `Free` are `stop_all_periodic_tx()`,
then `Halt` and `Join`. `Poll` is the poller of `throttle_ui`.

The isolate changes the display filter, the graphs and the signal tables without
a lock as well; only frames that the filter passes enter the log, all are counted
in the rows.

A frame is its `can_id`, flags included. `process_frame()` masks the flags of a
received one (`Bare`, `engine.cpp:382-387`); `send_frame()` and the periodic frames
are recorded under the ID as it was given (`:170-171`, `:241`). So an extended ID
sent with its flag and received has two rows, and a standard and an extended ID of
one value share one; the run has both cases. `lit` is the rows' highlights, which
the tick clears without publishing.

The limits of rows and log are checked and then counted up, which is not one step
for two threads (`engine.cpp:474-475`, `:523-524`): once both have written at once,
a check may see room where there is none (`Sees`), and rows and log pass the ends of
their arrays. `odd` has the clash by then, and no property speaks of the tables any
more, nor `TypeOK` of how long they are.

Three things void promises, and `odd` remembers that they happened: `clash`,
both threads were writing at once, or the isolate changed what the I/O thread
was reading; `leftover`, a read had completed when the
engine was stopped and its handler runs after the restart; `wild`, a handler
used a periodic entry that had been freed, which is undefined behaviour
(`OnGhost`: it sends or it does not, and records any ID). The properties say
which of these they exclude. All else may interleave as it likes.

### 2.9 `EcuBinding`

Several `J1939Ecu` objects of one isolate, the native `Ecu` behind each, and
`g_pool`, which they share. `phase[e]` is how far `create()` or `dispose()` came:
the threads run (`Create`) before the two handlers are set (`OnMessage`,
`OnClaimResult`), and `dispose()` is `Dispose`, `JoinAsio` and `Disposed`, the
receive thread going on in between. `rx[e]` is what that thread has at hand, from
`Receive` to the last post: `PostDm1` once per fault, or `AcquireFromPool` /
`AcquireFromHeap` and then `PostFrame`. `queue[e]` is the port. `views` are the
lists that the application can reach, `garbage` those it cannot; `Finalize` is
`BufPool::release`. Of a payload only the identity is kept: `content[b]` is the
message that was last copied into buffer `b`.

A send with more than 8 bytes completes before `send_async()` returns
(`SendInline`) or later (`SendLater`, then `BroadcastEnds`, `EndlessFails` or
`UnicastTimesOut`). A broadcast of 255 packets, 1779 to 1785 bytes, is of a kind of
its own, `endless`: only a failed write ends it (`Transport.cpp:114`), nothing makes
that happen, and `EverySendCompletes` promises its future only once `dispose()` is
called. The answer of a peer does not complete it: its callback locks
the mutex that the receive thread holds (`UnicastAnswered`, the finding of
`send_locked`), and the thread is `stuck`. The model keeps that, and
`EverySendCompletes` excuses it.

Of the Dart VM two things are taken as given: a port that is closed destroys its
messages and so runs the finalizers of their buffers, and a list that nobody can
reach is finalized at most once, some time or never.

## 3. What TLC checks

| run | instance | shows |
|---|---|---|
| `claim_start` | 3 ECUs, 2 addresses, 2 of them preferring the same, window of 4 units, lag 1, created together | `UniqueAddresses`, `NoUsurping`, `GivesUpOnlyWhenFull` |
| `claim_restart` | 2 ECUs, 1 address, window of 3 units, 2 of which are a millisecond, lag 2, one created up to 2 units late, one destroyed and re-created, one application request | `ReportMatchesState`, `EventuallySettles` |
| `tp_mixed` | 2 ECUs, messages of 2, 3 and 2 packets both ways, one broadcast, any header refused, one frame lost anywhere or one broadcast broken off | `StopAndWait`, `ImplementsService`, `EveryTransferEnds` |
| `tp_faults` | 2 ECUs, packet numbers 0..3, timers that beat answers, one foreign Abort, a broadcast of 3 packets | `TypeOK`, `DeliveredIntact` |
| `send_race` | 4 sends of all kinds, 3 of them to one peer, that answers, aborts or keeps silent | `ToldOnce`, `NoOrphans`, `EverySendEnds`, `DestructorReturns` |
| `fast_packet` | 2 ECUs, 2 PGNs, 3 messages of 2 or 3 frames of one ECU, counter modulo 2, cap 2, 2 mishaps: losses, failed writes, plain frames of either ECU | `TypeOK`, `DeliveredIntact`, `LossIsLocal` |
| `group_calls` | reads of 3 and 1 fields from one ECU, a command to another, one frame lost | `RightAnswer`, `NoStalePending`, `FieldsReplyArrives`, `EveryCallEnds` |
| `codec` | all 39 messages, each field at its edge values alone and among others, foreign payloads of 3 lengths, 2 trips | `RoundTrip`, `NumbersSurvive` |
| `discovery` | a registry, a talking node that another replaces, a node that only answers, offline after 2 units and removed after 3, 1 lost message, 1 request for something nobody has | `ListenerFollows`, `NoFalseAlarm`, `AbsenceNoticed`, `DeviceIsKnown`, `NothingOlder` |
| `engine` | a standard and an extended ID of one value on the bus, the latter also sent, with its flag, one more ID sent singly and periodically; tables of 2 rows, 2 log entries, 2 graphs of 1 point; 2 starts, 3 events | `TypeOK`, `LoopsGoOn`, `FramesOnce`, `LastFrame`, `SnapshotAddsUp`, `ChangesShow` |
| `binding` | 2 ECUs, a pool of 1 buffer and 2 more on the heap, 2 events (messages, claim reports, sends of each kind, the endless one among them) at one ECU and 1 at the other, DM1 messages of up to 2 faults | `BuffersOwned`, `ViewsIntact`, `StreamFollowsBus`, `SendsAccounted`, `EverySendCompletes` |
| `send_locked` | the smallest instance that shows it | violated, see section 5 |

**Bounds.** Two addresses and three claimants are the least for which a yield
leads to a contest with a third, a wrap-around of `FindFree`, and a failure.
Window 4 with lag 1 is the least that keeps more than three lags in a window. In
`claim_restart` a millisecond of two units is the least that has a rest to drop.
Two and three packets exercise first, middle and last frame; a fourth repeats
the middle. `SeqMod` 4 puts the wrap of the packet number within reach of a
three-packet broadcast, which is the code's 255-packet case less one; 5 keeps
it out of the way elsewhere. In `send_race` three sends to one peer are the
least in which a session is lost to a second and found again by a third.
In `FastPacket` the third message of an ECU has the counter of its first, whose
frames may still wait or be held in a session if one was lost: the counter comes
round. Cap 2 is exceeded by sessions of three keys, and two mishaps lose the end of
one message and the beginning of the next. In `discovery` two devices in turn at one address
are the least in which one inherits from another, and the timeouts 2 and 3 are
the least that keep heartbeat, offline and removal apart. In `engine` three
events are a frame, a timer and a call of the application, the least for a race
of two writers with a third change behind it; three frames overrun the log,
three IDs the rows;
two starts are the least with a restart. In `binding` a pool of
one buffer is empty as soon as one frame is held, so that the second goes to the
heap and comes back by the other branch of the finalizer; three events in all
are the least in which a frame of one ECU is held, one of the other is posted and
a send is pending. `MaxLosses`, `MaxAborts`, `MaxStops`,
`MaxRequests`, `MaxMishaps`, `MaxSent`, `QueueCap`, `MaxTrips`, `MaxPlugs` and
`Bound` bound how often the environment acts, nothing else. `FastPacket` uses
symmetry on PGNs, `CanEngine` on signals; neither
checks liveness. No run looks for deadlock: in each, the application may simply
stop calling.

**Conditions.** Some properties name what they depend on. The end-to-end
properties of `tp_mixed` exempt traces with a loss or a broken broadcast, and
transfers whose header was refused; `DeliveredIntact` of `FastPacket` allows a mixture
with a plain frame or with a message in `reused`, `LossIsLocal` one message in
`crossed`; `EventuallySettles` speaks of threads that rest (2.1); `RightAnswer` and
`FieldsReplyArrives` speak of calls that no other call about the same PGN of
the same ECU met (`alone`); `EverySendEnds` and `DestructorReturns` stop at the
self-lock that `send_locked` shows; `EverySendCompletes` also leaves a broadcast of 255 packets open
until `dispose()`; `RoundTrip` speaks of values a field can
say (`Speakable`), which leaves out those that the code reserves and those that its
comment does (section 5), and fields inside the payload and apart from others
(`Placed`), `NumbersSurvive` of fields that a double counts exactly (`Exact`).
`NoFalseAlarm` speaks of nodes whose application sends data, as nobody hears a
heartbeat, and until one of its messages is lost; `DeviceIsKnown` of a device
that no loss hit since it appeared and that was not replaced. The properties of
`CanEngine` exempt what 2.8 says.

**Fairness.** Weak, and per thread, never per outcome. `AddressClaim`: time
passes and each receive thread loops. `Transport`: receive threads, the BAM
loop, which sleeps and goes on, and the timers, which ASIO runs. `EcuSend`: the
four kinds of thread, each of which may choose whichever of its steps is
enabled. `GroupFunction`: native calls return, the isolate drains its port,
timers expire. `EcuBinding`: the native calls of `create()` and `dispose()` return,
the isolate drains its ports, the receive thread goes on with the message at hand,
broadcasts of up to 254 packets end. The timer of a unicast send needs strong fairness: its handler
waits for a mutex that the receive thread takes and releases again and again.
Nobody has to call `dispose()`, and the collector may never run. Applications,
peers and the environment are never obliged to act, so no liveness property leans on an answer.

## 4. What TLAPS proves

Each theorem holds for every value of the constants that meets the named
assumptions of its module, and those are what the code requires of its
configuration (addresses below the null address, distinct NAMEs, at least two
packets in a TP message, and so on).

| module | theorems | further assumption |
|---|---|---|
| `AddressClaimProofs` | `TypeCorrect`, `NeverUsurps`, `GivesUpLast`, `ReportsAgree`, `StrongestStaysPut` | none |
| | `PreferredIsUnique` | `KeepsUp`, no receive buffer overflows |
| | `TwoNeverCollide` | the same, and two nodes |
| `TransportProofs` | `TypeCorrect` | none |
| | `IntactUntilLoss` | `OneAtATime`, fewer packets than `SeqMod` |
| | `Intact` | the same, `MaxLosses = 0` |
| | `Alternates` | `OneAtATime`, fewer packets than `SeqMod`, two nodes, no Aborts, `~EarlyTimeout` |
| | `Implements` | the same, `MaxLosses <= 1` |
| `EcuSendProofs` | `TypeCorrect`, `NeverToldTwice`, `SessionsAreOpen` | `~SlowCaller` |
| `FastPacketProofs` | `Intact`, `LossStaysLocal`, `TypeCorrect` | none |
| `GroupFunctionProofs` | `TypeCorrect`, `PendingIsOpen`, `AnswersAreOwn`, `FieldsAreReceived` | none |
| `EcuBindingProofs` | `TypeCorrect`, `NoBufferLost`, `ListsKeepBytes`, `SendsTold`, `StreamIsTheBus` | none |
| `CanProofs`, of `CanEngine` | `EngineCorrect`, `EngineTypeCorrect`, `LoopsNeverDie`, `FramesHandledOnce`, `OneFrameLate`, `SnapshotRight`, `NoChangeHidden` | none |
| `CanProofs`, of `Codec` | `ValuesReturn`, `NumbersKept` | none |
| `DiscoveryProofs` | `TypeCorrect`, `ListenersFollow`, `NoFalseAlarms`, `AbsenceSeen`, `KnownByData`, `NothingFromBefore` | none |

**Address claiming.** `ClaimInv` adds to the properties that a reported failure
stands (`FailureStands`). `NoUsurping` is inductive only with
`GivesUpOnlyWhenFull` and types; the heart is a lemma on `FindFree`: it returns
an address without recorded owner, or `Null` exactly when there is none.
`TickClaimed` and `TickFailed` need that a settled ECU never ticks again, and
that a failed one has no address to settle on.

Uniqueness is a race against the window. `PreferredIsUnique` is about any number
of ECUs: of those created with one preferred address at most one settles on it.
Its invariant says of two ECUs that both sit on it that the weaker is `Doomed` (a
stronger claim is in its queue and will be read before its window ends) or the
stronger is `Challenged` (a claim is in its queue, and the answer to it will
reach the weaker one in time). It needs that while ECUs may be created nobody
has settled (`EarlyInv`), and that who left the preferred address has a peer
recorded there and so never returns (`LeftInv`, from `FindFree`).
`StrongestStaysPut` says the strongest NAME keeps its preferred address.
`TwoNeverCollide` combines the two into `UniqueAddresses`: with two ECUs all
claims heard by the weaker are of the stronger one's preferred address. With
more, see 2.1: an ECU may be pushed onto an address it never heard claimed.

**Transport.** `Intact` is the longest. A queue is a stream of frames in which a
data frame means something only through the header before it. `IntactInv`
says: frames are genuine; one transfer per node is open; the sender's session
is its open transfer; and (`StreamsInStep`) what a receiver has collected from a
source, followed by the frames of that source still in its queue, is a prefix of
some message each time a header starts one. `Prefixes` turns a complete session
into `Service!Message`. Time-outs and Aborts may come at any time: a new header
replaces the session. `IntactUntilLoss` says so of any bus, up to the first frame it
loses or broadcast that breaks off. With two losses, or two transfers open at once, the
statement is false; TLC shows both on instances of that kind.

`Alternates` and `Implements` extend that invariant, on a bus of two ECUs, to
`QuietInv`. Its heart is `DialogueInv`: an open transfer between the two has
exactly one frame in the queues, and that frame, with the receiver's session,
says how far it is (`Stage`): an RTS with nothing of its sender behind it, a CTS or a
DT with the number the session waits for, or an EOM after the message was handed
over. Each frame handled is answered by the next one of its dialogue
(`HearUnicast`), broadcasts are heard and not answered (`HearBroadcast`), and the
dialogue the other way is not disturbed (`HearOthers`, `SendOthers`). `OnceInv` says
that a node hears of a transfer by its header, its session or its delivery, one
after the other and never twice. Then `StopAndWait` is the size of a singleton, and
each step is a `Begin`, `Deliver`, `Succeed` or `Fail` of the service or leaves it
alone.

A header that is refused changes nothing but its own status (`RefusalKeeps`). The first
loss ends one dialogue, or one broadcast (`BreakKeeps`): its transfer is `Stalled`, registered with no frame
under way, until its timer fires, and no other timer does (`TimerFires`). What
must not happen is that a lost header leaves behind a session of its source that
takes the data frames of the next message. `TrackInv` rules it out: until the loss,
the packets that a session of a broadcast waits for are queued in their order, and no
header of that source before them (`SessionFed`), so a session is complete when the
next header comes to the head of the queue; and a unicast session is there only while
its sender waits (`HeldOpen`). So a header at the head finds no session
(`HeaderFindsNone`), and losing it, or any other frame, keeps `QuietInv`
(`LoseQuiet`). `BusInv` puts the two together: `QuietInv` up to one loss, `TrackInv`
up to none. A broadcast of as many packets as a packet number counts never ends
(section 5), and is the last of its source. After a second loss a header may indeed
be missed by a session that is short of a packet. A third ECU would overhear a
dialogue and answer too, and with stale answers after a timeout or an Abort there is
more than one frame under way; those cases are TLC's.

**Sending.** `SendInv` ties, per job, the phase, the timer, the `fired` flag and
the number of calls (`JobInv`), and per destination the session to a job that
has not been told (`SessionInv`). It needs that `send_async()` is not held up
between arming its timer and registering its session for as long as the timer
runs: with `SlowCaller` TLC finds a caller told twice (`Ecu.cpp:592`, where a
start that fails after the timer fired does not look at `fired`).

**Fast Packet.** `Intact` holds however often the counter comes round. Of two frames that are about, queued or in a session, and agree in source, PGN and
counter, the later is of the same message, or plain, or of a message in `reused`
(`Told`): that is so because `Begin` puts a message there when frames with its
counter are still about (`CurrentInv`). A session therefore holds the first frames of
one message, or shows the mixture (`SessionInv`).
`LossStaysLocal` needs none of this and holds however often the counter comes
round. `LossInv` says that the frames of one message queue up in their order
and that between two messages of a source the later one's header comes first
(`OrderInv`), so that no other frame of the source disturbs a message that has
begun; and that of every message spared so far some `h` frames were handled,
the rest is still in the queue, and a session holds it with `h` as its next
index, or it was delivered (`ProgressInv`). `TypeCorrect` holds the cap on
sessions: `TableInv` says that `order` has each live key once, so that evicting
its head, when expiry left `Cap` of them, makes room for the next one.

**Group functions.** `AloneInv` says that of the rivals of a call that is alone,
each is either not made yet or has had its only reply, so that no frame under
way has its key; `FrameInv` and `SpentInv` count the single reply of each
request. `PromiseInv` adds what such a call can count on while it is open: its ECU
is not disposed, it stays registered under its key until its reply is taken, and the
fields that were sent to it and not lost stand in the port. Its timer runs out long
after whatever the port holds for it was taken, so it does not find it waiting.

**Codec.** The bit-set representation makes encoding and decoding set
operations, so both theorems are first-order: encoding writes exactly the bits
of its field, reading returns them (`Kept`), a second encoding of what was
decoded writes the same ones (`Held`).

**Binding.** `BuffersOwned` speaks of *places* from which a buffer can be reached
(`Holders`): a receive thread, a position of a port, a list, a list in garbage. It
is proved as `OneHolder` and `Accounted`, and is inductive with types and with
`OffInv`: an ECU that is not created has no receive thread at work. Each action
moves a buffer from one place to the next, and the lemmas say what a queue's end, its head and the top of the free list do to `Holders`.
`ViewsIntact` follows from it with `Intact`: bytes are copied only into a buffer
that nobody holds.

`SendsTold` is about who owes a future its end. `Books` is what the isolate knows
of a send, `Flying` what the native side still has to do for it, `Posted` the
message on its way, and `Owed` that one of the two is there, or that the receive
thread has locked itself out. No two of them speak of one send, so it is told
once. `StreamIsTheBus` follows what a port has passed on and what still waits in
it as one sequence (`Tale`), which a handled event leaves as it is and a post
makes longer by one. `Follows` says that it is in the order of the bus, that what
the receive thread has at hand comes behind all of it, and that together they are
the events of all messages heard; `ClaimTold` that a claim is told when the stack
knows it. Both speak of an ECU until it is disposed, when the port is cut off,
and of the order of what was passed on ever after.

**Engine.** `EngineInv` is proved in layers, each of which needs only those
before it. `WorkInv` says what each thread may be in the middle of, `PhaseInv`
how far `start()` and `stop()` are. `LoopInv` counts a chain of reads as one
thing, wherever it is (outstanding, completed, or in the handler), and asks of
each timer that it runs, has expired or is being handled: no step loses it, and
only a handler's end sets it going again. `FrameInv` rests on that: with one chain
the buffer is empty when the next read ends. `LateInv` counts the frame that has
been found active and is not out yet. `SequenceInv` says that without a clash one
thread writes at a time, with the number it has read, odd between its stores.
Then the rows: `RowInv` says that they and the frames a thread is just counting
(`Uncounted`) make the tally of each ID as it is recorded, and that a thread which found no row is right,
which is what fails when two threads search at once; `FoundInv`, that a row found
stays where it was. `LogInv` places the n-th frame of the filter in the cell of n
modulo `MaxFrames`; the lemmas on remainders are proved, not assumed. `GraphInv`
and the totals need nothing of the rest. The exemptions of 2.8 stand in each
part (`"clash" \notin odd`, …) and are those of the properties, no more.

`CanProofs` extends `CanEngine` and `Codec`, of which each is a
specification of its own; the names of the codec's begin with `Codec`.

**Discovery.** Each property follows from an invariant about frames under way.
`Arriving` orders what waits in the registry's port: of an address, the devices
come one after the other, none of them from before the address became known, and
nothing of a device that left before the current unit; `EntryInv` (what is known
of a device is its own, and who is being asked was heard in this unit) and
`AwayInv` (a known device has been silent for as long as it has been away) rest on
it. `TalkInv` balances the registry's count of silence against the heartbeat timer
of the node: their sum stays within the period, or data is waiting to be heard.
`AnswersInv` follows each request: what is not known of a device is asked for, is
in the device's port, or its answer in the registry's. The timeouts need only be
ordered: `Period < OfflineTimeout < RemoveTimeout`.

**Only model-checked.** All liveness (`EventuallySettles`, `EveryTransferEnds`,
`EverySendEnds`, `DestructorReturns`, `EveryCallEnds`, …) — the prover does not
do fairness. `UniqueAddresses` for the three ECUs of `claim_start`.
Not stated by a theorem and checked by no run is `CodecTypeOK` (that text ends exist
needs induction over a sequence).

## 5. Where code and documentation disagree

Shown by a run, `send_locked`: `Transport.hpp:90` says the callback of a session
fires "with no Ecu mutex held". The receive thread holds it (`Ecu.cpp:226`), and
the callback of `send_async()` locks it again (`Ecu.cpp:585`).

Met while modelling, without a run of its own:

* `Network.hpp:60` says a request for claims "asks everyone to re-announce
  themselves". `Ecu.cpp:242` takes only PDU2 frames as broadcasts, a Request is
  PDU1, so nobody answers one sent to the global address, and an ECU that joins
  late does not learn who is there. Four ECUs are enough for two of them to
  settle on one address because of it (2.1).
* `Ecu.hpp:82` says the strand serialises sends "so only one BAM runs at a
  time". A coroutine leaves the strand in each 50 ms gap (`Ecu.cpp:611`), two
  broadcasts interleave, and receivers, with one session per source, assemble a
  mixture. `Transport` shows it as soon as one ECU broadcasts twice without
  `OneAtATime`.
* A command always times out: its acknowledgement is 6 bytes, is sent as a plain
  frame (`Ecu.cpp:418`), and the receiver takes it for a later frame of a Fast
  Packet message and drops it; `nmea2000_ecu.dart:291` says a timeout means no
  reply. `GroupFunction` has this in `ReplyTravels`.
* A settled ECU ignores claims of its address, where `Network.hpp:32` describes
  yielding and defending (`Network.cpp:42`). Two ECUs that gave up, both at
  address 254, may answer each other's Cannot Claim without end.
* `Network.hpp` gives the claim a window of 250 ms. The receive thread counts whole
  milliseconds per pass and drops the rest (`Ecu.cpp:179-183`): on a bus that is
  never quiet for a millisecond the window does not end (2.1).
* The claim callback reports a failure again on every tick (`Ecu.cpp:196`;
  `Ecu.hpp:99`: "invoked once").
* A bystander assembles, acknowledges and delivers an RTS/CTS transfer meant for
  another (`Transport.cpp:225`, `:242`), and CTS or EndOfMsgAck are matched by
  peer address only (`Ecu.cpp:334`). The runs keep to two ECUs for that reason.
* A broadcast of 255 packets, 1779 to 1785 bytes, never ends: `BamSender` compares a
  `uint8_t` with 255 (`Transport.cpp:77`, `:114`), and goes on with packets 0, 1, …
  until a write fails. `send()` does not return and the future of `send_async()` is
  not told before `dispose()`.
* `Transport.hpp:76-79` says that sender sessions are not stored and that unicast
  sends stall after the RTS: `Ecu.cpp` stores them and routes CTS and EndOfMsgAck to
  them (`:321-355`).
* `~Ecu` does not complete pending sends (`io_context::stop()` runs no handler),
  against `Ecu.hpp:45-46`; `Ecu.hpp:70-71` and `:84` describe `send` as returning
  at once and unicast `send_async` as unsupported.
* `Ecu.cpp:62-65` says that coroutines in flight call their `on_complete` before
  the `io_context` exits: `stop()` ends `run()` without resuming them. It is
  `dispose()` of the binding that tells the futures.
* `j1939_ffi.cpp:310` and `Ecu.cpp:80` say the claim result fires once: a success
  does, unless it comes before `create()` has set the handler, and a failure is
  posted again in each pass of the loop. `j1939_ffi.h` announces an error event
  that nobody posts (`post_error` is not used).
* `j1939.dart:260`: `send()` after `dispose()` is said to throw `StateError`; it
  hands the freed handle to the native side. The model does not call it then.
* The events of a `J1939Ecu` go to a broadcast stream, which keeps nothing for a
  listener that comes late and is not closed by `dispose()` (`j1939.dart:87`).
* `j1939.dart:238` and `j1939_types.dart:60` advise to copy a frame's data beyond
  the current turn of the event loop. `ViewsIntact` says that is not needed: the
  buffer is not used again before the list is collected.
* Messages reassembled from TP or Fast Packet are handed to the application under
  the mutex (`Ecu.cpp:226-231`), single frames are not (`:214-217`).
* Fast Packet: after a failed send the counter is not advanced
  (`FastPacket.cpp:74`), so the next message of the PGN has the counter of the
  broken one, and a session left of it goes on with that message's frames; so it does
  after eight messages whose counter came round, if frames were lost between; TLC
  finds both, and `DeliveredIntact` names them. Payloads of up to 8 bytes are sent
  plain whatever the table says, and are read by the receiver as frames of Fast
  Packet, alone or in the middle of a message; PGNs 129025, 129026, 129033 and 126993 are 8 bytes long
  and declared `fast_packet`, so this stack sends them as plain frames and drops
  them when it receives them.
* Group functions: two calls with one key overwrite each other, and the timeout
  of the first removes the second (`nmea2000_ecu.dart:300`, `:310`); a failed
  send leaves its entry (`:338`); a rejection of three or more fields has the
  code of an acknowledgement and matches no read or write
  (`group_function.dart:206`).
* Codec: signed −1 and −2 are read as not available and out of range although
  `sentinels.dart:12` reserves the most positive values, which are read as numbers;
  `RoundTrip` promises neither; fields of one bit have
  no value left (`mandatory.dart:43`); `pgnAcknowledged` ends past the payload
  (`mandatory.dart:167`); absent texts are read as `''` and absent 64-bit fields
  as −1 step, where `can_codec/README.md:63` says they are omitted; too large
  values are cut.
* The heartbeat is never heard: 8 bytes, sent as a plain frame of a Fast Packet
  PGN (`nmea2000_ecu.dart:197`, `Ecu.cpp:418`); `nmea2000_ecu_vcan_test.dart:178`
  skips its reception test for that reason. `bus_event.dart:46` explains
  `DeviceWentOffline` as "heartbeat timeout": a device that only sends
  heartbeats is taken for offline, removed, or not noticed at all.
* The auto-responder answers requests sent to other nodes
  (`nmea2000_ecu.dart:208`; the comment there: "directed at us or broadcast").
* The registry waits for `FrameReceived` with PGN 0xEE00
  (`bus_registry.dart:114`), but the native layer keeps claims of others to
  itself (`Ecu.cpp:232`): `name` is never set and `ClaimConflict` never emitted.
  Were it to come, the first claim of a device seen before would be reported as a
  conflict (`:162`: the raw value of a default name is not 0).
* A lost product or list request is not repeated, not even when the device comes
  back (`bus_registry.dart:132`), and a device that takes over an address before
  the timeout removes it is shown with its predecessor's product data (`:86`).
* `create()` that times out leaves the native ECU on the bus
  (`nmea2000_ecu.dart:134`); the delayed list request looks at the registry's
  disposed flag only, not at the ECU's (`bus_registry.dart:143`).
* Engine, where two threads write: `send_frame()` on the isolate's thread and a
  handler may both make the row of one CAN ID, lose a count, write one log cell
  twice, or store the sequence number the poller has just read
  (`engine.cpp:170`). `snapshot_.stats` alone is written between the odd and the
  even number; rows are written before it (`:528`), so that a poller which checks
  the number before and after may have read half a row.
* Engine, at a stop: `stop_all_periodic_tx()` frees entries that a queued or
  running handler refers to (`:230`); a completed read that is still queued
  starts a second chain of reads after a restart (`:89`, `:375`); the descriptor
  is closed by the stream and again by `close` (`:88-91`).
* Engine, IDs: received ones lose their flags (`engine.cpp:382-387`), sent ones keep
  them (`:170-171`, `:241`). An extended frame that is sent with its flag and received
  has two rows, and a standard and an extended ID of one value share a row.
* Engine, limits: `message_count` and `frame_count` are compared and counted up by
  two threads without a lock (`:474-475`, `:523-524`): rows and log can pass the
  sizes of `snapshot.h`.
* Engine, smaller: a read error ends the chain of reads while `running` stays 1
  (`:360`); highlight decay, error frames and `stop` do not publish; `start`
  before `loadSignals` leaves `signal_count` at 0 (`:51`); a restart sets the
  sequence back to 0, so that a poller that keeps its last number may miss a
  change.

## 6. What the models leave out

*Data*: payload contents beyond their identity, the J1939 identifier's layout,
NAME fields (only their order matters), trouble codes, physical values and
rounding; Fast Packet frames of less than 8 bytes and headers that announce no
bytes or more than 223, which the receiver leaves alone; what a count is when two
threads of the engine increment it at once. *Time* other than as order, except in `AddressClaim`. *System calls*
that fail, except writes and the engine's reads. *More than two ECUs* in
`tp_*` (see above). The *destructor* against calls in progress: `Ecu.hpp` leaves
that to the caller. `send_async` in `Transport`: its races are in `EcuSend`, its
frames are those of `send`. Components without a module are listed in 1.1 and
in `PROJECT.json`, with the reason.

## 7. Plan

Done: address claiming, transport, sending, Fast Packet, group functions, codec
and tables, discovery and the binding, each with a run and theorems, in that order,
because each is what the next one stands on; then the engine, with its theorems.

Next, in this order:

1. The engine's snapshot against an abstract specification: what a poller has
   read is a snapshot some writer completed, as far as that is so. Filter chains
   and the kernel's filters.
2. DBC bit positions (Motorola and Intel order) against the engine's extraction.
3. `RvcBusRegistry` as a variant of `Discovery`; `dispose()` of both; the reading
   isolates of `can_socket`.
4. Transport with three ECUs.
5. Proofs: `UniqueAddresses` for three ECUs, and how much lag it bears with more; a
   poller's snapshot against 1.
