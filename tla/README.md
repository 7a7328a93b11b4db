# Speedometer: verification project

TLA+ models of the Speedometer project: a *server* program in which the user
sets the data of a car (speed, temperature, battery, turn signals) and a
*client* program that shows them on a dashboard, connected by TCP or by a
serial line that two ESP32 boards carry over Bluetooth LE.  The models are
written from the sources; file names below are relative to the repository.

## 1. The system

| Component | Source | State | Operations | Status |
|---|---|---|---|---|
| Signal table, frame layout | `shared/setting.h` | constant table: offset, size, range of five signals in 3 bytes | lookup by name | modelled |
| Server `ComService` | `desktop/server/src/comservice.cpp` | `buffer`, `buffer_mtx` | five setters over `insert`; locked copy by the worker | modelled, proved |
| Server window | `desktop/server/src/window.cpp` | sliders, three check boxes, which boxes are enabled | six event handlers, the constructor | modelled, proved |
| Client `COMService` | `desktop/client/src/comservice.cpp` | `buffer`, `buffer_mutex` | five getters over `extract`; locked copy by the worker | modelled, proved |
| TCP transport | `desktop/*/src/tcpservice.cpp`, `desktop/*/include/tcpservice.h` | `end`, `status`, descriptors, the kernel's connections | two worker loops, two destructors | modelled, proved |
| Desktop UART transport | `desktop/*/src/uartservice.cpp` | `end`, `status`, the open port | two worker loops, two destructors | modelled, proved |
| ESP32 server firmware | `esp32/server/src/main.c` | `conn_handle`, advertising | GAP events, sync and reset, UART task | modelled, proved |
| ESP32 client firmware | `esp32/client/src/main.c` | `connected_addr`, scanning / connecting | GAP events, sync and reset, subscription | modelled, proved |
| Peer discovery | `esp32/client/lib/central_utils/peer.c` | peers, services, characteristics, descriptors in four pools | add, delete, discover, the three callbacks | modelled, proved |
| Client window, canvas | `desktop/client/src/canvas.cpp`, `window.cpp`, `include/positions.h` | `blink_on`, two timers, the picture, the click player | painting, two timeouts, minimising | modelled, proved |
| Logging | `esp32/*/lib/central_utils/misc.c` | none | none | not modelled: formatting only |
| Server board's copy of `central_utils` | `esp32/server/lib/central_utils` | | | not modelled: identical and never called |
| Build files | `CMakeLists.txt` | | | not modelled |

### How the parts interact

    user -> window -> ComService.buffer -> worker -> TCP | UART+BLE
                                                          |
    dashboard <- Canvas <- COMService.buffer <- worker <--+

* Each desktop program has two threads that share one 3-byte buffer under one
  mutex: the GUI thread (setters or getters) and a worker.
* The server's worker copies the buffer and sends it every 20 ms (TCP) or
  40 ms (UART) whether it changed or not; nothing is acknowledged, and a lost
  frame is made good by the next one.
* The worker is started in the service's constructor, before the window exists.
  A destructor sets `end` and joins the worker.
* The TCP server serves one connection at a time; the client reconnects for ever.

### What is hard, and what makes each part correct

* **Server `ComService`**: setters run while the worker copies; a signal may
  cross a byte boundary and share bytes with others.  Correct: every frame sent
  shows the values of one moment, and a setter disturbs no other signal.
* **Client `COMService`**: frames arrive while getters extract.  Correct: a
  getter returns its signal as one frame had it, sign included.
* **Window**: a handler makes several setter calls between which frames may be
  sent; clicks under the warning lights skip their setters.  Correct: whenever
  no handler runs, buffer and widgets agree; no box gets stuck.
* **TCP**: connections break, either program ends at any time, several clients
  compete, TCP is a byte stream.  Correct: no socket is lost, only whole frames
  are installed, the dashboard never goes back to an older frame, both sides get
  back to a working connection, both programs can be closed.
* **UART path**: a byte stream without frame marks through two boards, cables
  that are pulled, boards that restart, the boards' own error messages on the
  same line, frames handed on in pieces.  Correct: whole frames only and none
  older than the last as long as nothing disturbs the line, the dashboard follows once the path is
  whole, the icon tells of silence, both programs can be closed.
* **Boards**: each handler calls the stack, either board is reset at any time,
  one side notices a loss before the other, and whoever stops scanning or
  advertising must start again by itself.  The server board's UART task uses
  `conn_handle` while the events change it.  Correct: an old handle is used at most
  once, no board is stranded, the link comes back.
* **Peer discovery**: a chain of asynchronous procedures over pools of fixed
  size, any of which fails or is cut short.  Correct: one answer, complete lists,
  no block lost, the subscription goes to the speedometer, and it ends.

* **Canvas**: one painting makes up to six accesses to the service while frames
  arrive; the arrows blink by one inexact timer and are painted by another; only
  a painting in the bright phase reaches the click sound; a minimised window is
  not painted.  Correct: what is seen and heard is current after a bounded time,
  the needle points at its number, an arrow that is on blinks.

Every hazard is listed with its source line in `PROJECT.json`.  Six have no
property, because the code does nothing against them or because what could go
wrong is outside the models: starvation at either mutex, SIGPIPE, `accept`
without a client, and two about the number in `client_fd`.

## 2. The modules

| Module | Models | Notes |
|---|---|---|
| `Setting` | the table of `setting.h` | the values the MC modules give to the constants of `Frame` |
| `Frame` | layout of a frame, the cursor arithmetic of both bit loops | `Field`, `Encode`, `FrameOf` are the reference definitions |
| `SignalRegister` | abstract: what the server's `ComService` promises | `Set` one signal, `Snapshot` all |
| `ServerComService` | `insert`, the setters, the workers' locked copy | refines `SignalRegister` |
| `ServerComServiceProofs` | theorems about `ServerComService` | with lemmas about the cursor of `Frame` |
| `SignalDisplay` | abstract: what the client's `COMService` promises | `Install` a frame, `Get` one signal |
| `ClientComService` | `extract`, the getters, the workers' locked copy | refines `SignalDisplay` |
| `ClientComServiceProofs` | theorems about `ClientComService` | extends `MCClientComService`, for the table of `setting.h` in its last theorem |
| `ServerWindow` | the control window, on an atomic register | refines `SignalRegister` as its user |
| `ServerWindowProofs` | theorems about `ServerWindow` | |
| `Mirror` | abstract: what a transport promises of the dashboards | versions of the server's buffer, shown in order |
| `TcpLink` | both `TCPService` classes and the sockets between them | refines `Mirror`; the buffers are whole frames here |
| `TcpLinkProofs` | theorems about `TcpLink` | |
| `UartLink` | both `UARTService` classes, the boards' UARTs, `ble_client_task` and `NOTIFY_RX` between them | refines `Mirror`; the buffers are whole frames here |
| `UartLinkProofs` | theorems about `UartLink` | |
| `BleLink` | the GAP events of both boards, over stack and radio | discovery appears as its answer |
| `BleLinkProofs` | theorems about `BleLink` | |
| `Discovery` | abstract: what `peer_disc_all` promises | `Begin`, `Find` or `GiveUp`, `End` |
| `PeerDiscovery` | `peer.c` and the handlers that call it | refines `Discovery` |
| `PeerDiscoveryProofs` | theorems about `PeerDiscovery` | |
| `Gauges` | the angles of arc, lines, labels and needle; colours and filling of the icons | pure operators |
| `Canvas` | `paintEvent` access by access, both timers, the click player, the minimised window | on an atomic display |
| `CanvasProofs` | theorems about `Canvas` and `Gauges` | |
| `MC*` | instances for TLC | |

The models compose through the abstract ones.  `ServerComService` is modelled at
the granularity of one bit and one byte and shown to implement `SignalRegister`,
where a setter and a copy are one step each; that is what entitles
`ServerWindow` to make a setter call one step (`DoCall`) and a copy one step
(`Snapshot`), and `TcpLink` to treat the copy in `ServerCopy` as one step.
`ServerWindow` in turn is checked to be a legal user of the register
(`UsesRegister`: only table signals, only values in range, one setter at a
time).  `SignalDisplay` plays the same part on the client's side for `Install`
in `TcpLink` and `ClientRead` in `UartLink`, and for the getters in `Canvas`.
Between the two, `TcpLink` and `UartLink` are both shown to implement `Mirror`:
the client's buffer shows versions of the server's buffer, one at a time, in
their order and never ahead of it.  So the whole chain, from a setter to a
painting, is covered by pairs of a module and what the next one takes for granted.
`PeerDiscovery` is shown to implement `Discovery`, whose phases are the ones
`BleLink` uses; `BleLink` shows in turn that the client board has one connection
at a time (`ScansOnlyAlone`), which `PeerDiscovery` takes for granted, and that
the boards end up connected, which is `bleUp` in `UartLink`.

### Correspondence

**ServerComService.**  `guiPc` is where the GUI thread is: `CallSet` enters
`insert` from a setter, `InsertLock` is the `scoped_lock`, `InsertBit` one
iteration of the loop, `InsertUnlock` the end of its scope.  `workerPc` is the
worker: `CopyLock`, `CopyByte`, `CopyUnlock` are the locked `memcpy` of either
`run()`, `Send` everything outside the lock.  A byte is the function of its
eight bits.  `BitOf` is a bit of the `uint32_t` argument, which for a negative
temperature is that of its two's complement.

**ClientComService.**  The mirror image; `Receive` puts a frame into the
worker's local buffer (which frames that can be is the business of the transport
modules), `Extended` is the sign extension of `get_temperature`, `Returned`
reads the returned byte as `uint8_t` or `int8_t`.

**ServerWindow.**  A user event is one action that changes the widgets and
writes the setter calls of its handler into `calls`, in the handler's order;
`DoCall` executes them one by one, `Snapshot` may come between any two.  The
event loop takes the next event when `calls` is empty.  The initial state is
the constructor at line 40: sliders at their minima, `setTemperature(-60)` to be
called, the worker already running.  A disabled check box cannot be clicked
(Qt).

**TcpLink.**  `sPc` and `cPc[c]` are the positions in the two `run()` loops.
The kernel (external) is a set of connections with two ends, the bytes on the
wire, the bytes arrived, and the error the next `send` meets.  Modelled as Linux
has it: `connect` succeeds as soon as the connection is in the listen queue; a
worker blocked in `accept` keeps the listening socket open after
`close(server_fd)`; `close` with unread data resets the connection at once,
otherwise the peer's first `send` still succeeds and the second meets EPIPE and
its SIGPIPE (`SigPipeKills` says whether that ends the program).  `fd[c]` keeps
the number of a closed socket (`Stale`) as the code does, and is `Unset` until
the first `socket()`.  The server's `status` is written and never read, so it
has no variable.  The contents of the server's buffer are numbered in the order
they come (`GuiSet` goes on to a higher version; back to an earlier setting is a
new version), which is what lets `Mirror` tell old from new.

**UartLink.**  A byte is a version of the server's buffer and its place in the
frame, so that a shifted or mixed frame can be told.  `ServerSend` is the locked
copy, `write`, `flush` and the sleep: a change of the buffer after the copy is
one after the step.  `ClientRead` is `read` and the locked copy.  `received` is
what the operating system holds, `readBuffer` what `QSerialPort` holds; `clear()`
and `close()` empty both.  The boards log at level ERROR to UART 0 (sdkconfig),
the UART of the frames: `ConnectFails` puts as much of a message there as
arrives at once, and `EmitPiece` hands a frame on in two parts.  `noise` counts
both: `Mirror`'s promise ends with the first (`Disturb`), the liveness does not.  The other
board's messages go back towards the server program, which never reads.

**BleLink.**  `sLink` and `cLink` are `"new"` between the controller's
connection and the host's event; `linked` says whether the two are ends of one
living connection, so either side may notice a loss first.  `seen` is the
controller's filter of duplicates: a device is reported once per scan, and an
advertisement whose handling fails is not reported again.  `callFaults` counts
calls of the stack that fail at once, which the handlers only log.  The UART
task reads `conn_handle` (`TaskTakesHandle`) and calls `ble_gatts_notify_custom`
with what it has read (`TaskNotifies`), and any event may come between the two.
The controller names a connection by one of `Handles`, perhaps by the one before's
name.  `misses` is not in the code: it counts the calls whose handle is not that
of the connection the board has been told of.  A connection that has broken is such
a one until its DISCONNECT: notifications asked of it are lost, which is not
counted, for the board cannot know better.  A reset
stands for a restart too: the handlers run with the host out of sync, and leave
what a start leaves.

**PeerDiscovery.**  A list is a sequence, a pool is the number of its free
blocks.  A device is its attribute table, whose handles ascend
(`TableAssumption`), as GATT requires.  `proc` is the GATT procedure under way:
the stack (external) reports what is in the range asked for, lowest handle first
(`rest` is the set of what is left), then BLE_HS_EDONE, or an error at any time; a callback that returns an error ends its procedure.
`Chained` is `SLIST_NEXT(prev, next) = ...`, which drops what came after `prev`,
and `ChrDisced` looks a definition handle up among value handles, both as in the
code; `ImplementsDiscovery` (complete lists, each entry once) shows that neither
does harm with attributes in order.  `DiscDscs` sets `disc_prev_chr_val` after `disc_cb` has been called, as
the code does.  Included services are compiled out.

**Canvas.**  `pc` is the next access of `paintEvent` to the service; each
`Draw...` action is one drawing function with its getter call, which is one step
because `ClientComService` implements `SignalDisplay`.  `Install` and `SetStatus`
are the worker's, at any time.  `update()` sets `repaint`: Qt merges requests
and answers them when the event loop gets to it.  Time goes by ticks; both
`QTimer`s are of Qt's default kind, *coarse*, which is early or late by up to
`Coarse` and is not caught up with.  A tick passes only when the GUI thread has
handled what is due: the assumption is that a painting is fast against
`DRAW_INTERVAL`.  While the window is minimised Qt withholds paint events and
the timers run on.  `player` is what `playbackState()` says; `MediaEnds` is the
end of `sound.wav` (20 s).  `still` and `steady` are not in the code: they are
the ages of what should be seen and of what should be heard, counted up to the
bound the properties speak of.

Actions named in a comment as *Mutant* are not part of any
specification: they are faulty variants used to see that the properties can fail.

## 3. What is checked

| Run | Question | Bounds | States |
|---|---|---|---|
| `server_com` | type, no index outside the frame, atomic register; the mutex serves both threads | all five signals, both ends of each range | 291 143 |
| `client_com` | type, atomic display, encode / extract round trip; the mutex serves both threads | four frames at the ends of the ranges, all getters, every value of every signal in the round trip | 13 482 |
| `server_window` | interlock, buffer agrees, no glitch, legal use of the register, frames follow the controls | sliders at both ends, all boxes | 10 297 |
| `tcp` | type, no socket leak, mirror, reconnection, status icon, shutdown | 1 client, 3 versions, 2 failures, 3 connections, 2 frames in flight | 127 658 |
| `tcp_two_clients` | handover between clients | 2 clients, 2 connections | 106 716 |
| `tcp_segmented` | **violated**: whole frames when TCP splits one | 1 client, 2 frames in flight | stops early |
| `peer_discovery` | type, pools, one answer, right subscription, refinement, end | 7 devices, pools of 3 / 5 / 3 blocks | 241 |
| `peer_charless` | **violated**: discovery ends, with a service without characteristics | 2 devices | stops early |
| `uart` | type, mirror, dashboard follows, icon, shutdown | 2 versions, 1 failure, 1 message or cut frame, 4 bytes per line | 332 596 |
| `uart_shifted` | **violated**: dashboard follows, when one failure takes part of a frame | 1 failure, 5 bytes per line | stops early |
| `ble` | type, old handles, one connection, nobody stranded, what a failing call leads to, link comes back | 3 losses or resets, 1 failing call, 2 handles, 2 other devices | 16 474 |
| `canvas` | picture current, click follows, arrows blink | 3 frames, draw timer 2 ± 1 ticks, blink timer 3 ± 1 ticks | 1 434 892 |

Why the bounds are enough.  The two `ComService` models are finite by
themselves: the ends of the ranges differ in bits on both sides of every byte
boundary, and `RoundTrip` takes every signal through all the values of its range
whenever a getter has returned it.  In `TcpLink` three
versions of the buffer tell a stale or mixed frame from a current one, and let
one be shown between two others; two
failures allow a reconnect to fail again; three connections let an old one
linger at the server while one waits in the queue and a new one is made.  A
client that finds no free connection waits in `connect`, which is what a full
listen queue does.

In `UartLink` a line of four bytes holds a frame or a message that is longer than
one, and a message shorter than a frame makes `read()` come back short.  The
devices of
`peer_discovery` have services without room, characteristics with no, one and
two descriptors, descriptors to be found in the wrong place, or one service,
characteristic or descriptor more than the pool; the pools of the firmware (64
each) differ in nothing but size.  In `ble` three losses or resets are one more
than the two boards can be in trouble with at once; of two handles, that of a new
connection is the old one or is not.  In `canvas` the frames differ
in everything that is read twice or compared; the intervals are the smallest with
which either timer can be due once, twice or not at all between two timeouts of
the other, and the theorems hold for all intervals.  Both bounds of the
properties are tight: one tick less and TLC finds a violation.

**Fairness.**  A thread that can take a step takes it (weak fairness per
thread).  The lock steps have strong fairness: `std::mutex` promises none, but
each worker sleeps 20 or 40 ms outside the lock in every round and the GUI
thread returns to its event loop, so a waiting thread finds the mutex free again
and again.  What `MutexServesBoth` shows is therefore that whoever holds a mutex
lets it go; that nobody is starved at it is assumed.  In `TcpLink` bytes on the wire arrive and `socket()` does not fail
for ever.  In `UartLink` workers, tasks and lines run.  In `PeerDiscovery` the device answers
(or the link breaks).  In `BleLink` hosts synchronise and handle their events,
advertisements are heard, and a connection that can be established again and
again is established (strong fairness: the server board advertises many times a
second, the client board tries for 50).  No fairness is assumed of users, of
cables and boards being put right, of network failures, of the arrival
of frames at `ClientComService`, or of repainting.  In `Canvas` the GUI thread
handles its events and time goes on.  The liveness properties that
need the user to stop say so (`<>[]`).

**Shutdown.**  `ProgramsStop` of `TcpLink` holds for the server only as long as some client keeps trying to
connect: its connection is what releases the worker from `accept`.  Without a
client, the server's destructor waits for ever.  It is checked with
one client; with two, the one in the listen queue cannot be closed before the
other (`WaitingClientServed` shows that it can afterwards).  With the default
disposition of SIGPIPE, a client that closes its window ends the server program
as well; `tcp` includes this, `tcp_two_clients` does not, so that there is a
handover to look at.

**Findings.**

* `tcp_segmented`: `read()` in `desktop/client/src/tcpservice.cpp:37` may return
  part of a frame; line 38 accepts any positive number and the whole of an
  uninitialised `temp_buffer` is installed.  All later reads are shifted.  On a
  loopback connection it takes a client slower than the server, or a split
  segment, for this to happen.
* `uart_shifted`: `esp32/server/src/main.c:318` groups bytes by `BUFFLEN` from
  wherever it happens to start.  A single byte lost there makes every later
  frame the end of one and the beginning of the next, until the board restarts
  between two frames.
* `peer_charless`: `peer.c:458` starts again at the first service that has room
  for characteristics and an empty list.  If that service really has none, its
  discovery is repeated for ever.  This repository's server has no such service.

Restrictions that are properties of the code rather than of the model: a failing
call of the stack strands a board (`NeverStranded` and `LinkComesBack` say
`callFaults = 0`: `ble_gap_connect` failing at once after the scan has been
cancelled, `esp32/client/src/main.c:112`, is followed by no scan), and the board
stays stranded until its reset (`Stranding`); an error
message of the client board may be shown as a frame until the next one
(`ImplementsMirror` ends its promise there, and when a frame comes in pieces).  With
a frame in pieces, `clear()` at `desktop/client/src/uartservice.cpp:23` may throw
away the first part and take the rest for the beginning of a frame; the same
`clear()` realigns it at the next wait, so `DashboardFollows` holds all the same.
While the window is minimised the click goes on, or stays off, whatever the
lights do: `ClickFollows` speaks of a visible window.

## 4. What is proved

For every signal table that satisfies `LayoutAssumption` (fields inside the
frame, pairwise disjoint) and any sets of inputs, with TLAPS:

* `TypeCorrect`, `InsertStaysInside`: `Spec => []TypeOK`, `Spec => []NoOverrun`.
* `RegisterImplemented`: `Spec => ImplementsRegister`, the refinement.
* `DisplayTypes` (`Spec => []TypeOK`) and `DisplayImplemented`
  (`Spec => ImplementsDisplay`) for `ClientComService`, whose signals fit a byte
  (`FramesAssumption`).
* `WindowTypes`, `Interlocked`, `BufferAgreement`, `NoGlitches` for
  `ServerWindow`, for every
  set of slider values.
* `WindowUsesRegister`: `Spec => UsesRegister`, the window is a legal user of
  `SignalRegister`.  Here a field has at most 32 bits (`WindowAssumption`): the
  setters hand their value to `insert` as `uint32_t`.

For the table of `setting.h` (`SettingTable`) and any frames whose fields are
those of values in range (`InRange`; `FrameOfInRange` shows that every frame of a
server that sets its signals inside their ranges is one):

* `ReadingsRoundTrip`: `Spec => []RoundTrip`.  Both hypotheses are
  `SettingAssumption` of `MCClientComService`, which TLC evaluates for the
  constants of the run.

*The argument for `ServerComService`.*  `IInv` adds to the type invariant: the
mutex is held by the thread in its critical section (`MutexInv`); the cursor
points at bit `i` of the field (`CursorInv`, which gives `NoOverrun`); the bits
the loop has passed hold the new value (`InsertedInv`); the bytes the copy has
passed equal the buffer's (`CopiedInv`).  The register changes when `insert`
takes the mutex: nobody can look at the buffer before it is released.
`InsertBit` is then invisible because fields are disjoint (`FieldsDisjoint`,
`InsertBitEffect`), `InsertUnlock` because the field is complete by
`InsertedInv`, `CopyUnlock` because the copy is complete by `CopiedInv`.

*The argument for `ClientComService`.*  The invariant is the mirror image: the
bytes `memcpy` has passed are those of the frame in hand (`CopiedInv`), the bits
`extract` has passed are those of the field and the others are clear
(`ExtractedInv`).  A frame is installed when the worker takes the mutex, and a
getter sees its signal when the painter takes it.  `CopyByte` is invisible because
the painter is outside its loop then, `CopyUnlock` because the buffer is the frame
in hand by now, `ExtractUnlock` because the accumulator is the field and the sign
extension changes only bits above it (`ExtendedKeepsField`).

*The argument for `ReadingsRoundTrip`.*  `ReadingInv` adds to the invariant
that the buffer, outside of `memcpy`, is in range, and that the last reading has
the bits of a value of its signal (`Carries`).  A getter holds the mutex until
it has returned, so the field it accumulated is that of such a buffer
(`FieldCarries`).  The rest is about numbers: the sign extension completes the
bits of a field to those of its value (`BitsExtended`), because a temperature of
-60 to 60 has equal bits 6 and 7 (`HighBits`); and a byte is, modulo 256, the
number whose bits it has (`EightBits`), so `uint8_t` and `int8_t` give the value
back (`BitsReturned`).

*The argument for `ServerWindow`.*  `BufferAgrees` says nothing while a handler
runs, so it is not inductive.  `PendingInv` (every call still to be made carries
what the widgets ask for) and `SettledInv` (every signal is as asked, or has a
call to come) are, together with the interlock of the boxes.  For
`UsesRegister` the sliders stay between their ends (`SliderInv`), so that what a
pending call carries is an input of its signal (`ShownInput`).

For every set of handles, every set of other devices, none of which has the server
board's address, and every number of losses, resets and failing calls:

* `BleTypes`, `StaleHandleOnce` (`Spec => []StaleOnce`), `OneConnection`,
  `NobodyStranded` for `BleLink`.
* `StrandedOnlyByFailure`: `Spec => Stranding`.  `NeverStranded` says nothing once
  a call has failed; this says of every step, whatever has failed before, that only a failing call
  leaves a board idle or a connection without discovery (`StrandedByFailure`),
  and that an idle board stays so until its reset, such a connection until it is
  lost (`StrandedUntilReset`).  No event of the code makes a failure good.

*The argument for `BleLink`.*  A board that is stranded is one whose flags
contradict each other, so `IInv` says which combinations occur: a connection of
the client board goes with the procedure, the device and the host it came from
(`ClientInv`), and the server board advertises only when synchronised and without
a connection (`ServerInv`), for a second connection would leave `conn_handle` at
the first.  An advertisement of the server board is never dismissed, because
while the client board scans `connected_addr` is cleared; that is what keeps the
duplicate filter from hiding it.  `StaleOnce` is not inductive: after one miss
the handle in the task's hand must be the current one (`TaskInv`), which it is
because it was taken after the last event, and `conn_handle` is that of the
connection the board has been told of (`ServerInv`).

For every set of frames, all draw and blink intervals and every tolerance of the
timers below them:

* `CanvasTypes`, `PictureInTime`, `ClickInTime`: `Spec => []TypeOK`,
  `[]PictureCurrent`, `[]ClickFollows`.

For every number of clients, connections and network failures, and every length
of a frame:

* `LinkTypes`, `SocketsKept`: `Spec => []TypeOK`, `Spec => []NoSocketLeak`.
* `FramesWhole`, `MirrorImplemented`: `Spec => []FrameIntegrity` and
  `Spec => ImplementsMirror`, under the hypothesis `~Segmented` (TCP delivers
  a frame in one piece).  It is not there to help the proof: without it both are
  false, as the finding of `tcp_segmented` shows.

For every length of a frame, every capacity of the lines and the boards, and
every number of failures:

* `UartTypes`: `Spec => []TypeOK` for `UartLink`, with whole frames lost and with
  parts of frames lost.
* `UartMirror`: `Spec => ImplementsMirror`, under the hypothesis `~CutsFrames` (a
  failure takes whole frames).  Again it is what makes the theorem true: the
  finding of `uart_shifted` is what happens without it.

For every set of devices whose attribute tables are in order (`TableAssumption`)
and pools of every size:

* `DiscoveryInvariant`, `PeerTypes`, `PoolsKept`, `NotForgotten`,
  `SubscribedRight`: the inductive invariant, and `Spec => []TypeOK`,
  `[]PoolsAccounted`, `[]NeverForgotten`, `[]SubscribesToSpeedometer`.
* `DiscoveryImplemented`: `Spec => ImplementsDiscovery`, the refinement.

And for `Gauges` `ScaleIsComplete`: the needle at every multiple of five is on a
line, with its label at every multiple of twenty, no two lines coincide, and all
are on the arc.

*The argument for `Canvas`.*  Both properties speak of moments at which nothing
has changed for some time, so they are far from inductive.  `IInv` says what is
known at every age.  `PhaseInv`: the arrows are painted in the bright phase only.
`PictureInv`: if anything painted so far is not what the buffer says, a painting
is owed, or the age and the time to the draw timer's next timeout together stay
within the bound.  `ClickInv`: if the player is not as it should be, the painting
under way or one that is owed will set it in the bright phase, or the age and the
time to the draw timer (bright) or the blink timer (dark) stay within the bound.
At the moments the two properties speak of, both sums exceed their bounds, which
leaves only the case that all is right.

*The argument for `TcpLink`.*  That no socket is lost is about who holds which
end.  `SocketInv` says it from both sides: what a worker's descriptor names is
its own and open, and every open end is named by its owner's (`ClientInv`,
`OpenInv`); the accepted connection is the server's `sConn` (`ServerInv`); the
queued ones are in the listen queue, each once (`QueueInv`).  The counting in
`NoSocketLeak` then follows.  For the refinement one follows the bytes:
`OrderInv` says that what has arrived and what is on the wire of a connection,
put together, are whole frames with versions that do not fall, none older than
what the client has got hold of, none newer than what the server has copied.
"Whole frames" is said by offsets (`Framed`: from every multiple of `BUFFLEN` on,
`BUFFLEN` bytes of one version), so that a frame added at the end or taken off
the front needs arithmetic (`WholeSum`) and no induction.  A connection that has
been closed by its client carries nothing, so a later connection can only bring
something newer.  `Mirror` makes its step in `Install`, where `temp` is such a
frame.

*The argument for `UartLink`.*  There are five places between the two buffers:
what is on its way to `ble_client_task`, the notifications in the air, the
client board's UART, what the operating system and what `QSerialPort` hold.
`Way` puts a version between each two of them: what is in one place is older than or of the
age of what is in the place before, and each place holds whole frames with
versions that do not fall (`Stream`, by offsets as in `TcpLink`; `Notes` for the
notifications).  `OrderInv` says that there are such versions as long as `noise`
is zero.  A step that moves bytes from a place to the next cuts one stream
(`StreamCut`) and joins the other (`StreamJoin`), with the version at the cut in
between; a step that loses bytes keeps a part of a stream between the same two
versions (`StreamSlice`), and `~CutsFrames` makes that part whole frames.
`ClientRead` takes the first frame of the last place: it is one of one version
(`StreamFrame`), which the server has made and the dashboard has not passed.
Nothing is said after a disturbance, and there `Mirror` allows every step.

*The argument for `PeerDiscovery`.*  The properties speak of the end of a chain of
procedures, and `DiscInv` of every moment of it.  The lists are the first part of
the device's table, at every level (`TableInv`).  For each kind of procedure it
says how far things have come (`SvcsInv`, `ChrsInv`, `DscsInv`): what is left to
report is exactly what follows in the table after what is known, and whatever is
not under way is either complete or untouched and still ahead of
`disc_prev_chr_val`.  From this, an attribute that is reported has its place at the
end of its list (`Prev` finds the end, so neither `Chained` nor the wrong key of
`ChrDisced` does harm), the range computed by `chr_end_handle` holds the
descriptors of that characteristic and nothing else (`DscsInRange`), and when
nothing needs asking any more everything is known (`AllKnown`), which is what an
answer of success promises.  Every procedure that is not the last starts
another or answers (`ControlInv`), and each entry made has taken one block
(`PoolInv`; the blocks are counted as sets of places).

The inductive invariants `SocketInv`, `OrderInv` (of `TcpLink` and of `UartLink`)
and `DiscInv` also hold in TLC's runs of `tcp`, `tcp_two_clients`, `uart` and
`peer_discovery`.

Every safety property, action property and refinement of the passing runs is
proved.  Only model-checked is liveness, which is out of the prover's reach:
`MutexServesBoth`, `FramesFollow`, `DisconnectNoticed`, `DashboardFollows`,
`ProgramsStop`, `WaitingClientServed`, `SilenceNoticed`, `DiscoveryEnds`,
`LinkComesBack`, `ArrowsBlink`.  The type invariants of `ServerWindow` and
`Canvas` are proved and not among the invariants of a run.

## 5. Not modelled

* `misc.c` (`central_utils`) formats addresses, descriptors and advertisements for
  the log and has no state.
* The server board's copy of `central_utils` is the same code and nothing calls it.
* In `peer.c`: included services, which are compiled out, and the functions
  nobody calls (discovery of one service, traversal, `peer_set_addr`).
* The attribute callbacks of the server board, which only log, and the setup calls
  of NimBLE, UART, sockets and serial port, failures of which end the program.
* Places, fonts and pixels of the drawing functions.
* Build files.

## 6. Plan

1. The chain from a setter to a painting in one module, composed of
   `SignalRegister`, `Mirror` and `SignalDisplay`; it is covered by pairs of
   modules now.
2. Values of `client_fd` before the first and between two calls of `socket()`
   as numbers, for the two hazards about it that no property covers.
