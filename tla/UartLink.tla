------------------------------ MODULE UartLink ------------------------------
(***************************************************************************)
(* The serial path of a frame: UARTService of the server program, the      *)
(* UART of the server board and its task that turns every BUFFLEN bytes    *)
(* into one notification, Bluetooth, the UART of the client board, and     *)
(* UARTService of the client program.  Nothing in it marks where a frame   *)
(* begins.  Both boards log errors to the UART that carries the frames     *)
(* (sdkconfig: console on UART 0, level ERROR).                            *)
(* A byte is a version of the server's buffer and its place in the frame.  *)
(***************************************************************************)
EXTENDS Integers, Sequences

CONSTANTS
  Versions,    \* contents of the server's buffer, numbered as they come
  BUFFLEN,     \* bytes of a frame
  Capacity,    \* bytes a serial line and the client's operating system hold
  InFlight,    \* notifications the boards hold
  MaxFaults,   \* failures of lines, boards and radio
  MaxNoise,    \* error messages of the client board and frames in pieces
  CutsFrames   \* whether a failure may lose part of a frame

ASSUME UartAssumption ==
  /\ 0 \in Versions /\ Versions \subseteq Nat
  /\ {BUFFLEN, InFlight} \subseteq Nat \ {0}
  /\ Capacity \in Nat /\ Capacity >= BUFFLEN
  /\ {MaxFaults, MaxNoise} \subseteq Nat
  /\ CutsFrames \in BOOLEAN

VARIABLES
  version,    \* ComService::buffer
  sEnd,       \* the server's end flag
  sPc,        \* the server's worker
  sLine,      \* the server program can reach its board
  toBoard,    \* bytes on their way to ble_client_task
  bleUp,      \* the boards are connected
  air,        \* notifications on their way
  out,        \* bytes in the client board's UART
  cLine,      \* the client program can reach its board
  received,   \* bytes the client's operating system holds
  readBuffer, \* bytes QSerialPort holds
  cEnd, cPc, status, buffer,   \* as in TcpLink, of the client program
  faults, noise

serverVars == <<version, sEnd, sPc>>
boardVars  == <<sLine, toBoard, bleUp, air, out>>
clientVars == <<received, readBuffer, cEnd, cPc, status, buffer>>
bounds     == <<faults, noise>>
vars == <<serverVars, boardVars, cLine, clientVars, bounds>>

Junk == -1    \* a character of a message
Byte(v, k) == [version |-> v, place |-> k]
FrameBytes(v) == [k \in 1 .. BUFFLEN |-> Byte(v, k)]

\* As much of an error message as arrives at once, up to one character more
\* than a frame.
Messages == {[k \in 1 .. n |-> Byte(Junk, 1)] : n \in 1 .. BUFFLEN + 1}

Init ==
  /\ version = 0
  /\ sEnd = FALSE /\ sPc = "open"
  /\ sLine = TRUE /\ toBoard = <<>>
  /\ bleUp = FALSE /\ air = <<>>
  /\ out = <<>> /\ cLine = TRUE
  /\ received = <<>> /\ readBuffer = <<>>
  /\ cEnd = FALSE /\ cPc = "open" /\ status = FALSE
  /\ buffer = FrameBytes(0)
  /\ faults = 0 /\ noise = 0

Fault == faults < MaxFaults /\ faults' = faults + 1

-----------------------------------------------------------------------------
(* The server program.                                                     *)

\* A setter changes the buffer; back to an earlier content is a new version.
GuiSet(v) ==
  /\ ~sEnd
  /\ v > version
  /\ version' = v
  /\ UNCHANGED <<sEnd, sPc, boardVars, cLine, clientVars, bounds>>

ServerStep(from, to) ==
  /\ sPc = from /\ sPc' = to
  /\ UNCHANGED <<version, sEnd, sLine, bleUp, air, out, cLine, clientVars, bounds>>

\* The outer loop: open() is tried again at once when it fails.
ServerOpen ==
  /\ sEnd \/ sLine
  /\ ServerStep("open", IF sEnd THEN "done" ELSE "send")
  /\ UNCHANGED toBoard

\* The inner loop is left and the port closed.
ServerLeave ==
  /\ sEnd
  /\ ServerStep("send", "open")
  /\ UNCHANGED toBoard

\* The locked copy, write(), flush() and the sleep.  A change of the buffer
\* after the copy is one after this step.
ServerSend ==
  /\ ~sEnd /\ sLine
  /\ Len(toBoard) + BUFFLEN <= Capacity
  /\ ServerStep("send", "send")
  /\ toBoard' = toBoard \o FrameBytes(version)

\* write() or flush() fails: the port is closed.
ServerSendFails ==
  /\ ~sEnd /\ ~sLine
  /\ ServerStep("send", "open")
  /\ UNCHANGED toBoard

\* ~UARTService.
ServerQuit ==
  /\ ~sEnd /\ sEnd' = TRUE
  /\ UNCHANGED <<version, sPc, boardVars, cLine, clientVars, bounds>>

-----------------------------------------------------------------------------
(* The boards.                                                             *)

BoardRead(size) ==
  /\ Len(toBoard) >= size
  /\ toBoard' = SubSeq(toBoard, size + 1, Len(toBoard))
  /\ air' = IF bleUp /\ Len(air) < InFlight
            THEN Append(air, SubSeq(toBoard, 1, size)) ELSE air
  /\ UNCHANGED <<serverVars, sLine, bleUp, out, cLine, clientVars, bounds>>

\* Mutant: the buffer is one byte short.
TaskReadShort == BoardRead(BUFFLEN - 1)

\* ble_client_task: BUFFLEN bytes, whatever they are, become a notification.
\* Without a connection, or without memory, they are dropped.
TaskRead == BoardRead(BUFFLEN)

\* BLE_GAP_EVENT_NOTIFY_RX: the bytes go to the UART.
NotifyRx ==
  /\ air # <<>>
  /\ Len(out) + BUFFLEN <= Capacity
  /\ out' = out \o Head(air)
  /\ air' = Tail(air)
  /\ UNCHANGED <<serverVars, sLine, toBoard, bleUp, cLine, clientVars, bounds>>

\* BLE_GAP_EVENT_CONNECT with an error: ESP_LOGE.
ConnectFails(message) ==
  /\ ~bleUp
  /\ noise < MaxNoise /\ noise' = noise + 1
  /\ Len(out) + Len(message) <= Capacity
  /\ out' = out \o message
  /\ UNCHANGED <<serverVars, sLine, toBoard, bleUp, air, cLine, clientVars, faults>>

Connect ==
  /\ ~bleUp /\ bleUp' = TRUE
  /\ UNCHANGED <<serverVars, sLine, toBoard, air, out, cLine, clientVars, bounds>>

\* The connection is lost with the notifications under way.
Disconnect ==
  /\ bleUp /\ Fault
  /\ bleUp' = FALSE /\ air' = <<>>
  /\ UNCHANGED <<serverVars, sLine, toBoard, out, cLine, clientVars, noise>>

\* How many bytes a failure may take.
Losses(line) ==
  {n \in 0 .. Len(line) : CutsFrames \/ (Len(line) - n) % BUFFLEN = 0}

\* The server board restarts and misses what was sent to it so far.
BoardRestarts ==
  /\ Fault
  /\ bleUp' = FALSE /\ air' = <<>>
  /\ \E n \in Losses(toBoard) : toBoard' = SubSeq(toBoard, n + 1, Len(toBoard))
  /\ UNCHANGED <<serverVars, sLine, out, cLine, clientVars, noise>>

\* The server's cable is pulled: the last bytes do not arrive.
ServerUnplugged ==
  /\ sLine /\ Fault
  /\ sLine' = FALSE
  /\ \E n \in Losses(toBoard) : toBoard' = SubSeq(toBoard, 1, Len(toBoard) - n)
  /\ UNCHANGED <<serverVars, bleUp, air, out, cLine, clientVars, noise>>

ServerPlugged ==
  /\ ~sLine /\ sLine' = TRUE
  /\ UNCHANGED <<serverVars, toBoard, bleUp, air, out, cLine, clientVars, bounds>>

ClientUnplugged ==
  /\ cLine /\ Fault
  /\ cLine' = FALSE
  /\ UNCHANGED <<serverVars, boardVars, clientVars, noise>>

ClientPlugged ==
  /\ ~cLine /\ cLine' = TRUE
  /\ UNCHANGED <<serverVars, boardVars, clientVars, bounds>>

PortOpen == cPc \in {"test", "wait", "read"}

\* The client board's UART has sent the first n bytes it holds; nobody keeps
\* them when the port is not open.
Arrive(n) ==
  /\ received' = IF cLine /\ PortOpen THEN received \o SubSeq(out, 1, n) ELSE received
  /\ Len(received') <= Capacity
  /\ out' = SubSeq(out, n + 1, Len(out))
  /\ UNCHANGED <<serverVars, sLine, toBoard, bleUp, air, cLine, readBuffer, cEnd,
                 cPc, status, buffer, faults>>

\* All of it in one piece: a frame takes 30 microseconds at BAUDRATE.
Emit == out # <<>> /\ Arrive(Len(out)) /\ UNCHANGED noise

\* Or in two: the adapter hands on some bytes before the others.
EmitPiece(n) ==
  /\ n < Len(out)
  /\ noise < MaxNoise /\ noise' = noise + 1
  /\ Arrive(n)

-----------------------------------------------------------------------------
(* The client program.                                                     *)

ClientStep(from, to) ==
  /\ cPc = from /\ cPc' = to
  /\ UNCHANGED <<serverVars, boardVars, cLine, cEnd, noise>>

\* clear(), or close().
Discard == received' = <<>> /\ readBuffer' = <<>>

\* The outer loop: open(), which is tried again at once when it fails.
ClientOpen ==
  /\ ClientStep("open", CASE cEnd -> "done"
                          [] ~cEnd /\ cLine -> "test"
                          [] OTHER -> "open")
  /\ status' = (status /\ (cEnd \/ cLine))
  /\ Discard
  /\ UNCHANGED <<buffer, faults>>

\* The inner loop: leave it and close the port, or clear() it.
ClientTest ==
  /\ ClientStep("test", IF cEnd THEN "open" ELSE "wait")
  /\ Discard
  /\ UNCHANGED <<status, buffer, faults>>

\* Mutant: the port is cleared after the wait.
ClientWaitClear ==
  /\ received # <<>>
  /\ ClientStep("wait", "read")
  /\ Discard
  /\ UNCHANGED <<status, buffer, faults>>

\* waitForReadyRead() returns true: QSerialPort has what has arrived.
ClientWait ==
  /\ received # <<>>
  /\ ClientStep("wait", "read")
  /\ received' = <<>> /\ readBuffer' = readBuffer \o received
  /\ UNCHANGED <<status, buffer, faults>>

\* Frames are on their way every 40 ms.
Flowing == sLine /\ bleUp /\ cLine /\ sPc # "done"

WaitEnds(shown) ==
  /\ received = <<>>
  /\ ClientStep("wait", "open")
  /\ IF Flowing THEN Fault ELSE UNCHANGED faults
  /\ status' = shown
  /\ Discard
  /\ UNCHANGED buffer

\* Mutant: the icon is not told.
ClientTimeoutSilent == WaitEnds(status)

\* Mutant: wait without a time limit.
ClientTimeoutNever == cLine = FALSE /\ WaitEnds(FALSE)

\* Mutant: the dashboard goes back to zero when it is cut off.
ClientTimeoutBlank ==
  /\ received = <<>>
  /\ ClientStep("wait", "open")
  /\ IF Flowing THEN Fault ELSE UNCHANGED faults
  /\ status' = FALSE
  /\ Discard
  /\ buffer' = FrameBytes(0)

\* It returns false, after 520 ms without a byte or because the line fails;
\* with frames flowing this takes a delay that counts as a fault.
ClientTimeout == WaitEnds(FALSE)

\* read() returns BUFFLEN bytes, which the locked memcpy installs.
ClientRead ==
  /\ Len(readBuffer) >= BUFFLEN
  /\ ClientStep("read", "test")
  /\ status' = TRUE
  /\ buffer' = SubSeq(readBuffer, 1, BUFFLEN)
  /\ readBuffer' = SubSeq(readBuffer, BUFFLEN + 1, Len(readBuffer))
  /\ UNCHANGED <<received, faults>>

\* read() returns less: the port is closed.
ClientReadShort ==
  /\ Len(readBuffer) < BUFFLEN
  /\ ClientStep("read", "open")
  /\ status' = FALSE
  /\ Discard
  /\ UNCHANGED <<buffer, faults>>

\* ~UARTService.
ClientQuit ==
  /\ ~cEnd /\ cEnd' = TRUE
  /\ UNCHANGED <<serverVars, boardVars, cLine, received, readBuffer, cPc, status,
                 buffer, bounds>>

-----------------------------------------------------------------------------

Server == ServerOpen \/ ServerLeave \/ ServerSend \/ ServerSendFails

Client == \/ ClientOpen \/ ClientTest \/ ClientWait \/ ClientTimeout
          \/ ClientRead \/ ClientReadShort

Next ==
  \/ \E v \in Versions : GuiSet(v)
  \/ Server \/ ServerQuit
  \/ \E m \in Messages : ConnectFails(m)
  \/ TaskRead \/ NotifyRx \/ Connect \/ Disconnect
  \/ BoardRestarts
  \/ ServerUnplugged \/ ServerPlugged \/ ClientUnplugged \/ ClientPlugged
  \/ Emit \/ \E n \in 1 .. Capacity : EmitPiece(n)
  \/ Client \/ ClientQuit

Spec == Init /\ [][Next]_vars

(* The workers, the boards' tasks and the UARTs run.  Nobody has to plug in *)
(* a cable, reconnect, move controls or close windows.                      *)
FairSpec ==
  /\ Spec
  /\ WF_vars(Server) /\ WF_vars(Client)
  /\ WF_vars(TaskRead) /\ WF_vars(NotifyRx)
  /\ WF_vars(Emit)

-----------------------------------------------------------------------------
(* Properties.                                                             *)

ByteSet == {Byte(v, k) : v \in Versions \cup {Junk}, k \in 1 .. BUFFLEN}

\* The variables have the types of the code's state, the bounds hold.
TypeOK ==
  /\ version \in Versions
  /\ {sEnd, sLine, bleUp, cLine, cEnd, status} \subseteq BOOLEAN
  /\ sPc \in {"open", "send", "done"}
  /\ cPc \in {"open", "test", "wait", "read", "done"}
  /\ {toBoard, out, received, readBuffer} \subseteq Seq(ByteSet)
  /\ air \in Seq([1 .. BUFFLEN -> ByteSet]) /\ Len(air) <= InFlight
  /\ buffer \in [1 .. BUFFLEN -> ByteSet]
  /\ faults \in 0 .. MaxFaults /\ noise \in 0 .. MaxNoise

\* What the dashboard shows, Junk when the bytes are of no one frame.
Shown == IF buffer = FrameBytes(buffer[1].version) THEN buffer[1].version ELSE Junk

Mirrored == INSTANCE Mirror WITH
  Dashboards <- {"desktop"}, Mixed <- Junk, source <- version,
  shown <- [d \in {"desktop"} |-> Shown], clean <- (noise = 0)

\* The dashboard mirrors the server across restarts, lost connections, pulled
\* cables and late wake-ups: one frame as the server sent it, and never back
\* to an older one, as long as the client board's line carries whole frames
\* and nothing else.
ImplementsMirror == Mirrored!Spec

\* Once the path is whole and the controls are left alone, the dashboard
\* comes to show what they say and keeps showing it.
DashboardFollows ==
  \A v \in Versions :
    <>[](version = v /\ Flowing /\ ~sEnd /\ ~cEnd) => <>[](buffer = FrameBytes(v))

\* When the boards have lost each other for good, the icon says so for good.
SilenceNoticed == <>[](~bleUp /\ ~cEnd) => <>[]~status

\* Either program can be closed, whatever the lines and the boards do.
ProgramsStop == (sEnd ~> (sPc = "done")) /\ (cEnd ~> (cPc = "done"))
=============================================================================
