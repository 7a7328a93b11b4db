------------------------------ MODULE TcpLink ------------------------------
(***************************************************************************)
(* The two TCPService classes (desktop/server/src/tcpservice.cpp and       *)
(* desktop/client/src/tcpservice.cpp), their destructors, and the kernel's *)
(* sockets between them: one server that serves one connection at a time,  *)
(* and clients that reconnect for ever.  What the server sends is the      *)
(* BUFFLEN bytes of the version of the buffer it has copied, one step as   *)
(* ServerComService shows; a byte is a version and its place in the frame. *)
(***************************************************************************)
EXTENDS Integers, Sequences, Functions, FiniteSetsExt

CONSTANTS
  Clients,        \* client programs
  Versions,       \* contents of the server's buffer, numbered as they come
  BUFFLEN,        \* bytes of a frame
  Capacity,       \* bytes a connection holds before send() blocks
  MaxConn,        \* connections that exist at a time, half closed ones too
  MaxBreaks,      \* network failures
  Segmented,      \* whether TCP may deliver part of a frame before the rest
  SigPipeKills    \* whether SIGPIPE has its default disposition

ASSUME LinkAssumption ==
  /\ 0 \in Versions /\ Versions \subseteq Nat
  /\ BUFFLEN \in Nat \ {0}
  /\ Capacity \in Nat /\ Capacity >= BUFFLEN
  /\ MaxConn \in Nat \ {0}
  /\ MaxBreaks \in Nat
  /\ {Segmented, SigPipeKills} \subseteq BOOLEAN

VARIABLES
  version,     \* ComService::buffer
  breaks,      \* network failures so far
  conns,       \* the connections that exist
  queue,       \* those waiting in the listen queue, oldest first
  listening,   \* server_fd has not been closed
  sEnd,        \* the server's end flag
  sPc,         \* the server's worker
  sConn,       \* connection_fd, 0 when there is none
  sTemp,       \* the version in the server's temp_buffer
  cEnd,        \* each client's end flag
  cPc,         \* each client's worker
  fd,          \* client_fd: a connection or one of the values below
  status,      \* COMService::status, what the dashboard's icon shows
  temp,        \* each client's temp_buffer
  buffer       \* COMService::buffer

serverVars == <<listening, sEnd, sPc, sConn, sTemp>>
clientVars == <<cEnd, cPc, fd, status, temp, buffer>>
vars == <<version, breaks, conns, queue, serverVars, clientVars>>

Unset == -3   \* never assigned
Stale == -2   \* the number of a socket that is closed
None  == -1
Bare  ==  0   \* a socket that is not connected yet

Junk == -1    \* an uninitialised byte
Byte(v, k) == [version |-> v, place |-> k]
FrameBytes(v) == [k \in 1 .. BUFFLEN |-> Byte(v, k)]

Init ==
  /\ version = 0
  /\ breaks = 0
  /\ conns = <<>>
  /\ queue = <<>>
  /\ listening = TRUE
  /\ sEnd = FALSE /\ sPc = "loop" /\ sConn = 0 /\ sTemp = 0
  /\ cEnd   = [c \in Clients |-> FALSE]
  /\ cPc    = [c \in Clients |-> "loop"]
  /\ fd     = [c \in Clients |-> Unset]
  /\ status = [c \in Clients |-> FALSE]
  /\ temp   = [c \in Clients |-> FrameBytes(Junk)]
  /\ buffer = [c \in Clients |-> FrameBytes(0)]

-----------------------------------------------------------------------------
(* The kernel.  A connection has a client end and a server end, bytes on   *)
(* the wire, bytes that have arrived, and the error the server's next send *)
(* meets: "rst" is ECONNRESET, "epipe" is EPIPE with its SIGPIPE.          *)

NewConn(c) == [owner |-> c, open |-> TRUE, server |-> "queued",
               wire |-> <<>>, arrived |-> <<>>, fault |-> "none"]

\* A connection is gone when both ends are closed.
Reap(cs) ==
  Restrict(cs, {k \in DOMAIN cs : cs[k].open \/ cs[k].server # "closed"})

\* close() of the client's end.  Unread bytes make it a reset; bytes under
\* way find no socket and bring a reset to a server that has seen the FIN.
ClosedByClient(k) ==
  Reap([conns EXCEPT
    ![k].open = FALSE, ![k].wire = <<>>, ![k].arrived = <<>>,
    ![k].fault = CASE @ # "none"               -> @
                   [] conns[k].arrived # <<>> -> "rst"
                   [] conns[k].wire # <<>>    -> "epipe"
                   [] OTHER                   -> "none"])

\* The listening socket is gone: connections that wait to be accepted are
\* reset.
QueueDropped(cs) ==
  Reap([k \in DOMAIN cs |-> IF cs[k].server = "queued"
                            THEN [cs[k] EXCEPT !.server = "closed"] ELSE cs[k]])

\* A blocked accept() holds the socket open after close(server_fd).
Accepting == listening \/ sPc = "blocked"

\* Bytes arrive in order: whole frames, or cut anywhere.
Deliver(k, n) ==
  /\ Segmented \/ n % BUFFLEN = 0
  /\ conns' = [conns EXCEPT ![k].arrived = @ \o SubSeq(conns[k].wire, 1, n),
                            ![k].wire = SubSeq(@, n + 1, Len(@))]
  /\ UNCHANGED <<version, breaks, queue, serverVars, clientVars>>

\* The network fails: what is on the wire is lost, both ends get an error.
Break(k) ==
  /\ breaks < MaxBreaks
  /\ conns[k].fault = "none"
  /\ breaks' = breaks + 1
  /\ conns' = [conns EXCEPT ![k].wire = <<>>, ![k].fault = "rst"]
  /\ UNCHANGED <<version, queue, serverVars, clientVars>>

-----------------------------------------------------------------------------
(* The server.                                                             *)

\* A setter changes the buffer; back to an earlier content is a new version.
GuiSet(v) ==
  /\ ~sEnd /\ sPc # "killed"
  /\ v > version
  /\ version' = v
  /\ UNCHANGED <<breaks, conns, queue, serverVars, clientVars>>

ServerLoop ==
  /\ sPc = "loop"
  /\ sPc' = IF sEnd THEN "done" ELSE "accept"
  /\ UNCHANGED <<version, breaks, conns, queue, listening, sEnd, sConn, sTemp,
                 clientVars>>

\* accept() fails at once on a closed server_fd, otherwise it waits.
CallAccept ==
  /\ sPc = "accept"
  /\ sPc' = IF listening THEN "blocked" ELSE "sleep"
  /\ UNCHANGED <<version, breaks, conns, queue, listening, sEnd, sConn, sTemp,
                 clientVars>>

AcceptSleep ==
  /\ sPc = "sleep"
  /\ sPc' = "loop"
  /\ UNCHANGED <<version, breaks, conns, queue, listening, sEnd, sConn, sTemp,
                 clientVars>>

\* accept() returns the oldest connection of the queue.
Accept ==
  /\ sPc = "blocked"
  /\ queue # <<>>
  /\ sConn' = Head(queue)
  /\ LET cs == [conns EXCEPT ![Head(queue)].server = "accepted"]
     IN  IF listening THEN conns' = cs /\ queue' = Tail(queue)
                      ELSE conns' = QueueDropped(cs) /\ queue' = <<>>
  /\ sPc' = "serve"
  /\ UNCHANGED <<version, breaks, listening, sEnd, sTemp, clientVars>>

\* Mutant: the inner loop does not look at end.
ServerCopyForever ==
  /\ sPc = "serve"
  /\ sPc' = "send" /\ sTemp' = version
  /\ UNCHANGED <<version, breaks, conns, queue, listening, sEnd, sConn,
                 clientVars>>

\* The inner loop's test and the locked copy.
ServerCopy ==
  /\ sPc = "serve"
  /\ IF sEnd THEN sPc' = "shut" /\ UNCHANGED sTemp
             ELSE sPc' = "send" /\ sTemp' = version
  /\ UNCHANGED <<version, breaks, conns, queue, listening, sEnd, sConn,
                 clientVars>>

\* send() has queued BUFFLEN bytes, or blocks.  The first frame for a client
\* that has closed its end is queued too and answered by a reset.
SendFrame ==
  /\ sPc = "send"
  /\ conns[sConn].fault = "none"
  /\ IF conns[sConn].open
     THEN /\ Len(conns[sConn].wire) + Len(conns[sConn].arrived) + BUFFLEN
               <= Capacity
          /\ conns' = [conns EXCEPT ![sConn].wire = @ \o FrameBytes(sTemp)]
     ELSE conns' = [conns EXCEPT ![sConn].fault = "epipe"]
  /\ sPc' = "serve"
  /\ UNCHANGED <<version, breaks, queue, listening, sEnd, sConn, sTemp,
                 clientVars>>

\* Mutant: a failed send is tried again.
SendRetried ==
  /\ sPc = "send"
  /\ conns[sConn].fault # "none"
  /\ sPc' = "serve"
  /\ UNCHANGED <<version, breaks, conns, queue, listening, sEnd, sConn, sTemp,
                 clientVars>>

\* send() fails: "Connection lost" -- unless SIGPIPE ends the program.
SendFails ==
  /\ sPc = "send"
  /\ conns[sConn].fault # "none"
  /\ IF conns[sConn].fault = "epipe" /\ SigPipeKills
     THEN /\ sPc' = "killed"
          /\ sConn' = 0
          /\ listening' = FALSE
          /\ queue' = <<>>
          /\ conns' = QueueDropped([conns EXCEPT ![sConn].server = "closed"])
     ELSE /\ sPc' = "shut"
          /\ UNCHANGED <<conns, queue, listening, sConn>>
  /\ UNCHANGED <<version, breaks, sEnd, sTemp, clientVars>>

\* Mutant: after the first connection the worker is done.
CloseConnectionOnce ==
  /\ sPc = "shut"
  /\ conns' = Reap([conns EXCEPT ![sConn].server = "closed"])
  /\ sConn' = 0
  /\ sPc' = "done"
  /\ UNCHANGED <<version, breaks, queue, listening, sEnd, sTemp, clientVars>>

\* shutdown() and close() of the connection.
CloseConnection ==
  /\ sPc = "shut"
  /\ conns' = Reap([conns EXCEPT ![sConn].server = "closed"])
  /\ sConn' = 0
  /\ sPc' = "loop"
  /\ UNCHANGED <<version, breaks, queue, listening, sEnd, sTemp, clientVars>>

\* The window is closed: ~TCPService sets end ...
ServerQuit ==
  /\ ~sEnd /\ sPc # "killed"
  /\ sEnd' = TRUE
  /\ UNCHANGED <<version, breaks, conns, queue, listening, sPc, sConn, sTemp,
                 clientVars>>

\* ... and closes server_fd, then joins the worker.
CloseListening ==
  /\ sEnd /\ listening
  /\ listening' = FALSE
  /\ IF sPc = "blocked" THEN UNCHANGED <<conns, queue>>
                        ELSE conns' = QueueDropped(conns) /\ queue' = <<>>
  /\ UNCHANGED <<version, breaks, sEnd, sPc, sConn, sTemp, clientVars>>

-----------------------------------------------------------------------------
(* A client.                                                               *)

Goto(c, pc) == cPc' = [cPc EXCEPT ![c] = pc]

\* The outer loop's test and socket(), which may fail.
ClientLoop(c) ==
  /\ cPc[c] = "loop"
  /\ \/ cEnd[c] /\ Goto(c, "exit") /\ UNCHANGED fd
     \/ ~cEnd[c] /\ Goto(c, "connect") /\ fd' = [fd EXCEPT ![c] = Bare]
     \/ ~cEnd[c] /\ Goto(c, "sleep") /\ fd' = [fd EXCEPT ![c] = None]
  /\ UNCHANGED <<version, breaks, conns, queue, serverVars, cEnd, status,
                 temp, buffer>>

\* connect() returns once the kernel has queued the connection.
Connect(c) ==
  /\ cPc[c] = "connect"
  /\ Accepting
  /\ \E k \in (1 .. MaxConn) \ DOMAIN conns :
       /\ \A j \in (1 .. MaxConn) \ DOMAIN conns : k <= j
       /\ conns' = [j \in DOMAIN conns \cup {k} |->
                      IF j = k THEN NewConn(c) ELSE conns[j]]
       /\ queue' = Append(queue, k)
       /\ fd' = [fd EXCEPT ![c] = k]
  /\ status' = [status EXCEPT ![c] = TRUE]
  /\ Goto(c, "inner")
  /\ UNCHANGED <<version, breaks, serverVars, cEnd, temp, buffer>>

ConnectFails(c) ==
  /\ cPc[c] = "connect"
  /\ ~Accepting
  /\ fd' = [fd EXCEPT ![c] = Stale]
  /\ Goto(c, "sleep")
  /\ UNCHANGED <<version, breaks, conns, queue, serverVars, cEnd, status,
                 temp, buffer>>

ClientSleep(c) ==
  /\ cPc[c] = "sleep"
  /\ Goto(c, "loop")
  /\ UNCHANGED <<version, breaks, conns, queue, serverVars, cEnd, fd, status,
                 temp, buffer>>

\* The inner loop's test of end.
ClientTest(c) ==
  /\ cPc[c] = "inner"
  /\ Goto(c, IF cEnd[c] THEN "exit" ELSE "read")
  /\ UNCHANGED <<version, breaks, conns, queue, serverVars, cEnd, fd, status,
                 temp, buffer>>

\* What the mutants of the read share: at most size bytes are read.
ReadOf(c, size) ==
  /\ cPc[c] = "read"
  /\ LET k == fd[c]
         n == Min({size, Len(conns[k].arrived)})
     IN  /\ n > 0
         /\ conns' = [conns EXCEPT ![k].arrived = SubSeq(@, n + 1, Len(@))]
         /\ temp' = [temp EXCEPT ![c] = SubSeq(conns[k].arrived, 1, n)
                                          \o SubSeq(@, n + 1, BUFFLEN)]
  /\ Goto(c, "install")
  /\ UNCHANGED <<version, breaks, queue, serverVars, cEnd, fd, status, buffer>>

\* Mutants: one byte too many, and one too few.
ReadTooMuch(c)   == ReadOf(c, BUFFLEN + 1)
ReadTooLittle(c) == ReadOf(c, BUFFLEN - 1)

\* read() returns what has arrived, up to a frame.  temp_buffer is not
\* initialised: the rest of it is what the stack holds, be it the last frame.
Read(c) ==
  /\ cPc[c] = "read"
  /\ LET k == fd[c]
         n == Min({BUFFLEN, Len(conns[k].arrived)})
     IN  /\ n > 0
         /\ conns' = [conns EXCEPT ![k].arrived = SubSeq(@, n + 1, Len(@))]
         /\ \E rest \in {temp[c], FrameBytes(Junk)} :
              temp' = [temp EXCEPT ![c] =
                         SubSeq(conns[k].arrived, 1, n)
                           \o SubSeq(rest, n + 1, BUFFLEN)]
  /\ Goto(c, "install")
  /\ UNCHANGED <<version, breaks, queue, serverVars, cEnd, fd, status, buffer>>

\* What the mutants of the failing read share.
ReadFailsWith(c, connections, shown) ==
  /\ cPc[c] = "read"
  /\ LET conn == conns[fd[c]]
     IN  /\ conn.arrived = <<>> /\ conn.wire = <<>>
         /\ conn.server = "closed" \/ conn.fault # "none"
  /\ conns' = connections
  /\ fd' = [fd EXCEPT ![c] = Stale]
  /\ status' = [status EXCEPT ![c] = shown]
  /\ Goto(c, "loop")
  /\ UNCHANGED <<version, breaks, queue, serverVars, cEnd, temp, buffer>>

\* Mutants: the socket is not closed, the status is not reset.
ReadFailsLeaks(c)  == ReadFailsWith(c, conns, FALSE)
ReadFailsSilent(c) == ReadFailsWith(c, ClosedByClient(fd[c]), TRUE)

\* read() returns 0 or an error: close, and connect again at once.
ReadFails(c) ==
  /\ cPc[c] = "read"
  /\ LET conn == conns[fd[c]]
     IN  /\ conn.arrived = <<>> /\ conn.wire = <<>>
         /\ conn.server = "closed" \/ conn.fault # "none"
  /\ conns' = ClosedByClient(fd[c])
  /\ fd' = [fd EXCEPT ![c] = Stale]
  /\ status' = [status EXCEPT ![c] = FALSE]
  /\ Goto(c, "loop")
  /\ UNCHANGED <<version, breaks, queue, serverVars, cEnd, temp, buffer>>

\* The locked memcpy of all of temp_buffer, however much of it was read.
Install(c) ==
  /\ cPc[c] = "install"
  /\ buffer' = [buffer EXCEPT ![c] = temp[c]]
  /\ Goto(c, "inner")
  /\ UNCHANGED <<version, breaks, conns, queue, serverVars, cEnd, fd, status,
                 temp>>

\* ~TCPService sets end, then joins the worker.
ClientQuit(c) ==
  /\ ~cEnd[c]
  /\ cEnd' = [cEnd EXCEPT ![c] = TRUE]
  /\ UNCHANGED <<version, breaks, conns, queue, serverVars, cPc, fd, status,
                 temp, buffer>>

\* The end of run(): close(client_fd) if it is not negative.  A stale number
\* is closed a second time, an unset one may be taken for a descriptor.
ClientExit(c) ==
  /\ cPc[c] = "exit"
  /\ conns' = IF fd[c] > Bare THEN ClosedByClient(fd[c]) ELSE conns
  /\ fd' \in {[fd EXCEPT ![c] = None]} \cup (IF fd[c] = Unset THEN {fd} ELSE {})
  /\ status' = [status EXCEPT ![c] = FALSE]
  /\ Goto(c, "done")
  /\ UNCHANGED <<version, breaks, queue, serverVars, cEnd, temp, buffer>>

-----------------------------------------------------------------------------

Network == \E k \in DOMAIN conns :
             \/ \E n \in 1 .. Len(conns[k].wire) : Deliver(k, n)
             \/ Break(k)

ServerStep == \/ ServerLoop \/ CallAccept \/ AcceptSleep \/ Accept
              \/ ServerCopy \/ SendFrame \/ SendFails \/ CloseConnection

ClientStep(c) == \/ ClientLoop(c) \/ Connect(c) \/ ConnectFails(c)
                 \/ ClientSleep(c) \/ ClientTest(c) \/ Read(c)
                 \/ ReadFails(c) \/ Install(c) \/ ClientExit(c)

Next == \/ Network
        \/ \E v \in Versions : GuiSet(v)
        \/ ServerStep
        \/ ServerQuit
        \/ CloseListening
        \/ \E c \in Clients : ClientStep(c) \/ ClientQuit(c)

Spec == Init /\ [][Next]_vars

(* The threads run, bytes on the wire arrive and socket() does not fail    *)
(* for ever.  Nothing makes users move controls or close windows.          *)
Fairness ==
  /\ WF_vars(ServerStep)
  /\ WF_vars(CloseListening)
  /\ \A c \in Clients :
       /\ WF_vars(ClientStep(c))
       /\ SF_vars(ClientLoop(c) /\ fd'[c] = Bare)
  /\ \A k \in 1 .. MaxConn :
       WF_vars(/\ k \in DOMAIN conns
               /\ \E n \in 1 .. Len(conns[k].wire) : Deliver(k, n))

FairSpec == Spec /\ Fairness

-----------------------------------------------------------------------------
(* Properties.                                                             *)

ConnId  == 1 .. MaxConn
ByteSet == {Byte(v, k) : v \in Versions \cup {Junk}, k \in 1 .. BUFFLEN}

Connection ==
  [owner : Clients, open : BOOLEAN, server : {"queued", "accepted", "closed"},
   wire : Seq(ByteSet), arrived : Seq(ByteSet),
   fault : {"none", "rst", "epipe"}]

TypeOK ==
  /\ version \in Versions
  /\ breaks \in 0 .. MaxBreaks
  /\ DOMAIN conns \subseteq ConnId
  /\ \A k \in DOMAIN conns : conns[k] \in Connection
  /\ queue \in Seq(ConnId)
  /\ {listening, sEnd} \subseteq BOOLEAN
  /\ sPc \in {"loop", "accept", "blocked", "sleep", "serve", "send", "shut",
              "done", "killed"}
  /\ sConn \in ConnId \cup {0}
  /\ sTemp \in Versions
  /\ cEnd \in [Clients -> BOOLEAN]
  /\ cPc \in [Clients -> {"loop", "connect", "sleep", "inner", "read",
                          "install", "exit", "done"}]
  /\ fd \in [Clients -> ConnId \cup {Unset, Stale, None, Bare}]
  /\ status \in [Clients -> BOOLEAN]
  /\ temp \in [Clients -> [1 .. BUFFLEN -> ByteSet]]
  /\ buffer \in [Clients -> [1 .. BUFFLEN -> ByteSet]]

\* No path through either worker loses a socket: a client's open end is the
\* one in its client_fd, the server's accepted end is its connection_fd, and
\* every queued connection is in the listen queue once.
NoSocketLeak ==
  /\ \A c \in Clients :
       {k \in DOMAIN conns : conns[k].owner = c /\ conns[k].open}
         = {fd[c]} \cap ConnId
  /\ {k \in DOMAIN conns : conns[k].server = "accepted"} = {sConn} \ {0}
  /\ {k \in DOMAIN conns : conns[k].server = "queued"} = Range(queue)
  /\ Cardinality(Range(queue)) = Len(queue)

\* The client's buffer always holds one frame as the server sent it, also
\* across lost connections and reconnects.
FrameIntegrity ==
  \A c \in Clients : \E v \in Versions : buffer[c] = FrameBytes(v)

\* What a dashboard shows, Junk when the bytes are of no one frame.
Shown(frame) ==
  IF frame = FrameBytes(frame[1].version) THEN frame[1].version ELSE Junk

Mirrored == INSTANCE Mirror WITH
  Dashboards <- Clients, Mixed <- Junk, source <- version,
  shown <- [c \in Clients |-> Shown(buffer[c])], clean <- TRUE

\* Each dashboard mirrors the server: over any number of lost connections and
\* reconnects it shows one frame as the server sent it, never one the server
\* has not sent yet, and never goes back to an older one, although frames of
\* an earlier connection may still be under way when the next is made.
ImplementsMirror == Mirrored!Spec

ServerGone == sPc = "killed" \/ (sPc = "done" /\ ~listening)

\* When the server has gone, the dashboard stops claiming a connection.
DisconnectNoticed ==
  \A c \in Clients : ServerGone ~> ~status[c]

\* A client that stays open while the server stays open shows what the
\* server's controls say once these are left alone, whatever connections
\* broke before.
DashboardFollows ==
  \A c \in Clients : \A v \in Versions :
    <>[](version = v /\ ~cEnd[c] /\ ~sEnd /\ sPc # "killed")
      => <>[](buffer[c] = FrameBytes(v))

\* Both programs can be closed: a client whenever the user wants, the server
\* as long as a client keeps trying to connect, since only that connection
\* releases a worker blocked in accept(), which close(server_fd) does not.
ProgramsStop ==
  /\ \A c \in Clients : cEnd[c] ~> (cPc[c] = "done")
  /\ <>[](sEnd /\ \E c \in Clients : ~cEnd[c]) => <>ServerGone

\* A second client that was left waiting in the listen queue is served, or
\* told, once the other clients are closed.
WaitingClientServed ==
  \A c \in Clients :
    (cPc[c] = "read" /\ \A d \in Clients \ {c} : cEnd[d]) ~> (cPc[c] # "read")
=============================================================================
