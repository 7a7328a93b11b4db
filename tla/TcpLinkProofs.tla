--------------------------- MODULE TcpLinkProofs ---------------------------
(***************************************************************************)
(* Proofs about TcpLink, for every set of clients and versions, any        *)
(* length of a frame, any number of connections and of network failures.   *)
(***************************************************************************)
EXTENDS TcpLink, SequenceTheorems, FiniteSetTheorems, TLAPS

\* client_fd is a connection exactly while the worker is at work on one, or on
\* its way out, and then it is the client's own and open.
ClientInv ==
  \A c \in Clients :
    /\ fd[c] \in ConnId =>
         fd[c] \in DOMAIN conns /\ conns[fd[c]].owner = c /\ conns[fd[c]].open
    /\ cPc[c] \in {"inner", "read", "install"} => fd[c] \in ConnId
    /\ cPc[c] \in {"loop", "connect", "sleep", "done"} => fd[c] \notin ConnId

\* An open end is the one its client holds.
OpenInv == \A k \in DOMAIN conns : conns[k].open => fd[conns[k].owner] = k

\* connection_fd is the one accepted connection.
ServerInv ==
  /\ sPc \in {"serve", "send", "shut"} <=> sConn # 0
  /\ sConn # 0 => sConn \in DOMAIN conns /\ conns[sConn].server = "accepted"
  /\ \A k \in DOMAIN conns : conns[k].server = "accepted" => k = sConn

\* The listen queue holds every queued connection, each of them once.
QueueInv ==
  /\ \A k \in DOMAIN conns :
       conns[k].server = "queued" => \E i \in 1 .. Len(queue) : queue[i] = k
  /\ \A i \in 1 .. Len(queue) :
       queue[i] \in DOMAIN conns /\ conns[queue[i]].server = "queued"
  /\ \A i, j \in 1 .. Len(queue) : queue[i] = queue[j] => i = j

SocketInv == TypeOK /\ ClientInv /\ OpenInv /\ ServerInv /\ QueueInv

-----------------------------------------------------------------------------
(* What close() does to the kernel's connections.                          *)

\* Reap removes connections of which nobody holds an end, and no other.
LEMMA ReapEffect ==
  ASSUME NEW cs
  PROVE  /\ DOMAIN Reap(cs)
              = {k \in DOMAIN cs : cs[k].open \/ cs[k].server # "closed"}
         /\ \A k \in DOMAIN Reap(cs) : Reap(cs)[k] = cs[k]
  BY DEF Reap, Restrict

\* Closing a client's end loses the bytes under way and disturbs no other
\* connection; the server's end stays.
LEMMA ClosedByClientEffect ==
  ASSUME TypeOK, NEW k \in DOMAIN conns
  PROVE  LET cs == ClosedByClient(k)
         IN  /\ DOMAIN cs \subseteq DOMAIN conns
             /\ \A j \in DOMAIN conns :
                  (j # k /\ conns[j].open) \/ conns[j].server # "closed"
                    => j \in DOMAIN cs
             /\ \A j \in DOMAIN cs : cs[j] \in Connection
             /\ \A j \in DOMAIN cs : j # k => cs[j] = conns[j]
             /\ k \in DOMAIN cs =>
                  /\ ~cs[k].open
                  /\ cs[k].arrived = <<>> /\ cs[k].wire = <<>>
                  /\ cs[k].owner = conns[k].owner
                  /\ cs[k].server = conns[k].server
  <1> DEFINE fault(old) == CASE old # "none"             -> old
                             [] conns[k].arrived # <<>> -> "rst"
                             [] conns[k].wire # <<>>    -> "epipe"
                             [] OTHER                   -> "none"
             es == [conns EXCEPT ![k].open = FALSE, ![k].wire = <<>>,
                                 ![k].arrived = <<>>, ![k].fault = fault(@)]
  <1>1. ClosedByClient(k) = Reap(es)
    BY Zenon DEF ClosedByClient
  <1>2. conns[k] \in Connection
    BY DEF TypeOK
  <1>3. fault(conns[k].fault) \in {"none", "rst", "epipe"}
    BY <1>2 DEF Connection
  <1>4. /\ es[k] \in Connection
        /\ ~es[k].open /\ es[k].arrived = <<>> /\ es[k].wire = <<>>
        /\ es[k].owner = conns[k].owner /\ es[k].server = conns[k].server
    <2> HIDE DEF fault
    <2>1. <<>> \in Seq(ByteSet)
      OBVIOUS
    <2>2. QED
      BY <1>2, <1>3, <2>1 DEF Connection
  <1>5. DOMAIN es = DOMAIN conns /\ \A j \in DOMAIN conns : j # k => es[j] = conns[j]
    OBVIOUS
  <1> HIDE DEF es
  <1>6. /\ DOMAIN ClosedByClient(k)
             = {j \in DOMAIN es : es[j].open \/ es[j].server # "closed"}
        /\ \A j \in DOMAIN ClosedByClient(k) : ClosedByClient(k)[j] = es[j]
    BY <1>1, ReapEffect
  <1>7. QED
    BY <1>4, <1>5, <1>6 DEF TypeOK

\* Closing the listening socket removes what waits to be accepted, at the
\* server's end.
LEMMA QueueDroppedEffect ==
  ASSUME NEW cs, \A j \in DOMAIN cs : cs[j] \in Connection
  PROVE  LET ds == QueueDropped(cs)
         IN  /\ DOMAIN ds \subseteq DOMAIN cs
             /\ \A j \in DOMAIN cs :
                  cs[j].open \/ cs[j].server = "accepted" => j \in DOMAIN ds
             /\ \A j \in DOMAIN ds :
                  /\ ds[j] \in Connection
                  /\ ds[j].server # "queued"
                  /\ ds[j].server = "accepted" <=> cs[j].server = "accepted"
                  /\ ds[j].open = cs[j].open /\ ds[j].owner = cs[j].owner
                  /\ ds[j].arrived = cs[j].arrived /\ ds[j].wire = cs[j].wire
  <1> DEFINE new(j) == IF cs[j].server = "queued"
                       THEN [cs[j] EXCEPT !.server = "closed"] ELSE cs[j]
             es     == [j \in DOMAIN cs |-> new(j)]
  <1>1. QueueDropped(cs) = Reap(es)
    BY DEF QueueDropped
  <1>2. ASSUME NEW j \in DOMAIN cs
        PROVE  /\ new(j) \in Connection
               /\ new(j).server # "queued"
               /\ new(j).server = "accepted" <=> cs[j].server = "accepted"
               /\ new(j).open = cs[j].open /\ new(j).owner = cs[j].owner
               /\ new(j).arrived = cs[j].arrived /\ new(j).wire = cs[j].wire
    BY DEF Connection
  <1>3. DOMAIN es = DOMAIN cs /\ \A j \in DOMAIN cs : es[j] = new(j)
    OBVIOUS
  <1> HIDE DEF es
  <1>4. /\ DOMAIN QueueDropped(cs)
             = {j \in DOMAIN es : es[j].open \/ es[j].server # "closed"}
        /\ \A j \in DOMAIN QueueDropped(cs) : QueueDropped(cs)[j] = es[j]
    BY <1>1, ReapEffect
  <1> HIDE DEF new
  <1>5. ASSUME NEW j \in DOMAIN cs, cs[j].open \/ cs[j].server = "accepted"
        PROVE  j \in DOMAIN QueueDropped(cs)
    BY <1>2, <1>3, <1>4, <1>5
  <1>6. ASSUME NEW j \in DOMAIN QueueDropped(cs)
        PROVE  j \in DOMAIN cs /\ QueueDropped(cs)[j] = new(j)
    BY <1>3, <1>4
  <1>7. QED
    BY <1>2, <1>5, <1>6
-----------------------------------------------------------------------------
(* The sockets: SocketInv is inductive.                                    *)

\* No program has a socket yet.
LEMMA InitSockets == Init => SocketInv
  <1> SUFFICES ASSUME Init PROVE SocketInv
    OBVIOUS
  <1>1. ASSUME NEW v \in Versions \cup {Junk}
        PROVE  FrameBytes(v) \in [1 .. BUFFLEN -> ByteSet]
    BY DEF FrameBytes, ByteSet
  <1>2. 0 \in Versions /\ DOMAIN conns = {} /\ queue \in Seq(ConnId) /\ Len(queue) = 0
    BY LinkAssumption DEF Init
  <1>3. TypeOK
    <2>1. /\ temp \in [Clients -> [1 .. BUFFLEN -> ByteSet]]
          /\ buffer \in [Clients -> [1 .. BUFFLEN -> ByteSet]]
      <3>1. FrameBytes(Junk) \in [1 .. BUFFLEN -> ByteSet]
        BY <1>1
      <3>2. FrameBytes(0) \in [1 .. BUFFLEN -> ByteSet]
        BY <1>1, <1>2
      <3>3. QED
        BY <3>1, <3>2 DEF Init
    <2>2. /\ version \in Versions /\ breaks \in 0 .. MaxBreaks
          /\ DOMAIN conns \subseteq ConnId
          /\ \A k \in DOMAIN conns : conns[k] \in Connection
          /\ queue \in Seq(ConnId)
      BY <1>2, LinkAssumption DEF Init
    <2>3. /\ {listening, sEnd} \subseteq BOOLEAN
          /\ sPc = "loop" /\ sConn = 0 /\ sTemp \in Versions
      BY <1>2 DEF Init
    <2>4. /\ cEnd \in [Clients -> BOOLEAN]
          /\ status \in [Clients -> BOOLEAN]
      BY DEF Init
    <2>5. /\ cPc \in [Clients -> {"loop", "connect", "sleep", "inner", "read",
                                  "install", "exit", "done"}]
          /\ fd \in [Clients -> ConnId \cup {Unset, Stale, None, Bare}]
      BY DEF Init
    <2>6. QED
      BY <2>1, <2>2, <2>3, <2>4, <2>5 DEF TypeOK
  <1>4. ClientInv /\ OpenInv /\ ServerInv /\ QueueInv
    BY <1>2 DEF Init, ClientInv, OpenInv, ServerInv, QueueInv, ConnId, Unset
  <1>5. QED
    BY <1>3, <1>4 DEF SocketInv

\* The steps of the server that leave the kernel's connections alone.
LEMMA ServerQuietSockets ==
  ASSUME SocketInv,
         \/ \E v \in Versions : GuiSet(v)
         \/ ServerLoop \/ CallAccept \/ AcceptSleep \/ ServerCopy \/ ServerQuit
  PROVE  SocketInv'
  <1> USE DEF SocketInv, serverVars, clientVars
  <1>1. /\ UNCHANGED <<conns, queue, sConn, clientVars>>
        /\ sPc' \in {"serve", "send", "shut"} <=> sPc \in {"serve", "send", "shut"}
    BY DEF GuiSet, ServerLoop, CallAccept, AcceptSleep, ServerCopy, ServerQuit
  <1>2. TypeOK'
    BY DEF TypeOK, GuiSet, ServerLoop, CallAccept, AcceptSleep, ServerCopy, ServerQuit
  <1>3. ClientInv' /\ OpenInv' /\ ServerInv' /\ QueueInv'
    BY <1>1 DEF ClientInv, OpenInv, ServerInv, QueueInv
  <1>4. QED
    BY <1>2, <1>3

\* The steps of a client that leave the kernel's connections alone.
LEMMA ClientQuietSockets ==
  ASSUME SocketInv, NEW c \in Clients,
         \/ ClientLoop(c) \/ ConnectFails(c) \/ ClientSleep(c)
         \/ ClientTest(c) \/ Install(c) \/ ClientQuit(c)
  PROVE  SocketInv'
  <1> USE DEF SocketInv, serverVars, clientVars, Goto
  <1>1. UNCHANGED <<conns, queue, sConn, sPc>>
    BY DEF ClientLoop, ConnectFails, ClientSleep, ClientTest, Install, ClientQuit
  <1>2. TypeOK'
    BY DEF TypeOK, ClientLoop, ConnectFails, ClientSleep, ClientTest, Install, ClientQuit
  <1>3. ServerInv' /\ QueueInv'
    BY <1>1 DEF ServerInv, QueueInv
  <1>4. /\ fd' = fd \/ (cPc[c] \in {"loop", "connect"} /\ fd' \in {[fd EXCEPT ![c] = x] : x \in {Bare, None, Stale}})
        /\ \A d \in Clients : d # c => fd'[d] = fd[d] /\ cPc'[d] = cPc[d]
    BY DEF TypeOK, ClientLoop, ConnectFails, ClientSleep, ClientTest, Install, ClientQuit
  <1>5. ClientInv' /\ OpenInv'
    <2>1. fd[c] \in ConnId => fd'[c] = fd[c]
      BY <1>4 DEF ClientInv
    <2>2. OpenInv'
      BY <1>1, <1>4, <2>1 DEF OpenInv, ClientInv, TypeOK, Connection
    <2>3. ClientInv'
      BY <1>1, <1>4, <2>1 DEF ClientInv, TypeOK, ConnId, Bare, None, Stale, ClientLoop, ConnectFails, ClientSleep, ClientTest, Install, ClientQuit
    <2>4. QED
      BY <2>2, <2>3
  <1>6. QED
    BY <1>2, <1>3, <1>5

\* A step after which every socket is held by whom it was held before.
LEMMA SameSockets ==
  ASSUME SocketInv,
         DOMAIN conns' = DOMAIN conns,
         \A k \in DOMAIN conns :
           /\ conns'[k].owner = conns[k].owner /\ conns'[k].open = conns[k].open
           /\ conns'[k].server = conns[k].server,
         UNCHANGED <<queue, sConn, fd>>,
         sPc' \in {"serve", "send", "shut"} <=> sPc \in {"serve", "send", "shut"},
         \A c \in Clients :
           \/ cPc'[c] = cPc[c]
           \/ cPc[c] = "read" /\ cPc'[c] = "install"
  PROVE  ClientInv' /\ OpenInv' /\ ServerInv' /\ QueueInv'
  BY DEF SocketInv, ClientInv, OpenInv, ServerInv, QueueInv

\* A part of a sequence of bytes.
LEMMA PartOfBytes ==
  ASSUME NEW q \in Seq(ByteSet), NEW m \in 1 .. Len(q) + 1, NEW n \in m - 1 .. Len(q)
  PROVE  /\ SubSeq(q, m, n) \in Seq(ByteSet)
         /\ Len(SubSeq(q, m, n)) = n - m + 1
         /\ \A i \in 1 .. n - m + 1 : SubSeq(q, m, n)[i] = q[m + i - 1]
  <1>1. \A i \in m .. n : q[i] \in ByteSet
    OBVIOUS
  <1>2. m \in Int /\ n \in Int
    OBVIOUS
  <1>3. QED
    BY <1>1, <1>2, SubSeqProperties

\* A frame is BUFFLEN bytes.
LEMMA FrameOfBytes ==
  ASSUME NEW v \in Versions \cup {Junk}
  PROVE  /\ FrameBytes(v) \in Seq(ByteSet)
         /\ FrameBytes(v) \in [1 .. BUFFLEN -> ByteSet]
         /\ Len(FrameBytes(v)) = BUFFLEN
         /\ \A j \in 1 .. BUFFLEN : FrameBytes(v)[j] = Byte(v, j)
  BY LinkAssumption DEF FrameBytes, ByteSet

\* One connection gets other bytes or another error.
LEMMA OneConnection ==
  ASSUME TypeOK, NEW k \in DOMAIN conns, NEW a \in Seq(ByteSet), NEW w \in Seq(ByteSet),
         NEW f \in {"none", "rst", "epipe"},
         conns' = [conns EXCEPT ![k] =
                     [@ EXCEPT !.arrived = a, !.wire = w, !.fault = f]]
  PROVE  /\ DOMAIN conns' = DOMAIN conns
         /\ \A j \in DOMAIN conns :
              /\ conns'[j] \in Connection
              /\ conns'[j].owner = conns[j].owner /\ conns'[j].open = conns[j].open
              /\ conns'[j].server = conns[j].server
         /\ conns'[k].arrived = a /\ conns'[k].wire = w
         /\ \A j \in DOMAIN conns : j # k => conns'[j] = conns[j]
  <1> DEFINE new == [conns[k] EXCEPT !.arrived = a, !.wire = w, !.fault = f]
  <1>1. conns[k] \in Connection
    BY DEF TypeOK
  <1>2. /\ new \in Connection
        /\ new.owner = conns[k].owner /\ new.open = conns[k].open
        /\ new.server = conns[k].server /\ new.arrived = a /\ new.wire = w
    BY <1>1 DEF Connection
  <1>3. conns' = [conns EXCEPT ![k] = new]
    OBVIOUS
  <1> HIDE DEF new
  <1>4. QED
    BY <1>2, <1>3 DEF TypeOK

\* Bytes arrive, or a connection breaks.
LEMMA NetworkSockets == SocketInv /\ Network => SocketInv'
  <1> SUFFICES ASSUME SocketInv, NEW k \in DOMAIN conns,
                      (\E n \in 1 .. Len(conns[k].wire) : Deliver(k, n)) \/ Break(k)
               PROVE  SocketInv'
    BY DEF Network
  <1> DEFINE cn == conns[k]
  <1>0. cn \in Connection /\ TypeOK
    BY DEF TypeOK, SocketInv
  <1>1. ASSUME NEW n \in 1 .. Len(cn.wire), Deliver(k, n)
        PROVE  SocketInv'
    <2> DEFINE arrived == cn.arrived \o SubSeq(cn.wire, 1, n)
               wire    == SubSeq(cn.wire, n + 1, Len(cn.wire))
    <2>1. conns' = [conns EXCEPT ![k] =
                      [@ EXCEPT !.arrived = arrived, !.wire = wire, !.fault = cn.fault]]
      BY <1>0, <1>1 DEF Deliver, Connection
    <2>2. arrived \in Seq(ByteSet) /\ wire \in Seq(ByteSet)
      BY <1>0, <1>1, PartOfBytes, ConcatProperties DEF Connection
    <2> HIDE DEF arrived, wire
    <2>3. /\ DOMAIN conns' = DOMAIN conns
          /\ \A j \in DOMAIN conns :
               /\ conns'[j] \in Connection
               /\ conns'[j].owner = conns[j].owner /\ conns'[j].open = conns[j].open
               /\ conns'[j].server = conns[j].server
      BY <1>0, <2>1, <2>2, OneConnection DEF Connection
    <2>4. UNCHANGED <<version, breaks, queue, serverVars, clientVars>>
      BY <1>1 DEF Deliver
    <2>5. TypeOK'
      BY <1>0, <2>3, <2>4 DEF TypeOK, serverVars, clientVars
    <2>6. ClientInv' /\ OpenInv' /\ ServerInv' /\ QueueInv'
      BY <2>3, <2>4, SameSockets DEF serverVars, clientVars
    <2>7. QED
      BY <2>5, <2>6 DEF SocketInv
  <1>2. CASE Break(k)
    <2>1. conns' = [conns EXCEPT ![k] =
                      [@ EXCEPT !.arrived = cn.arrived, !.wire = <<>>, !.fault = "rst"]]
      BY <1>0, <1>2 DEF Break, Connection
    <2>2. <<>> \in Seq(ByteSet) /\ cn.arrived \in Seq(ByteSet)
      BY <1>0 DEF Connection
    <2>3. /\ DOMAIN conns' = DOMAIN conns
          /\ \A j \in DOMAIN conns :
               /\ conns'[j] \in Connection
               /\ conns'[j].owner = conns[j].owner /\ conns'[j].open = conns[j].open
               /\ conns'[j].server = conns[j].server
      BY <1>0, <2>1, <2>2, OneConnection
    <2>4. /\ UNCHANGED <<version, queue, serverVars, clientVars>>
          /\ breaks < MaxBreaks /\ breaks' = breaks + 1
      BY <1>2 DEF Break
    <2>5. TypeOK'
      BY <1>0, <2>3, <2>4, LinkAssumption DEF TypeOK, serverVars, clientVars
    <2>6. ClientInv' /\ OpenInv' /\ ServerInv' /\ QueueInv'
      BY <2>3, <2>4, SameSockets DEF serverVars, clientVars
    <2>7. QED
      BY <2>5, <2>6 DEF SocketInv
  <1>3. QED
    BY <1>1, <1>2

\* A frame, or the answer to one, changes one connection.
LEMMA SendFrameSockets == SocketInv /\ SendFrame => SocketInv'
  <1> SUFFICES ASSUME SocketInv, SendFrame PROVE SocketInv'
    OBVIOUS
  <1> DEFINE cn == conns[sConn]
  <1>1. TypeOK /\ sConn \in DOMAIN conns /\ cn \in Connection
    BY DEF SendFrame, SocketInv, ServerInv, TypeOK
  <1>2. cn.wire \o FrameBytes(sTemp) \in Seq(ByteSet)
    BY <1>1, FrameOfBytes, ConcatProperties DEF TypeOK, Connection
  <1>3. \E w \in Seq(ByteSet), f \in {"none", "rst", "epipe"} :
          conns' = [conns EXCEPT ![sConn] =
                      [@ EXCEPT !.arrived = cn.arrived, !.wire = w, !.fault = f]]
    <2>1. CASE cn.open
      <3>1. conns' = [conns EXCEPT ![sConn] =
                       [@ EXCEPT !.arrived = cn.arrived,
                                 !.wire = cn.wire \o FrameBytes(sTemp), !.fault = cn.fault]]
        BY <1>1, <2>1 DEF SendFrame, Connection
      <3>2. QED
        BY <1>1, <1>2, <3>1 DEF Connection
    <2>2. CASE ~cn.open
      <3>1. conns' = [conns EXCEPT ![sConn] =
                       [@ EXCEPT !.arrived = cn.arrived, !.wire = cn.wire,
                                 !.fault = "epipe"]]
        BY <1>1, <2>2 DEF SendFrame, Connection
      <3>2. QED
        BY <1>1, <3>1 DEF Connection
    <2>3. QED
      BY <2>1, <2>2
  <1>4. /\ DOMAIN conns' = DOMAIN conns
        /\ \A j \in DOMAIN conns :
             /\ conns'[j] \in Connection
             /\ conns'[j].owner = conns[j].owner /\ conns'[j].open = conns[j].open
             /\ conns'[j].server = conns[j].server
    <2>1. cn.arrived \in Seq(ByteSet)
      BY <1>1 DEF Connection
    <2>2. PICK w \in Seq(ByteSet), f \in {"none", "rst", "epipe"} :
            conns' = [conns EXCEPT ![sConn] =
                        [@ EXCEPT !.arrived = cn.arrived, !.wire = w, !.fault = f]]
      BY <1>3
    <2>3. QED
      BY <1>1, <2>1, <2>2, OneConnection
  <1>5. /\ UNCHANGED <<version, breaks, queue, listening, sEnd, sConn, sTemp, clientVars>>
        /\ sPc = "send" /\ sPc' = "serve"
    BY DEF SendFrame
  <1>6. TypeOK'
    BY <1>1, <1>4, <1>5 DEF TypeOK, clientVars
  <1>7. ClientInv' /\ OpenInv' /\ ServerInv' /\ QueueInv'
    BY <1>4, <1>5, SameSockets DEF clientVars
  <1>8. QED
    BY <1>6, <1>7 DEF SocketInv

\* The server's end of one connection changes.
LEMMA MarkedEffect ==
  ASSUME TypeOK, NEW k \in DOMAIN conns, NEW end \in {"queued", "accepted", "closed"}
  PROVE  LET cs == [conns EXCEPT ![k].server = end]
         IN  /\ DOMAIN cs = DOMAIN conns
             /\ \A j \in DOMAIN conns :
                  /\ cs[j] \in Connection
                  /\ cs[j].open = conns[j].open /\ cs[j].owner = conns[j].owner
                  /\ cs[j].arrived = conns[j].arrived /\ cs[j].wire = conns[j].wire
                  /\ cs[j].server = IF j = k THEN end ELSE conns[j].server
  <1> DEFINE cs == [conns EXCEPT ![k].server = end]
  <1>1. DOMAIN cs = DOMAIN conns
    OBVIOUS
  <1>2. ASSUME NEW j \in DOMAIN conns
        PROVE  /\ cs[j] \in Connection
               /\ cs[j].open = conns[j].open /\ cs[j].owner = conns[j].owner
               /\ cs[j].arrived = conns[j].arrived /\ cs[j].wire = conns[j].wire
               /\ cs[j].server = IF j = k THEN end ELSE conns[j].server
    BY ZenonT(60) DEF TypeOK, Connection
  <1> HIDE DEF cs
  <1>3. QED
    BY <1>1, <1>2 DEF cs

\* What happens at the server's ends leaves the clients' sockets alone.
LEMMA ServerSideSockets ==
  ASSUME SocketInv, UNCHANGED clientVars,
         DOMAIN conns' \subseteq DOMAIN conns,
         \A j \in DOMAIN conns : conns[j].open => j \in DOMAIN conns',
         \A j \in DOMAIN conns' :
           /\ conns'[j] \in Connection
           /\ conns'[j].open = conns[j].open /\ conns'[j].owner = conns[j].owner
  PROVE  /\ ClientInv' /\ OpenInv'
         /\ DOMAIN conns' \subseteq ConnId
         /\ \A j \in DOMAIN conns' : conns'[j] \in Connection
  <1> USE DEF clientVars
  <1>1. ClientInv'
    BY DEF SocketInv, ClientInv
  <1>2. OpenInv'
    BY DEF SocketInv, OpenInv
  <1>3. QED
    BY <1>1, <1>2 DEF SocketInv, TypeOK

\* The server closes its end, which may remove the connection.
LEMMA CloseConnectionSockets == SocketInv /\ CloseConnection => SocketInv'
  <1> SUFFICES ASSUME SocketInv, CloseConnection PROVE SocketInv'
    OBVIOUS
  <1>1. TypeOK /\ sConn \in DOMAIN conns /\ conns[sConn].server = "accepted"
    BY DEF CloseConnection, SocketInv, ServerInv
  <1>2. /\ sPc' = "loop" /\ sConn' = 0
        /\ UNCHANGED <<version, breaks, queue, listening, sEnd, sTemp, clientVars>>
    BY DEF CloseConnection
  <1>3. /\ DOMAIN conns' \subseteq DOMAIN conns
        /\ \A j \in DOMAIN conns :
             conns[j].open \/ conns[j].server = "queued" => j \in DOMAIN conns'
        /\ \A j \in DOMAIN conns' :
             /\ conns'[j] \in Connection
             /\ conns'[j].open = conns[j].open /\ conns'[j].owner = conns[j].owner
             /\ conns'[j].server = IF j = sConn THEN "closed" ELSE conns[j].server
    <2> DEFINE cs == [conns EXCEPT ![sConn].server = "closed"]
    <2>1. /\ DOMAIN cs = DOMAIN conns
          /\ \A j \in DOMAIN conns :
               /\ cs[j] \in Connection
               /\ cs[j].open = conns[j].open /\ cs[j].owner = conns[j].owner
               /\ cs[j].server = IF j = sConn THEN "closed" ELSE conns[j].server
      BY <1>1, MarkedEffect, ZenonT(60)
    <2>2. conns' = Reap(cs)
      BY DEF CloseConnection
    <2> HIDE DEF cs
    <2>3. QED
      BY <1>1, <2>1, <2>2, ReapEffect, ZenonT(60)
  <1>4. /\ ClientInv' /\ OpenInv'
        /\ DOMAIN conns' \subseteq ConnId
        /\ \A j \in DOMAIN conns' : conns'[j] \in Connection
    BY <1>2, <1>3, ServerSideSockets
  <1>5. TypeOK'
    BY <1>1, <1>2, <1>4 DEF TypeOK, clientVars
  <1>6. ServerInv'
    BY <1>2, <1>3 DEF SocketInv, ServerInv
  <1>7. QueueInv'
    BY <1>1, <1>2, <1>3 DEF SocketInv, QueueInv
  <1>8. QED
    BY <1>4, <1>5, <1>6, <1>7 DEF SocketInv

\* The listen queue is dropped, after the server's end of one connection may
\* have changed.
LEMMA DroppedSockets ==
  ASSUME SocketInv, UNCHANGED clientVars, NEW cs,
         conns' = QueueDropped(cs), queue' = <<>>,
         DOMAIN cs = DOMAIN conns,
         \A j \in DOMAIN conns :
           /\ cs[j] \in Connection
           /\ cs[j].open = conns[j].open /\ cs[j].owner = conns[j].owner
           /\ cs[j].server = "accepted" <=> j = sConn',
         sPc' \in {"serve", "send", "shut"} <=> sConn' # 0,
         sConn' # 0 => sConn' \in DOMAIN conns
  PROVE  /\ ClientInv' /\ OpenInv' /\ ServerInv' /\ QueueInv'
         /\ queue' \in Seq(ConnId)
         /\ DOMAIN conns' \subseteq ConnId
         /\ \A j \in DOMAIN conns' : conns'[j] \in Connection
  <1>1. /\ DOMAIN conns' \subseteq DOMAIN conns
        /\ \A j \in DOMAIN conns :
             conns[j].open \/ cs[j].server = "accepted" => j \in DOMAIN conns'
        /\ \A j \in DOMAIN conns' :
             /\ conns'[j] \in Connection
             /\ conns'[j].open = conns[j].open /\ conns'[j].owner = conns[j].owner
             /\ conns'[j].server # "queued"
             /\ conns'[j].server = "accepted" <=> cs[j].server = "accepted"
    BY QueueDroppedEffect
  <1>2. /\ ClientInv' /\ OpenInv'
        /\ DOMAIN conns' \subseteq ConnId
        /\ \A j \in DOMAIN conns' : conns'[j] \in Connection
    BY <1>1, ServerSideSockets
  <1>3. queue' \in Seq(ConnId) /\ Len(queue') = 0
    OBVIOUS
  <1>4. ServerInv'
    BY <1>1 DEF ServerInv
  <1>5. QueueInv'
    BY <1>1, <1>3 DEF QueueInv
  <1>6. QED
    BY <1>2, <1>3, <1>4, <1>5

\* A failed send ends the loop, or the program with all its sockets.
LEMMA SendFailsSockets == SocketInv /\ SendFails => SocketInv'
  <1> SUFFICES ASSUME SocketInv, SendFails PROVE SocketInv'
    OBVIOUS
  <1>1. TypeOK /\ sConn \in DOMAIN conns /\ conns[sConn].server = "accepted"
    BY DEF SendFails, SocketInv, ServerInv
  <1>2. UNCHANGED <<version, breaks, sEnd, sTemp, clientVars>>
    BY DEF SendFails
  <1>3. CASE sPc' = "killed"
    <2> DEFINE cs == [conns EXCEPT ![sConn].server = "closed"]
    <2>1. /\ conns' = QueueDropped(cs) /\ queue' = <<>>
          /\ sConn' = 0 /\ listening' = FALSE
      BY <1>3 DEF SendFails
    <2>2. /\ DOMAIN cs = DOMAIN conns
          /\ \A j \in DOMAIN conns :
               /\ cs[j] \in Connection
               /\ cs[j].open = conns[j].open /\ cs[j].owner = conns[j].owner
               /\ cs[j].server = IF j = sConn THEN "closed" ELSE conns[j].server
      BY <1>1, MarkedEffect
    <2> HIDE DEF cs
    <2>3. \A j \in DOMAIN conns : cs[j].server = "accepted" <=> j = sConn'
      BY <1>1, <2>1, <2>2 DEF SocketInv, ServerInv, TypeOK, ConnId
    <2>4. /\ ClientInv' /\ OpenInv' /\ ServerInv' /\ QueueInv'
          /\ queue' \in Seq(ConnId)
          /\ DOMAIN conns' \subseteq ConnId
          /\ \A j \in DOMAIN conns' : conns'[j] \in Connection
      BY <1>2, <1>3, <2>1, <2>2, <2>3, DroppedSockets
    <2>5. TypeOK'
      BY <1>1, <1>2, <1>3, <2>1, <2>4 DEF TypeOK, clientVars
    <2>6. QED
      BY <2>4, <2>5 DEF SocketInv
  <1>4. CASE sPc' = "shut"
    <2>1. UNCHANGED <<conns, queue, listening, sConn>> /\ sPc = "send"
      BY <1>4 DEF SendFails
    <2>2. TypeOK'
      BY <1>1, <1>2, <1>4, <2>1 DEF TypeOK, clientVars
    <2>3. ClientInv' /\ OpenInv' /\ ServerInv' /\ QueueInv'
      BY <1>2, <1>4, <2>1 DEF SocketInv, ClientInv, OpenInv, ServerInv, QueueInv, clientVars
    <2>4. QED
      BY <2>2, <2>3 DEF SocketInv
  <1>5. QED
    BY <1>3, <1>4 DEF SendFails

\* Closing server_fd removes what waits in the queue, unless a blocked
\* accept() still holds the socket.
LEMMA CloseListeningSockets == SocketInv /\ CloseListening => SocketInv'
  <1> SUFFICES ASSUME SocketInv, CloseListening PROVE SocketInv'
    OBVIOUS
  <1>1. TypeOK /\ ServerInv
    BY DEF SocketInv
  <1>2. /\ listening' = FALSE
        /\ UNCHANGED <<version, breaks, sEnd, sPc, sConn, sTemp, clientVars>>
    BY DEF CloseListening
  <1>3. CASE UNCHANGED <<conns, queue>>
    BY <1>2, <1>3 DEF SocketInv, TypeOK, ClientInv, OpenInv, ServerInv, QueueInv, clientVars
  <1>4. CASE conns' = QueueDropped(conns) /\ queue' = <<>>
    <2>1. \A j \in DOMAIN conns :
            conns[j] \in Connection /\ (conns[j].server = "accepted" <=> j = sConn')
      BY <1>1, <1>2 DEF TypeOK, ServerInv, ConnId
    <2>2. /\ ClientInv' /\ OpenInv' /\ ServerInv' /\ QueueInv'
          /\ queue' \in Seq(ConnId)
          /\ DOMAIN conns' \subseteq ConnId
          /\ \A j \in DOMAIN conns' : conns'[j] \in Connection
      BY <1>1, <1>2, <1>4, <2>1, DroppedSockets DEF ServerInv
    <2>3. TypeOK'
      BY <1>1, <1>2, <2>2 DEF TypeOK, clientVars
    <2>4. QED
      BY <2>2, <2>3 DEF SocketInv
  <1>5. QED
    BY <1>3, <1>4 DEF CloseListening

\* The head of the queue becomes connection_fd.
LEMMA AcceptSockets == SocketInv /\ Accept => SocketInv'
  <1> SUFFICES ASSUME SocketInv, Accept PROVE SocketInv'
    OBVIOUS
  <1> DEFINE cs == [conns EXCEPT ![Head(queue)].server = "accepted"]
  <1>1. TypeOK /\ ServerInv /\ QueueInv /\ queue \in Seq(ConnId) /\ queue # <<>>
    BY DEF Accept, SocketInv, TypeOK
  <1>2. /\ Head(queue) = queue[1] /\ 1 \in 1 .. Len(queue) /\ Tail(queue) \in Seq(ConnId)
        /\ Len(Tail(queue)) = Len(queue) - 1 /\ Len(queue) \in Nat
        /\ \A i \in 1 .. Len(Tail(queue)) : Tail(queue)[i] = queue[i + 1]
    BY <1>1, HeadTailProperties
  <1>3. /\ Head(queue) \in DOMAIN conns /\ conns[Head(queue)].server = "queued"
        /\ \A i \in 2 .. Len(queue) : queue[i] # Head(queue)
    BY <1>1, <1>2 DEF QueueInv
  <1>4. /\ sPc = "blocked" /\ sPc' = "serve" /\ sConn' = Head(queue)
        /\ UNCHANGED <<version, breaks, listening, sEnd, sTemp, clientVars>>
    BY DEF Accept
  <1>5. /\ DOMAIN cs = DOMAIN conns
        /\ \A j \in DOMAIN conns :
             /\ cs[j] \in Connection
             /\ cs[j].open = conns[j].open /\ cs[j].owner = conns[j].owner
             /\ cs[j].server = IF j = Head(queue) THEN "accepted" ELSE conns[j].server
    BY <1>1, <1>3, MarkedEffect, ZenonT(60)
  <1>6. /\ sConn = 0 /\ sConn' # 0
        /\ \A j \in DOMAIN conns : conns[j].server # "accepted"
    BY <1>1, <1>3, <1>4 DEF ServerInv, TypeOK, ConnId
  <1>7. \/ conns' = cs /\ queue' = Tail(queue)
        \/ conns' = QueueDropped(cs) /\ queue' = <<>>
    BY DEF Accept
  <1> HIDE DEF cs
  <1>8. CASE conns' = cs /\ queue' = Tail(queue)
    <2>1. /\ ClientInv' /\ OpenInv'
          /\ DOMAIN conns' \subseteq ConnId
          /\ \A j \in DOMAIN conns' : conns'[j] \in Connection
      BY <1>4, <1>5, <1>8, ServerSideSockets
    <2>2. ServerInv'
      BY <1>3, <1>4, <1>5, <1>6, <1>8 DEF ServerInv
    <2>3. QueueInv'
      <3>1. ASSUME NEW k \in DOMAIN conns', conns'[k].server = "queued"
            PROVE  \E i \in 1 .. Len(queue') : queue'[i] = k
        <4>1. PICK i \in 1 .. Len(queue) : queue[i] = k
          BY <1>1, <1>5, <1>8, <3>1 DEF QueueInv
        <4>2. i # 1
          BY <1>2, <1>5, <1>8, <3>1, <4>1
        <4>3. i - 1 \in 1 .. Len(queue') /\ queue'[i - 1] = k
          BY <1>2, <1>8, <4>1, <4>2
        <4>4. QED
          BY <4>3
      <3>2. ASSUME NEW i \in 1 .. Len(queue')
            PROVE  /\ i + 1 \in 2 .. Len(queue) /\ queue'[i] = queue[i + 1]
                   /\ queue'[i] \in DOMAIN conns' /\ conns'[queue'[i]].server = "queued"
        <4>1. i + 1 \in 2 .. Len(queue) /\ queue'[i] = queue[i + 1]
          BY <1>2, <1>8
        <4>2. queue[i + 1] \in DOMAIN conns /\ conns[queue[i + 1]].server = "queued"
          BY <1>1, <4>1 DEF QueueInv
        <4>3. QED
          BY <1>3, <1>5, <1>8, <4>1, <4>2
      <3>3. ASSUME NEW i \in 1 .. Len(queue'), NEW j \in 1 .. Len(queue'),
                   queue'[i] = queue'[j]
            PROVE  i = j
        BY <1>1, <1>2, <3>2, <3>3 DEF QueueInv
      <3>4. QED
        BY <3>1, <3>2, <3>3 DEF QueueInv
    <2>4. TypeOK'
      BY <1>1, <1>2, <1>3, <1>4, <1>8, <2>1 DEF TypeOK, clientVars
    <2>5. QED
      BY <2>1, <2>2, <2>3, <2>4 DEF SocketInv
  <1>9. CASE conns' = QueueDropped(cs) /\ queue' = <<>>
    <2>1. /\ ClientInv' /\ OpenInv' /\ ServerInv' /\ QueueInv'
          /\ queue' \in Seq(ConnId)
          /\ DOMAIN conns' \subseteq ConnId
          /\ \A j \in DOMAIN conns' : conns'[j] \in Connection
      BY <1>3, <1>4, <1>5, <1>6, <1>9, DroppedSockets
    <2>2. TypeOK'
      BY <1>1, <1>3, <1>4, <2>1 DEF TypeOK, clientVars
    <2>3. QED
      BY <2>1, <2>2 DEF SocketInv
  <1>10. QED
    BY <1>7, <1>8, <1>9

\* The smaller of two numbers, as read() takes it.
LEMMA MinOfTwo ==
  ASSUME NEW a \in Int, NEW b \in Int
  PROVE  Min({a, b}) = IF a <= b THEN a ELSE b
  <1>1. \E x \in {a, b} : \A y \in {a, b} : x <= y
    OBVIOUS
  <1>2. Min({a, b}) \in {a, b} /\ \A y \in {a, b} : Min({a, b}) <= y
    BY <1>1 DEF Min
  <1>3. QED
    BY <1>2

\* A new connection is its client's own, and waits in the queue once.
LEMMA ConnectSockets ==
  ASSUME SocketInv, NEW c \in Clients, Connect(c)
  PROVE  SocketInv'
  <1>1. TypeOK /\ fd[c] \notin ConnId
    BY DEF Connect, SocketInv, ClientInv
  <1>2. PICK k \in (1 .. MaxConn) \ DOMAIN conns :
          /\ conns' = [j \in DOMAIN conns \cup {k} |->
                         IF j = k THEN NewConn(c) ELSE conns[j]]
          /\ queue' = Append(queue, k)
          /\ fd' = [fd EXCEPT ![c] = k]
    BY DEF Connect
  <1>3. /\ UNCHANGED <<version, breaks, serverVars, cEnd, temp, buffer>>
        /\ status' = [status EXCEPT ![c] = TRUE]
        /\ cPc' = [cPc EXCEPT ![c] = "inner"]
    BY DEF Connect, Goto
  <1>4. /\ NewConn(c) \in Connection /\ NewConn(c).owner = c /\ NewConn(c).open
        /\ NewConn(c).server = "queued"
    BY DEF NewConn, Connection
  <1>5. /\ DOMAIN conns' = DOMAIN conns \cup {k} /\ conns'[k] = NewConn(c)
        /\ \A j \in DOMAIN conns : j # k /\ conns'[j] = conns[j]
        /\ fd'[c] = k /\ \A d \in Clients : d # c => fd'[d] = fd[d] /\ cPc'[d] = cPc[d]
        /\ cPc'[c] = "inner" /\ k \in ConnId
    BY <1>1, <1>2, <1>3 DEF TypeOK, ConnId
  <1>6. /\ queue' \in Seq(ConnId) /\ Len(queue') = Len(queue) + 1 /\ Len(queue) \in Nat
        /\ \A i \in 1 .. Len(queue) : queue'[i] = queue[i]
        /\ queue'[Len(queue) + 1] = k
    <2>1. queue \in Seq(ConnId) /\ k \in ConnId
      BY <1>1, <1>5 DEF TypeOK
    <2>2. QED
      BY <1>2, <2>1, AppendProperties
  <1>7. TypeOK'
    <2>1. /\ DOMAIN conns' \subseteq ConnId
          /\ \A j \in DOMAIN conns' : conns'[j] \in Connection
      BY <1>1, <1>4, <1>5 DEF TypeOK
    <2>2. /\ fd' \in [Clients -> ConnId \cup {Unset, Stale, None, Bare}]
          /\ status' \in [Clients -> BOOLEAN]
          /\ cPc' \in [Clients -> {"loop", "connect", "sleep", "inner", "read",
                                  "install", "exit", "done"}]
      BY <1>1, <1>2, <1>3, <1>5 DEF TypeOK
    <2>3. QED
      BY <1>1, <1>3, <1>6, <2>1, <2>2 DEF TypeOK, serverVars
  <1>8. ClientInv' /\ OpenInv'
    <2>1. ClientInv'
      BY <1>4, <1>5 DEF SocketInv, ClientInv
    <2>2. ASSUME NEW j \in DOMAIN conns', conns'[j].open
          PROVE  fd'[conns'[j].owner] = j
      <3>1. CASE j = k
        BY <1>4, <1>5, <3>1
      <3>2. CASE j # k
        <4>1. j \in DOMAIN conns /\ conns'[j] = conns[j] /\ conns[j] \in Connection
          BY <1>1, <1>5, <3>2 DEF TypeOK
        <4>2. fd[conns[j].owner] = j /\ conns[j].owner \in Clients /\ j \in ConnId
          BY <1>1, <2>2, <4>1 DEF SocketInv, OpenInv, TypeOK, Connection
        <4>3. QED
          BY <1>1, <1>5, <4>1, <4>2
      <3>3. QED
        BY <3>1, <3>2
    <2>3. QED
      BY <2>1, <2>2 DEF OpenInv
  <1>9. ServerInv'
    BY <1>3, <1>4, <1>5 DEF SocketInv, ServerInv, serverVars
  <1>10. QueueInv'
    <2>1. ASSUME NEW j \in DOMAIN conns', conns'[j].server = "queued"
          PROVE  \E i \in 1 .. Len(queue') : queue'[i] = j
      <3>1. CASE j = k
        BY <1>6, <3>1
      <3>2. CASE j # k
        <4>1. PICK i \in 1 .. Len(queue) : queue[i] = j
          BY <1>5, <2>1, <3>2 DEF SocketInv, QueueInv
        <4>2. QED
          BY <1>6, <4>1
      <3>3. QED
        BY <3>1, <3>2
    <2>2. ASSUME NEW i \in 1 .. Len(queue')
          PROVE  /\ \/ i = Len(queue) + 1 /\ queue'[i] = k
                    \/ /\ i \in 1 .. Len(queue) /\ queue'[i] = queue[i]
                       /\ queue[i] \in DOMAIN conns
                 /\ queue'[i] \in DOMAIN conns' /\ conns'[queue'[i]].server = "queued"
      <3>1. CASE i = Len(queue) + 1
        BY <1>4, <1>5, <1>6, <3>1
      <3>2. CASE i # Len(queue) + 1
        <4>1. i \in 1 .. Len(queue)
          BY <1>6, <3>2
        <4>2. queue[i] \in DOMAIN conns /\ conns[queue[i]].server = "queued"
          BY <4>1 DEF SocketInv, QueueInv
        <4>3. QED
          BY <1>5, <1>6, <4>1, <4>2
      <3>3. QED
        BY <3>1, <3>2
    <2>3. ASSUME NEW i \in 1 .. Len(queue'), NEW j \in 1 .. Len(queue'),
                 queue'[i] = queue'[j]
          PROVE  i = j
      BY <1>5, <2>2, <2>3 DEF SocketInv, QueueInv
    <2>4. QED
      BY <2>1, <2>2, <2>3 DEF QueueInv
  <1>11. QED
    BY <1>7, <1>8, <1>9, <1>10 DEF SocketInv

\* What a client gets from read(): the bytes it takes off its connection, and
\* the rest of temp_buffer.
LEMMA ReadEffect ==
  ASSUME SocketInv, NEW c \in Clients, Read(c)
  PROVE  \E n \in 1 .. BUFFLEN :
           LET k    == fd[c]
               left == SubSeq(conns[k].arrived, n + 1, Len(conns[k].arrived))
           IN  /\ k \in DOMAIN conns /\ conns[k].owner = c /\ conns[k].open
               /\ n <= Len(conns[k].arrived)
               /\ n = BUFFLEN \/ n = Len(conns[k].arrived)
               /\ left \in Seq(ByteSet)
               /\ conns' = [conns EXCEPT ![k] = [@ EXCEPT !.arrived = left,
                                !.wire = conns[k].wire, !.fault = conns[k].fault]]
               /\ temp'[c] \in [1 .. BUFFLEN -> ByteSet]
               /\ \A j \in 1 .. n : temp'[c][j] = conns[k].arrived[j]
               /\ \A d \in Clients : d # c => temp'[d] = temp[d]
               /\ temp' \in [Clients -> [1 .. BUFFLEN -> ByteSet]]
  <1> DEFINE k == fd[c]
             arrived == conns[k].arrived
             n == Min({BUFFLEN, Len(arrived)})
  <1>1. TypeOK /\ k \in DOMAIN conns /\ conns[k].owner = c /\ conns[k].open
    BY DEF Read, SocketInv, ClientInv
  <1>2. conns[k] \in Connection /\ arrived \in Seq(ByteSet)
    BY <1>1 DEF TypeOK, Connection
  <1>3. /\ n > 0
        /\ conns' = [conns EXCEPT ![k].arrived = SubSeq(@, n + 1, Len(@))]
        /\ \E rest \in {temp[c], FrameBytes(Junk)} :
             temp' = [temp EXCEPT ![c] = SubSeq(arrived, 1, n) \o SubSeq(rest, n + 1, BUFFLEN)]
    BY DEF Read
  <1>4. /\ n \in 1 .. BUFFLEN /\ n <= Len(arrived)
        /\ n = BUFFLEN \/ n = Len(arrived)
    <2>1. BUFFLEN \in Int /\ Len(arrived) \in Int
      BY <1>2, LinkAssumption
    <2>2. n = IF BUFFLEN <= Len(arrived) THEN BUFFLEN ELSE Len(arrived)
      BY <2>1, MinOfTwo
    <2> HIDE DEF n
    <2>3. QED
      BY <1>3, <2>1, <2>2
  <1> HIDE DEF n
  <1>5. SubSeq(arrived, n + 1, Len(arrived)) \in Seq(ByteSet)
    BY <1>2, <1>4, PartOfBytes
  <1>6. conns' = [conns EXCEPT ![k] =
                   [@ EXCEPT !.arrived = SubSeq(arrived, n + 1, Len(arrived)),
                             !.wire = conns[k].wire, !.fault = conns[k].fault]]
    BY <1>2, <1>3 DEF Connection
  <1>7. PICK rest \in {temp[c], FrameBytes(Junk)} :
          temp' = [temp EXCEPT ![c] = SubSeq(arrived, 1, n) \o SubSeq(rest, n + 1, BUFFLEN)]
    BY <1>3
  <1>8. rest \in Seq(ByteSet) /\ Len(rest) = BUFFLEN
    <2>1. rest \in [1 .. BUFFLEN -> ByteSet]
      BY <1>1, FrameOfBytes DEF TypeOK
    <2>2. QED
      BY <2>1, LinkAssumption
  <1> DEFINE first == SubSeq(arrived, 1, n)
             last  == SubSeq(rest, n + 1, BUFFLEN)
  <1>9. /\ first \in Seq(ByteSet) /\ Len(first) = n
        /\ \A j \in 1 .. n : first[j] = arrived[j]
    BY <1>2, <1>4, PartOfBytes
  <1>10. last \in Seq(ByteSet) /\ Len(last) = BUFFLEN - n
    BY <1>4, <1>8, PartOfBytes, LinkAssumption
  <1> HIDE DEF first, last
  <1>11. /\ first \o last \in Seq(ByteSet) /\ Len(first \o last) = BUFFLEN
         /\ \A j \in 1 .. n : (first \o last)[j] = arrived[j]
    <2>1. /\ first \o last \in Seq(ByteSet)
          /\ Len(first \o last) = Len(first) + Len(last)
          /\ \A j \in 1 .. Len(first) + Len(last) : (first \o last)[j] =
               IF j <= Len(first) THEN first[j] ELSE last[j - Len(first)]
      BY <1>9, <1>10, ConcatProperties
    <2>2. BUFFLEN \in Nat /\ n \in Nat /\ n <= BUFFLEN
      BY <1>4, LinkAssumption
    <2>3. QED
      BY <1>9, <1>10, <2>1, <2>2
  <1>12. first \o last \in [1 .. BUFFLEN -> ByteSet]
    BY <1>11, LenProperties
  <1>13. temp' = [temp EXCEPT ![c] = first \o last]
    BY <1>7 DEF first, last
  <1>14. /\ temp' \in [Clients -> [1 .. BUFFLEN -> ByteSet]]
         /\ temp'[c] = first \o last
         /\ \A d \in Clients : d # c => temp'[d] = temp[d]
    BY <1>1, <1>12, <1>13 DEF TypeOK
  <1>15. QED
    BY <1>1, <1>4, <1>5, <1>6, <1>11, <1>12, <1>14, ZenonT(60)

\* A read that returns bytes, or none at the end of the stream.
LEMMA ReadSockets ==
  ASSUME SocketInv, NEW c \in Clients, Read(c)
  PROVE  SocketInv'
  <1>1. TypeOK
    BY DEF SocketInv
  <1>2. PICK left \in Seq(ByteSet) :
          /\ fd[c] \in DOMAIN conns
          /\ conns' = [conns EXCEPT ![fd[c]] = [@ EXCEPT !.arrived = left,
                          !.wire = conns[fd[c]].wire, !.fault = conns[fd[c]].fault]]
          /\ temp' \in [Clients -> [1 .. BUFFLEN -> ByteSet]]
    BY ReadEffect
  <1>3. /\ DOMAIN conns' = DOMAIN conns
        /\ \A j \in DOMAIN conns :
             /\ conns'[j] \in Connection
             /\ conns'[j].owner = conns[j].owner /\ conns'[j].open = conns[j].open
             /\ conns'[j].server = conns[j].server
    <2>1. /\ conns[fd[c]].wire \in Seq(ByteSet)
          /\ conns[fd[c]].fault \in {"none", "rst", "epipe"}
      BY <1>1, <1>2 DEF TypeOK, Connection
    <2>2. QED
      BY <1>1, <1>2, <2>1, OneConnection
  <1>4. /\ UNCHANGED <<version, breaks, queue, serverVars, cEnd, fd, status, buffer>>
        /\ cPc[c] = "read" /\ cPc' = [cPc EXCEPT ![c] = "install"]
    BY DEF Read, Goto
  <1>5. TypeOK'
    BY <1>1, <1>2, <1>3, <1>4 DEF TypeOK, serverVars
  <1>6. \A d \in Clients :
          cPc'[d] = cPc[d] \/ (cPc[d] = "read" /\ cPc'[d] = "install")
    BY <1>1, <1>4 DEF TypeOK
  <1>7. ClientInv' /\ OpenInv' /\ ServerInv' /\ QueueInv'
    BY <1>3, <1>4, <1>6, SameSockets DEF serverVars
  <1>8. QED
    BY <1>5, <1>7 DEF SocketInv

\* A client that closes its end holds no socket afterwards, and the server's
\* ends are as they were.
LEMMA ClosedSockets ==
  ASSUME SocketInv, NEW c \in Clients, fd[c] \in ConnId,
         conns' = ClosedByClient(fd[c]),
         NEW x \in {Stale, None}, fd' = [fd EXCEPT ![c] = x],
         NEW pc \in {"loop", "done"}, cPc' = [cPc EXCEPT ![c] = pc],
         UNCHANGED <<queue, serverVars>>
  PROVE  /\ ClientInv' /\ OpenInv' /\ ServerInv' /\ QueueInv'
         /\ DOMAIN conns' \subseteq ConnId
         /\ \A j \in DOMAIN conns' : conns'[j] \in Connection
  <1> DEFINE k == fd[c]
  <1>1. /\ TypeOK /\ k \in DOMAIN conns /\ conns[k].owner = c
        /\ \A j \in DOMAIN conns : conns[j] \in Connection
    BY DEF SocketInv, ClientInv, TypeOK
  <1>2. /\ DOMAIN conns' \subseteq DOMAIN conns
        /\ \A j \in DOMAIN conns :
             (j # k /\ conns[j].open) \/ conns[j].server # "closed" => j \in DOMAIN conns'
        /\ \A j \in DOMAIN conns' :
             /\ conns'[j] \in Connection
             /\ conns'[j].owner = conns[j].owner /\ conns'[j].server = conns[j].server
             /\ conns'[j].open => j # k /\ conns[j].open
             /\ j # k => conns'[j] = conns[j]
    BY <1>1, ClosedByClientEffect
  <1>3. /\ fd'[c] = x /\ x \notin ConnId /\ cPc'[c] = pc
        /\ \A d \in Clients : d # c => fd'[d] = fd[d] /\ cPc'[d] = cPc[d]
    BY <1>1 DEF TypeOK, ConnId, Stale, None
  <1>4. ASSUME NEW j \in DOMAIN conns', conns'[j].open
        PROVE  fd'[conns'[j].owner] = j
    <2>1. j # k /\ j \in DOMAIN conns /\ conns[j].open /\ conns'[j].owner = conns[j].owner
      BY <1>2, <1>4
    <2>2. fd[conns[j].owner] = j /\ conns[j].owner \in Clients
      BY <1>1, <2>1 DEF SocketInv, OpenInv, Connection
    <2>3. QED
      BY <1>3, <2>1, <2>2
  <1>5. ASSUME NEW d \in Clients
        PROVE  /\ fd'[d] \in ConnId =>
                    fd'[d] \in DOMAIN conns' /\ conns'[fd'[d]].owner = d /\ conns'[fd'[d]].open
               /\ cPc'[d] \in {"inner", "read", "install"} => fd'[d] \in ConnId
               /\ cPc'[d] \in {"loop", "connect", "sleep", "done"} => fd'[d] \notin ConnId
    <2>1. CASE d = c
      BY <1>3, <2>1
    <2>2. CASE d # c
      <3>1. fd'[d] = fd[d] /\ cPc'[d] = cPc[d]
        BY <1>3, <2>2
      <3>2. ASSUME fd[d] \in ConnId
            PROVE  /\ fd[d] \in DOMAIN conns' /\ fd[d] # k
                   /\ conns[fd[d]].owner = d /\ conns[fd[d]].open
        BY <1>1, <1>2, <2>2, <3>2 DEF SocketInv, ClientInv
      <3>3. QED
        BY <1>2, <3>1, <3>2 DEF SocketInv, ClientInv
    <2>3. QED
      BY <2>1, <2>2
  <1>6. ServerInv'
    BY <1>1, <1>2 DEF SocketInv, ServerInv, serverVars
  <1>7. QueueInv'
    BY <1>1, <1>2 DEF SocketInv, QueueInv, serverVars
  <1>8. QED
    BY <1>1, <1>2, <1>4, <1>5, <1>6, <1>7 DEF ClientInv, OpenInv, TypeOK

\* A read that fails: the client closes its socket and starts over.
LEMMA ReadFailsSockets ==
  ASSUME SocketInv, NEW c \in Clients, ReadFails(c)
  PROVE  SocketInv'
  <1>1. TypeOK /\ fd[c] \in ConnId
    BY DEF ReadFails, SocketInv, ClientInv
  <1>2. /\ conns' = ClosedByClient(fd[c]) /\ fd' = [fd EXCEPT ![c] = Stale]
        /\ status' = [status EXCEPT ![c] = FALSE] /\ cPc' = [cPc EXCEPT ![c] = "loop"]
        /\ UNCHANGED <<version, breaks, queue, serverVars, cEnd, temp, buffer>>
    BY DEF ReadFails, Goto
  <1>3. /\ ClientInv' /\ OpenInv' /\ ServerInv' /\ QueueInv'
        /\ DOMAIN conns' \subseteq ConnId
        /\ \A j \in DOMAIN conns' : conns'[j] \in Connection
    BY <1>1, <1>2, ClosedSockets
  <1>4. TypeOK'
    BY <1>1, <1>2, <1>3 DEF TypeOK, serverVars
  <1>5. QED
    BY <1>3, <1>4 DEF SocketInv

\* The client's worker ends.
LEMMA ClientExitSockets ==
  ASSUME SocketInv, NEW c \in Clients, ClientExit(c)
  PROVE  SocketInv'
  <1>1. TypeOK
    BY DEF SocketInv
  <1>2. /\ status' = [status EXCEPT ![c] = FALSE] /\ cPc' = [cPc EXCEPT ![c] = "done"]
        /\ UNCHANGED <<version, breaks, queue, serverVars, cEnd, temp, buffer>>
        /\ fd' = [fd EXCEPT ![c] = None] \/ (fd[c] = Unset /\ fd' = fd)
    BY DEF ClientExit, Goto
  <1>3. /\ ClientInv' /\ OpenInv' /\ ServerInv' /\ QueueInv'
        /\ DOMAIN conns' \subseteq ConnId
        /\ \A j \in DOMAIN conns' : conns'[j] \in Connection
    <2>1. CASE fd[c] \in ConnId
      <3>1. conns' = ClosedByClient(fd[c]) /\ fd' = [fd EXCEPT ![c] = None]
        BY <1>2, <2>1 DEF ClientExit, ConnId, Bare, Unset
      <3>2. QED
        BY <1>2, <2>1, <3>1, ClosedSockets
    <2>2. CASE fd[c] \notin ConnId
      <3>1. conns' = conns
        BY <1>1, <2>2, LinkAssumption, SMTT(30) DEF ClientExit, TypeOK, ConnId, Bare, Unset, Stale, None
      <3>2. /\ fd'[c] \notin ConnId /\ cPc'[c] = "done"
            /\ \A d \in Clients : d # c => fd'[d] = fd[d] /\ cPc'[d] = cPc[d]
        BY <1>1, <1>2, <2>2 DEF TypeOK, ConnId, None
      <3>3. ServerInv' /\ QueueInv'
        BY <1>2, <3>1 DEF SocketInv, ServerInv, QueueInv, serverVars
      <3>4. ClientInv'
        BY <3>1, <3>2 DEF SocketInv, ClientInv
      <3>5. ASSUME NEW j \in DOMAIN conns, conns[j].open
            PROVE  fd'[conns[j].owner] = j
        <4>1. fd[conns[j].owner] = j /\ conns[j].owner \in Clients /\ j \in ConnId
          BY <1>1, <3>5 DEF SocketInv, OpenInv, TypeOK, Connection
        <4>2. QED
          BY <2>2, <3>2, <4>1
      <3>6. OpenInv'
        BY <3>1, <3>5 DEF OpenInv
      <3>7. QED
        BY <1>1, <3>1, <3>3, <3>4, <3>6 DEF TypeOK
    <2>3. QED
      BY <2>1, <2>2
  <1>4. TypeOK'
    <2>1. /\ fd' \in [Clients -> ConnId \cup {Unset, Stale, None, Bare}]
          /\ status' \in [Clients -> BOOLEAN]
          /\ cPc' \in [Clients -> {"loop", "connect", "sleep", "inner", "read",
                                  "install", "exit", "done"}]
      BY <1>1, <1>2 DEF TypeOK
    <2>2. QED
      BY <1>1, <1>2, <1>3, <2>1 DEF TypeOK, serverVars
  <1>5. QED
    BY <1>3, <1>4 DEF SocketInv

\* Every step of either program keeps account of the sockets.
LEMMA NextSockets == SocketInv /\ [Next]_vars => SocketInv'
  <1> SUFFICES ASSUME SocketInv, [Next]_vars PROVE SocketInv'
    OBVIOUS
  <1>1. CASE UNCHANGED vars
    BY <1>1 DEF vars, serverVars, clientVars, SocketInv, TypeOK, ClientInv, OpenInv,
                ServerInv, QueueInv
  <1>2. CASE Network
    BY <1>2, NetworkSockets
  <1>3. CASE (\E v \in Versions : GuiSet(v)) \/ ServerQuit
    BY <1>3, ServerQuietSockets
  <1>4. CASE ServerStep
    BY <1>4, ServerQuietSockets, AcceptSockets, SendFrameSockets, SendFailsSockets,
       CloseConnectionSockets DEF ServerStep
  <1>5. CASE CloseListening
    BY <1>5, CloseListeningSockets
  <1>6. ASSUME NEW c \in Clients, ClientStep(c) \/ ClientQuit(c) PROVE SocketInv'
    BY <1>6, ClientQuietSockets, ConnectSockets, ReadSockets, ReadFailsSockets,
       ClientExitSockets DEF ClientStep
  <1>7. QED
    BY <1>1, <1>2, <1>3, <1>4, <1>5, <1>6 DEF Next

\* The account of the sockets holds throughout, with segmented reads too.
LEMMA SocketsInvariant == Spec => []SocketInv
  BY InitSockets, NextSockets, PTL DEF Spec

\* Every variable of the two workers and of the kernel keeps its type, for
\* every number of clients, connections and failures, with whole frames and
\* with frames cut anywhere.
THEOREM LinkTypes == Spec => []TypeOK
  <1>1. SocketInv => TypeOK
    BY DEF SocketInv
  <1>2. QED
    BY <1>1, SocketsInvariant, PTL

\* No path through the worker of either program loses a socket, whichever
\* calls fail and whenever the two windows are closed.
THEOREM SocketsKept == Spec => []NoSocketLeak
  <1>1. ASSUME SocketInv PROVE NoSocketLeak
    <2> USE <1>1 DEF SocketInv
    <2>1. ASSUME NEW c \in Clients
          PROVE  {k \in DOMAIN conns : conns[k].owner = c /\ conns[k].open} = {fd[c]} \cap ConnId
      BY <2>1 DEF TypeOK, ClientInv, OpenInv
    <2>2. {k \in DOMAIN conns : conns[k].server = "accepted"} = {sConn} \ {0}
      BY LinkAssumption DEF TypeOK, ServerInv, ConnId
    <2>3. queue \in Seq(ConnId) /\ DOMAIN queue = 1 .. Len(queue) /\ Len(queue) \in Nat
      BY LenProperties DEF TypeOK
    <2>4. {k \in DOMAIN conns : conns[k].server = "queued"} = Range(queue)
      BY <2>3 DEF QueueInv, Range
    <2>5. Cardinality(Range(queue)) = Len(queue)
      <3>1. queue \in Bijection(1 .. Len(queue), Range(queue))
        <4> DEFINE D == 1 .. Len(queue)
                   R == {queue[i] : i \in D}
        <4>1. Range(queue) = R
          BY <2>3 DEF Range
        <4>2. queue \in [D -> R]
          BY <2>3, LenProperties
        <4>3. \A i, j \in D : queue[i] = queue[j] => i = j
          BY DEF QueueInv
        <4>4. \A x \in R : \E i \in D : queue[i] = x
          OBVIOUS
        <4> HIDE DEF D, R
        <4>5. queue \in Bijection(D, R)
          BY <4>2, <4>3, <4>4 DEF Bijection, Injection, IsInjective, Surjection
        <4>6. QED
          BY <4>1, <4>5 DEF D
      <3>2. ExistsBijection(1 .. Len(queue), Range(queue))
        BY <3>1 DEF ExistsBijection
      <3>3. QED
        BY <2>3, <3>2, FS_CountingElements
    <2>6. QED
      BY <2>1, <2>2, <2>4, <2>5 DEF NoSocketLeak
  <1>2. QED
    BY <1>1, SocketsInvariant, PTL
-----------------------------------------------------------------------------
(* Streams of frames.                                                      *)

Whole(n) == n % BUFFLEN = 0

\* Bytes that are whole frames, one after the other.
Framed(q) ==
  /\ Whole(Len(q))
  /\ \A o \in 0 .. Len(q) - 1, j \in 1 .. BUFFLEN :
       Whole(o) => q[o + j] = Byte(q[o + 1].version, j)

\* Frames that come in the order in which their versions were made, none of
\* them older than lo or newer than hi.
Stream(q, lo, hi) ==
  /\ q \in Seq(ByteSet)
  /\ Framed(q)
  /\ \A i, j \in 1 .. Len(q) : i <= j => q[i].version <= q[j].version
  /\ \A i \in 1 .. Len(q) : lo <= q[i].version /\ q[i].version <= hi

\* The newest version a client has got hold of.
Got(c) == IF cPc[c] = "install" THEN temp[c][1].version ELSE buffer[c][1].version

FrameUpTo(frame, lo, hi) ==
  \E v \in Versions : frame = FrameBytes(v) /\ lo <= v /\ v <= hi

\* What is under way on a connection is newer than what its client has got.
StreamInv ==
  \A k \in DOMAIN conns :
    /\ Whole(Len(conns[k].arrived))
    /\ Stream(conns[k].arrived \o conns[k].wire, Got(conns[k].owner), sTemp)
    /\ ~conns[k].open => conns[k].arrived = <<>> /\ conns[k].wire = <<>>

\* No client has a version the server has not copied.
GotInv ==
  /\ sTemp <= version
  /\ \A c \in Clients :
       /\ FrameUpTo(buffer[c], 0, sTemp)
       /\ cPc[c] = "install" => FrameUpTo(temp[c], buffer[c][1].version, sTemp)

OrderInv == StreamInv /\ GotInv
-----------------------------------------------------------------------------

\* Nothing and one frame are whole frames.
LEMMA WholeZero == Whole(0) /\ Whole(BUFFLEN)
  BY LinkAssumption DEF Whole

\* Whole frames are a number of frames.
LEMMA WholeFactor ==
  ASSUME NEW a \in Nat
  PROVE  Whole(a) <=> \E m \in Nat : a = BUFFLEN * m
  <1>1. ASSUME Whole(a) PROVE \E m \in Nat : a = BUFFLEN * m
    <2>1. a = BUFFLEN * (a \div BUFFLEN) /\ a \div BUFFLEN \in Nat
      BY <1>1, LinkAssumption DEF Whole
    <2>2. QED
      BY <2>1
  <1>2. ASSUME NEW m \in Nat, a = BUFFLEN * m PROVE Whole(a)
    BY <1>2, LinkAssumption DEF Whole
  <1>3. QED
    BY <1>1, <1>2

\* Whole frames added to and taken off whole frames.
LEMMA WholeSum ==
  ASSUME NEW a \in Nat, NEW b \in Nat, Whole(a)
  PROVE  /\ Whole(b) => Whole(a + b)
         /\ b >= a /\ Whole(b) => Whole(b - a)
         /\ Whole(a + b) => Whole(b)
  <1>1. PICK m \in Nat : a = BUFFLEN * m
    BY WholeFactor
  <1>2. ASSUME Whole(b) PROVE Whole(a + b)
    <2>1. PICK n \in Nat : b = BUFFLEN * n
      BY <1>2, WholeFactor
    <2>2. a + b = BUFFLEN * (m + n) /\ m + n \in Nat /\ a + b \in Nat
      BY <1>1, <2>1, LinkAssumption
    <2>3. QED
      BY <2>2, WholeFactor
  <1>3. ASSUME NEW d \in Nat, d >= a, Whole(d) PROVE Whole(d - a)
    <2>1. PICK n \in Nat : d = BUFFLEN * n
      BY <1>3, WholeFactor
    <2>2. d - a = BUFFLEN * (n - m)
      BY <1>1, <2>1, LinkAssumption
    <2>3. n >= m
      BY <1>1, <1>3, <2>1, LinkAssumption
    <2>4. n - m \in Nat /\ d - a \in Nat
      BY <1>3, <2>3
    <2>5. QED
      BY <2>2, <2>4, WholeFactor
  <1>4. ASSUME Whole(a + b) PROVE Whole(b)
    <2>1. a + b \in Nat /\ a + b >= a /\ (a + b) - a = b
      OBVIOUS
    <2>2. QED
      BY <1>3, <1>4, <2>1
  <1>5. QED
    BY <1>2, <1>3, <1>4

\* There is no piece shorter than a frame.
LEMMA WholeLeast ==
  ASSUME NEW a \in Nat, Whole(a), a > 0
  PROVE  a >= BUFFLEN
  BY LinkAssumption DEF Whole

\* A byte shows its version.
LEMMA ByteTypes ==
  /\ \A b \in ByteSet : b.version \in Int
  /\ \A v \in Versions \cup {Junk}, j \in 1 .. BUFFLEN :
       Byte(v, j) \in ByteSet /\ Byte(v, j).version = v
  BY LinkAssumption DEF ByteSet, Byte, Junk

\* An empty connection is a stream.
LEMMA StreamEmpty ==
  ASSUME NEW lo, NEW hi
  PROVE  Stream(<<>>, lo, hi)
  <1>1. <<>> \in Seq(ByteSet) /\ Len(<<>>) = 0
    OBVIOUS
  <1>2. Framed(<<>>)
    BY <1>1, WholeZero DEF Framed
  <1>3. QED
    BY <1>1, <1>2 DEF Stream

\* The server adds a frame that is not older than any before it.
LEMMA StreamAppend ==
  ASSUME NEW q, NEW lo \in Int, NEW hi \in Int, Stream(q, lo, hi),
         NEW v \in Versions, lo <= v, hi <= v
  PROVE  Stream(q \o FrameBytes(v), lo, v)
  <1> DEFINE new == q \o FrameBytes(v)
             L   == Len(q)
  <1>1. q \in Seq(ByteSet) /\ L \in Nat /\ Whole(L) /\ BUFFLEN \in Nat \ {0}
    BY LinkAssumption DEF Stream, Framed
  <1>2. /\ FrameBytes(v) \in Seq(ByteSet) /\ Len(FrameBytes(v)) = BUFFLEN
        /\ \A j \in 1 .. BUFFLEN : FrameBytes(v)[j] = Byte(v, j) /\ Byte(v, j).version = v
    BY FrameOfBytes, ByteTypes
  <1>3. /\ new \in Seq(ByteSet) /\ Len(new) = L + BUFFLEN
        /\ \A i \in 1 .. L + BUFFLEN :
             new[i] = IF i <= L THEN q[i] ELSE FrameBytes(v)[i - L]
    BY <1>1, <1>2, ConcatProperties
  <1>4. /\ \A i \in 1 .. L : new[i] = q[i]
        /\ \A j \in 1 .. BUFFLEN : new[L + j] = Byte(v, j)
    BY <1>1, <1>2, <1>3
  <1> HIDE DEF new
  <1>5. Framed(new)
    <2>1. Whole(Len(new))
      BY <1>1, <1>3, WholeSum, WholeZero
    <2>2. ASSUME NEW o \in 0 .. Len(new) - 1, NEW j \in 1 .. BUFFLEN, Whole(o)
          PROVE  new[o + j] = Byte(new[o + 1].version, j)
      <3>1. CASE o < L
        <4>1. o + BUFFLEN <= L
          <5>1. o \in Nat /\ L >= o /\ L - o \in Nat /\ L - o > 0
            BY <1>1, <3>1
          <5>2. Whole(L - o)
            BY <1>1, <2>2, <5>1, WholeSum
          <5>3. QED
            BY <1>1, <5>1, <5>2, WholeLeast
        <4>2. o + j \in 1 .. L /\ o + 1 \in 1 .. L /\ o \in 0 .. L - 1
          BY <1>1, <2>2, <4>1
        <4>3. q[o + j] = Byte(q[o + 1].version, j)
          BY <2>2, <4>2 DEF Stream, Framed
        <4>4. QED
          BY <1>4, <4>2, <4>3
      <3>2. CASE o >= L
        <4>1. o = L
          <5>1. o - L \in Nat /\ o - L < BUFFLEN /\ o \in Nat
            BY <1>1, <1>3, <3>2
          <5>2. Whole(o - L)
            BY <1>1, <2>2, <3>2, <5>1, WholeSum
          <5>3. QED
            BY <1>1, <5>1, <5>2, WholeLeast
        <4>2. 1 \in 1 .. BUFFLEN
          BY <1>1
        <4>3. new[o + j] = Byte(v, j) /\ new[o + 1] = Byte(v, 1)
          BY <1>4, <4>1, <4>2
        <4>4. QED
          BY <1>2, <4>2, <4>3
      <3>3. QED
        BY <1>1, <3>1, <3>2
    <2>3. QED
      BY <2>1, <2>2 DEF Framed
  <1>6. ASSUME NEW i \in 1 .. Len(new)
        PROVE  /\ new[i].version \in Int
               /\ \/ i <= L /\ new[i].version = q[i].version
                  \/ i > L /\ new[i].version = v
    <2>1. CASE i <= L
      BY <1>1, <1>4, <2>1, ByteTypes
    <2>2. CASE i > L
      <3>1. i - L \in 1 .. BUFFLEN /\ i = L + (i - L)
        BY <1>1, <1>3, <2>2
      <3>2. new[L + (i - L)] = Byte(v, i - L) /\ Byte(v, i - L).version = v
        BY <1>2, <1>4, <3>1
      <3>3. v \in Int /\ new[i].version = v
        BY <3>1, <3>2, LinkAssumption
      <3>4. QED
        BY <2>2, <3>3
    <2>3. QED
      BY <1>1, <2>1, <2>2
  <1>7. ASSUME NEW i \in 1 .. Len(new), NEW j \in 1 .. Len(new), i <= j
        PROVE  new[i].version <= new[j].version
    <2>1. v \in Int /\ \A n \in 1 .. L : q[n].version \in Int /\ q[n].version <= v
      <3>1. \A n \in 1 .. L : q[n] \in ByteSet /\ q[n].version <= hi
        BY <1>1 DEF Stream
      <3>2. QED
        BY <3>1, ByteTypes, LinkAssumption
    <2>2. CASE j <= L
      <3>1. i \in 1 .. L /\ j \in 1 .. L
        BY <1>1, <1>7, <2>2
      <3>2. q[i].version <= q[j].version
        BY <1>7, <3>1 DEF Stream
      <3>3. QED
        BY <1>4, <3>1, <3>2
    <2>3. CASE i <= L /\ j > L
      <3>1. i \in 1 .. L
        BY <1>1, <2>3
      <3>2. new[i].version = q[i].version /\ new[j].version = v
        BY <1>4, <1>6, <2>3, <3>1
      <3>3. QED
        BY <2>1, <3>1, <3>2
    <2>4. CASE i > L /\ j > L
      <3>1. new[i].version = v /\ new[j].version = v
        BY <1>6, <2>4
      <3>2. QED
        BY <2>1, <3>1
    <2>5. QED
      BY <1>1, <1>3, <1>7, <2>2, <2>3, <2>4
  <1>8. \A i \in 1 .. Len(new) : lo <= new[i].version /\ new[i].version <= v
    BY <1>1, <1>6, LinkAssumption DEF Stream
  <1>9. QED
    BY <1>3, <1>5, <1>7, <1>8 DEF Stream, new

\* A newer version may be the newest allowed.
LEMMA StreamRaise ==
  ASSUME NEW q, NEW lo \in Int, NEW hi \in Int, Stream(q, lo, hi), NEW top \in Int, hi <= top
  PROVE  Stream(q, lo, top)
  <1>1. ASSUME NEW i \in 1 .. Len(q) PROVE q[i].version <= top
    <2>1. q[i] \in ByteSet /\ q[i].version <= hi
      BY DEF Stream
    <2>2. QED
      BY <2>1, ByteTypes
  <1>2. QED
    BY <1>1 DEF Stream

\* The network loses what has not arrived: only whole frames are cut off.
LEMMA StreamPart ==
  ASSUME NEW a \in Seq(ByteSet), NEW w \in Seq(ByteSet), NEW lo, NEW hi,
         Stream(a \o w, lo, hi), Whole(Len(a))
  PROVE  Stream(a, lo, hi)
  <1> DEFINE q == a \o w
             L == Len(a)
  <1>1. /\ L \in Nat /\ Len(w) \in Nat /\ Len(q) = L + Len(w)
        /\ \A i \in 1 .. L : q[i] = a[i] /\ i \in 1 .. Len(q)
    <2>1. \A i \in 1 .. Len(a) + Len(w) :
            (a \o w)[i] = IF i <= Len(a) THEN a[i] ELSE w[i - Len(a)]
      BY ConcatProperties
    <2>2. Len(a) \in Nat /\ Len(w) \in Nat /\ Len(a \o w) = Len(a) + Len(w)
      BY ConcatProperties
    <2>3. QED
      BY <2>1, <2>2
  <1>2. Stream(q, lo, hi)
    OBVIOUS
  <1> HIDE DEF q
  <1>3. ASSUME NEW o \in 0 .. L - 1, NEW j \in 1 .. BUFFLEN, Whole(o)
        PROVE  a[o + j] = Byte(a[o + 1].version, j)
    <2>1. o \in Nat /\ L >= o /\ L - o \in Nat /\ L - o > 0
      BY <1>1, <1>3
    <2>2. Whole(L - o)
      BY <1>1, <1>3, <2>1, WholeSum
    <2>3. o + BUFFLEN <= L
      BY <1>1, <2>1, <2>2, WholeLeast, LinkAssumption
    <2>4. o + j \in 1 .. L /\ o + 1 \in 1 .. L /\ o \in 0 .. Len(q) - 1
      BY <1>1, <1>3, <2>1, <2>3, LinkAssumption
    <2>5. q[o + j] = Byte(q[o + 1].version, j)
      BY <1>2, <1>3, <2>4 DEF Stream, Framed
    <2>6. QED
      BY <1>1, <2>4, <2>5
  <1>4. Framed(a)
    BY <1>3 DEF Framed
  <1>5. QED
    BY <1>1, <1>2, <1>4 DEF Stream

\* The client takes the first frame off the stream: what is left is a stream
\* of frames that are not older than the one it has got.
LEMMA StreamRead ==
  ASSUME NEW a \in Seq(ByteSet), NEW w \in Seq(ByteSet),
         NEW lo \in Nat, NEW hi \in Int,
         Stream(a \o w, lo, hi), Whole(Len(a)), Len(a) > 0
  PROVE  LET v    == a[1].version
             left == SubSeq(a, BUFFLEN + 1, Len(a))
         IN  /\ v \in Versions /\ lo <= v /\ v <= hi
             /\ BUFFLEN <= Len(a)
             /\ \A j \in 1 .. BUFFLEN : a[j] = Byte(v, j)
             /\ Whole(Len(left))
             /\ Stream(left \o w, v, hi)
  <1> DEFINE v    == a[1].version
             left == SubSeq(a, BUFFLEN + 1, Len(a))
             q    == a \o w
             rest == left \o w
             B    == BUFFLEN
  <1>1. /\ Len(a) \in Nat /\ Len(w) \in Nat /\ B \in Nat \ {0}
        /\ B <= Len(a)
    BY WholeLeast, LinkAssumption
  <1>2. /\ left \in Seq(ByteSet) /\ Len(left) = Len(a) - B
        /\ \A i \in 1 .. Len(a) - B : left[i] = a[B + i]
    <2>1. B + 1 \in 1 .. Len(a) + 1 /\ Len(a) \in (B + 1) - 1 .. Len(a)
      BY <1>1
    <2>2. /\ left \in Seq(ByteSet) /\ Len(left) = Len(a) - (B + 1) + 1
          /\ \A i \in 1 .. Len(a) - (B + 1) + 1 : left[i] = a[(B + 1) + i - 1]
      BY <2>1, PartOfBytes
    <2> HIDE DEF left
    <2>3. QED
      BY <1>1, <2>2
  <1> HIDE DEF left
  <1>3. /\ Len(q) = Len(a) + Len(w)
        /\ \A i \in 1 .. Len(a) + Len(w) :
             q[i] = IF i <= Len(a) THEN a[i] ELSE w[i - Len(a)]
    BY ConcatProperties
  <1>4. /\ rest \in Seq(ByteSet) /\ Len(rest) = Len(q) - B
        /\ \A i \in 1 .. Len(q) - B : rest[i] = q[B + i]
    <2>1. /\ rest \in Seq(ByteSet) /\ Len(rest) = Len(left) + Len(w)
          /\ \A i \in 1 .. Len(left) + Len(w) :
               rest[i] = IF i <= Len(left) THEN left[i] ELSE w[i - Len(left)]
      BY <1>2, ConcatProperties
    <2> HIDE DEF rest, q
    <2>2. Len(rest) = Len(q) - B
      BY <1>1, <1>2, <1>3, <2>1
    <2>3. ASSUME NEW i \in 1 .. Len(q) - B PROVE rest[i] = q[B + i]
      <3>1. CASE i <= Len(left)
        <4>1. i \in 1 .. Len(a) - B /\ B + i \in 1 .. Len(a) + Len(w) /\ B + i <= Len(a)
          BY <1>1, <1>2, <3>1
        <4>2. QED
          BY <1>1, <1>2, <1>3, <2>1, <3>1, <4>1
      <3>2. CASE i > Len(left)
        <4>1. /\ i \in 1 .. Len(left) + Len(w) /\ B + i \in 1 .. Len(a) + Len(w)
              /\ B + i > Len(a) /\ i - Len(left) = (B + i) - Len(a)
          BY <1>1, <1>2, <1>3, <3>2
        <4>2. rest[i] = w[i - Len(left)] /\ q[B + i] = w[(B + i) - Len(a)]
          BY <1>1, <1>2, <1>3, <2>1, <3>2, <4>1
        <4>3. QED
          BY <4>1, <4>2
      <3>3. QED
        BY <1>1, <1>2, <3>1, <3>2
    <2>4. QED
      BY <2>1, <2>2, <2>3
  <1>5. Stream(q, lo, hi) /\ q[1] = a[1] /\ 1 \in 1 .. Len(q)
    BY <1>1, <1>3
  <1> HIDE DEF rest, q
  <1>6. \A j \in 1 .. B : a[j] = Byte(v, j)
    <2>1. ASSUME NEW j \in 1 .. B PROVE q[0 + j] = Byte(q[0 + 1].version, j)
      <3>1. 0 \in 0 .. Len(q) - 1
        BY <1>1, <1>3
      <3>2. QED
        BY <1>5, <3>1, WholeZero DEF Stream, Framed
    <2>2. ASSUME NEW j \in 1 .. B PROVE q[j] = a[j] /\ 0 + j = j
      BY <1>1, <1>3
    <2>3. QED
      BY <1>5, <2>1, <2>2
  <1>7. v \in Versions /\ lo <= v /\ v <= hi
    <2>1. a[1] \in ByteSet /\ lo <= v /\ v <= hi
      BY <1>1, <1>5 DEF Stream
    <2>2. v \in Versions \cup {Junk}
      BY <2>1 DEF ByteSet, Byte
    <2>3. QED
      BY <2>1, <2>2, LinkAssumption DEF Junk
  <1>8. Whole(Len(left)) /\ Whole(Len(rest))
    <2>1. Len(a) \in Nat /\ Len(a) >= B
      BY <1>1
    <2>2. Whole(Len(a) - B)
      BY <1>1, <2>1, WholeSum, WholeZero
    <2>3. Whole(Len(q)) /\ Len(q) \in Nat /\ Len(q) >= B
      BY <1>1, <1>3, <1>5 DEF Stream, Framed
    <2>4. Whole(Len(q) - B)
      BY <1>1, <2>3, WholeSum, WholeZero
    <2>5. QED
      BY <1>2, <1>4, <2>2, <2>4
  <1>9. Framed(rest)
    <2>1. ASSUME NEW o \in 0 .. Len(rest) - 1, NEW j \in 1 .. BUFFLEN, Whole(o)
          PROVE  rest[o + j] = Byte(rest[o + 1].version, j)
      <3>1. o \in Nat /\ Len(q) \in Nat /\ B + o \in 0 .. Len(q) - 1
        BY <1>1, <1>3, <1>4
      <3>2. Whole(B + o)
        BY <1>1, <2>1, <3>1, WholeSum, WholeZero
      <3>3. q[(B + o) + j] = Byte(q[(B + o) + 1].version, j)
        BY <1>5, <3>1, <3>2 DEF Stream, Framed
      <3>4. o + j \in 1 .. Len(q) - B /\ o + 1 \in 1 .. Len(q) - B
        <4>1. Len(rest) \in Nat /\ o < Len(rest) /\ Len(rest) - o \in Nat /\ Len(rest) - o > 0
          BY <1>1, <1>3, <1>4, <3>1
        <4>2. Whole(Len(rest) - o)
          BY <1>8, <2>1, <3>1, <4>1, WholeSum
        <4>3. Len(rest) - o >= B
          BY <4>1, <4>2, WholeLeast
        <4>4. QED
          BY <1>1, <1>4, <3>1, <4>1, <4>3
      <3>5. rest[o + j] = q[B + (o + j)] /\ rest[o + 1] = q[B + (o + 1)]
        BY <1>4, <3>4
      <3>6. B + (o + j) = (B + o) + j /\ B + (o + 1) = (B + o) + 1
        BY <1>1, <3>1
      <3>7. QED
        BY <3>3, <3>5, <3>6
    <2>2. QED
      BY <1>8, <2>1 DEF Framed
  <1>10. ASSUME NEW i \in 1 .. Len(rest)
         PROVE  /\ B + i \in 1 .. Len(q) /\ rest[i] = q[B + i]
                /\ v <= rest[i].version /\ rest[i].version <= hi
    <2>1. B + i \in 1 .. Len(q) /\ rest[i] = q[B + i] /\ 1 <= B + i
      BY <1>1, <1>3, <1>4
    <2>2. q[1].version <= q[B + i].version /\ q[B + i].version <= hi
      BY <1>5, <2>1 DEF Stream
    <2>3. QED
      BY <1>5, <2>1, <2>2
  <1>11. ASSUME NEW i \in 1 .. Len(rest), NEW j \in 1 .. Len(rest), i <= j
         PROVE  rest[i].version <= rest[j].version
    <2>1. B + i <= B + j
      BY <1>1, <1>4, <1>11
    <2>2. QED
      BY <1>5, <1>10, <2>1 DEF Stream
  <1>12. Stream(rest, v, hi)
    BY <1>4, <1>9, <1>10, <1>11 DEF Stream
  <1>13. QED
    BY <1>1, <1>6, <1>7, <1>8, <1>12 DEF left, rest
-----------------------------------------------------------------------------
(* The order of what is under way: OrderInv is inductive when TCP delivers *)
(* whole frames.                                                           *)

\* A frame shows its version.
LEMMA FrameVersion ==
  ASSUME NEW v \in Versions
  PROVE  /\ FrameBytes(v)[1].version = v
         /\ Shown(FrameBytes(v)) = v
  <1>1. 1 \in 1 .. BUFFLEN
    BY LinkAssumption
  <1>2. FrameBytes(v)[1].version = v
    BY <1>1, FrameOfBytes, ByteTypes
  <1>3. QED
    BY <1>2 DEF Shown

\* What the clients have got hold of are versions.
LEMMA GotTypes ==
  ASSUME TypeOK, GotInv, NEW c \in Clients
  PROVE  /\ buffer[c][1].version \in Versions /\ buffer[c] = FrameBytes(buffer[c][1].version)
         /\ buffer[c][1].version <= Got(c)
         /\ Got(c) \in Versions /\ Got(c) \in Nat /\ Got(c) <= sTemp
         /\ cPc[c] = "install" => temp[c] = FrameBytes(Got(c))
         /\ sTemp \in Nat /\ version \in Nat
  <1>1. PICK v \in Versions : buffer[c] = FrameBytes(v) /\ 0 <= v /\ v <= sTemp
    BY DEF GotInv, FrameUpTo
  <1>2. buffer[c][1].version = v /\ v \in Nat
    BY <1>1, FrameVersion, LinkAssumption
  <1>3. sTemp \in Nat /\ version \in Nat
    BY LinkAssumption DEF TypeOK
  <1>4. CASE cPc[c] = "install"
    <2>1. PICK u \in Versions :
            temp[c] = FrameBytes(u) /\ buffer[c][1].version <= u /\ u <= sTemp
      BY <1>4 DEF GotInv, FrameUpTo
    <2>2. temp[c][1].version = u /\ u \in Nat
      BY <2>1, FrameVersion, LinkAssumption
    <2>3. Got(c) = u
      BY <1>4, <2>2 DEF Got
    <2>4. QED
      BY <1>1, <1>2, <1>3, <2>1, <2>2, <2>3
  <1>5. CASE cPc[c] # "install"
    <2>1. Got(c) = v
      BY <1>2, <1>5 DEF Got
    <2>2. QED
      BY <1>1, <1>2, <1>3, <1>5, <2>1
  <1>6. QED
    BY <1>4, <1>5

\* Nothing is sent yet.
LEMMA InitOrder == Init => OrderInv
  <1> SUFFICES ASSUME Init PROVE OrderInv
    OBVIOUS
  <1>1. DOMAIN conns = {} /\ 0 \in Versions /\ sTemp = 0 /\ version = 0
    BY LinkAssumption DEF Init
  <1>2. ASSUME NEW c \in Clients
        PROVE  FrameUpTo(buffer[c], 0, sTemp) /\ cPc[c] # "install"
    BY <1>1 DEF Init, FrameUpTo
  <1>3. QED
    BY <1>1, <1>2 DEF OrderInv, StreamInv, GotInv

\* A step that puts no bytes on any connection, and takes none off one that
\* stays open.
LEMMA StreamKept ==
  ASSUME SocketInv, OrderInv,
         \A c \in Clients : Got(c)' = Got(c),
         sTemp' \in Nat, sTemp <= sTemp',
         \A j \in DOMAIN conns' :
           \/ conns'[j].arrived = <<>> /\ conns'[j].wire = <<>>
           \/ /\ j \in DOMAIN conns
              /\ conns'[j].owner = conns[j].owner /\ conns'[j].open = conns[j].open
              /\ conns'[j].arrived = conns[j].arrived /\ conns'[j].wire = conns[j].wire
  PROVE  StreamInv'
  <1> SUFFICES ASSUME NEW j \in DOMAIN conns'
               PROVE  (/\ Whole(Len(conns[j].arrived))
                       /\ Stream(conns[j].arrived \o conns[j].wire,
                                 Got(conns[j].owner), sTemp)
                       /\ ~conns[j].open =>
                            conns[j].arrived = <<>> /\ conns[j].wire = <<>>)'
    BY DEF StreamInv
  <1>1. CASE conns'[j].arrived = <<>> /\ conns'[j].wire = <<>>
    <2>1. conns'[j].arrived \o conns'[j].wire = <<>> /\ Len(conns'[j].arrived) = 0
      BY <1>1
    <2>2. QED
      BY <1>1, <2>1, StreamEmpty, WholeZero
  <1>2. CASE /\ j \in DOMAIN conns
             /\ conns'[j].owner = conns[j].owner /\ conns'[j].open = conns[j].open
             /\ conns'[j].arrived = conns[j].arrived /\ conns'[j].wire = conns[j].wire
    <2>1. conns[j].owner \in Clients /\ TypeOK /\ GotInv /\ StreamInv
      BY <1>2 DEF SocketInv, OrderInv, TypeOK, Connection
    <2>2. PICK d \in Clients : d = conns[j].owner /\ d = conns'[j].owner
      BY <1>2, <2>1
    <2>3. Got(d) \in Int /\ sTemp \in Int
      BY <2>1, GotTypes
    <2>4. /\ Whole(Len(conns[j].arrived))
          /\ Stream(conns[j].arrived \o conns[j].wire, Got(d), sTemp)
          /\ ~conns[j].open => conns[j].arrived = <<>> /\ conns[j].wire = <<>>
      BY <1>2, <2>1, <2>2 DEF StreamInv
    <2>5. Stream(conns[j].arrived \o conns[j].wire, Got(d), sTemp')
      BY <2>3, <2>4, StreamRaise
    <2>6. (Got(conns[j].owner))' = Got(d)
      <3>1. Got(d)' = Got(d)
        OBVIOUS
      <3>2. (Got(conns[j].owner))' = Got(d)'
        BY <2>2 DEF Got
      <3>3. QED
        BY <3>1, <3>2
    <2>7. QED
      BY <1>2, <2>4, <2>5, <2>6
  <1>3. QED
    BY <1>1, <1>2

\* A step in which no client gets anything.
LEMMA GotKept ==
  ASSUME TypeOK, GotInv, UNCHANGED buffer,
         sTemp' \in Nat, version' \in Nat, sTemp <= sTemp', sTemp' <= version',
         \A c \in Clients :
           /\ cPc'[c] = "install" <=> cPc[c] = "install"
           /\ temp'[c] = temp[c]
  PROVE  GotInv' /\ \A c \in Clients : Got(c)' = Got(c)
  <1>1. ASSUME NEW c \in Clients
        PROVE  /\ FrameUpTo(buffer'[c], 0, sTemp')
               /\ cPc'[c] = "install" => FrameUpTo(temp'[c], buffer'[c][1].version, sTemp')
               /\ Got(c)' = Got(c)
    <2>1. sTemp \in Nat /\ Versions \subseteq Nat
      BY LinkAssumption DEF TypeOK
    <2>2. FrameUpTo(buffer'[c], 0, sTemp')
      <3>1. PICK v \in Versions : buffer[c] = FrameBytes(v) /\ 0 <= v /\ v <= sTemp
        BY DEF GotInv, FrameUpTo
      <3>2. QED
        BY <2>1, <3>1 DEF FrameUpTo
    <2>3. ASSUME cPc'[c] = "install" PROVE FrameUpTo(temp'[c], buffer'[c][1].version, sTemp')
      <3>1. PICK v \in Versions :
              temp[c] = FrameBytes(v) /\ buffer[c][1].version <= v /\ v <= sTemp
        BY <2>3 DEF GotInv, FrameUpTo
      <3>2. QED
        BY <2>1, <3>1 DEF FrameUpTo
    <2>4. Got(c)' = Got(c)
      BY DEF Got
    <2>5. QED
      BY <2>2, <2>3, <2>4
  <1>2. QED
    BY <1>1 DEF GotInv

\* What is left on every connection is all that was there, or nothing.
BytesKept ==
  \A j \in DOMAIN conns' :
    \/ conns'[j].arrived = <<>> /\ conns'[j].wire = <<>>
    \/ /\ j \in DOMAIN conns
       /\ conns'[j].owner = conns[j].owner /\ conns'[j].open = conns[j].open
       /\ conns'[j].arrived = conns[j].arrived /\ conns'[j].wire = conns[j].wire

\* No client reads or installs.
NothingGot ==
  /\ UNCHANGED buffer
  /\ \A c \in Clients : (cPc'[c] = "install" <=> cPc[c] = "install") /\ temp'[c] = temp[c]

\* A step that moves no bytes.
LEMMA OrderKept ==
  ASSUME SocketInv, TypeOK', OrderInv, BytesKept, NothingGot,
         sTemp <= sTemp', sTemp' <= version'
  PROVE  OrderInv'
  <1>1. TypeOK /\ GotInv /\ sTemp' \in Nat /\ version' \in Nat
    BY LinkAssumption DEF SocketInv, OrderInv, TypeOK
  <1>2. GotInv' /\ \A c \in Clients : Got(c)' = Got(c)
    BY <1>1, GotKept DEF NothingGot
  <1>3. StreamInv'
    BY <1>1, <1>2, StreamKept DEF BytesKept
  <1>4. QED
    BY <1>2, <1>3 DEF OrderInv

\* Steps of the server that touch no connection; a copy only raises sTemp.
LEMMA ServerQuietOrder ==
  ASSUME SocketInv, SocketInv', OrderInv,
         \/ \E v \in Versions : GuiSet(v)
         \/ ServerLoop \/ CallAccept \/ AcceptSleep \/ ServerCopy \/ ServerQuit
  PROVE  OrderInv'
  <1>1. TypeOK' /\ sTemp <= version /\ sTemp \in Nat /\ version \in Nat /\ Versions \subseteq Nat
    BY LinkAssumption DEF SocketInv, OrderInv, GotInv, TypeOK
  <1>2. UNCHANGED <<conns, clientVars>> /\ sTemp <= sTemp' /\ sTemp' <= version'
    BY <1>1 DEF GuiSet, ServerLoop, CallAccept, AcceptSleep, ServerCopy, ServerQuit, serverVars
  <1>3. BytesKept /\ NothingGot
    BY <1>2 DEF BytesKept, NothingGot, clientVars
  <1>4. QED
    BY <1>1, <1>2, <1>3, OrderKept

\* Steps of a client that touch no connection and no buffer.
LEMMA ClientQuietOrder ==
  ASSUME SocketInv, SocketInv', OrderInv, NEW c \in Clients,
         \/ ClientLoop(c) \/ ConnectFails(c) \/ ClientSleep(c)
         \/ ClientTest(c) \/ ClientQuit(c)
  PROVE  OrderInv'
  <1>1. TypeOK /\ TypeOK' /\ sTemp <= version /\ sTemp \in Nat
    BY LinkAssumption DEF SocketInv, OrderInv, GotInv, TypeOK
  <1>2. UNCHANGED <<conns, serverVars, version, temp, buffer>>
    BY DEF ClientLoop, ConnectFails, ClientSleep, ClientTest, ClientQuit
  <1>3. \A d \in Clients : cPc'[d] = "install" <=> cPc[d] = "install"
    BY <1>1 DEF ClientLoop, ConnectFails, ClientSleep, ClientTest, ClientQuit, Goto, TypeOK
  <1>4. BytesKept /\ NothingGot
    BY <1>2, <1>3 DEF BytesKept, NothingGot
  <1>5. QED
    BY <1>1, <1>2, <1>4, OrderKept DEF serverVars

\* Steps at the server's ends of connections.
LEMMA ServerSideOrder ==
  ASSUME SocketInv, SocketInv', OrderInv,
         Accept \/ SendFails \/ CloseConnection \/ CloseListening
  PROVE  OrderInv'
  <1>1. TypeOK /\ TypeOK' /\ sTemp <= version /\ sTemp \in Nat
    BY LinkAssumption DEF SocketInv, OrderInv, GotInv, TypeOK
  <1>2. UNCHANGED <<version, sTemp, clientVars>>
    BY DEF Accept, SendFails, CloseConnection, CloseListening
  <1> DEFINE Same(cs) == /\ DOMAIN cs \subseteq DOMAIN conns
                         /\ \A j \in DOMAIN cs :
                              /\ cs[j] \in Connection
                              /\ cs[j].open = conns[j].open
                              /\ cs[j].owner = conns[j].owner
                              /\ cs[j].arrived = conns[j].arrived
                              /\ cs[j].wire = conns[j].wire
  <1> HIDE DEF Same
  <1>3. Same(conns)
    BY <1>1 DEF TypeOK, Same
  <1>4. ASSUME NEW k \in DOMAIN conns, NEW end \in {"accepted", "closed"}
        PROVE  Same([conns EXCEPT ![k].server = end])
    <2> DEFINE cs == [conns EXCEPT ![k].server = end]
    <2>1. DOMAIN cs = DOMAIN conns
      OBVIOUS
    <2>2. ASSUME NEW j \in DOMAIN conns
          PROVE  /\ cs[j] \in Connection
                 /\ cs[j].open = conns[j].open /\ cs[j].owner = conns[j].owner
                 /\ cs[j].arrived = conns[j].arrived /\ cs[j].wire = conns[j].wire
      <3>1. conns[j] \in Connection
        BY <1>1 DEF TypeOK
      <3>2. QED
        BY <3>1 DEF Connection
    <2> HIDE DEF cs
    <2>3. Same(cs)
      BY <2>1, <2>2 DEF Same
    <2>4. QED
      BY <2>3 DEF cs
  <1>5. ASSUME NEW cs, Same(cs) PROVE Same(Reap(cs))
    BY <1>5, ReapEffect DEF Same
  <1>6. ASSUME NEW cs, Same(cs) PROVE Same(QueueDropped(cs))
    BY <1>6, QueueDroppedEffect DEF Same
  <1>7. /\ Accept => Head(queue) \in DOMAIN conns
        /\ SendFails \/ CloseConnection => sConn \in DOMAIN conns
    <2>1. ASSUME Accept PROVE Head(queue) \in DOMAIN conns
      <3>1. queue \in Seq(ConnId) /\ queue # <<>>
        BY <1>1, <2>1 DEF TypeOK, Accept
      <3>2. Head(queue) = queue[1] /\ 1 \in 1 .. Len(queue)
        BY <3>1
      <3>3. QED
        BY <3>2 DEF SocketInv, QueueInv
    <2>2. QED
      BY <2>1 DEF SocketInv, ServerInv, SendFails, CloseConnection
  <1>8. Same(conns')
    BY <1>3, <1>4, <1>5, <1>6, <1>7 DEF Accept, SendFails, CloseConnection, CloseListening
  <1>9. BytesKept /\ NothingGot
    BY <1>2, <1>8 DEF Same, BytesKept, NothingGot, clientVars
  <1>10. QED
    BY <1>1, <1>2, <1>9, OrderKept

\* Steps in which a client opens or closes a connection.
LEMMA ClientSideOrder ==
  ASSUME SocketInv, SocketInv', OrderInv, NEW c \in Clients,
         Connect(c) \/ ReadFails(c) \/ ClientExit(c)
  PROVE  OrderInv'
  <1>1. TypeOK /\ TypeOK' /\ sTemp <= version /\ sTemp \in Nat
    BY LinkAssumption DEF SocketInv, OrderInv, GotInv, TypeOK
  <1>2. UNCHANGED <<version, serverVars, temp, buffer>>
    BY DEF Connect, ReadFails, ClientExit
  <1>3. \A d \in Clients : cPc'[d] = "install" <=> cPc[d] = "install"
    BY <1>1 DEF Connect, ReadFails, ClientExit, Goto, TypeOK
  <1>4. NothingGot
    BY <1>2, <1>3 DEF NothingGot
  <1>5. BytesKept
    <2>1. CASE Connect(c)
      <3>1. PICK k : conns' = [j \in DOMAIN conns \cup {k} |->
                                 IF j = k THEN NewConn(c) ELSE conns[j]]
        BY <2>1 DEF Connect
      <3>2. NewConn(c).arrived = <<>> /\ NewConn(c).wire = <<>>
        BY DEF NewConn
      <3>3. QED
        BY <3>1, <3>2 DEF BytesKept
    <2>2. CASE conns' = conns
      BY <2>2 DEF BytesKept
    <2>3. CASE fd[c] \in ConnId /\ conns' = ClosedByClient(fd[c])
      <3>1. fd[c] \in DOMAIN conns
        BY <2>3 DEF SocketInv, ClientInv
      <3>2. QED
        BY <1>1, <2>3, <3>1, ClosedByClientEffect DEF BytesKept
    <2>4. ReadFails(c) => fd[c] \in ConnId
      BY DEF ReadFails, SocketInv, ClientInv
    <2>5. fd[c] > Bare => fd[c] \in ConnId
      <3>1. fd[c] \in ConnId \cup {Unset, Stale, None, Bare}
        BY <1>1 DEF TypeOK
      <3>2. QED
        BY <3>1 DEF Bare, Unset, Stale, None
    <2>6. QED
      BY <2>1, <2>2, <2>3, <2>4, <2>5 DEF ReadFails, ClientExit
  <1>6. QED
    BY <1>1, <1>2, <1>4, <1>5, OrderKept DEF serverVars

\* One connection gets other bytes, or another error.
Rewired(k, a, w, f) ==
  conns' = [conns EXCEPT ![k] = [@ EXCEPT !.arrived = a, !.wire = w, !.fault = f]]

\* No other client than c gets anything.
OnlyGets(c) == \A d \in Clients : d # c => Got(d)' = Got(d)

\* A step that changes the bytes on one open connection.
LEMMA OneStream ==
  ASSUME SocketInv, StreamInv, UNCHANGED sTemp,
         NEW k \in DOMAIN conns, conns[k].open,
         NEW a \in Seq(ByteSet), NEW w \in Seq(ByteSet),
         NEW f \in {"none", "rst", "epipe"},
         Rewired(k, a, w, f),
         NEW c \in Clients, conns[k].owner = c, OnlyGets(c),
         Whole(Len(a)), Stream(a \o w, Got(c)', sTemp)
  PROVE  StreamInv'
  <1>1. TypeOK /\ OpenInv
    BY DEF SocketInv
  <1> DEFINE new == [conns[k] EXCEPT !.arrived = a, !.wire = w, !.fault = f]
  <1>2. /\ DOMAIN conns' = DOMAIN conns
        /\ conns'[k].owner = conns[k].owner /\ conns'[k].open
        /\ conns'[k].arrived = a /\ conns'[k].wire = w
        /\ \A j \in DOMAIN conns : j # k => conns'[j] = conns[j]
    <2>1. conns[k] \in Connection
      BY <1>1 DEF TypeOK
    <2>2. /\ new.owner = conns[k].owner /\ new.open
          /\ new.arrived = a /\ new.wire = w
      BY <2>1 DEF Connection
    <2>3. conns' = [conns EXCEPT ![k] = new]
      BY DEF Rewired
    <2> HIDE DEF new
    <2>4. QED
      BY <2>2, <2>3
  <1>3. SUFFICES ASSUME NEW j \in DOMAIN conns'
               PROVE  (/\ Whole(Len(conns[j].arrived))
                       /\ Stream(conns[j].arrived \o conns[j].wire,
                                 Got(conns[j].owner), sTemp)
                       /\ ~conns[j].open =>
                            conns[j].arrived = <<>> /\ conns[j].wire = <<>>)'
    BY DEF StreamInv
  <1>4. CASE j = k
    <2>1. conns'[j].owner = c
      BY <1>2, <1>4
    <2>2. (Got(conns[j].owner))' = Got(c)'
      BY <2>1 DEF Got
    <2>3. conns'[j].arrived = a /\ conns'[j].wire = w /\ conns'[j].open
      BY <1>2, <1>4
    <2>4. (Stream(conns[j].arrived \o conns[j].wire, Got(conns[j].owner), sTemp))'
      BY <2>2, <2>3
    <2>5. QED
      BY <2>3, <2>4
  <1>5. CASE j # k
    <2>1. PICK d \in Clients : d = conns[j].owner /\ d = conns'[j].owner
      BY <1>1, <1>2, ZenonT(60) DEF TypeOK, Connection
    <2>2. (Got(conns[j].owner))' = Got(d)'
      BY <2>1 DEF Got
    <2>3. /\ Whole(Len(conns[j].arrived))
          /\ Stream(conns[j].arrived \o conns[j].wire, Got(d), sTemp)
          /\ ~conns[j].open => conns[j].arrived = <<>> /\ conns[j].wire = <<>>
      BY <1>2, <2>1 DEF StreamInv
    <2>4. CASE d # c
      BY <1>2, <1>5, <2>2, <2>3, <2>4 DEF OnlyGets
    <2>5. CASE d = c
      <3>1. ~conns[j].open
        <4>1. fd[c] = k
          BY <1>1 DEF OpenInv
        <4>2. j \in DOMAIN conns /\ conns[j].owner = c
          BY <1>2, <2>1, <2>5
        <4>3. conns[j].open => fd[c] = j
          BY <1>1, <4>2 DEF OpenInv
        <4>4. QED
          BY <1>5, <4>1, <4>3
      <3>2. conns[j].arrived \o conns[j].wire = <<>>
        BY <2>3, <3>1
      <3>3. Stream(conns[j].arrived \o conns[j].wire, Got(d)', sTemp)
        BY <3>2, StreamEmpty
      <3>4. QED
        BY <1>2, <1>5, <2>2, <2>3, <3>3
    <2>6. QED
      BY <2>4, <2>5
  <1>6. QED
    BY <1>4, <1>5

\* The types of what is on a connection, and what StreamInv says of it.
LEMMA OnConnection ==
  ASSUME SocketInv, OrderInv, NEW k \in DOMAIN conns
  PROVE  /\ conns[k].arrived \in Seq(ByteSet) /\ conns[k].wire \in Seq(ByteSet)
         /\ conns[k].fault \in {"none", "rst", "epipe"}
         /\ conns[k].owner \in Clients
         /\ Whole(Len(conns[k].arrived))
         /\ Stream(conns[k].arrived \o conns[k].wire, Got(conns[k].owner), sTemp)
         /\ ~conns[k].open => conns[k].arrived = <<>> /\ conns[k].wire = <<>>
  <1>1. conns[k] \in Connection
    BY DEF SocketInv, TypeOK
  <1>2. QED
    BY <1>1 DEF OrderInv, StreamInv, Connection

\* Concatenation of bytes is associative.
LEMMA JoinBytes ==
  ASSUME NEW a \in Seq(ByteSet), NEW b \in Seq(ByteSet), NEW d \in Seq(ByteSet)
  PROVE  (a \o b) \o d = a \o (b \o d)
  BY ConcatAssociative

\* Delivery moves bytes from the wire behind those that have arrived.
LEMMA MovedBytes ==
  ASSUME NEW a \in Seq(ByteSet), NEW w \in Seq(ByteSet), NEW n \in 1 .. Len(w)
  PROVE  LET b    == a \o SubSeq(w, 1, n)
             rest == SubSeq(w, n + 1, Len(w))
         IN  /\ b \in Seq(ByteSet) /\ Len(b) = Len(a) + n
             /\ rest \in Seq(ByteSet)
             /\ b \o rest = a \o w
  <1> DEFINE first == SubSeq(w, 1, n)
             rest  == SubSeq(w, n + 1, Len(w))
  <1>1. first \in Seq(ByteSet) /\ Len(first) = n /\ rest \in Seq(ByteSet)
    BY PartOfBytes
  <1>2. first \o rest = w
    <2>1. SubSeq(w, 1, n) \o SubSeq(w, n + 1, Len(w)) = SubSeq(w, 1, Len(w))
      BY ConcatAdjacentSubSeq
    <2>2. SubSeq(w, 1, Len(w)) = w
      BY SubSeqFull
    <2>3. QED
      BY <2>1, <2>2, Zenon
  <1> HIDE DEF first, rest
  <1>3. (a \o first) \o rest = a \o w
    BY <1>1, <1>2, JoinBytes, ZenonT(60)
  <1>4. a \o first \in Seq(ByteSet) /\ Len(a \o first) = Len(a) + n
    BY <1>1, ConcatProperties
  <1>5. QED
    BY <1>1, <1>3, <1>4 DEF first, rest

\* Whole frames arrive.
LEMMA DeliverOrder ==
  ASSUME ~Segmented, SocketInv, SocketInv', OrderInv,
         NEW k \in DOMAIN conns, NEW n \in 1 .. Len(conns[k].wire), Deliver(k, n)
  PROVE  OrderInv'
  <1> DEFINE a == conns[k].arrived
             w == conns[k].wire
             b == a \o SubSeq(w, 1, n)
             rest  == SubSeq(w, n + 1, Len(w))
             f == conns[k].fault
  <1>1. TypeOK /\ GotInv /\ StreamInv /\ conns[k] \in Connection
    BY DEF SocketInv, OrderInv, TypeOK
  <1>2. /\ a \in Seq(ByteSet) /\ w \in Seq(ByteSet) /\ conns[k].owner \in Clients
        /\ f \in {"none", "rst", "epipe"}
        /\ Whole(Len(a)) /\ Stream(a \o w, Got(conns[k].owner), sTemp)
        /\ ~conns[k].open => a = <<>> /\ w = <<>>
    BY OnConnection
  <1>3. conns[k].open
    BY <1>2
  <1>4. /\ b \in Seq(ByteSet) /\ Len(b) = Len(a) + n
        /\ rest \in Seq(ByteSet)
        /\ b \o rest = a \o w
    BY <1>2, MovedBytes
  <1>5. UNCHANGED <<version, serverVars, clientVars>> /\ Whole(n)
    BY DEF Deliver, Whole
  <1>6. Rewired(k, b, rest, f)
    BY <1>1 DEF Deliver, Connection, Rewired
  <1>7. Len(a) \in Nat /\ n \in Nat
    BY <1>2
  <1> HIDE DEF a, w, b, rest, f
  <1>8. Whole(Len(b))
    BY <1>2, <1>4, <1>5, <1>7, WholeSum
  <1>9. sTemp \in Nat /\ version \in Nat /\ sTemp <= version
    BY <1>1, LinkAssumption DEF TypeOK, GotInv
  <1>10. UNCHANGED <<buffer, temp, cPc, sTemp, version>>
    BY <1>5 DEF clientVars, serverVars
  <1>11. GotInv' /\ \A c \in Clients : Got(c)' = Got(c)
    BY <1>1, <1>9, <1>10, GotKept
  <1>12. PICK c \in Clients : conns[k].owner = c
    BY <1>2
  <1>13. Stream(b \o rest, Got(c)', sTemp)
    BY <1>2, <1>4, <1>11, <1>12
  <1>14. OnlyGets(c) /\ UNCHANGED sTemp
    BY <1>10, <1>11 DEF OnlyGets
  <1>15. StreamInv'
    BY <1>1, <1>2, <1>3, <1>4, <1>6, <1>8, <1>12, <1>13, <1>14, OneStream
  <1>16. QED
    BY <1>11, <1>15 DEF OrderInv

\* The network fails: whole frames are lost, from the end of the stream.
LEMMA BreakOrder ==
  ASSUME SocketInv, SocketInv', OrderInv, NEW k \in DOMAIN conns, Break(k)
  PROVE  OrderInv'
  <1> DEFINE a == conns[k].arrived
             w == conns[k].wire
  <1>1. TypeOK /\ TypeOK' /\ GotInv /\ StreamInv /\ conns[k] \in Connection
    BY DEF SocketInv, OrderInv, TypeOK
  <1>2. /\ a \in Seq(ByteSet) /\ w \in Seq(ByteSet) /\ conns[k].owner \in Clients
        /\ Whole(Len(a)) /\ Stream(a \o w, Got(conns[k].owner), sTemp)
        /\ ~conns[k].open => a = <<>> /\ w = <<>>
    BY OnConnection
  <1>3. sTemp \in Nat /\ version \in Nat /\ sTemp <= version
    BY <1>1, LinkAssumption DEF TypeOK, GotInv
  <1>4. UNCHANGED <<buffer, temp, cPc, sTemp, version>>
    BY DEF Break, clientVars, serverVars
  <1>5. GotInv' /\ \A c \in Clients : Got(c)' = Got(c)
    BY <1>1, <1>3, <1>4, GotKept
  <1>6. Rewired(k, a, <<>>, "rst")
    BY <1>1 DEF Break, Connection, Rewired
  <1>7. CASE conns[k].open
    <2> HIDE DEF a, w
    <2>1. PICK c \in Clients : conns[k].owner = c
      BY <1>2
    <2>2. Stream(a, Got(c), sTemp)
      BY <1>2, <2>1, StreamPart
    <2>3. a \o <<>> = a /\ Got(c)' = Got(c) /\ <<>> \in Seq(ByteSet)
      BY <1>2, <1>5, ConcatEmptySeq
    <2>4. Stream(a \o <<>>, Got(c)', sTemp)
      BY <2>2, <2>3
    <2>5. OnlyGets(c) /\ UNCHANGED sTemp
      BY <1>4, <1>5 DEF OnlyGets
    <2>6. "rst" \in {"none", "rst", "epipe"}
      OBVIOUS
    <2>7. StreamInv'
      BY <1>1, <1>2, <1>6, <1>7, <2>1, <2>3, <2>4, <2>5, <2>6, OneStream
    <2>8. QED
      BY <1>5, <2>7 DEF OrderInv
  <1>8. CASE ~conns[k].open
    <2>1. NothingGot
      BY <1>4 DEF NothingGot
    <2>2. BytesKept
      <3>1. conns' = [conns EXCEPT ![k] = [conns[k] EXCEPT !.arrived = <<>>, !.wire = <<>>,
                                                           !.fault = "rst"]]
        BY <1>2, <1>6, <1>8 DEF Rewired
      <3>2. conns'[k].arrived = <<>> /\ conns'[k].wire = <<>>
        BY <1>1, <3>1 DEF Connection
      <3>3. DOMAIN conns' = DOMAIN conns /\ \A j \in DOMAIN conns : j # k => conns'[j] = conns[j]
        BY <3>1
      <3>4. QED
        BY <3>2, <3>3 DEF BytesKept
    <2>3. sTemp <= sTemp' /\ sTemp' <= version'
      BY <1>3, <1>4
    <2>4. QED
      BY <1>1, <2>1, <2>2, <2>3, OrderKept
  <1>9. QED
    BY <1>7, <1>8

\* The server sends the frame it has copied, behind all it has sent before.
LEMMA SendFrameOrder ==
  ASSUME SocketInv, SocketInv', OrderInv, SendFrame
  PROVE  OrderInv'
  <1> DEFINE a == conns[sConn].arrived
             w == conns[sConn].wire
             new == w \o FrameBytes(sTemp)
             f == conns[sConn].fault
  <1>1. /\ TypeOK /\ TypeOK' /\ GotInv /\ StreamInv
        /\ sConn \in DOMAIN conns /\ conns[sConn] \in Connection
    BY DEF SendFrame, SocketInv, ServerInv, OrderInv, TypeOK
  <1>2. /\ a \in Seq(ByteSet) /\ w \in Seq(ByteSet) /\ conns[sConn].owner \in Clients
        /\ f \in {"none", "rst", "epipe"}
        /\ Whole(Len(a)) /\ Stream(a \o w, Got(conns[sConn].owner), sTemp)
        /\ ~conns[sConn].open => a = <<>> /\ w = <<>>
    BY <1>1, OnConnection
  <1>3. sTemp \in Versions /\ sTemp \in Nat /\ version \in Nat /\ sTemp <= version
    BY <1>1, LinkAssumption DEF TypeOK, GotInv
  <1>4. UNCHANGED <<buffer, temp, cPc, sTemp, version>>
    BY DEF SendFrame, clientVars
  <1>5. GotInv' /\ \A c \in Clients : Got(c)' = Got(c)
    BY <1>1, <1>3, <1>4, GotKept
  <1>6. CASE conns[sConn].open
    <2>1. Rewired(sConn, a, new, f)
      BY <1>1, <1>6 DEF SendFrame, Connection, Rewired
    <2>2. FrameBytes(sTemp) \in Seq(ByteSet)
      BY <1>3, FrameOfBytes
    <2>3. PICK c \in Clients : conns[sConn].owner = c
      BY <1>2
    <2> HIDE DEF a, w, f
    <2>4. (a \o w) \o FrameBytes(sTemp) = a \o new /\ new \in Seq(ByteSet)
      BY <1>2, <2>2, JoinBytes, ConcatProperties
    <2>5. Got(c) \in Int /\ Got(c) <= sTemp /\ Got(c)' = Got(c)
      BY <1>1, <1>5, GotTypes
    <2>6. Stream((a \o w) \o FrameBytes(sTemp), Got(c), sTemp)
      BY <1>2, <1>3, <2>3, <2>5, StreamAppend
    <2> HIDE DEF new
    <2>7. Stream(a \o new, Got(c)', sTemp)
      BY <2>4, <2>5, <2>6
    <2>8. OnlyGets(c) /\ UNCHANGED sTemp
      BY <1>4, <1>5 DEF OnlyGets
    <2>9. StreamInv'
      BY <1>1, <1>2, <1>6, <2>1, <2>3, <2>4, <2>7, <2>8, OneStream
    <2>10. QED
      BY <1>5, <2>9 DEF OrderInv
  <1>7. CASE ~conns[sConn].open
    <2>1. NothingGot
      BY <1>4 DEF NothingGot
    <2>2. BytesKept
      <3>1. conns' = [conns EXCEPT ![sConn] = [conns[sConn] EXCEPT !.fault = "epipe"]]
        BY <1>7 DEF SendFrame
      <3>2. conns'[sConn].arrived = <<>> /\ conns'[sConn].wire = <<>>
        BY <1>1, <1>2, <1>7, <3>1 DEF Connection
      <3>3. DOMAIN conns' = DOMAIN conns /\ \A j \in DOMAIN conns : j # sConn => conns'[j] = conns[j]
        BY <3>1
      <3>4. QED
        BY <3>2, <3>3 DEF BytesKept
    <2>3. sTemp <= sTemp' /\ sTemp' <= version'
      BY <1>3, <1>4
    <2>4. QED
      BY <1>1, <2>1, <2>2, <2>3, OrderKept
  <1>8. QED
    BY <1>6, <1>7

\* A client takes one whole frame off its connection, newer than any it had.
LEMMA ReadOrder ==
  ASSUME SocketInv, SocketInv', OrderInv, NEW c \in Clients, Read(c)
  PROVE  OrderInv'
  <1> DEFINE k == fd[c]
             a == conns[k].arrived
             w == conns[k].wire
             f == conns[k].fault
             left == SubSeq(a, BUFFLEN + 1, Len(a))
             v == a[1].version
  <1>1. TypeOK /\ GotInv /\ StreamInv
    BY DEF SocketInv, OrderInv
  <1>2. PICK n \in 1 .. BUFFLEN :
          /\ k \in DOMAIN conns /\ conns[k].owner = c /\ conns[k].open
          /\ n <= Len(a)
          /\ n = BUFFLEN \/ n = Len(a)
          /\ SubSeq(a, n + 1, Len(a)) \in Seq(ByteSet)
          /\ conns' = [conns EXCEPT ![k] = [@ EXCEPT !.arrived = SubSeq(a, n + 1, Len(a)),
                                                     !.wire = w, !.fault = f]]
          /\ temp'[c] \in [1 .. BUFFLEN -> ByteSet]
          /\ \A j \in 1 .. n : temp'[c][j] = a[j]
          /\ \A d \in Clients : d # c => temp'[d] = temp[d]
          /\ temp' \in [Clients -> [1 .. BUFFLEN -> ByteSet]]
    BY ReadEffect, Zenon
  <1>3. /\ a \in Seq(ByteSet) /\ w \in Seq(ByteSet) /\ f \in {"none", "rst", "epipe"}
        /\ Whole(Len(a)) /\ Stream(a \o w, Got(c), sTemp)
    BY <1>2, OnConnection
  <1>4. Got(c) \in Nat /\ sTemp \in Nat /\ sTemp \in Int /\ Len(a) > 0
    BY <1>1, <1>2, <1>3, GotTypes
  <1>5. /\ v \in Versions /\ Got(c) <= v /\ v <= sTemp
        /\ BUFFLEN <= Len(a)
        /\ \A j \in 1 .. BUFFLEN : a[j] = Byte(v, j)
        /\ Whole(Len(left))
        /\ Stream(left \o w, v, sTemp)
    <2> HIDE DEF a, w, f
    <2>1. QED
      BY <1>3, <1>4, StreamRead
  <1>6. n = BUFFLEN
    BY <1>2, <1>5, LinkAssumption
  <1>7. temp'[c] = FrameBytes(v)
    <2>1. \A j \in 1 .. BUFFLEN : temp'[c][j] = Byte(v, j)
      BY <1>2, <1>5, <1>6
    <2>2. temp'[c] \in [1 .. BUFFLEN -> ByteSet]
      BY <1>2
    <2> HIDE DEF v
    <2>3. QED
      BY <2>1, <2>2 DEF FrameBytes
  <1>8. Rewired(k, left, w, f) /\ left \in Seq(ByteSet)
    BY <1>2, <1>6 DEF Rewired
  <1>9. /\ cPc[c] = "read" /\ cPc'[c] = "install" /\ UNCHANGED <<version, sTemp, buffer>>
        /\ \A d \in Clients : d # c => cPc'[d] = cPc[d]
    BY <1>1 DEF Read, Goto, TypeOK, serverVars
  <1>10. OnlyGets(c)
    BY <1>2, <1>9 DEF OnlyGets, Got
  <1> HIDE DEF a, w, f, left, v
  <1>11. Got(c) = buffer[c][1].version
    BY <1>9 DEF Got
  <1>12. Got(c)' = v
    <2>1. Got(c)' = temp'[c][1].version
      BY <1>9 DEF Got
    <2>2. QED
      BY <1>5, <1>7, <2>1, FrameVersion
  <1>13. StreamInv'
    BY <1>1, <1>2, <1>3, <1>5, <1>8, <1>9, <1>10, <1>12, OneStream
  <1>14. GotInv'
    <2>1. ASSUME NEW d \in Clients
          PROVE  /\ FrameUpTo(buffer'[d], 0, sTemp')
                 /\ cPc'[d] = "install" => FrameUpTo(temp'[d], buffer'[d][1].version, sTemp')
      <3>1. CASE d = c
        BY <1>1, <1>5, <1>7, <1>9, <1>11, <3>1 DEF GotInv, FrameUpTo
      <3>2. CASE d # c
        BY <1>1, <1>2, <1>9, <3>2 DEF GotInv
      <3>3. QED
        BY <3>1, <3>2
    <2>2. QED
      BY <1>1, <1>9, <2>1 DEF GotInv
  <1>15. QED
    BY <1>13, <1>14 DEF OrderInv

\* The client installs the frame it has got.
LEMMA InstallOrder ==
  ASSUME SocketInv, SocketInv', OrderInv, NEW c \in Clients, Install(c)
  PROVE  /\ OrderInv'
         /\ buffer' = [buffer EXCEPT ![c] = FrameBytes(Got(c))]
  <1>1. TypeOK /\ GotInv /\ StreamInv
    BY DEF SocketInv, OrderInv
  <1>2. /\ cPc[c] = "install" /\ cPc'[c] = "inner"
        /\ UNCHANGED <<version, conns, temp, sTemp>>
        /\ \A d \in Clients : d # c => cPc'[d] = cPc[d] /\ buffer'[d] = buffer[d]
        /\ buffer' = [buffer EXCEPT ![c] = temp[c]] /\ buffer'[c] = temp[c]
    BY <1>1 DEF Install, Goto, TypeOK, serverVars
  <1>3. /\ temp[c] = FrameBytes(Got(c)) /\ Got(c) \in Versions /\ Got(c) \in Nat
        /\ Got(c) <= sTemp /\ sTemp \in Nat
    BY <1>1, <1>2, GotTypes
  <1>4. ASSUME NEW d \in Clients PROVE Got(d)' = Got(d)
    BY <1>2 DEF Got
  <1>5. GotInv'
    <2>1. ASSUME NEW d \in Clients
          PROVE  /\ FrameUpTo(buffer'[d], 0, sTemp')
                 /\ cPc'[d] = "install" => FrameUpTo(temp'[d], buffer'[d][1].version, sTemp')
      <3>1. CASE d = c
        BY <1>2, <1>3, <3>1 DEF FrameUpTo
      <3>2. CASE d # c
        BY <1>1, <1>2, <3>2 DEF GotInv
      <3>3. QED
        BY <3>1, <3>2
    <2>2. QED
      BY <1>1, <1>2, <2>1 DEF GotInv
  <1>6. StreamInv'
    BY <1>2, <1>3, <1>4, StreamKept
  <1>7. QED
    BY <1>2, <1>3, <1>5, <1>6 DEF OrderInv

\* OrderInv is inductive, given SocketInv.
LEMMA NextOrder ==
  ASSUME ~Segmented, SocketInv, SocketInv', OrderInv, [Next]_vars
  PROVE  OrderInv'
  <1>1. CASE UNCHANGED vars
    <2>1. UNCHANGED <<version, conns, sTemp, cPc, temp, buffer>>
      BY <1>1 DEF vars, serverVars, clientVars
    <2>2. BytesKept /\ NothingGot
      BY <2>1 DEF BytesKept, NothingGot
    <2>3. sTemp <= sTemp' /\ sTemp' <= version' /\ TypeOK'
      BY <2>1, LinkAssumption DEF SocketInv, OrderInv, GotInv, TypeOK
    <2>4. QED
      BY <2>2, <2>3, OrderKept
  <1>2. CASE Network
    BY <1>2, DeliverOrder, BreakOrder DEF Network
  <1>3. CASE (\E v \in Versions : GuiSet(v)) \/ ServerQuit
    BY <1>3, ServerQuietOrder
  <1>4. CASE ServerStep
    BY <1>4, ServerQuietOrder, ServerSideOrder, SendFrameOrder DEF ServerStep
  <1>5. CASE CloseListening
    BY <1>5, ServerSideOrder
  <1>6. ASSUME NEW c \in Clients, ClientStep(c) \/ ClientQuit(c) PROVE OrderInv'
    BY <1>6, ClientQuietOrder, ClientSideOrder, ReadOrder, InstallOrder DEF ClientStep
  <1>7. QED
    BY <1>1, <1>2, <1>3, <1>4, <1>5, <1>6 DEF Next

\* Where each client is in the stream of frames, when frames arrive whole.
LEMMA OrderInvariant ==
  ASSUME ~Segmented
  PROVE  Spec => []OrderInv
  <1>1. SocketInv /\ SocketInv' /\ OrderInv /\ [Next]_vars => OrderInv'
    BY NextOrder
  <1>2. QED
    BY <1>1, InitOrder, SocketsInvariant, PTL DEF Spec

\* When TCP delivers whole frames, every client's buffer holds one frame as
\* the server sent it, across lost connections and reconnects.
THEOREM FramesWhole ==
  ASSUME ~Segmented
  PROVE  Spec => []FrameIntegrity
  <1>1. OrderInv => FrameIntegrity
    BY DEF OrderInv, GotInv, FrameUpTo, FrameIntegrity
  <1>2. QED
    BY <1>1, OrderInvariant, PTL
-----------------------------------------------------------------------------
(* The refinement: the dashboards mirror the server's buffer.              *)

\* What a client's buffer shows is the version installed in it.
LEMMA ShownBuffer ==
  ASSUME TypeOK, GotInv, NEW c \in Clients
  PROVE  Shown(buffer[c]) = buffer[c][1].version
  BY GotTypes, FrameVersion

\* No dashboard shows anything yet.
LEMMA InitRefines == Init => Mirrored!Init
  <1> SUFFICES ASSUME Init PROVE Mirrored!Init
    OBVIOUS
  <1>1. Shown(FrameBytes(0)) = 0
    BY LinkAssumption, FrameVersion
  <1>2. [c \in Clients |-> Shown(buffer[c])] = [c \in Clients |-> 0]
    BY <1>1 DEF Init
  <1>3. QED
    BY <1>2 DEF Init, Mirrored!Init

\* Install shows a frame, a setter makes a version, and nothing else is seen.
LEMMA StepRefines ==
  ASSUME SocketInv, SocketInv', OrderInv, [Next]_vars
  PROVE  [Mirrored!Next]_(Mirrored!vars)
  <1> DEFINE shown == [c \in Clients |-> Shown(buffer[c])]
  <1>1. TypeOK /\ GotInv
    BY DEF SocketInv, OrderInv
  <1>2. ASSUME NEW v \in Versions, GuiSet(v) PROVE Mirrored!Next
    <2>1. Mirrored!Set(v)
      BY <1>2 DEF GuiSet, clientVars, Mirrored!Set
    <2>2. QED
      BY <2>1 DEF Mirrored!Next
  <1>3. ASSUME NEW c \in Clients, Install(c) PROVE Mirrored!Next
    <2>1. buffer' = [buffer EXCEPT ![c] = FrameBytes(Got(c))] /\ version' = version
      BY <1>3, InstallOrder DEF Install
    <2>2. Got(c) \in Versions /\ Shown(FrameBytes(Got(c))) = Got(c)
      BY <1>1, GotTypes, FrameVersion
    <2>3. shown' = [shown EXCEPT ![c] = Got(c)]
      BY <1>1, <2>1, <2>2 DEF TypeOK
    <2>4. Got(c) \in shown[c] .. version
      <3>1. shown[c] = buffer[c][1].version
        BY <1>1, ShownBuffer
      <3>2. /\ buffer[c][1].version <= Got(c) /\ Got(c) <= sTemp
            /\ Got(c) \in Nat /\ sTemp \in Nat /\ version \in Nat
            /\ buffer[c][1].version \in Versions
        BY <1>1, GotTypes
      <3>3. sTemp <= version /\ Versions \subseteq Nat
        BY <1>1, LinkAssumption DEF GotInv
      <3>4. QED
        BY <3>1, <3>2, <3>3
    <2>5. Mirrored!Show(c, Got(c))
      BY <2>1, <2>3, <2>4 DEF Mirrored!Show
    <2>6. QED
      BY <2>2, <2>5 DEF Mirrored!Next
  <1>4. ASSUME UNCHANGED <<version, buffer>> PROVE UNCHANGED Mirrored!vars
    BY <1>4 DEF Mirrored!vars
  <1>5. CASE UNCHANGED vars \/ Network \/ ServerQuit \/ CloseListening
    <2>1. UNCHANGED vars \/ ServerQuit \/ CloseListening => UNCHANGED <<version, buffer>>
      BY DEF vars, clientVars, ServerQuit, CloseListening
    <2>2. Network => UNCHANGED <<version, buffer>>
      <3>1. ASSUME NEW k, NEW n, Deliver(k, n) PROVE UNCHANGED <<version, buffer>>
        BY <3>1 DEF Deliver, clientVars
      <3>2. ASSUME NEW k, Break(k) PROVE UNCHANGED <<version, buffer>>
        BY <3>2 DEF Break, clientVars
      <3>3. QED
        BY <3>1, <3>2 DEF Network
    <2>3. QED
      BY <1>4, <1>5, <2>1, <2>2
  <1>6. CASE ServerStep
    <2>1. ServerLoop \/ CallAccept \/ AcceptSleep \/ Accept => UNCHANGED <<version, buffer>>
      BY DEF clientVars, ServerLoop, CallAccept, AcceptSleep, Accept
    <2>2. ServerCopy \/ CloseConnection => UNCHANGED <<version, buffer>>
      BY DEF clientVars, ServerCopy, CloseConnection
    <2>3. SendFrame => UNCHANGED <<version, buffer>>
      BY DEF clientVars, SendFrame
    <2>4. SendFails => UNCHANGED <<version, buffer>>
      BY DEF clientVars, SendFails
    <2>5. QED
      BY <1>4, <1>6, <2>1, <2>2, <2>3, <2>4 DEF ServerStep
  <1>7. ASSUME NEW c \in Clients, ClientStep(c) \/ ClientQuit(c)
        PROVE  [Mirrored!Next]_(Mirrored!vars)
    <2>1. ClientLoop(c) \/ Connect(c) \/ ConnectFails(c) \/ ClientSleep(c)
            => UNCHANGED <<version, buffer>>
      BY DEF ClientLoop, Connect, ConnectFails, ClientSleep
    <2>2. ClientTest(c) \/ ReadFails(c) \/ ClientQuit(c) => UNCHANGED <<version, buffer>>
      BY DEF ClientTest, ReadFails, ClientQuit
    <2>3. Read(c) => UNCHANGED <<version, buffer>>
      BY DEF Read
    <2>4. ClientExit(c) => UNCHANGED <<version, buffer>>
      BY DEF ClientExit
    <2>5. QED
      BY <1>3, <1>4, <1>7, <2>1, <2>2, <2>3, <2>4 DEF ClientStep
  <1>8. QED
    BY <1>2, <1>5, <1>6, <1>7 DEF Next

\* When TCP delivers whole frames, TcpLink implements Mirror: over any number
\* of lost connections and reconnects a dashboard shows one frame as the
\* server sent it, never one the server has not sent yet, and never goes back
\* to an older one.
THEOREM MirrorImplemented ==
  ASSUME ~Segmented
  PROVE  Spec => ImplementsMirror
  <1>1. SocketInv /\ SocketInv' /\ OrderInv /\ [Next]_vars => [Mirrored!Next]_(Mirrored!vars)
    BY StepRefines
  <1>2. QED
    BY <1>1, InitRefines, SocketsInvariant, OrderInvariant, PTL
       DEF Spec, ImplementsMirror, Mirrored!Spec
=============================================================================
