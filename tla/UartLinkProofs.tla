--------------------------- MODULE UartLinkProofs ---------------------------
(***************************************************************************)
(* Proofs about UartLink, for every set of versions, any length of a frame, *)
(* any capacity of the lines, and any number of failures and messages.      *)
(***************************************************************************)
EXTENDS UartLink, SequenceTheorems, TLAPS

\* The constants are numbers.
LEMMA Constants ==
  /\ BUFFLEN \in Nat \ {0} /\ InFlight \in Nat \ {0} /\ Capacity \in Nat
  /\ MaxFaults \in Nat /\ MaxNoise \in Nat
  /\ Versions \subseteq Nat /\ 0 \in Versions
  BY UartAssumption

\* A part of a sequence of bytes.
LEMMA PartOfBytes ==
  ASSUME NEW q \in Seq(ByteSet), NEW m \in 0 .. Len(q), NEW n \in m .. Len(q)
  PROVE  /\ SubSeq(q, m + 1, n) \in Seq(ByteSet)
         /\ Len(SubSeq(q, m + 1, n)) = n - m
         /\ \A i \in 1 .. n - m : SubSeq(q, m + 1, n)[i] = q[m + i]
  <1>1. \A i \in m + 1 .. n : q[i] \in ByteSet
    OBVIOUS
  <1>2. m + 1 \in Int /\ n \in Int /\ m \in Int /\ m <= n
    OBVIOUS
  <1>3. QED
    BY <1>1, <1>2, SubSeqProperties

\* Both parts of a sequence of bytes that is cut in two.
LEMMA TwoParts ==
  ASSUME NEW q \in Seq(ByteSet), NEW n \in 0 .. Len(q)
  PROVE  /\ SubSeq(q, 1, n) \in Seq(ByteSet)
         /\ SubSeq(q, n + 1, Len(q)) \in Seq(ByteSet)
         /\ Len(SubSeq(q, 1, n)) = n
         /\ n = BUFFLEN => SubSeq(q, 1, n) \in [1 .. BUFFLEN -> ByteSet]
  <1>1. 0 \in 0 .. Len(q) /\ Len(q) \in n .. Len(q) /\ n \in 0 .. Len(q) /\ 0 + 1 = 1
    OBVIOUS
  <1>2. SubSeq(q, 0 + 1, n) \in Seq(ByteSet) /\ Len(SubSeq(q, 0 + 1, n)) = n - 0
    BY <1>1, PartOfBytes
  <1>3. SubSeq(q, n + 1, Len(q)) \in Seq(ByteSet)
    BY <1>1, PartOfBytes
  <1>4. /\ SubSeq(q, 1, n) \in Seq(ByteSet) /\ Len(SubSeq(q, 1, n)) = n
    BY <1>1, <1>2
  <1>5. \A x \in Seq(ByteSet) : Len(x) = BUFFLEN => x \in [1 .. BUFFLEN -> ByteSet]
    OBVIOUS
  <1>6. QED
    BY <1>3, <1>4, <1>5

\* A frame is BUFFLEN bytes.
LEMMA FrameOfBytes ==
  ASSUME NEW v \in Versions \cup {Junk}
  PROVE  /\ FrameBytes(v) \in Seq(ByteSet)
         /\ FrameBytes(v) \in [1 .. BUFFLEN -> ByteSet]
         /\ Len(FrameBytes(v)) = BUFFLEN
         /\ \A j \in 1 .. BUFFLEN : FrameBytes(v)[j] = Byte(v, j)
  <1>1. /\ BUFFLEN \in Nat
        /\ \A j \in 1 .. BUFFLEN : Byte(v, j) \in ByteSet
    BY Constants DEF ByteSet
  <1>2. FrameBytes(v) \in [1 .. BUFFLEN -> ByteSet]
    BY <1>1 DEF FrameBytes
  <1>3. QED
    BY <1>1, <1>2 DEF FrameBytes

\* The first notification, and those after it.
LEMMA HeadAndTail ==
  ASSUME NEW S, NEW a \in Seq(S), a # <<>>
  PROVE  /\ Head(a) \in S /\ Head(a) = a[1] /\ Tail(a) \in Seq(S)
         /\ Len(a) \in Nat \ {0} /\ Len(Tail(a)) = Len(a) - 1
         /\ \A i \in 1 .. Len(a) - 1 : Tail(a)[i] = a[i + 1]
  BY HeadTailProperties

\* Steps of the server program keep the types.
LEMMA ServerTypes ==
  ASSUME TypeOK, (\E v \in Versions : GuiSet(v)) \/ Server \/ ServerQuit
  PROVE  TypeOK'
  <1>1. CASE (\E v \in Versions : GuiSet(v)) \/ ServerQuit
    BY <1>1 DEF TypeOK, GuiSet, ServerQuit, boardVars, clientVars, bounds
  <1>2. CASE ServerOpen \/ ServerLeave \/ ServerSendFails
    BY <1>2 DEF TypeOK, ServerOpen, ServerLeave, ServerSendFails, ServerStep, clientVars, bounds
  <1>3. CASE ServerSend
    <2>1. toBoard \in Seq(ByteSet) /\ FrameBytes(version) \in Seq(ByteSet)
      BY FrameOfBytes DEF TypeOK
    <2>2. toBoard' \in Seq(ByteSet)
      BY <1>3, <2>1 DEF ServerSend
    <2>3. QED
      BY <1>3, <2>2 DEF TypeOK, ServerSend, ServerStep, clientVars, bounds
  <1>4. QED
    BY <1>1, <1>2, <1>3 DEF Server

\* Steps of the boards and their lines keep the types.
LEMMA BoardTypes ==
  ASSUME TypeOK,
         \/ \E m \in Messages : ConnectFails(m)
         \/ TaskRead \/ NotifyRx \/ Connect \/ Disconnect \/ BoardRestarts
         \/ ServerUnplugged \/ ServerPlugged \/ ClientUnplugged \/ ClientPlugged
         \/ Emit \/ \E n \in 1 .. Capacity : EmitPiece(n)
  PROVE  TypeOK'
  <1>0. /\ Fault => faults' \in 0 .. MaxFaults
        /\ <<>> \in Seq([1 .. BUFFLEN -> ByteSet]) /\ Len(<<>>) <= InFlight
    <2>1. Fault => faults' \in 0 .. MaxFaults
      BY Constants DEF TypeOK, Fault
    <2>2. Len(<<>>) = 0 /\ 0 <= InFlight
      BY Constants
    <2>3. <<>> \in Seq([1 .. BUFFLEN -> ByteSet])
      OBVIOUS
    <2>4. QED
      BY <2>1, <2>2, <2>3
  <1>1. CASE Connect \/ ServerPlugged
    BY <1>1 DEF TypeOK, Connect, ServerPlugged, serverVars, clientVars, bounds
  <1>11. CASE ClientUnplugged \/ ClientPlugged
    BY <1>0, <1>11 DEF TypeOK, ClientUnplugged, ClientPlugged, serverVars, boardVars,
         clientVars, bounds
  <1>2. CASE Disconnect
    BY <1>0, <1>2 DEF TypeOK, Disconnect, serverVars, clientVars
  <1>3. ASSUME NEW m \in Messages, ConnectFails(m) PROVE TypeOK'
    <2>1. m \in Seq(ByteSet)
      <3>1. Byte(Junk, 1) \in ByteSet
        BY Constants DEF ByteSet
      <3>2. QED
        BY <3>1 DEF Messages
    <2>2. out' \in Seq(ByteSet)
      BY <1>3, <2>1 DEF TypeOK, ConnectFails
    <2>3. QED
      BY <1>3, <2>2, Constants DEF TypeOK, ConnectFails, serverVars, clientVars
  <1>4. CASE TaskRead
    <2>1. /\ toBoard \in Seq(ByteSet) /\ BUFFLEN \in 0 .. Len(toBoard)
          /\ air \in Seq([1 .. BUFFLEN -> ByteSet])
      BY <1>4, Constants DEF TypeOK, TaskRead, BoardRead
    <2>2. /\ SubSeq(toBoard, 1, BUFFLEN) \in [1 .. BUFFLEN -> ByteSet]
          /\ toBoard' \in Seq(ByteSet)
      BY <1>4, <2>1, TwoParts DEF TaskRead, BoardRead
    <2>3. air' \in Seq([1 .. BUFFLEN -> ByteSet]) /\ Len(air') <= InFlight
      <3> DEFINE frame == SubSeq(toBoard, 1, BUFFLEN)
      <3>1. /\ air' = IF bleUp /\ Len(air) < InFlight THEN Append(air, frame) ELSE air
            /\ Len(air) \in Nat /\ Len(air) <= InFlight /\ InFlight \in Nat
        BY <1>4, <2>1, Constants DEF TypeOK, TaskRead, BoardRead
      <3> HIDE DEF frame
      <3>2. frame \in [1 .. BUFFLEN -> ByteSet]
        BY <2>2 DEF frame
      <3>3. /\ Append(air, frame) \in Seq([1 .. BUFFLEN -> ByteSet])
            /\ Len(Append(air, frame)) = Len(air) + 1
        BY <2>1, <3>2
      <3>4. QED
        BY <2>1, <3>1, <3>3
    <2>4. QED
      BY <1>4, <2>2, <2>3 DEF TypeOK, TaskRead, BoardRead, serverVars, clientVars, bounds
  <1>5. CASE NotifyRx
    <2>1. air \in Seq([1 .. BUFFLEN -> ByteSet]) /\ air # <<>>
      BY <1>5 DEF TypeOK, NotifyRx
    <2>2. /\ Head(air) \in [1 .. BUFFLEN -> ByteSet]
          /\ Tail(air) \in Seq([1 .. BUFFLEN -> ByteSet])
          /\ Len(Tail(air)) = Len(air) - 1 /\ Len(air) \in Nat
      BY <2>1, HeadAndTail
    <2>3. Head(air) \in Seq(ByteSet)
      BY <2>2, Constants
    <2>4. out' \in Seq(ByteSet)
      BY <1>5, <2>3 DEF TypeOK, NotifyRx
    <2>5. air' \in Seq([1 .. BUFFLEN -> ByteSet]) /\ Len(air') <= InFlight
      BY <1>5, <2>2, Constants DEF TypeOK, NotifyRx
    <2>6. QED
      BY <1>5, <2>4, <2>5 DEF TypeOK, NotifyRx, serverVars, clientVars, bounds
  <1>6. CASE BoardRestarts
    <2>1. PICK n \in Losses(toBoard) : toBoard' = SubSeq(toBoard, n + 1, Len(toBoard))
      BY <1>6 DEF BoardRestarts
    <2>2. toBoard \in Seq(ByteSet) /\ n \in 0 .. Len(toBoard)
      BY DEF TypeOK, Losses
    <2>3. toBoard' \in Seq(ByteSet)
      BY <2>1, <2>2, TwoParts
    <2>4. QED
      BY <1>0, <1>6, <2>3 DEF TypeOK, BoardRestarts, serverVars, clientVars
  <1>7. CASE ServerUnplugged
    <2>1. PICK n \in Losses(toBoard) : toBoard' = SubSeq(toBoard, 1, Len(toBoard) - n)
      BY <1>7 DEF ServerUnplugged
    <2>2. toBoard \in Seq(ByteSet) /\ Len(toBoard) - n \in 0 .. Len(toBoard)
      BY DEF TypeOK, Losses
    <2>3. toBoard' \in Seq(ByteSet)
      BY <2>1, <2>2, TwoParts
    <2>4. QED
      BY <1>0, <1>7, <2>3 DEF TypeOK, ServerUnplugged, serverVars, clientVars
  <1>8. ASSUME NEW n \in 0 .. Len(out), Arrive(n), noise' \in 0 .. MaxNoise
        PROVE  TypeOK'
    <2>1. out \in Seq(ByteSet) /\ received \in Seq(ByteSet)
      BY DEF TypeOK
    <2>2. SubSeq(out, 1, n) \in Seq(ByteSet) /\ SubSeq(out, n + 1, Len(out)) \in Seq(ByteSet)
      BY <2>1, TwoParts
    <2>3. out' \in Seq(ByteSet) /\ received' \in Seq(ByteSet)
      BY <1>8, <2>1, <2>2 DEF Arrive
    <2>4. QED
      BY <1>8, <2>3 DEF TypeOK, Arrive, serverVars
  <1>9. CASE Emit
    <2>1. Len(out) \in 0 .. Len(out) /\ noise' \in 0 .. MaxNoise
      BY <1>9 DEF TypeOK, Emit
    <2>2. QED
      BY <1>8, <1>9, <2>1 DEF Emit
  <1>10. ASSUME NEW n \in 1 .. Capacity, EmitPiece(n) PROVE TypeOK'
    <2>1. n \in 0 .. Len(out) /\ noise' \in 0 .. MaxNoise
      BY <1>10, Constants DEF TypeOK, EmitPiece
    <2>2. QED
      BY <1>8, <1>10, <2>1 DEF EmitPiece
  <1>12. QED
    BY <1>1, <1>2, <1>3, <1>4, <1>5, <1>6, <1>7, <1>9, <1>10, <1>11

\* Steps of the client program keep the types.
LEMMA ClientTypes ==
  ASSUME TypeOK, Client \/ ClientQuit
  PROVE  TypeOK'
  <1> USE DEF ClientStep, serverVars, boardVars
  <1>1. <<>> \in Seq(ByteSet)
    OBVIOUS
  <1>2. CASE ClientQuit
    BY <1>2 DEF TypeOK, ClientQuit, bounds
  <1>3. CASE ClientOpen \/ ClientTest \/ ClientReadShort
    <2>1. received' \in Seq(ByteSet) /\ readBuffer' \in Seq(ByteSet)
      BY <1>1, <1>3 DEF ClientOpen, ClientTest, ClientReadShort, Discard
    <2>2. status' \in BOOLEAN /\ cPc' \in {"open", "test", "wait", "read", "done"}
      BY <1>3 DEF TypeOK, ClientOpen, ClientTest, ClientReadShort
    <2>3. QED
      BY <1>3, <2>1, <2>2 DEF TypeOK, ClientOpen, ClientTest, ClientReadShort
  <1>4. CASE ClientTimeout
    <2>1. received' \in Seq(ByteSet) /\ readBuffer' \in Seq(ByteSet)
      BY <1>1, <1>4 DEF ClientTimeout, WaitEnds, Discard
    <2>2. faults' \in 0 .. MaxFaults
      BY <1>4, Constants DEF TypeOK, ClientTimeout, WaitEnds, Fault
    <2>3. QED
      BY <1>4, <2>1, <2>2 DEF TypeOK, ClientTimeout, WaitEnds
  <1>5. CASE ClientWait
    <2>1. received' \in Seq(ByteSet) /\ readBuffer' \in Seq(ByteSet)
      BY <1>1, <1>5 DEF TypeOK, ClientWait
    <2>2. QED
      BY <1>5, <2>1 DEF TypeOK, ClientWait
  <1>6. CASE ClientRead
    <2>1. readBuffer \in Seq(ByteSet) /\ BUFFLEN \in 0 .. Len(readBuffer)
      BY <1>6, Constants DEF TypeOK, ClientRead
    <2>2. readBuffer' \in Seq(ByteSet) /\ buffer' \in [1 .. BUFFLEN -> ByteSet]
      BY <1>6, <2>1, TwoParts DEF ClientRead
    <2>3. QED
      BY <1>6, <2>2 DEF TypeOK, ClientRead
  <1>7. QED
    BY <1>2, <1>3, <1>4, <1>5, <1>6 DEF Client

\* Every byte anywhere between the two buffers is one of a frame or of a
\* message, a notification is BUFFLEN bytes and so is what the dashboard
\* shows, whatever is lost, cut or added on the way.
THEOREM UartTypes == Spec => []TypeOK
  <1>1. Init => TypeOK
    <2> SUFFICES ASSUME Init PROVE TypeOK
      OBVIOUS
    <2>1. buffer \in [1 .. BUFFLEN -> ByteSet]
      BY FrameOfBytes, Constants DEF Init
    <2>2. <<>> \in Seq(ByteSet)
      OBVIOUS
    <2>3. <<>> \in Seq([1 .. BUFFLEN -> ByteSet])
      OBVIOUS
    <2>4. Len(<<>>) = 0 /\ Len(<<>>) <= InFlight
      BY Constants
    <2>5. air \in Seq([1 .. BUFFLEN -> ByteSet]) /\ Len(air) <= InFlight
      BY <2>3, <2>4 DEF Init
    <2>6. faults \in 0 .. MaxFaults /\ noise \in 0 .. MaxNoise /\ version \in Versions
      BY Constants DEF Init
    <2>7. QED
      BY <2>1, <2>2, <2>5, <2>6 DEF Init, TypeOK
  <1>2. TypeOK /\ [Next]_vars => TypeOK'
    <2>1. TypeOK /\ Next => TypeOK'
      BY ServerTypes, BoardTypes, ClientTypes DEF Next
    <2>2. TypeOK /\ UNCHANGED vars => TypeOK'
      BY DEF TypeOK, vars, serverVars, boardVars, clientVars, bounds
    <2>3. QED
      BY <2>1, <2>2
  <1>3. QED
    BY <1>1, <1>2, PTL DEF Spec
-----------------------------------------------------------------------------
(* Streams of frames.                                                      *)

Whole(n) == n % BUFFLEN = 0

\* Bytes that are whole frames, one after the other, in the order in which
\* their versions were made, none older than lo or newer than hi.
Stream(q, lo, hi) ==
  /\ q \in Seq(ByteSet)
  /\ Whole(Len(q))
  /\ \A o \in 0 .. Len(q) - 1, j \in 1 .. BUFFLEN :
       Whole(o) => q[o + j] = Byte(q[o + 1].version, j)
  /\ \A i, j \in 1 .. Len(q) : i <= j => q[i].version <= q[j].version
  /\ \A i \in 1 .. Len(q) : lo <= q[i].version /\ q[i].version <= hi

\* Nothing and one frame are whole frames.
LEMMA WholeZero == Whole(0) /\ Whole(BUFFLEN)
  BY Constants DEF Whole

\* Whole frames are a number of frames.
LEMMA WholeFactor ==
  ASSUME NEW a \in Nat
  PROVE  Whole(a) <=> \E m \in Nat : a = BUFFLEN * m
  <1>1. ASSUME Whole(a) PROVE \E m \in Nat : a = BUFFLEN * m
    <2>1. a = BUFFLEN * (a \div BUFFLEN) /\ a \div BUFFLEN \in Nat
      BY <1>1, Constants DEF Whole
    <2>2. QED
      BY <2>1
  <1>2. ASSUME NEW m \in Nat, a = BUFFLEN * m PROVE Whole(a)
    BY <1>2, Constants DEF Whole
  <1>3. QED
    BY <1>1, <1>2

\* Whole frames added to and taken off whole frames.
LEMMA WholeSum ==
  ASSUME NEW a \in Nat, NEW b \in Nat, Whole(a)
  PROVE  /\ Whole(b) => Whole(a + b)
         /\ b >= a /\ Whole(b) => Whole(b - a)
         /\ Whole(a + b) => Whole(b)
  <1>1. PICK m \in Nat : a = BUFFLEN * m
    BY WholeFactor
  <1>2. ASSUME Whole(b) PROVE Whole(a + b)
    <2>1. PICK n \in Nat : b = BUFFLEN * n
      BY <1>2, WholeFactor
    <2>2. a + b = BUFFLEN * (m + n) /\ m + n \in Nat /\ a + b \in Nat
      BY <1>1, <2>1, Constants
    <2>3. QED
      BY <2>2, WholeFactor
  <1>3. ASSUME NEW d \in Nat, d >= a, Whole(d) PROVE Whole(d - a)
    <2>1. PICK n \in Nat : d = BUFFLEN * n
      BY <1>3, WholeFactor
    <2>2. d - a = BUFFLEN * (n - m)
      BY <1>1, <2>1, Constants
    <2>3. n >= m
      BY <1>1, <1>3, <2>1, Constants
    <2>4. n - m \in Nat /\ d - a \in Nat
      BY <1>3, <2>3
    <2>5. QED
      BY <2>2, <2>4, WholeFactor
  <1>4. ASSUME Whole(a + b) PROVE Whole(b)
    <2>1. a + b \in Nat /\ a + b >= a /\ (a + b) - a = b
      OBVIOUS
    <2>2. QED
      BY <1>3, <1>4, <2>1
  <1>5. QED
    BY <1>2, <1>3, <1>4

\* There is no piece shorter than a frame.
LEMMA WholeLeast ==
  ASSUME NEW a \in Nat, Whole(a), a > 0
  PROVE  a >= BUFFLEN
  BY Constants DEF Whole

\* A byte shows its version.
LEMMA ByteTypes ==
  /\ \A b \in ByteSet : b.version \in Versions \cup {Junk} /\ b.version \in Int
  /\ \A v \in Versions \cup {Junk}, j \in 1 .. BUFFLEN :
       Byte(v, j) \in ByteSet /\ Byte(v, j).version = v
  BY Constants DEF ByteSet, Byte, Junk

\* A frame shows its version.
LEMMA FrameVersion ==
  ASSUME NEW v \in Versions
  PROVE  FrameBytes(v)[1].version = v
  <1>1. 1 \in 1 .. BUFFLEN
    BY Constants
  <1>2. QED
    BY <1>1, FrameOfBytes, ByteTypes

\* Nothing is a stream.
LEMMA StreamEmpty ==
  ASSUME NEW lo, NEW hi
  PROVE  Stream(<<>>, lo, hi)
  <1>1. <<>> \in Seq(ByteSet) /\ Len(<<>>) = 0
    OBVIOUS
  <1>2. QED
    BY <1>1, WholeZero DEF Stream

\* A stream is one between wider bounds.
LEMMA StreamWiden ==
  ASSUME NEW q, NEW lo \in Int, NEW hi \in Int, Stream(q, lo, hi),
         NEW low \in Int, NEW high \in Int, low <= lo, hi <= high
  PROVE  Stream(q, low, high)
  <1>1. ASSUME NEW i \in 1 .. Len(q)
        PROVE  low <= q[i].version /\ q[i].version <= high
    <2>1. q[i] \in ByteSet /\ lo <= q[i].version /\ q[i].version <= hi
      BY DEF Stream
    <2>2. QED
      BY <2>1, ByteTypes
  <1>2. QED
    BY <1>1 DEF Stream

\* One frame is a stream.
LEMMA FrameStream ==
  ASSUME NEW v \in Versions
  PROVE  Stream(FrameBytes(v), v, v)
  <1> DEFINE q == FrameBytes(v)
  <1>1. /\ BUFFLEN \in Nat /\ v \in Int /\ q \in Seq(ByteSet) /\ Len(q) = BUFFLEN
        /\ \A j \in 1 .. BUFFLEN : q[j] = Byte(v, j) /\ q[j].version = v
    BY FrameOfBytes, ByteTypes, Constants
  <1>2. q[1].version = v
    BY FrameVersion
  <1> HIDE DEF q
  <1>3. ASSUME NEW o \in 0 .. Len(q) - 1, NEW j \in 1 .. BUFFLEN, Whole(o)
        PROVE  q[o + j] = Byte(q[o + 1].version, j)
    <2>1. o = 0
      BY <1>1, <1>3, WholeLeast
    <2>2. QED
      BY <1>1, <1>2, <2>1
  <1>4. /\ \A i, j \in 1 .. Len(q) : i <= j => q[i].version <= q[j].version
        /\ \A i \in 1 .. Len(q) : v <= q[i].version /\ q[i].version <= v
    BY <1>1
  <1>5. QED
    BY <1>1, <1>3, <1>4, WholeZero DEF Stream, q

\* A stream of one frame is that frame.
LEMMA StreamFrame ==
  ASSUME NEW q, NEW lo \in Nat, NEW hi \in Nat, Stream(q, lo, hi), Len(q) = BUFFLEN
  PROVE  \E v \in Versions : q = FrameBytes(v) /\ lo <= v /\ v <= hi
  <1>1. /\ BUFFLEN \in Nat \ {0} /\ 1 \in 1 .. Len(q) /\ 0 \in 0 .. Len(q) - 1
        /\ q \in Seq(ByteSet)
    BY Constants DEF Stream
  <1>2. PICK v : v = q[1].version
    OBVIOUS
  <1>3. v \in Versions /\ lo <= v /\ v <= hi
    <2>1. v \in Versions \cup {Junk} /\ lo <= v /\ v <= hi
      BY <1>1, <1>2, ByteTypes DEF Stream
    <2>2. QED
      BY <2>1 DEF Junk
  <1>4. ASSUME NEW j \in 1 .. BUFFLEN PROVE q[j] = Byte(v, j)
    <2>1. q[0 + j] = Byte(q[0 + 1].version, j)
      BY <1>1, WholeZero DEF Stream
    <2>2. QED
      BY <1>2, <2>1
  <1>5. q = FrameBytes(v)
    <2>1. q = [j \in 1 .. BUFFLEN |-> q[j]]
      BY <1>1
    <2>2. QED
      BY <1>4, <2>1 DEF FrameBytes
  <1>6. QED
    BY <1>3, <1>5

\* A stream followed by one that is not older.
LEMMA StreamJoin ==
  ASSUME NEW p, NEW q, NEW lo \in Int, NEW mid \in Int, NEW hi \in Int,
         lo <= mid, mid <= hi, Stream(p, lo, mid), Stream(q, mid, hi)
  PROVE  Stream(p \o q, lo, hi)
  <1> DEFINE new == p \o q
             L   == Len(p)
             M   == Len(q)
  <1>1. /\ p \in Seq(ByteSet) /\ q \in Seq(ByteSet) /\ L \in Nat /\ M \in Nat
        /\ Whole(L) /\ Whole(M) /\ BUFFLEN \in Nat \ {0}
    BY Constants DEF Stream
  <1>2. /\ new \in Seq(ByteSet) /\ Len(new) = L + M
        /\ \A i \in 1 .. L + M : new[i] = IF i <= L THEN p[i] ELSE q[i - L]
    BY <1>1, ConcatProperties
  <1>3. /\ \A i \in 1 .. L : new[i] = p[i]
        /\ \A i \in 1 .. M : new[L + i] = q[i]
    <2>1. ASSUME NEW i \in 1 .. M
          PROVE  L + i \in 1 .. L + M /\ ~(L + i <= L) /\ (L + i) - L = i
      BY <1>1
    <2>2. ASSUME NEW i \in 1 .. L
          PROVE  i \in 1 .. L + M /\ i <= L
      BY <1>1
    <2> HIDE DEF new, L, M
    <2>3. QED
      BY <1>2, <2>1, <2>2
  <1> HIDE DEF new, L, M
  <1>4. Whole(Len(new))
    BY <1>1, <1>2, WholeSum
  <1>5. ASSUME NEW o \in 0 .. Len(new) - 1, NEW j \in 1 .. BUFFLEN, Whole(o)
        PROVE  new[o + j] = Byte(new[o + 1].version, j)
    <2>1. CASE o < L
      <3>1. o \in Nat /\ L >= o /\ L - o \in Nat /\ L - o > 0
        BY <1>1, <2>1
      <3>2. Whole(L - o)
        BY <1>1, <1>5, <3>1, WholeSum
      <3>3. o + BUFFLEN <= L
        BY <1>1, <3>1, <3>2, WholeLeast
      <3>4. o + j \in 1 .. L /\ o + 1 \in 1 .. L /\ o \in 0 .. L - 1
        BY <1>1, <3>1, <3>3
      <3>5. p[o + j] = Byte(p[o + 1].version, j)
        BY <1>5, <3>4 DEF Stream, L
      <3>6. QED
        BY <1>3, <3>4, <3>5
    <2>2. CASE o >= L
      <3>1. /\ o \in Nat /\ o - L \in Nat /\ o - L \in 0 .. M - 1 /\ M - (o - L) \in Nat
            /\ M - (o - L) > 0 /\ M >= o - L
        BY <1>1, <1>2, <2>2
      <3>2. Whole(o - L)
        BY <1>1, <1>5, <2>2, <3>1, WholeSum
      <3>3. Whole(M - (o - L))
        BY <1>1, <3>1, <3>2, WholeSum
      <3>4. (o - L) + BUFFLEN <= M
        BY <1>1, <3>1, <3>3, WholeLeast
      <3>5. /\ (o - L) + j \in 1 .. M /\ (o - L) + 1 \in 1 .. M
            /\ L + ((o - L) + j) = o + j /\ L + ((o - L) + 1) = o + 1
        BY <1>1, <3>1, <3>4
      <3>6. q[(o - L) + j] = Byte(q[(o - L) + 1].version, j)
        BY <3>1, <3>2 DEF Stream, M
      <3>7. new[o + j] = q[(o - L) + j] /\ new[o + 1] = q[(o - L) + 1]
        BY <1>3, <3>5
      <3>8. QED
        BY <3>6, <3>7
    <2>3. QED
      BY <1>1, <2>1, <2>2
  <1>6. ASSUME NEW i \in 1 .. Len(new)
        PROVE  \/ i \in 1 .. L /\ new[i] = p[i] /\ new[i].version \in Int
                  /\ lo <= new[i].version /\ new[i].version <= mid
               \/ i > L /\ i - L \in 1 .. M /\ new[i] = q[i - L] /\ new[i].version \in Int
                  /\ mid <= new[i].version /\ new[i].version <= hi
    <2>1. CASE i <= L
      <3>1. i \in 1 .. L
        BY <1>1, <2>1
      <3>2. p[i] \in ByteSet /\ lo <= p[i].version /\ p[i].version <= mid
        BY <3>1 DEF Stream, L
      <3>3. QED
        BY <1>3, <3>1, <3>2, ByteTypes
    <2>2. CASE i > L
      <3>1. i - L \in 1 .. M /\ L + (i - L) = i
        BY <1>1, <1>2, <2>2
      <3>2. q[i - L] \in ByteSet /\ mid <= q[i - L].version /\ q[i - L].version <= hi
        BY <3>1 DEF Stream, M
      <3>3. new[i] = q[i - L]
        BY <1>3, <3>1
      <3>4. QED
        BY <2>2, <3>1, <3>2, <3>3, ByteTypes
    <2>3. QED
      BY <1>1, <2>1, <2>2
  <1>7. ASSUME NEW i \in 1 .. Len(new), NEW j \in 1 .. Len(new), i <= j
        PROVE  new[i].version <= new[j].version
    <2>1. CASE i \in 1 .. L /\ j \in 1 .. L
      <3>1. p[i].version <= p[j].version
        BY <1>7, <2>1 DEF Stream, L
      <3>2. QED
        BY <1>3, <2>1, <3>1
    <2>2. CASE i > L /\ j > L
      <3>1. i - L \in 1 .. M /\ j - L \in 1 .. M /\ i - L <= j - L
        BY <1>1, <1>2, <1>7, <2>2
      <3>2. q[i - L].version <= q[j - L].version
        BY <3>1 DEF Stream, M
      <3>3. new[i] = q[i - L] /\ new[j] = q[j - L]
        BY <1>1, <1>6, <2>2
      <3>4. QED
        BY <3>2, <3>3
    <2>3. CASE i \in 1 .. L /\ j > L
      <3>1. new[i].version <= mid /\ mid <= new[j].version
        BY <1>1, <1>6, <2>3
      <3>2. new[i].version \in Int /\ new[j].version \in Int
        BY <1>6
      <3>3. QED
        BY <3>1, <3>2
    <2>4. QED
      BY <1>1, <1>2, <1>7, <2>1, <2>2, <2>3
  <1>8. ASSUME NEW i \in 1 .. Len(new)
        PROVE  lo <= new[i].version /\ new[i].version <= hi
    BY <1>6
  <1>9. QED
    BY <1>2, <1>4, <1>5, <1>7, <1>8 DEF Stream, new

\* Whole frames out of a stream.
LEMMA StreamSlice ==
  ASSUME NEW q, NEW lo \in Int, NEW hi \in Int, Stream(q, lo, hi),
         NEW m \in 0 .. Len(q), NEW n \in m .. Len(q), Whole(m), Whole(n)
  PROVE  LET s == SubSeq(q, m + 1, n) IN
         /\ Stream(s, lo, hi) /\ Len(s) = n - m
         /\ \A i \in 1 .. n - m : s[i] = q[m + i] /\ m + i \in 1 .. Len(q)
  <1> DEFINE s == SubSeq(q, m + 1, n)
             k == n - m
  <1>1. /\ q \in Seq(ByteSet) /\ Len(q) \in Nat /\ m \in Nat /\ n \in Nat
        /\ m <= n /\ n <= Len(q) /\ BUFFLEN \in Nat \ {0} /\ k \in Nat
    BY Constants DEF Stream
  <1>2. s \in Seq(ByteSet) /\ Len(s) = k /\ \A i \in 1 .. k : s[i] = q[m + i]
    BY <1>1, PartOfBytes
  <1>3. Whole(k)
    BY <1>1, WholeSum
  <1>4. \A i \in 1 .. k : m + i \in 1 .. Len(q)
    BY <1>1
  <1> HIDE DEF s
  <1>5. ASSUME NEW o \in 0 .. Len(s) - 1, NEW j \in 1 .. BUFFLEN, Whole(o)
        PROVE  s[o + j] = Byte(s[o + 1].version, j)
    <2>1. o \in Nat /\ k - o \in Nat /\ k - o > 0 /\ k >= o /\ m + o \in 0 .. Len(q) - 1
      BY <1>1, <1>2
    <2>2. Whole(m + o) /\ Whole(k - o)
      BY <1>1, <1>3, <1>5, <2>1, WholeSum
    <2>3. o + BUFFLEN <= k
      BY <1>1, <2>1, <2>2, WholeLeast
    <2>4. o + j \in 1 .. k /\ o + 1 \in 1 .. k
      BY <1>1, <2>1, <2>3
    <2>5. q[(m + o) + j] = Byte(q[(m + o) + 1].version, j)
      BY <2>1, <2>2 DEF Stream
    <2>6. (m + o) + j = m + (o + j) /\ (m + o) + 1 = m + (o + 1)
      BY <1>1, <2>1
    <2>7. s[o + j] = q[m + (o + j)] /\ s[o + 1] = q[m + (o + 1)]
      BY <1>2, <2>4
    <2>8. QED
      BY <2>5, <2>6, <2>7
  <1>6. ASSUME NEW i \in 1 .. Len(s), NEW j \in 1 .. Len(s), i <= j
        PROVE  s[i].version <= s[j].version
    <2>1. m + i \in 1 .. Len(q) /\ m + j \in 1 .. Len(q) /\ m + i <= m + j
      BY <1>1, <1>2, <1>6
    <2>2. q[m + i].version <= q[m + j].version
      BY <2>1 DEF Stream
    <2>3. QED
      BY <1>2, <2>2
  <1>7. ASSUME NEW i \in 1 .. Len(s)
        PROVE  lo <= s[i].version /\ s[i].version <= hi
    <2>1. m + i \in 1 .. Len(q) /\ s[i] = q[m + i]
      BY <1>2, <1>4
    <2>2. QED
      BY <2>1 DEF Stream
  <1>8. Stream(s, lo, hi)
    BY <1>2, <1>3, <1>5, <1>6, <1>7 DEF Stream
  <1>9. QED
    BY <1>2, <1>4, <1>8 DEF s

\* A stream cut between two frames: what comes first is not newer.
LEMMA StreamCut ==
  ASSUME NEW q, NEW lo \in Nat, NEW hi \in Nat, lo <= hi, Stream(q, lo, hi),
         NEW n \in 0 .. Len(q), Whole(n)
  PROVE  \E mid \in Nat : /\ lo <= mid /\ mid <= hi
                          /\ Stream(SubSeq(q, 1, n), lo, mid)
                          /\ Stream(SubSeq(q, n + 1, Len(q)), mid, hi)
  <1> DEFINE L == Len(q)
             p == SubSeq(q, 0 + 1, n)
             s == SubSeq(q, n + 1, L)
  <1>1. L \in Nat /\ q \in Seq(ByteSet) /\ Whole(L)
    BY DEF Stream
  <1>2. 0 \in 0 .. L /\ n \in 0 .. L /\ L \in n .. L /\ lo \in Int /\ hi \in Int
    BY <1>1
  <1>3. /\ Stream(p, lo, hi) /\ Len(p) = n - 0
        /\ \A i \in 1 .. n - 0 : p[i] = q[0 + i] /\ 0 + i \in 1 .. L
    BY <1>2, StreamSlice, WholeZero
  <1>4. /\ Stream(s, lo, hi) /\ Len(s) = L - n
        /\ \A i \in 1 .. L - n : s[i] = q[n + i] /\ n + i \in 1 .. L
    BY <1>1, <1>2, StreamSlice
  <1>5. p = SubSeq(q, 1, n)
    OBVIOUS
  <1> HIDE DEF p, s
  <1>6. CASE n = L
    <2>1. \A i : ~(i \in 1 .. Len(s))
      BY <1>1, <1>4, <1>6
    <2>2. Stream(s, hi, hi)
      BY <1>4, <2>1 DEF Stream
    <2>3. hi \in Nat /\ lo <= hi /\ hi <= hi
      OBVIOUS
    <2>4. QED
      BY <1>3, <1>5, <2>2, <2>3 DEF s
  <1>7. CASE n < L
    <2>1. n + 1 \in 1 .. L
      BY <1>1, <1>2, <1>7
    <2>2. PICK mid : mid = q[n + 1].version
      OBVIOUS
    <2>3. mid \in Nat /\ lo <= mid /\ mid <= hi
      <3>1. q[n + 1] \in ByteSet /\ lo <= mid /\ mid <= hi
        BY <1>1, <2>1, <2>2 DEF Stream
      <3>2. QED
        BY <2>2, <3>1, ByteTypes
    <2>4. ASSUME NEW i \in 1 .. Len(p) PROVE p[i].version <= mid
      <3>1. i \in 1 .. L /\ i <= n + 1 /\ p[i] = q[i]
        BY <1>1, <1>2, <1>3
      <3>2. QED
        BY <2>1, <2>2, <3>1 DEF Stream
    <2>5. ASSUME NEW i \in 1 .. Len(s) PROVE mid <= s[i].version
      <3>1. n + i \in 1 .. L /\ n + 1 <= n + i /\ s[i] = q[n + i]
        BY <1>1, <1>2, <1>4
      <3>2. QED
        BY <2>1, <2>2, <3>1 DEF Stream
    <2>6. Stream(p, lo, mid) /\ Stream(s, mid, hi)
      BY <1>3, <1>4, <2>4, <2>5 DEF Stream
    <2>7. QED
      BY <1>5, <2>3, <2>6 DEF s
  <1>8. QED
    BY <1>1, <1>6, <1>7
-----------------------------------------------------------------------------
(* The order of what is under way: OrderInv is inductive when failures     *)
(* take whole frames.                                                      *)

\* Notifications that are frames, in the order of their versions.
Notes(a, lo, hi) ==
  /\ \A i \in 1 .. Len(a) :
       \E v \in Versions : a[i] = FrameBytes(v) /\ lo <= v /\ v <= hi
  /\ \A i, j \in 1 .. Len(a) : i <= j => a[i][1].version <= a[j][1].version

\* The way from the server's buffer to the client's: what is in one place is
\* not older than what is in the next.
Way(atClient, arrived, sent, heard) ==
  LET shown == buffer[1].version IN
  /\ shown \in Versions /\ buffer = FrameBytes(shown)
  /\ shown <= atClient /\ atClient <= arrived /\ arrived <= sent
  /\ sent <= heard /\ heard <= version
  /\ Stream(readBuffer, shown, atClient)
  /\ Stream(received, atClient, arrived)
  /\ Stream(out, arrived, sent)
  /\ Notes(air, sent, heard)
  /\ Stream(toBoard, heard, version)

OrderInv ==
  noise = 0 => \E atClient, arrived, sent, heard \in Nat :
                 Way(atClient, arrived, sent, heard)

\* No notification is under way.
LEMMA NotesEmpty ==
  ASSUME NEW lo, NEW hi
  PROVE  Notes(<<>>, lo, hi)
  <1>1. Len(<<>>) = 0
    OBVIOUS
  <1>2. \A i : ~(i \in 1 .. Len(<<>>))
    BY <1>1
  <1>3. QED
    BY <1>2 DEF Notes

\* ble_client_task adds a frame that is not older than those before it.
LEMMA NotesAppend ==
  ASSUME NEW a \in Seq([1 .. BUFFLEN -> ByteSet]),
         NEW lo \in Nat, NEW hi \in Nat, lo <= hi, Notes(a, lo, hi),
         NEW v \in Versions, hi <= v
  PROVE  Notes(Append(a, FrameBytes(v)), lo, v)
  <1> DEFINE new == Append(a, FrameBytes(v))
             L   == Len(a)
  <1>1. /\ L \in Nat /\ Len(new) = L + 1 /\ new[L + 1] = FrameBytes(v) /\ v \in Nat
        /\ \A i \in 1 .. L : new[i] = a[i]
    BY Constants
  <1> HIDE DEF new, L
  <1>2. ASSUME NEW i \in 1 .. Len(new)
        PROVE  \E u \in Versions : new[i] = FrameBytes(u) /\ lo <= u /\ u <= v
    <2>1. CASE i = L + 1
      BY <1>1, <2>1
    <2>2. CASE i \in 1 .. L
      <3>1. PICK u \in Versions : a[i] = FrameBytes(u) /\ lo <= u /\ u <= hi
        BY <2>2 DEF Notes, L
      <3>2. u \in Nat /\ u <= v
        BY <1>1, <3>1, Constants
      <3>3. QED
        BY <1>1, <2>2, <3>1, <3>2
    <2>3. QED
      BY <1>1, <2>1, <2>2
  <1>3. ASSUME NEW i \in 1 .. Len(new), NEW j \in 1 .. Len(new), i <= j
        PROVE  new[i][1].version <= new[j][1].version
    <2>1. CASE j = L + 1
      <3>1. PICK u \in Versions : new[i] = FrameBytes(u) /\ lo <= u /\ u <= v
        BY <1>2
      <3>2. new[i][1].version = u /\ new[j][1].version = v
        BY <1>1, <2>1, <3>1, FrameVersion
      <3>3. QED
        BY <3>1, <3>2
    <2>2. CASE j \in 1 .. L
      <3>1. i \in 1 .. L
        BY <1>1, <1>3, <2>2
      <3>2. a[i][1].version <= a[j][1].version
        BY <1>3, <2>2, <3>1 DEF Notes, L
      <3>3. QED
        BY <1>1, <2>2, <3>1, <3>2
    <2>3. QED
      BY <1>1, <2>1, <2>2
  <1>4. QED
    BY <1>2, <1>3 DEF Notes, new

\* The first notification is received: those left are not older.
LEMMA NotesTail ==
  ASSUME NEW a \in Seq([1 .. BUFFLEN -> ByteSet]), a # <<>>,
         NEW lo \in Nat, NEW hi \in Nat, Notes(a, lo, hi)
  PROVE  \E v \in Versions : /\ Head(a) = FrameBytes(v) /\ lo <= v /\ v <= hi
                             /\ Notes(Tail(a), v, hi)
  <1>1. /\ Head(a) = a[1] /\ Len(a) \in Nat \ {0} /\ Len(Tail(a)) = Len(a) - 1
        /\ \A i \in 1 .. Len(a) - 1 : Tail(a)[i] = a[i + 1]
    BY HeadAndTail
  <1> DEFINE t == Tail(a)
  <1> HIDE DEF t
  <1>2. Len(t) = Len(a) - 1 /\ \A i \in 1 .. Len(t) : t[i] = a[i + 1] /\ i + 1 \in 1 .. Len(a)
    BY <1>1 DEF t
  <1>3. 1 \in 1 .. Len(a)
    BY <1>1
  <1>4. PICK v \in Versions : a[1] = FrameBytes(v) /\ lo <= v /\ v <= hi
    BY <1>3 DEF Notes
  <1>5. ASSUME NEW i \in 1 .. Len(t)
        PROVE  \E u \in Versions : t[i] = FrameBytes(u) /\ v <= u /\ u <= hi
    <2>1. i + 1 \in 1 .. Len(a) /\ 1 <= i + 1 /\ t[i] = a[i + 1]
      BY <1>2
    <2>2. PICK u \in Versions : a[i + 1] = FrameBytes(u) /\ lo <= u /\ u <= hi
      BY <2>1 DEF Notes
    <2>3. a[1][1].version <= a[i + 1][1].version
      BY <1>3, <2>1 DEF Notes
    <2>4. a[1][1].version = v /\ a[i + 1][1].version = u
      BY <1>4, <2>2, FrameVersion
    <2>5. QED
      BY <2>1, <2>2, <2>3, <2>4
  <1>6. ASSUME NEW i \in 1 .. Len(t), NEW j \in 1 .. Len(t), i <= j
        PROVE  t[i][1].version <= t[j][1].version
    <2>1. i + 1 <= j + 1 /\ i + 1 \in 1 .. Len(a) /\ j + 1 \in 1 .. Len(a)
      BY <1>2, <1>6
    <2>2. a[i + 1][1].version <= a[j + 1][1].version
      BY <2>1 DEF Notes
    <2>3. QED
      BY <1>2, <2>2
  <1>7. Notes(t, v, hi)
    BY <1>5, <1>6 DEF Notes
  <1>8. QED
    BY <1>1, <1>4, <1>7 DEF t

\* Nothing is under way yet.
LEMMA InitOrder == Init => OrderInv
  <1> SUFFICES ASSUME Init PROVE Way(0, 0, 0, 0) /\ 0 \in Nat
    BY DEF OrderInv
  <1>1. buffer = FrameBytes(0) /\ buffer[1].version = 0 /\ 0 \in Versions
    BY Constants, FrameVersion DEF Init
  <1>2. QED
    BY <1>1, StreamEmpty, NotesEmpty DEF Init, Way

\* A step that moves no bytes.
LEMMA OrderKept ==
  ASSUME OrderInv,
         UNCHANGED <<version, toBoard, air, out, received, readBuffer, buffer, noise>>
  PROVE  OrderInv'
  <1> SUFFICES ASSUME noise = 0
               PROVE  (\E atClient, arrived, sent, heard \in Nat :
                         Way(atClient, arrived, sent, heard))'
    BY DEF OrderInv
  <1>1. PICK a \in Nat, b \in Nat, c \in Nat, d \in Nat : Way(a, b, c, d)
    BY DEF OrderInv
  <1>2. Way(a, b, c, d)'
    BY <1>1 DEF Way
  <1>3. QED
    BY <1>2

\* Steps at the server's end of the way.
LEMMA ServerOrder ==
  ASSUME TypeOK, TypeOK', OrderInv, (\E v \in Versions : GuiSet(v)) \/ Server \/ ServerQuit
  PROVE  OrderInv'
  <1>1. CASE ServerOpen \/ ServerLeave \/ ServerSendFails \/ ServerQuit
    BY <1>1, OrderKept
       DEF ServerOpen, ServerLeave, ServerSendFails, ServerQuit, ServerStep,
           boardVars, clientVars, bounds
  <1>2. CASE (\E v \in Versions : GuiSet(v)) \/ ServerSend
    <2> SUFFICES ASSUME noise = 0
                 PROVE  (\E atClient, arrived, sent, heard \in Nat :
                           Way(atClient, arrived, sent, heard))'
      BY <1>2 DEF OrderInv, GuiSet, ServerSend, ServerStep, bounds
    <2>1. PICK a \in Nat, b \in Nat, c \in Nat, d \in Nat : Way(a, b, c, d)
      BY DEF OrderInv
    <2>2. /\ version \in Versions /\ version \in Nat /\ version' \in Nat /\ d <= version
          /\ Stream(toBoard, d, version)
      BY <2>1, Constants DEF TypeOK, Way
    <2>3. UNCHANGED <<air, out, received, readBuffer, buffer>> /\ version <= version'
      BY <1>2, <2>2, Constants DEF GuiSet, ServerSend, ServerStep, boardVars, clientVars
    <2>4. Stream(toBoard', d, version')
      <3>1. CASE \E v \in Versions : GuiSet(v)
        BY <2>2, <2>3, <3>1, StreamWiden DEF GuiSet, boardVars
      <3>2. CASE ServerSend
        <4>1. Stream(FrameBytes(version), version, version)
          BY <2>2, FrameStream
        <4>2. Stream(toBoard \o FrameBytes(version), d, version)
          BY <2>2, <4>1, StreamJoin
        <4>3. QED
          BY <3>2, <4>2 DEF ServerSend, ServerStep
      <3>3. QED
        BY <1>2, <3>1, <3>2
    <2>5. d <= version'
      BY <2>2, <2>3
    <2>6. Way(a, b, c, d)'
      BY <2>1, <2>3, <2>4, <2>5 DEF Way
    <2>7. QED
      BY <2>6
  <1>3. QED
    BY <1>1, <1>2 DEF Server

\* Steps of the boards that touch no bytes.
LEMMA BoardQuietOrder ==
  ASSUME OrderInv, Connect \/ ServerPlugged \/ ClientUnplugged \/ ClientPlugged
  PROVE  OrderInv'
  BY OrderKept DEF Connect, ServerPlugged, ClientUnplugged, ClientPlugged,
     serverVars, boardVars, clientVars, bounds

\* Foreign bytes and frames in pieces end the promise.
LEMMA NoiseOrder ==
  ASSUME TypeOK, noise' = noise + 1
  PROVE  OrderInv'
  <1>1. noise \in Nat
    BY Constants DEF TypeOK
  <1>2. noise' # 0
    BY <1>1
  <1>3. QED
    BY <1>2 DEF OrderInv

\* BUFFLEN bytes become a notification, or are dropped.
LEMMA TaskReadOrder ==
  ASSUME TypeOK, OrderInv, TaskRead
  PROVE  OrderInv'
  <1>1. /\ UNCHANGED <<version, out, received, readBuffer, buffer, noise>>
        /\ Len(toBoard) >= BUFFLEN
        /\ toBoard' = SubSeq(toBoard, BUFFLEN + 1, Len(toBoard))
        /\ \/ air' = air
           \/ air' = Append(air, SubSeq(toBoard, 1, BUFFLEN))
    BY DEF TaskRead, BoardRead, serverVars, clientVars, bounds
  <1> SUFFICES ASSUME noise = 0
               PROVE  (\E atClient, arrived, sent, heard \in Nat :
                         Way(atClient, arrived, sent, heard))'
    BY <1>1 DEF OrderInv
  <1>2. PICK a \in Nat, b \in Nat, c \in Nat, d \in Nat : Way(a, b, c, d)
    BY DEF OrderInv
  <1>3. /\ version \in Nat /\ d <= version /\ c <= d
        /\ Stream(toBoard, d, version) /\ Notes(air, c, d)
        /\ toBoard \in Seq(ByteSet) /\ air \in Seq([1 .. BUFFLEN -> ByteSet])
    BY <1>2, Constants DEF TypeOK, Way
  <1>4. BUFFLEN \in 0 .. Len(toBoard)
    BY <1>1, <1>3, Constants
  <1>5. PICK mid \in Nat : /\ d <= mid /\ mid <= version
                           /\ Stream(SubSeq(toBoard, 1, BUFFLEN), d, mid)
                           /\ Stream(toBoard', mid, version)
    BY <1>1, <1>3, <1>4, StreamCut, WholeZero
  <1>6. Len(SubSeq(toBoard, 1, BUFFLEN)) = BUFFLEN
    BY <1>3, <1>4, TwoParts
  <1>7. PICK v \in Versions : /\ SubSeq(toBoard, 1, BUFFLEN) = FrameBytes(v)
                              /\ d <= v /\ v <= mid
    BY <1>5, <1>6, StreamFrame
  <1>8. v \in Nat /\ c <= v /\ v <= version
    BY <1>3, <1>5, <1>7, Constants
  <1>9. CASE air' = air
    <2>1. Stream(toBoard', d, version)
      BY <1>3, <1>5, StreamWiden
    <2>2. Way(a, b, c, d)'
      BY <1>1, <1>2, <1>9, <2>1 DEF Way
    <2>3. QED
      BY <2>2
  <1>10. CASE air' = Append(air, SubSeq(toBoard, 1, BUFFLEN))
    <2>1. Stream(toBoard', v, version)
      BY <1>3, <1>5, <1>7, <1>8, StreamWiden
    <2>2. Notes(air', c, v)
      BY <1>3, <1>7, <1>10, NotesAppend
    <2>3. Way(a, b, c, v)'
      BY <1>1, <1>2, <1>8, <2>1, <2>2 DEF Way
    <2>4. QED
      BY <1>8, <2>3
  <1>11. QED
    BY <1>1, <1>9, <1>10

\* A notification goes to the UART.
LEMMA NotifyRxOrder ==
  ASSUME TypeOK, OrderInv, NotifyRx
  PROVE  OrderInv'
  <1>1. /\ UNCHANGED <<version, toBoard, received, readBuffer, buffer, noise>>
        /\ air # <<>> /\ air' = Tail(air) /\ out' = out \o Head(air)
    BY DEF NotifyRx, serverVars, clientVars, bounds
  <1> SUFFICES ASSUME noise = 0
               PROVE  (\E atClient, arrived, sent, heard \in Nat :
                         Way(atClient, arrived, sent, heard))'
    BY <1>1 DEF OrderInv
  <1>2. PICK a \in Nat, b \in Nat, c \in Nat, d \in Nat : Way(a, b, c, d)
    BY DEF OrderInv
  <1>3. /\ b <= c /\ Stream(out, b, c) /\ Notes(air, c, d)
        /\ air \in Seq([1 .. BUFFLEN -> ByteSet])
    BY <1>2 DEF TypeOK, Way
  <1>4. PICK v \in Versions : /\ Head(air) = FrameBytes(v) /\ c <= v /\ v <= d
                              /\ Notes(Tail(air), v, d)
    BY <1>1, <1>3, NotesTail
  <1>5. v \in Nat /\ b <= v
    BY <1>3, <1>4, Constants
  <1>6. Stream(out, b, v)
    BY <1>3, <1>4, <1>5, StreamWiden
  <1>7. Stream(out', b, v)
    <2>1. Stream(FrameBytes(v), v, v)
      BY FrameStream
    <2>2. Stream(out \o FrameBytes(v), b, v)
      BY <1>5, <1>6, <2>1, StreamJoin
    <2>3. QED
      BY <1>1, <1>4, <2>2
  <1>8. Way(a, b, v, d)'
    BY <1>1, <1>2, <1>4, <1>5, <1>7 DEF Way
  <1>9. QED
    BY <1>5, <1>8

\* The radio loses what is under way, the server's line and board whole frames.
LEMMA LossOrder ==
  ASSUME ~CutsFrames, TypeOK, OrderInv, Disconnect \/ BoardRestarts \/ ServerUnplugged
  PROVE  OrderInv'
  <1>1. /\ UNCHANGED <<version, out, received, readBuffer, buffer, noise>>
        /\ air' = air \/ air' = <<>>
    BY DEF Disconnect, BoardRestarts, ServerUnplugged, serverVars, clientVars
  <1> SUFFICES ASSUME noise = 0
               PROVE  (\E atClient, arrived, sent, heard \in Nat :
                         Way(atClient, arrived, sent, heard))'
    BY <1>1 DEF OrderInv
  <1>2. PICK a \in Nat, b \in Nat, c \in Nat, d \in Nat : Way(a, b, c, d)
    BY DEF OrderInv
  <1>3. /\ version \in Nat /\ d <= version
        /\ Stream(toBoard, d, version) /\ Notes(air, c, d)
        /\ toBoard \in Seq(ByteSet) /\ Len(toBoard) \in Nat /\ Whole(Len(toBoard))
    BY <1>2, Constants DEF TypeOK, Way, Stream
  <1>4. ASSUME NEW n \in Losses(toBoard)
        PROVE  /\ n \in 0 .. Len(toBoard) /\ Whole(n)
               /\ Len(toBoard) - n \in 0 .. Len(toBoard) /\ Whole(Len(toBoard) - n)
    <2>1. n \in 0 .. Len(toBoard) /\ Whole(Len(toBoard) - n)
      BY DEF Losses, Whole
    <2>2. /\ n \in Nat /\ Len(toBoard) - n \in Nat /\ Len(toBoard) >= Len(toBoard) - n
          /\ Len(toBoard) - (Len(toBoard) - n) = n
      BY <1>3, <2>1
    <2>3. Whole(Len(toBoard) - (Len(toBoard) - n))
      BY <1>3, <2>1, <2>2, WholeSum
    <2>4. QED
      BY <1>3, <2>1, <2>2, <2>3
  <1>5. Stream(toBoard', d, version)
    <2>1. CASE toBoard' = toBoard
      BY <1>3, <2>1
    <2>2. ASSUME NEW n \in Losses(toBoard),
                 toBoard' = SubSeq(toBoard, n + 1, Len(toBoard))
          PROVE  Stream(toBoard', d, version)
      <3>1. PICK mid \in Nat : /\ d <= mid /\ mid <= version
                               /\ Stream(toBoard', mid, version)
        BY <1>3, <1>4, <2>2, StreamCut
      <3>2. QED
        BY <1>3, <3>1, StreamWiden
    <2>3. ASSUME NEW n \in Losses(toBoard),
                 toBoard' = SubSeq(toBoard, 1, Len(toBoard) - n)
          PROVE  Stream(toBoard', d, version)
      <3>1. PICK mid \in Nat : d <= mid /\ mid <= version /\ Stream(toBoard', d, mid)
        BY <1>3, <1>4, <2>3, StreamCut
      <3>2. QED
        BY <1>3, <3>1, StreamWiden
    <2>4. QED
      BY <2>1, <2>2, <2>3 DEF Disconnect, BoardRestarts, ServerUnplugged
  <1>6. Notes(air', c, d)
    BY <1>1, <1>3, NotesEmpty
  <1>7. Way(a, b, c, d)'
    BY <1>1, <1>2, <1>5, <1>6 DEF Way
  <1>8. QED
    BY <1>7

\* All the client board holds arrives, or is lost.
LEMMA EmitOrder ==
  ASSUME TypeOK, OrderInv, Emit
  PROVE  OrderInv'
  <1>1. /\ UNCHANGED <<version, toBoard, air, readBuffer, buffer, noise>>
        /\ out' = SubSeq(out, Len(out) + 1, Len(out))
        /\ \/ received' = received
           \/ received' = received \o SubSeq(out, 0 + 1, Len(out))
    BY DEF Emit, Arrive, serverVars
  <1> SUFFICES ASSUME noise = 0
               PROVE  (\E atClient, arrived, sent, heard \in Nat :
                         Way(atClient, arrived, sent, heard))'
    BY <1>1 DEF OrderInv
  <1>2. PICK a \in Nat, b \in Nat, c \in Nat, d \in Nat : Way(a, b, c, d)
    BY DEF OrderInv
  <1>3. /\ a <= b /\ b <= c /\ Stream(received, a, b) /\ Stream(out, b, c)
        /\ Len(out) \in Nat /\ Whole(Len(out))
    BY <1>2 DEF TypeOK, Way, Stream
  <1>4. 0 \in 0 .. Len(out) /\ Len(out) \in 0 .. Len(out) /\ Len(out) \in Len(out) .. Len(out)
    BY <1>3
  <1>5. Stream(SubSeq(out, 0 + 1, Len(out)), b, c)
    BY <1>3, <1>4, StreamSlice, WholeZero
  <1>6. out' = <<>>
    BY <1>1, <1>3, SubSeqEmpty
  <1>7. CASE received' = received
    <2>1. Way(a, b, c, d)'
      BY <1>1, <1>2, <1>6, <1>7, StreamEmpty DEF Way
    <2>2. QED
      BY <2>1
  <1>8. CASE received' = received \o SubSeq(out, 0 + 1, Len(out))
    <2>1. Stream(received', a, c)
      BY <1>3, <1>5, <1>8, StreamJoin
    <2>2. a <= c /\ c <= c
      BY <1>3
    <2>3. Way(a, c, c, d)'
      BY <1>1, <1>2, <1>6, <2>1, <2>2, StreamEmpty DEF Way
    <2>4. QED
      BY <2>3
  <1>9. QED
    BY <1>1, <1>7, <1>8

\* Steps in which the client program throws away what it has not installed.
LEMMA DiscardOrder ==
  ASSUME OrderInv, ClientOpen \/ ClientTest \/ ClientTimeout \/ ClientReadShort \/ ClientQuit
  PROVE  OrderInv'
  <1>1. CASE ClientQuit
    BY <1>1, OrderKept DEF ClientQuit, serverVars, boardVars, bounds
  <1>2. CASE ClientOpen \/ ClientTest \/ ClientTimeout \/ ClientReadShort
    <2>1. /\ UNCHANGED <<version, toBoard, air, out, buffer, noise>>
          /\ received' = <<>> /\ readBuffer' = <<>>
      BY <1>2 DEF ClientOpen, ClientTest, ClientTimeout, WaitEnds, ClientReadShort, Discard,
         ClientStep, serverVars, boardVars
    <2> SUFFICES ASSUME noise = 0
                 PROVE  (\E atClient, arrived, sent, heard \in Nat :
                           Way(atClient, arrived, sent, heard))'
      BY <2>1 DEF OrderInv
    <2>2. PICK a \in Nat, b \in Nat, c \in Nat, d \in Nat : Way(a, b, c, d)
      BY DEF OrderInv
    <2>3. Way(a, b, c, d)'
      BY <2>1, <2>2, StreamEmpty DEF Way
    <2>4. QED
      BY <2>3
  <1>3. QED
    BY <1>1, <1>2

\* QSerialPort takes what has arrived.
LEMMA ClientWaitOrder ==
  ASSUME TypeOK, OrderInv, ClientWait
  PROVE  OrderInv'
  <1>1. /\ UNCHANGED <<version, toBoard, air, out, buffer, noise>>
        /\ received' = <<>> /\ readBuffer' = readBuffer \o received
    BY DEF ClientWait, ClientStep, serverVars, boardVars
  <1> SUFFICES ASSUME noise = 0
               PROVE  (\E atClient, arrived, sent, heard \in Nat :
                         Way(atClient, arrived, sent, heard))'
    BY <1>1 DEF OrderInv
  <1>2. PICK a \in Nat, b \in Nat, c \in Nat, d \in Nat : Way(a, b, c, d)
    BY DEF OrderInv
  <1>3. PICK v \in Versions : v = buffer[1].version
    BY <1>2 DEF Way
  <1>4. /\ v \in Nat /\ v <= a /\ a <= b
        /\ Stream(readBuffer, v, a) /\ Stream(received, a, b)
    BY <1>2, <1>3, Constants DEF Way
  <1>5. Stream(readBuffer', v, b)
    BY <1>1, <1>4, StreamJoin
  <1>6. v <= b /\ b <= b
    BY <1>4
  <1>7. Way(b, b, c, d)'
    BY <1>1, <1>2, <1>3, <1>5, <1>6, StreamEmpty DEF Way
  <1>8. QED
    BY <1>7

\* A frame is installed: it is one the server has made, and not older than
\* the one before it.
LEMMA ClientReadOrder ==
  ASSUME TypeOK, OrderInv, ClientRead, noise = 0
  PROVE  /\ OrderInv'
         /\ \E u, v \in Versions : /\ buffer = FrameBytes(u) /\ buffer' = FrameBytes(v)
                                   /\ u <= v /\ v <= version
  <1>1. /\ UNCHANGED <<version, toBoard, air, out, received, noise>>
        /\ Len(readBuffer) >= BUFFLEN
        /\ buffer' = SubSeq(readBuffer, 1, BUFFLEN)
        /\ readBuffer' = SubSeq(readBuffer, BUFFLEN + 1, Len(readBuffer))
    BY DEF ClientRead, ClientStep, serverVars, boardVars
  <1>2. PICK a \in Nat, b \in Nat, c \in Nat, d \in Nat : Way(a, b, c, d)
    BY DEF OrderInv
  <1>3. PICK u \in Versions : u = buffer[1].version
    BY <1>2 DEF Way
  <1>4. /\ u \in Nat /\ u <= a /\ Stream(readBuffer, u, a) /\ buffer = FrameBytes(u)
        /\ readBuffer \in Seq(ByteSet)
        /\ a <= b /\ b <= c /\ c <= d /\ d <= version /\ version \in Nat
    BY <1>2, <1>3, Constants DEF TypeOK, Way
  <1>5. BUFFLEN \in 0 .. Len(readBuffer)
    BY <1>1, <1>4, Constants
  <1>6. PICK mid \in Nat : /\ u <= mid /\ mid <= a
                           /\ Stream(SubSeq(readBuffer, 1, BUFFLEN), u, mid)
                           /\ Stream(readBuffer', mid, a)
    BY <1>1, <1>4, <1>5, StreamCut, WholeZero
  <1>7. Len(SubSeq(readBuffer, 1, BUFFLEN)) = BUFFLEN
    BY <1>4, <1>5, TwoParts
  <1>8. PICK v \in Versions : buffer' = FrameBytes(v) /\ u <= v /\ v <= mid
    BY <1>1, <1>4, <1>6, <1>7, StreamFrame
  <1>9. v \in Nat /\ v <= a /\ v <= version /\ buffer'[1].version = v
    BY <1>4, <1>6, <1>8, FrameVersion, Constants
  <1>10. Stream(readBuffer', v, a)
    BY <1>4, <1>6, <1>8, <1>9, StreamWiden
  <1>11. Way(a, b, c, d)'
    BY <1>1, <1>2, <1>8, <1>9, <1>10 DEF Way
  <1>12. OrderInv'
    BY <1>11 DEF OrderInv
  <1>13. QED
    BY <1>4, <1>8, <1>9, <1>12

\* Every step keeps the order.
LEMMA NextOrder ==
  ASSUME ~CutsFrames, TypeOK, TypeOK', OrderInv, [Next]_vars
  PROVE  OrderInv'
  <1>1. CASE UNCHANGED vars
    BY <1>1, OrderKept DEF vars, serverVars, boardVars, clientVars, bounds
  <1>2. CASE (\E v \in Versions : GuiSet(v)) \/ Server \/ ServerQuit
    BY <1>2, ServerOrder
  <1>3. CASE (\E m \in Messages : ConnectFails(m)) \/ \E n \in 1 .. Capacity : EmitPiece(n)
    BY <1>3, NoiseOrder DEF ConnectFails, EmitPiece
  <1>4. CASE Client \/ ClientQuit
    <2>1. CASE ClientRead
      <3>1. CASE noise = 0
        BY <2>1, <3>1, ClientReadOrder
      <3>2. CASE noise # 0
        BY <2>1, <3>2 DEF OrderInv, ClientRead, ClientStep
      <3>3. QED
        BY <3>1, <3>2
    <2>2. QED
      BY <1>4, <2>1, DiscardOrder, ClientWaitOrder DEF Client
  <1>5. QED
    BY <1>1, <1>2, <1>3, <1>4, BoardQuietOrder, TaskReadOrder, NotifyRxOrder, LossOrder,
       EmitOrder DEF Next

\* As long as the line carries whole frames and nothing else, what is under
\* way is frames in the order in which they were made.
LEMMA OrderInvariant ==
  ASSUME ~CutsFrames
  PROVE  Spec => []OrderInv
  <1>1. TypeOK /\ TypeOK' /\ OrderInv /\ [Next]_vars => OrderInv'
    BY NextOrder
  <1>2. QED
    BY <1>1, InitOrder, UartTypes, PTL DEF Spec
-----------------------------------------------------------------------------
(* The refinement: the dashboard mirrors the server's buffer.              *)

\* The dashboard shows nothing yet.
LEMMA InitRefines == Init => Mirrored!Init
  <1> SUFFICES ASSUME Init PROVE Mirrored!Init
    OBVIOUS
  <1>1. Shown = 0
    BY FrameVersion, Constants DEF Init, Shown
  <1>2. QED
    BY <1>1 DEF Init, Mirrored!Init

\* Installing a frame shows it.
LEMMA ClientReadShows ==
  ASSUME TypeOK, TypeOK', OrderInv, ClientRead
  PROVE  Mirrored!Next
  <1> DEFINE shown == [e \in {"desktop"} |-> Shown]
  <1>1. version' = version /\ noise' = noise /\ Shown' \in Versions \cup {Junk}
    <2>1. buffer'[1] \in ByteSet
      BY Constants DEF TypeOK
    <2>2. buffer'[1].version \in Versions \cup {Junk}
      BY <2>1, ByteTypes
    <2>3. QED
      BY <2>2 DEF ClientRead, ClientStep, serverVars, Shown
  <1>2. noise = 0 => Shown' \in Shown .. version
    <2> SUFFICES ASSUME noise = 0 PROVE Shown' \in Shown .. version
      OBVIOUS
    <2>1. PICK u \in Versions, v \in Versions :
            /\ buffer = FrameBytes(u) /\ buffer' = FrameBytes(v)
            /\ u <= v /\ v <= version
      BY ClientReadOrder
    <2>2. Shown = u /\ Shown' = v
      BY <2>1, FrameVersion DEF Shown
    <2>3. u \in Nat /\ v \in Nat /\ version \in Nat
      BY Constants DEF TypeOK
    <2>4. QED
      BY <2>1, <2>2, <2>3
  <1>3. shown' = [shown EXCEPT !["desktop"] = Shown'] /\ shown["desktop"] = Shown
    OBVIOUS
  <1>4. PICK v \in Versions \cup {Junk} : v = Shown'
    BY <1>1
  <1>5. Mirrored!Show("desktop", v)
    BY <1>1, <1>2, <1>3, <1>4 DEF Mirrored!Show
  <1>6. QED
    BY <1>5 DEF Mirrored!Next

\* A setter makes a version, ClientRead shows a frame, foreign bytes disturb
\* the line, and nothing else is seen.
LEMMA StepRefines ==
  ASSUME TypeOK, TypeOK', OrderInv, [Next]_vars
  PROVE  [Mirrored!Next]_(Mirrored!vars)
  <1>1. ASSUME UNCHANGED <<version, buffer, noise>> PROVE UNCHANGED Mirrored!vars
    BY <1>1 DEF Mirrored!vars, Shown
  <1>2. ASSUME NEW v \in Versions, GuiSet(v) PROVE Mirrored!Next
    <2>1. Mirrored!Set(v)
      BY <1>2 DEF GuiSet, clientVars, bounds, Shown, Mirrored!Set
    <2>2. QED
      BY <2>1 DEF Mirrored!Next
  <1>3. ASSUME noise' = noise + 1, UNCHANGED <<version, buffer>> PROVE Mirrored!Next
    <2>1. noise \in Nat
      BY Constants DEF TypeOK
    <2>2. (noise' = 0) = FALSE
      BY <1>3, <2>1
    <2>3. Mirrored!Disturb
      BY <1>3, <2>2 DEF Mirrored!Disturb, Shown
    <2>4. QED
      BY <2>3 DEF Mirrored!Next
  <1>4. CASE (\E m \in Messages : ConnectFails(m)) \/ \E n \in 1 .. Capacity : EmitPiece(n)
    BY <1>3, <1>4 DEF ConnectFails, EmitPiece, Arrive, serverVars, clientVars
  <1>5. CASE UNCHANGED vars \/ Server \/ ServerQuit
    BY <1>1, <1>5 DEF vars, Server, ServerOpen, ServerLeave, ServerSend, ServerSendFails,
       ServerQuit, ServerStep, serverVars, clientVars, bounds
  <1>6. CASE \/ TaskRead \/ NotifyRx \/ Connect \/ Disconnect \/ BoardRestarts
             \/ ServerUnplugged \/ ServerPlugged \/ ClientUnplugged \/ ClientPlugged \/ Emit
    BY <1>1, <1>6 DEF TaskRead, BoardRead, NotifyRx, Connect, Disconnect, BoardRestarts,
       ServerUnplugged, ServerPlugged, ClientUnplugged, ClientPlugged, Emit, Arrive,
       serverVars, clientVars, bounds
  <1>7. CASE ClientOpen \/ ClientTest \/ ClientWait \/ ClientTimeout \/ ClientReadShort
             \/ ClientQuit
    BY <1>1, <1>7 DEF ClientOpen, ClientTest, ClientWait, ClientTimeout, WaitEnds,
       ClientReadShort, ClientQuit, ClientStep, serverVars, bounds
  <1>8. QED
    BY <1>2, <1>4, <1>5, <1>6, <1>7, ClientReadShows DEF Next, Client

\* When failures take whole frames, UartLink implements Mirror: across
\* restarts, lost connections, pulled cables and late wake-ups the dashboard
\* shows one frame as the server sent it, never one the server has not made
\* yet, and never goes back to an older one, until the client board's line
\* carries a message or a frame in pieces.
THEOREM UartMirror ==
  ASSUME ~CutsFrames
  PROVE  Spec => ImplementsMirror
  <1>1. TypeOK /\ TypeOK' /\ OrderInv /\ [Next]_vars => [Mirrored!Next]_(Mirrored!vars)
    BY StepRefines
  <1>2. QED
    BY <1>1, InitRefines, UartTypes, OrderInvariant, PTL
       DEF Spec, ImplementsMirror, Mirrored!Spec
=============================================================================
