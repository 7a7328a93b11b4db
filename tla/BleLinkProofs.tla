---------------------------- MODULE BleLinkProofs ----------------------------
(***************************************************************************)
(* StaleOnce, ScansOnlyAlone, NeverStranded and Stranding, for every set of *)
(* handles and of other devices and every number of losses, resets and      *)
(* failing calls.                                                           *)
(***************************************************************************)
EXTENDS BleLink, TLAPS

\* What a connection of the client board goes with: the procedure that makes
\* it, the device, and the host.
ClientInv ==
  /\ cLink \in {None, "new", "up"}
  /\ gap \in {"null", "disc", "conn"}
  /\ cLink = "new" => gap = "conn" /\ target = SERVER_ADDRESS
  /\ cLink = "up" => gap = "null"
  /\ ~cSynced => cLink = None /\ gap = "null"
  /\ connected_addr = IF cLink = "up" THEN SERVER_ADDRESS ELSE None

\* The server board, which advertises only without a connection: a second one
\* would leave conn_handle at the first.
ServerInv ==
  /\ sLink \in {None, "new", "up"}
  /\ conn_handle = ToldHandle
  /\ adv => sSynced
  /\ adv \/ ~sSynced => sLink = None

\* The task has used an old handle only if the one in its hand is not old:
\* it was taken after the last event, like all that it will take.
TaskInv ==
  /\ taskPc \in {"read", "notify"}
  /\ misses \in {0, 1}
  /\ misses = 1 /\ taskPc = "notify" => argument = conn_handle

IInv ==
  /\ callFaults \in Nat
  /\ ClientInv
  /\ ServerInv
  /\ TaskInv
  /\ NeverStranded

USE DEF None, SERVER_ADDRESS

\* The boards before they are switched on.
LEMMA InitInv == Init => IInv
BY DEF Init, IInv, ClientInv, ServerInv, ToldHandle, TaskInv, NeverStranded

\* Each handler and each event of the radio keeps the invariant.
LEMMA StepInv == IInv /\ [Next]_vars => IInv'
<1> SUFFICES ASSUME IInv, [Next]_vars PROVE IInv'
  OBVIOUS
<1> USE DEF IInv
<1>1. CASE ServerSync
  BY <1>1 DEF ServerSync, taskVars, Advertise, CallFails, clientVars, ClientInv,
     ServerInv, ToldHandle, TaskInv, NeverStranded
<1>2. CASE ServerConnectEvent
  BY <1>2 DEF ServerConnectEvent, clientVars, ClientInv, ServerInv, ToldHandle,
     TaskInv, NeverStranded
<1>3. CASE AdvEnds
  BY <1>3 DEF AdvEnds, taskVars, Advertise, Fault, CallFails, clientVars,
     ClientInv, ServerInv, ToldHandle, TaskInv, NeverStranded
<1>4. CASE ServerDisconnectEvent
  BY <1>4 DEF ServerDisconnectEvent, Advertise, CallFails, clientVars, ClientInv,
     ServerInv, ToldHandle, TaskInv, NeverStranded
<1>5. CASE ServerReset
  BY <1>5 DEF ServerReset, Fault, clientVars, ClientInv, ServerInv, ToldHandle,
     TaskInv, NeverStranded
<1>6. CASE ClientSync
  BY <1>6 DEF ClientSync, Scan, CallFails, serverVars, taskVars, ClientInv,
     ServerInv, ToldHandle, TaskInv, NeverStranded
<1>7. CASE ClientConnectEvent
  BY <1>7 DEF ClientConnectEvent, CallFails, serverVars, taskVars, ClientInv,
     ServerInv, ToldHandle, TaskInv, NeverStranded
<1>8. CASE ConnectTimeout
  BY <1>8 DEF ConnectTimeout, Scan, CallFails, serverVars, taskVars, ClientInv,
     ServerInv, ToldHandle, TaskInv, NeverStranded
<1>9. CASE Found
  BY <1>9 DEF Found, serverVars, taskVars, ClientInv, ServerInv, ToldHandle,
     TaskInv, NeverStranded
<1>10. CASE GivesUp
  BY <1>10 DEF GivesUp, Fault, CallFails, serverVars, taskVars, ClientInv,
     ServerInv, ToldHandle, TaskInv, NeverStranded
<1>11. CASE ClientDisconnectEvent
  BY <1>11 DEF ClientDisconnectEvent, Scan, CallFails, serverVars, taskVars,
     ClientInv, ServerInv, ToldHandle, TaskInv, NeverStranded
<1>12. CASE ClientReset
  BY <1>12 DEF ClientReset, Fault, serverVars, taskVars, ClientInv, ServerInv,
     ToldHandle, TaskInv, NeverStranded
<1>13. ASSUME NEW r \in Advertisements, DiscEvent(r) PROVE IInv'
  <2>1. cLink = None /\ connected_addr = None /\ cSynced
    BY <1>13 DEF DiscEvent, ClientInv
  <2>2. CASE ~Acceptable(r)
    <3>1. r.addr # SERVER_ADDRESS
      BY <2>1, <2>2, BleAssumption, <1>13
         DEF Acceptable, Advertisements, ServerReport, Connectable
    <3> QED
      BY <1>13, <2>1, <2>2, <3>1
         DEF DiscEvent, serverVars, taskVars, ClientInv, ServerInv, ToldHandle,
            TaskInv, NeverStranded
  <2>3. CASE Acceptable(r)
    BY <1>13, <2>1, <2>3
       DEF DiscEvent, Acceptable, ClientConnect, CallFails, serverVars, taskVars,
          ClientInv, ServerInv, ToldHandle, TaskInv, NeverStranded
  <2> QED
    BY <2>2, <2>3
<1>14. ASSUME NEW heard \in BOOLEAN, Establish(heard) PROVE IInv'
  <2>1. /\ gap = "conn" /\ cLink = None /\ target = SERVER_ADDRESS
        /\ cLink' = "new" /\ cSynced /\ adv
        /\ \/ sLink' = "new" /\ ~adv'
           \/ sLink' = sLink /\ adv' = adv
        /\ UNCHANGED <<sSynced, conn_handle, taskVars, cSynced, gap, target, seen,
                       connected_addr, callFaults>>
    BY <1>14 DEF Establish, ClientInv
  <2>2. ClientInv'
    BY <2>1 DEF ClientInv
  <2>3. sLink = None /\ sLink' # "up" /\ ServerInv'
    BY <2>1 DEF ServerInv, ToldHandle
  <2>4. TaskInv'
    BY <2>1 DEF TaskInv, taskVars
  <2>5. NeverStranded'
    BY <2>1 DEF NeverStranded
  <2> QED
    BY <2>1, <2>2, <2>3, <2>4, <2>5
<1>15. CASE LinkLoss
  BY <1>15 DEF LinkLoss, Fault, serverVars, taskVars, clientVars, ClientInv,
     ServerInv, ToldHandle, TaskInv, NeverStranded
<1>16. CASE UNCHANGED vars
  BY <1>16 DEF vars, serverVars, taskVars, clientVars, ClientInv, ServerInv,
     ToldHandle, TaskInv, NeverStranded
<1>17. CASE TaskTakesHandle
  BY <1>17 DEF TaskTakesHandle, clientVars, ClientInv, ServerInv, ToldHandle,
     TaskInv, NeverStranded
<1>18. CASE TaskNotifies
  BY <1>18 DEF TaskNotifies, clientVars, ClientInv, ServerInv, ToldHandle,
     TaskInv, NeverStranded
<1> HIDE DEF IInv
<1> QED
  BY <1>1, <1>2, <1>3, <1>4, <1>5, <1>6, <1>7, <1>8, <1>9, <1>10, <1>11, <1>12,
     <1>13, <1>14, <1>15, <1>16, <1>17, <1>18 DEF Next

\* The inductive invariant holds for every setting of the two stacks.
LEMMA Invariance == Spec => []IInv
BY InitInv, StepInv, PTL DEF Spec

\* Every variable keeps its type: whatever the order of events, the client
\* board has only ever aimed at the server board.
THEOREM BleTypes == Spec => []TypeOK
<1>1. Init => TypeOK
  <2>1. Init => misses \in Nat
    BY DEF Init
  <2>2. QED
    BY <2>1 DEF Init, TypeOK
<1>2. ASSUME TypeOK, [Next]_vars PROVE TypeOK'
  <2> USE <1>2 DEF TypeOK
  <2>1. CASE ServerSync \/ AdvEnds \/ ServerDisconnectEvent
    <3>1. misses' \in Nat
      BY <2>1 DEF ServerSync, AdvEnds, ServerDisconnectEvent, taskVars
    <3>2. QED
      BY <2>1, <3>1 DEF ServerSync, AdvEnds, ServerDisconnectEvent, Advertise,
         clientVars, taskVars
  <2>2. CASE ServerConnectEvent \/ ServerReset
    <3>1. misses' \in Nat
      BY <2>2 DEF ServerConnectEvent, ServerReset
    <3>2. QED
      BY <2>2, <3>1 DEF ServerConnectEvent, ServerReset, clientVars
  <2>3. CASE ClientSync \/ ConnectTimeout \/ ClientDisconnectEvent
    BY <2>3 DEF ClientSync, ConnectTimeout, ClientDisconnectEvent, Scan,
       serverVars, taskVars
  <2>4. CASE ClientConnectEvent
    BY <2>4 DEF ClientConnectEvent, serverVars, taskVars
  <2>5. CASE Found \/ GivesUp \/ ClientReset
    BY <2>5 DEF Found, GivesUp, ClientReset, serverVars, taskVars
  <2>6. ASSUME NEW r \in Advertisements, DiscEvent(r) PROVE TypeOK'
    <3>1. r \in Reports \cup {ServerReport}
      BY DEF Advertisements
    <3>2. seen' \subseteq {q.addr : q \in Reports \cup {ServerReport}}
      BY <2>6, <3>1 DEF DiscEvent
    <3>3. gap' \in {"null", "disc", "conn"} /\ target' \in {None, SERVER_ADDRESS}
      BY <2>6 DEF DiscEvent, ClientConnect, Acceptable
    <3>4. QED
      BY <2>6, <3>2, <3>3 DEF DiscEvent, serverVars, taskVars
  <2>7. ASSUME NEW heard \in BOOLEAN, Establish(heard) PROVE TypeOK'
    BY <2>7 DEF Establish, taskVars
  <2>8. CASE LinkLoss \/ UNCHANGED vars
    BY <2>8 DEF LinkLoss, serverVars, taskVars, clientVars, vars
  <2>9. CASE TaskTakesHandle \/ TaskNotifies
    BY <2>9 DEF TaskTakesHandle, TaskNotifies, clientVars
  <2> HIDE DEF TypeOK
  <2>10. QED
    BY <1>2, <2>1, <2>2, <2>3, <2>4, <2>5, <2>6, <2>7, <2>8, <2>9 DEF Next
<1>3. QED
  BY <1>1, <1>2, PTL DEF Spec

\* Whatever the NimBLE task does to conn_handle between the UART task's reading it
\* and its call of ble_gatts_notify_custom, and however often, the task uses an old
\* handle at most once before the next event of a connection.
THEOREM StaleHandleOnce == Spec => []StaleOnce
<1>1. IInv => StaleOnce
  BY DEF IInv, TaskInv, StaleOnce
<1> QED
  BY <1>1, Invariance, PTL

\* The client board never scans or connects while it has a connection, so
\* that peer.c has one peer at a time.
THEOREM OneConnection == Spec => []ScansOnlyAlone
<1>1. IInv => ScansOnlyAlone
  BY DEF IInv, ClientInv, ScansOnlyAlone
<1> QED
  BY <1>1, Invariance, PTL

\* No order of resets, losses and reports leaves a synchronised board idle, as
\* long as the calls of the stack succeed.
THEOREM NobodyStranded == Spec => []NeverStranded
<1>1. IInv => NeverStranded
  BY DEF IInv
<1> QED
  BY <1>1, Invariance, PTL

-----------------------------------------------------------------------------
(* What a failing call of the stack leads to.                               *)

\* Both hold of every step, whatever has failed before.
LEMMA StrandedStep ==
  IInv /\ [Next]_vars => StrandedByFailure /\ StrandedUntilReset
<1> SUFFICES ASSUME IInv, [Next]_vars
             PROVE  StrandedByFailure /\ StrandedUntilReset
  OBVIOUS
<1>0. ClientInv /\ ServerInv
  BY DEF IInv
<1> USE <1>0 DEF ClientInv, ServerInv, StrandedByFailure, StrandedUntilReset,
                 ServerIdle, ClientIdle, LinkUnused
<1>1. CASE ServerSync
  BY <1>1 DEF ServerSync, Advertise, CallFails, clientVars
<1>2. CASE ServerConnectEvent
  BY <1>2 DEF ServerConnectEvent, clientVars
<1>3. CASE AdvEnds
  BY <1>3 DEF AdvEnds, Advertise, CallFails, clientVars
<1>4. CASE ServerDisconnectEvent
  BY <1>4 DEF ServerDisconnectEvent, Advertise, CallFails, clientVars
<1>5. CASE ServerReset
  BY <1>5 DEF ServerReset, clientVars
<1>6. CASE ClientSync
  BY <1>6 DEF ClientSync, Scan, CallFails, serverVars, taskVars
<1>7. CASE ClientConnectEvent
  BY <1>7 DEF ClientConnectEvent, CallFails, serverVars, taskVars
<1>8. CASE ConnectTimeout
  BY <1>8 DEF ConnectTimeout, Scan, CallFails, serverVars, taskVars
<1>9. CASE Found
  BY <1>9 DEF Found, serverVars, taskVars
<1>10. CASE GivesUp
  BY <1>10 DEF GivesUp, CallFails, serverVars, taskVars
<1>11. CASE ClientDisconnectEvent
  BY <1>11 DEF ClientDisconnectEvent, Scan, CallFails, serverVars, taskVars
<1>12. CASE ClientReset
  BY <1>12 DEF ClientReset, serverVars, taskVars
<1>13. ASSUME NEW r \in Advertisements, DiscEvent(r)
       PROVE  StrandedByFailure /\ StrandedUntilReset
  <2>1. CASE r.addr = SERVER_ADDRESS
    <3>1. r = ServerReport
      BY <2>1, BleAssumption DEF Advertisements
    <3>2. Acceptable(r) /\ connected_addr = None
      BY <1>13, <3>1 DEF DiscEvent, Acceptable, ServerReport, Connectable
    <3>3. QED
      BY <1>13, <2>1, <3>2 DEF DiscEvent, ClientConnect, CallFails, serverVars,
         taskVars
  <2>2. CASE r.addr # SERVER_ADDRESS
    <3>1. ~Acceptable(r)
      BY <2>2 DEF Acceptable
    <3>2. QED
      BY <1>13, <2>2, <3>1 DEF DiscEvent, serverVars, taskVars
  <2>3. QED
    BY <2>1, <2>2
<1>14. ASSUME NEW heard \in BOOLEAN, Establish(heard)
       PROVE  StrandedByFailure /\ StrandedUntilReset
  BY <1>14 DEF Establish
<1>15. CASE LinkLoss
  BY <1>15 DEF LinkLoss, serverVars, taskVars, clientVars
<1>16. CASE UNCHANGED vars
  BY <1>16 DEF vars, serverVars, taskVars, clientVars
<1>17. CASE TaskTakesHandle \/ TaskNotifies
  BY <1>17 DEF TaskTakesHandle, TaskNotifies, clientVars
<1>18. QED
  BY <1>1, <1>2, <1>3, <1>4, <1>5, <1>6, <1>7, <1>8, <1>9, <1>10, <1>11, <1>12,
     <1>13, <1>14, <1>15, <1>16, <1>17 DEF Next

\* A board is stranded by a failing call only, and then until its reset: the
\* handlers of main.c log the result of a call and leave the rest to events that
\* do not come.
THEOREM StrandedOnlyByFailure == Spec => Stranding
<1>1. IInv /\ [Next]_vars => [StrandedByFailure /\ StrandedUntilReset]_vars
  BY StrandedStep
<1>2. QED
  BY <1>1, Invariance, PTL DEF Spec, Stranding
=============================================================================
