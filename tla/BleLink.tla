------------------------------- MODULE BleLink -------------------------------
(***************************************************************************)
(* How the two boards find each other: the GAP events of                    *)
(* esp32/server/src/main.c and esp32/client/src/main.c over the NimBLE host *)
(* and the radio, and what the UART task of the server board makes of its   *)
(* conn_handle meanwhile.  Discovery appears as the answer it gives         *)
(* (Discovery); the bytes that pass are in UartLink.                        *)
(* A handler calls the stack; such a call may fail at once (callFaults),    *)
(* and always fails while the host is not synchronised with its controller. *)
(***************************************************************************)
EXTENDS Naturals

CONSTANTS
  Handles,        \* what the server board's controller names a connection by
  Reports,        \* advertisements in the air besides the server board's
  MaxFaults,      \* losses and resets
  MaxCallFaults   \* calls of the stack that fail

SERVER_ADDRESS == "server"
GATT_SVC_UUID  == "ABF0"
Connectable    == {"ADV_IND", "DIR_IND"}

None == "none"

\* The address is the server board's alone.
ASSUME BleAssumption ==
  /\ {MaxFaults, MaxCallFaults} \subseteq Nat
  /\ Handles # {} /\ None \notin Handles
  /\ \A r \in Reports : r.addr # SERVER_ADDRESS

\* What ble_server_advertise has the controller send.
ServerReport ==
  [addr |-> SERVER_ADDRESS, type |-> "ADV_IND", uuids16 |-> {GATT_SVC_UUID}]

VARIABLES
  sSynced,         \* the server board's host is synchronised
  adv,             \* it advertises
  sLink,           \* its connection: none, "new" (event to come), "up"
  handle,          \* the handle of its connection, or of the last one
  conn_handle,
  taskPc,          \* ble_client_task: "read", or "notify" (handle in hand)
  argument,        \* the handle it has taken from conn_handle
  misses,          \* auxiliary: calls with another handle than that of the
                   \* connection since the last event of a connection
  cSynced,         \* the client board
  gap,             \* "null", "disc" or "conn": the host's procedure
  target,          \* the device it connects to
  seen,            \* devices reported since the scan began
  cLink,
  connected_addr,
  phase,           \* discovery, as in module Discovery
  linked,          \* the two connections are the ends of one that is alive
  faults, callFaults

taskVars   == <<taskPc, argument, misses>>
serverVars == <<sSynced, adv, sLink, handle, conn_handle, taskVars>>
clientVars == <<cSynced, gap, target, seen, cLink, connected_addr, phase>>
vars == <<serverVars, clientVars, linked, faults, callFaults>>

Init ==
  /\ sSynced = FALSE /\ adv = FALSE
  /\ sLink = None /\ handle = None /\ conn_handle = None
  /\ taskPc = "read" /\ argument = None /\ misses = 0
  /\ cSynced = FALSE /\ gap = "null" /\ target = None /\ seen = {}
  /\ cLink = None /\ connected_addr = None /\ phase = "idle"
  /\ linked = FALSE
  /\ faults = 0 /\ callFaults = 0

Fault     == faults < MaxFaults /\ faults' = faults + 1
CallFails == callFaults < MaxCallFaults /\ callFaults' = callFaults + 1

-----------------------------------------------------------------------------
(* The server board.                                                        *)

\* ble_server_advertise.
Advertise == \/ adv' = TRUE /\ UNCHANGED callFaults
             \/ adv' = FALSE /\ CallFails

\* ble_server_on_sync.
ServerSync ==
  /\ ~sSynced /\ sSynced' = TRUE
  /\ Advertise
  /\ UNCHANGED <<sLink, handle, conn_handle, taskVars, clientVars, linked, faults>>

\* BLE_GAP_EVENT_CONNECT.
ServerConnectEvent ==
  /\ sLink = "new" /\ sLink' = "up"
  /\ conn_handle' = handle
  /\ misses' = 0
  /\ UNCHANGED <<sSynced, adv, handle, taskPc, argument, clientVars, linked, faults,
                 callFaults>>

\* BLE_GAP_EVENT_ADV_COMPLETE, or a connection that was not established.
AdvEnds ==
  /\ adv /\ Fault
  /\ Advertise
  /\ UNCHANGED <<sSynced, sLink, handle, conn_handle, taskVars, clientVars, linked>>

\* Mutant: the server board stays silent after a connection.
ServerDisconnectSilent ==
  /\ sLink = "up" /\ ~linked
  /\ sLink' = None
  /\ conn_handle' = None
  /\ misses' = 0
  /\ UNCHANGED <<sSynced, adv, handle, taskPc, argument, clientVars, linked, faults,
                 callFaults>>

\* Mutant: the handle is kept.
ServerDisconnectKeeps ==
  /\ sLink = "up" /\ ~linked
  /\ sLink' = None
  /\ Advertise
  /\ misses' = 0
  /\ UNCHANGED <<conn_handle, sSynced, handle, taskPc, argument, clientVars, linked,
                 faults>>

\* BLE_GAP_EVENT_DISCONNECT.
ServerDisconnectEvent ==
  /\ sLink = "up" /\ ~linked
  /\ sLink' = None
  /\ conn_handle' = None
  /\ Advertise
  /\ misses' = 0
  /\ UNCHANGED <<sSynced, handle, taskPc, argument, clientVars, linked, faults>>

\* The host resets itself or the board restarts.  On a reset the handlers of
\* DISCONNECT and ADV_COMPLETE are called, and their ble_server_advertise
\* fails.  A restart begins the task anew.
ServerReset ==
  /\ sSynced /\ Fault
  /\ sSynced' = FALSE /\ adv' = FALSE
  /\ sLink' = None /\ conn_handle' = None
  /\ taskPc' \in {taskPc, "read"} /\ misses' = 0
  /\ linked' = FALSE
  /\ UNCHANGED <<handle, argument, clientVars, callFaults>>

\* ble_client_task has read a frame and takes conn_handle to notify of it.
TaskTakesHandle ==
  /\ taskPc = "read" /\ taskPc' = "notify"
  /\ argument' = conn_handle
  /\ UNCHANGED <<sSynced, adv, sLink, handle, conn_handle, misses, clientVars, linked,
                 faults, callFaults>>

\* The handle of the connection the board has been told of.
ToldHandle == IF sLink = "up" THEN handle ELSE None

\* ble_gatts_notify_custom, with the argument taken before.  What it returns is
\* only logged.
TaskNotifies ==
  /\ taskPc = "notify" /\ taskPc' = "read"
  /\ misses' = IF argument = ToldHandle THEN misses ELSE misses + 1
  /\ UNCHANGED <<sSynced, adv, sLink, handle, conn_handle, argument, clientVars, linked,
                 faults, callFaults>>

-----------------------------------------------------------------------------
(* The client board.                                                        *)

\* ble_client_scan.
Scan ==
  /\ seen' = {}
  /\ \/ gap' = "disc" /\ UNCHANGED callFaults
     \/ gap' = "null" /\ CallFails

\* ble_client_on_sync.
ClientSync ==
  /\ ~cSynced /\ cSynced' = TRUE
  /\ Scan
  /\ UNCHANGED <<serverVars, target, cLink, connected_addr, phase, linked, faults>>

\* Mutant: whoever offers the service will do.
AcceptableAnyone(r) ==
  /\ connected_addr # r.addr
  /\ r.type \in Connectable
  /\ GATT_SVC_UUID \in r.uuids16

\* The tests of BLE_GAP_EVENT_DISC.
Acceptable(r) ==
  /\ connected_addr # r.addr
  /\ r.type \in Connectable
  /\ r.addr = SERVER_ADDRESS
  /\ GATT_SVC_UUID \in r.uuids16

\* ble_client_connect: the scan is cancelled before the connection is tried.
ClientConnect(addr) ==
  \/ gap' = "conn" /\ target' = addr /\ UNCHANGED callFaults
  \/ gap' \in {"disc", "null"} /\ UNCHANGED target /\ CallFails

\* BLE_GAP_EVENT_DISC.  With filter_duplicates a device is reported once.
DiscEvent(r) ==
  /\ gap = "disc" /\ r.addr \notin seen
  /\ seen' = seen \cup {r.addr}
  /\ IF Acceptable(r) THEN ClientConnect(r.addr) ELSE UNCHANGED <<gap, target, callFaults>>
  /\ UNCHANGED <<serverVars, cSynced, cLink, connected_addr, phase, linked, faults>>

\* Mutant: a scan while the discovery of the services runs.
ClientConnectScans ==
  /\ cLink = "new" /\ cLink' = "up"
  /\ Scan
  /\ connected_addr' = target
  /\ phase' = "running"
  /\ UNCHANGED <<serverVars, cSynced, target, linked, faults>>

\* BLE_GAP_EVENT_CONNECT: peer_add and peer_disc_all, failures of which are
\* only logged.
ClientConnectEvent ==
  /\ cLink = "new" /\ cLink' = "up"
  /\ gap' = "null"
  /\ connected_addr' = target
  /\ \/ phase' = "running" /\ UNCHANGED callFaults
     \/ phase' = "idle" /\ CallFails
  /\ UNCHANGED <<serverVars, cSynced, target, seen, linked, faults>>

\* Mutant: nothing is done when the 50 seconds are over.
ConnectTimeoutIdle ==
  /\ gap = "conn" /\ cLink = None
  /\ gap' = "null"
  /\ UNCHANGED <<serverVars, cSynced, seen, target, cLink, connected_addr, phase,
                 linked, faults, callFaults>>

\* BLE_GAP_EVENT_CONNECT with a status: the 50 seconds are over.
ConnectTimeout ==
  /\ gap = "conn" /\ cLink = None
  /\ Scan
  /\ UNCHANGED <<serverVars, cSynced, target, cLink, connected_addr, phase,
                 linked, faults>>

\* ble_client_on_disc_complete with status 0, and the subscription.
Found ==
  /\ phase = "running" /\ linked
  /\ phase' = "found"
  /\ UNCHANGED <<serverVars, cSynced, gap, target, seen, cLink, connected_addr,
                 linked, faults, callFaults>>

\* The discovery or the subscription fails: ble_gap_terminate, whose result
\* is not looked at.
GivesUp ==
  /\ phase = "running" /\ Fault
  /\ phase' = "failed"
  /\ \/ linked' = FALSE /\ UNCHANGED callFaults
     \/ UNCHANGED linked /\ CallFails
  /\ UNCHANGED <<serverVars, cSynced, gap, target, seen, cLink, connected_addr>>

\* BLE_GAP_EVENT_DISCONNECT.
ClientDisconnectEvent ==
  /\ cLink = "up" /\ ~linked
  /\ cLink' = None
  /\ connected_addr' = None
  /\ phase' = "idle"
  /\ Scan
  /\ UNCHANGED <<serverVars, cSynced, target, linked, faults>>

\* As on the server board; ble_client_scan fails in the handlers.
ClientReset ==
  /\ cSynced /\ Fault
  /\ cSynced' = FALSE /\ gap' = "null" /\ seen' = {}
  /\ cLink' = None /\ connected_addr' = None /\ phase' = "idle"
  /\ linked' = FALSE
  /\ UNCHANGED <<serverVars, target, callFaults>>

-----------------------------------------------------------------------------
(* The radio.                                                               *)

\* The client board's controller answers an advertisement.  The server board
\* may miss it; the client notices that as the loss of its new connection.
Establish(heard) ==
  /\ gap = "conn" /\ cLink = None /\ target = SERVER_ADDRESS
  /\ adv
  /\ cLink' = "new"
  /\ linked' = heard
  /\ IF heard
     THEN sLink' = "new" /\ adv' = FALSE /\ handle' \in Handles /\ UNCHANGED faults
     ELSE UNCHANGED <<sLink, adv, handle>> /\ Fault
  /\ UNCHANGED <<sSynced, conn_handle, taskVars, cSynced, gap, target, seen, connected_addr,
                 phase, callFaults>>

\* Supervision fails, or one side has terminated the connection.
LinkLoss ==
  /\ linked /\ Fault
  /\ linked' = FALSE
  /\ UNCHANGED <<serverVars, clientVars, callFaults>>

Advertisements == Reports \cup IF adv THEN {ServerReport} ELSE {}

Next ==
  \/ ServerSync \/ ServerConnectEvent \/ AdvEnds \/ ServerDisconnectEvent
  \/ ServerReset \/ TaskTakesHandle \/ TaskNotifies
  \/ ClientSync \/ ClientConnectEvent \/ ConnectTimeout
  \/ Found \/ GivesUp \/ ClientDisconnectEvent \/ ClientReset
  \/ \E r \in Advertisements : DiscEvent(r)
  \/ \E heard \in BOOLEAN : Establish(heard)
  \/ LinkLoss

Spec == Init /\ [][Next]_vars

(* Hosts synchronise and handle their events.  A connection that can be     *)
(* established is, in the end: the advertisement comes many times in the    *)
(* 50 seconds for which the client board tries.                             *)
FairSpec ==
  /\ Spec
  /\ WF_vars(ServerSync) /\ WF_vars(ServerConnectEvent)
  /\ WF_vars(ServerDisconnectEvent)
  /\ WF_vars(ClientSync) /\ WF_vars(ClientConnectEvent)
  /\ WF_vars(ClientDisconnectEvent) /\ WF_vars(ConnectTimeout)
  /\ WF_vars(DiscEvent(ServerReport) /\ adv)
  /\ WF_vars(Found)
  /\ SF_vars(Establish(TRUE))

-----------------------------------------------------------------------------
(* Properties.                                                              *)

\* The variables have the types of the code's state.
TypeOK ==
  /\ {sSynced, adv, cSynced, linked} \subseteq BOOLEAN
  /\ {sLink, cLink} \subseteq {None, "new", "up"}
  /\ {handle, conn_handle, argument} \subseteq Handles \cup {None}
  /\ taskPc \in {"read", "notify"} /\ misses \in Nat
  /\ gap \in {"null", "disc", "conn"}
  /\ {target, connected_addr} \subseteq {None, SERVER_ADDRESS}
  /\ seen \subseteq {r.addr : r \in Reports \cup {ServerReport}}
  /\ phase \in {"idle", "running", "found", "failed"}

\* conn_handle is written by the NimBLE task and read by the UART task without
\* a lock.  Between two events of a connection (CONNECT, DISCONNECT, reset) at
\* most one notification is asked for with a handle of the past: the one the
\* task was about to ask for.  (A connection that has broken is there until
\* DISCONNECT; until then notifications are asked of it and lost.)
StaleOnce == misses <= 1

\* The client board has one connection at a time and looks for no other
\* meanwhile, which is what peer.c is used for here.
ScansOnlyAlone == cLink = "up" => gap = "null"

\* A synchronised board is connected, or does something to become so that the
\* other can answer, unless a call of the stack has failed.
NeverStranded ==
  callFaults = 0 =>
    /\ sSynced => adv \/ sLink # None
    /\ cSynced => \/ cLink # None
                  \/ gap = "conn"
                  \/ gap = "disc" /\ SERVER_ADDRESS \notin seen
    /\ phase \in {"idle", "failed"} /\ cLink = "up" => ~linked

\* The server board is awake, without a connection, and does not advertise.
ServerIdle == sSynced /\ ~adv /\ sLink = None

\* The client board is awake, without a connection, and neither makes one nor
\* would hear the server board.
ClientIdle ==
  /\ cSynced /\ cLink = None
  /\ gap # "conn"
  /\ gap = "disc" => SERVER_ADDRESS \in seen

\* The connection is there, and nobody is going to look for the services.
LinkUnused ==
  cLink = "up" /\ linked /\ phase \in {"idle", "failed"}

\* No step but a failing call makes a board idle or a connection useless, also
\* when calls have failed before: each of ble_server_advertise, ble_client_scan,
\* ble_client_connect, peer_add and ble_gap_terminate is all that stands between
\* its handler and a stranded board.
StrandedByFailure ==
  \/ callFaults' = callFaults + 1
  \/ /\ ServerIdle' => ServerIdle
     /\ ClientIdle' => ClientIdle
     /\ LinkUnused' => LinkUnused

\* No event makes good what a failing call has left: an idle board stays so
\* until it is reset, a useless connection until it is lost.
StrandedUntilReset ==
  /\ ServerIdle => ServerIdle' \/ ~sSynced'
  /\ ClientIdle => ClientIdle' \/ ~cSynced'
  /\ LinkUnused => LinkUnused' \/ ~linked'

\* What a failing call of the stack leads to, at whichever of its callers: only
\* it strands a board, and then until the board's reset, because the handlers
\* log the result and leave the rest to events that do not come.
Stranding == [][StrandedByFailure /\ StrandedUntilReset]_vars

\* After losses and resets of either board, in any order, the boards are
\* connected, discovered and subscribed again and stay so, unless a call of
\* the stack has failed.
LinkComesBack ==
  [](callFaults = 0) =>
    <>[](linked /\ phase = "found" /\ conn_handle # None)
=============================================================================
