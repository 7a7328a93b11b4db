---------------------------- MODULE PeerDiscovery ----------------------------
(***************************************************************************)
(* GATT discovery on the client board: central_utils/peer.c with the        *)
(* handlers of esp32/client/src/main.c that call it and that it calls.      *)
(* The NimBLE host runs every callback on one task; it reports attributes   *)
(* in the order of their handles, fails the procedure under way when the    *)
(* connection breaks, and delivers DISCONNECT after that.  The client has   *)
(* one connection at a time, so the list of peers has at most one entry.    *)
(***************************************************************************)
EXTENDS Integers, Sequences, SequencesExt, FiniteSetsExt

CONSTANTS
  Databases,   \* attribute tables of the devices one may meet
  MaxHandle,   \* the largest attribute handle in them
  MaxPeers, MaxSvcs, MaxChrs, MaxDscs   \* arguments of peer_init

ASSUME PoolAssumption ==
  {MaxHandle, MaxPeers, MaxSvcs, MaxChrs, MaxDscs} \subseteq Nat \ {0}

Handle         == 1 .. MaxHandle
Descriptor     == [handle : Handle, uuid : STRING]
Characteristic == [def : Handle, val : Handle, uuid : STRING, dscs : Seq(Descriptor)]
Service        == [start : Handle, end : Handle, uuid : STRING,
                   chrs : Seq(Characteristic)]

\* Handles ascend in an attribute table: from service to service, in a
\* service from its declaration through the characteristics, in each of these
\* from declaration to value to descriptors.
Ascending(d) ==
  \A i \in DOMAIN d :
    LET chrs == d[i].chrs
        Before(h, j) == h <= d[i].end /\ \A m \in DOMAIN chrs : j < m => h < chrs[m].def
    IN  /\ d[i].start <= d[i].end
        /\ \A k \in DOMAIN d : i < k => d[i].end < d[k].start
        /\ \A j \in DOMAIN chrs :
             /\ d[i].start < chrs[j].def /\ chrs[j].def < chrs[j].val
             /\ Before(chrs[j].val, j)
             /\ \A k \in DOMAIN chrs[j].dscs :
                  /\ chrs[j].val < chrs[j].dscs[k].handle
                  /\ Before(chrs[j].dscs[k].handle, j)
                  /\ \A m \in DOMAIN chrs[j].dscs :
                       k < m => chrs[j].dscs[k].handle < chrs[j].dscs[m].handle

ASSUME TableAssumption ==
  \A d \in Databases : d \in Seq(Service) /\ d # <<>> /\ Ascending(d)

VARIABLES
  link,        \* "down", "up", or "broken": DISCONNECT not delivered yet
  db,          \* the attribute table of the connected device
  peer,        \* the entry of the peers list
  free,        \* free blocks of the four pools
  proc,        \* the GATT procedure under way
  started,     \* peer_disc_all has returned 0 on this connection
  answers,     \* what disc_cb has been told since: TRUE for status 0
  written,     \* the descriptor the subscription was written to, 0: none
  terminating  \* ble_gap_terminate has been called

vars == <<link, db, peer, free, proc, started, answers, written, terminating>>

Nothing == <<>>
NoPeer  == [svcs |-> <<>>, disc_prev_chr_val |-> 0, cur_svc |-> -1]
NoProc  == [op |-> "none", heard |-> FALSE, rest |-> {}, chr |-> 0]

GATT_SVC_UUID == "ABF0"
GATT_CHR_UUID == "ABF1"
CLT_CFG_UUID  == "2902"

Init ==
  /\ link = "down"
  /\ db = Nothing
  /\ peer = NoPeer
  /\ free = [peer |-> MaxPeers, svc |-> MaxSvcs, chr |-> MaxChrs, dsc |-> MaxDscs]
  /\ proc = NoProc
  /\ started = FALSE
  /\ answers = <<>>
  /\ written = 0
  /\ terminating = FALSE

-----------------------------------------------------------------------------
(* The lists.  A service has characteristics, a characteristic has          *)
(* descriptors; every list is a sequence in the order of its links.         *)

Starts(svcs)   == [n \in DOMAIN svcs |-> svcs[n].start]
Vals(chrs)     == [n \in DOMAIN chrs |-> chrs[n].val]
Handles(dscs)  == [n \in DOMAIN dscs |-> dscs[n].handle]

\* The find_prev functions: the place of the last of these before handle h.
Prev(handles, h) ==
  Min({n \in 0 .. Len(handles) : n = Len(handles) \/ handles[n + 1] >= h})

\* The find functions: whether the next one is h itself.
Present(handles, h) ==
  LET n == Prev(handles, h) IN n < Len(handles) /\ handles[n + 1] = h

\* SLIST_INSERT_AFTER keeps what followed; setting the next pointer of the
\* previous entry alone, as for characteristics and descriptors, does not.
Linked(l, n, e) == InsertAt(l, n + 1, e)
Chained(l, n, e) == IF n = 0 THEN <<e>> \o l ELSE SubSeq(l, 1, n) \o <<e>>

svc_is_empty(svc) == svc.end <= svc.start

\* Mutant: the range of a characteristic takes in the next declaration.
EndHandleInclusive(svc, j) ==
  IF j < Len(svc.chrs) THEN svc.chrs[j + 1].def ELSE svc.end

chr_end_handle(svc, j) ==
  IF j < Len(svc.chrs) THEN svc.chrs[j + 1].def - 1 ELSE svc.end

chr_is_empty(svc, j) == chr_end_handle(svc, j) <= svc.chrs[j].val

\* peer_svc_find_range
FindRange(svcs, h) ==
  SelectInSeq(svcs, LAMBDA s : s.start <= h /\ h <= s.end)

\* Where the characteristics of all services are, and their descriptors.
ChrPlaces(svcs) == UNION {{i} \X DOMAIN svcs[i].chrs : i \in DOMAIN svcs}
DscPlaces(svcs) ==
  UNION {{ij} \X DOMAIN svcs[ij[1]].chrs[ij[2]].dscs : ij \in ChrPlaces(svcs)}

Blocks(svcs) == [svc |-> Len(svcs), chr |-> Cardinality(ChrPlaces(svcs)),
                 dsc |-> Cardinality(DscPlaces(svcs))]

\* Mutant: peer_chr_delete forgets the descriptors.
ReturnedNoDscs(svcs) ==
  LET b == Blocks(svcs) IN [free EXCEPT !.svc = @ + b.svc, !.chr = @ + b.chr]

\* The blocks peer_svc_delete puts back, for every service of a list.
Returned(svcs) ==
  LET b == Blocks(svcs)
  IN  [free EXCEPT !.svc = @ + b.svc, !.chr = @ + b.chr, !.dsc = @ + b.dsc]

\* Mutant: the first client configuration there is.
DscFindAny(svcs) ==
  LET chrs == FlattenSeq([i \in DOMAIN svcs |-> svcs[i].chrs])
      dscs == FlattenSeq([j \in DOMAIN chrs |-> chrs[j].dscs])
      k == SelectInSeq(dscs, LAMBDA e : e.uuid = CLT_CFG_UUID)
  IN  IF k = 0 THEN 0 ELSE dscs[k].handle

\* peer_dsc_find_uuid: the descriptor with the three UUIDs, in the first
\* service and the first characteristic that match.
DscFindUuid(svcs) ==
  LET first(l, u) == SelectInSeq(l, LAMBDA e : e.uuid = u)
      i == first(svcs, GATT_SVC_UUID)
      j == first(svcs[i].chrs, GATT_CHR_UUID)
      k == first(svcs[i].chrs[j].dscs, CLT_CFG_UUID)
  IN  CASE i = 0 -> 0
        [] i # 0 /\ j = 0 -> 0
        [] i # 0 /\ j # 0 /\ k = 0 -> 0
        [] OTHER -> svcs[i].chrs[j].dscs[k].handle

-----------------------------------------------------------------------------
(* The stack.  A procedure sends a request, hears from the device, and      *)
(* reports what it has found, lowest handle first: rest is what is left.    *)

Chrs(d) == UNION {ToSet(s.chrs) : s \in ToSet(d)}

\* Every attribute of a device: declarations, values, descriptors.
Attributes(d) ==
  {[handle |-> s.start, uuid |-> "svc"] : s \in ToSet(d)} \cup
  UNION {{[handle |-> c.def, uuid |-> "chr"], [handle |-> c.val, uuid |-> c.uuid]}
           \cup ToSet(c.dscs) : c \in Chrs(d)}

DiscAllSvcs(d) == [op |-> "svcs", heard |-> FALSE, rest |-> ToSet(d), chr |-> 0]

DiscAllChrs(svc) ==
  [op |-> "chrs", heard |-> FALSE, chr |-> 0,
   rest |-> {c \in Chrs(db) : svc.start <= c.def /\ c.def <= svc.end}]

DiscAllDscs(val, end) ==
  [op |-> "dscs", heard |-> FALSE, chr |-> val,
   rest |-> {a \in Attributes(db) : val < a.handle /\ a.handle <= end}]

\* The device's response to the request.
Respond ==
  /\ link = "up" /\ proc # NoProc /\ ~proc.heard
  /\ proc' = [proc EXCEPT !.heard = TRUE]
  /\ UNCHANGED <<link, db, peer, free, started, answers, written, terminating>>

-----------------------------------------------------------------------------
(* peer.c.  p is the peer as the handler has left it so far.                *)

\* disc_cb, which is ble_client_on_disc_complete: it subscribes or gives up
\* the connection; the write may fail.
DiscCb(p, ok) ==
  /\ proc' = NoProc
  /\ answers' = Append(answers, ok)
  /\ LET dsc == IF ok THEN DscFindUuid(p.svcs) ELSE 0 IN
     \/ written' = dsc /\ terminating' = (dsc = 0)
     \/ dsc # 0 /\ written' = 0 /\ terminating' = TRUE

\* peer_disc_complete.
Complete(p, ok) ==
  /\ peer' = [p EXCEPT !.disc_prev_chr_val = 0]
  /\ DiscCb(p, ok)

Run(p, pr) ==
  /\ proc' = pr
  /\ peer' = p
  /\ UNCHANGED <<answers, written, terminating>>

\* Mutant: characteristics already asked for are not passed over.
NeedDscsAgain(p) ==
  {ij \in ChrPlaces(p.svcs) :
     LET svc == p.svcs[ij[1]]  j == ij[2] IN
     /\ ~chr_is_empty(svc, j)
     /\ svc.chrs[j].dscs = <<>>}

\* Places of the characteristics whose descriptors are still to be found.
NeedDscs(p) ==
  {ij \in ChrPlaces(p.svcs) :
     LET svc == p.svcs[ij[1]]  j == ij[2] IN
     /\ ~chr_is_empty(svc, j)
     /\ svc.chrs[j].dscs = <<>>
     /\ p.disc_prev_chr_val <= svc.chrs[j].def}

\* peer_disc_dscs.  The stack may be out of memory for the procedure; that
\* is reported before disc_prev_chr_val is set.
DiscDscs(p) ==
  IF NeedDscs(p) = {} THEN Complete(p, TRUE)
  ELSE LET at  == CHOOSE a \in NeedDscs(p) : \A b \in NeedDscs(p) :
                    a[1] < b[1] \/ (a[1] = b[1] /\ a[2] <= b[2])
           svc == p.svcs[at[1]]
           val == svc.chrs[at[2]].val
           q   == [p EXCEPT !.disc_prev_chr_val = val]
       IN  \/ Run(q, DiscAllDscs(val, chr_end_handle(svc, at[2])))
           \/ DiscCb(p, FALSE) /\ peer' = q

\* Mutant: the caller is not told that the procedure did not start.
DiscChrsSilent(p) ==
  LET i == SelectInSeq(p.svcs, LAMBDA s : ~svc_is_empty(s) /\ s.chrs = <<>>)
      q == [p EXCEPT !.cur_svc = p.svcs[i].start]
  IN  IF i = 0 THEN DiscDscs(p)
      ELSE Run(q, DiscAllChrs(p.svcs[i])) \/ Run(q, NoProc)

\* peer_disc_chrs.
DiscChrs(p) ==
  LET i == SelectInSeq(p.svcs, LAMBDA s : ~svc_is_empty(s) /\ s.chrs = <<>>)
      q == [p EXCEPT !.cur_svc = p.svcs[i].start]
  IN  IF i = 0 THEN DiscDscs(p)
      ELSE Run(q, DiscAllChrs(p.svcs[i])) \/ Complete(q, FALSE)

Reported(a) == [proc EXCEPT !.rest = @ \ {a}]

\* Mutant: an empty pool is not noticed.
AddedUnchecked(a, pool, known, p) ==
  IF known THEN Run(peer, Reported(a)) /\ UNCHANGED free
  ELSE Run(p, Reported(a)) /\ free' = [free EXCEPT ![pool] = @ - 1]

\* A callback with status 0 and an attribute: its entry is known, is new and
\* gets a block, or finds the pool empty, which ends the discovery.
Added(a, pool, known, p) ==
  \/ known /\ Run(peer, Reported(a)) /\ UNCHANGED free
  \/ /\ ~known /\ free[pool] > 0
     /\ Run(p, Reported(a))
     /\ free' = [free EXCEPT ![pool] = @ - 1]
  \/ /\ ~known /\ free[pool] = 0
     /\ Complete(peer, FALSE)
     /\ UNCHANGED free

Callback(op) == link = "up" /\ proc.op = op /\ proc.heard

\* peer_svc_disced with a service: peer_svc_add.
SvcDisced ==
  /\ Callback("svcs")
  /\ \E gatt \in proc.rest :
       LET svc == [gatt EXCEPT !.chrs = <<>>]
           n   == Prev(Starts(peer.svcs), svc.start)
       IN  /\ \A a \in proc.rest : gatt.start <= a.start
           /\ Added(gatt, "svc", Present(Starts(peer.svcs), svc.start),
                    [peer EXCEPT !.svcs = Linked(@, n, svc)])
  /\ UNCHANGED <<link, db, started>>

\* peer_chr_disced with a characteristic: peer_chr_add, which looks for the
\* declaration's handle among the handles of the values.
ChrDisced ==
  /\ Callback("chrs")
  /\ \E gatt \in proc.rest :
       LET chr == [gatt EXCEPT !.dscs = <<>>]
           i   == Prev(Starts(peer.svcs), peer.cur_svc) + 1
           l   == peer.svcs[i].chrs
       IN  /\ \A a \in proc.rest : gatt.def <= a.def
           /\ Added(gatt, "chr", Present(Vals(l), chr.def),
                    [peer EXCEPT !.svcs[i].chrs = Chained(@, Prev(Vals(l), chr.def), chr)])
  /\ UNCHANGED <<link, db, started>>

\* peer_dsc_disced with a descriptor: peer_dsc_add.
DscDisced ==
  /\ Callback("dscs")
  /\ \E dsc \in proc.rest :
       LET i == FindRange(peer.svcs, proc.chr)
           j == Prev(Vals(peer.svcs[i].chrs), proc.chr) + 1
           l == peer.svcs[i].chrs[j].dscs
       IN  /\ \A a \in proc.rest : dsc.handle <= a.handle
           /\ Added(dsc, "dsc", Present(Handles(l), dsc.handle),
                    [peer EXCEPT !.svcs[i].chrs[j].dscs =
                                   Chained(@, Prev(Handles(l), dsc.handle), dsc)])
  /\ UNCHANGED <<link, db, started>>

\* BLE_HS_EDONE: on to the next procedure, unless the discovery has ended.
Done(op) ==
  /\ Callback(op) /\ proc.rest = {}
  /\ UNCHANGED <<link, db, free, started>>

Ended == peer.disc_prev_chr_val = 0

SvcsDone == Done("svcs") /\ IF Ended THEN Run(peer, NoProc) ELSE DiscChrs(peer)
ChrsDone == Done("chrs") /\ IF Ended THEN Run(peer, NoProc) ELSE DiscChrs(peer)
DscsDone == Done("dscs") /\ IF Ended THEN Run(peer, NoProc) ELSE DiscDscs(peer)

\* Any other status: an ATT error or the procedure's timeout.
ProcFails ==
  /\ link = "up" /\ proc # NoProc
  /\ Complete(peer, FALSE)
  /\ UNCHANGED <<link, db, free, started>>

-----------------------------------------------------------------------------
(* main.c.                                                                  *)

\* BLE_GAP_EVENT_CONNECT: peer_add, then peer_disc_all, which may fail to
\* start.  Either failure is only logged.
ConnectEvent(d) ==
  /\ link = "down"
  /\ link' = "up" /\ db' = d
  /\ IF peer # NoPeer \/ free.peer = 0
     THEN UNCHANGED <<peer, free, proc, started>>
     ELSE /\ free' = [free EXCEPT !.peer = @ - 1]
          /\ peer' = [svcs |-> <<>>, disc_prev_chr_val |-> 1, cur_svc |-> 0]
          /\ started' \in BOOLEAN
          /\ proc' = IF started' THEN DiscAllSvcs(d) ELSE NoProc
  /\ UNCHANGED <<answers, written, terminating>>

\* The connection breaks, or is terminated: the procedure under way fails.
LinkBreaks ==
  /\ link = "up"
  /\ link' = "broken"
  /\ IF proc = NoProc THEN UNCHANGED <<peer, proc, answers, written, terminating>>
     ELSE Complete(peer, FALSE)
  /\ UNCHANGED <<db, free, started>>

\* BLE_GAP_EVENT_DISCONNECT: peer_delete.
DisconnectEvent ==
  /\ link = "broken"
  /\ link' = "down" /\ db' = Nothing
  /\ IF peer = NoPeer THEN UNCHANGED <<peer, free>>
     ELSE /\ peer' = NoPeer
          /\ free' = [Returned(peer.svcs) EXCEPT !.peer = @ + 1]
  /\ started' = FALSE /\ answers' = <<>>
  /\ written' = 0 /\ terminating' = FALSE
  /\ UNCHANGED proc

Next ==
  \/ \E d \in Databases : ConnectEvent(d)
  \/ Respond
  \/ SvcDisced \/ ChrDisced \/ DscDisced
  \/ SvcsDone \/ ChrsDone \/ DscsDone
  \/ ProcFails
  \/ LinkBreaks
  \/ DisconnectEvent

Spec == Init /\ [][Next]_vars

\* The device answers and the host handles what it is told.
FairSpec ==
  /\ Spec
  /\ WF_vars(Respond)
  /\ WF_vars(SvcDisced \/ ChrDisced \/ DscDisced \/ SvcsDone \/ ChrsDone \/ DscsDone)

-----------------------------------------------------------------------------
(* Properties.                                                              *)

\* The variables have the types of the code's state.
TypeOK ==
  /\ link \in {"down", "up", "broken"}
  /\ db \in Databases \cup {Nothing}
  /\ peer.cur_svc \in -1 .. MaxHandle
  /\ peer.disc_prev_chr_val \in 0 .. MaxHandle
  /\ \A f \in DOMAIN free : free[f] \in Nat
  /\ proc.op \in {"none", "svcs", "chrs", "dscs"}
  /\ started \in BOOLEAN /\ terminating \in BOOLEAN
  /\ answers \in Seq(BOOLEAN)
  /\ written \in 0 .. MaxHandle

\* Every block of every pool is either free or in the lists of the peer,
\* whatever has failed: no list operation loses one, no pool runs dry over
\* many connections.
PoolsAccounted ==
  LET b == IF peer = NoPeer THEN Blocks(<<>>) ELSE Blocks(peer.svcs)
  IN  /\ free.peer + (IF peer = NoPeer THEN 0 ELSE 1) = MaxPeers
      /\ free.svc + b.svc = MaxSvcs
      /\ free.chr + b.chr = MaxChrs
      /\ free.dsc + b.dsc = MaxDscs

\* A discovery that has not answered yet has a procedure under way whose
\* callback will carry it on, with the mark that lets it; and one that has
\* answered has none.
NeverForgotten ==
  /\ started /\ answers = <<>> => proc # NoProc /\ peer.disc_prev_chr_val > 0
  /\ answers # <<>> => proc = NoProc

\* After the answer the client has subscribed to the client configuration of
\* the speedometer's characteristic in the device it is connected to, or has
\* asked for the connection to be terminated; never both, never elsewhere.
SubscribesToSpeedometer ==
  /\ answers # <<>> => (written = 0) = terminating
  /\ written # 0 =>
       \E s \in ToSet(db) : s.uuid = GATT_SVC_UUID /\
         \E c \in ToSet(s.chrs) : c.uuid = GATT_CHR_UUID /\
           [handle |-> written, uuid |-> CLT_CFG_UUID] \in ToSet(c.dscs)

\* The refinement mapping.
D == INSTANCE Discovery WITH
       database <- db,
       phase <- CASE ~started -> "idle"
                  [] started /\ answers = <<>> -> "running"
                  [] started /\ answers = <<TRUE>> -> "found"
                  [] started /\ answers = <<FALSE>> -> "failed"
                  [] OTHER -> "several answers",
       known <- IF answers = <<TRUE>> THEN peer.svcs ELSE Nothing

\* One answer per connection, a good one only with the lists complete, and
\* none after the connection is gone.
ImplementsDiscovery == D!Spec

\* Discovery ends, as long as the device answers: the client subscribes or
\* gives the connection up, or loses it.
DiscoveryEnds == started ~> (answers # <<>> \/ ~started)
=============================================================================
