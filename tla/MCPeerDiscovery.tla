--------------------------- MODULE MCPeerDiscovery ---------------------------
(* Devices for the client board to discover.  The last service's end is the  *)
(* last handle there is, whether or not anything is there.                   *)
EXTENDS PeerDiscovery

Dsc(h, u) == [handle |-> h, uuid |-> u]
Chr(d, v, u, dscs) == [def |-> d, val |-> v, uuid |-> u, dscs |-> dscs]
Svc(s, e, u, chrs) == [start |-> s, end |-> e, uuid |-> u, chrs |-> chrs]

LastHandle == 24

\* The server board: GAP, GATT and the speedometer.
Server == <<
  Svc(1, 5, "1800", <<Chr(2, 3, "2A00", <<>>), Chr(4, 5, "2A01", <<>>)>>),
  Svc(6, 9, "1801", <<Chr(7, 8, "2A05", <<Dsc(9, CLT_CFG_UUID)>>)>>),
  Svc(10, LastHandle, GATT_SVC_UUID,
      <<Chr(11, 12, GATT_CHR_UUID, <<Dsc(13, CLT_CFG_UUID)>>)>>)>>

\* Firmware with more: several descriptors, characteristics without any in a
\* range that has room, a service that is one handle long.
Rich == <<
  Svc(1, 7, GATT_SVC_UUID,
      <<Chr(2, 3, "other", <<>>),
        Chr(5, 6, GATT_CHR_UUID, <<Dsc(7, CLT_CFG_UUID)>>)>>),
  Svc(8, 8, "180A", <<>>),
  Svc(9, LastHandle, "180F",
      <<Chr(10, 11, GATT_CHR_UUID, <<Dsc(12, "2901"), Dsc(13, CLT_CFG_UUID)>>),
        Chr(14, 15, "2A19", <<>>), Chr(17, 18, "2A1A", <<>>)>>)>>

\* A device without the descriptor, and one without the service.
NoDescriptor == <<Svc(1, 4, GATT_SVC_UUID, <<Chr(2, 3, GATT_CHR_UUID, <<>>)>>)>>
NoService == <<Svc(1, 3, "1800", <<Chr(2, 3, "2A00", <<>>)>>)>>

\* Devices with one service, characteristic or descriptor too many for the
\* pools of the run.
ManySvcs == <<Svc(1, 1, "a", <<>>), Svc(2, 2, "b", <<>>), Svc(3, 3, "c", <<>>),
              Svc(4, 4, "d", <<>>)>>
ManyChrs == <<
  Svc(1, LastHandle, GATT_SVC_UUID,
      [i \in 1 .. 6 |-> Chr(2 * i, 2 * i + 1, GATT_CHR_UUID, <<>>)])>>
ManyDscs == <<
  Svc(1, LastHandle, GATT_SVC_UUID,
      <<Chr(2, 3, GATT_CHR_UUID, [i \in 1 .. 4 |-> Dsc(3 + i, CLT_CFG_UUID)])>>)>>

MCDatabases ==
  {Server, Rich, NoDescriptor, NoService, ManySvcs, ManyChrs, ManyDscs}

\* A service without characteristics, before the speedometer's.
Charless == <<
  Svc(1, 4, "1801", <<>>),
  Svc(5, LastHandle, GATT_SVC_UUID,
      <<Chr(6, 7, GATT_CHR_UUID, <<Dsc(8, CLT_CFG_UUID)>>)>>)>>

MCCharless == {Charless, Server}
=============================================================================
