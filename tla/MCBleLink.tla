------------------------------ MODULE MCBleLink ------------------------------
(* BleLink with other devices in the air: one that offers the same service  *)
(* and one that cannot be connected to.                                     *)
EXTENDS BleLink

MCHandles == {"first", "second"}

MCReports == {
  [addr |-> "other", type |-> "ADV_IND", uuids16 |-> {GATT_SVC_UUID}],
  [addr |-> "beacon", type |-> "NONCONN_IND", uuids16 |-> {}]}
=============================================================================
