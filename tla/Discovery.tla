------------------------------ MODULE Discovery ------------------------------
(***************************************************************************)
(* What peer_disc_all promises its caller: one answer per connection, and   *)
(* a good one only with everything the other side has to offer.             *)
(***************************************************************************)
CONSTANTS Databases, Nothing

VARIABLES
  database,   \* what the connected device offers, Nothing without a connection
  phase,      \* "idle", "running", "found" or "failed"
  known       \* what the caller may use

vars == <<database, phase, known>>

Init == database = Nothing /\ phase = "idle" /\ known = Nothing

\* A connection, on which discovery may fail to start.
Begin(d) ==
  /\ database = Nothing
  /\ database' = d
  /\ phase' \in {"idle", "running"}
  /\ UNCHANGED known

Find ==
  /\ phase = "running"
  /\ phase' = "found"
  /\ known' = database
  /\ UNCHANGED database

GiveUp ==
  /\ phase = "running"
  /\ phase' = "failed"
  /\ UNCHANGED <<database, known>>

\* The connection ends; a discovery that runs has been given up before.
End ==
  /\ database # Nothing
  /\ phase # "running"
  /\ database' = Nothing /\ phase' = "idle" /\ known' = Nothing

Next == (\E d \in Databases : Begin(d)) \/ Find \/ GiveUp \/ End

Spec == Init /\ [][Next]_vars
=============================================================================
