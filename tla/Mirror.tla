------------------------------- MODULE Mirror -------------------------------
(***************************************************************************)
(* What either transport promises: every dashboard mirrors the server's    *)
(* buffer with a delay.  It shows one version of the buffer at a time, and *)
(* only ever goes on to a later one that the buffer has had.  A line that  *)
(* carries foreign bytes, or frames in pieces, voids the promise.          *)
(***************************************************************************)
EXTENDS Integers

CONSTANTS
  Dashboards,
  Versions,   \* the contents of the server's buffer, numbered as they come
  Mixed       \* shown when the bytes are of no one frame

VARIABLES
  source,     \* the version in the server's buffer
  shown,      \* the version in the buffer of each client
  clean       \* the line has carried whole frames and nothing else

vars == <<source, shown, clean>>

Init ==
  /\ source = 0
  /\ shown = [d \in Dashboards |-> 0]
  /\ clean = TRUE

\* A setter makes a new version.
Set(v) ==
  /\ v > source /\ source' = v
  /\ UNCHANGED <<shown, clean>>

\* A frame is installed.
Show(d, v) ==
  /\ clean => v \in shown[d] .. source
  /\ shown' = [shown EXCEPT ![d] = v]
  /\ UNCHANGED <<source, clean>>

Disturb ==
  /\ clean' = FALSE
  /\ UNCHANGED <<source, shown>>

Next == \/ \E v \in Versions : Set(v)
        \/ \E d \in Dashboards, v \in Versions \cup {Mixed} : Show(d, v)
        \/ Disturb

Spec == Init /\ [][Next]_vars
=============================================================================
