--------------------------- MODULE SignalRegister ---------------------------
(***************************************************************************)
(* What the server's ComService promises: an atomic register of signals.   *)
(* A setter changes one signal in one step and leaves the others alone,    *)
(* and the sender takes a snapshot of all of them in one step.  There are  *)
(* no bits, no mutex and no intermediate states here.                      *)
(***************************************************************************)
EXTENDS Frame

CONSTANT Inputs        \* Inputs[s]: the values signal s is ever set to

VARIABLES
  value,       \* value[s]: the bits of the signal's current value
  frame        \* frame[s]: its bits in the last snapshot

vars == <<value, frame>>

Init == /\ value = [s \in Signal |-> ZeroField(s)]
        /\ frame = [s \in Signal |-> ZeroField(s)]

Set(s, v) == /\ value' = [value EXCEPT ![s] = Encode(v, s)]
             /\ UNCHANGED frame

Snapshot == /\ frame' = value
            /\ UNCHANGED value

Next == \/ \E s \in Signal : \E v \in Inputs[s] : Set(s, v)
        \/ Snapshot

Spec == Init /\ [][Next]_vars
=============================================================================
