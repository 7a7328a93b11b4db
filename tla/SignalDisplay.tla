--------------------------- MODULE SignalDisplay ---------------------------
(***************************************************************************)
(* What the client's COMService promises: the signals of the last frame,   *)
(* all replaced at once when a frame arrives, and getters that show the    *)
(* field of one signal as one frame had it.                                *)
(***************************************************************************)
EXTENDS Frame

CONSTANT Frames        \* the frames that can arrive

VARIABLES
  value,       \* value[s]: the bits of signal s in the current frame
  shown        \* what the last getter call showed

vars == <<value, shown>>

NothingShown == [sig |-> "none", bits |-> <<>>]

Init == /\ value = [s \in Signal |-> ZeroField(s)]
        /\ shown = NothingShown

Install(f) == /\ value' = AllFields(f)
              /\ UNCHANGED shown

Get(s) == /\ shown' = [sig |-> s, bits |-> value[s]]
          /\ UNCHANGED value

Next == \/ \E f \in Frames : Install(f)
        \/ \E s \in Signal : Get(s)

Spec == Init /\ [][Next]_vars
=============================================================================
