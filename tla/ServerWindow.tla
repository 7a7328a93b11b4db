---------------------------- MODULE ServerWindow ----------------------------
(***************************************************************************)
(* The server's control window (desktop/server/src/window.cpp) on top of   *)
(* its ComService.  A user event runs one handler to its end on the GUI    *)
(* thread; the handler changes the widgets and calls one or two setters,   *)
(* and the worker may copy the buffer between any two of these calls.      *)
(*                                                                         *)
(* A setter and a copy are one step each, which is what ServerComService   *)
(* is shown to implement.  The signals are kept as integers here; their    *)
(* encoding is in the mapping to SignalRegister below.                     *)
(***************************************************************************)
EXTENDS Frame, Sequences, Functions

CONSTANT Moves         \* Moves[s]: the values the user moves slider s to

Sliders  == {"speed", "temperature", "battery"}
Lights   == {"left_light", "right_light"}
TurnBoxes == {"left", "right"}
Boxes    == TurnBoxes \cup {"warning"}

\* The ranges start where the buffer does, except the temperature's.
SliderMin == [speed |-> 0, temperature |-> -60, battery |-> 0]

\* insert takes its data as uint32_t.
ASSUME WindowAssumption ==
  /\ Signal = Sliders \cup Lights
  /\ \A s \in Signal : BitSize[s] <= 32
  /\ Moves \in [Sliders -> SUBSET Int]

VARIABLES
  slider,      \* the sliders' values
  checked,     \* the state of the three check boxes
  enabled,     \* whether the user can click the two turn signal boxes
  calls,       \* setter calls the running handler has still to make
  value,       \* the value of each signal in ComService's buffer
  frame        \* the values in the frame copied last

vars == <<slider, checked, enabled, calls, value, frame>>

widgets == <<slider, checked, enabled>>

\* Mutant: the temperature is sent as an offset from its minimum.
SetterOffset(s, v) == [sig  |-> s,
                       data |-> IF s = "temperature" THEN v + 60 ELSE v]

\* A call of setSpeed, setTemperature, ..., setRightLight.
Setter(s, v) == [sig |-> s, data |-> v]
Bool(b) == IF b THEN 1 ELSE 0

\* The constructor has set the sliders to their minima and is about to call
\* setTemperature(-60).  The worker has been running since the service was
\* built, before the window, and can copy the all-zero buffer first.
Init ==
  /\ slider = SliderMin
  /\ checked = [b \in Boxes |-> FALSE]
  /\ enabled = [b \in TurnBoxes |-> TRUE]
  /\ calls = <<Setter("temperature", -60)>>
  /\ value = [s \in Signal |-> 0]
  /\ frame = [s \in Signal |-> 0]

-----------------------------------------------------------------------------
(* The event handlers, each entered from the event loop.                   *)

EventLoop == calls = <<>>

\* onSpeedChanged, onTemperatureChanged, onBatteryChanged.
MoveSlider(s, v) ==
  /\ EventLoop
  /\ slider[s] # v
  /\ slider' = [slider EXCEPT ![s] = v]
  /\ calls' = <<Setter(s, v)>>
  /\ UNCHANGED <<checked, enabled, value, frame>>

\* Mutant: switching a turn signal off does not reach the service.
ToggleOnlyOn(box, other, light) ==
  /\ EventLoop
  /\ enabled[box]
  /\ LET on == ~checked[box]
     IN  /\ checked' = [checked EXCEPT ![box] = on]
         /\ calls' = IF checked["warning"] \/ ~on THEN <<>>
                     ELSE <<Setter(light, 1)>>
         /\ enabled' = [enabled EXCEPT ![other] = ~on]
  /\ UNCHANGED <<slider, value, frame>>

\* A click on an enabled turn signal box: the setter is skipped while the
\* warning lights are on, the other box is disabled or enabled again.
ToggleTurnSignal(box, other, light) ==
  /\ EventLoop
  /\ enabled[box]
  /\ LET on == ~checked[box]
     IN  /\ checked' = [checked EXCEPT ![box] = on]
         /\ calls' = IF checked["warning"] THEN <<>>
                     ELSE <<Setter(light, Bool(on))>>
         /\ enabled' = [enabled EXCEPT ![other] = ~on]
  /\ UNCHANGED <<slider, value, frame>>

ToggleLeft  == ToggleTurnSignal("left", "right", "left_light")
ToggleRight == ToggleTurnSignal("right", "left", "right_light")

\* onWarningChecked(true).
WarningOn ==
  /\ EventLoop
  /\ ~checked["warning"]
  /\ checked' = [checked EXCEPT !["warning"] = TRUE]
  /\ calls' = <<Setter("left_light", 1), Setter("right_light", 1)>>
  /\ UNCHANGED <<slider, enabled, value, frame>>

\* What the mutants of onWarningChecked(false) share.
WarningOffWith(setters, boxes) ==
  /\ EventLoop
  /\ checked["warning"]
  /\ checked' = [checked EXCEPT !["warning"] = FALSE]
  /\ calls' = setters
  /\ enabled' = boxes
  /\ UNCHANGED <<slider, value, frame>>

\* Mutant: both lights go off, whatever the turn signal boxes say.
WarningOffDark ==
  WarningOffWith(<<Setter("left_light", 0), Setter("right_light", 0)>>,
                 [enabled EXCEPT !["right"] = ~checked["left"],
                                 !["left"]  = ~checked["right"]])

\* Mutant: both lights go off, then the checked one on again.
WarningOffBlink ==
  WarningOffWith(<<Setter("left_light", 0), Setter("right_light", 0),
                   Setter("left_light", Bool(checked["left"])),
                   Setter("right_light", Bool(checked["right"]))>>,
                 [enabled EXCEPT !["right"] = ~checked["left"],
                                 !["left"]  = ~checked["right"]])

\* Mutant: both boxes can be clicked again.
WarningOffBothEnabled ==
  WarningOffWith(<<Setter("left_light", Bool(checked["left"])),
                   Setter("right_light", Bool(checked["right"]))>>,
                 [b \in TurnBoxes |-> TRUE])

\* onWarningChecked(false): both lights and both boxes follow the turn signal
\* boxes again.
WarningOff ==
  /\ EventLoop
  /\ checked["warning"]
  /\ checked' = [checked EXCEPT !["warning"] = FALSE]
  /\ calls' = <<Setter("left_light", Bool(checked["left"])),
                Setter("right_light", Bool(checked["right"]))>>
  /\ enabled' = [enabled EXCEPT !["right"] = ~checked["left"],
                                !["left"]  = ~checked["right"]]
  /\ UNCHANGED <<slider, value, frame>>

-----------------------------------------------------------------------------
(* ComService, shared by the two threads.                                  *)

\* The handler's next setter call.
DoCall ==
  /\ calls # <<>>
  /\ value' = [value EXCEPT ![Head(calls).sig] = Head(calls).data]
  /\ calls' = Tail(calls)
  /\ UNCHANGED <<widgets, frame>>

\* The worker copies the buffer for the next frame.
Snapshot ==
  /\ frame' = value
  /\ UNCHANGED <<widgets, calls, value>>

-----------------------------------------------------------------------------

UserEvent == \/ \E s \in Sliders : \E v \in Moves[s] : MoveSlider(s, v)
             \/ ToggleLeft
             \/ ToggleRight
             \/ WarningOn
             \/ WarningOff

Next == UserEvent \/ DoCall \/ Snapshot

Spec == Init /\ [][Next]_vars

(* Handlers run to their end, and the worker of a connected server copies  *)
(* a frame every 20 or 40 ms.                                              *)
FairSpec == Spec /\ WF_vars(DoCall) /\ WF_vars(Snapshot)

-----------------------------------------------------------------------------
(* What the frame is to show: the sliders, and a light that is on when its *)
(* box or the warning box is checked.                                      *)

LightOn(box) == Bool(checked["warning"] \/ checked[box])

Shown(s) == CASE s \in Sliders       -> slider[s]
              [] s = "left_light"  -> LightOn("left")
              [] s = "right_light" -> LightOn("right")

\* The setters are only called inside the ranges of the table, and nothing
\* but a setter changes the buffer: the window is a user of the register.
SignalInputs == [s \in Signal |->
                   IF s \in Lights THEN {0, 1}
                                   ELSE Moves[s] \cup {SliderMin[s]}]

Bits(vals) == [s \in Signal |-> Encode(vals[s], s)]

Register == INSTANCE SignalRegister WITH
              value <- Bits(value), frame <- Bits(frame),
              Inputs <- SignalInputs

UsesRegister == Register!Spec

-----------------------------------------------------------------------------
(* Properties.                                                             *)

SignalValues == [Signal -> Int]

TypeOK ==
  /\ slider \in [Sliders -> Int]
  /\ checked \in [Boxes -> BOOLEAN]
  /\ enabled \in [TurnBoxes -> BOOLEAN]
  /\ calls \in Seq([sig : Signal, data : Int])
  /\ Len(calls) <= 2
  /\ value \in SignalValues
  /\ frame \in SignalValues

\* Left and right are never checked together, and each box can be clicked
\* exactly when the other one is off, whatever the warning box has been used
\* for in between: no box gets stuck on, none stays disabled for good.
TurnBoxesInterlocked ==
  /\ ~(checked["left"] /\ checked["right"])
  /\ enabled["left"] = ~checked["right"]
  /\ enabled["right"] = ~checked["left"]

\* When no handler is running, the buffer says what the widgets say: clicks
\* that skipped their setter under the warning lights are caught up with.
BufferAgrees == EventLoop => \A s \in Signal : value[s] = Shown(s)

\* No setter passes a signal through a value the widgets do not ask for: a
\* light that stays on across a click on the warning box does not go out for
\* a frame.
NoGlitch ==
  [][\A s \in Signal : value'[s] # value[s] => value'[s] = Shown(s)]_vars

\* Once the user leaves the controls alone, the frames sent agree with them.
FramesFollow ==
  <>[]EventLoop => <>[](\A s \in Signal : frame[s] = Shown(s))
=============================================================================
