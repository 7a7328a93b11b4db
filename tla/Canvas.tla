------------------------------- MODULE Canvas -------------------------------
(***************************************************************************)
(* The dashboard (desktop/client/src/canvas.cpp and window.cpp): the GUI   *)
(* thread paints the signals of COMService with one getter call after the  *)
(* other while the worker installs frames, the draw timer asks for a       *)
(* painting, the blink timer lets the turn signals blink, and the click    *)
(* sound is started and stopped by the paintings that show them.           *)
(*                                                                         *)
(* A getter call and the installation of a frame are one step each, which  *)
(* is what ClientComService is shown to implement.  Time is counted in     *)
(* ticks; the GUI thread handles what is due before the next tick.         *)
(***************************************************************************)
EXTENDS Gauges

CONSTANTS
  Frames,          \* the frames that can arrive
  DRAW_INTERVAL,   \* ticks between two timeouts of draw_timer
  BLINK_INTERVAL,  \* ticks between two timeouts of blink_timer
  Coarse,          \* how many ticks a timeout may be early or late
  Nothing          \* where nothing has been painted

Lights   == {"left_light", "right_light"}
Readings == {"speed", "temperature", "battery"}
Signals  == Readings \cup Lights

DrawPeriods  == DRAW_INTERVAL - Coarse .. DRAW_INTERVAL + Coarse
BlinkPeriods == BLINK_INTERVAL - Coarse .. BLINK_INTERVAL + Coarse
DrawMax      == DRAW_INTERVAL + Coarse
BlinkMax     == BLINK_INTERVAL + Coarse

ASSUME CanvasAssumption ==
  /\ Frames \subseteq [Signals -> Int]
  /\ Coarse \in Nat
  /\ DRAW_INTERVAL \in Nat /\ DRAW_INTERVAL > Coarse
  /\ BLINK_INTERVAL \in Nat /\ BLINK_INTERVAL > Coarse

VARIABLES
  value,       \* the values of the signals in COMService::buffer
  status,      \* COMService::status
  blink_on,
  drawIn,      \* ticks until draw_timer is due
  blinkIn,     \* ticks until blink_timer is due
  repaint,     \* whether Qt owes the canvas a paintEvent
  minimised,   \* whether the window is minimised: Qt delays the paintEvent
  pc,          \* "idle", or the next access of the paintEvent under way
  picture,     \* what has been painted
  player,      \* clickPlayer: "playing" or "stopped"
  still,       \* ticks since what is to be shown last changed
  steady       \* ticks since what is to be heard last changed

service == <<value, status>>
timers  == <<blink_on, drawIn, blinkIn>>
ages    == <<still, steady>>
vars == <<service, timers, repaint, minimised, pc, picture, player, ages>>

Zero    == [s \in Signals |-> 0]
Blank == [temperature |-> Nothing, battery |-> Nothing, needle |-> Nothing,
          left |-> FALSE, right |-> FALSE, label |-> Nothing, error |-> FALSE]

\* app.exec(): the window has just been shown, both timers run, and so does
\* the worker, since before the window was built.
Init ==
  /\ value = Zero
  /\ status = FALSE
  /\ blink_on = FALSE
  /\ drawIn = DRAW_INTERVAL
  /\ blinkIn = BLINK_INTERVAL
  /\ repaint = TRUE
  /\ minimised = FALSE
  /\ pc = "idle"
  /\ picture = Blank
  /\ player = "stopped"
  /\ still = 0
  /\ steady = 0

On(light)  == value[light] # 0
AnyLight   == On("left_light") \/ On("right_light")

-----------------------------------------------------------------------------
(* The worker, at any time.                                                *)

Install(f) ==
  /\ f # value
  /\ value' = f
  /\ still' = 0
  /\ steady' = IF \A light \in Lights : f[light] = value[light] THEN steady ELSE 0
  /\ UNCHANGED <<status, timers, repaint, minimised, pc, picture, player>>

SetStatus ==
  /\ status' = ~status
  /\ still' = 0
  /\ UNCHANGED <<value, timers, repaint, minimised, pc, picture, player, steady>>

-----------------------------------------------------------------------------
(* paintEvent: the accesses to the service, in the order of the calls.     *)

\* Qt erases the widget and calls paintEvent.
Paint ==
  /\ pc = "idle" /\ repaint /\ ~minimised
  /\ pc' = "temperature"
  /\ repaint' = FALSE
  /\ picture' = Blank
  /\ UNCHANGED <<service, timers, minimised, player, ages>>

\* A drawing function: what it adds to the picture, and what follows.
Draw(part, what, next) ==
  /\ pc' = next
  /\ picture' = [picture EXCEPT ![part] = what]
  /\ UNCHANGED <<service, timers, repaint, minimised, ages>>

DrawTemperature ==
  /\ pc = "temperature"
  /\ LET t == value["temperature"]
     IN  Draw("temperature", [text |-> t, colour |-> TemperatureColour(t)], "battery")
  /\ UNCHANGED player

DrawBattery ==
  /\ pc = "battery"
  /\ LET b == value["battery"]
     IN  Draw("battery", [text |-> b, colour |-> BatteryColour(b),
                          fill |-> FillHeight(b)], "needle")
  /\ UNCHANGED player

\* drawSpeedometerNeedle, on a scale that is the same in every painting; the
\* turn signals come next only in the bright phase.
DrawNeedle ==
  /\ pc = "needle"
  /\ Draw("needle", NeedleAngle(value["speed"]), IF blink_on THEN "left" ELSE "status")
  /\ UNCHANGED player

DrawLeft ==
  /\ pc = "left"
  /\ Draw("left", On("left_light"), "right")
  /\ UNCHANGED player

\* Mutant: the sound is not stopped.
DrawRightNoStop ==
  /\ pc = "right"
  /\ Draw("right", On("right_light"), "status")
  /\ player' = IF picture.left \/ On("right_light") THEN "playing" ELSE player

\* The right arrow, and the click sound: started if it is not playing, also
\* when it has come to its end, or stopped.
DrawRight ==
  /\ pc = "right"
  /\ Draw("right", On("right_light"), "status")
  /\ player' = IF picture.left \/ On("right_light") THEN "playing" ELSE "stopped"

\* get_status decides between the speed and the connection error.
DrawStatus ==
  /\ pc = "status"
  /\ Draw("error", ~status, IF status THEN "label" ELSE "idle")
  /\ UNCHANGED player

\* drawSpeedomterIcon calls get_speed again.
DrawLabel ==
  /\ pc = "label"
  /\ Draw("label", value["speed"], "idle")
  /\ UNCHANGED player

-----------------------------------------------------------------------------
(* The event loop of the GUI thread between two paintings.                 *)

\* Mutant: the timeout is not connected to update().
DrawTimeoutIgnored ==
  /\ pc = "idle" /\ drawIn = 0
  /\ drawIn' \in DrawPeriods
  /\ UNCHANGED <<service, blink_on, blinkIn, repaint, minimised, pc, picture, player, ages>>

DrawTimeout ==
  /\ pc = "idle" /\ drawIn = 0
  /\ drawIn' \in DrawPeriods
  /\ repaint' = TRUE
  /\ UNCHANGED <<service, blink_on, blinkIn, minimised, pc, picture, player, ages>>

\* Mutant: the first timeout lights the arrows for good.
ToggleBlinkOnce ==
  /\ pc = "idle" /\ blinkIn = 0
  /\ blinkIn' \in BlinkPeriods
  /\ blink_on' = TRUE
  /\ repaint' = TRUE
  /\ UNCHANGED <<service, drawIn, minimised, pc, picture, player, ages>>

\* toggle_blink.
ToggleBlink ==
  /\ pc = "idle" /\ blinkIn = 0
  /\ blinkIn' \in BlinkPeriods
  /\ blink_on' = ~blink_on
  /\ repaint' = TRUE
  /\ UNCHANGED <<service, drawIn, minimised, pc, picture, player, ages>>

\* sound.wav has come to its end.
MediaEnds ==
  /\ pc = "idle" /\ player = "playing"
  /\ player' = "stopped"
  /\ steady' = 0
  /\ UNCHANGED <<service, timers, repaint, minimised, pc, picture, still>>

\* The user minimises the window or shows it again.
Minimise ==
  /\ pc = "idle"
  /\ minimised' = ~minimised
  /\ repaint' = (repaint \/ minimised)
  /\ still' = 0 /\ steady' = 0
  /\ UNCHANGED <<service, timers, pc, picture, player>>

Later(age, bound) == IF age < bound THEN age + 1 ELSE age

StillBound  == DrawMax
SteadyBound == DrawMax + BlinkMax

Tick ==
  /\ pc = "idle" /\ drawIn > 0 /\ blinkIn > 0 /\ (repaint => minimised)
  /\ drawIn' = drawIn - 1
  /\ blinkIn' = blinkIn - 1
  /\ still' = Later(still, StillBound)
  /\ steady' = Later(steady, SteadyBound)
  /\ UNCHANGED <<service, blink_on, repaint, minimised, pc, picture, player>>

-----------------------------------------------------------------------------

PaintStep == \/ Paint \/ DrawTemperature \/ DrawBattery \/ DrawNeedle
             \/ DrawLeft \/ DrawRight \/ DrawStatus \/ DrawLabel

Next == \/ \E f \in Frames : Install(f)
        \/ SetStatus
        \/ PaintStep
        \/ DrawTimeout
        \/ ToggleBlink
        \/ MediaEnds
        \/ Minimise
        \/ Tick

Spec == Init /\ [][Next]_vars

(* The GUI thread handles its events and time passes.  Nothing makes       *)
(* frames arrive or users act.                                             *)
Fairness == /\ WF_vars(PaintStep) /\ WF_vars(DrawTimeout)
            /\ WF_vars(ToggleBlink) /\ WF_vars(Tick)

FairSpec == Spec /\ Fairness

-----------------------------------------------------------------------------
(* Properties.                                                             *)

TypeOK ==
  /\ value \in [Signals -> Int]
  /\ {status, blink_on, repaint, minimised} \subseteq BOOLEAN
  /\ drawIn \in 0 .. DrawMax
  /\ blinkIn \in 0 .. BlinkMax
  /\ pc \in {"idle", "temperature", "battery", "needle", "left", "right",
             "status", "label"}
  /\ DOMAIN picture = DOMAIN Blank
  /\ {picture.left, picture.right, picture.error} \subseteq BOOLEAN
  /\ player \in {"playing", "stopped"}
  /\ still \in 0 .. StillBound
  /\ steady \in 0 .. SteadyBound

\* Nothing is due: the picture on the screen is complete.
Settled == pc = "idle" /\ ~repaint /\ drawIn > 0 /\ blinkIn > 0

\* A painting may mix several frames, needle and number, or one arrow and the
\* other.  No such picture lasts: once nothing has changed for the longest
\* time between two timeouts of draw_timer, all parts of it show the frame in
\* the buffer and the state of the connection, the needle on the scale too.
PictureCurrent ==
  Settled /\ ~minimised /\ still = StillBound =>
    /\ picture.temperature.text = value["temperature"]
    /\ picture.battery.text = value["battery"]
    /\ PointsAt(picture.needle, value["speed"])
    /\ IF status THEN picture.label = value["speed"] ELSE picture.error
    /\ picture.left  = (blink_on /\ On("left_light"))
    /\ picture.right = (blink_on /\ On("right_light"))

\* The click is heard exactly while a turn signal is on, with a delay of at
\* most the longest draw and the longest blink interval: only a painting in
\* the bright phase starts or stops it.  While the window is minimised
\* nothing is painted, and a sound goes on whatever the lights do.
ClickFollows ==
  Settled /\ ~minimised /\ steady = SteadyBound =>
    (player = "playing") = AnyLight

\* An arrow whose light stays on keeps blinking.
ArrowsBlink ==
  <>[](~minimised /\ On("left_light")) =>
    /\ []<>(Settled /\ picture.left)
    /\ []<>(Settled /\ ~picture.left)
=============================================================================
