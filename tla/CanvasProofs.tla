---------------------------- MODULE CanvasProofs ----------------------------
(***************************************************************************)
(* Proofs about Canvas, for every set of frames and every pair of timer    *)
(* intervals: the two bounds on how long the picture and the sound lag     *)
(* behind the buffer; and about the scale of Gauges.                       *)
(***************************************************************************)
EXTENDS Canvas, TLAPS

\* What the painting under way has painted is right, and so is all of the
\* picture when none is under way.
PartsRight ==
  /\ pc # "temperature" => picture.temperature.text = value["temperature"]
  /\ pc \notin {"temperature", "battery"} => picture.battery.text = value["battery"]
  /\ pc \notin {"temperature", "battery", "needle"} =>
       picture.needle = NeedleAngle(value["speed"])
  /\ pc = "right" => picture.left = On("left_light")
  /\ pc \in {"status", "label", "idle"} =>
       /\ picture.left  = (blink_on /\ On("left_light"))
       /\ picture.right = (blink_on /\ On("right_light"))
  /\ pc = "label" => status
  /\ pc = "idle" => IF status THEN picture.label = value["speed"] ELSE picture.error

\* A painting begins with both arrows erased and paints them only in the
\* bright phase.
PhaseInv ==
  /\ pc \in {"temperature", "battery", "needle"} => ~picture.left /\ ~picture.right
  /\ pc \in {"left", "right"} => blink_on

\* What is wrong with the picture is put right by a painting Qt owes, or by
\* the next timeout of draw_timer.
PictureInv == \/ repaint
              \/ still + drawIn <= StillBound
              \/ PartsRight

LeftRead == pc = "right" => picture.left = On("left_light")

\* What is wrong with the sound is put right by the painting under way, by a
\* painting Qt owes in the bright phase, by the next timeout of draw_timer if
\* the phase is bright, or else by the one of blink_timer.
ClickInv ==
  \/ minimised
  \/ (player = "playing") = AnyLight /\ LeftRead
  \/ blink_on /\ pc \in {"temperature", "battery", "needle", "left"}
  \/ pc = "right" /\ LeftRead
  \/ repaint /\ blink_on /\ (blinkIn > 0 \/ steady <= DrawMax)
  \/ blink_on /\ steady + drawIn <= DrawMax
  \/ ~blink_on /\ steady + blinkIn <= SteadyBound

IInv == TypeOK /\ PhaseInv /\ PictureInv /\ ClickInv

-----------------------------------------------------------------------------

\* The periods of the two timers and the bounds derived from them are numbers.
LEMMA Periods ==
  /\ DrawMax \in Nat \ {0} /\ DrawPeriods \subseteq 1 .. DrawMax
  /\ BlinkMax \in Nat \ {0} /\ BlinkPeriods \subseteq 1 .. BlinkMax
  /\ DRAW_INTERVAL \in 0 .. DrawMax /\ BLINK_INTERVAL \in 0 .. BlinkMax
  /\ StillBound = DrawMax /\ SteadyBound = DrawMax + BlinkMax
  BY CanvasAssumption
     DEF DrawMax, BlinkMax, DrawPeriods, BlinkPeriods, StillBound, SteadyBound

\* The parts of a picture, by name.
LEMMA Parts ==
  /\ DOMAIN Blank = {"temperature", "battery", "needle", "left", "right",
                     "label", "error"}
  /\ ~Blank.left /\ ~Blank.right /\ ~Blank.error
  /\ {Blank.left, Blank.right, Blank.error} \subseteq BOOLEAN
  BY DEF Blank

\* A drawing function changes its own part only.
LEMMA Drawn ==
  ASSUME TypeOK, NEW part \in DOMAIN Blank, NEW what, NEW next,
         Draw(part, what, next)
  PROVE  /\ DOMAIN picture' = DOMAIN Blank
         /\ picture'[part] = what
         /\ \A q \in DOMAIN Blank : q # part => picture'[q] = picture[q]
         /\ pc' = next
         /\ UNCHANGED <<value, status, blink_on, drawIn, blinkIn, repaint,
                        minimised, still, steady>>
  BY DEF Draw, TypeOK, service, timers, ages

\* A sum of numbers that have bounds.
LEMMA SumBound ==
  ASSUME NEW a \in Int, NEW b \in Int, NEW c \in Int, NEW d \in Int,
         a <= c, b <= d
  PROVE  a + b <= c + d
  OBVIOUS

\* An age counts up to its bound and stays there.
LEMMA LaterBounds ==
  ASSUME NEW bound \in Nat, NEW age \in 0 .. bound
  PROVE  Later(age, bound) \in 0 .. bound /\ Later(age, bound) <= age + 1
  BY DEF Later

-----------------------------------------------------------------------------

\* The window as it is constructed.
LEMMA InitIInv == Init => IInv
  <1> SUFFICES ASSUME Init PROVE IInv
    OBVIOUS
  <1>1. Zero \in [Signals -> Int]
    BY DEF Zero
  <1>2. TypeOK
    <2>1. /\ drawIn \in 0 .. DrawMax /\ blinkIn \in 0 .. BlinkMax
          /\ still \in 0 .. StillBound /\ steady \in 0 .. SteadyBound
      BY Periods DEF Init
    <2>2. /\ {status, blink_on, repaint, minimised} \subseteq BOOLEAN
          /\ {picture.left, picture.right, picture.error} \subseteq BOOLEAN
      BY Parts, Zenon DEF Init
    <2>3. QED
      BY <1>1, <2>1, <2>2 DEF Init, TypeOK
  <1>3. PhaseInv /\ PictureInv
    BY DEF Init, PhaseInv, PictureInv
  <1>4. ClickInv
    BY Periods DEF Init, ClickInv
  <1>5. QED
    BY <1>2, <1>3, <1>4 DEF IInv

\* New values arrive while a picture may be half painted.
LEMMA InstallStep ==
  ASSUME IInv, NEW f \in Frames, Install(f)
  PROVE  IInv'
  <1> USE DEF Install, timers
  <1>1. f \in [Signals -> Int]
    BY CanvasAssumption
  <1>2. TypeOK'
    BY <1>1, Periods DEF IInv, TypeOK
  <1>3. PhaseInv'
    BY DEF IInv, PhaseInv
  <1>4. still' = 0 /\ drawIn' = drawIn /\ drawIn \in 0 .. StillBound
    BY Periods DEF IInv, TypeOK
  <1>5. PictureInv'
    BY <1>4 DEF PictureInv
  <1>6. ClickInv'
    <2>1. CASE \A light \in Lights : f[light] = value[light]
      <3>1. \A light \in Lights : On(light)' = On(light)
        BY <2>1 DEF On
      <3>2. AnyLight' = AnyLight /\ LeftRead' = LeftRead
        BY <3>1 DEF AnyLight, LeftRead, Lights
      <3>3. steady' = steady
        BY <2>1
      <3>4. QED
        BY <3>2, <3>3 DEF IInv, ClickInv
    <2>2. CASE ~ \A light \in Lights : f[light] = value[light]
      BY <2>2, Periods DEF IInv, TypeOK, ClickInv
    <2>3. QED
      BY <2>1, <2>2
  <1>7. QED
    BY <1>2, <1>3, <1>5, <1>6 DEF IInv

\* The status may change under the painter.
LEMMA SetStatusStep ==
  ASSUME IInv, SetStatus
  PROVE  IInv'
  <1> USE DEF SetStatus, timers
  <1>1. TypeOK'
    BY Periods DEF IInv, TypeOK
  <1>2. PhaseInv'
    BY DEF IInv, PhaseInv
  <1>3. PictureInv'
    BY Periods DEF IInv, TypeOK, PictureInv
  <1>4. ClickInv'
    BY DEF IInv, ClickInv, AnyLight, LeftRead, On
  <1>5. QED
    BY <1>1, <1>2, <1>3, <1>4 DEF IInv

\* A picture begins with an erased widget.
LEMMA PaintBegins ==
  ASSUME IInv, Paint
  PROVE  IInv'
  <1> USE DEF Paint, service, timers, ages
  <1>1. TypeOK'
    BY Parts DEF IInv, TypeOK
  <1>2. PhaseInv'
    BY Parts DEF PhaseInv
  <1>3. PictureInv'
    BY DEF PictureInv, PartsRight
  <1>4. ClickInv'
    BY DEF IInv, ClickInv, AnyLight, LeftRead, On
  <1>5. QED
    BY <1>1, <1>2, <1>3, <1>4 DEF IInv

\* The temperature is drawn first, from the buffer as it is now.
LEMMA DrawTemperatureStep ==
  ASSUME IInv, DrawTemperature
  PROVE  IInv'
  <1> DEFINE t == value["temperature"]
             what == [text |-> t, colour |-> TemperatureColour(t)]
  <1>1. Draw("temperature", what, "battery") /\ pc = "temperature" /\ player' = player
    BY DEF DrawTemperature
  <1>2. what.text = t
    OBVIOUS
  <1> HIDE DEF what
  <1>3. /\ DOMAIN picture' = DOMAIN Blank
        /\ picture'.temperature = what
        /\ \A q \in DOMAIN Blank : q # "temperature" => picture'[q] = picture[q]
        /\ pc' = "battery"
        /\ UNCHANGED <<value, status, blink_on, drawIn, blinkIn, repaint,
                       minimised, still, steady>>
    BY <1>1, Drawn, Parts DEF IInv
  <1>4. TypeOK'
    BY <1>1, <1>3, Parts DEF IInv, TypeOK
  <1>5. PhaseInv'
    BY <1>1, <1>3, Parts DEF IInv, PhaseInv
  <1>6. PictureInv'
    BY <1>1, <1>2, <1>3, Parts DEF IInv, PictureInv, PartsRight
  <1>7. ClickInv'
    BY <1>1, <1>3 DEF IInv, ClickInv, AnyLight, LeftRead, On
  <1>8. QED
    BY <1>4, <1>5, <1>6, <1>7 DEF IInv

\* The battery follows.
LEMMA DrawBatteryStep ==
  ASSUME IInv, DrawBattery
  PROVE  IInv'
  <1> DEFINE b == value["battery"]
             what == [text |-> b, colour |-> BatteryColour(b),
                      fill |-> FillHeight(b)]
  <1>1. Draw("battery", what, "needle") /\ pc = "battery" /\ player' = player
    BY DEF DrawBattery
  <1>2. what.text = b
    OBVIOUS
  <1> HIDE DEF what
  <1>3. /\ DOMAIN picture' = DOMAIN Blank
        /\ picture'.battery = what
        /\ \A q \in DOMAIN Blank : q # "battery" => picture'[q] = picture[q]
        /\ pc' = "needle"
        /\ UNCHANGED <<value, status, blink_on, drawIn, blinkIn, repaint,
                       minimised, still, steady>>
    BY <1>1, Drawn, Parts DEF IInv
  <1>4. TypeOK'
    BY <1>1, <1>3, Parts DEF IInv, TypeOK
  <1>5. PhaseInv'
    BY <1>1, <1>3, Parts DEF IInv, PhaseInv
  <1>6. PictureInv'
    BY <1>1, <1>2, <1>3, Parts DEF IInv, PictureInv, PartsRight
  <1>7. ClickInv'
    BY <1>1, <1>3 DEF IInv, ClickInv, AnyLight, LeftRead, On
  <1>8. QED
    BY <1>4, <1>5, <1>6, <1>7 DEF IInv

\* The needle is turned to the speed.
LEMMA DrawNeedleStep ==
  ASSUME IInv, DrawNeedle
  PROVE  IInv'
  <1> DEFINE next == IF blink_on THEN "left" ELSE "status"
  <1>1. /\ Draw("needle", NeedleAngle(value["speed"]), next)
        /\ pc = "needle" /\ player' = player
    BY DEF DrawNeedle
  <1>2. /\ DOMAIN picture' = DOMAIN Blank
        /\ picture'.needle = NeedleAngle(value["speed"])
        /\ \A q \in DOMAIN Blank : q # "needle" => picture'[q] = picture[q]
        /\ pc' = next
        /\ UNCHANGED <<value, status, blink_on, drawIn, blinkIn, repaint,
                       minimised, still, steady>>
    BY <1>1, Drawn, Parts DEF IInv
  <1>3. TypeOK'
    BY <1>1, <1>2, Parts DEF IInv, TypeOK
  <1>4. PhaseInv'
    BY <1>1, <1>2, Parts DEF IInv, PhaseInv
  <1>5. /\ picture'.temperature = picture.temperature
        /\ picture'.battery = picture.battery
        /\ picture'.left = picture.left /\ picture'.right = picture.right
    BY <1>2, Parts
  <1>6. PictureInv'
    <2>1. CASE PartsRight
      <3>1. CASE blink_on
        BY <1>1, <1>2, <1>5, <2>1, <3>1 DEF PictureInv, PartsRight, On
      <3>2. CASE ~blink_on
        <4>1. ~picture'.left /\ ~picture'.right
          BY <1>1, <1>5 DEF IInv, PhaseInv
        <4>2. picture.left \in BOOLEAN /\ picture.right \in BOOLEAN
          BY DEF IInv, TypeOK
        <4>3. QED
          BY <1>1, <1>2, <1>5, <2>1, <3>2, <4>1, <4>2 DEF PictureInv, PartsRight
      <3>3. QED
        BY <3>1, <3>2
    <2>2. CASE ~PartsRight
      BY <1>2, <2>2 DEF IInv, PictureInv
    <2>3. QED
      BY <2>1, <2>2
  <1>7. ClickInv'
    BY <1>1, <1>2 DEF IInv, ClickInv, AnyLight, LeftRead, On
  <1>8. QED
    BY <1>3, <1>4, <1>6, <1>7 DEF IInv

\* The left light is drawn when it is on and the blink is lit.
LEMMA DrawLeftStep ==
  ASSUME IInv, DrawLeft
  PROVE  IInv'
  <1>1. Draw("left", On("left_light"), "right") /\ pc = "left" /\ player' = player
    BY DEF DrawLeft
  <1>2. /\ DOMAIN picture' = DOMAIN Blank
        /\ picture'.left = On("left_light")
        /\ \A q \in DOMAIN Blank : q # "left" => picture'[q] = picture[q]
        /\ pc' = "right"
        /\ UNCHANGED <<value, status, blink_on, drawIn, blinkIn, repaint,
                       minimised, still, steady>>
    BY <1>1, Drawn, Parts DEF IInv
  <1>3. On("left_light") \in BOOLEAN /\ On("left_light")' = On("left_light")
    BY <1>2 DEF On
  <1>4. TypeOK'
    BY <1>1, <1>2, <1>3, Parts DEF IInv, TypeOK
  <1>5. PhaseInv'
    BY <1>1, <1>2, Parts DEF IInv, PhaseInv
  <1>6. PictureInv'
    BY <1>1, <1>2, <1>3, Parts DEF IInv, PictureInv, PartsRight
  <1>7. LeftRead'
    BY <1>2, <1>3 DEF LeftRead
  <1>8. ClickInv'
    BY <1>2, <1>7 DEF ClickInv
  <1>9. QED
    BY <1>4, <1>5, <1>6, <1>8 DEF IInv

\* The right light, and the sound of the click with it.
LEMMA DrawRightStep ==
  ASSUME IInv, DrawRight
  PROVE  IInv'
  <1>1. Draw("right", On("right_light"), "status") /\ pc = "right"
    BY DEF DrawRight
  <1>2. /\ DOMAIN picture' = DOMAIN Blank
        /\ picture'.right = On("right_light")
        /\ \A q \in DOMAIN Blank : q # "right" => picture'[q] = picture[q]
        /\ pc' = "status"
        /\ UNCHANGED <<value, status, blink_on, drawIn, blinkIn, repaint,
                       minimised, still, steady>>
    BY <1>1, Drawn, Parts DEF IInv
  <1>3. /\ On("left_light") \in BOOLEAN /\ On("right_light") \in BOOLEAN
        /\ On("left_light")' = On("left_light")
        /\ On("right_light")' = On("right_light")
        /\ AnyLight' = AnyLight
    BY <1>2 DEF On, AnyLight
  <1>4. blink_on /\ blink_on'
    BY <1>1, <1>2 DEF IInv, PhaseInv
  <1>5. TypeOK'
    BY <1>1, <1>2, <1>3, Parts DEF IInv, TypeOK, DrawRight
  <1>6. PhaseInv'
    BY <1>2 DEF PhaseInv
  <1>7. PictureInv'
    BY <1>1, <1>2, <1>3, <1>4, Parts DEF IInv, PictureInv, PartsRight
  <1>8. ClickInv'
    <2>1. CASE LeftRead
      <3>1. player' = IF AnyLight THEN "playing" ELSE "stopped"
        BY <1>1, <2>1 DEF DrawRight, LeftRead, AnyLight
      <3>2. (player' = "playing") = AnyLight'
        BY <1>3, <3>1 DEF AnyLight
      <3>3. LeftRead'
        BY <1>2 DEF LeftRead
      <3>4. QED
        BY <3>2, <3>3 DEF ClickInv
    <2>2. CASE ~LeftRead
      BY <1>1, <1>2, <2>2 DEF IInv, ClickInv
    <2>3. QED
      BY <2>1, <2>2
  <1>9. QED
    BY <1>5, <1>6, <1>7, <1>8 DEF IInv

\* The error is drawn in place of the label when there is no connection.
LEMMA DrawStatusStep ==
  ASSUME IInv, DrawStatus
  PROVE  IInv'
  <1> DEFINE next == IF status THEN "label" ELSE "idle"
  <1>1. Draw("error", ~status, next) /\ pc = "status" /\ player' = player
    BY DEF DrawStatus
  <1>2. /\ DOMAIN picture' = DOMAIN Blank
        /\ picture'.error = ~status
        /\ \A q \in DOMAIN Blank : q # "error" => picture'[q] = picture[q]
        /\ pc' = next
        /\ UNCHANGED <<value, status, blink_on, drawIn, blinkIn, repaint,
                       minimised, still, steady>>
    BY <1>1, Drawn, Parts DEF IInv
  <1>3. TypeOK'
    BY <1>1, <1>2, Parts DEF IInv, TypeOK
  <1>4. PhaseInv'
    BY <1>2 DEF PhaseInv
  <1>5. PictureInv'
    BY <1>1, <1>2, Parts DEF IInv, PictureInv, PartsRight, On
  <1>6. ClickInv'
    BY <1>1, <1>2 DEF IInv, ClickInv, AnyLight, LeftRead, On
  <1>7. QED
    BY <1>3, <1>4, <1>5, <1>6 DEF IInv

\* The label is the last part of a picture.
LEMMA DrawLabelStep ==
  ASSUME IInv, DrawLabel
  PROVE  IInv'
  <1>1. Draw("label", value["speed"], "idle") /\ pc = "label" /\ player' = player
    BY DEF DrawLabel
  <1>2. /\ DOMAIN picture' = DOMAIN Blank
        /\ picture'.label = value["speed"]
        /\ \A q \in DOMAIN Blank : q # "label" => picture'[q] = picture[q]
        /\ pc' = "idle"
        /\ UNCHANGED <<value, status, blink_on, drawIn, blinkIn, repaint,
                       minimised, still, steady>>
    BY <1>1, Drawn, Parts DEF IInv
  <1>3. TypeOK'
    BY <1>1, <1>2, Parts DEF IInv, TypeOK
  <1>4. PhaseInv'
    BY <1>2 DEF PhaseInv
  <1>5. PictureInv'
    BY <1>1, <1>2, Parts DEF IInv, PictureInv, PartsRight, On
  <1>6. ClickInv'
    BY <1>1, <1>2 DEF IInv, ClickInv, AnyLight, LeftRead, On
  <1>7. QED
    BY <1>3, <1>4, <1>5, <1>6 DEF IInv

\* The drawing timer asks for a picture and runs again.
LEMMA DrawTimeoutStep ==
  ASSUME IInv, DrawTimeout
  PROVE  IInv'
  <1> USE DEF DrawTimeout, service, ages
  <1>1. TypeOK'
    BY Periods DEF IInv, TypeOK
  <1>2. PhaseInv' /\ PictureInv'
    BY DEF IInv, PhaseInv, PictureInv
  <1>3. ClickInv'
    <2>1. AnyLight' = AnyLight /\ LeftRead'
      BY DEF AnyLight, LeftRead, On
    <2>2. CASE blink_on /\ steady + drawIn <= DrawMax
      BY <2>2 DEF IInv, TypeOK, ClickInv
    <2>3. CASE ~(blink_on /\ steady + drawIn <= DrawMax)
      BY <2>1, <2>3 DEF IInv, ClickInv
    <2>4. QED
      BY <2>2, <2>3
  <1>4. QED
    BY <1>1, <1>2, <1>3 DEF IInv

\* The phase changes: a painting is owed if it is bright now, and the other
\* one comes in time if it is dark.
LEMMA ToggleBlinkStep ==
  ASSUME IInv, ToggleBlink
  PROVE  IInv'
  <1>1. blinkIn' \in 1 .. BlinkMax
    BY Periods DEF ToggleBlink
  <1>2. TypeOK'
    BY <1>1, Periods DEF IInv, TypeOK, ToggleBlink, service, ages
  <1>3. PhaseInv' /\ PictureInv'
    BY DEF PhaseInv, PictureInv, ToggleBlink
  <1>4. ClickInv'
    <2>1. AnyLight' = AnyLight /\ LeftRead'
      BY DEF AnyLight, LeftRead, On, ToggleBlink, service
    <2>2. CASE blink_on
      <3>1. CASE steady <= DrawMax
        <4>1. ~blink_on' /\ steady' = steady
          BY <2>2 DEF ToggleBlink, ages
        <4>2. steady + blinkIn' <= SteadyBound
          <5>1. steady \in Int /\ blinkIn' \in Int /\ blinkIn' <= BlinkMax
            BY <1>1, Periods DEF IInv, TypeOK
          <5>2. SteadyBound = DrawMax + BlinkMax /\ DrawMax \in Int /\ BlinkMax \in Int
            BY Periods
          <5>3. QED
            BY <3>1, <5>1, <5>2, SumBound
        <4>3. QED
          BY <4>1, <4>2 DEF ClickInv
      <3>2. CASE ~(steady <= DrawMax)
        <4>1. ~(steady + drawIn <= DrawMax) /\ blinkIn = 0
          BY <3>2, Periods DEF IInv, TypeOK, ToggleBlink
        <4>2. ~(blinkIn > 0 \/ steady <= DrawMax) /\ pc = "idle"
          BY <3>2, <4>1 DEF ToggleBlink
        <4>3. minimised \/ (player = "playing") = AnyLight
          BY <2>2, <4>1, <4>2 DEF IInv, ClickInv
        <4>4. QED
          BY <2>1, <4>3 DEF ClickInv, ToggleBlink
      <3>3. QED
        BY <3>1, <3>2
    <2>3. CASE ~blink_on
      <3>1. repaint' /\ blink_on'
        BY <2>3 DEF ToggleBlink
      <3>2. blinkIn' > 0
        BY <1>1, Periods
      <3>3. QED
        BY <3>1, <3>2 DEF ClickInv
    <2>4. QED
      BY <2>2, <2>3
  <1>5. QED
    BY <1>2, <1>3, <1>4 DEF IInv

\* The end of the sound leaves the picture alone.
LEMMA MediaEndsStep ==
  ASSUME IInv, MediaEnds
  PROVE  IInv'
  <1> USE DEF MediaEnds, service, timers
  <1>1. TypeOK'
    BY Periods DEF IInv, TypeOK
  <1>2. PhaseInv' /\ PictureInv'
    BY DEF IInv, PhaseInv, PictureInv, PartsRight, On
  <1>3. ClickInv'
    BY Periods DEF IInv, TypeOK, ClickInv
  <1>4. QED
    BY <1>1, <1>2, <1>3 DEF IInv

\* A window may be minimised and shown again.
LEMMA MinimiseStep ==
  ASSUME IInv, Minimise
  PROVE  IInv'
  <1> USE DEF Minimise, service, timers
  <1>1. TypeOK'
    BY Periods DEF IInv, TypeOK
  <1>2. PhaseInv'
    BY DEF PhaseInv
  <1>3. PictureInv'
    BY Periods DEF IInv, TypeOK, PictureInv
  <1>4. ClickInv'
    BY Periods DEF IInv, TypeOK, ClickInv
  <1>5. QED
    BY <1>1, <1>2, <1>3, <1>4 DEF IInv

\* Time passes: what the timers lose the ages gain.
LEMMA TickStep ==
  ASSUME IInv, Tick
  PROVE  IInv'
  <1> USE DEF Tick, service
  <1>1. /\ still' \in 0 .. StillBound /\ still' <= still + 1
        /\ steady' \in 0 .. SteadyBound /\ steady' <= steady + 1
    <2>1. StillBound \in Nat /\ SteadyBound \in Nat
      BY Periods
    <2>2. QED
      BY <2>1, LaterBounds DEF IInv, TypeOK
  <1>2. TypeOK'
    <2>1. drawIn' \in 0 .. DrawMax /\ blinkIn' \in 0 .. BlinkMax
      BY Periods DEF IInv, TypeOK
    <2>2. QED
      BY <1>1, <2>1 DEF IInv, TypeOK
  <1>3. PhaseInv'
    BY DEF PhaseInv
  <1>4. PictureInv'
    <2>1. CASE still + drawIn <= StillBound
      BY <1>1, <2>1, Periods DEF IInv, TypeOK, PictureInv
    <2>2. CASE ~(still + drawIn <= StillBound)
      BY <2>2 DEF IInv, PictureInv, PartsRight, On
    <2>3. QED
      BY <2>1, <2>2
  <1>5. ClickInv'
    <2>1. AnyLight' = AnyLight /\ LeftRead'
      BY DEF AnyLight, LeftRead, On
    <2>2. CASE blink_on /\ steady + drawIn <= DrawMax
      BY <1>1, <2>2, Periods DEF IInv, TypeOK, ClickInv
    <2>3. CASE ~blink_on /\ steady + blinkIn <= SteadyBound
      BY <1>1, <2>3, Periods DEF IInv, TypeOK, ClickInv
    <2>4. CASE /\ ~(blink_on /\ steady + drawIn <= DrawMax)
               /\ ~(~blink_on /\ steady + blinkIn <= SteadyBound)
      BY <2>1, <2>4 DEF IInv, ClickInv
    <2>5. QED
      BY <2>2, <2>3, <2>4
  <1>6. QED
    BY <1>2, <1>3, <1>4, <1>5 DEF IInv

\* Nothing changes when nothing happens.
LEMMA StutterStep ==
  ASSUME IInv, UNCHANGED vars
  PROVE  IInv'
  BY DEF vars, service, timers, ages, IInv, TypeOK, PhaseInv, PictureInv,
         PartsRight, ClickInv, LeftRead, AnyLight, On, StillBound, SteadyBound

\* Every event of the window keeps the invariant.
LEMMA NextIInv == IInv /\ [Next]_vars => IInv'
  <1> SUFFICES ASSUME IInv, [Next]_vars PROVE IInv'
    OBVIOUS
  <1>1. ASSUME NEW f \in Frames, Install(f) PROVE IInv'
    BY <1>1, InstallStep
  <1>2. CASE PaintStep
    BY <1>2, PaintBegins, DrawTemperatureStep, DrawBatteryStep, DrawNeedleStep,
       DrawLeftStep, DrawRightStep, DrawStatusStep, DrawLabelStep DEF PaintStep
  <1>3. QED
    BY <1>1, <1>2, SetStatusStep, DrawTimeoutStep, ToggleBlinkStep,
       MediaEndsStep, MinimiseStep, TickStep, StutterStep DEF Next

\* The inductive invariant holds throughout.
LEMMA InvariantHolds == Spec => []IInv
  <1>1. QED
    BY InitIInv, NextIInv, PTL DEF Spec

-----------------------------------------------------------------------------

\* The needle drawn for a speed shows that speed on the scale that is drawn.
LEMMA NeedlePoints ==
  ASSUME NEW speed \in Int
  PROVE  PointsAt(NeedleAngle(speed), speed)
  <1> SUFFICES ASSUME NEW zero \in Labels, NEW full \in Labels,
                      zero.text = 0, full.text = 240
               PROVE  (zero.angle - NeedleAngle(speed)) * 240
                        = (zero.angle - full.angle) * speed
    BY DEF PointsAt
  <1>1. PICK i \in 0 .. 12 : zero = Label(i)
    BY DEF Labels
  <1>2. PICK j \in 0 .. 12 : full = Label(j)
    BY DEF Labels
  <1>3. i = 0 /\ j = 12
    BY <1>1, <1>2 DEF Label
  <1>4. zero.angle = 210 /\ full.angle = -30
    BY <1>1, <1>2, <1>3 DEF Label, START_ANGLE, ANGLE_OFFSET
  <1>5. NeedleAngle(speed) = 210 - speed
    BY DEF NeedleAngle, START_ANGLE, ANGLE_OFFSET
  <1>6. QED
    BY <1>4, <1>5

\* The state of Canvas has the types it is given.
THEOREM CanvasTypes == Spec => []TypeOK
  BY InvariantHolds, PTL DEF IInv

\* paintEvent, draw_timer: a picture that mixes frames, or that is older than
\* the buffer, lasts no longer than the longest interval of draw_timer,
\* whatever the intervals are.
THEOREM PictureInTime == Spec => []PictureCurrent
  <1>1. IInv => PictureCurrent
    <2> SUFFICES ASSUME IInv, Settled, ~minimised, still = StillBound
                 PROVE  PictureCurrent
      BY DEF PictureCurrent
    <2>1. PartsRight /\ pc = "idle"
      BY DEF IInv, TypeOK, PictureInv, Settled
    <2>2. value["speed"] \in Int
      BY DEF IInv, TypeOK, Signals, Readings
    <2>3. PointsAt(picture.needle, value["speed"])
      BY <2>1, <2>2, NeedlePoints DEF PartsRight
    <2>4. QED
      BY <2>1, <2>3 DEF PartsRight, PictureCurrent
  <1>2. QED
    BY <1>1, InvariantHolds, PTL

\* drawTurnSignals, toggle_blink: the click sound follows the lights within
\* the longest intervals of the two timers, whatever they are.
THEOREM ClickInTime == Spec => []ClickFollows
  <1>1. IInv => ClickFollows
    <2> SUFFICES ASSUME IInv, Settled, ~minimised, steady = SteadyBound
                 PROVE  (player = "playing") = AnyLight
      BY DEF ClickFollows
    <2>1. /\ ~(steady + drawIn <= DrawMax)
          /\ ~(steady + blinkIn <= SteadyBound)
      BY Periods DEF IInv, TypeOK, Settled
    <2>2. QED
      BY <2>1 DEF IInv, ClickInv, Settled
  <1>2. QED
    BY <1>1, InvariantHolds, PTL

-----------------------------------------------------------------------------
(* The scale.                                                              *)

\* The angles of the lines, and the needle's at the speeds written there.
LEMMA LineSets ==
  /\ \A i \in 0 .. 12 : LongLine(i) = 210 - 20 * i /\ NeedleAngle(20 * i) = LongLine(i)
  /\ \A i \in 0 .. 11 : MediumLine(i) = 200 - 20 * i
  /\ \A i \in 0 .. 23 : SmallLine(i) = 205 - 10 * i
  /\ \A k \in 0 .. 48 : NeedleAngle(5 * k) = 210 - 5 * k
  BY DEF LongLine, MediumLine, SmallLine, NeedleAngle, START_ANGLE, ANGLE_OFFSET

\* drawSpeedometerLongLines, ...MediumLines, ...SmallLines, ...SpeedLabels and
\* drawSpeedometerNeedle agree on where each speed is, no two lines coincide,
\* and none is outside the arc.
THEOREM ScaleIsComplete == ScaleComplete
  <1>1. \A k \in 0 .. 48 : NeedleAngle(5 * k) \in Lines
    <2> SUFFICES ASSUME NEW k \in 0 .. 48 PROVE NeedleAngle(5 * k) \in Lines
      OBVIOUS
    <2>1. \/ \E i \in 0 .. 12 : k = 4 * i
          \/ \E i \in 0 .. 11 : k = 4 * i + 2
          \/ \E i \in 0 .. 23 : k = 2 * i + 1
      <3>1. k = 4 * (k \div 4) + (k % 4) /\ k % 4 \in 0 .. 3 /\ k \div 4 \in 0 .. 12
        OBVIOUS
      <3>2. CASE k % 4 = 0
        BY <3>1, <3>2
      <3>3. CASE k % 4 = 2
        <4>1. k = 4 * (k \div 4) + 2 /\ k \div 4 \in 0 .. 11
          BY <3>1, <3>3
        <4>2. QED
          BY <4>1
      <3>4. CASE k % 4 = 1
        <4>1. k = 2 * (2 * (k \div 4)) + 1 /\ 2 * (k \div 4) \in 0 .. 23
          BY <3>1, <3>4
        <4>2. QED
          BY <4>1
      <3>5. CASE k % 4 = 3
        <4>1. k = 2 * (2 * (k \div 4) + 1) + 1 /\ 2 * (k \div 4) + 1 \in 0 .. 23
          BY <3>1, <3>5
        <4>2. QED
          BY <4>1
      <3>6. QED
        BY <3>1, <3>2, <3>3, <3>4, <3>5
    <2>2. CASE \E i \in 0 .. 12 : k = 4 * i
      <3>1. PICK i \in 0 .. 12 : k = 4 * i
        BY <2>2
      <3>2. NeedleAngle(5 * k) = LongLine(i)
        BY <3>1, LineSets
      <3>3. QED
        BY <3>2 DEF Lines, LongLines
    <2>3. CASE \E i \in 0 .. 11 : k = 4 * i + 2
      <3>1. PICK i \in 0 .. 11 : k = 4 * i + 2
        BY <2>3
      <3>2. NeedleAngle(5 * k) = MediumLine(i)
        BY <3>1, LineSets
      <3>3. QED
        BY <3>2 DEF Lines, MediumLines
    <2>4. CASE \E i \in 0 .. 23 : k = 2 * i + 1
      <3>1. PICK i \in 0 .. 23 : k = 2 * i + 1
        BY <2>4
      <3>2. NeedleAngle(5 * k) = SmallLine(i)
        BY <3>1, LineSets
      <3>3. QED
        BY <3>2 DEF Lines, SmallLines
    <2>5. QED
      BY <2>1, <2>2, <2>3, <2>4
  <1>2. \A k \in 0 .. 12 :
          /\ NeedleAngle(20 * k) \in LongLines
          /\ [text |-> 20 * k, angle |-> NeedleAngle(20 * k)] \in Labels
    <2> SUFFICES ASSUME NEW k \in 0 .. 12
                 PROVE  /\ NeedleAngle(20 * k) \in LongLines
                        /\ [text |-> 20 * k, angle |-> NeedleAngle(20 * k)] \in Labels
      OBVIOUS
    <2>1. NeedleAngle(20 * k) = LongLine(k)
      BY LineSets
    <2>2. Label(k) = [text |-> 20 * k, angle |-> LongLine(k)]
      <3>1. k * 20 = 20 * k
        OBVIOUS
      <3>2. QED
        BY <3>1 DEF Label, LongLine
    <2>3. QED
      BY <2>1, <2>2 DEF LongLines, Labels
  <1>3. LongLines \cap MediumLines = {}
    BY LineSets DEF LongLines, MediumLines
  <1>4. (LongLines \cup MediumLines) \cap SmallLines = {}
    <2>1. ASSUME NEW i \in 0 .. 12, NEW j \in 0 .. 23 PROVE LongLine(i) # SmallLine(j)
      BY LineSets
    <2>2. ASSUME NEW i \in 0 .. 11, NEW j \in 0 .. 23 PROVE MediumLine(i) # SmallLine(j)
      BY LineSets
    <2>3. QED
      BY <2>1, <2>2 DEF LongLines, MediumLines, SmallLines
  <1>5. \A angle \in Lines : OnArc(angle)
    <2>1. ASSUME NEW i \in 0 .. 12 PROVE OnArc(LongLine(i))
      BY LineSets DEF OnArc, START_ANGLE, ARC_DEGREES
    <2>2. ASSUME NEW i \in 0 .. 11 PROVE OnArc(MediumLine(i))
      BY LineSets DEF OnArc, START_ANGLE, ARC_DEGREES
    <2>3. ASSUME NEW i \in 0 .. 23 PROVE OnArc(SmallLine(i))
      BY LineSets DEF OnArc, START_ANGLE, ARC_DEGREES
    <2>4. QED
      BY <2>1, <2>2, <2>3 DEF Lines, LongLines, MediumLines, SmallLines
  <1>6. QED
    BY <1>1, <1>2, <1>3, <1>4, <1>5 DEF ScaleComplete
=============================================================================
