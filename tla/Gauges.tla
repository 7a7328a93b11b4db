------------------------------- MODULE Gauges -------------------------------
(***************************************************************************)
(* What the drawing functions of the dashboard (desktop/client/src/        *)
(* canvas.cpp, include/positions.h) make of a number: the angle of the     *)
(* needle and of the scale behind it, in degrees, and the colours and the  *)
(* filling of the two icons.  Places and fonts are left out.               *)
(***************************************************************************)
EXTENDS Integers

START_ANGLE     == 215     \* SPEEDOMETER_ARC_START_ANGLE
ARC_DEGREES     == 250     \* SPEEDOMETER_ARC_DEGREES_TO_DRAW
ANGLE_OFFSET    == 5       \* SPEEDOMETER_LINES_ANGLE_OFFSET
BATTERY_HEIGHT  == 110     \* BATTERY_ICON_HEIGHT

OnArc(angle) == angle \in START_ANGLE - ARC_DEGREES .. START_ANGLE

\* The three loops over the lines, and the one over the labels.
LongLine(i)   == START_ANGLE - ANGLE_OFFSET - i * 20
MediumLine(i) == START_ANGLE - ANGLE_OFFSET - ((i * 20) + 10)
SmallLine(i)  == START_ANGLE - ANGLE_OFFSET - (i * 10 + 5)
Label(i)      == [text  |-> i * 20,
                  angle |-> START_ANGLE - ANGLE_OFFSET - i * 20]

LongLines   == {LongLine(i)   : i \in 0 .. 12}
MediumLines == {MediumLine(i) : i \in 0 .. 11}
SmallLines  == {SmallLine(i)  : i \in 0 .. 23}
Labels      == {Label(i)      : i \in 0 .. 12}
Lines       == LongLines \cup MediumLines \cup SmallLines

NeedleAngle(speed) == START_ANGLE - ANGLE_OFFSET - speed

TemperatureColour(t) == IF t < 5 THEN "white" ELSE IF t < 40 THEN "blue" ELSE "red"

BatteryColour(b) == IF b < 25 THEN "red" ELSE IF b < 50 THEN "yellow" ELSE "green"

\* Rows of the battery icon that are filled, from the bottom.
FillHeight(b) == (BATTERY_HEIGHT * b) \div 100

-----------------------------------------------------------------------------

\* The needle at this angle shows this speed on the scale as it is drawn: it
\* has gone as far from the label 0 towards the label 240 as the speed has.
PointsAt(angle, speed) ==
  \A zero, full \in Labels :
    zero.text = 0 /\ full.text = 240 =>
      (zero.angle - angle) * 240 = (zero.angle - full.angle) * speed

\* The scale is complete: the needle at a multiple of five is on a line, on a
\* long one with its label at a multiple of twenty; no two lines coincide
\* and all of them are on the arc.
ScaleComplete ==
  /\ \A k \in 0 .. 48 : NeedleAngle(5 * k) \in Lines
  /\ \A k \in 0 .. 12 : /\ NeedleAngle(20 * k) \in LongLines
                        /\ [text |-> 20 * k, angle |-> NeedleAngle(20 * k)]
                             \in Labels
  /\ LongLines \cap MediumLines = {}
  /\ (LongLines \cup MediumLines) \cap SmallLines = {}
  /\ \A angle \in Lines : OnArc(angle)
=============================================================================
