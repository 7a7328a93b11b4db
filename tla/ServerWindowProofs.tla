------------------------- MODULE ServerWindowProofs -------------------------
(***************************************************************************)
(* Proofs about ServerWindow, for every set of slider values.              *)
(***************************************************************************)
EXTENDS ServerWindow, TLAPS

\* Every call still to be made carries the value the widgets ask for.
PendingInv == \A i \in 1 .. Len(calls) : calls[i].data = Shown(calls[i].sig)

\* Every signal is as the widgets ask, or a call that will make it so is
\* still to come.
SettledInv ==
  \A s \in Signal : \/ value[s] = Shown(s)
                    \/ \E i \in 1 .. Len(calls) : calls[i].sig = s

IInv == TypeOK /\ TurnBoxesInterlocked /\ PendingInv /\ SettledInv

-----------------------------------------------------------------------------

\* Shown, signal by signal.
LEMMA ShownValues ==
  /\ Shown("speed") = slider["speed"]
  /\ Shown("temperature") = slider["temperature"]
  /\ Shown("battery") = slider["battery"]
  /\ Shown("left_light") = LightOn("left")
  /\ Shown("right_light") = LightOn("right")
  BY DEF Shown, Sliders

\* The five signals, by name.
LEMMA SignalNamed ==
  Signal = {"speed", "temperature", "battery", "left_light", "right_light"}
  BY WindowAssumption DEF Sliders, Lights

\* A setter call of the window is a call of the right type.
LEMMA SetterType ==
  ASSUME NEW s \in Signal, NEW v \in Int
  PROVE  Setter(s, v) \in [sig : Signal, data : Int]
  BY DEF Setter

\* A check box sends a number.
LEMMA BoolType == \A b : Bool(b) \in Int
  BY DEF Bool

-----------------------------------------------------------------------------

\* The constructor leaves all widgets at rest.
LEMMA InitIInv == Init => IInv
  <1> SUFFICES ASSUME Init PROVE IInv
    OBVIOUS
  <1>1. SliderMin \in [Sliders -> Int]
    BY DEF SliderMin, Sliders
  <1>2. calls = <<Setter("temperature", -60)>> /\ Len(calls) = 1
    BY DEF Init
  <1>3. calls \in Seq([sig : Signal, data : Int])
    BY <1>2, SignalNamed, SetterType
  <1>4. TypeOK
    BY <1>1, <1>2, <1>3 DEF Init, TypeOK, SignalValues
  <1>5. TurnBoxesInterlocked
    BY DEF Init, TurnBoxesInterlocked, Boxes, TurnBoxes
  <1>6. calls[1].sig = "temperature" /\ calls[1].data = -60
    BY <1>2 DEF Setter
  <1>7. PendingInv
    BY <1>2, <1>6, ShownValues DEF Init, PendingInv, SliderMin
  <1>8. LightOn("left") = 0 /\ LightOn("right") = 0
    BY DEF Init, LightOn, Bool, Boxes, TurnBoxes
  <1>9. SettledInv
    BY <1>2, <1>6, <1>8, SignalNamed, ShownValues DEF Init, SettledInv, SliderMin
  <1>10. QED
    BY <1>4, <1>5, <1>7, <1>9 DEF IInv

\* A handler that leaves the buffer to its calls: if the calls carry what the
\* widgets now ask for, and the widgets ask for nothing new of the other
\* signals, the calls settle everything.
LEMMA HandlerSettles ==
  ASSUME IInv, EventLoop, value' = value,
         PendingInv',
         \A s \in Signal : \/ Shown(s)' = Shown(s)
                           \/ \E i \in 1 .. Len(calls') : calls'[i].sig = s
  PROVE  SettledInv'
  <1>1. Len(calls) = 0
    BY DEF EventLoop
  <1>2. \A s \in Signal : value[s] = Shown(s)
    BY <1>1 DEF IInv, SettledInv
  <1>3. QED
    BY <1>2 DEF SettledInv

\* A step that changes neither widgets nor calls leaves Shown alone.
LEMMA ShownStable ==
  ASSUME UNCHANGED <<slider, checked>>
  PROVE  \A s : Shown(s)' = Shown(s)
  BY DEF Shown, LightOn

\* A slider that is moved leaves the call of its setter pending.
LEMMA MoveSliderStep ==
  ASSUME IInv, NEW s \in Sliders, NEW v \in Moves[s], MoveSlider(s, v)
  PROVE  IInv'
  <1>1. v \in Int /\ s \in Signal
    BY WindowAssumption
  <1>2. /\ calls' = <<Setter(s, v)>> /\ Len(calls') = 1
        /\ calls'[1].sig = s /\ calls'[1].data = v
    BY DEF MoveSlider, Setter
  <1>3. slider' = [slider EXCEPT ![s] = v] /\ slider \in [Sliders -> Int]
    BY DEF MoveSlider, IInv, TypeOK
  <1>4. TypeOK'
    <2>1. calls' \in Seq([sig : Signal, data : Int])
      BY <1>1, <1>2, SetterType
    <2>2. QED
      BY <1>1, <1>2, <1>3, <2>1 DEF MoveSlider, IInv, TypeOK, SignalValues
  <1>5. TurnBoxesInterlocked'
    BY DEF MoveSlider, IInv, TurnBoxesInterlocked
  <1>6. Shown(s)' = v
    <2>1. slider'[s] = v
      BY <1>3
    <2>2. QED
      BY <2>1 DEF Shown, Sliders
  <1>7. PendingInv'
    BY <1>2, <1>6 DEF PendingInv
  <1>8. \A t \in Signal : t # s => Shown(t)' = Shown(t)
    <2>1. \A t \in Sliders : t # s => slider'[t] = slider[t]
      BY <1>3
    <2>2. LightOn("left")' = LightOn("left") /\ LightOn("right")' = LightOn("right")
      BY DEF MoveSlider, LightOn
    <2>3. QED
      BY <2>1, <2>2, SignalNamed DEF Shown, Sliders
  <1>9. SettledInv'
    BY <1>2, <1>7, <1>8, HandlerSettles DEF MoveSlider
  <1>10. QED
    BY <1>4, <1>5, <1>7, <1>9 DEF IInv

\* ToggleLeft and ToggleRight are each other's mirror image.
LEMMA ToggleStep ==
  ASSUME IInv,
         NEW box \in TurnBoxes, NEW other \in TurnBoxes, box # other,
         NEW light \in Lights,
         light = IF box = "left" THEN "left_light" ELSE "right_light",
         ToggleTurnSignal(box, other, light)
  PROVE  IInv'
  <1> DEFINE on == ~checked[box]
  <1>1. /\ checked' = [checked EXCEPT ![box] = on]
        /\ enabled' = [enabled EXCEPT ![other] = ~on]
        /\ UNCHANGED <<slider, value, frame>>
        /\ calls' = IF checked["warning"] THEN <<>>
                    ELSE <<Setter(light, Bool(on))>>
    BY DEF ToggleTurnSignal
  <1>2. checked \in [Boxes -> BOOLEAN] /\ enabled \in [TurnBoxes -> BOOLEAN]
    BY DEF IInv, TypeOK
  <1>3. TypeOK'
    <2>1. light \in Signal /\ Bool(on) \in Int
      BY WindowAssumption, BoolType
    <2>2. calls' \in Seq([sig : Signal, data : Int]) /\ Len(calls') <= 2
      <3>1. Setter(light, Bool(on)) \in [sig : Signal, data : Int]
        BY <2>1, SetterType
      <3>2. CASE checked["warning"]
        BY <1>1, <3>2
      <3>3. CASE ~checked["warning"]
        <4>1. calls' = <<Setter(light, Bool(on))>>
          BY <1>1, <3>3
        <4>2. QED
          BY <3>1, <4>1
      <3>4. QED
        BY <3>2, <3>3
    <2>3. checked' \in [Boxes -> BOOLEAN] /\ enabled' \in [TurnBoxes -> BOOLEAN]
      BY <1>1, <1>2
    <2>4. QED
      BY <1>1, <2>2, <2>3 DEF IInv, TypeOK
  <1>4. TurnBoxesInterlocked'
    <2>1. enabled[box] /\ ~checked[other]
      BY DEF ToggleTurnSignal, IInv, TurnBoxesInterlocked, TurnBoxes
    <2>2. QED
      BY <1>1, <1>2, <2>1
         DEF IInv, TurnBoxesInterlocked, TurnBoxes, Boxes
  <1>5. checked'["warning"] = checked["warning"] /\ checked'[other] = checked[other]
        /\ checked'[box] = on
    BY <1>1, <1>2 DEF Boxes, TurnBoxes
  <1>6. \A t \in Signal : t # light => Shown(t)' = Shown(t)
    BY <1>1, <1>5, SignalNamed, ShownValues DEF LightOn, TurnBoxes, Shown
  <1>7. CASE checked["warning"]
    <2>1. calls' = <<>> /\ Len(calls') = 0
      BY <1>1, <1>7
    <2>2. Shown(light)' = Shown(light)
      BY <1>5, <1>7 DEF Shown, LightOn, Bool, TurnBoxes, Sliders
    <2>3. PendingInv'
      BY <2>1 DEF PendingInv
    <2>4. SettledInv'
      BY <1>1, <1>6, <2>2, <2>3, HandlerSettles DEF ToggleTurnSignal
    <2>5. QED
      BY <1>3, <1>4, <2>3, <2>4 DEF IInv
  <1>8. CASE ~checked["warning"]
    <2>1. /\ calls' = <<Setter(light, Bool(on))>> /\ Len(calls') = 1
          /\ calls'[1].sig = light /\ calls'[1].data = Bool(on)
      BY <1>1, <1>8 DEF Setter
    <2>2. Shown(light)' = Bool(on)
      BY <1>5, <1>8 DEF Shown, LightOn, Bool, TurnBoxes, Sliders
    <2>3. PendingInv'
      BY <2>1, <2>2 DEF PendingInv
    <2>4. SettledInv'
      BY <1>1, <1>6, <2>1, <2>3, HandlerSettles DEF ToggleTurnSignal
    <2>5. QED
      BY <1>3, <1>4, <2>3, <2>4 DEF IInv
  <1>9. QED
    BY <1>7, <1>8

\* Both handlers of the warning box call the two setters in the same order,
\* with what the boxes ask for.
LEMMA WarningStep ==
  ASSUME IInv, WarningOn \/ WarningOff PROVE IInv'
  <1> DEFINE on == ~checked["warning"]
             l  == LightOn("left")'
             r  == LightOn("right")'
  <1>1. /\ EventLoop
        /\ checked' = [checked EXCEPT !["warning"] = on]
        /\ UNCHANGED <<slider, value, frame>>
        /\ \/ enabled' = enabled
           \/ enabled' = [enabled EXCEPT !["right"] = ~checked["left"],
                                         !["left"]  = ~checked["right"]]
    BY DEF WarningOn, WarningOff, IInv, TypeOK, Boxes
  <1>2. checked \in [Boxes -> BOOLEAN] /\ enabled \in [TurnBoxes -> BOOLEAN]
    BY DEF IInv, TypeOK
  <1>3. /\ checked'["warning"] = on
        /\ checked'["left"] = checked["left"]
        /\ checked'["right"] = checked["right"]
    BY <1>1, <1>2 DEF Boxes, TurnBoxes
  <1>4. calls' = <<Setter("left_light", l), Setter("right_light", r)>>
    BY <1>3 DEF WarningOn, WarningOff, LightOn, Bool
  <1> HIDE DEF l, r
  <1>5. l \in Int /\ r \in Int
    BY BoolType DEF l, r, LightOn
  <1>6. /\ Len(calls') = 2
        /\ calls'[1].sig = "left_light" /\ calls'[1].data = l
        /\ calls'[2].sig = "right_light" /\ calls'[2].data = r
    BY <1>4 DEF Setter
  <1>7. TypeOK'
    <2>1. calls' \in Seq([sig : Signal, data : Int])
      <3>1. /\ Setter("left_light", l) \in [sig : Signal, data : Int]
            /\ Setter("right_light", r) \in [sig : Signal, data : Int]
        BY <1>5, SignalNamed, SetterType
      <3>2. QED
        BY <1>4, <3>1
    <2>2. checked' \in [Boxes -> BOOLEAN] /\ enabled' \in [TurnBoxes -> BOOLEAN]
      <3>1. checked' \in [Boxes -> BOOLEAN]
        BY <1>1, <1>2
      <3>2. checked["left"] \in BOOLEAN /\ checked["right"] \in BOOLEAN
        BY <1>2 DEF Boxes, TurnBoxes
      <3>3. QED
        BY <1>1, <1>2, <3>1, <3>2
    <2>3. QED
      BY <1>1, <1>6, <2>1, <2>2 DEF IInv, TypeOK
  <1>8. TurnBoxesInterlocked'
    BY <1>1, <1>2, <1>3 DEF IInv, TurnBoxesInterlocked, TurnBoxes
  <1>9. Shown("left_light")' = l /\ Shown("right_light")' = r
    BY ShownValues DEF Shown, Sliders, l, r
  <1>10. PendingInv'
    BY <1>6, <1>9 DEF PendingInv
  <1>11. \A t \in Signal : t \notin Lights => Shown(t)' = Shown(t)
    BY <1>1, SignalNamed DEF Shown, Sliders, Lights
  <1>12. \A t \in Lights : \E i \in 1 .. Len(calls') : calls'[i].sig = t
    BY <1>6 DEF Lights
  <1>13. SettledInv'
    BY <1>1, <1>10, <1>11, <1>12, HandlerSettles
  <1>14. QED
    BY <1>7, <1>8, <1>10, <1>13 DEF IInv

\* A setter call settles its signal and leaves the others to theirs.
LEMMA DoCallStep ==
  ASSUME IInv, DoCall
  PROVE  /\ IInv'
         /\ \A s \in Signal : value'[s] # value[s] => value'[s] = Shown(s)'
  <1> DEFINE c == Head(calls)
  <1>1. /\ calls \in Seq([sig : Signal, data : Int]) /\ calls # <<>>
        /\ value \in [Signal -> Int]
        /\ value' = [value EXCEPT ![c.sig] = c.data]
        /\ calls' = Tail(calls)
        /\ UNCHANGED <<slider, checked, enabled, frame>>
    BY DEF DoCall, IInv, TypeOK, SignalValues, widgets
  <1>2. /\ Len(calls) \in Nat /\ Len(calls) >= 1
        /\ c = calls[1] /\ c \in [sig : Signal, data : Int]
        /\ calls' \in Seq([sig : Signal, data : Int])
        /\ Len(calls') = Len(calls) - 1
        /\ \A i \in 1 .. Len(calls') : calls'[i] = calls[i + 1]
    <2>1. Len(calls) \in Nat /\ Len(calls) >= 1 /\ c = calls[1]
      BY <1>1
    <2>2. c \in [sig : Signal, data : Int]
      <3> DEFINE Call == [sig : Signal, data : Int]
      <3>1. calls \in Seq(Call) /\ 1 \in 1 .. Len(calls)
        BY <1>1, <2>1
      <3> HIDE DEF Call
      <3>2. calls[1] \in Call
        BY <3>1
      <3>3. QED
        BY <2>1, <3>2 DEF Call
    <2>3. /\ Tail(calls) \in Seq([sig : Signal, data : Int])
          /\ Len(Tail(calls)) = Len(calls) - 1
          /\ \A i \in 1 .. Len(calls) - 1 : Tail(calls)[i] = calls[i + 1]
      BY <1>1, <2>1
    <2>4. QED
      BY <1>1, <2>1, <2>2, <2>3
  <1>3. c.sig \in Signal /\ c.data = Shown(c.sig)
    BY <1>2 DEF IInv, PendingInv
  <1>4. \A s : Shown(s)' = Shown(s)
    BY <1>1, ShownStable
  <1>5. TypeOK'
    BY <1>1, <1>2 DEF IInv, TypeOK, SignalValues
  <1>6. TurnBoxesInterlocked'
    BY <1>1 DEF IInv, TurnBoxesInterlocked
  <1>7. PendingInv'
    BY <1>2, <1>4 DEF IInv, PendingInv
  <1>8. \A s \in Signal : value'[s] = IF s = c.sig THEN Shown(s) ELSE value[s]
    BY <1>1, <1>3
  <1>9. SettledInv'
    <2> SUFFICES ASSUME NEW s \in Signal, value[s] # Shown(s), s # c.sig
                 PROVE  \E i \in 1 .. Len(calls') : calls'[i].sig = s
      BY <1>4, <1>8 DEF SettledInv
    <2>1. PICK i \in 1 .. Len(calls) : calls[i].sig = s
      BY DEF IInv, SettledInv
    <2>2. i - 1 \in 1 .. Len(calls')
      BY <1>2, <2>1
    <2>3. calls'[i - 1].sig = s
      <3>1. calls'[i - 1] = calls[(i - 1) + 1] /\ (i - 1) + 1 = i
        BY <1>2, <2>1, <2>2
      <3>2. QED
        BY <2>1, <3>1
    <2>4. QED
      BY <2>2, <2>3
  <1>10. QED
    BY <1>4, <1>5, <1>6, <1>7, <1>8, <1>9 DEF IInv

\* Every event of the window keeps the invariant.
LEMMA StepIInv == IInv /\ [Next]_vars => IInv'
  <1> SUFFICES ASSUME IInv, [Next]_vars PROVE IInv'
    OBVIOUS
  <1>1. ASSUME NEW s \in Sliders, NEW v \in Moves[s], MoveSlider(s, v) PROVE IInv'
    BY <1>1, MoveSliderStep
  <1>2. CASE ToggleLeft
    BY <1>2, ToggleStep DEF ToggleLeft, TurnBoxes, Lights
  <1>3. CASE ToggleRight
    BY <1>3, ToggleStep DEF ToggleRight, TurnBoxes, Lights
  <1>4. CASE WarningOn \/ WarningOff
    BY <1>4, WarningStep
  <1>5. CASE DoCall
    BY <1>5, DoCallStep
  <1>6. CASE Snapshot
    BY <1>6, ShownStable DEF Snapshot, widgets, IInv, TypeOK,
         TurnBoxesInterlocked, PendingInv, SettledInv
  <1>7. CASE UNCHANGED vars
    BY <1>7, ShownStable DEF vars, IInv, TypeOK,
         TurnBoxesInterlocked, PendingInv, SettledInv
  <1>8. QED
    BY <1>1, <1>2, <1>3, <1>4, <1>5, <1>6, <1>7 DEF Next, UserEvent

\* The inductive invariant holds throughout.
LEMMA InductiveInvariant == Spec => []IInv
  BY InitIInv, StepIInv, PTL DEF Spec

\* The window's state keeps its types, and no handler leaves more than two
\* setter calls to be made.
THEOREM WindowTypes == Spec => []TypeOK
  <1>1. IInv => TypeOK
    BY DEF IInv
  <1>2. QED
    BY <1>1, InductiveInvariant, PTL

\* However the three boxes are clicked, no turn signal box gets stuck checked
\* or disabled, and left and right are never on together.
THEOREM Interlocked == Spec => []TurnBoxesInterlocked
  <1>1. IInv => TurnBoxesInterlocked
    BY DEF IInv
  <1>2. QED
    BY <1>1, InductiveInvariant, PTL

\* Whenever the event loop is idle the buffer says what the widgets say.
THEOREM BufferAgreement == Spec => []BufferAgrees
  <1>1. IInv => BufferAgrees
    <2> SUFFICES ASSUME IInv, EventLoop, NEW s \in Signal
                 PROVE  value[s] = Shown(s)
      BY DEF BufferAgrees
    <2>1. Len(calls) = 0
      BY DEF EventLoop
    <2>2. QED
      BY <2>1 DEF IInv, SettledInv
  <1>2. QED
    BY <1>1, InductiveInvariant, PTL

\* A signal changes in the buffer only to the value the widgets ask for.
THEOREM NoGlitches == Spec => NoGlitch
  <1> DEFINE A == \A s \in Signal :
                    value'[s] # value[s] => value'[s] = Shown(s)
  <1>1. ASSUME IInv, [Next]_vars PROVE [A]_vars
    <2>1. CASE DoCall
      <3>1. \A s : Shown(s)' = Shown(s)
        BY <2>1, ShownStable DEF DoCall, widgets
      <3>2. QED
        BY <1>1, <2>1, <3>1, DoCallStep
    <2>2. CASE ~DoCall
      BY <1>1, <2>2 DEF Next, UserEvent, MoveSlider, ToggleLeft, ToggleRight,
           ToggleTurnSignal, WarningOn, WarningOff, Snapshot, vars
    <2>3. QED
      BY <2>1, <2>2
  <1>2. QED
    BY <1>1, InductiveInvariant, PTL DEF Spec, NoGlitch
-----------------------------------------------------------------------------
(* The refinement: the window is a user of the register of signals.        *)

\* The sliders are where the constructor or the user has put them.
SliderInv == \A s \in Sliders : slider[s] \in Moves[s] \cup {SliderMin[s]}

\* The constructor and the handlers keep the sliders in their sets.
LEMMA SlidersInvariant == Spec => []SliderInv
  <1>1. Init => SliderInv
    BY DEF Init, SliderInv
  <1>2. IInv /\ SliderInv /\ [Next]_vars => SliderInv'
    <2> SUFFICES ASSUME IInv, SliderInv, [Next]_vars PROVE SliderInv'
      OBVIOUS
    <2>1. CASE slider' = slider
      BY <2>1 DEF SliderInv
    <2>2. ASSUME NEW s \in Sliders, NEW v \in Moves[s], MoveSlider(s, v)
          PROVE  SliderInv'
      BY <2>2 DEF MoveSlider, SliderInv, IInv, TypeOK
    <2>3. QED
      BY <2>1, <2>2 DEF Next, UserEvent, ToggleLeft, ToggleRight, ToggleTurnSignal,
         WarningOn, WarningOff, DoCall, Snapshot, widgets, vars
  <1>3. QED
    BY <1>1, <1>2, InductiveInvariant, PTL DEF Spec

\* What the widgets ask for is an input of the signal.
LEMMA ShownInput ==
  ASSUME SliderInv, NEW s \in Signal
  PROVE  Shown(s) \in SignalInputs[s]
  <1>1. CASE s \in Sliders
    BY <1>1 DEF Shown, SignalInputs, Lights, Sliders, SliderInv
  <1>2. CASE s \in Lights
    <2>1. LightOn("left") \in {0, 1} /\ LightOn("right") \in {0, 1}
      BY DEF LightOn, Bool
    <2>2. QED
      BY <1>2, <2>1, ShownValues DEF SignalInputs, Lights
  <1>3. QED
    BY <1>1, <1>2, WindowAssumption

\* The weights of the bits of a uint32_t are not zero.
LEMMA Powers ==
  ASSUME NEW i \in 0 .. 31
  PROVE  2^i \in Nat \ {0}
  <1> DEFINE P == {2^0, 2^1, 2^2, 2^3, 2^4, 2^5, 2^6, 2^7,
                  2^8, 2^9, 2^10, 2^11, 2^12, 2^13, 2^14, 2^15,
                  2^16, 2^17, 2^18, 2^19, 2^20, 2^21, 2^22, 2^23,
                  2^24, 2^25, 2^26, 2^27, 2^28, 2^29, 2^30, 2^31}
  <1>1. i \in { 0,  1,  2,  3,  4,  5,  6,  7,
                8,  9, 10, 11, 12, 13, 14, 15,
               16, 17, 18, 19, 20, 21, 22, 23,
               24, 25, 26, 27, 28, 29, 30, 31}
    OBVIOUS
  <1>2. 2^i \in P
    BY <1>1, Zenon
  <1>3. P \subseteq Nat \ {0}
    OBVIOUS
  <1> HIDE DEF P
  <1>4. QED
    BY <1>2, <1>3

\* Every bit of zero is clear.
LEMMA EncodeZero ==
  ASSUME NEW s \in Signal
  PROVE  Encode(0, s) = ZeroField(s)
  <1>1. ASSUME NEW j \in 0 .. BitSize[s] - 1
        PROVE  BitOf(0, j) = 0
    <2>1. j \in 0 .. 31
      BY LayoutAssumption, WindowAssumption
    <2>2. PICK n \in Nat \ {0} : n = 2^j
      BY <2>1, Powers
    <2>3. (0 \div n) % 2 = 0
      OBVIOUS
    <2>4. QED
      BY <2>2, <2>3, Zenon DEF BitOf
  <1>2. QED
    BY <1>1 DEF Encode, ZeroField

\* The buffer starts as the register does.
LEMMA InitRegister == Init => Register!Init
  <1> SUFFICES ASSUME Init PROVE Register!Init
    OBVIOUS
  <1>1. \A s \in Signal : value[s] = 0 /\ frame[s] = 0
    BY DEF Init
  <1>2. Bits(value) = [s \in Signal |-> ZeroField(s)]
    BY <1>1, EncodeZero DEF Bits
  <1>3. Bits(frame) = [s \in Signal |-> ZeroField(s)]
    BY <1>1, EncodeZero DEF Bits
  <1>4. QED
    BY <1>2, <1>3, Zenon DEF Register!Init, Register!ZeroField, ZeroField

\* A pending call is a Set of the register, the worker's copy a Snapshot, and
\* no event of the window touches the register.
LEMMA StepRegister ==
  ASSUME IInv, SliderInv, [Next]_vars
  PROVE  [Register!Next]_(Register!vars)
  <1>1. CASE DoCall
    <2> DEFINE c == Head(calls)
    <2>1. /\ calls \in Seq([sig : Signal, data : Int]) /\ calls # <<>>
          /\ value \in [Signal -> Int]
          /\ value' = [value EXCEPT ![c.sig] = c.data]
          /\ frame' = frame
      BY <1>1 DEF DoCall, IInv, TypeOK, SignalValues
    <2>2. c = calls[1] /\ 1 \in 1 .. Len(calls)
      BY <2>1
    <2>3. c \in [sig : Signal, data : Int]
      <3> DEFINE Call == [sig : Signal, data : Int]
      <3>1. calls \in Seq(Call)
        BY <2>1
      <3> HIDE DEF Call
      <3>2. calls[1] \in Call
        BY <2>2, <3>1
      <3>3. QED
        BY <2>2, <3>2 DEF Call
    <2>4. c.sig \in Signal /\ c.data = Shown(c.sig)
      BY <2>2, <2>3 DEF IInv, PendingInv
    <2>5. c.data \in SignalInputs[c.sig]
      BY <2>4, ShownInput
    <2> HIDE DEF c
    <2>6. PICK s \in Signal : s = c.sig
      BY <2>4
    <2>7. PICK v \in SignalInputs[s] : v = c.data
      BY <2>5, <2>6
    <2>8. Bits(value)' = [Bits(value) EXCEPT ![s] = Encode(v, s)]
      BY <2>1, <2>6, <2>7 DEF Bits
    <2>9. Bits(frame)' = Bits(frame)
      BY <2>1 DEF Bits
    <2>10. Register!Set(s, v)
      BY <2>9, <2>8, Zenon DEF Register!Set, Register!Encode, Encode, Register!BitOf, BitOf
    <2>11. QED
      BY <2>10 DEF Register!Next
  <1>2. CASE Snapshot
    <2>1. Bits(frame)' = Bits(value) /\ Bits(value)' = Bits(value)
      BY <1>2 DEF Snapshot, Bits
    <2>2. Register!Snapshot
      BY <2>1, Zenon DEF Register!Snapshot
    <2>3. QED
      BY <2>2 DEF Register!Next
  <1>3. CASE UNCHANGED <<value, frame>>
    BY <1>3 DEF Register!vars, Bits
  <1>4. QED
    BY <1>1, <1>2, <1>3 DEF Next, UserEvent, MoveSlider, ToggleLeft, ToggleRight,
       ToggleTurnSignal, WarningOn, WarningOff, vars

\* For every set of slider values the window is a user of the register that
\* ServerComService implements: it changes a signal only by a setter, with a
\* value the controls can take, and the frames are snapshots.
THEOREM WindowUsesRegister == Spec => UsesRegister
  <1>1. IInv /\ SliderInv /\ [Next]_vars => [Register!Next]_(Register!vars)
    BY StepRegister
  <1>2. QED
    BY <1>1, InitRegister, InductiveInvariant, SlidersInvariant, PTL
       DEF Spec, UsesRegister, Register!Spec
=============================================================================
