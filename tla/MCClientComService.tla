------------------------- MODULE MCClientComService -------------------------
(***************************************************************************)
(* ClientComService with the signal table of setting.h and the frames of a *)
(* server that sets every signal inside its range.                         *)
(***************************************************************************)
EXTENDS ClientComService, Setting

MCSigned == {"temperature"}

\* Frames in which every signal is at an end of its range: any two differ in
\* bits on both sides of every byte boundary.
MCBoundaryFrames ==
  {FrameOf([s \in SignalNames |-> IF s \in S THEN SIGNALS[s].max
                                             ELSE SIGNALS[s].min]) :
     S \in {{}, {"speed", "battery"}, {"temperature", "left_light"},
            SignalNames}}

\* The table of setting.h, where the getters look for their signals.
SettingTable ==
  /\ Signal = SignalNames /\ BitOffset = SignalOffset /\ BitSize = SignalSize
  /\ BUFFLEN = FRAME_BYTES /\ Signed = MCSigned

\* A frame of a server that sets every signal inside its range.
InRange(f) ==
  \A s \in Signal : \E w \in SignalRange(s) : Field(f, s) = Encode(w, s)

ASSUME SettingAssumption == SettingTable /\ \A f \in Frames : InRange(f)

\* The value the getters make of the bits of a field.
Decoded(bits, s) ==
  Returned(s, Extended(s, [b \in BitIndex |-> IF b < BitSize[s] THEN bits[b] ELSE 0]))

\* What a getter returns is a value the server can have set, and the one whose
\* encoding the frame carries; and it would be so for every value of its
\* signal, the negative temperatures included.
RoundTrip ==
  result.sig # "none" =>
    LET s == result.sig
        v == Returned(s, result.byte)
    IN  /\ v \in SignalRange(s)
        /\ Encode(v, s) = [j \in 0 .. BitSize[s] - 1 |-> result.byte[j]]
        /\ \A w \in SignalRange(s) : Decoded(Encode(w, s), s) = w
=============================================================================
