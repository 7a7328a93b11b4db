--------------------------- MODULE MCServerWindow ---------------------------
(***************************************************************************)
(* ServerWindow with the table of setting.h; the sliders move between the  *)
(* ends of their ranges.                                                   *)
(***************************************************************************)
EXTENDS ServerWindow, Setting

MCMoves == [s \in Sliders |-> {SIGNALS[s].min, SIGNALS[s].max}]

\* The constructor's literals are the minima of the table.
ASSUME \A s \in Sliders : SliderMin[s] = SIGNALS[s].min
=============================================================================
