------------------------------ MODULE MCCanvas ------------------------------
(***************************************************************************)
(* Canvas with frames that differ in all that is painted twice, and timers *)
(* that are early or late against each other.                              *)
(***************************************************************************)
EXTENDS Canvas

Car(speed, left, right) ==
  [speed |-> speed, temperature |-> -60, battery |-> 100,
   left_light |-> left, right_light |-> right]

MCFrames == {Car(0, 0, 0), Car(240, 1, 0), Car(0, 0, 1)}
=============================================================================
