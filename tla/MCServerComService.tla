------------------------ MODULE MCServerComService ------------------------
(***************************************************************************)
(* ServerComService with the signal table of setting.h.                    *)
(***************************************************************************)
EXTENDS ServerComService, Setting

\* Both ends of every range: all bits that can differ do differ.
MCInputs == [s \in SignalNames |-> {SIGNALS[s].min, SIGNALS[s].max}]
=============================================================================
