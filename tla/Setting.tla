------------------------------ MODULE Setting ------------------------------
(***************************************************************************)
(* The signal table of shared/setting.h, compiled into both desktop        *)
(* programs: where each signal lives in the BUFFLEN-byte frame and which   *)
(* values the dashboard lets it take.                                      *)
(***************************************************************************)
EXTENDS Integers

SIGNALS ==
  [ speed       |-> [bit_size |-> 8, bit_offset |->  0, min |->   0, max |-> 240],
    temperature |-> [bit_size |-> 7, bit_offset |->  8, min |-> -60, max |->  60],
    battery     |-> [bit_size |-> 7, bit_offset |-> 15, min |->   0, max |-> 100],
    left_light  |-> [bit_size |-> 1, bit_offset |-> 22, min |->   0, max |->   1],
    right_light |-> [bit_size |-> 1, bit_offset |-> 23, min |->   0, max |->   1] ]

FRAME_BYTES == 3        \* BUFFLEN

SignalNames == DOMAIN SIGNALS
SignalOffset == [s \in SignalNames |-> SIGNALS[s].bit_offset]
SignalSize   == [s \in SignalNames |-> SIGNALS[s].bit_size]
SignalRange(s) == SIGNALS[s].min .. SIGNALS[s].max
=============================================================================
