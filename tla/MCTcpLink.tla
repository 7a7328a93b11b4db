----------------------------- MODULE MCTcpLink -----------------------------
(***************************************************************************)
(* TcpLink on small instances: two or three versions of the buffer and frames of    *)
(* the three bytes of setting.h.                                           *)
(***************************************************************************)
EXTENDS TcpLink, Setting

CONSTANTS c1, c2

TwoVersions == {0, 1}
ThreeVersions == {0, 1, 2}
OneFrame    == FRAME_BYTES
TwoFrames   == 2 * FRAME_BYTES
=============================================================================
