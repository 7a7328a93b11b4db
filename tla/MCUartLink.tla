----------------------------- MODULE MCUartLink -----------------------------
(* UartLink with two versions of the buffer and the frames of setting.h.    *)
EXTENDS UartLink, Setting

TwoVersions == {0, 1}
OneFrame   == FRAME_BYTES
OneMessage == FRAME_BYTES + 1
Shifted    == 2 * FRAME_BYTES - 1
=============================================================================
