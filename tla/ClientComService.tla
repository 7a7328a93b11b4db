-------------------------- MODULE ClientComService --------------------------
(***************************************************************************)
(* The client's COMService (desktop/client/src/comservice.cpp): the frame  *)
(* buffer that the worker thread of TCPService or UARTService overwrites   *)
(* with each frame it has read, and the getters of the painting thread,    *)
(* which extract one signal bit by bit.  Both hold buffer_mutex.           *)
(***************************************************************************)
EXTENDS Frame

CONSTANTS
  Signed,      \* the signals whose getter sign-extends (temperature)
  Frames       \* the frames the worker can read from its connection

\* A frame has BUFFLEN bytes, and a signal fits the uint8_t of extract.
ASSUME FramesAssumption ==
  /\ Frames \subseteq Buffer
  /\ \A s \in Signal : BitSize[s] <= CHAR_BIT
  /\ "none" \notin Signal

VARIABLES
  buffer,        \* COMService::buffer
  buffer_mutex,  \* its holder: "free", "gui" or "worker"
  workerPc,      \* the worker: "read", "lock" (frame in hand), "copy"
  temp_buffer,   \* the frame just read
  copied,        \* bytes memcpy has copied so far
  guiPc,         \* the painter: "idle", "lock" (entering extract), "loop"
  signal,        \* the signal being extracted
  cursor,        \* the loop's i, byte_index and bit_index
  data,          \* extract's uint8_t accumulator
  result         \* what the last getter returned, and for which signal

vars == <<buffer, buffer_mutex, workerPc, temp_buffer, copied,
          guiPc, signal, cursor, data, result>>

workerVars == <<workerPc, temp_buffer, copied>>
guiVars    == <<guiPc, signal, cursor, data, result>>

ZeroByte  == [b \in BitIndex |-> 0]
NoReading == [sig |-> "none", byte |-> ZeroByte]

Init ==
  /\ buffer = ZeroBuffer
  /\ buffer_mutex = "free"
  /\ workerPc = "read"
  /\ temp_buffer = ZeroBuffer
  /\ copied = 0
  /\ guiPc = "idle"
  /\ signal = "none"
  /\ cursor = [i |-> 0, byte_index |-> 0, bit_index |-> 0]
  /\ data = ZeroByte
  /\ result = NoReading

-----------------------------------------------------------------------------
(* The worker thread.                                                      *)

\* read() or serial.read() has put a frame into the local buffer.
Receive(f) ==
  /\ workerPc = "read"
  /\ temp_buffer' = f
  /\ workerPc' = "lock"
  /\ UNCHANGED <<buffer, buffer_mutex, copied, guiVars>>

\* Mutant: memcpy without the lock.
CopyLockMissing ==
  /\ workerPc = "lock"
  /\ workerPc' = "copy"
  /\ copied' = 0
  /\ UNCHANGED <<buffer, buffer_mutex, temp_buffer, guiVars>>

\* The scoped_lock before memcpy.
CopyLock ==
  /\ workerPc = "lock"
  /\ buffer_mutex = "free"
  /\ buffer_mutex' = "worker"
  /\ workerPc' = "copy"
  /\ copied' = 0
  /\ UNCHANGED <<buffer, temp_buffer, guiVars>>

CopyByte ==
  /\ workerPc = "copy"
  /\ copied < BUFFLEN
  /\ buffer' = [buffer EXCEPT ![copied] = temp_buffer[copied]]
  /\ copied' = copied + 1
  /\ UNCHANGED <<buffer_mutex, workerPc, temp_buffer, guiVars>>

\* Mutant: memcpy of one byte too few.
CopyUnlockEarly ==
  /\ workerPc = "copy"
  /\ copied = BUFFLEN - 1
  /\ buffer_mutex' = "free"
  /\ workerPc' = "read"
  /\ UNCHANGED <<buffer, temp_buffer, copied, guiVars>>

\* The scoped_lock ends; the worker pauses and reads again.
CopyUnlock ==
  /\ workerPc = "copy"
  /\ copied = BUFFLEN
  /\ buffer_mutex' = "free"
  /\ workerPc' = "read"
  /\ UNCHANGED <<buffer, temp_buffer, copied, guiVars>>

-----------------------------------------------------------------------------
(* The painting thread.                                                    *)

\* get_speed, get_temperature, ...: enter extract with the signal's field.
CallGet(s) ==
  /\ guiPc = "idle"
  /\ signal' = s
  /\ cursor' = StartCursor(s)
  /\ data' = ZeroByte
  /\ guiPc' = "lock"
  /\ UNCHANGED <<buffer, buffer_mutex, result, workerVars>>

ExtractLock ==
  /\ guiPc = "lock"
  /\ buffer_mutex = "free"
  /\ buffer_mutex' = "gui"
  /\ guiPc' = "loop"
  /\ UNCHANGED <<buffer, signal, cursor, data, result, workerVars>>

\* One iteration: data |= bit << i, move the cursor.
ExtractBit ==
  /\ guiPc = "loop"
  /\ cursor.i < BitSize[signal]
  /\ data' = [data EXCEPT ![cursor.i] =
                IF buffer[cursor.byte_index][cursor.bit_index] = 1 THEN 1 ELSE @]
  /\ cursor' = NextCursor(cursor)
  /\ UNCHANGED <<buffer, buffer_mutex, guiPc, signal, result, workerVars>>

\* Mutant: no sign extension.
ExtendedNever(s, byte) == byte

\* Mutant: the extension runs past the byte.
ExtendedTooFar(s, byte) ==
  [b \in 0 .. CHAR_BIT |-> IF b > BitSize[s] - 1 THEN 1 ELSE byte[b]]

\* get_temperature: when the field's most significant bit is set, set every
\* bit of the byte above it.  The other getters return data as it is.
Extended(s, byte) ==
  LET MSB_index == BitSize[s] - 1
  IN  IF s \in Signed /\ byte[MSB_index] = 1
      THEN [b \in BitIndex |-> IF b > MSB_index THEN 1 ELSE byte[b]]
      ELSE byte

\* The loop is over: release the mutex and return from extract and getter.
ExtractUnlock ==
  /\ guiPc = "loop"
  /\ cursor.i = BitSize[signal]
  /\ buffer_mutex' = "free"
  /\ guiPc' = "idle"
  /\ result' = [sig |-> signal, byte |-> Extended(signal, data)]
  /\ UNCHANGED <<buffer, signal, cursor, data, workerVars>>

\* The uint8_t or, for a signed signal, int8_t the getter's byte is read as.
Unsigned(byte) == byte[0] + 2 * byte[1] + 4 * byte[2] + 8 * byte[3]
                  + 16 * byte[4] + 32 * byte[5] + 64 * byte[6] + 128 * byte[7]
Returned(s, byte) ==
  IF s \in Signed /\ byte[CHAR_BIT - 1] = 1
  THEN Unsigned(byte) - 2^CHAR_BIT
  ELSE Unsigned(byte)

-----------------------------------------------------------------------------

GuiStep    == ExtractLock \/ ExtractBit \/ ExtractUnlock
WorkerStep == CopyLock \/ CopyByte \/ CopyUnlock

Next == \/ \E f \in Frames : Receive(f)
        \/ \E s \in Signal : CallGet(s)
        \/ GuiStep
        \/ WorkerStep

Spec == Init /\ [][Next]_vars

(* Neither thread stops inside a call.  The worker pauses 20 ms between    *)
(* frames and the painter 40 ms between paintings, so whoever waits for    *)
(* the mutex finds it free again and again and gets it.  Nothing makes     *)
(* frames arrive or windows repaint.                                       *)
Fairness == /\ WF_vars(ExtractBit) /\ WF_vars(ExtractUnlock)
            /\ SF_vars(ExtractLock)
            /\ WF_vars(CopyByte) /\ WF_vars(CopyUnlock)
            /\ SF_vars(CopyLock)

FairSpec == Spec /\ Fairness

-----------------------------------------------------------------------------
(* Refinement: a frame is installed when the worker takes the mutex, and a *)
(* getter sees what the frame held when it took the mutex itself.          *)

valueBar == IF workerPc = "copy" THEN AllFields(temp_buffer)
                                 ELSE AllFields(buffer)

shownBar ==
  IF guiPc = "loop" THEN [sig |-> signal, bits |-> Field(buffer, signal)]
  ELSE IF result.sig = "none" THEN [sig |-> "none", bits |-> <<>>]
  ELSE [sig |-> result.sig,
        bits |-> [j \in 0 .. BitSize[result.sig] - 1 |-> result.byte[j]]]

Display == INSTANCE SignalDisplay WITH value <- valueBar, shown <- shownBar

\* The byte-by-byte memcpy and the bit-by-bit extract together behave as an
\* atomic display: every getter returns its signal as some one frame had it,
\* never bits of two frames, and never an older frame than an earlier getter.
ImplementsDisplay == Display!Spec

-----------------------------------------------------------------------------
(* Properties.                                                             *)

Reading == [sig : Signal, byte : Byte]

TypeOK ==
  /\ buffer \in Buffer
  /\ buffer_mutex \in {"free", "gui", "worker"}
  /\ workerPc \in {"read", "lock", "copy"}
  /\ temp_buffer \in Buffer
  /\ copied \in 0 .. BUFFLEN
  /\ guiPc \in {"idle", "lock", "loop"}
  /\ signal \in Signal \cup {"none"}
  /\ cursor \in Cursor
  /\ data \in Byte
  /\ result \in Reading \cup {NoReading}

\* The mutex serves both threads: whichever frame the worker is installing, a
\* getter comes back, and however often the dashboard is painted, a frame that
\* was read is installed.
MutexServesBoth ==
  /\ (guiPc = "lock") ~> (guiPc = "idle")
  /\ (workerPc = "lock") ~> (workerPc = "read" /\ buffer = temp_buffer)
=============================================================================
