----------------------- MODULE ClientComServiceProofs -----------------------
(***************************************************************************)
(* Proofs about ClientComService, for every signal table that satisfies    *)
(* LayoutAssumption and every set of frames; the last theorem is about the *)
(* table of setting.h.                                                     *)
(***************************************************************************)
EXTENDS MCClientComService, TLAPS

\* The holder of the mutex is the thread inside its critical section.
MutexInv ==
  /\ buffer_mutex = "gui" <=> guiPc = "loop"
  /\ buffer_mutex = "worker" <=> workerPc = "copy"

\* What the worker has in hand is a frame that can arrive.
FrameInv == workerPc # "read" => temp_buffer \in Frames

\* The bytes memcpy has passed are those of the new frame.
CopiedInv ==
  workerPc = "copy" =>
    \A B \in 0 .. copied - 1 : buffer[B] = temp_buffer[B]

\* The cursor of extract points at bit i of the field being read.
CursorInv ==
  guiPc # "idle" =>
    /\ signal \in Signal
    /\ cursor.i <= BitSize[signal]
    /\ cursor.bit_index \in BitIndex
    /\ cursor.byte_index * CHAR_BIT + cursor.bit_index
         = BitOffset[signal] + cursor.i
    /\ guiPc = "lock" => cursor.i = 0 /\ data = ZeroByte

\* The bits the loop has passed are those of the field, the others are clear.
ExtractedInv ==
  guiPc = "loop" =>
    \A j \in BitIndex :
      data[j] = IF j < cursor.i THEN BufferBit(buffer, BitOffset[signal] + j) ELSE 0

IInv == TypeOK /\ MutexInv /\ FrameInv /\ CopiedInv /\ CursorInv /\ ExtractedInv

-----------------------------------------------------------------------------
(* Where bits are, and what the cursor of the loop does.                   *)

\* Every bit of a field is a bit of the buffer.
LEMMA FieldInside ==
  ASSUME NEW s \in Signal, NEW j \in 0 .. BitSize[s] - 1
  PROVE  /\ BitOffset[s] + j \in Nat
         /\ BitOffset[s] + j < CHAR_BIT * BUFFLEN
         /\ BitOffset[s] + j \in FieldBits(s)
  BY LayoutAssumption DEF FieldBits, CHAR_BIT

\* A bit position has one byte index and one bit index.
LEMMA SplitPosition ==
  ASSUME NEW B \in Nat, NEW b \in BitIndex
  PROVE  /\ (B * CHAR_BIT + b) \div CHAR_BIT = B
         /\ (B * CHAR_BIT + b) % CHAR_BIT = b
  BY DEF BitIndex, CHAR_BIT

\* The two indices of a position inside the frame, and back.
LEMMA JoinPosition ==
  ASSUME NEW p \in Nat, p < CHAR_BIT * BUFFLEN
  PROVE  /\ p \div CHAR_BIT \in ByteIndex
         /\ p % CHAR_BIT \in BitIndex
         /\ (p \div CHAR_BIT) * CHAR_BIT + (p % CHAR_BIT) = p
  BY LayoutAssumption DEF BitIndex, ByteIndex, CHAR_BIT

\* The loop body moves the cursor one position on.
LEMMA NextCursorStep ==
  ASSUME NEW c \in Cursor, c.bit_index \in BitIndex
  PROVE  /\ NextCursor(c) \in Cursor
         /\ NextCursor(c).i = c.i + 1
         /\ NextCursor(c).bit_index \in BitIndex
         /\ NextCursor(c).byte_index * CHAR_BIT + NextCursor(c).bit_index
              = c.byte_index * CHAR_BIT + c.bit_index + 1
  BY DEF NextCursor, Cursor, BitIndex, CHAR_BIT

\* The cursor starts at the first bit of the field.
LEMMA StartCursorStep ==
  ASSUME NEW s \in Signal
  PROVE  /\ StartCursor(s) \in Cursor
         /\ StartCursor(s).i = 0
         /\ StartCursor(s).bit_index \in BitIndex
         /\ StartCursor(s).byte_index * CHAR_BIT + StartCursor(s).bit_index
              = BitOffset[s]
  BY LayoutAssumption DEF StartCursor, Cursor, BitIndex, CHAR_BIT

-----------------------------------------------------------------------------

\* While the loop still has bits to read, its cursor is at the bit i of the
\* field, inside the frame.
LEMMA CursorInside ==
  ASSUME TypeOK, CursorInv, guiPc = "loop", cursor.i < BitSize[signal]
  PROVE  /\ signal \in Signal
         /\ cursor.i \in 0 .. BitSize[signal] - 1
         /\ cursor.i \in BitIndex
         /\ cursor.bit_index \in BitIndex
         /\ buffer[cursor.byte_index][cursor.bit_index]
              = BufferBit(buffer, BitOffset[signal] + cursor.i)
         /\ buffer[cursor.byte_index][cursor.bit_index] \in {0, 1}
  <1>1. /\ signal \in Signal
        /\ cursor.bit_index \in BitIndex
        /\ cursor.byte_index * CHAR_BIT + cursor.bit_index
             = BitOffset[signal] + cursor.i
    BY DEF CursorInv
  <1>2. cursor.i \in 0 .. BitSize[signal] - 1 /\ cursor.i \in BitIndex
    BY <1>1, LayoutAssumption, FramesAssumption DEF TypeOK, Cursor, BitIndex, CHAR_BIT
  <1>3. BitOffset[signal] + cursor.i < CHAR_BIT * BUFFLEN
    BY <1>1, <1>2, FieldInside
  <1>4. cursor.byte_index \in ByteIndex
    BY <1>1, <1>3, LayoutAssumption DEF TypeOK, Cursor, ByteIndex, BitIndex, CHAR_BIT
  <1>5. /\ (BitOffset[signal] + cursor.i) \div CHAR_BIT = cursor.byte_index
        /\ (BitOffset[signal] + cursor.i) % CHAR_BIT = cursor.bit_index
    BY <1>1, SplitPosition DEF TypeOK, Cursor
  <1>6. buffer[cursor.byte_index][cursor.bit_index] \in {0, 1}
    BY <1>1, <1>4 DEF TypeOK, Buffer, Byte
  <1>7. QED
    BY <1>1, <1>2, <1>5, <1>6 DEF BufferBit

\* The sign extension makes a byte of a byte and leaves the field alone.
LEMMA ExtendedKeepsField ==
  ASSUME NEW s \in Signal, NEW byte \in Byte
  PROVE  /\ Extended(s, byte) \in Byte
         /\ \A j \in 0 .. BitSize[s] - 1 : Extended(s, byte)[j] = byte[j]
  BY LayoutAssumption, FramesAssumption DEF Extended, Byte, BitIndex, CHAR_BIT

-----------------------------------------------------------------------------
(* The inductive invariant.                                                *)

\* Nothing is installed or read yet.
LEMMA InitIInv == Init => IInv
  <1> SUFFICES ASSUME Init PROVE IInv
    OBVIOUS
  <1>1. ZeroBuffer \in Buffer /\ ZeroByte \in Byte
    BY DEF ZeroBuffer, ZeroByte, Buffer, Byte
  <1>2. TypeOK
    BY <1>1, LayoutAssumption DEF Init, TypeOK, Cursor
  <1>3. QED
    BY <1>2 DEF Init, IInv, MutexInv, FrameInv, CopiedInv, CursorInv, ExtractedInv

\* The worker's steps, with the mutex or without.
LEMMA WorkerKeepsIInv ==
  ASSUME IInv, (\E f \in Frames : Receive(f)) \/ WorkerStep
  PROVE  IInv'
  <1> USE DEF IInv, guiVars
  <1>1. ASSUME NEW f \in Frames, Receive(f) PROVE IInv'
    <2>1. TypeOK'
      BY <1>1, FramesAssumption DEF Receive, TypeOK
    <2>2. MutexInv' /\ FrameInv' /\ CopiedInv' /\ CursorInv' /\ ExtractedInv'
      BY <1>1 DEF Receive, MutexInv, FrameInv, CopiedInv, CursorInv, ExtractedInv
    <2>3. QED
      BY <2>1, <2>2
  <1>2. CASE CopyLock
    <2>1. TypeOK' /\ copied' = 0
      BY <1>2, LayoutAssumption DEF CopyLock, TypeOK
    <2>2. CopiedInv'
      BY <2>1 DEF CopiedInv
    <2>3. MutexInv' /\ FrameInv' /\ CursorInv' /\ ExtractedInv'
      BY <1>2 DEF CopyLock, MutexInv, FrameInv, CursorInv, ExtractedInv
    <2>4. QED
      BY <2>1, <2>2, <2>3
  <1>3. CASE CopyByte
    <2>1. copied \in ByteIndex /\ copied' = copied + 1
      BY <1>3, LayoutAssumption DEF CopyByte, TypeOK, ByteIndex
    <2>2. TypeOK'
      BY <1>3, <2>1, LayoutAssumption DEF CopyByte, TypeOK, Buffer, ByteIndex
    <2>3. CopiedInv'
      BY <1>3, <2>1, LayoutAssumption DEF CopyByte, CopiedInv, TypeOK, Buffer, ByteIndex
    <2>4. guiPc # "loop" /\ guiPc' = guiPc
      BY <1>3 DEF CopyByte, MutexInv
    <2>5. MutexInv' /\ FrameInv' /\ CursorInv' /\ ExtractedInv'
      BY <1>3, <2>4 DEF CopyByte, MutexInv, FrameInv, CursorInv, ExtractedInv
    <2>6. QED
      BY <2>2, <2>3, <2>5
  <1>4. CASE CopyUnlock
    BY <1>4 DEF CopyUnlock, TypeOK, MutexInv, FrameInv, CopiedInv, CursorInv, ExtractedInv
  <1>5. QED
    BY <1>1, <1>2, <1>3, <1>4 DEF WorkerStep

\* The getters' steps on the painting thread.
LEMMA PainterKeepsIInv ==
  ASSUME IInv, (\E s \in Signal : CallGet(s)) \/ GuiStep
  PROVE  IInv'
  <1> USE DEF IInv, workerVars
  <1>1. ASSUME NEW s \in Signal, CallGet(s) PROVE IInv'
    <2>1. ZeroByte \in Byte
      BY DEF ZeroByte, Byte
    <2>2. TypeOK'
      BY <1>1, <2>1, StartCursorStep DEF CallGet, TypeOK
    <2>3. CursorInv'
      <3>1. signal' = s /\ cursor' = StartCursor(s) /\ data' = ZeroByte
            /\ BitOffset[s] \in Nat /\ BitSize[s] \in Nat
        BY <1>1, LayoutAssumption DEF CallGet
      <3>2. QED
        BY <3>1, StartCursorStep DEF CursorInv, CHAR_BIT, Cursor
    <2>4. MutexInv' /\ FrameInv' /\ CopiedInv' /\ ExtractedInv'
      BY <1>1 DEF CallGet, MutexInv, FrameInv, CopiedInv, ExtractedInv
    <2>5. QED
      BY <2>2, <2>3, <2>4
  <1>2. CASE ExtractLock
    <2>1. TypeOK' /\ MutexInv' /\ FrameInv' /\ CopiedInv' /\ CursorInv'
      BY <1>2 DEF ExtractLock, TypeOK, MutexInv, FrameInv, CopiedInv, CursorInv
    <2>2. cursor'.i = 0 /\ data' = ZeroByte
      BY <1>2 DEF ExtractLock, CursorInv
    <2>3. ExtractedInv'
      BY <2>2 DEF ExtractedInv, ZeroByte, BitIndex
    <2>4. QED
      BY <2>1, <2>3
  <1>3. CASE ExtractBit
    <2> DEFINE bit == buffer[cursor.byte_index][cursor.bit_index]
    <2>1. /\ signal \in Signal /\ BitSize[signal] \in Nat /\ BitOffset[signal] \in Nat
          /\ cursor.i \in 0 .. BitSize[signal] - 1 /\ cursor.i \in BitIndex
          /\ cursor.bit_index \in BitIndex
          /\ bit = BufferBit(buffer, BitOffset[signal] + cursor.i)
          /\ bit \in {0, 1}
      BY <1>3, CursorInside, LayoutAssumption DEF ExtractBit
    <2>2. /\ cursor \in Cursor /\ cursor' = NextCursor(cursor)
          /\ signal' = signal /\ buffer' = buffer /\ guiPc' = "loop" /\ guiPc = "loop"
      BY <1>3 DEF ExtractBit, TypeOK
    <2>3. /\ cursor' \in Cursor /\ cursor'.i = cursor.i + 1
          /\ cursor'.bit_index \in BitIndex
          /\ cursor'.byte_index * CHAR_BIT + cursor'.bit_index
               = cursor.byte_index * CHAR_BIT + cursor.bit_index + 1
      BY <2>1, <2>2, NextCursorStep
    <2>4. data \in Byte /\ data[cursor.i] = 0
      BY <2>1, <2>2 DEF TypeOK, ExtractedInv, BitIndex, CHAR_BIT
    <2>5. data' = [data EXCEPT ![cursor.i] = bit]
      BY <1>3, <2>1, <2>4 DEF ExtractBit, Byte
    <2>6. TypeOK'
      BY <1>3, <2>1, <2>3, <2>4, <2>5 DEF ExtractBit, TypeOK, Byte
    <2>7. CursorInv'
      <3>1. cursor.byte_index * CHAR_BIT + cursor.bit_index
              = BitOffset[signal] + cursor.i
        BY <2>2 DEF CursorInv
      <3>2. cursor'.byte_index * CHAR_BIT + cursor'.bit_index
              = BitOffset[signal'] + cursor'.i
        BY <2>1, <2>2, <2>3, <3>1
      <3>3. cursor'.i <= BitSize[signal']
        BY <2>1, <2>2, <2>3
      <3>4. QED
        BY <2>1, <2>2, <2>3, <3>2, <3>3 DEF CursorInv
    <2>8. ExtractedInv'
      <3>1. ASSUME NEW j \in BitIndex
            PROVE  data'[j] = IF j < cursor'.i
                              THEN BufferBit(buffer, BitOffset[signal] + j) ELSE 0
        <4>1. data[j] = IF j < cursor.i
                        THEN BufferBit(buffer, BitOffset[signal] + j) ELSE 0
          BY <2>2 DEF ExtractedInv
        <4>2. data'[j] = IF j = cursor.i THEN bit ELSE data[j]
          BY <2>4, <2>5 DEF Byte
        <4>3. j \in Nat /\ cursor.i \in Nat
          BY <2>1 DEF BitIndex
        <4>4. CASE j = cursor.i
          BY <2>1, <2>3, <4>2, <4>3, <4>4
        <4>5. CASE j # cursor.i
          BY <2>3, <4>1, <4>2, <4>3, <4>5
        <4>6. QED
          BY <4>4, <4>5
      <3>2. QED
        BY <2>2, <3>1 DEF ExtractedInv
    <2>9. MutexInv' /\ FrameInv' /\ CopiedInv'
      BY <1>3 DEF ExtractBit, MutexInv, FrameInv, CopiedInv
    <2>10. QED
      BY <2>6, <2>7, <2>8, <2>9
  <1>4. CASE ExtractUnlock
    <2>1. signal \in Signal /\ data \in Byte
      BY <1>4 DEF ExtractUnlock, CursorInv, TypeOK
    <2>2. result' \in Reading
      BY <1>4, <2>1, ExtendedKeepsField DEF ExtractUnlock, Reading
    <2>3. TypeOK'
      BY <1>4, <2>2 DEF ExtractUnlock, TypeOK
    <2>4. MutexInv' /\ FrameInv' /\ CopiedInv' /\ CursorInv' /\ ExtractedInv'
      BY <1>4 DEF ExtractUnlock, MutexInv, FrameInv, CopiedInv, CursorInv, ExtractedInv
    <2>5. QED
      BY <2>3, <2>4
  <1>5. QED
    BY <1>1, <1>2, <1>3, <1>4 DEF GuiStep

\* Both threads, in any order, keep the invariant.
LEMMA StepIInv == IInv /\ [Next]_vars => IInv'
  <1>1. ASSUME IInv, UNCHANGED vars PROVE IInv'
    BY <1>1 DEF vars, IInv, TypeOK, MutexInv, FrameInv, CopiedInv, CursorInv, ExtractedInv
  <1>2. QED
    BY <1>1, WorkerKeepsIInv, PainterKeepsIInv DEF Next

\* The inductive invariant holds for every interleaving.
LEMMA InductiveInvariant == Spec => []IInv
  BY InitIInv, StepIInv, PTL DEF Spec

\* Every variable keeps its type: a getter always returns a byte, whatever
\* frames the worker installs meanwhile.
THEOREM DisplayTypes == Spec => []TypeOK
  <1>1. IInv => TypeOK
    BY DEF IInv
  <1>2. QED
    BY <1>1, InductiveInvariant, PTL

-----------------------------------------------------------------------------
(* Refinement.                                                             *)

\* The display shows nothing at first.
LEMMA InitRefines == Init => Display!Init
  <1> SUFFICES ASSUME Init PROVE Display!Init
    OBVIOUS
  <1>1. ASSUME NEW s \in Signal
        PROVE  Field(ZeroBuffer, s) = ZeroField(s)
    <2>1. ASSUME NEW j \in 0 .. BitSize[s] - 1
          PROVE  BufferBit(ZeroBuffer, BitOffset[s] + j) = 0
      BY FieldInside, JoinPosition DEF BufferBit, ZeroBuffer
    <2>2. QED
      BY <2>1 DEF Field, ZeroField
  <1>2. valueBar = [s \in Signal |-> ZeroField(s)]
    BY <1>1 DEF Init, valueBar, AllFields
  <1>3. shownBar = [sig |-> "none", bits |-> <<>>]
    BY DEF Init, shownBar, NoReading
  <1>4. QED
    BY <1>2, <1>3 DEF Display!Init, Display!NothingShown, Display!ZeroField, ZeroField

\* Taking the worker's lock is the moment the new frame is installed.
LEMMA CopyLockInstalls ==
  ASSUME IInv, CopyLock
  PROVE  temp_buffer \in Frames /\ Display!Install(temp_buffer)
  <1>1. temp_buffer \in Frames
    BY DEF CopyLock, IInv, FrameInv
  <1>2. valueBar' = AllFields(temp_buffer)
    BY DEF CopyLock, valueBar
  <1>3. shownBar' = shownBar
    BY DEF CopyLock, shownBar, guiVars
  <1>4. QED
    BY <1>1, <1>2, <1>3 DEF Display!Install, Display!AllFields, Display!Field,
         Display!BufferBit, Display!CHAR_BIT, AllFields, Field, BufferBit, CHAR_BIT

\* Taking the painter's lock is the moment the getter sees its signal.
LEMMA ExtractLockGets ==
  ASSUME IInv, ExtractLock
  PROVE  signal \in Signal /\ Display!Get(signal)
  <1>1. signal \in Signal
    BY DEF ExtractLock, IInv, CursorInv
  <1>2. workerPc # "copy" /\ workerPc' = workerPc /\ buffer' = buffer
    BY DEF ExtractLock, IInv, MutexInv, workerVars
  <1>3. valueBar' = valueBar /\ valueBar[signal] = Field(buffer, signal)
    BY <1>1, <1>2 DEF valueBar, AllFields
  <1>4. shownBar' = [sig |-> signal, bits |-> Field(buffer, signal)]
    BY <1>2 DEF ExtractLock, shownBar
  <1>5. QED
    BY <1>1, <1>3, <1>4 DEF Display!Get

\* No byte of the memcpy is visible: the painter is outside its loop.
LEMMA CopyByteStutters ==
  ASSUME IInv, CopyByte
  PROVE  UNCHANGED <<valueBar, shownBar>>
  <1>1. workerPc = "copy" /\ workerPc' = "copy" /\ temp_buffer' = temp_buffer
    BY DEF CopyByte
  <1>2. guiPc # "loop" /\ guiPc' = guiPc /\ result' = result
    BY <1>1 DEF CopyByte, IInv, MutexInv, guiVars
  <1>3. QED
    BY <1>1, <1>2 DEF valueBar, shownBar

\* When the worker lets go, the buffer is the frame it had in hand.
LEMMA CopyUnlockStutters ==
  ASSUME IInv, CopyUnlock
  PROVE  UNCHANGED <<valueBar, shownBar>>
  <1>1. buffer \in Buffer /\ temp_buffer \in Buffer
    BY DEF IInv, TypeOK
  <1>2. \A B \in ByteIndex : buffer[B] = temp_buffer[B]
    BY DEF CopyUnlock, IInv, CopiedInv, ByteIndex
  <1>3. buffer = temp_buffer
    BY <1>1, <1>2 DEF Buffer
  <1>4. QED
    BY <1>3 DEF CopyUnlock, valueBar, shownBar, guiVars

\* The getter returns the field as the buffer holds it, sign extension and all.
LEMMA ExtractUnlockStutters ==
  ASSUME IInv, ExtractUnlock
  PROVE  UNCHANGED <<valueBar, shownBar>>
  <1>1. /\ guiPc = "loop" /\ signal \in Signal /\ data \in Byte
        /\ cursor.i = BitSize[signal]
    BY DEF ExtractUnlock, IInv, CursorInv, TypeOK
  <1>2. /\ guiPc' = "idle"
        /\ result' = [sig |-> signal, byte |-> Extended(signal, data)]
        /\ buffer' = buffer
    BY DEF ExtractUnlock
  <1>3. ASSUME NEW j \in 0 .. BitSize[signal] - 1
        PROVE  Extended(signal, data)[j] = BufferBit(buffer, BitOffset[signal] + j)
    <2>1. j \in BitIndex /\ j < cursor.i
      BY <1>1, LayoutAssumption, FramesAssumption DEF BitIndex, CHAR_BIT
    <2>2. data[j] = BufferBit(buffer, BitOffset[signal] + j)
      BY <1>1, <2>1 DEF IInv, ExtractedInv
    <2>3. QED
      BY <1>1, <2>2, ExtendedKeepsField
  <1>4. Field(buffer, signal)
          = [j \in 0 .. BitSize[signal] - 1 |-> Extended(signal, data)[j]]
    BY <1>3 DEF Field
  <1>5. signal # "none"
    BY <1>1, FramesAssumption
  <1>6. shownBar = [sig |-> signal, bits |-> Field(buffer, signal)]
    BY <1>1 DEF shownBar
  <1>7. shownBar' = [sig |-> signal,
                     bits |-> [j \in 0 .. BitSize[signal] - 1
                                 |-> Extended(signal, data)[j]]]
    BY <1>2, <1>5 DEF shownBar
  <1>8. valueBar' = valueBar
    BY DEF ExtractUnlock, valueBar, workerVars
  <1>9. QED
    BY <1>4, <1>6, <1>7, <1>8

\* Every step of the two threads is a step of the display or none.
LEMMA StepRefines ==
  IInv /\ [Next]_vars => [Display!Next]_(Display!vars)
  <1> SUFFICES ASSUME IInv, [Next]_vars PROVE [Display!Next]_(Display!vars)
    OBVIOUS
  <1> USE DEF Display!vars, guiVars, workerVars
  <1>1. ASSUME NEW f \in Frames, Receive(f) PROVE UNCHANGED <<valueBar, shownBar>>
    BY <1>1 DEF Receive, valueBar, shownBar
  <1>2. ASSUME NEW s \in Signal, CallGet(s) PROVE UNCHANGED <<valueBar, shownBar>>
    BY <1>2 DEF CallGet, valueBar, shownBar
  <1>3. CASE ExtractLock
    BY <1>3, ExtractLockGets DEF Display!Next
  <1>4. CASE ExtractBit
    BY <1>4 DEF ExtractBit, valueBar, shownBar
  <1>5. CASE ExtractUnlock
    BY <1>5, ExtractUnlockStutters
  <1>6. CASE CopyLock
    BY <1>6, CopyLockInstalls DEF Display!Next
  <1>7. CASE CopyByte
    BY <1>7, CopyByteStutters
  <1>8. CASE CopyUnlock
    BY <1>8, CopyUnlockStutters
  <1>9. CASE UNCHANGED vars
    BY <1>9 DEF vars, valueBar, shownBar
  <1>10. QED
    BY <1>1, <1>2, <1>3, <1>4, <1>5, <1>6, <1>7, <1>8, <1>9
       DEF Next, GuiStep, WorkerStep

\* memcpy and extract's bit loop implement the atomic display, for every table
\* of disjoint fields of at most a byte and every set of frames: a getter
\* returns its signal as one frame had it, and never goes back to an older one.
THEOREM DisplayImplemented == Spec => ImplementsDisplay
  <1>1. Spec => Display!Spec
    BY InitRefines, StepRefines, InductiveInvariant, PTL DEF Spec, Display!Spec
  <1>2. QED
    BY <1>1 DEF ImplementsDisplay
-----------------------------------------------------------------------------
(* The signal table of setting.h: what a getter makes of the bits it read. *)

\* The byte is a value of the signal in two's complement.
Carries(byte, s) ==
  \E w \in SignalRange(s) : \A b \in BitIndex : byte[b] = BitOf(w, b)

\* Outside of memcpy the buffer is a frame, and every reading is a value.
ReadingInv ==
  /\ workerPc # "copy" => InRange(buffer)
  /\ result.sig # "none" => Carries(result.byte, result.sig)

\* The widths and ranges, signal by signal.
LEMMA TableValues ==
  ASSUME SettingTable
  PROVE  /\ Signal = {"speed", "temperature", "battery", "left_light", "right_light"}
         /\ BitSize["speed"] = 8 /\ BitSize["temperature"] = 7 /\ BitSize["battery"] = 7
         /\ BitSize["left_light"] = 1 /\ BitSize["right_light"] = 1
         /\ SignalRange("speed") = 0 .. 240 /\ SignalRange("temperature") = -60 .. 60
         /\ SignalRange("battery") = 0 .. 100
         /\ SignalRange("left_light") = 0 .. 1 /\ SignalRange("right_light") = 0 .. 1
         /\ Signed = {"temperature"}
  BY DEF SettingTable, SignalNames, SignalOffset, SignalSize, SignalRange, SIGNALS, MCSigned

\* The bits of a byte, one by one.
BitsOneByOne(w) ==
  /\ BitOf(w, 0) = w % 2            /\ BitOf(w, 1) = (w \div 2) % 2
  /\ BitOf(w, 2) = (w \div 4) % 2   /\ BitOf(w, 3) = (w \div 8) % 2
  /\ BitOf(w, 4) = (w \div 16) % 2  /\ BitOf(w, 5) = (w \div 32) % 2
  /\ BitOf(w, 6) = (w \div 64) % 2  /\ BitOf(w, 7) = (w \div 128) % 2

\* The powers of two of bitset are the divisors of the eight bits.
LEMMA BitsOfByte ==
  ASSUME NEW w \in Int
  PROVE  BitsOneByOne(w)
  BY DEF BitOf, BitsOneByOne

\* The bits above a small number are clear, above a small negative one set.
LEMMA HighBits ==
  ASSUME NEW w \in Int
  PROVE  /\ w \in 0 .. 127 => BitOf(w, 7) = 0
         /\ w \in -64 .. 63 => BitOf(w, 7) = BitOf(w, 6)
         /\ w \in 0 .. 1 => \A b \in 1 .. 7 : BitOf(w, b) = 0
  <1> USE DEF BitsOneByOne
  <1>0. BitsOneByOne(w)
    BY BitsOfByte
  <1>1. w \in 0 .. 127 => BitOf(w, 7) = 0
    BY <1>0
  <1>2. w \in -64 .. 63 => BitOf(w, 7) = BitOf(w, 6)
    <2>1. w \in -64 .. 63 => w \div 128 = w \div 64
      OBVIOUS
    <2>2. QED
      BY <1>0, <2>1
  <1>3. w \in 0 .. 1 => \A b \in {1, 2, 3, 4, 5, 6, 7} : BitOf(w, b) = 0
    BY <1>0
  <1>4. 1 .. 7 = {1, 2, 3, 4, 5, 6, 7}
    OBVIOUS
  <1>5. QED
    BY <1>1, <1>2, <1>3, <1>4

\* Eight bits of a number, and what is above them.
LEMMA EightBits ==
  ASSUME NEW w \in Int
  PROVE  w = BitOf(w, 0) + 2 * BitOf(w, 1) + 4 * BitOf(w, 2) + 8 * BitOf(w, 3)
             + 16 * BitOf(w, 4) + 32 * BitOf(w, 5) + 64 * BitOf(w, 6)
             + 128 * BitOf(w, 7) + 256 * (w \div 256)
  <1>1. w = 2 * (w \div 2) + (w % 2)
    OBVIOUS
  <1>2. w \div 2 = 2 * (w \div 4) + ((w \div 2) % 2)
    OBVIOUS
  <1>3. w \div 4 = 2 * (w \div 8) + ((w \div 4) % 2)
    OBVIOUS
  <1>4. w \div 8 = 2 * (w \div 16) + ((w \div 8) % 2)
    OBVIOUS
  <1>5. w \div 16 = 2 * (w \div 32) + ((w \div 16) % 2)
    OBVIOUS
  <1>6. w \div 32 = 2 * (w \div 64) + ((w \div 32) % 2)
    OBVIOUS
  <1>7. w \div 64 = 2 * (w \div 128) + ((w \div 64) % 2)
    OBVIOUS
  <1>8. w \div 128 = 2 * (w \div 256) + ((w \div 128) % 2)
    OBVIOUS
  <1>9. BitsOneByOne(w)
    BY BitsOfByte
  <1>10. QED
    BY <1>1, <1>2, <1>3, <1>4, <1>5, <1>6, <1>7, <1>8, <1>9 DEF BitsOneByOne

\* A byte is the number whose bits it has, modulo 256.
LEMMA BitsUnsigned ==
  ASSUME NEW w \in Int, NEW byte, \A b \in BitIndex : byte[b] = BitOf(w, b)
  PROVE  Unsigned(byte) = w - 256 * (w \div 256)
  <1>1. /\ byte[0] = BitOf(w, 0) /\ byte[1] = BitOf(w, 1) /\ byte[2] = BitOf(w, 2)
        /\ byte[3] = BitOf(w, 3) /\ byte[4] = BitOf(w, 4) /\ byte[5] = BitOf(w, 5)
        /\ byte[6] = BitOf(w, 6) /\ byte[7] = BitOf(w, 7)
    BY DEF BitIndex, CHAR_BIT
  <1>2. \A b \in BitIndex : BitOf(w, b) \in Int
    BY DEF BitOf
  <1> DEFINE low == BitOf(w, 0) + 2 * BitOf(w, 1) + 4 * BitOf(w, 2) + 8 * BitOf(w, 3)
                    + 16 * BitOf(w, 4) + 32 * BitOf(w, 5) + 64 * BitOf(w, 6)
                    + 128 * BitOf(w, 7)
  <1>3. low \in Int
    BY <1>2 DEF BitIndex, CHAR_BIT
  <1>4. w = low + 256 * (w \div 256)
    BY EightBits
  <1>5. Unsigned(byte) = low
    BY <1>1 DEF Unsigned
  <1> HIDE DEF low
  <1>6. QED
    BY <1>3, <1>4, <1>5

\* A getter's byte is the value whose bits it has, a temperature below zero
\* included.
LEMMA BitsReturned ==
  ASSUME SettingTable, NEW s \in Signal, NEW w \in SignalRange(s), NEW byte,
         \A b \in BitIndex : byte[b] = BitOf(w, b)
  PROVE  Returned(s, byte) = w
  <1>1. w \in Int /\ w \in -60 .. 240 /\ (s # "temperature" => w >= 0)
        /\ (s = "temperature" => w <= 60)
    BY TableValues
  <1>2. Unsigned(byte) = w - 256 * (w \div 256)
    BY <1>1, BitsUnsigned
  <1>3. byte[7] = (w \div 128) % 2
    <2>1. byte[7] = BitOf(w, 7)
      BY DEF BitIndex, CHAR_BIT
    <2>2. BitsOneByOne(w)
      BY <1>1, BitsOfByte
    <2>3. QED
      BY <2>1, <2>2 DEF BitsOneByOne
  <1>4. CASE s \in Signed /\ w < 0
    <2>1. byte[7] = 1 /\ w \div 256 = -1
      BY <1>1, <1>3, <1>4
    <2>2. QED
      BY <1>1, <1>2, <1>4, <2>1 DEF Returned, CHAR_BIT
  <1>5. CASE s \in Signed /\ w >= 0
    <2>1. byte[7] = 0 /\ w \div 256 = 0
      BY <1>1, <1>3, <1>5, TableValues
    <2>2. QED
      BY <1>1, <1>2, <1>5, <2>1 DEF Returned, CHAR_BIT
  <1>6. CASE s \notin Signed
    <2>1. w \div 256 = 0
      BY <1>1, <1>6, TableValues
    <2>2. QED
      BY <1>1, <1>2, <1>6, <2>1 DEF Returned
  <1>7. QED
    BY <1>1, <1>4, <1>5, <1>6

\* The sign extension completes the bits of a field to those of the value.
LEMMA BitsExtended ==
  ASSUME SettingTable, NEW s \in Signal, NEW w \in SignalRange(s), NEW byte,
         \A b \in BitIndex : byte[b] = IF b < BitSize[s] THEN BitOf(w, b) ELSE 0
  PROVE  \A b \in BitIndex : Extended(s, byte)[b] = BitOf(w, b)
  <1> SUFFICES ASSUME NEW b \in BitIndex PROVE Extended(s, byte)[b] = BitOf(w, b)
    OBVIOUS
  <1>1. b \in 0 .. 7
    BY DEF BitIndex, CHAR_BIT
  <1>2. byte[b] = IF b < BitSize[s] THEN BitOf(w, b) ELSE 0
    OBVIOUS
  <1>3. s \in {"speed", "temperature", "battery", "left_light", "right_light"}
    BY TableValues
  <1>4. CASE s = "speed"
    BY <1>1, <1>2, <1>4, TableValues DEF Extended
  <1>5. CASE s = "battery"
    <2>1. BitOf(w, 7) = 0
      BY <1>5, TableValues, HighBits
    <2>2. QED
      BY <1>1, <1>2, <1>5, <2>1, TableValues DEF Extended
  <1>6. CASE s \in {"left_light", "right_light"}
    <2>1. \A j \in 1 .. 7 : BitOf(w, j) = 0
      BY <1>6, TableValues, HighBits
    <2>2. QED
      BY <1>1, <1>2, <1>6, <2>1, TableValues DEF Extended
  <1>7. CASE s = "temperature"
    <2>1. BitOf(w, 7) = BitOf(w, 6) /\ BitOf(w, 6) \in {0, 1}
      <3>1. w \in -64 .. 63
        BY <1>7, TableValues
      <3>2. QED
        BY <3>1, HighBits DEF BitOf
    <2>2. s \in Signed /\ BitSize[s] = 7 /\ BitSize[s] - 1 = 6
      BY <1>7, TableValues
    <2>3. byte[6] = BitOf(w, 6)
      BY <2>2 DEF BitIndex, CHAR_BIT
    <2>4. Extended(s, byte)[b] = IF byte[6] = 1 /\ b > 6 THEN 1 ELSE byte[b]
      BY <2>2 DEF Extended
    <2>5. QED
      BY <1>1, <1>2, <2>1, <2>2, <2>3, <2>4
  <1>8. QED
    BY <1>3, <1>4, <1>5, <1>6, <1>7

-----------------------------------------------------------------------------
(* Every reading is a value.                                               *)

\* Whatever the signal, a reading whose field is that of a value is the value.
LEMMA FieldCarries ==
  ASSUME SettingTable, NEW s \in Signal, NEW byte,
         NEW buf, InRange(buf),
         \A j \in BitIndex :
           byte[j] = IF j < BitSize[s] THEN BufferBit(buf, BitOffset[s] + j) ELSE 0
  PROVE  Carries(Extended(s, byte), s)
  <1>1. PICK w \in SignalRange(s) : Field(buf, s) = Encode(w, s)
    BY DEF InRange
  <1>2. ASSUME NEW j \in BitIndex
        PROVE  byte[j] = IF j < BitSize[s] THEN BitOf(w, j) ELSE 0
    <2>1. BitSize[s] \in Nat /\ j \in Nat
      BY LayoutAssumption DEF BitIndex
    <2>2. CASE j < BitSize[s]
      <3>1. j \in 0 .. BitSize[s] - 1
        BY <2>1, <2>2
      <3>2. Field(buf, s)[j] = BufferBit(buf, BitOffset[s] + j)
        BY <3>1 DEF Field
      <3>3. Encode(w, s)[j] = BitOf(w, j)
        BY <3>1 DEF Encode
      <3>4. QED
        BY <1>1, <2>2, <3>2, <3>3
    <2>3. CASE ~(j < BitSize[s])
      BY <2>3
    <2>4. QED
      BY <2>2, <2>3
  <1>3. \A b \in BitIndex : Extended(s, byte)[b] = BitOf(w, b)
    BY <1>2, BitsExtended
  <1>4. QED
    BY <1>3 DEF Carries

\* The buffer of a client that has received nothing yet reads zero.
LEMMA ZeroInRange ==
  ASSUME SettingTable
  PROVE  InRange(ZeroBuffer)
  <1> SUFFICES ASSUME NEW s \in Signal
               PROVE  \E w \in SignalRange(s) : Field(ZeroBuffer, s) = Encode(w, s)
    BY Zenon DEF InRange
  <1>1. 0 \in SignalRange(s)
    BY TableValues
  <1>2. ASSUME NEW j \in 0 .. BitSize[s] - 1
        PROVE  BufferBit(ZeroBuffer, BitOffset[s] + j) = BitOf(0, j)
    <2>1. BufferBit(ZeroBuffer, BitOffset[s] + j) = 0
      BY FieldInside, JoinPosition DEF BufferBit, ZeroBuffer
    <2>2. j \in {0, 1, 2, 3, 4, 5, 6, 7}
      BY LayoutAssumption, FramesAssumption DEF CHAR_BIT
    <2>3. BitsOneByOne(0)
      BY BitsOfByte
    <2>4. BitOf(0, j) = 0
      BY <2>2, <2>3 DEF BitsOneByOne
    <2>5. QED
      BY <2>1, <2>4
  <1>3. Field(ZeroBuffer, s) = Encode(0, s)
    BY <1>2 DEF Field, Encode
  <1>4. QED
    BY <1>1, <1>3

\* A frame in which every signal has been set to some value of its range: the
\* frames of a server.
LEMMA FrameOfInRange ==
  ASSUME NEW vals, \A s \in Signal : vals[s] \in SignalRange(s)
  PROVE  InRange(FrameOf(vals))
  <1> SUFFICES ASSUME NEW s \in Signal
               PROVE  Field(FrameOf(vals), s) = Encode(vals[s], s)
    BY Zenon DEF InRange
  <1> DEFINE Owner(p) == {x \in Signal : p \in FieldBits(x)}
             BitAt(p) == IF Owner(p) = {} THEN 0
                         ELSE LET o == CHOOSE x \in Owner(p) : TRUE
                              IN  BitOf(vals[o], p - BitOffset[o])
  <1>1. FrameOf(vals) = [B \in ByteIndex |-> [b \in BitIndex |-> BitAt(B * CHAR_BIT + b)]]
    BY Zenon DEF FrameOf
  <1>2. ASSUME NEW j \in 0 .. BitSize[s] - 1
        PROVE  BufferBit(FrameOf(vals), BitOffset[s] + j) = BitOf(vals[s], j)
    <2> DEFINE p == BitOffset[s] + j
    <2>1. p \in Nat /\ p < CHAR_BIT * BUFFLEN /\ p \in FieldBits(s)
      BY FieldInside
    <2>2. p - BitOffset[s] = j
      BY LayoutAssumption
    <2>3. Owner(p) = {s}
      BY <2>1, LayoutAssumption
    <2> HIDE DEF p, Owner
    <2>4. BitAt(p) = BitOf(vals[s], j)
      BY <2>2, <2>3
    <2> HIDE DEF BitAt
    <2>5. BufferBit(FrameOf(vals), p) = BitAt((p \div CHAR_BIT) * CHAR_BIT + (p % CHAR_BIT))
      BY <1>1, <2>1, JoinPosition DEF BufferBit
    <2>6. (p \div CHAR_BIT) * CHAR_BIT + (p % CHAR_BIT) = p
      BY <2>1, JoinPosition
    <2>7. QED
      BY <2>4, <2>5, <2>6 DEF p
  <1>3. QED
    BY <1>2, Zenon DEF Field, Encode

\* Nothing has been read at first.
LEMMA InitReadingInv ==
  ASSUME SettingTable, Init
  PROVE  ReadingInv
  BY ZeroInRange DEF Init, ReadingInv, NoReading

\* When the worker lets go of the mutex the buffer is the frame it received.
LEMMA CopyUnlockReadingInv ==
  ASSUME IInv, ReadingInv, CopyUnlock, \A f \in Frames : InRange(f)
  PROVE  ReadingInv'
  <1>1. buffer \in Buffer /\ temp_buffer \in Buffer
    BY DEF IInv, TypeOK
  <1>2. \A B \in ByteIndex : buffer[B] = temp_buffer[B]
    BY DEF CopyUnlock, IInv, CopiedInv, ByteIndex
  <1>3. buffer = temp_buffer /\ temp_buffer \in Frames
    BY <1>1, <1>2 DEF Buffer, CopyUnlock, IInv, FrameInv
  <1>4. InRange(buffer)
    BY <1>3
  <1>5. buffer' = buffer /\ result' = result
    BY DEF CopyUnlock, guiVars
  <1>6. QED
    BY <1>4, <1>5 DEF ReadingInv

\* When a getter returns, the worker is outside of memcpy.
LEMMA ExtractUnlockReadingInv ==
  ASSUME SettingTable, IInv, ReadingInv, ExtractUnlock
  PROVE  ReadingInv'
  <1>1. /\ guiPc = "loop" /\ signal \in Signal
        /\ cursor.i = BitSize[signal]
        /\ workerPc # "copy"
    BY DEF ExtractUnlock, IInv, CursorInv, MutexInv
  <1>2. InRange(buffer)
    BY <1>1 DEF ReadingInv
  <1>3. \A j \in BitIndex :
          data[j] = IF j < BitSize[signal]
                    THEN BufferBit(buffer, BitOffset[signal] + j) ELSE 0
    BY <1>1 DEF IInv, ExtractedInv
  <1>4. Carries(Extended(signal, data), signal)
    BY <1>1, <1>2, <1>3, FieldCarries
  <1>5. /\ result' = [sig |-> signal, byte |-> Extended(signal, data)]
        /\ buffer' = buffer
    BY DEF ExtractUnlock
  <1>6. result'.sig = signal /\ result'.byte = Extended(signal, data)
    BY <1>5
  <1>7. QED
    BY <1>2, <1>4, <1>5, <1>6 DEF ReadingInv

\* No step leaves a reading that is not a value.
LEMMA StepReadingInv ==
  ASSUME SettingTable, \A f \in Frames : InRange(f),
         IInv, ReadingInv, [Next]_vars
  PROVE  ReadingInv'
  <1> USE DEF ReadingInv, guiVars, workerVars
  <1>1. ASSUME NEW f \in Frames, Receive(f) PROVE ReadingInv'
    BY <1>1 DEF Receive
  <1>2. ASSUME NEW s \in Signal, CallGet(s) PROVE ReadingInv'
    BY <1>2 DEF CallGet
  <1>3. CASE ExtractLock
    BY <1>3 DEF ExtractLock
  <1>4. CASE ExtractBit
    BY <1>4 DEF ExtractBit
  <1>5. CASE ExtractUnlock
    BY <1>5, ExtractUnlockReadingInv
  <1>6. CASE CopyLock
    BY <1>6 DEF CopyLock
  <1>7. CASE CopyByte
    BY <1>7 DEF CopyByte
  <1>8. CASE CopyUnlock
    BY <1>8, CopyUnlockReadingInv
  <1>9. CASE UNCHANGED vars
    BY <1>9 DEF vars
  <1>10. QED
    BY <1>1, <1>2, <1>3, <1>4, <1>5, <1>6, <1>7, <1>8, <1>9
       DEF Next, GuiStep, WorkerStep

\* Any value of any signal comes back from its own encoding.
LEMMA DecodesEvery ==
  ASSUME SettingTable, NEW s \in Signal, NEW w \in SignalRange(s)
  PROVE  Decoded(Encode(w, s), s) = w
  <1> DEFINE byte == [b \in BitIndex |-> IF b < BitSize[s] THEN Encode(w, s)[b] ELSE 0]
  <1>1. ASSUME NEW b \in BitIndex
        PROVE  byte[b] = IF b < BitSize[s] THEN BitOf(w, b) ELSE 0
    BY LayoutAssumption DEF Encode, BitIndex
  <1>2. Decoded(Encode(w, s), s) = Returned(s, Extended(s, byte))
    BY DEF Decoded
  <1> HIDE DEF byte
  <1>3. \A b \in BitIndex : Extended(s, byte)[b] = BitOf(w, b)
    BY <1>1, BitsExtended
  <1>4. QED
    BY <1>2, <1>3, BitsReturned

\* What the invariant says of the last reading.
LEMMA ReadingIsValue ==
  ASSUME SettingTable, IInv, ReadingInv
  PROVE  RoundTrip
  <1> DEFINE s == result.sig
             v == Returned(s, result.byte)
  <1> SUFFICES ASSUME s # "none"
               PROVE  /\ v \in SignalRange(s)
                      /\ Encode(v, s) = [j \in 0 .. BitSize[s] - 1 |-> result.byte[j]]
                      /\ \A w \in SignalRange(s) : Decoded(Encode(w, s), s) = w
    BY DEF RoundTrip
  <1>1. s \in Signal
    BY DEF IInv, TypeOK, Reading, NoReading
  <1>2. PICK w \in SignalRange(s) : \A b \in BitIndex : result.byte[b] = BitOf(w, b)
    BY DEF ReadingInv, Carries
  <1>3. v = w
    BY <1>1, <1>2, BitsReturned
  <1>4. 0 .. BitSize[s] - 1 \subseteq BitIndex
    BY <1>1, LayoutAssumption, FramesAssumption DEF BitIndex, CHAR_BIT
  <1> HIDE DEF v, s
  <1>5. Encode(w, s) = [j \in 0 .. BitSize[s] - 1 |-> result.byte[j]]
    BY <1>2, <1>4 DEF Encode
  <1>6. QED
    BY <1>1, <1>2, <1>3, <1>5, DecodesEvery

\* With the signal table of setting.h, and from any server that sets every
\* signal inside its range, whatever a getter returns is a value of its signal,
\* and the one whose encoding it read: the bit loop, the sign extension of
\* get_temperature and the int8_t its byte is read as undo insert, for all the
\* values of all the signals and not only the frames of a run.
THEOREM ReadingsRoundTrip ==
  ASSUME SettingTable, \A f \in Frames : InRange(f)
  PROVE  Spec => []RoundTrip
  <1>1. Init => IInv /\ ReadingInv
    BY InitIInv, InitReadingInv
  <1>2. IInv /\ ReadingInv /\ [Next]_vars => (IInv /\ ReadingInv)'
    BY StepIInv, StepReadingInv
  <1>3. IInv /\ ReadingInv => RoundTrip
    BY ReadingIsValue
  <1>4. QED
    BY <1>1, <1>2, <1>3, PTL DEF Spec
=============================================================================
