----------------------- MODULE ServerComServiceProofs -----------------------
(***************************************************************************)
(* Proofs about ServerComService, for every signal table that satisfies    *)
(* LayoutAssumption and every set of integer inputs.                       *)
(***************************************************************************)
EXTENDS ServerComService, TLAPS

\* The holder of the mutex is the thread inside its critical section.
MutexInv ==
  /\ buffer_mtx = "gui" <=> guiPc = "loop"
  /\ buffer_mtx = "worker" <=> workerPc = "copy"

\* A setter in progress was called with an input of its signal.
CallInv ==
  guiPc # "idle" => call.sig \in Signal /\ call.data \in Inputs[call.sig]

\* The cursor of insert points at bit i of the field being written.
CursorInv ==
  guiPc # "idle" =>
    /\ call \in Call
    /\ cursor.i <= BitSize[call.sig]
    /\ cursor.bit_index \in BitIndex
    /\ cursor.byte_index * CHAR_BIT + cursor.bit_index
         = BitOffset[call.sig] + cursor.i
    /\ guiPc = "lock" => cursor.i = 0

\* The bits the loop has passed hold the new value.
InsertedInv ==
  guiPc = "loop" =>
    \A j \in 0 .. cursor.i - 1 :
      BufferBit(buffer, BitOffset[call.sig] + j) = BitOf(call.data, j)

\* The bytes memcpy has passed are those of the buffer.
CopiedInv ==
  workerPc = "copy" =>
    \A B \in 0 .. copied - 1 : temp_buffer[B] = buffer[B]

IInv == TypeOK /\ MutexInv /\ CallInv /\ CursorInv /\ InsertedInv /\ CopiedInv

-----------------------------------------------------------------------------
(* Where bits are, and what the cursor of the loop does.                   *)

\* Every bit of a field is a bit of the buffer.
LEMMA FieldInside ==
  ASSUME NEW s \in Signal, NEW j \in 0 .. BitSize[s] - 1
  PROVE  /\ BitOffset[s] + j \in Nat
         /\ BitOffset[s] + j < CHAR_BIT * BUFFLEN
         /\ BitOffset[s] + j \in FieldBits(s)
  BY LayoutAssumption DEF FieldBits, CHAR_BIT

\* A bit position has one byte index and one bit index.
LEMMA SplitPosition ==
  ASSUME NEW B \in Nat, NEW b \in BitIndex
  PROVE  /\ (B * CHAR_BIT + b) \div CHAR_BIT = B
         /\ (B * CHAR_BIT + b) % CHAR_BIT = b
  BY DEF BitIndex, CHAR_BIT

\* The two indices of a position inside the frame, and back.
LEMMA JoinPosition ==
  ASSUME NEW p \in Nat, p < CHAR_BIT * BUFFLEN
  PROVE  /\ p \div CHAR_BIT \in ByteIndex
         /\ p % CHAR_BIT \in BitIndex
         /\ (p \div CHAR_BIT) * CHAR_BIT + (p % CHAR_BIT) = p
  BY LayoutAssumption DEF BitIndex, ByteIndex, CHAR_BIT

\* Writing bit b of byte B changes the bit at that position and no other.
LEMMA WriteBit ==
  ASSUME NEW buf \in Buffer, NEW B \in ByteIndex, NEW b \in BitIndex,
         NEW x \in {0, 1},
         NEW p \in Nat, p < CHAR_BIT * BUFFLEN
  PROVE  /\ SetBit(buf, B, b, x) \in Buffer
         /\ BufferBit(SetBit(buf, B, b, x), p)
              = IF p = B * CHAR_BIT + b THEN x ELSE BufferBit(buf, p)
  <1> DEFINE new == SetBit(buf, B, b, x)
  <1>1. B \in Nat
    BY LayoutAssumption DEF ByteIndex
  <1>2. new \in Buffer
    BY DEF Buffer, Byte, SetBit
  <1>3. CASE p = B * CHAR_BIT + b
    <2>1. p \div CHAR_BIT = B /\ p % CHAR_BIT = b
      BY <1>1, <1>3, SplitPosition
    <2>2. QED
      BY <1>2, <1>3, <2>1 DEF BufferBit, Buffer, Byte, SetBit
  <1>4. CASE p # B * CHAR_BIT + b
    <2>1. p \div CHAR_BIT \in ByteIndex /\ p % CHAR_BIT \in BitIndex
      BY JoinPosition
    <2>2. p \div CHAR_BIT # B \/ p % CHAR_BIT # b
      BY <1>4, JoinPosition
    <2>3. QED
      BY <1>2, <1>4, <2>1, <2>2 DEF BufferBit, Buffer, Byte, SetBit
  <1>5. QED
    BY <1>2, <1>3, <1>4

\* The bit a value puts into a field is 0 or 1.
LEMMA BitOfType ==
  ASSUME NEW d, NEW i
  PROVE  BitOf(d, i) \in {0, 1}
  BY DEF BitOf

\* The loop body moves the cursor one position on.
LEMMA NextCursorStep ==
  ASSUME NEW c \in Cursor, c.bit_index \in BitIndex
  PROVE  /\ NextCursor(c) \in Cursor
         /\ NextCursor(c).i = c.i + 1
         /\ NextCursor(c).bit_index \in BitIndex
         /\ NextCursor(c).byte_index * CHAR_BIT + NextCursor(c).bit_index
              = c.byte_index * CHAR_BIT + c.bit_index + 1
  BY DEF NextCursor, Cursor, BitIndex, CHAR_BIT

\* The cursor starts at the first bit of the field.
LEMMA StartCursorStep ==
  ASSUME NEW s \in Signal
  PROVE  /\ StartCursor(s) \in Cursor
         /\ StartCursor(s).i = 0
         /\ StartCursor(s).bit_index \in BitIndex
         /\ StartCursor(s).byte_index * CHAR_BIT + StartCursor(s).bit_index
              = BitOffset[s]
  BY LayoutAssumption DEF StartCursor, Cursor, BitIndex, CHAR_BIT

\* Two signals never own the same bit.
LEMMA FieldsDisjoint ==
  ASSUME NEW s \in Signal, NEW i \in 0 .. BitSize[s] - 1,
         NEW t \in Signal, NEW j \in 0 .. BitSize[t] - 1,
         BitOffset[s] + i = BitOffset[t] + j
  PROVE  s = t /\ i = j
  <1>1. BitOffset[s] + i \in FieldBits(s) /\ BitOffset[t] + j \in FieldBits(t)
    BY FieldInside
  <1>2. s = t
    BY <1>1, LayoutAssumption
  <1>3. QED
    BY <1>2, LayoutAssumption

-----------------------------------------------------------------------------
(* The effect of one iteration.                                            *)

\* While the loop still has bits to write, its cursor is inside the frame.
LEMMA CursorInside ==
  ASSUME TypeOK, CursorInv, guiPc = "loop", cursor.i < BitSize[call.sig]
  PROVE  /\ call \in Call
         /\ cursor.i \in 0 .. BitSize[call.sig] - 1
         /\ cursor.byte_index \in ByteIndex
         /\ cursor.bit_index \in BitIndex
         /\ cursor.byte_index * CHAR_BIT + cursor.bit_index
              = BitOffset[call.sig] + cursor.i
  <1>1. call \in Call /\ call.sig \in Signal
    BY DEF CursorInv, Call
  <1>2. cursor.i \in 0 .. BitSize[call.sig] - 1
    BY <1>1, LayoutAssumption DEF TypeOK, Cursor
  <1>3. BitOffset[call.sig] + cursor.i < CHAR_BIT * BUFFLEN
    BY <1>1, <1>2, FieldInside
  <1>4. /\ cursor.bit_index \in BitIndex
        /\ cursor.byte_index * CHAR_BIT + cursor.bit_index
             = BitOffset[call.sig] + cursor.i
    BY DEF CursorInv
  <1>5. cursor.byte_index \in ByteIndex
    BY <1>3, <1>4, LayoutAssumption DEF TypeOK, Cursor, ByteIndex, BitIndex, CHAR_BIT
  <1>6. QED
    BY <1>1, <1>2, <1>4, <1>5

\* One iteration of insert's loop writes one bit of the signal it was called
\* for and leaves every other bit of every field alone.
LEMMA InsertBitEffect ==
  ASSUME TypeOK, CursorInv, InsertBit
  PROVE  /\ buffer' \in Buffer
         /\ \A t \in Signal : \A j \in 0 .. BitSize[t] - 1 :
              BufferBit(buffer', BitOffset[t] + j)
                = IF t = call.sig /\ j = cursor.i
                  THEN BitOf(call.data, j)
                  ELSE BufferBit(buffer, BitOffset[t] + j)
  <1> DEFINE B == cursor.byte_index
             b == cursor.bit_index
             x == BitOf(call.data, cursor.i)
  <1>1. /\ call.sig \in Signal
        /\ cursor.i \in 0 .. BitSize[call.sig] - 1
        /\ B \in ByteIndex
        /\ b \in BitIndex
        /\ B * CHAR_BIT + b = BitOffset[call.sig] + cursor.i
    BY CursorInside DEF InsertBit, Call
  <1>2. x \in {0, 1}
    BY BitOfType
  <1>3. buffer \in Buffer /\ buffer' = SetBit(buffer, B, b, x)
    BY DEF TypeOK, InsertBit
  <1> HIDE DEF B, b, x
  <1>4. ASSUME NEW p \in Nat, p < CHAR_BIT * BUFFLEN
        PROVE  /\ buffer' \in Buffer
               /\ BufferBit(buffer', p)
                    = IF p = B * CHAR_BIT + b THEN x ELSE BufferBit(buffer, p)
    BY <1>1, <1>2, <1>3, <1>4, WriteBit
  <1>5. buffer' \in Buffer
    <2>1. 0 \in Nat /\ 0 < CHAR_BIT * BUFFLEN
      BY LayoutAssumption DEF CHAR_BIT
    <2>2. QED
      BY <1>4, <2>1
  <1>6. ASSUME NEW t \in Signal, NEW j \in 0 .. BitSize[t] - 1
        PROVE  BufferBit(buffer', BitOffset[t] + j)
                 = IF t = call.sig /\ j = cursor.i
                   THEN BitOf(call.data, j)
                   ELSE BufferBit(buffer, BitOffset[t] + j)
    <2>1. BufferBit(buffer', BitOffset[t] + j)
            = IF BitOffset[t] + j = B * CHAR_BIT + b
              THEN x ELSE BufferBit(buffer, BitOffset[t] + j)
      BY <1>4, FieldInside
    <2>2. BitOffset[t] + j = B * CHAR_BIT + b <=> t = call.sig /\ j = cursor.i
      BY <1>1, FieldsDisjoint
    <2>3. QED
      BY <2>1, <2>2 DEF x
  <1>7. QED
    BY <1>5, <1>6

-----------------------------------------------------------------------------
(* The inductive invariant.                                                *)

\* No call is under way and nothing is copied.
LEMMA InitIInv == Init => IInv
  <1> SUFFICES ASSUME Init PROVE IInv
    OBVIOUS
  <1>1. ZeroBuffer \in Buffer
    BY DEF ZeroBuffer, Buffer, Byte
  <1>2. TypeOK
    BY <1>1, LayoutAssumption DEF Init, TypeOK, Cursor
  <1>3. QED
    BY <1>2 DEF Init, IInv, MutexInv, CallInv, CursorInv, InsertedInv, CopiedInv

\* The setters and the worker, in any order, keep the invariant.
LEMMA StepIInv == IInv /\ [Next]_vars => IInv'
  <1> SUFFICES ASSUME IInv, [Next]_vars PROVE IInv'
    OBVIOUS
  <1> USE DEF IInv, guiVars, workerVars
  <1>1. ASSUME NEW s \in Signal, NEW v \in Inputs[s], CallSet(s, v) PROVE IInv'
    <2>1. call' \in Call
      BY <1>1, InputsAssumption DEF CallSet, Call
    <2>2. TypeOK'
      BY <1>1, <2>1, StartCursorStep DEF CallSet, TypeOK
    <2>3. CursorInv'
      <3>1. call'.sig = s /\ cursor' = StartCursor(s) /\ BitOffset[s] \in Nat
            /\ BitSize[s] \in Nat
        BY <1>1, LayoutAssumption DEF CallSet
      <3>2. QED
        BY <2>1, <3>1, StartCursorStep DEF CursorInv, CHAR_BIT, Cursor
    <2>4. MutexInv' /\ CallInv' /\ InsertedInv' /\ CopiedInv'
      BY <1>1 DEF CallSet, TypeOK, MutexInv, CallInv, InsertedInv, CopiedInv
    <2>5. QED
      BY <2>2, <2>3, <2>4
  <1>2. CASE InsertLock
    <2>1. TypeOK' /\ MutexInv' /\ CallInv' /\ CursorInv' /\ CopiedInv'
      BY <1>2 DEF InsertLock, TypeOK, MutexInv, CallInv, CursorInv, CopiedInv
    <2>2. cursor'.i = 0
      BY <1>2 DEF InsertLock, CursorInv
    <2>3. InsertedInv'
      BY <2>2 DEF InsertedInv
    <2>4. QED
      BY <2>1, <2>3
  <1>3. CASE InsertBit
    <2>1. /\ call \in Call /\ call.sig \in Signal
          /\ cursor.i \in 0 .. BitSize[call.sig] - 1
          /\ cursor.bit_index \in BitIndex
          /\ BitSize[call.sig] \in Nat /\ BitOffset[call.sig] \in Nat
      BY <1>3, CursorInside, LayoutAssumption DEF InsertBit, Call
    <2>2. buffer' \in Buffer
      BY <1>3, InsertBitEffect
    <2>3. cursor \in Cursor /\ cursor' = NextCursor(cursor) /\ call' = call
      BY <1>3 DEF InsertBit, TypeOK
    <2>4. TypeOK'
      BY <1>3, <2>1, <2>2, <2>3, NextCursorStep DEF InsertBit, TypeOK
    <2>5. CursorInv'
      <3>1. /\ cursor'.i = cursor.i + 1
            /\ cursor'.bit_index \in BitIndex
            /\ cursor'.byte_index * CHAR_BIT + cursor'.bit_index
                 = cursor.byte_index * CHAR_BIT + cursor.bit_index + 1
        BY <2>1, <2>3, NextCursorStep
      <3>2. cursor.byte_index * CHAR_BIT + cursor.bit_index
              = BitOffset[call.sig] + cursor.i
        BY <1>3 DEF InsertBit, CursorInv
      <3>3. cursor'.byte_index * CHAR_BIT + cursor'.bit_index
              = BitOffset[call'.sig] + cursor'.i
        BY <2>1, <2>3, <3>1, <3>2
      <3>4. cursor'.i <= BitSize[call'.sig]
        BY <2>1, <2>3, <3>1
      <3>5. guiPc' = "loop"
        BY <1>3 DEF InsertBit
      <3>6. QED
        BY <2>1, <2>3, <3>1, <3>3, <3>4, <3>5 DEF CursorInv
    <2>6. InsertedInv'
      <3>1. ASSUME NEW j \in 0 .. cursor.i
            PROVE  BufferBit(buffer', BitOffset[call.sig] + j) = BitOf(call.data, j)
        <4>1. j \in 0 .. BitSize[call.sig] - 1
          BY <2>1
        <4>2. BufferBit(buffer', BitOffset[call.sig] + j)
                = IF j = cursor.i THEN BitOf(call.data, j)
                  ELSE BufferBit(buffer, BitOffset[call.sig] + j)
          BY <1>3, <2>1, <4>1, InsertBitEffect
        <4>3. j # cursor.i => BufferBit(buffer, BitOffset[call.sig] + j)
                                = BitOf(call.data, j)
          BY <1>3, <2>1 DEF InsertedInv, InsertBit
        <4>4. QED
          BY <4>2, <4>3
      <3>2. cursor'.i - 1 = cursor.i
        BY <2>1, <2>3, NextCursorStep
      <3>3. QED
        BY <2>3, <3>1, <3>2 DEF InsertedInv
    <2>7. MutexInv' /\ CallInv' /\ CopiedInv'
      BY <1>3 DEF InsertBit, MutexInv, CallInv, CopiedInv
    <2>8. QED
      BY <2>4, <2>5, <2>6, <2>7
  <1>4. CASE InsertUnlock
    BY <1>4 DEF InsertUnlock, TypeOK, MutexInv, CallInv, CursorInv, InsertedInv, CopiedInv
  <1>5. CASE CopyLock
    <2>1. TypeOK' /\ copied' = 0
      BY <1>5, LayoutAssumption DEF CopyLock, TypeOK
    <2>2. CopiedInv'
      BY <2>1 DEF CopiedInv
    <2>3. MutexInv' /\ CallInv' /\ CursorInv' /\ InsertedInv'
      BY <1>5 DEF CopyLock, MutexInv, CallInv, CursorInv, InsertedInv
    <2>4. QED
      BY <2>1, <2>2, <2>3
  <1>6. CASE CopyByte
    <2>1. copied \in ByteIndex /\ copied' \in 0 .. BUFFLEN
      BY <1>6, LayoutAssumption DEF CopyByte, TypeOK, ByteIndex
    <2>2. TypeOK'
      BY <1>6, <2>1 DEF CopyByte, TypeOK, Buffer
    <2>3. CopiedInv'
      BY <1>6, <2>1, LayoutAssumption DEF CopyByte, CopiedInv, TypeOK, Buffer, ByteIndex
    <2>4. MutexInv' /\ CallInv' /\ CursorInv' /\ InsertedInv'
      BY <1>6 DEF CopyByte, MutexInv, CallInv, CursorInv, InsertedInv
    <2>5. QED
      BY <2>2, <2>3, <2>4
  <1>7. CASE CopyUnlock
    BY <1>7 DEF CopyUnlock, TypeOK, MutexInv, CallInv, CursorInv, InsertedInv, CopiedInv
  <1>8. CASE Send
    BY <1>8 DEF Send, TypeOK, MutexInv, CallInv, CursorInv, InsertedInv, CopiedInv
  <1>9. CASE UNCHANGED vars
    BY <1>9 DEF vars, TypeOK, MutexInv, CallInv, CursorInv, InsertedInv, CopiedInv
  <1>10. QED
    BY <1>1, <1>2, <1>3, <1>4, <1>5, <1>6, <1>7, <1>8, <1>9
       DEF Next, GuiStep, WorkerStep

\* The inductive invariant holds for every interleaving.
LEMMA InductiveInvariant == Spec => []IInv
  BY InitIInv, StepIInv, PTL DEF Spec

\* Every variable keeps its type: in particular, no interleaving of insert and
\* memcpy ever puts anything but bits into either buffer.
THEOREM TypeCorrect == Spec => []TypeOK
  <1>1. IInv => TypeOK
    BY DEF IInv
  <1>2. QED
    BY <1>1, InductiveInvariant, PTL

\* insert never indexes outside the frame.
THEOREM InsertStaysInside == Spec => []NoOverrun
  <1>1. IInv => NoOverrun
    BY CursorInside DEF IInv, NoOverrun
  <1>2. QED
    BY <1>1, InductiveInvariant, PTL

-----------------------------------------------------------------------------
(* Refinement.                                                             *)

\* An iteration of insert's loop is invisible: the signal being written
\* already counts as changed, and no other field has lost a bit.
LEMMA InsertBitStutters ==
  ASSUME IInv, InsertBit PROVE UNCHANGED <<valueBar, frameBar>>
  <1>1. guiPc = "loop" /\ guiPc' = "loop" /\ call' = call
    BY DEF InsertBit
  <1>2. ASSUME NEW s \in Signal, s # call.sig
        PROVE  Field(buffer', s) = Field(buffer, s)
    <2>1. ASSUME NEW j \in 0 .. BitSize[s] - 1
          PROVE  BufferBit(buffer', BitOffset[s] + j)
                   = BufferBit(buffer, BitOffset[s] + j)
      BY <1>2, InsertBitEffect DEF IInv
    <2>2. QED
      BY <2>1 DEF Field
  <1>3. valueBar' = valueBar
    BY <1>1, <1>2 DEF valueBar, Encode
  <1>4. workerPc # "copy" /\ workerPc' = workerPc /\ temp_buffer' = temp_buffer
    BY <1>1 DEF IInv, MutexInv, InsertBit, workerVars
  <1>5. frameBar' = frameBar
    BY <1>4 DEF frameBar
  <1>6. QED
    BY <1>3, <1>5

\* Releasing the mutex shows nothing new: the field holds the value by then.
LEMMA InsertUnlockStutters ==
  ASSUME IInv, InsertUnlock PROVE UNCHANGED <<valueBar, frameBar>>
  <1>1. /\ guiPc = "loop" /\ guiPc' = "idle"
        /\ UNCHANGED <<buffer, workerPc, temp_buffer>>
        /\ cursor.i = BitSize[call.sig]
    BY DEF InsertUnlock, workerVars
  <1>2. Field(buffer, call.sig) = Encode(call.data, call.sig)
    BY <1>1 DEF IInv, InsertedInv, Field, Encode
  <1>3. valueBar' = valueBar
    BY <1>1, <1>2 DEF valueBar, Field
  <1>4. QED
    BY <1>1, <1>3 DEF frameBar

\* Releasing the mutex after memcpy shows nothing new: the copy is complete.
LEMMA CopyUnlockStutters ==
  ASSUME IInv, CopyUnlock PROVE UNCHANGED <<valueBar, frameBar>>
  <1>1. /\ workerPc = "copy" /\ workerPc' = "send" /\ copied = BUFFLEN
        /\ UNCHANGED <<buffer, temp_buffer, guiPc, call>>
    BY DEF CopyUnlock, guiVars
  <1>2. temp_buffer = buffer
    <2>1. \A B \in ByteIndex : temp_buffer[B] = buffer[B]
      BY <1>1 DEF IInv, CopiedInv, ByteIndex
    <2>2. temp_buffer \in Buffer /\ buffer \in Buffer
      BY DEF IInv, TypeOK
    <2>3. QED
      BY <2>1, <2>2 DEF Buffer
  <1>3. valueBar' = valueBar
    BY <1>1 DEF valueBar
  <1>4. QED
    BY <1>1, <1>2, <1>3 DEF frameBar

\* Taking the mutex in insert is the moment the register changes.
LEMMA InsertLockSets ==
  ASSUME IInv, InsertLock PROVE Register!Set(call.sig, call.data)
  <1>1. /\ guiPc = "lock" /\ guiPc' = "loop"
        /\ UNCHANGED <<buffer, call, workerPc, temp_buffer>>
    BY DEF InsertLock, workerVars
  <1>2. call.sig \in Signal
    BY <1>1 DEF IInv, CallInv
  <1>3. valueBar' = [valueBar EXCEPT ![call.sig] = Encode(call.data, call.sig)]
    BY <1>1, <1>2 DEF valueBar
  <1>4. workerPc # "copy"
    BY DEF InsertLock, IInv, MutexInv
  <1>5. frameBar' = frameBar
    BY <1>1, <1>4 DEF frameBar
  <1>6. Register!Encode(call.data, call.sig) = Encode(call.data, call.sig)
    BY DEF Register!Encode, Encode, Register!BitOf, BitOf
  <1>7. QED
    BY <1>3, <1>5, <1>6 DEF Register!Set

\* Taking the mutex for memcpy is the moment of the snapshot.
LEMMA CopyLockSnapshots ==
  ASSUME IInv, CopyLock PROVE Register!Snapshot
  <1>1. /\ workerPc' = "copy" /\ buffer_mtx = "free"
        /\ UNCHANGED <<buffer, call, guiPc>>
    BY DEF CopyLock, guiVars
  <1>2. guiPc # "loop"
    BY <1>1 DEF IInv, MutexInv
  <1>3. valueBar = AllFields(buffer) /\ valueBar' = valueBar
    BY <1>1, <1>2 DEF valueBar, AllFields
  <1>4. frameBar' = AllFields(buffer)
    BY <1>1 DEF frameBar
  <1>5. QED
    BY <1>3, <1>4 DEF Register!Snapshot

\* The all-zero buffer is the register in which every field is clear.
LEMMA InitRefines == Init => Register!Init
  <1> SUFFICES ASSUME Init PROVE Register!Init
    OBVIOUS
  <1>1. ASSUME NEW s \in Signal
        PROVE  Field(ZeroBuffer, s) = ZeroField(s)
    <2>1. ASSUME NEW j \in 0 .. BitSize[s] - 1
          PROVE  BufferBit(ZeroBuffer, BitOffset[s] + j) = 0
      BY FieldInside, JoinPosition DEF BufferBit, ZeroBuffer
    <2>2. QED
      BY <2>1 DEF Field, ZeroField
  <1>2. valueBar = [s \in Signal |-> ZeroField(s)]
    BY <1>1 DEF Init, valueBar
  <1>3. frameBar = [s \in Signal |-> ZeroField(s)]
    BY <1>1 DEF Init, frameBar, AllFields
  <1>4. QED
    BY <1>2, <1>3 DEF Register!Init, Register!ZeroField, ZeroField

\* Every other step of the two threads is invisible as well.
LEMMA StepRefines ==
  IInv /\ [Next]_vars => [Register!Next]_(Register!vars)
  <1> SUFFICES ASSUME IInv, [Next]_vars PROVE [Register!Next]_(Register!vars)
    OBVIOUS
  <1> USE DEF Register!vars, guiVars, workerVars
  <1>1. ASSUME NEW s \in Signal, NEW v \in Inputs[s], CallSet(s, v)
        PROVE  UNCHANGED <<valueBar, frameBar>>
    BY <1>1 DEF CallSet, valueBar, frameBar
  <1>2. CASE InsertLock
    <2>1. call.sig \in Signal /\ call.data \in Inputs[call.sig]
      BY <1>2 DEF InsertLock, IInv, CallInv
    <2>2. QED
      BY <1>2, <2>1, InsertLockSets DEF Register!Next
  <1>3. CASE InsertBit
    BY <1>3, InsertBitStutters
  <1>4. CASE InsertUnlock
    BY <1>4, InsertUnlockStutters
  <1>5. CASE CopyLock
    BY <1>5, CopyLockSnapshots DEF Register!Next
  <1>6. CASE CopyByte
    BY <1>6 DEF CopyByte, valueBar, frameBar
  <1>7. CASE CopyUnlock
    BY <1>7, CopyUnlockStutters
  <1>8. CASE Send
    BY <1>8 DEF Send, valueBar, frameBar
  <1>9. CASE UNCHANGED vars
    BY <1>9 DEF vars, valueBar, frameBar
  <1>10. QED
    BY <1>1, <1>2, <1>3, <1>4, <1>5, <1>6, <1>7, <1>8, <1>9
       DEF Next, GuiStep, WorkerStep

\* insert's bit loop and the worker's memcpy implement the atomic register,
\* for every table of disjoint fields: no frame is torn, no setter disturbs a
\* neighbouring signal.
THEOREM RegisterImplemented == Spec => ImplementsRegister
  <1>1. Spec => Register!Spec
    BY InitRefines, StepRefines, InductiveInvariant, PTL DEF Spec, Register!Spec
  <1>2. QED
    BY <1>1 DEF ImplementsRegister
=============================================================================
