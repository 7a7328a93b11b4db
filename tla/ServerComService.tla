-------------------------- MODULE ServerComService --------------------------
(***************************************************************************)
(* The server's ComService (desktop/server/src/comservice.cpp): the frame  *)
(* buffer shared by the GUI thread, which calls the setters, and the       *)
(* worker thread of TCPService or UARTService, which copies the buffer     *)
(* and sends the copy.  insert() writes bit by bit and memcpy copies byte  *)
(* by byte; buffer_mtx alone keeps the two apart.                          *)
(***************************************************************************)
EXTENDS Frame

CONSTANT Inputs        \* Inputs[s]: the values the setters are called with

ASSUME InputsAssumption ==
  \A s \in Signal : Inputs[s] \subseteq Int

VARIABLES
  buffer,       \* ComService::buffer
  buffer_mtx,   \* its holder: "free", "gui" or "worker"
  guiPc,        \* the GUI thread: "idle", "lock" (entering insert), "loop"
  call,         \* the arguments of the current setter call
  cursor,       \* the loop's i, byte_index and bit_index
  workerPc,     \* the worker: "lock" (before the lock), "copy", "send"
  copied,       \* bytes memcpy has copied so far
  temp_buffer   \* the worker's private copy, the frame it sends

vars == <<buffer, buffer_mtx, guiPc, call, cursor,
          workerPc, copied, temp_buffer>>

guiVars    == <<guiPc, call, cursor>>
workerVars == <<workerPc, copied, temp_buffer>>

NoCall == [sig |-> "none", data |-> 0]
Call   == [sig : Signal, data : Int]

Init ==
  /\ buffer = ZeroBuffer
  /\ buffer_mtx = "free"
  /\ guiPc = "idle"
  /\ call = NoCall
  /\ cursor = [i |-> 0, byte_index |-> 0, bit_index |-> 0]
  /\ workerPc = "lock"
  /\ copied = 0
  /\ temp_buffer = ZeroBuffer

-----------------------------------------------------------------------------
(* The GUI thread.                                                         *)

\* setSpeed, setTemperature, setBatteryLevel, setLeftLight, setRightLight:
\* look the signal up and enter insert with its field and the new value.
CallSet(s, v) ==
  /\ guiPc = "idle"
  /\ call' = [sig |-> s, data |-> v]
  /\ cursor' = StartCursor(s)
  /\ guiPc' = "lock"
  /\ UNCHANGED <<buffer, buffer_mtx, workerVars>>

\* std::scoped_lock in insert.
InsertLock ==
  /\ guiPc = "lock"
  /\ buffer_mtx = "free"
  /\ buffer_mtx' = "gui"
  /\ guiPc' = "loop"
  /\ UNCHANGED <<buffer, call, cursor, workerVars>>

\* One iteration of insert's loop: clear or set one bit, move the cursor.
InsertBit ==
  /\ guiPc = "loop"
  /\ cursor.i < BitSize[call.sig]
  /\ buffer' = SetBit(buffer, cursor.byte_index, cursor.bit_index,
                      BitOf(call.data, cursor.i))
  /\ cursor' = NextCursor(cursor)
  /\ UNCHANGED <<buffer_mtx, guiPc, call, workerVars>>

\* The loop is over: the scoped_lock is released and insert returns.
InsertUnlock ==
  /\ guiPc = "loop"
  /\ cursor.i = BitSize[call.sig]
  /\ buffer_mtx' = "free"
  /\ guiPc' = "idle"
  /\ UNCHANGED <<buffer, call, cursor, workerVars>>

-----------------------------------------------------------------------------
(* The worker thread: the locked memcpy of both run() loops.               *)

\* Mutant: memcpy without the lock.
CopyLockMissing ==
  /\ workerPc = "lock"
  /\ workerPc' = "copy"
  /\ copied' = 0
  /\ UNCHANGED <<buffer, buffer_mtx, temp_buffer, guiVars>>

\* The scoped_lock before memcpy.
CopyLock ==
  /\ workerPc = "lock"
  /\ buffer_mtx = "free"
  /\ buffer_mtx' = "worker"
  /\ workerPc' = "copy"
  /\ copied' = 0
  /\ UNCHANGED <<buffer, temp_buffer, guiVars>>

CopyByte ==
  /\ workerPc = "copy"
  /\ copied < BUFFLEN
  /\ temp_buffer' = [temp_buffer EXCEPT ![copied] = buffer[copied]]
  /\ copied' = copied + 1
  /\ UNCHANGED <<buffer, buffer_mtx, workerPc, guiVars>>

\* Mutant: memcpy of one byte too few.
CopyUnlockEarly ==
  /\ workerPc = "copy"
  /\ copied = BUFFLEN - 1
  /\ buffer_mtx' = "free"
  /\ workerPc' = "send"
  /\ UNCHANGED <<buffer, copied, temp_buffer, guiVars>>

\* memcpy is complete and the scoped_lock ends.
CopyUnlock ==
  /\ workerPc = "copy"
  /\ copied = BUFFLEN
  /\ buffer_mtx' = "free"
  /\ workerPc' = "send"
  /\ UNCHANGED <<buffer, copied, temp_buffer, guiVars>>

\* send() or serial.write() of temp_buffer outside the lock, the pause, and
\* around the loop again.
Send ==
  /\ workerPc = "send"
  /\ workerPc' = "lock"
  /\ UNCHANGED <<buffer, buffer_mtx, copied, temp_buffer, guiVars>>

-----------------------------------------------------------------------------

GuiStep    == InsertLock \/ InsertBit \/ InsertUnlock
WorkerStep == CopyLock \/ CopyByte \/ CopyUnlock \/ Send

Next == \/ \E s \in Signal : \E v \in Inputs[s] : CallSet(s, v)
        \/ GuiStep
        \/ WorkerStep

Spec == Init /\ [][Next]_vars

(* Both threads keep running.  std::mutex is not fair, but the worker      *)
(* pauses 20 ms (40 ms on the serial line) after each copy, so a GUI       *)
(* thread waiting in insert finds the mutex free again and again and gets  *)
(* it: strong fairness for the two lock steps.                             *)
Fairness == /\ WF_vars(InsertBit) /\ WF_vars(InsertUnlock)
            /\ SF_vars(InsertLock)
            /\ WF_vars(CopyByte) /\ WF_vars(CopyUnlock) /\ WF_vars(Send)
            /\ SF_vars(CopyLock)

FairSpec == Spec /\ Fairness

-----------------------------------------------------------------------------
(* Refinement: the register changes when insert takes the mutex, since     *)
(* nobody can look at the buffer before insert releases it, and the        *)
(* snapshot is taken when the worker takes the mutex.                      *)

valueBar == [s \in Signal |->
               IF guiPc = "loop" /\ call.sig = s THEN Encode(call.data, s)
                                                 ELSE Field(buffer, s)]

frameBar == IF workerPc = "copy" THEN AllFields(buffer)
                                 ELSE AllFields(temp_buffer)

Register == INSTANCE SignalRegister WITH value <- valueBar, frame <- frameBar

\* The bit-by-bit insert and the byte-by-byte memcpy together behave as an
\* atomic register: every copy the worker sends shows, for all the signals,
\* the values of one moment, and a setter disturbs no neighbouring signal.
ImplementsRegister == Register!Spec

-----------------------------------------------------------------------------
(* Properties.                                                             *)

TypeOK ==
  /\ buffer \in Buffer
  /\ buffer_mtx \in {"free", "gui", "worker"}
  /\ guiPc \in {"idle", "lock", "loop"}
  /\ call \in Call \cup {NoCall}
  /\ cursor \in Cursor
  /\ workerPc \in {"lock", "copy", "send"}
  /\ copied \in 0 .. BUFFLEN
  /\ temp_buffer \in Buffer

\* insert's byte_index and bit_index stay inside the frame whenever the loop
\* body is about to use them, across every byte boundary a field crosses.
NoOverrun ==
  guiPc = "loop" /\ cursor.i < BitSize[call.sig] =>
    cursor.byte_index \in ByteIndex /\ cursor.bit_index \in BitIndex

\* Neither thread shuts the other out of buffer_mtx: a setter that has been
\* called returns, and once the user leaves the controls alone the frames show
\* the last values set and go on showing them.
MutexServesBoth ==
  /\ (guiPc = "lock") ~> (guiPc = "idle")
  /\ <>[](guiPc = "idle") => <>[](AllFields(temp_buffer) = AllFields(buffer))
=============================================================================
