------------------------------- MODULE Frame -------------------------------
(***************************************************************************)
(* The frame shared by server and client: BUFFLEN bytes in which every     *)
(* signal owns a field of consecutive bits, least significant bit first.   *)
(* A byte is the function from its bit indices to {0, 1}.                  *)
(*                                                                         *)
(* Cursor and NextCursor are the byte_index / bit_index arithmetic that    *)
(* ComService::insert and COMService::extract share.  Field, Encode and    *)
(* FrameOf are the reference definitions those two loops are checked       *)
(* against: they name bit p of the frame by p alone.                       *)
(***************************************************************************)
EXTENDS Integers

CONSTANTS
  Signal,      \* the signals of the table
  BitOffset,   \* first bit of each signal's field
  BitSize,     \* number of bits of each signal's field
  BUFFLEN      \* bytes of a frame

CHAR_BIT == 8  \* <climits>

FieldBits(s) == BitOffset[s] .. BitOffset[s] + BitSize[s] - 1

\* Every field lies inside the frame and no two fields share a bit.
ASSUME LayoutAssumption ==
  /\ BUFFLEN \in Nat \ {0}
  /\ BitOffset \in [Signal -> Nat]
  /\ BitSize \in [Signal -> Nat \ {0}]
  /\ \A s \in Signal : BitOffset[s] + BitSize[s] <= CHAR_BIT * BUFFLEN
  /\ \A s, t \in Signal : s # t => FieldBits(s) \cap FieldBits(t) = {}

ByteIndex == 0 .. BUFFLEN - 1
BitIndex  == 0 .. CHAR_BIT - 1
Byte      == [BitIndex -> {0, 1}]
Buffer    == [ByteIndex -> Byte]

ZeroBuffer == [B \in ByteIndex |-> [b \in BitIndex |-> 0]]

\* Mutant: the mask "& 1" forgotten.
BitOfUnmasked(data, i) == data \div 2^i

\* Bit i of an integer in two's complement.  \div rounds towards minus
\* infinity, so a negative temperature shows the bits of its uint32_t.
BitOf(data, i) == IF (data \div 2^i) % 2 = 0 THEN 0 ELSE 1

\* The buffer with bit b of byte B set to x.
SetBit(buf, B, b, x) == [buf EXCEPT ![B][b] = x]

-----------------------------------------------------------------------------
(* The position the two bit loops keep: iteration, byte and bit.           *)

StartCursor(s) == [ i          |-> 0,
                    byte_index |-> BitOffset[s] \div CHAR_BIT,
                    bit_index  |-> BitOffset[s] % CHAR_BIT ]

\* Mutant: no wrap to the next byte.
NextCursorNoWrap(c) ==
  [c EXCEPT !.i = @ + 1, !.bit_index = @ + 1]

\* i++, bit_index++, and the wrap to the next byte.
NextCursor(c) ==
  [ i          |-> c.i + 1,
    byte_index |-> IF c.bit_index + 1 = CHAR_BIT THEN c.byte_index + 1
                                                 ELSE c.byte_index,
    bit_index  |-> IF c.bit_index + 1 = CHAR_BIT THEN 0 ELSE c.bit_index + 1 ]

Cursor == [i : Nat, byte_index : Nat, bit_index : Nat]

-----------------------------------------------------------------------------
(* Reference definitions.                                                  *)

\* Bit p of a buffer.
BufferBit(buf, p) == buf[p \div CHAR_BIT][p % CHAR_BIT]

\* The bits of one signal's field.
Field(buf, s) == [j \in 0 .. BitSize[s] - 1 |-> BufferBit(buf, BitOffset[s] + j)]

\* The bits a value puts into the signal's field.
Encode(v, s) == [j \in 0 .. BitSize[s] - 1 |-> BitOf(v, j)]

\* A signal's field in which every bit is clear.
ZeroField(s) == [j \in 0 .. BitSize[s] - 1 |-> 0]

\* Every field of a buffer at once: what the buffer says of all the signals.
AllFields(buf) == [s \in Signal |-> Field(buf, s)]

\* The buffer in which every signal s has been set to vals[s].
FrameOf(vals) ==
  LET Owner(p) == {s \in Signal : p \in FieldBits(s)}
      BitAt(p) == IF Owner(p) = {} THEN 0
                  ELSE LET s == CHOOSE x \in Owner(p) : TRUE
                       IN  BitOf(vals[s], p - BitOffset[s])
  IN  [B \in ByteIndex |-> [b \in BitIndex |-> BitAt(B * CHAR_BIT + b)]]
=============================================================================
