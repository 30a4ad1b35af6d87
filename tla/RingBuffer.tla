------------------------------- MODULE RingBuffer -------------------------------
(***************************************************************************)
(* The ring buffer of components/drivers/src/ringbuffer.c.  Its functions   *)
(* lock nothing: the serial devices call them with interrupts disabled, the *)
(* pipes inside their mutex, so that each is one step.                      *)
(*                                                                         *)
(* A byte is the number of bytes that were put before it.  What memcpy does *)
(* to the buffer is one function; the arithmetic of the indices and of the  *)
(* mirror bits, which tell a full buffer from an empty one, is the code's.  *)
(***************************************************************************)
EXTENDS Integers

CONSTANTS RbSize,      \* rb->buffer_size, after its alignment
          Lengths      \* the lengths that are put and got

ASSUME RbAssumption == RbSize \in Nat \ {0} /\ Lengths \subseteq Nat

VARIABLES rbCells,     \* rb->buffer_ptr
          readIndex, readMirror,
          writeIndex, writeMirror,
          rbPut,       \* history: the number of bytes given to the put functions
          rbGot        \* history: the number of bytes read or overwritten

rbVars == <<rbCells, readIndex, readMirror, writeIndex, writeMirror, rbPut, rbGot>>

Cells == 0..RbSize - 1
Unused == -1

RbInit ==
    /\ rbCells = [i \in Cells |-> Unused]
    /\ readIndex = 0 /\ readMirror = 0 /\ writeIndex = 0 /\ writeMirror = 0
    /\ rbPut = 0 /\ rbGot = 0

-----------------------------------------------------------------------------

\* rt_ringbuffer_status and rt_ringbuffer_data_len
RbFull == readIndex = writeIndex /\ readMirror # writeMirror
DataLen ==
    IF readIndex = writeIndex THEN IF readMirror = writeMirror THEN 0 ELSE RbSize
    ELSE IF writeIndex > readIndex THEN writeIndex - readIndex
    ELSE RbSize - (readIndex - writeIndex)

\* rt_ringbuffer_space_len
SpaceLen == RbSize - DataLen

AtMost(n, limit) == IF limit < n THEN limit ELSE n

\* The one or two memcpy of length bytes, of which the first is number first.
Written(length, first) ==
    [i \in Cells |-> IF writeIndex <= i /\ i < writeIndex + length THEN first + (i - writeIndex)
                     ELSE IF i < writeIndex + length - RbSize
                          THEN first + (i + (RbSize - writeIndex))
                     ELSE rbCells[i]]

\* The write and the read position go on by length, to the other side of the mirror
\* at the end of the buffer.
WriteOn(length) ==
    IF RbSize - writeIndex > length
    THEN writeIndex' = writeIndex + length /\ UNCHANGED writeMirror
    ELSE writeMirror' = 1 - writeMirror /\ writeIndex' = length - (RbSize - writeIndex)
ReadOn(length) ==
    IF RbSize - readIndex > length
    THEN readIndex' = readIndex + length /\ UNCHANGED readMirror
    ELSE readMirror' = 1 - readMirror /\ readIndex' = length - (RbSize - readIndex)

Puts(length) == rbPut' = rbPut + length
Gets(length) == rbGot' = rbGot + length

-----------------------------------------------------------------------------
(* The functions *)

RbPutBytes(length) ==
    /\ SpaceLen > 0
    /\ LET n == AtMost(length, SpaceLen)
       IN  rbCells' = Written(n, rbPut) /\ WriteOn(n) /\ Puts(n)
    /\ UNCHANGED <<readIndex, readMirror, rbGot>>

\* Seeded fault: the read position is put behind the write position, its mirror
\* bit is left as it is.
ForceKeepsMirror(n) == readIndex' = writeIndex' /\ UNCHANGED readMirror

\* length > space_length: the oldest bytes are given up.
ForceRead(n) ==
    /\ readIndex' = writeIndex'
    /\ readMirror' = IF RbSize - writeIndex <= n /\ writeIndex' <= readIndex
                     THEN 1 - readMirror ELSE readMirror

RbPutForce(length) ==
    LET n == AtMost(length, RbSize)
    IN  /\ rbCells' = Written(n, rbPut + (length - n))
        /\ WriteOn(n)
        /\ IF n > SpaceLen THEN ForceRead(n) ELSE UNCHANGED <<readIndex, readMirror>>
        /\ Puts(length)
        /\ rbGot' = IF rbPut' - rbGot > RbSize THEN rbPut' - RbSize ELSE rbGot

RbGet(length) ==
    /\ DataLen > 0
    /\ LET n == AtMost(length, DataLen) IN ReadOn(n) /\ Gets(n)
    /\ UNCHANGED <<rbCells, writeIndex, writeMirror, rbPut>>

\* rt_ringbuffer_peak takes the bytes up to the end of the buffer.
RbPeak ==
    /\ DataLen > 0
    /\ IF RbSize - readIndex > DataLen
       THEN readIndex' = readIndex + DataLen /\ Gets(DataLen) /\ UNCHANGED readMirror
       ELSE readMirror' = 1 - readMirror /\ readIndex' = 0 /\ Gets(RbSize - readIndex)
    /\ UNCHANGED <<rbCells, writeIndex, writeMirror, rbPut>>

StoreChar ==
    /\ rbCells' = [rbCells EXCEPT ![writeIndex] = rbPut]
    /\ IF writeIndex = RbSize - 1
       THEN writeMirror' = 1 - writeMirror /\ writeIndex' = 0
       ELSE writeIndex' = writeIndex + 1 /\ UNCHANGED writeMirror
    /\ Puts(1)

RbPutChar ==
    /\ SpaceLen > 0
    /\ StoreChar
    /\ UNCHANGED <<readIndex, readMirror, rbGot>>

RbPutCharForce ==
    /\ StoreChar
    /\ IF RbFull
       THEN /\ readIndex' = writeIndex'
            /\ readMirror' = IF writeIndex = RbSize - 1 THEN 1 - readMirror ELSE readMirror
            /\ Gets(1)
       ELSE UNCHANGED <<readIndex, readMirror, rbGot>>

RbGetChar ==
    /\ DataLen > 0
    /\ IF readIndex = RbSize - 1
       THEN readMirror' = 1 - readMirror /\ readIndex' = 0
       ELSE readIndex' = readIndex + 1 /\ UNCHANGED readMirror
    /\ Gets(1)
    /\ UNCHANGED <<rbCells, writeIndex, writeMirror, rbPut>>

RbReset ==
    /\ readIndex' = 0 /\ readMirror' = 0 /\ writeIndex' = 0 /\ writeMirror' = 0
    /\ rbGot' = rbPut
    /\ UNCHANGED <<rbCells, rbPut>>

RbNext ==
    \/ \E length \in Lengths : RbPutBytes(length) \/ RbPutForce(length) \/ RbGet(length)
    \/ RbPeak \/ RbPutChar \/ RbPutCharForce \/ RbGetChar \/ RbReset

RbSpec == RbInit /\ [][RbNext]_rbVars

-----------------------------------------------------------------------------
(* Properties *)

RbTypeOK ==
    /\ rbCells \in [Cells -> Nat \cup {Unused}]
    /\ readIndex \in Cells /\ writeIndex \in Cells
    /\ readMirror \in {0, 1} /\ writeMirror \in {0, 1}
    /\ rbPut \in Nat /\ rbGot \in Nat

\* rt_ringbuffer_data_len: the two indices and the two mirror bits count the bytes
\* that were put and neither read nor overwritten.
LengthExact == DataLen = rbPut - rbGot

\* What rt_ringbuffer_get copies next are these bytes, in the order they were put,
\* and none that a put has overwritten.
BytesInOrder ==
    \A k \in Cells : k < DataLen =>
        rbCells[IF readIndex + k < RbSize THEN readIndex + k ELSE readIndex + k - RbSize]
            = rbGot + k

RingExact == LengthExact /\ BytesInOrder
=============================================================================
