--------------------------- MODULE StringBuffers ---------------------------
(***************************************************************************)
(* String buffers (StringBuffer.c), which hold the text of queries and of  *)
(* distributions while they grow.  Only lengths are modelled.              *)
(***************************************************************************)
EXTENDS Integers

CONSTANTS
  Size, Increment,   \* arguments of InitBuffer
  Lengths,           \* lengths of the strings added
  MaxText            \* bound on the length of a text

ASSUME BufferAssumption ==
  /\ Size \in Nat \ {0} /\ Increment \in Nat \ {0}
  /\ Lengths \subseteq Nat /\ MaxText \in Nat

VARIABLES
  allocated, used,   \* nBytesAllocated and nBytesUsed
  text               \* strlen of pText

bufferVars == <<allocated, used, text>>

InitBuffer == allocated = Size /\ used = 0 /\ text = 0

\* Mutant: a string that leaves no room for its terminator is let in.
AddBufferTight(n) ==
  /\ n # 0 /\ text + n <= MaxText
  /\ \E times \in 0 .. n + 1 :
       LET remaining == allocated - used
           room == times * Increment IN
       /\ n <= remaining + room
       /\ times # 0 => n > remaining + room - Increment
       /\ allocated' = allocated + room
  /\ text' = text + n
  /\ used' = used + n

\* AddBuffer: room is added an increment at a time, as many times as it takes
\* for the string to be shorter than what remains.
AddBuffer(n) ==
  /\ n # 0 /\ text + n <= MaxText
  /\ \E times \in 0 .. n + 1 :
       LET remaining == allocated - used
           room == times * Increment IN
       /\ n < remaining + room
       /\ times # 0 => n >= remaining + room - Increment
       /\ allocated' = allocated + room
  /\ text' = text + n
  /\ used' = (IF used = 0 THEN 1 ELSE used) + n

ResetBuffer == used' = 0 /\ text' = 0 /\ UNCHANGED allocated

BufferNext == ResetBuffer \/ \E n \in Lengths : AddBuffer(n)

BufferSpec == InitBuffer /\ [][BufferNext]_bufferVars

-----------------------------------------------------------------------------
BufferTypeOK == allocated \in Nat \ {0} /\ used \in Nat /\ text \in Nat

\* The text and its terminator are within what was allocated, which strcat and
\* printing rely on, after any strings were added and the buffer was emptied any
\* number of times (StringBuffer.c: AddBuffer, ResetBuffer).
TextFits == text + 1 <= allocated

\* The count of bytes in use is that of the text and its terminator, or none.
CountIsText == used = (IF text = 0 THEN 0 ELSE text + 1) /\ used <= allocated

BufferInv == BufferTypeOK /\ TextFits /\ CountIsText
=============================================================================
