-------------------------- MODULE AntiReplayWindow --------------------------
(***************************************************************************)
(* The class AntiReplayWindow of src/TLS/AntiReplayWindow.ts as operators   *)
(* on a window object.                                                      *)
(*                                                                          *)
(* A window object is a record [window, ceiling].  window[i] is the i-th    *)
(* 32-bit integer of the bitmap, abstracted to the set of its bit positions *)
(* that are 1: `|' is union, `& flag' is membership.                        *)
(***************************************************************************)
EXTENDS Integers

CONSTANTS
    INT_SIZE,   \* bits of an integer under a JS bitwise operator (32)
    Blocks      \* width / INT_SIZE, the number of integers of the bitmap (2)

ASSUME WindowAssumption == /\ INT_SIZE \in Nat \ {0}
                           /\ Blocks \in Nat \ {0}

width == INT_SIZE * Blocks

BlockIndices == 0 .. Blocks - 1
BitIndices   == 0 .. INT_SIZE - 1

Window == [window : [BlockIndices -> SUBSET BitIndices], ceiling : Int]

\* reset(), called by the constructor.
NewWindow == [window  |-> [i \in BlockIndices |-> {}],
              ceiling |-> width - 1]

lowerBound(w) == w.ceiling - width + 1

\* The bit of seq_num in the bitmap.  Outside the window the code reads an
\* undefined array element, and `undefined & flag' is 0, never flag.
hasReceived(w, seq_num) ==
    LET bitIndex == seq_num - lowerBound(w)
    IN  /\ bitIndex \in 0 .. width - 1
        /\ bitIndex % INT_SIZE \in w.window[bitIndex \div INT_SIZE]

\* Mutant: what is below the window is not dropped.
mayReceiveOld(w, seq_num) ==
    /\ seq_num <= w.ceiling + width
    /\ seq_num > w.ceiling \/ ~ hasReceived(w, seq_num)

\* Mutant: a packet may be any number ahead.
mayReceiveFarAhead(w, seq_num) ==
    \/ seq_num > w.ceiling
    \/ seq_num >= lowerBound(w) /\ ~ hasReceived(w, seq_num)

mayReceive(w, seq_num) ==
    /\ seq_num <= w.ceiling + width
    /\ \/ seq_num > w.ceiling
       \/ /\ seq_num \in lowerBound(w) .. w.ceiling
          /\ ~ hasReceived(w, seq_num)

\* Mutant: an integer as wide as it needs to be.
ShiftLeftUnbounded(bits, count) == {b + (count % INT_SIZE) : b \in bits}

(***************************************************************************)
(* The JS shift operators use only the shift count modulo the size of the   *)
(* integer: x << 32 and x >>> 32 are x.                                     *)
(***************************************************************************)
ShiftLeft(bits, count) ==
    {b \in BitIndices : b - (count % INT_SIZE) \in bits}
ShiftRight(bits, count) ==
    {b \in BitIndices : b + (count % INT_SIZE) \in bits}

\* What the while loop leaves: `count' whole blocks shifted out.
ShiftBlocks(words, count) ==
    [i \in BlockIndices |->
        IF i + count < Blocks THEN words[i + count] ELSE {}]

\* Mutant: the integers are shifted, but nothing moves between them.
ShiftBitsWithoutCarry(words, amount) ==
    [i \in BlockIndices |-> ShiftRight(words[i], amount)]

\* What the for loop leaves: block i is shifted to the right and takes over
\* the low bits of block i + 1.
ShiftBits(words, amount) ==
    [i \in BlockIndices |->
        ShiftRight(words[i], amount)
          \cup (IF i + 1 < Blocks
                THEN ShiftLeft(words[i + 1], INT_SIZE - amount)
                ELSE {})]

\* The while loop runs as long as amount > INT_SIZE, so it leaves an amount
\* in 1 .. INT_SIZE for the for loop.
Shift(words, amount) ==
    LET blocks == (amount - 1) \div INT_SIZE
    IN  ShiftBits(ShiftBlocks(words, blocks), amount - INT_SIZE * blocks)

\* Sets the bit of seq_num.  Below the window the code writes a property
\* with a negative name, which no other statement reads.
SetBit(w, seq_num) ==
    LET bitIndex == seq_num - lowerBound(w)
    IN  IF bitIndex < 0 THEN w
        ELSE [window  |-> [w.window EXCEPT ![bitIndex \div INT_SIZE] =
                                @ \cup {bitIndex % INT_SIZE}],
              ceiling |-> w.ceiling]

markAsReceived(w, seq_num) ==
    SetBit(IF seq_num > w.ceiling
           THEN [window  |-> Shift(w.window, seq_num - w.ceiling),
                 ceiling |-> seq_num]
           ELSE w,
           seq_num)
=============================================================================
