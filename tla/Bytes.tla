-------------------------------- MODULE Bytes --------------------------------
(***************************************************************************)
(* A byte is a tuple that says what it is.  <<"byte", v>> is a number; a    *)
(* byte of a MAC, a tag, a nonce or a ciphertext names what it was made     *)
(* from, so two of them are equal only if they were made alike.             *)
(***************************************************************************)
EXTENDS Integers, Sequences

CONSTANT Chance     \* the number any other byte happens to be
ASSUME ChanceAssumption == Chance \in Nat

Byte(v) == <<"byte", v>>
Unwritten == <<"unwritten">>    \* of Buffer.allocUnsafe, nothing copied to it

Value(byte) == IF byte[1] = "byte" THEN byte[2] ELSE Chance
=============================================================================
