------------------------------ MODULE SeqNums -------------------------------
(***************************************************************************)
(* Sequence numbers, as rcopy's window and the server's buffer both use    *)
(* them: uint32_t values that are added modulo UintModulus and find their  *)
(* slot in a ring by their remainder modulo the window size.  The server   *)
(* learns rcopy's window size from the FILENAME PDU, so there is only one. *)
(***************************************************************************)
EXTENDS Integers

CONSTANTS
    WindowSize,     \* number of slots of a ring, from rcopy's command line
    UintModulus     \* 2^32 in the code

(* rcopy refuses a window size that is not positive, and an int is less    *)
(* than 2^32.                                                              *)
ASSUME SeqNumsAssumption ==
    /\ WindowSize \in Nat \ {0}
    /\ UintModulus \in Nat
    /\ WindowSize < UintModulus

SeqNum == 0 .. UintModulus - 1

(* Mutant: sums are kept in a type wider than uint32_t. *)
PlusWider(a, b) == a + b

(* uint32_t addition. *)
Plus(a, b) == (a + b) % UintModulus

(* The slots of a ring, and the one a sequence number belongs in. *)
Slot == 0 .. WindowSize - 1

Index(seq) == seq % WindowSize
=============================================================================
