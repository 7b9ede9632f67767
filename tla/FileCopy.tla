------------------------------ MODULE FileCopy ------------------------------
(***************************************************************************)
(* What copying a file promises, without datagrams, windows or time-outs:  *)
(* the receiver's output grows as a prefix of the file, the sender comes   *)
(* to know of more and more blocks that they are there, and it announces   *)
(* the end only when it knows this of all of them.  The copy may stop at   *)
(* any point.                                                              *)
(***************************************************************************)
EXTENDS Integers, Sequences

CONSTANT File

VARIABLES
    out,        \* the blocks the receiver has written
    acked,      \* how many of them the sender knows to be written
    announced   \* has the sender announced the end of the file?

copyVars == <<out, acked, announced>>

Init ==
    /\ out = <<>>
    /\ acked = 0
    /\ announced = FALSE

Write ==
    /\ \E n \in Len(out) + 1 .. Len(File) : out' = SubSeq(File, 1, n)
    /\ UNCHANGED <<acked, announced>>

Acknowledge ==
    /\ acked' \in acked + 1 .. Len(out)
    /\ UNCHANGED <<out, announced>>

Announce ==
    /\ acked = Len(File)
    /\ announced' = TRUE
    /\ UNCHANGED <<out, acked>>

Next == Write \/ Acknowledge \/ Announce

Spec == Init /\ [][Next]_copyVars
=============================================================================
