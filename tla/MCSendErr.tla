----------------------------- MODULE MCSendErr ------------------------------
(***************************************************************************)
(* Values for the environment variables: a list with a number that is no   *)
(* message's, lists that junk cuts off, ones it leaves nothing of, and one *)
(* with a number that does not fit a uint32_t.                             *)
(***************************************************************************)
EXTENDS SendErr

MCDropLists == {<<-1, 2>>, <<2, Junk, 1>>, <<Junk, 2>>, <<UintModulus + 1>>}

MCFlipLists == {<<1>>, <<-1>>}
=============================================================================
