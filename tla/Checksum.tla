------------------------------ MODULE Checksum ------------------------------
(***************************************************************************)
(* in_cksum, the Internet checksum of checksum.c.                          *)
(*                                                                         *)
(* Bytes have the values below ByteSize instead of 256, and an unsigned    *)
(* short those below its square.  The sum of a PDU of 1407 bytes is far    *)
(* below 2^31.  The machine is little-endian.                              *)
(***************************************************************************)
EXTENDS Integers, Sequences, SequencesExt

CONSTANT ByteSize   \* 256 in the code; even

ASSUME ChecksumAssumption ==
    /\ ByteSize \in Nat \ {0}
    /\ ByteSize % 2 = 0

Byte == 0 .. ByteSize - 1
WordSize == ByteSize * ByteSize

(* The shorts that addr points to, an odd byte at the end included. *)
Words(bytes) ==
    [i \in 1 .. (Len(bytes) + 1) \div 2 |->
        bytes[2 * i - 1] +
        (IF 2 * i <= Len(bytes) THEN ByteSize * bytes[2 * i] ELSE 0)]

(* The loop over the shorts. *)
Total(words) ==
    LET sum[n \in 0 .. Len(words)] == IF n = 0 THEN 0 ELSE sum[n - 1] + words[n]
    IN  sum[Len(words)]

(* Mutant: the carry of the first fold is lost. *)
FoldCarriesOnce(sum) == ((sum \div WordSize) + (sum % WordSize)) % WordSize

(* Mutant: the sum is not cut off. *)
FoldCarriesWide(sum) ==
    LET once == (sum \div WordSize) + (sum % WordSize)
    IN  once + (once \div WordSize)

(* The carries go back to the low 16 bits, twice, and the rest is cut off. *)
FoldCarries(sum) ==
    LET once == (sum \div WordSize) + (sum % WordSize)
    IN  (once + (once \div WordSize)) % WordSize

(* Mutant: an odd byte at the end does not count. *)
InCksumEven(bytes) ==
    WordSize - 1 - FoldCarries(Total(Words(SubSeq(bytes, 1, 2 * (Len(bytes) \div 2)))))

InCksum(bytes) == WordSize - 1 - FoldCarries(Total(Words(bytes)))
=============================================================================
