----------------------------- MODULE PduProofs ------------------------------
(***************************************************************************)
(* The properties of Pdu for every size of a byte and every length of the  *)
(* blocks and names that the sum of a PDU allows.                          *)
(*                                                                         *)
(* The argument is arithmetic modulo WordSize - 1: folding the carries of  *)
(* a sum back keeps its remainder, createPDU chooses a checksum that makes *)
(* the sum of the PDU a multiple, and a flipped byte changes the sum by    *)
(* less than one WordSize - 1, and not by 0, since ByteSize is even.       *)
(***************************************************************************)
EXTENDS Pdu, SequenceTheorems, WellFoundedInduction, TLAPS

Word == 0 .. WordSize - 1

(* Equal but for multiples of WordSize - 1. *)
Congruent(a, b) == \E m \in Int : a = b + m * (WordSize - 1)

(* Bytes whose sum fits. *)
Short(bytes) == bytes \in Seq(Byte) /\ Len(bytes) <= 2 * WordSize

-----------------------------------------------------------------------------

(* What PduAssumption and ChecksumAssumption say of bytes and shorts. *)
LEMMA SizeFacts ==
    /\ ByteSize \in Nat /\ ByteSize >= 4
    /\ \A b \in Byte : Flipped(b) \in Byte /\ Flipped(b) # b
    /\ WordSize \in Nat /\ WordSize >= 4 * ByteSize
    /\ \A b \in Byte, c \in Byte : b + ByteSize * c \in Word
<1>1. ByteSize \in Nat /\ ByteSize >= 4 /\ ByteSize % 2 = 0
    BY ChecksumAssumption, PduAssumption
<1>2. \A b \in Byte : Flipped(b) \in Byte /\ Flipped(b) # b
    BY <1>1 DEF Byte, Flipped
<1>3. WordSize \in Nat /\ WordSize >= 4 * ByteSize
    BY <1>1 DEF WordSize
<1>4. ASSUME NEW b \in Byte, NEW c \in Byte PROVE b + ByteSize * c \in Word
    <2>1. ByteSize * c \in Nat /\ ByteSize * c <= ByteSize * (ByteSize - 1)
        BY <1>1, SMT DEF Byte
    <2>2. ByteSize * (ByteSize - 1) = WordSize - ByteSize
        BY <1>1, SMT DEF WordSize
    <2> QED
        BY <1>1, <1>3, <2>1, <2>2 DEF Byte, Word
<1> QED
    BY <1>1, <1>2, <1>3, <1>4

(* A set of numbers with 0 and with each successor has them all. *)
LEMMA SetInduction ==
    ASSUME NEW S, 0 \in S, \A n \in Nat : n \in S => n + 1 \in S
    PROVE  \A n \in Nat : n \in S
<1> SUFFICES ASSUME Nat \ S # {} PROVE FALSE
    OBVIOUS
<1>1. IsWellFoundedOn({ss \in Nat \X Nat : ss[1] < ss[2]}, Nat)
    BY NatLessThanWellFounded, Zenon DEF OpToRel
<1>2. PICK n \in Nat \ S :
        \A m \in Nat \ S : ~ (<<m, n>> \in {ss \in Nat \X Nat : ss[1] < ss[2]})
    BY <1>1, WFMin
<1>3. n # 0
    OBVIOUS
<1>4. n - 1 \in Nat /\ n - 1 \notin S
    BY <1>3
<1>5. \A m \in Nat \ S : ~ (m < n)
    BY <1>2
<1> QED
    BY <1>4, <1>5

(* f is defined by recursion over the numbers up to N. *)
Recursion(f, N, D, start, step) ==
    /\ f \in [0 .. N -> D]
    /\ f[0] = start
    /\ \A n \in 1 .. N : f[n] = step[<<n, f[n - 1]>>]

(* Every such recursion defines a function. *)
LEMMA RecursionExists ==
    ASSUME NEW N \in Nat, NEW D, NEW start \in D, NEW step \in [(1 .. N) \X D -> D]
    PROVE  \E f : Recursion(f, N, D, start, step)
<1> USE DEF Recursion
<1> DEFINE Upto(f, k) == Recursion(f, k, D, start, step)
           S == {k \in Nat : k <= N => \E f : Upto(f, k)}
<1>1. 0 \in S
    <2>1. Upto([n \in 0 .. 0 |-> start], 0)
        OBVIOUS
    <2> QED
        BY <2>1
<1>2. ASSUME NEW k \in Nat, k \in S PROVE k + 1 \in S
    <2> SUFFICES ASSUME k + 1 <= N PROVE \E f : Upto(f, k + 1)
        OBVIOUS
    <2>1. PICK f : Upto(f, k)
        BY <1>2
    <2> DEFINE g == [n \in 0 .. k + 1 |-> IF n <= k THEN f[n] ELSE step[<<k + 1, f[k]>>]]
    <2>2. g \in [0 .. k + 1 -> D]
        BY <2>1
    <2>3. \A n \in 0 .. k : g[n] = f[n]
        OBVIOUS
    <2>4. g[k + 1] = step[<<k + 1, f[k]>>]
        OBVIOUS
    <2> HIDE DEF g
    <2>5. Upto(g, k + 1)
        <3>1. ASSUME NEW n \in 1 .. k + 1 PROVE g[n] = step[<<n, g[n - 1]>>]
            <4>1. CASE n = k + 1
                <5>1. n - 1 = k /\ g[k] = f[k]
                    BY <4>1, <2>3
                <5> QED
                    BY <4>1, <5>1, <2>4
            <4>2. CASE n # k + 1
                <5>1. n \in 1 .. k /\ n \in 0 .. k /\ n - 1 \in 0 .. k
                    BY <4>2
                <5> QED
                    BY <5>1, <2>1, <2>3
            <4> QED
                BY <4>1, <4>2
        <3>2. g[0] = start
            BY <2>1, <2>3
        <3> QED
            BY <3>1, <3>2, <2>2
    <2> QED
        BY <2>5, Zenon
<1> HIDE DEF S
<1>3. N \in S
    BY <1>1, <1>2, SetInduction
<1> QED
    BY <1>3 DEF S

-----------------------------------------------------------------------------

(* The sum of shorts, through the partial sums. *)
LEMMA PartialSums ==
    ASSUME NEW w \in Seq(Word)
    PROVE  \E f : /\ f[0] = 0
                  /\ \A n \in 1 .. Len(w) : f[n] = f[n - 1] + w[n]
                  /\ \A n \in 0 .. Len(w) : f[n] \in Nat /\ f[n] <= n * (WordSize - 1)
                  /\ Total(w) = f[Len(w)]
<1> DEFINE N == Len(w)
           step == [p \in (1 .. N) \X Nat |-> p[2] + w[p[1]]]
           Sum(f) == f = [n \in 0 .. N |-> IF n = 0 THEN 0 ELSE f[n - 1] + w[n]]
<1>1. N \in Nat /\ \A n \in 1 .. N : w[n] \in Word
    OBVIOUS
<1>2. WordSize \in Nat /\ Word = 0 .. WordSize - 1 /\ Word \subseteq Nat /\ WordSize >= 4
    BY SizeFacts DEF Word
<1>3. \E f : Sum(f)
    <2>1. step \in [(1 .. N) \X Nat -> Nat]
        BY <1>1, <1>2
    <2>2. PICK f : Recursion(f, N, Nat, 0, step)
        <3> HIDE DEF step
        <3> QED
            BY <1>1, <2>1, 0 \in Nat, RecursionExists, Zenon
    <2>3. ASSUME NEW n \in 0 .. N
          PROVE  f[n] = IF n = 0 THEN 0 ELSE f[n - 1] + w[n]
        <3>1. CASE n = 0
            BY <3>1, <2>2 DEF Recursion
        <3>2. CASE n # 0
            <4>1. n \in 1 .. N /\ n - 1 \in 0 .. N
                BY <3>2, <1>1
            <4>2. <<n, f[n - 1]>> \in (1 .. N) \X Nat
                BY <4>1, <2>2 DEF Recursion
            <4> QED
                BY <3>2, <4>1, <4>2, <2>2 DEF Recursion
        <3> QED
            BY <3>1, <3>2
    <2>4. f \in [0 .. N -> Nat]
        BY <2>2 DEF Recursion
    <2>5. Sum(f)
        BY <2>3, <2>4
    <2> QED
        BY <2>5, Zenon
<1> DEFINE g == CHOOSE f : Sum(f)
<1>4. Sum(g)
    BY <1>3, Zenon
<1>5. Total(w) = g[N]
    BY Zenon DEF Total
<1> HIDE DEF g, step
<1>6. \A n \in 0 .. N : g[n] = IF n = 0 THEN 0 ELSE g[n - 1] + w[n]
    BY <1>4
<1>7. g[0] = 0 /\ \A n \in 1 .. N : g[n] = g[n - 1] + w[n]
    BY <1>1, <1>6
<1> DEFINE S == {n \in Nat : n <= N => g[n] \in Nat /\ g[n] <= n * (WordSize - 1)}
<1>8. 0 \in S
    BY <1>2, <1>7
<1>9. ASSUME NEW n \in Nat, n \in S PROVE n + 1 \in S
    <2> SUFFICES ASSUME n + 1 <= N
                 PROVE  g[n + 1] \in Nat /\ g[n + 1] <= (n + 1) * (WordSize - 1)
        OBVIOUS
    <2>1. g[n] \in Nat /\ g[n] <= n * (WordSize - 1)
        BY <1>1, <1>9
    <2>2. n + 1 \in 1 .. N /\ (n + 1) - 1 = n
        BY <1>1
    <2>3. g[n + 1] = g[n] + w[n + 1]
        BY <1>7, <2>2
    <2>4. w[n + 1] \in Nat /\ w[n + 1] <= WordSize - 1
        BY <1>1, <1>2, <2>2
    <2>5. (n + 1) * (WordSize - 1) = n * (WordSize - 1) + (WordSize - 1)
        BY <1>2
    <2>6. n * (WordSize - 1) \in Nat
        BY <1>2
    <2> QED
        BY <1>2, <2>1, <2>3, <2>4, <2>5, <2>6
<1>10. \A n \in Nat : n \in S
    <2> HIDE DEF S
    <2> QED
        BY <1>8, <1>9, SetInduction
<1> QED
    BY <1>1, <1>5, <1>7, <1>10

(* The same for the sum whose carries go back at once. *)
LEMMA EndAroundSums ==
    ASSUME NEW w \in Seq(Word)
    PROVE  \E f : /\ f[0] = 0
                  /\ \A n \in 1 .. Len(w) : f[n] = EndAroundAdd(f[n - 1], w[n])
                  /\ \A n \in 0 .. Len(w) : f[n] \in Word
                  /\ EndAroundTotal(w) = f[Len(w)]
<1> DEFINE N == Len(w)
           step == [p \in (1 .. N) \X Word |-> EndAroundAdd(p[2], w[p[1]])]
           Sum(f) == f = [n \in 0 .. N |-> IF n = 0 THEN 0 ELSE EndAroundAdd(f[n - 1], w[n])]
<1>1. N \in Nat /\ \A n \in 1 .. N : w[n] \in Word
    OBVIOUS
<1>2. 0 \in Word /\ \A a \in Word, b \in Word : EndAroundAdd(a, b) \in Word
    BY SizeFacts DEF Word, EndAroundAdd
<1>3. \E f : Sum(f)
    <2>1. step \in [(1 .. N) \X Word -> Word]
        BY <1>1, <1>2
    <2>2. PICK f : Recursion(f, N, Word, 0, step)
        <3> HIDE DEF step
        <3> QED
            BY <1>1, <1>2, <2>1, RecursionExists, Zenon
    <2>3. ASSUME NEW n \in 0 .. N
          PROVE  f[n] = IF n = 0 THEN 0 ELSE EndAroundAdd(f[n - 1], w[n])
        <3>1. CASE n = 0
            BY <3>1, <2>2 DEF Recursion
        <3>2. CASE n # 0
            <4>1. n \in 1 .. N /\ n - 1 \in 0 .. N
                BY <3>2, <1>1
            <4>2. <<n, f[n - 1]>> \in (1 .. N) \X Word
                BY <4>1, <2>2 DEF Recursion
            <4> QED
                BY <3>2, <4>1, <4>2, <2>2 DEF Recursion
        <3> QED
            BY <3>1, <3>2
    <2>4. f \in [0 .. N -> Word]
        BY <2>2 DEF Recursion
    <2>5. Sum(f)
        BY <2>3, <2>4
    <2> QED
        BY <2>5, Zenon
<1> DEFINE g == CHOOSE f : Sum(f)
<1>4. Sum(g)
    BY <1>3, Zenon
<1>5. EndAroundTotal(w) = g[N]
    BY Zenon DEF EndAroundTotal
<1> HIDE DEF g, step
<1>6. \A n \in 0 .. N : g[n] = IF n = 0 THEN 0 ELSE EndAroundAdd(g[n - 1], w[n])
    BY <1>4
<1>7. g[0] = 0 /\ \A n \in 1 .. N : g[n] = EndAroundAdd(g[n - 1], w[n])
    BY <1>1, <1>6
<1> DEFINE S == {n \in Nat : n <= N => g[n] \in Word}
<1>8. 0 \in S
    BY <1>2, <1>7
<1>9. ASSUME NEW n \in Nat, n \in S PROVE n + 1 \in S
    <2> SUFFICES ASSUME n + 1 <= N PROVE g[n + 1] \in Word
        OBVIOUS
    <2>1. g[n] \in Word /\ n + 1 \in 1 .. N /\ (n + 1) - 1 = n
        BY <1>1, <1>9
    <2> QED
        BY <1>1, <1>2, <1>7, <2>1
<1>10. \A n \in Nat : n \in S
    <2> HIDE DEF S
    <2> QED
        BY <1>8, <1>9, SetInduction
<1> QED
    BY <1>1, <1>5, <1>7, <1>10

-----------------------------------------------------------------------------

(* Multiples of WordSize - 1: they add up, and a short has no other one of *)
(* the same remainder, but for 0 and WordSize - 1.                         *)
LEMMA CongruentSame == ASSUME NEW a \in Int PROVE Congruent(a, a)
<1>1. a = a + 0 * (WordSize - 1)
    BY SizeFacts
<1> QED
    BY <1>1, 0 \in Int, Zenon DEF Congruent

(* Numbers less than WordSize - 1 apart are congruent only if equal. *)
LEMMA CongruentWords ==
    ASSUME NEW a \in Int, NEW b \in Int, Congruent(a, b),
           - (WordSize - 1) < a - b, a - b < WordSize - 1
    PROVE  a = b
<1>1. WordSize \in Int /\ WordSize - 1 > 0
    BY SizeFacts
<1>2. PICK m \in Int : a = b + m * (WordSize - 1)
    BY DEF Congruent
<1>3. m >= 1 => m * (WordSize - 1) >= WordSize - 1
    BY <1>1, SMT
<1>4. m <= -1 => m * (WordSize - 1) <= - (WordSize - 1)
    BY <1>1, SMT
<1>5. m = 0 => m * (WordSize - 1) = 0
    BY <1>1, SMT
<1>6. m * (WordSize - 1) \in Int /\ m * (WordSize - 1) = a - b
    BY <1>1, <1>2, SMT
<1> QED
    BY <1>1, <1>2, <1>3, <1>4, <1>5, <1>6

(* Of the shorts congruent to a sum one at most is right: 0 for 0 only. *)
LEMMA SameRemainder ==
    ASSUME NEW sum, NEW a \in Word, NEW b \in Word,
           Congruent(sum, a), Congruent(sum, b), a = 0 <=> b = 0
    PROVE  a = b
<1>1. WordSize \in Int
    BY SizeFacts
<1>2. PICK m \in Int : sum = a + m * (WordSize - 1)
    BY DEF Congruent
<1>3. PICK k \in Int : sum = b + k * (WordSize - 1)
    BY DEF Congruent
<1>4. a = b + (k - m) * (WordSize - 1)
    BY <1>1, <1>2, <1>3, SMT DEF Word
<1>5. Congruent(a, b)
    BY <1>4 DEF Congruent
<1> QED
    BY <1>1, <1>5, CongruentWords DEF Word

(* The carries that go back leave the remainder, and 0 only of 0.          *)
LEMMA FoldKeepsRemainder ==
    ASSUME NEW sum \in Nat, sum < WordSize * WordSize
    PROVE  /\ FoldCarries(sum) \in Word
           /\ Congruent(sum, FoldCarries(sum))
           /\ FoldCarries(sum) = 0 <=> sum = 0
<1> DEFINE q == sum \div WordSize
           r == sum % WordSize
           once == q + r
           carry == once \div WordSize
<1>1. WordSize \in Nat /\ WordSize >= 16
    BY SizeFacts
<1>2. q \in Nat /\ r \in 0 .. WordSize - 1 /\ sum = WordSize * q + r
    BY <1>1, SMT
<1> HIDE DEF q, r
<1>3. q < WordSize
    <2> SUFFICES ASSUME q >= WordSize PROVE FALSE
        BY <1>1, <1>2
    <2>1. WordSize * q >= WordSize * WordSize
        BY <1>1, <1>2, SMT
    <2> QED
        BY <2>1, <1>1, <1>2, SMT
<1>4. once \in 0 .. 2 * WordSize - 2
    BY <1>1, <1>2, <1>3
<1>5. FoldCarries(sum) = (once + carry) % WordSize
    BY Zenon DEF FoldCarries, q, r
<1>6. sum = once + q * (WordSize - 1)
    BY <1>1, <1>2, SMT
<1>7. sum = 0 <=> once = 0
    <2>1. WordSize * q \in Nat /\ (q # 0 => WordSize * q > 0) /\ (q = 0 => WordSize * q = 0)
        BY <1>1, <1>2, SMT
    <2> QED
        BY <2>1, <1>1, <1>2
<1> HIDE DEF once
<1>8. CASE once < WordSize
    <2>1. carry = 0
        BY <1>8, <1>1, <1>4, SMT
    <2>2. FoldCarries(sum) = once
        BY <1>8, <1>1, <1>4, <1>5, <2>1, SMT
    <2>3. Congruent(sum, FoldCarries(sum))
        BY <2>2, <1>2, <1>6 DEF Congruent
    <2> QED
        BY <2>2, <2>3, <1>8, <1>1, <1>4, <1>7 DEF Word
<1>9. CASE once >= WordSize
    <2>1. carry = 1
        BY <1>9, <1>1, <1>4, SMT
    <2>2. FoldCarries(sum) = once + 1 - WordSize
        BY <1>9, <1>1, <1>4, <1>5, <2>1, SMT
    <2>3. sum = (once + 1 - WordSize) + (q + 1) * (WordSize - 1)
        BY <1>1, <1>2, <1>4, <1>6, SMT
    <2>4. Congruent(sum, FoldCarries(sum))
        BY <2>2, <2>3, <1>2 DEF Congruent
    <2> QED
        BY <2>2, <2>4, <1>9, <1>1, <1>4, <1>7 DEF Word
<1> QED
    BY <1>1, <1>4, <1>8, <1>9

(* The sum of as many shorts as there are shorts at most is folded right.  *)
LEMMA TotalBound ==
    ASSUME NEW w \in Seq(Word), Len(w) <= WordSize
    PROVE  Total(w) \in Nat /\ Total(w) < WordSize * WordSize
<1>1. WordSize \in Nat /\ WordSize >= 16 /\ Len(w) \in Nat
    BY SizeFacts
<1>2. Total(w) \in Nat /\ Total(w) <= Len(w) * (WordSize - 1)
    BY <1>1, PartialSums
<1>3. Len(w) * (WordSize - 1) <= WordSize * (WordSize - 1)
    BY <1>1, SMT
<1>4. WordSize * (WordSize - 1) = WordSize * WordSize - WordSize
    BY <1>1, SMT
<1>5. Len(w) * (WordSize - 1) \in Int /\ WordSize * WordSize \in Int
    BY <1>1
<1> QED
    BY <1>1, <1>2, <1>3, <1>4, <1>5

(* Sums that differ in one short. *)
LEMMA OneWordDiffers ==
    ASSUME NEW v \in Seq(Word), NEW w \in Seq(Word), Len(v) = Len(w),
           NEW k \in 1 .. Len(v), \A i \in 1 .. Len(v) \ {k} : v[i] = w[i]
    PROVE  Total(v) = Total(w) + (v[k] - w[k])
<1> DEFINE N == Len(v)
           d == v[k] - w[k]
<1>1. N \in Nat /\ k \in Nat /\ k >= 1 /\ \A i \in 1 .. N : v[i] \in Nat /\ w[i] \in Nat
    BY SizeFacts DEF Word
<1>2. PICK f : /\ f[0] = 0
               /\ \A n \in 1 .. N : f[n] = f[n - 1] + v[n]
               /\ \A n \in 0 .. N : f[n] \in Nat
               /\ Total(v) = f[N]
    BY PartialSums
<1>3. PICK g : /\ g[0] = 0
               /\ \A n \in 1 .. N : g[n] = g[n - 1] + w[n]
               /\ \A n \in 0 .. N : g[n] \in Nat
               /\ Total(w) = g[N]
    BY PartialSums
<1> DEFINE S == {n \in Nat : n <= N => f[n] = g[n] + (IF n < k THEN 0 ELSE d)}
<1>4. 0 \in S
    <2>1. (IF 0 < k THEN 0 ELSE d) = 0
        BY <1>1
    <2> HIDE DEF d
    <2>2. f[0] = g[0] + (IF 0 < k THEN 0 ELSE d)
        BY <2>1, <1>2, <1>3
    <2> QED
        BY <2>2
<1>5. ASSUME NEW n \in Nat, n \in S PROVE n + 1 \in S
    <2> SUFFICES ASSUME n + 1 <= N
                 PROVE  f[n + 1] = g[n + 1] + (IF n + 1 < k THEN 0 ELSE d)
        OBVIOUS
    <2>1. n + 1 \in 1 .. N /\ n \in 0 .. N /\ (n + 1) - 1 = n
        BY <1>1
    <2>2. f[n] = g[n] + (IF n < k THEN 0 ELSE d)
        BY <1>1, <1>5, <2>1
    <2>3. f[n + 1] = f[n] + v[n + 1] /\ g[n + 1] = g[n] + w[n + 1]
        BY <1>2, <1>3, <2>1
    <2>4. f[n] \in Nat /\ g[n] \in Nat /\ v[n + 1] \in Nat /\ w[n + 1] \in Nat
        BY <1>1, <1>2, <1>3, <2>1
    <2>5. CASE n + 1 = k
        <3>1. f[n] = g[n]
            BY <2>2, <2>4, <2>5, <1>1
        <3> QED
            BY <3>1, <2>3, <2>4, <2>5
    <2>6. CASE n + 1 # k
        <3>1. v[n + 1] = w[n + 1] /\ (n + 1 < k <=> n < k)
            BY <2>1, <2>6, <1>1
        <3>2. d \in Int
            BY <1>1
        <3> HIDE DEF d
        <3> QED
            BY <3>1, <3>2, <2>2, <2>3, <2>4
    <2> QED
        BY <2>5, <2>6
<1>6. \A n \in Nat : n \in S
    <2> HIDE DEF S
    <2> QED
        BY <1>4, <1>5, SetInduction
<1> QED
    BY <1>1, <1>2, <1>3, <1>6

(* One step: adding the carry at once keeps the remainder, and 0 for 0.    *)
LEMMA EndAroundAddKeeps ==
    ASSUME NEW sum \in Nat, NEW a \in Word, NEW b \in Word, Congruent(sum, a), a = 0 <=> sum = 0
    PROVE  /\ Congruent(sum + b, EndAroundAdd(a, b))
           /\ EndAroundAdd(a, b) = 0 <=> sum + b = 0
<1>1. /\ WordSize \in Int /\ WordSize >= 16
      /\ a \in 0 .. WordSize - 1 /\ b \in 0 .. WordSize - 1
    BY SizeFacts DEF Word
<1>2. PICK m \in Int : sum = a + m * (WordSize - 1)
    BY DEF Congruent
<1>3. CASE a + b < WordSize
    <2>1. EndAroundAdd(a, b) = a + b
        BY <1>3 DEF EndAroundAdd
    <2>2. sum + b = (a + b) + m * (WordSize - 1)
        BY <1>1, <1>2
    <2>3. Congruent(sum + b, a + b)
        BY <2>2 DEF Congruent
    <2> QED
        BY <2>1, <2>3, <1>1
<1>4. CASE ~ (a + b < WordSize)
    <2>1. EndAroundAdd(a, b) = a + b - WordSize + 1
        BY <1>4 DEF EndAroundAdd
    <2>2. sum + b = (a + b - WordSize + 1) + (m + 1) * (WordSize - 1)
        BY <1>1, <1>2
    <2>3. Congruent(sum + b, a + b - WordSize + 1)
        BY <2>2 DEF Congruent
    <2>4. a + b - WordSize + 1 # 0 /\ b # 0 /\ sum + b # 0
        BY <1>1, <1>4
    <2> QED
        BY <2>1, <2>3, <2>4
<1> QED
    BY <1>3, <1>4

(* Adding each carry as it occurs gives what FoldCarries gives. *)
LEMMA EndAroundIsFold ==
    ASSUME NEW w \in Seq(Word), Len(w) <= WordSize
    PROVE  FoldCarries(Total(w)) = EndAroundTotal(w)
<1> DEFINE N == Len(w)
<1>1. N \in Nat /\ WordSize \in Nat /\ Word = 0 .. WordSize - 1 /\ Word \subseteq Nat
      /\ WordSize >= 16
    BY SizeFacts DEF Word
<1>2. PICK f : /\ f[0] = 0
               /\ \A n \in 1 .. N : f[n] = f[n - 1] + w[n]
               /\ \A n \in 0 .. N : f[n] \in Nat
               /\ Total(w) = f[N]
    BY PartialSums
<1>3. PICK e : /\ e[0] = 0
               /\ \A n \in 1 .. N : e[n] = EndAroundAdd(e[n - 1], w[n])
               /\ \A n \in 0 .. N : e[n] \in Word
               /\ EndAroundTotal(w) = e[N]
    BY EndAroundSums
<1> DEFINE S == {n \in Nat : n <= N => /\ Congruent(f[n], e[n])
                                       /\ e[n] = 0 <=> f[n] = 0}
<1>4. 0 \in S
    BY <1>2, <1>3, CongruentSame
<1>5. ASSUME NEW n \in Nat, n \in S PROVE n + 1 \in S
    <2> SUFFICES ASSUME n + 1 <= N
                 PROVE  /\ Congruent(f[n + 1], e[n + 1])
                        /\ e[n + 1] = 0 <=> f[n + 1] = 0
        OBVIOUS
    <2>1. n + 1 \in 1 .. N /\ n \in 0 .. N /\ (n + 1) - 1 = n
        BY <1>1
    <2>2. Congruent(f[n], e[n]) /\ (e[n] = 0 <=> f[n] = 0)
        BY <1>1, <1>5, <2>1
    <2>3. f[n + 1] = f[n] + w[n + 1] /\ e[n + 1] = EndAroundAdd(e[n], w[n + 1])
        BY <1>2, <1>3, <2>1
    <2>4. f[n] \in Nat /\ e[n] \in Word /\ w[n + 1] \in Word
        BY <1>1, <1>2, <1>3, <2>1
    <2> QED
        BY <2>2, <2>3, <2>4, EndAroundAddKeeps
<1>6. \A n \in Nat : n \in S
    <2> HIDE DEF S
    <2> QED
        BY <1>4, <1>5, SetInduction
<1>7. /\ Congruent(Total(w), EndAroundTotal(w))
      /\ EndAroundTotal(w) = 0 <=> Total(w) = 0
      /\ EndAroundTotal(w) \in Word
    BY <1>1, <1>2, <1>3, <1>6
<1>8. /\ FoldCarries(Total(w)) \in Word
      /\ Congruent(Total(w), FoldCarries(Total(w)))
      /\ FoldCarries(Total(w)) = 0 <=> Total(w) = 0
    BY TotalBound, FoldKeepsRemainder
<1> QED
    BY <1>7, <1>8, SameRemainder

-----------------------------------------------------------------------------

(* The shorts of a PDU: byte i is in word (i + 1) \div 2.                  *)
LEMMA WordsType ==
    ASSUME NEW bytes, Short(bytes)
    PROVE  /\ Words(bytes) \in Seq(Word)
           /\ Len(Words(bytes)) = (Len(bytes) + 1) \div 2
           /\ Len(Words(bytes)) <= WordSize
<1> DEFINE L == Len(bytes)
           M == (L + 1) \div 2
<1>1. L \in Nat /\ M \in Nat /\ WordSize \in Nat /\ L <= 2 * WordSize
    BY SizeFacts DEF Short
<1>2. M <= WordSize
    BY <1>1
<1>3. ASSUME NEW i \in 1 .. M
      PROVE  bytes[2 * i - 1] + (IF 2 * i <= L THEN ByteSize * bytes[2 * i] ELSE 0) \in Word
    <2>1. 2 * i - 1 \in 1 .. L
        BY <1>1
    <2>2. bytes[2 * i - 1] \in Byte
        BY <2>1 DEF Short
    <2>3. CASE 2 * i <= L
        <3>1. 2 * i \in 1 .. L
            BY <2>1, <2>3, <1>1
        <3>2. bytes[2 * i] \in Byte
            BY <3>1 DEF Short
        <3> QED
            BY <2>2, <2>3, <3>2, SizeFacts
    <2>4. CASE ~ (2 * i <= L)
        <3>1. bytes[2 * i - 1] + 0 \in Word
            BY <2>2, SizeFacts DEF Byte, Word
        <3> QED
            BY <3>1, <2>4
    <2> QED
        BY <2>3, <2>4
<1>4. Words(bytes) \in [1 .. M -> Word]
    BY <1>3 DEF Words
<1> HIDE DEF M
<1>5. Words(bytes) \in Seq(Word) /\ Len(Words(bytes)) = M
    BY <1>1, <1>4
<1> QED
    BY <1>1, <1>2, <1>5 DEF M

(* A PDU is accepted if the sum of its shorts is a multiple, and not 0.    *)
LEMMA ValidIsMultiple ==
    ASSUME NEW bytes, Short(bytes)
    PROVE  /\ InCksum(bytes) \in Word
           /\ Total(Words(bytes)) \in Nat
           /\ Congruent(Total(Words(bytes)), WordSize - 1 - InCksum(bytes))
           /\ WordSize - 1 - InCksum(bytes) = 0 <=> Total(Words(bytes)) = 0
           /\ InCksum(bytes) = 0 <=> /\ Congruent(Total(Words(bytes)), 0)
                                     /\ Total(Words(bytes)) # 0
<1> DEFINE sum == Total(Words(bytes))
           fold == FoldCarries(sum)
<1>1. WordSize \in Int /\ WordSize >= 16
    BY SizeFacts
<1>2. sum \in Nat /\ sum < WordSize * WordSize
    BY WordsType, TotalBound
<1>3. fold \in Word /\ Congruent(sum, fold) /\ (fold = 0 <=> sum = 0)
    BY <1>2, FoldKeepsRemainder
<1>4. InCksum(bytes) = WordSize - 1 - fold
    BY DEF InCksum
<1> HIDE DEF sum, fold
<1>5. InCksum(bytes) \in Word /\ WordSize - 1 - InCksum(bytes) = fold
    BY <1>1, <1>3, <1>4 DEF Word
<1>6. ASSUME fold = WordSize - 1 PROVE Congruent(sum, 0)
    <2>1. PICK m \in Int : sum = (WordSize - 1) + m * (WordSize - 1)
        BY <1>3, <1>6 DEF Congruent
    <2>2. sum = 0 + (m + 1) * (WordSize - 1)
        BY <1>1, <2>1
    <2> QED
        BY <2>2 DEF Congruent
<1>7. ASSUME Congruent(sum, 0), sum # 0 PROVE fold = WordSize - 1
    <2>1. PICK m \in Int : sum = 0 + m * (WordSize - 1)
        BY <1>7 DEF Congruent
    <2>2. sum = (WordSize - 1) + (m - 1) * (WordSize - 1)
        BY <1>1, <2>1
    <2>3. Congruent(sum, WordSize - 1)
        BY <2>2 DEF Congruent
    <2>4. WordSize - 1 \in Word /\ WordSize - 1 # 0
        BY <1>1 DEF Word
    <2> QED
        BY <1>3, <1>7, <2>3, <2>4, SameRemainder
<1>8. InCksum(bytes) = 0 <=> fold = WordSize - 1
    BY <1>1, <1>3, <1>4 DEF Word
<1> QED
    BY <1>1, <1>2, <1>3, <1>5, <1>6, <1>7, <1>8 DEF sum

(* What a byte counts in the sum: the first of a short is its lower one.   *)
Weight(i) == IF i % 2 = 1 THEN 1 ELSE ByteSize

(* a and b have the same length and differ in place i at most. *)
DifferAt(a, b, i) ==
    /\ Len(a) = Len(b)
    /\ i \in 1 .. Len(a)
    /\ \A j \in 1 .. Len(a) \ {i} : a[j] = b[j]

(* Then their sums differ by as much as that byte counts. *)
LEMMA OneByteDiffers ==
    ASSUME NEW a, Short(a), NEW b, Short(b), NEW i, DifferAt(a, b, i)
    PROVE  Total(Words(a)) = Total(Words(b)) + Weight(i) * (a[i] - b[i])
<1> SUFFICES ASSUME Len(a) = Len(b), i \in 1 .. Len(a),
                    \A j \in 1 .. Len(a) \ {i} : a[j] = b[j]
             PROVE  Total(Words(a)) = Total(Words(b)) + Weight(i) * (a[i] - b[i])
    BY DEF DifferAt
<1> DEFINE L == Len(a)
           v == Words(a)
           w == Words(b)
           k == (i + 1) \div 2
           weight == Weight(i)
<1>1. L \in Nat /\ i \in Nat /\ ByteSize \in Nat /\ k \in 1 .. (L + 1) \div 2
    BY SizeFacts DEF Short
<1>2. ASSUME NEW j \in 1 .. L PROVE a[j] \in Int /\ b[j] \in Int
    <2>1. a[j] \in Byte /\ b[j] \in Byte
        BY DEF Short
    <2> QED
        BY <2>1 DEF Byte
<1>3. /\ v \in Seq(Word) /\ w \in Seq(Word) /\ Len(v) = Len(w)
      /\ k \in 1 .. Len(v) /\ Len(v) = (L + 1) \div 2
    BY <1>1, WordsType
<1>4. ASSUME NEW n \in 1 .. Len(v)
      PROVE  /\ v[n] = a[2 * n - 1] + (IF 2 * n <= L THEN ByteSize * a[2 * n] ELSE 0)
             /\ w[n] = b[2 * n - 1] + (IF 2 * n <= L THEN ByteSize * b[2 * n] ELSE 0)
    BY <1>3 DEF Words
<1>5. ASSUME NEW n \in 1 .. Len(v) \ {k} PROVE v[n] = w[n]
    <2>1. 2 * n - 1 \in 1 .. L /\ 2 * n - 1 # i /\ 2 * n # i
        BY <1>1, <1>3
    <2>2. 2 * n <= L => 2 * n \in 1 .. L
        BY <2>1, <1>1
    <2>3. a[2 * n - 1] = b[2 * n - 1] /\ (2 * n <= L => a[2 * n] = b[2 * n])
        BY <2>1, <2>2
    <2> QED
        BY <1>4, <2>3
<1>6. v[k] - w[k] = weight * (a[i] - b[i])
    <2>1. CASE i % 2 = 1
        <3>1. 2 * k - 1 = i /\ (2 * k <= L => 2 * k \in 1 .. L /\ 2 * k # i)
            BY <1>1, <2>1
        <3> DEFINE x == IF 2 * k <= L THEN ByteSize * a[2 * k] ELSE 0
        <3>2. v[k] = a[i] + x /\ w[k] = b[i] + x
            BY <1>3, <1>4, <3>1
        <3>3. x \in Int
            BY <3>1, <1>1, <1>2
        <3> QED
            BY <3>2, <3>3, <1>2, <2>1 DEF Weight
    <2>2. CASE i % 2 # 1
        <3>1. 2 * k = i /\ 2 * k <= L /\ 2 * k - 1 \in 1 .. L /\ 2 * k - 1 # i
            BY <1>1, <2>2
        <3> DEFINE x == a[2 * k - 1]
        <3>2. v[k] = x + ByteSize * a[i] /\ w[k] = x + ByteSize * b[i]
            BY <1>3, <1>4, <3>1
        <3>3. x \in Int
            BY <3>1, <1>1, <1>2
        <3>4. weight = ByteSize
            BY <2>2 DEF Weight
        <3> HIDE DEF x, v, w, k, weight
        <3> QED
            BY <3>2, <3>3, <3>4, <1>1, <1>2
    <2> QED
        BY <2>1, <2>2
<1>7. Total(v) = Total(w) + (v[k] - w[k])
    <2> HIDE DEF v, w, k
    <2> QED
        BY <1>3, <1>5, OneWordDiffers
<1> QED
    BY <1>6, <1>7

(* The bytes of a PDU: the sequence number, the checksum, the flag and the *)
(* payload.                                                                *)
Assembly(field, lo, hi, flag, payload) == field \o <<lo, hi, flag>> \o payload

HasParts(p, field, lo, hi, flag, payload) ==
    /\ p \in Seq(Byte)
    /\ Len(p) = HeaderLen + Len(payload)
    /\ \A i \in 1 .. 4 : p[i] = field[i]
    /\ p[5] = lo /\ p[6] = hi /\ p[7] = flag
    /\ \A i \in 1 .. Len(payload) : p[HeaderLen + i] = payload[i]

(* A function on 1 .. n is a sequence of that length. *)
LEMMA FunctionIsSeq ==
    ASSUME NEW n \in Nat, NEW S, NEW f \in [1 .. n -> S]
    PROVE  f \in Seq(S) /\ Len(f) = n
OBVIOUS

(* u is s followed by t, byte for byte. *)
IsConcat(u, s, t) ==
    /\ Len(u) = Len(s) + Len(t)
    /\ \A i \in 1 .. Len(s) : u[i] = s[i]
    /\ \A i \in 1 .. Len(t) : u[Len(s) + i] = t[i]

(* Concatenation does that. *)
LEMMA ConcatAt ==
    ASSUME NEW S, NEW s \in Seq(S), NEW t \in Seq(S)
    PROVE  s \o t \in Seq(S) /\ IsConcat(s \o t, s, t)
<1> DEFINE u == s \o t
<1>1. /\ u \in Seq(S) /\ Len(u) = Len(s) + Len(t)
      /\ \A i \in 1 .. Len(s) + Len(t) : u[i] = IF i <= Len(s) THEN s[i] ELSE t[i - Len(s)]
    BY ConcatProperties, Zenon
<1>2. Len(s) \in Nat /\ Len(t) \in Nat
    OBVIOUS
<1> HIDE DEF u
<1>3. \A i \in 1 .. Len(s) : u[i] = s[i]
    BY <1>1, <1>2
<1>4. ASSUME NEW i \in 1 .. Len(t) PROVE u[Len(s) + i] = t[i]
    <2>1. Len(s) + i \in 1 .. Len(s) + Len(t) /\ ~ (Len(s) + i <= Len(s))
          /\ (Len(s) + i) - Len(s) = i
        BY <1>2
    <2> QED
        BY <1>1, <2>1
<1> QED
    BY <1>1, <1>3, <1>4, Zenon DEF u, IsConcat

(* The three fields and the payload are where HasParts says. *)
LEMMA Assembled ==
    ASSUME NEW field \in [1 .. 4 -> Byte], NEW lo \in Byte, NEW hi \in Byte, NEW flag \in Byte,
           NEW payload \in Seq(Byte)
    PROVE  HasParts(Assembly(field, lo, hi, flag, payload), field, lo, hi, flag, payload)
<1> DEFINE mid == <<lo, hi, flag>>
           head == field \o mid
           p == head \o payload
<1>1. field \in Seq(Byte) /\ Len(field) = 4
    BY FunctionIsSeq, 4 \in Nat
<1>2. mid \in Seq(Byte) /\ Len(mid) = 3 /\ mid[1] = lo /\ mid[2] = hi /\ mid[3] = flag
    OBVIOUS
<1>3. p = Assembly(field, lo, hi, flag, payload)
    BY DEF Assembly
<1> HIDE DEF mid
<1>4. head \in Seq(Byte) /\ IsConcat(head, field, mid)
    BY <1>1, <1>2, ConcatAt, Zenon
<1> HIDE DEF head
<1>5. p \in Seq(Byte) /\ IsConcat(p, head, payload)
    BY <1>4, ConcatAt, Zenon
<1> HIDE DEF p
<1>6. Len(head) = 7
    BY <1>1, <1>2, <1>4 DEF IsConcat
<1>7. head[4 + 1] = lo /\ head[4 + 2] = hi /\ head[4 + 3] = flag
    BY <1>1, <1>2, <1>4 DEF IsConcat
<1>8. p[5] = lo /\ p[6] = hi /\ p[7] = flag
    BY <1>5, <1>6, <1>7 DEF IsConcat
<1>9. \A i \in 1 .. 4 : p[i] = field[i]
    BY <1>1, <1>4, <1>5, <1>6 DEF IsConcat
<1> QED
    BY <1>3, <1>5, <1>6, <1>8, <1>9 DEF HasParts, HeaderLen, IsConcat

(* createPDU makes PDUs that validateChecksum accepts. *)
LEMMA CreatedIsValid ==
    ASSUME NEW seqNum, HostBytes(Htonl(seqNum)) \in [1 .. 4 -> Byte], NEW flag \in Byte,
           NEW payload \in Seq(Byte), HeaderLen + Len(payload) <= 2 * WordSize,
           NEW p, p = CreatePDU(seqNum, flag, payload)
    PROVE  /\ Short(p) /\ ValidateChecksum(p)
           /\ Len(p) = HeaderLen + Len(payload)
           /\ \A i \in 1 .. 4 : p[i] = HostBytes(Htonl(seqNum))[i]
           /\ p[7] = flag
           /\ \A i \in 1 .. Len(payload) : p[HeaderLen + i] = payload[i]
<1> DEFINE field == HostBytes(Htonl(seqNum))
           z == Assembly(field, 0, 0, flag, payload)
           c == InCksum(z)
           lo == c % ByteSize
           hi == c \div ByteSize
           y == Assembly(field, lo, 0, flag, payload)
<1>1. /\ ByteSize \in Nat /\ ByteSize >= 4 /\ 0 \in Byte /\ Byte \subseteq Int
      /\ WordSize \in Int /\ WordSize >= 16 /\ WordSize = ByteSize * ByteSize
    <2>1. WordSize = ByteSize * ByteSize
        BY DEF WordSize
    <2>2. /\ ByteSize \in Nat /\ ByteSize >= 4
          /\ WordSize \in Nat /\ WordSize >= 4 * ByteSize
        BY SizeFacts
    <2> QED
        BY <2>1, <2>2 DEF Byte
<1>2. p = Assembly(field, lo, hi, flag, payload)
    BY Zenon DEF CreatePDU, Assembly
<1> HIDE DEF field, c
<1>3. field \in [1 .. 4 -> Byte]
    BY DEF field
<1>4. HasParts(z, field, 0, 0, flag, payload)
    BY <1>1, <1>3, Assembled
<1> HIDE DEF z
<1>5. Short(z)
    BY <1>4 DEF HasParts, Short
<1>6. c \in Word
    BY <1>5, ValidIsMultiple DEF c
<1>7. c \in Nat /\ c < ByteSize * ByteSize
    BY <1>1, <1>6 DEF Word
<1>8. lo \in Byte /\ hi \in Nat /\ c = ByteSize * hi + lo
    <2>1. c \in Nat /\ ByteSize \in Nat /\ ByteSize > 0
        BY <1>1, <1>7
    <2>2. lo \in Byte /\ hi \in Nat
        BY <2>1, SMT DEF Byte
    <2>3. c = ByteSize * hi + lo
        BY <2>1, SMT
    <2> QED
        BY <2>2, <2>3
<1> HIDE DEF lo, hi
<1>9. hi \in Byte
    <2> SUFFICES ASSUME hi >= ByteSize PROVE FALSE
        BY <1>1, <1>8 DEF Byte
    <2>1. ByteSize * hi >= ByteSize * ByteSize
        BY <1>1, <1>8, SMT
    <2>2. lo >= 0 /\ lo \in Int /\ ByteSize * hi \in Int /\ ByteSize * ByteSize \in Int
        BY <1>1, <1>8 DEF Byte
    <2> QED
        BY <2>1, <2>2, <1>7, <1>8
<1>10. HasParts(y, field, lo, 0, flag, payload)
    BY <1>1, <1>3, <1>8, Assembled
<1>11. HasParts(p, field, lo, hi, flag, payload)
    BY <1>2, <1>3, <1>8, <1>9, Assembled
<1> HIDE DEF y
<1>12. Short(y) /\ Short(p)
    BY <1>10, <1>11 DEF HasParts, Short
<1>13. ASSUME NEW j \in 1 .. Len(p)
       PROVE  (j # 5 => y[j] = z[j]) /\ (j # 6 => p[j] = y[j])
    <2>1. Len(payload) \in Nat /\ HeaderLen = 7
        BY DEF HeaderLen
    <2>2. CASE j <= 7
        <3>1. j \in 1 .. 4 \/ j = 5 \/ j = 6 \/ j = 7
            BY <2>2
        <3> QED
            BY <3>1, <1>4, <1>10, <1>11 DEF HasParts
    <2>3. CASE j > 7
        <3>1. j - 7 \in 1 .. Len(payload) /\ HeaderLen + (j - 7) = j
            BY <2>1, <2>3, <1>11 DEF HasParts
        <3>2. /\ z[HeaderLen + (j - 7)] = payload[j - 7]
              /\ y[HeaderLen + (j - 7)] = payload[j - 7]
              /\ p[HeaderLen + (j - 7)] = payload[j - 7]
            BY <3>1, <1>4, <1>10, <1>11, Zenon DEF HasParts
        <3> QED
            BY <3>1, <3>2
    <2> QED
        BY <2>2, <2>3
<1>14. 5 \in 1 .. Len(p) /\ 6 \in 1 .. Len(p)
    BY <1>11 DEF HasParts, HeaderLen
<1>15. Total(Words(y)) = Total(Words(z)) + Weight(5) * (y[5] - z[5])
    <2>1. DifferAt(y, z, 5)
        BY <1>4, <1>10, <1>11, <1>13, <1>14 DEF HasParts, DifferAt
    <2> QED
        BY <1>5, <1>12, <2>1, OneByteDiffers, Zenon
<1>16. Total(Words(p)) = Total(Words(y)) + Weight(6) * (p[6] - y[6])
    <2>1. DifferAt(p, y, 6)
        BY <1>10, <1>11, <1>13, <1>14 DEF HasParts, DifferAt
    <2> QED
        BY <1>12, <2>1, OneByteDiffers, Zenon
<1>17. Total(Words(p)) = Total(Words(z)) + c
    <2>1. Weight(5) = 1 /\ Weight(6) = ByteSize
        BY DEF Weight
    <2>2. lo \in Int /\ hi \in Int /\ Total(Words(z)) \in Int
        BY <1>1, <1>5, <1>8, ValidIsMultiple
    <2>3. Total(Words(y)) = Total(Words(z)) + lo
        BY <1>4, <1>10, <1>15, <2>1, <2>2 DEF HasParts
    <2>4. Total(Words(p)) = Total(Words(y)) + ByteSize * hi
        BY <1>1, <1>10, <1>11, <1>16, <2>1, <2>2 DEF HasParts
    <2>5. ByteSize * hi \in Int
        BY <1>1, <2>2
    <2> QED
        BY <1>8, <2>2, <2>3, <2>4, <2>5
<1>18. /\ Total(Words(z)) \in Nat
       /\ Congruent(Total(Words(z)), WordSize - 1 - c)
       /\ WordSize - 1 - c = 0 <=> Total(Words(z)) = 0
    BY <1>5, ValidIsMultiple DEF c
<1> DEFINE sum == Total(Words(z))
<1> HIDE DEF sum
<1>19. sum + c # 0
    BY <1>1, <1>7, <1>18 DEF sum
<1>20. Congruent(sum + c, 0)
    <2>1. PICK m \in Int : sum = WordSize - 1 - c + m * (WordSize - 1)
        BY <1>18 DEF Congruent, sum
    <2>2. sum + c = 0 + (m + 1) * (WordSize - 1)
        BY <1>1, <1>7, <2>1
    <2> QED
        BY <2>2 DEF Congruent
<1>21. InCksum(p) = 0
    BY <1>12, <1>17, <1>19, <1>20, ValidIsMultiple DEF sum
<1> QED
    BY <1>11, <1>12, <1>21 DEF ValidateChecksum, HasParts, field

(* p after errorFlipBits has flipped byte i. *)
FlippedAt(p, i) == [p EXCEPT ![i] = Flipped(@)]

(* No flipped byte goes unnoticed. *)
LEMMA FlipIsFound ==
    ASSUME NEW p, Short(p), ValidateChecksum(p), NEW i \in DOMAIN p,
           NEW q, q = FlippedAt(p, i)
    PROVE  Short(q) /\ Len(q) = Len(p) /\ ~ ValidateChecksum(q)
<1>1. ByteSize \in Nat /\ ByteSize >= 4 /\ WordSize \in Int /\ Byte \subseteq Int
      /\ WordSize = ByteSize * ByteSize
    BY SizeFacts DEF Byte, WordSize
<1>2. p \in Seq(Byte) /\ i \in 1 .. Len(p) /\ p[i] \in Byte
    BY DEF Short
<1>3. Flipped(p[i]) \in Byte /\ Flipped(p[i]) # p[i]
    BY <1>2, SizeFacts
<1>4. q \in Seq(Byte) /\ Len(q) = Len(p)
    BY <1>2, <1>3 DEF FlippedAt
<1>5. q[i] = Flipped(p[i]) /\ \A j \in 1 .. Len(q) \ {i} : q[j] = p[j]
    BY <1>2, <1>4 DEF FlippedAt
<1>6. Short(q)
    BY <1>4 DEF Short
<1> DEFINE d == q[i] - p[i]
           a == Total(Words(q))
           b == Total(Words(p))
<1>7. a = b + Weight(i) * d
    <2>1. DifferAt(q, p, i)
        BY <1>2, <1>4, <1>5 DEF DifferAt
    <2> QED
        BY <1>6, <2>1, OneByteDiffers, Zenon
<1>8. a \in Nat /\ b \in Nat
    BY <1>6, ValidIsMultiple
<1>9. d \in - (ByteSize - 1) .. ByteSize - 1 /\ d # 0
    BY <1>1, <1>2, <1>3, <1>5 DEF Byte
<1> HIDE DEF a, b, d
<1>10. Weight(i) * d # 0 /\ - (WordSize - 1) < Weight(i) * d /\ Weight(i) * d < WordSize - 1
    <2>1. CASE Weight(i) = 1
        <3>1. WordSize >= 4 * ByteSize
            BY SizeFacts
        <3> QED
            BY <2>1, <3>1, <1>1, <1>9
    <2>2. CASE Weight(i) = ByteSize
        <3>1. /\ ByteSize * d <= ByteSize * (ByteSize - 1)
              /\ ByteSize * d >= - (ByteSize * (ByteSize - 1))
            BY <1>1, <1>9, SMT
        <3>2. ByteSize * (ByteSize - 1) = WordSize - ByteSize
            BY <1>1, SMT
        <3>3. ByteSize * d # 0 /\ ByteSize * d \in Int
            BY <1>1, <1>9, SMT
        <3> QED
            BY <2>2, <3>1, <3>2, <3>3, <1>1
    <2> QED
        BY <2>1, <2>2 DEF Weight
<1> SUFFICES ASSUME ValidateChecksum(q) PROVE FALSE
    BY <1>4, <1>6
<1>11. Congruent(a, 0) /\ Congruent(b, 0)
    BY <1>6, ValidIsMultiple DEF ValidateChecksum, a, b
<1>12. PICK m \in Int : a = 0 + m * (WordSize - 1)
    BY <1>11 DEF Congruent
<1>13. PICK k \in Int : b = 0 + k * (WordSize - 1)
    BY <1>11 DEF Congruent
<1>14. a = b + (m - k) * (WordSize - 1)
    BY <1>1, <1>12, <1>13
<1>15. Congruent(a, b)
    BY <1>14 DEF Congruent
<1>16. Weight(i) * d \in Int /\ a - b = Weight(i) * d
    BY <1>1, <1>7, <1>8, <1>9 DEF Weight
<1> QED
    BY <1>8, <1>10, <1>15, <1>16, CongruentWords

-----------------------------------------------------------------------------

(* Four bytes are the bytes of their value, and of no other. *)
LEMMA DigitsDiffer ==
    ASSUME NEW a \in Byte, NEW b \in Byte, NEW x \in Nat, NEW y \in Nat,
           a + ByteSize * x = b + ByteSize * y
    PROVE  a = b /\ x = y
<1>1. ByteSize \in Int /\ ByteSize > 0 /\ a \in 0 .. ByteSize - 1 /\ b \in 0 .. ByteSize - 1
    BY SizeFacts DEF Byte
<1>2. x > y => ByteSize * x >= ByteSize * y + ByteSize
    BY <1>1, SMT
<1>3. y > x => ByteSize * y >= ByteSize * x + ByteSize
    BY <1>1, SMT
<1>4. ByteSize * x \in Int /\ ByteSize * y \in Int
    BY <1>1
<1>5. ~ (x > y) /\ ~ (y > x)
    BY <1>1, <1>2, <1>3, <1>4
<1>6. x = y
    BY <1>5
<1> QED
    BY <1>1, <1>4, <1>6

(* HostBytes undoes HostValue: no other four bytes have the same value. *)
LEMMA HostBytesOfValue ==
    ASSUME NEW b \in [1 .. 4 -> Byte]
    PROVE  HostBytes(HostValue(b)) = b
<1> DEFINE c == HostBytes(HostValue(b))
<1>1. c \in [1 .. 4 -> Byte] /\ HostValue(c) = HostValue(b)
    BY Zenon DEF HostBytes
<1> HIDE DEF c
<1>2. ByteSize \in Nat /\ Byte \subseteq Nat
    BY SizeFacts DEF Byte
<1> DEFINE upper2(d) == d[3] + ByteSize * d[4]
           upper3(d) == d[2] + ByteSize * upper2(d)
<1>3. ASSUME NEW d \in [1 .. 4 -> Byte]
      PROVE  /\ d[1] \in Byte /\ d[2] \in Byte /\ d[3] \in Byte
             /\ d[4] \in Nat /\ upper2(d) \in Nat /\ upper3(d) \in Nat
    <2>1. d[1] \in Byte /\ d[2] \in Byte /\ d[3] \in Byte /\ d[4] \in Byte
        OBVIOUS
    <2>2. d[2] \in Nat /\ d[3] \in Nat /\ d[4] \in Nat
        BY <1>2, <2>1
    <2>3. upper2(d) \in Nat
        BY <1>2, <2>2
    <2> HIDE DEF upper2
    <2>4. upper3(d) \in Nat
        BY <1>2, <2>2, <2>3
    <2> QED
        BY <2>1, <2>2, <2>3, <2>4
<1>4. c[1] + ByteSize * upper3(c) = b[1] + ByteSize * upper3(b)
    BY <1>1, Zenon DEF HostValue
<1> HIDE DEF upper3
<1>5. c[1] = b[1] /\ upper3(c) = upper3(b)
    BY <1>1, <1>3, <1>4, DigitsDiffer
<1>6. c[2] + ByteSize * upper2(c) = b[2] + ByteSize * upper2(b)
    BY <1>5, Zenon DEF upper3
<1> HIDE DEF upper2
<1>7. c[2] = b[2] /\ upper2(c) = upper2(b)
    BY <1>1, <1>3, <1>6, DigitsDiffer
<1>8. c[3] + ByteSize * c[4] = b[3] + ByteSize * b[4]
    BY <1>7, Zenon DEF upper2
<1>9. c[3] = b[3] /\ c[4] = b[4]
    BY <1>1, <1>3, <1>8, DigitsDiffer
<1>10. \A i \in 1 .. 4 : c[i] = b[i]
    BY <1>5, <1>7, <1>9
<1> QED
    BY <1>1, <1>10 DEF c

(* htonl is its own inverse. *)
LEMMA ReverseTwice ==
    ASSUME NEW b \in [1 .. 4 -> Byte]
    PROVE  Reverse(b) \in [1 .. 4 -> Byte] /\ Reverse(Reverse(b)) = b
<1>1. Len(b) = 4
    BY FunctionIsSeq, 4 \in Nat
<1>2. Reverse(b) = [i \in 1 .. 4 |-> b[(4 - i) + 1]]
    BY <1>1 DEF Reverse
<1> DEFINE r == Reverse(b)
<1>3. r \in [1 .. 4 -> Byte] /\ \A i \in 1 .. 4 : r[i] = b[(4 - i) + 1]
    BY <1>2
<1> HIDE DEF r
<1>4. Len(r) = 4
    BY <1>3, FunctionIsSeq, 4 \in Nat
<1>5. Reverse(r) = [i \in 1 .. 4 |-> r[(4 - i) + 1]]
    BY <1>4 DEF Reverse
<1>6. Reverse(r) = b
    BY <1>3, <1>5
<1> QED
    BY <1>3, <1>6 DEF r

(* A number that is written as Htonl leaves it is read back.               *)
LEMMA NumberBytes ==
    ASSUME NEW k, NEW n \in Number(k)
    PROVE  /\ HostBytes(Htonl(n)) \in [1 .. 4 -> Byte]
           /\ Htonl(HostValue(HostBytes(Htonl(n)))) = n
<1>1. PICK b \in [1 .. 4 -> Byte] : n = HostValue(b)
    BY DEF Number
<1> DEFINE r == Reverse(b)
<1>2. r \in [1 .. 4 -> Byte] /\ Reverse(r) = b
    BY ReverseTwice
<1> HIDE DEF r
<1>3. HostBytes(n) = b
    BY <1>1, HostBytesOfValue
<1>4. Htonl(n) = HostValue(r)
    BY <1>3, Zenon DEF Htonl, r
<1>5. HostBytes(Htonl(n)) = r
    BY <1>2, <1>4, HostBytesOfValue
<1>6. Htonl(HostValue(r)) = HostValue(b)
    BY <1>2, HostBytesOfValue, Zenon DEF Htonl
<1> QED
    BY <1>1, <1>2, <1>5, <1>6

(* ... from wherever in a PDU those bytes stand. *)
LEMMA ReadBack ==
    ASSUME NEW k, NEW n \in Number(k), NEW p \in Seq(Byte), NEW offset \in Nat,
           offset + 4 <= Len(p),
           \A i \in 1 .. 4 : p[offset + i] = HostBytes(Htonl(n))[i]
    PROVE  Htonl(Uint32At(p, offset)) = n
<1> DEFINE b == HostBytes(Htonl(n))
           s == SubSeq(p, offset + 1, offset + 4)
<1>1. b \in [1 .. 4 -> Byte] /\ Htonl(HostValue(b)) = n
    BY NumberBytes
<1> HIDE DEF b
<1>2. s = [i \in 1 .. 4 |-> p[offset + i]]
    <2>1. s = [i \in 1 .. (offset + 4 - (offset + 1) + 1) |-> p[offset + 1 + i - 1]]
        OBVIOUS
    <2> QED
        BY <2>1
<1>3. s = b
    BY <1>1, <1>2 DEF b
<1> QED
    BY <1>1, <1>3 DEF Uint32At

-----------------------------------------------------------------------------

(* What every receiver may rely on, of the header and of the payload.      *)
Arrives(p, seqNum, flag, payload) ==
    /\ Short(p) /\ ValidateChecksum(p)
    /\ Len(p) = HeaderLen + Len(payload)
    /\ GetSequenceNum(p) = seqNum
    /\ GetFlag(p) = flag
    /\ \A i \in 1 .. Len(payload) : p[HeaderLen + i] = payload[i]

(* createPDU makes what arrives. *)
LEMMA CreatedArrives ==
    ASSUME NEW k, NEW seqNum \in Number(k), NEW flag \in Byte, NEW payload \in Seq(Byte),
           HeaderLen + Len(payload) <= 2 * WordSize
    PROVE  Arrives(CreatePDU(seqNum, flag, payload), seqNum, flag, payload)
<1> DEFINE p == CreatePDU(seqNum, flag, payload)
           field == HostBytes(Htonl(seqNum))
<1>1. field \in [1 .. 4 -> Byte]
    BY NumberBytes
<1>2. /\ Short(p) /\ ValidateChecksum(p)
      /\ Len(p) = HeaderLen + Len(payload)
      /\ \A i \in 1 .. 4 : p[i] = field[i]
      /\ p[7] = flag
      /\ \A i \in 1 .. Len(payload) : p[HeaderLen + i] = payload[i]
    BY <1>1, CreatedIsValid
<1> HIDE DEF p
<1>3. p \in Seq(Byte) /\ 0 + 4 <= Len(p) /\ \A i \in 1 .. 4 : p[0 + i] = field[i]
    BY <1>2 DEF Short, HeaderLen
<1>4. GetSequenceNum(p) = seqNum
    BY <1>3, 0 \in Nat, ReadBack DEF GetSequenceNum
<1> QED
    BY <1>2, <1>4 DEF Arrives, GetFlag, p

(* The receiver of a block or of a status finds it behind the header.      *)
LEMMA PayloadIsRead ==
    ASSUME NEW p, NEW seqNum, NEW flag, NEW payload \in Seq(Byte),
           Arrives(p, seqNum, flag, payload)
    PROVE  SubSeq(p, HeaderLen + 1, HeaderLen + GetPayloadLen(p)) = payload
<1> DEFINE N == Len(payload)
<1>1. N \in Nat /\ payload \in [1 .. N -> Byte]
    OBVIOUS
<1>2. GetPayloadLen(p) = N
    BY <1>1 DEF Arrives, GetPayloadLen, HeaderLen
<1>3. SubSeq(p, 8, 7 + N) = [i \in 1 .. N |-> p[7 + i]]
    <2>1. SubSeq(p, 8, 7 + N) = [i \in 1 .. (7 + N - 8 + 1) |-> p[8 + i - 1]]
        OBVIOUS
    <2> QED
        BY <2>1, <1>1
<1>4. \A i \in 1 .. N : p[7 + i] = payload[i]
    BY DEF Arrives, HeaderLen
<1> HIDE DEF N
<1>5. SubSeq(p, 8, 7 + N) = payload
    BY <1>1, <1>3, <1>4
<1> QED
    BY <1>2, <1>5 DEF HeaderLen

(* The receiver of an RR or of an SREJ reads the number it carries.        *)
LEMMA NumberIsRead ==
    ASSUME NEW k, NEW number \in Number(k), NEW p, NEW seqNum, NEW flag,
           Arrives(p, seqNum, flag, NumberPayload(number))
    PROVE  GetControlSeqNum(p) = number
<1> DEFINE b == NumberPayload(number)
<1>1. b = HostBytes(Htonl(number)) /\ b \in [1 .. 4 -> Byte]
    BY NumberBytes DEF NumberPayload
<1> HIDE DEF b
<1>2. Len(b) = 4
    BY <1>1, FunctionIsSeq, 4 \in Nat
<1>3. p \in Seq(Byte) /\ 7 + 4 <= Len(p) /\ \A i \in 1 .. 4 : p[7 + i] = b[i]
    BY <1>2 DEF Arrives, Short, HeaderLen, b
<1> QED
    BY <1>1, <1>3, 7 \in Nat, ReadBack DEF GetControlSeqNum, HeaderLen

(* strncpy gets a name that is followed by a NUL and fits.                 *)
LEMMA NameIsCopied ==
    ASSUME NEW n \in Nat, NEW len \in 0 .. n, NEW name \in [1 .. len -> Byte \ {0}],
           NEW bytes, \A i \in 1 .. len : bytes[i] = name[i], bytes[len + 1] = 0
    PROVE  CString(bytes, n) = name
<1> DEFINE IsEnd(k) == /\ \A i \in 1 .. k : bytes[i] # 0
                       /\ k = n \/ bytes[k + 1] = 0
           end == CHOOSE k \in 0 .. n : IsEnd(k)
<1>1. IsEnd(len)
    OBVIOUS
<1>2. end \in 0 .. n /\ IsEnd(end)
    <2> HIDE DEF IsEnd
    <2> QED
        BY <1>1, Zenon
<1>3. CString(bytes, n) = SubSeq(bytes, 1, end)
    BY Zenon DEF CString
<1> HIDE DEF end
<1>4. end = len
    <2>1. ~ (end > len)
        <3> SUFFICES ASSUME end > len PROVE FALSE
            OBVIOUS
        <3>1. len + 1 \in 1 .. end
            BY <1>2
        <3> QED
            BY <1>2, <3>1
    <2>2. ~ (end < len)
        <3> SUFFICES ASSUME end < len PROVE FALSE
            OBVIOUS
        <3>1. end + 1 \in 1 .. len /\ end # n
            BY <1>2
        <3> QED
            BY <1>1, <1>2, <3>1
    <2> QED
        BY <1>2, <2>1, <2>2
<1>5. SubSeq(bytes, 1, len) = [i \in 1 .. len |-> bytes[i]]
    <2>1. SubSeq(bytes, 1, len) = [i \in 1 .. (len - 1 + 1) |-> bytes[1 + i - 1]]
        OBVIOUS
    <2> QED
        BY <2>1
<1> QED
    BY <1>3, <1>4, <1>5

(* The bytes of a FILENAME's payload. *)
LEMMA FilenameBytes ==
    ASSUME NEW request \in Request, NEW f, f = FilenamePayload(request),
           NEW len \in Nat, request.name \in [1 .. len -> Byte \ {0}]
    PROVE  /\ f \in Seq(Byte) /\ Len(f) = 8 + len + 1
           /\ \A i \in 1 .. 4 : f[i] = HostBytes(Htonl(request.window))[i]
           /\ \A i \in 1 .. 4 : f[4 + i] = HostBytes(Htonl(request.buffer))[i]
           /\ \A i \in 1 .. len : f[8 + i] = request.name[i]
           /\ f[8 + len + 1] = 0
<1> DEFINE w == HostBytes(Htonl(request.window))
           b == HostBytes(Htonl(request.buffer))
           name == request.name
           nul == <<0>>
           wb == w \o b
           wbn == wb \o name
<1>1. w \in [1 .. 4 -> Byte] /\ b \in [1 .. 4 -> Byte]
    BY NumberBytes DEF Request
<1>2. f = wbn \o nul
    BY Zenon DEF FilenamePayload
<1> HIDE DEF w, b
<1>3. w \in Seq(Byte) /\ Len(w) = 4 /\ b \in Seq(Byte) /\ Len(b) = 4
    BY <1>1, FunctionIsSeq, 4 \in Nat
<1>4. name \in Seq(Byte) /\ Len(name) = len
    BY FunctionIsSeq
<1>5. nul \in Seq(Byte) /\ Len(nul) = 1 /\ nul[1] = 0
    BY SizeFacts DEF Byte
<1> HIDE DEF name, nul
<1>6. wb \in Seq(Byte) /\ IsConcat(wb, w, b)
    BY <1>3, ConcatAt, Zenon
<1> HIDE DEF wb
<1>7. wbn \in Seq(Byte) /\ IsConcat(wbn, wb, name)
    BY <1>4, <1>6, ConcatAt, Zenon
<1> HIDE DEF wbn
<1>8. f \in Seq(Byte) /\ IsConcat(f, wbn, nul)
    BY <1>2, <1>5, <1>7, ConcatAt, Zenon
<1>9. Len(wb) = 8 /\ Len(wbn) = 8 + len /\ Len(f) = 8 + len + 1
    BY <1>3, <1>4, <1>5, <1>6, <1>7, <1>8 DEF IsConcat
<1>10. ASSUME NEW i \in 1 .. 4 PROVE f[i] = w[i] /\ f[4 + i] = b[i]
    <2>1. wb[i] = w[i] /\ wb[4 + i] = b[i]
        BY <1>3, <1>6 DEF IsConcat
    <2>2. wbn[i] = wb[i] /\ wbn[4 + i] = wb[4 + i]
        BY <1>7, <1>9 DEF IsConcat
    <2>3. i \in 1 .. Len(wbn) /\ 4 + i \in 1 .. Len(wbn)
        BY <1>9
    <2>4. f[i] = wbn[i] /\ f[4 + i] = wbn[4 + i]
        BY <1>8, <2>3 DEF IsConcat
    <2> QED
        BY <2>1, <2>2, <2>4
<1>11. ASSUME NEW i \in 1 .. len PROVE f[8 + i] = name[i]
    <2>1. wbn[8 + i] = name[i]
        BY <1>4, <1>7, <1>9 DEF IsConcat
    <2>2. 8 + i \in 1 .. Len(wbn)
        BY <1>9
    <2> QED
        BY <1>8, <2>1, <2>2 DEF IsConcat
<1>12. f[8 + len + 1] = 0
    BY <1>5, <1>8, <1>9 DEF IsConcat
<1> QED
    BY <1>8, <1>9, <1>10, <1>11, <1>12 DEF w, b, name

(* The server reads the request it was sent. *)
LEMMA RequestIsRead ==
    ASSUME NEW request \in Request, NEW p, NEW seqNum, NEW flag,
           Arrives(p, seqNum, flag, FilenamePayload(request))
    PROVE  LongEnough(p) /\ ParseFilenamePacket(p) = request
<1> DEFINE f == FilenamePayload(request)
           w == HostBytes(Htonl(request.window))
           b == HostBytes(Htonl(request.buffer))
<1>1. PICK len \in 0 .. MaxName : request.name \in [1 .. len -> Byte \ {0}]
    BY DEF Request, Name
<1>2. /\ f \in Seq(Byte) /\ Len(f) = 8 + len + 1
      /\ \A i \in 1 .. 4 : f[i] = w[i]
      /\ \A i \in 1 .. 4 : f[4 + i] = b[i]
      /\ \A i \in 1 .. len : f[8 + i] = request.name[i]
      /\ f[8 + len + 1] = 0
    BY <1>1, FilenameBytes
<1> HIDE DEF f, w, b
<1>3. /\ p \in Seq(Byte) /\ Len(p) = 7 + (8 + len + 1)
      /\ \A i \in 1 .. 8 + len + 1 : p[7 + i] = f[i]
    BY <1>2 DEF Arrives, Short, HeaderLen, f
<1>4. LongEnough(p)
    BY <1>1, <1>3 DEF LongEnough, HeaderLen
<1>5. ASSUME NEW i \in 1 .. 4 PROVE p[7 + i] = w[i] /\ p[11 + i] = b[i]
    <2>1. i \in 1 .. 8 + len + 1 /\ 4 + i \in 1 .. 8 + len + 1 /\ 7 + (4 + i) = 11 + i
        BY <1>1
    <2>2. p[7 + i] = f[i] /\ p[7 + (4 + i)] = f[4 + i]
        BY <1>3, <2>1
    <2> QED
        BY <1>2, <2>1, <2>2
<1>6. Htonl(Uint32At(p, 7)) = request.window
    <2>1. request.window \in Number(SizeBytes) /\ 7 + 4 <= Len(p)
        BY <1>1, <1>3 DEF Request
    <2> QED
        BY <1>3, <1>5, <2>1, 7 \in Nat, ReadBack DEF w
<1>7. Htonl(Uint32At(p, 11)) = request.buffer
    <2>1. request.buffer \in Number(SizeBytes) /\ 11 + 4 <= Len(p)
        BY <1>1, <1>3 DEF Request
    <2> QED
        BY <1>3, <1>5, <2>1, 11 \in Nat, ReadBack DEF b
<1> DEFINE s == SubSeq(p, 16, Len(p))
<1>8. CString(s, MaxName) = request.name
    <2>1. s = [i \in 1 .. len + 1 |-> p[15 + i]]
        <3>1. s = [i \in 1 .. (Len(p) - 16 + 1) |-> p[16 + i - 1]]
            BY <1>3
        <3> QED
            BY <3>1, <1>1, <1>3
    <2>2. ASSUME NEW i \in 1 .. len + 1 PROVE s[i] = f[8 + i]
        <3>1. 8 + i \in 1 .. 8 + len + 1 /\ 7 + (8 + i) = 15 + i
            BY <1>1
        <3>2. p[7 + (8 + i)] = f[8 + i]
            BY <1>3, <3>1
        <3> QED
            BY <2>1, <3>1, <3>2
    <2> HIDE DEF s
    <2>3. \A i \in 1 .. len : s[i] = request.name[i]
        BY <1>2, <2>2
    <2>4. s[len + 1] = 0
        <3>1. len + 1 \in 1 .. len + 1 /\ 8 + (len + 1) = 8 + len + 1
            BY <1>1
        <3> QED
            BY <1>2, <2>2, <3>1
    <2>5. MaxName \in Nat
        BY PduAssumption
    <2> QED
        BY <1>1, <2>3, <2>4, <2>5, NameIsCopied
<1>9. ParseFilenamePacket(p) =
        [window |-> Htonl(Uint32At(p, 7)), buffer |-> Htonl(Uint32At(p, 11)),
         name |-> CString(s, MaxName)]
    BY DEF ParseFilenamePacket, HeaderLen
<1> HIDE DEF s
<1>10. request = [window |-> request.window, buffer |-> request.buffer, name |-> request.name]
    BY DEF Request
<1> QED
    BY <1>4, <1>6, <1>7, <1>8, <1>9, <1>10

-----------------------------------------------------------------------------

(* The properties but for SumsInOnesComplement, which follows from Short:  *)
(* together with it they are inductive.                                    *)
Inv ==
    /\ TypeOK
    /\ Short(pdu)
    /\ FlipIsDetected
    /\ ReadAsSent

(* Whatever is sent is short enough for its sum. *)
LEMMA PayloadFits ==
    /\ \A data \in Block \cup Status :
         data \in Seq(Byte) /\ HeaderLen + Len(data) <= 2 * WordSize
    /\ \A k, number : number \in Number(k) =>
         /\ NumberPayload(number) \in Seq(Byte)
         /\ HeaderLen + Len(NumberPayload(number)) <= 2 * WordSize
    /\ \A request \in Request :
         /\ FilenamePayload(request) \in Seq(Byte)
         /\ HeaderLen + Len(FilenamePayload(request)) <= 2 * WordSize
<1>1. /\ HeaderLen = 7 /\ WordSize \in Nat /\ WordSize >= 16
      /\ MaxPayload \in Nat /\ HeaderLen + MaxPayload <= 2 * WordSize
      /\ MaxName \in Nat /\ HeaderLen + 8 + MaxName + 1 <= 2 * WordSize
    BY SizeFacts, PduAssumption DEF HeaderLen
<1>2. ASSUME NEW data \in Block
      PROVE  data \in Seq(Byte) /\ HeaderLen + Len(data) <= 2 * WordSize
    <2>1. PICK n \in 1 .. MaxPayload : data \in [1 .. n -> Byte]
        BY DEF Block
    <2>2. n \in Nat
        OBVIOUS
    <2>3. data \in Seq(Byte) /\ Len(data) = n
        BY <2>1, <2>2, FunctionIsSeq
    <2> QED
        BY <1>1, <2>3
<1>3. ASSUME NEW data \in Status
      PROVE  data \in Seq(Byte) /\ HeaderLen + Len(data) <= 2 * WordSize
    <2>1. CASE data = <<>>
        BY <1>1, <2>1
    <2>2. ASSUME NEW b \in Byte, data = <<b>>
          PROVE  data \in Seq(Byte) /\ HeaderLen + Len(data) <= 2 * WordSize
        <3>1. <<b>> \in Seq(Byte) /\ Len(<<b>>) = 1
            OBVIOUS
        <3> QED
            BY <1>1, <2>2, <3>1
    <2>3. data = <<>> \/ \E b \in Byte : data = <<b>>
        BY DEF Status
    <2> QED
        BY <2>1, <2>2, <2>3, Zenon
<1>4. ASSUME NEW k, NEW number \in Number(k)
      PROVE  /\ NumberPayload(number) \in Seq(Byte)
             /\ HeaderLen + Len(NumberPayload(number)) <= 2 * WordSize
    <2>1. NumberPayload(number) \in [1 .. 4 -> Byte]
        BY NumberBytes DEF NumberPayload
    <2>2. NumberPayload(number) \in Seq(Byte) /\ Len(NumberPayload(number)) = 4
        BY <2>1, FunctionIsSeq, 4 \in Nat
    <2> QED
        BY <1>1, <2>2
<1>5. ASSUME NEW request \in Request
      PROVE  /\ FilenamePayload(request) \in Seq(Byte)
             /\ HeaderLen + Len(FilenamePayload(request)) <= 2 * WordSize
    <2>1. PICK len \in 0 .. MaxName : request.name \in [1 .. len -> Byte \ {0}]
        BY DEF Request, Name
    <2>2. FilenamePayload(request) \in Seq(Byte) /\ Len(FilenamePayload(request)) = 8 + len + 1
        BY <2>1, FilenameBytes
    <2> QED
        BY <1>1, <2>2
<1> QED
    BY <1>2, <1>3, <1>4, <1>5

(* So does what Init has on its way, of each kind. *)
LEMMA SentArrives ==
    ASSUME NEW k, NEW payload \in Seq(Byte), HeaderLen + Len(payload) <= 2 * WordSize,
           meant.seq \in Number(k),
           meant.flag \in {FlagData, FlagStatus, FlagNumber, FlagFilename},
           pdu = CreatePDU(meant.seq, meant.flag, payload), flipped = FALSE
    PROVE  /\ TypeOK /\ Short(pdu) /\ FlipIsDetected
           /\ Arrives(pdu, meant.seq, meant.flag, payload)
<1>1. meant.flag \in Byte
    BY SizeFacts DEF FlagData, FlagStatus, FlagNumber, FlagFilename, Byte
<1>2. Arrives(pdu, meant.seq, meant.flag, payload)
    BY <1>1, CreatedArrives
<1>3. pdu \in Seq(Byte) /\ Len(pdu) >= HeaderLen /\ Short(pdu) /\ ValidateChecksum(pdu)
    BY <1>2 DEF Arrives, Short, HeaderLen
<1> QED
    BY <1>2, <1>3 DEF TypeOK, FlipIsDetected

(* Inv holds of what was sent, and one flipped byte keeps it. *)
LEMMA InitInv == Init => Inv
<1> SUFFICES ASSUME Init PROVE Inv
    OBVIOUS
<1> USE DEF FlagData, FlagStatus, FlagNumber, FlagFilename
<1>1. flipped = FALSE
    BY DEF Init
<1>2. ASSUME NEW m \in [flag : {FlagData}, seq : Number(SeqNumBytes), data : Block]
                     \cup [flag : {FlagStatus}, seq : Number(SeqNumBytes), data : Status],
             meant = m, pdu = CreatePDU(m.seq, m.flag, m.data)
      PROVE  Inv
    <2>1. /\ meant.flag \in {FlagData, FlagStatus}
          /\ meant.seq \in Number(SeqNumBytes)
          /\ meant.data \in Block \cup Status
        BY <1>2
    <2>2. meant.data \in Seq(Byte) /\ HeaderLen + Len(meant.data) <= 2 * WordSize
        BY <2>1, PayloadFits
    <2>3. pdu = CreatePDU(meant.seq, meant.flag, meant.data)
        BY <1>2
    <2>4. /\ TypeOK /\ Short(pdu) /\ FlipIsDetected
          /\ Arrives(pdu, meant.seq, meant.flag, meant.data)
        BY <1>1, <2>1, <2>2, <2>3, SentArrives
    <2>5. SubSeq(pdu, HeaderLen + 1, HeaderLen + GetPayloadLen(pdu)) = meant.data
        BY <2>2, <2>4, PayloadIsRead
    <2>6. GetSequenceNum(pdu) = meant.seq /\ GetFlag(pdu) = meant.flag
        BY <2>4 DEF Arrives
    <2>7. ReadAsSent
        BY <2>1, <2>5, <2>6 DEF ReadAsSent
    <2> QED
        BY <2>4, <2>7 DEF Inv
<1>3. ASSUME NEW m \in [flag : {FlagNumber}, seq : Number(SizeBytes), number : Number(SeqNumBytes)],
             meant = m, pdu = CreatePDU(m.seq, m.flag, NumberPayload(m.number))
      PROVE  Inv
    <2>1. /\ meant.flag = FlagNumber
          /\ meant.seq \in Number(SizeBytes)
          /\ meant.number \in Number(SeqNumBytes)
        BY <1>3
    <2> DEFINE payload == NumberPayload(meant.number)
    <2>2. payload \in Seq(Byte) /\ HeaderLen + Len(payload) <= 2 * WordSize
        BY <2>1, PayloadFits
    <2>3. pdu = CreatePDU(meant.seq, meant.flag, payload)
        BY <1>3
    <2> HIDE DEF payload
    <2>4. /\ TypeOK /\ Short(pdu) /\ FlipIsDetected
          /\ Arrives(pdu, meant.seq, meant.flag, payload)
        BY <1>1, <2>1, <2>2, <2>3, SentArrives
    <2>5. GetControlSeqNum(pdu) = meant.number
        BY <2>1, <2>4, NumberIsRead DEF payload
    <2>6. GetSequenceNum(pdu) = meant.seq /\ GetFlag(pdu) = meant.flag
        BY <2>4 DEF Arrives
    <2>7. ReadAsSent
        BY <2>1, <2>5, <2>6 DEF ReadAsSent
    <2> QED
        BY <2>4, <2>7 DEF Inv
<1>4. ASSUME NEW m \in [flag : {FlagFilename}, seq : Number(1), request : Request],
             meant = m, pdu = CreatePDU(m.seq, m.flag, FilenamePayload(m.request))
      PROVE  Inv
    <2>1. meant.flag = FlagFilename /\ meant.seq \in Number(1) /\ meant.request \in Request
        BY <1>4
    <2> DEFINE payload == FilenamePayload(meant.request)
    <2>2. payload \in Seq(Byte) /\ HeaderLen + Len(payload) <= 2 * WordSize
        BY <2>1, PayloadFits
    <2>3. pdu = CreatePDU(meant.seq, meant.flag, payload)
        BY <1>4
    <2> HIDE DEF payload
    <2>4. /\ TypeOK /\ Short(pdu) /\ FlipIsDetected
          /\ Arrives(pdu, meant.seq, meant.flag, payload)
        BY <1>1, <2>1, <2>2, <2>3, SentArrives
    <2>5. LongEnough(pdu) /\ ParseFilenamePacket(pdu) = meant.request
        BY <2>1, <2>4, RequestIsRead DEF payload
    <2>6. GetSequenceNum(pdu) = meant.seq /\ GetFlag(pdu) = meant.flag
        BY <2>4 DEF Arrives
    <2>7. ReadAsSent
        BY <2>1, <2>5, <2>6 DEF ReadAsSent
    <2> QED
        BY <2>4, <2>7 DEF Inv
<1> QED
    BY <1>2, <1>3, <1>4 DEF Init

(* FlipBits makes the checksum wrong; the rest of Inv is about types. *)
LEMMA NextInv == Inv /\ [Next]_vars => Inv'
<1> SUFFICES ASSUME Inv, [Next]_vars PROVE Inv'
    OBVIOUS
<1>1. CASE FlipBits
    <2>1. PICK i \in DOMAIN pdu : pdu' = FlippedAt(pdu, i)
        BY <1>1, Zenon DEF FlipBits, FlippedAt
    <2>2. ~ flipped /\ flipped' = TRUE /\ meant' = meant
        BY <1>1 DEF FlipBits
    <2>3. Short(pdu) /\ ValidateChecksum(pdu)
        BY <2>2 DEF Inv, FlipIsDetected
    <2>4. ASSUME NEW q, q = FlippedAt(pdu, i)
          PROVE  Short(q) /\ Len(q) = Len(pdu) /\ ~ ValidateChecksum(q)
        BY <2>3, <2>4, FlipIsFound
    <2>5. Short(pdu') /\ Len(pdu') = Len(pdu) /\ ~ ValidateChecksum(pdu')
        BY <2>1, <2>4
    <2>6. TypeOK'
        BY <2>2, <2>5 DEF Inv, TypeOK, Short
    <2>7. FlipIsDetected'
        BY <2>2, <2>5 DEF FlipIsDetected, ValidateChecksum, InCksum
    <2>8. ReadAsSent'
        BY <2>2 DEF ReadAsSent
    <2> QED
        BY <2>5, <2>6, <2>7, <2>8 DEF Inv, Short
<1>2. CASE UNCHANGED vars
    BY <1>2 DEF vars, Inv, TypeOK, Short, FlipIsDetected, ReadAsSent, ValidateChecksum,
                GetSequenceNum, GetFlag, GetPayloadLen, GetControlSeqNum, LongEnough,
                ParseFilenamePacket
<1> QED
    BY <1>1, <1>2 DEF Next

(* Inv is an invariant of every behaviour. *)
LEMMA InvAlways == Spec => []Inv
BY InitInv, NextInv, PTL DEF Spec

(* The types: a checksum fits its two bytes, whatever the PDU carries.     *)
THEOREM TypesAlways == Spec => []TypeOK
<1>1. Inv => TypeOK
    BY DEF Inv
<1> QED
    BY <1>1, InvAlways, PTL

(* A receiver accepts what createPDU made, and rejects it when any one     *)
(* byte of it was flipped.                                                 *)
THEOREM FlipIsAlwaysDetected == Spec => []FlipIsDetected
<1>1. Inv => FlipIsDetected
    BY DEF Inv
<1> QED
    BY <1>1, InvAlways, PTL

(* The two folds at the end of in_cksum miss no carry. *)
THEOREM FoldsMissNoCarry == Spec => []SumsInOnesComplement
<1>1. Inv => SumsInOnesComplement
    <2> SUFFICES ASSUME Inv PROVE SumsInOnesComplement
        OBVIOUS
    <2>1. Words(pdu) \in Seq(Word) /\ Len(Words(pdu)) <= WordSize
        BY WordsType DEF Inv
    <2>2. FoldCarries(Total(Words(pdu))) = EndAroundTotal(Words(pdu))
        BY <2>1, EndAroundIsFold
    <2> QED
        BY <2>2 DEF SumsInOnesComplement, InCksum
<1> QED
    BY <1>1, InvAlways, PTL

(* What a receiver reads is what the sender put in. *)
THEOREM AlwaysReadAsSent == Spec => []ReadAsSent
<1>1. Inv => ReadAsSent
    BY DEF Inv
<1> QED
    BY <1>1, InvAlways, PTL
=============================================================================
