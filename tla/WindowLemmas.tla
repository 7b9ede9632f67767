---------------------------- MODULE WindowLemmas ----------------------------
(***************************************************************************)
(* For every window size and every modulus: facts about sequence numbers   *)
(* and slots, which the proofs about the receiver's buffer share, and what *)
(* the operations of the window preserve, for the proofs of whoever uses   *)
(* it.                                                                     *)
(***************************************************************************)
EXTENDS Window, TLAPS

(* SeqNumsAssumption, and what it means for slots and numbers. *)
LEMMA SeqNumsFacts ==
    /\ WindowSize \in Nat \ {0}
    /\ UintModulus \in Nat \ {0}
    /\ WindowSize < UintModulus
    /\ \A a \in Nat : Index(a) \in Slot
    /\ \A a \in Nat : Plus(a, 0) \in SeqNum
BY SeqNumsAssumption, SMT DEF Index, Slot, Plus, SeqNum

(* uint32_t addition of numbers that cannot overflow twice. *)
LEMMA PlusValue ==
    ASSUME NEW a \in SeqNum, NEW b \in 0 .. UintModulus - 1
    PROVE  /\ Plus(a, b) \in SeqNum
           /\ a + b < UintModulus => Plus(a, b) = a + b
           /\ a + b >= UintModulus => Plus(a, b) = a + b - UintModulus
<1>1. a + b \in 0 .. 2 * UintModulus - 2
    BY SeqNumsAssumption DEF SeqNum
<1> QED
    BY <1>1, SeqNumsAssumption, SMT DEF Plus, SeqNum

(* No multiple of w lies strictly between 0 and w. *)
LEMMA NoMultipleBetween ==
    ASSUME NEW w \in Int, NEW k \in Int, w > 0, 0 < w * k, w * k < w
    PROVE  FALSE
BY SMT

(* Two numbers less than a window apart never share a slot. *)
LEMMA SlotsDiffer ==
    ASSUME NEW a \in Nat, NEW b \in Nat, a < b, b < a + WindowSize
    PROVE  Index(a) # Index(b)
<1>1. WindowSize \in Int /\ WindowSize > 0
    BY SeqNumsAssumption
<1>2. SUFFICES ASSUME a % WindowSize = b % WindowSize PROVE FALSE
    BY DEF Index
<1>3. a = WindowSize * (a \div WindowSize) + (a % WindowSize)
    BY <1>1, SMT
<1>4. b = WindowSize * (b \div WindowSize) + (b % WindowSize)
    BY <1>1, SMT
<1>5. a \div WindowSize \in Int /\ b \div WindowSize \in Int /\ a % WindowSize \in Int
    BY <1>1, SMT
<1> DEFINE k == (b \div WindowSize) - (a \div WindowSize)
<1>6. k \in Int /\ WindowSize * k = b - a
    BY <1>1, <1>2, <1>3, <1>4, <1>5, SMT
<1> HIDE DEF k
<1>7. 0 < b - a /\ b - a < WindowSize
    BY <1>1
<1>8. 0 < WindowSize * k /\ WindowSize * k < WindowSize
    BY <1>6, <1>7, Zenon
<1> QED
    BY <1>1, <1>6, <1>8, NoMultipleBetween, Zenon

-----------------------------------------------------------------------------

(* log[seq + 1] is the PDU added under seq.  Between lower and current the *)
(* ring holds the log; everywhere else its slots are inactive.             *)
WindowInv(PDU, log) ==
    /\ WindowTypeOK(PDU)
    /\ lower <= current
    /\ current <= lower + WindowSize
    /\ upper = Plus(lower, WindowSize)
    /\ \A seq \in lower .. current - 1 :
         packets[Index(seq)] = [active |-> TRUE, seq |-> seq, pdu |-> log[seq + 1]]
    /\ \A i \in Slot : packets[i].active =>
         \E seq \in lower .. current - 1 : Index(seq) = i

-----------------------------------------------------------------------------

LEMMA WindowSetUpInv ==
    ASSUME NEW PDU, NEW log, NEW empty \in PDU, WindowSetUp(empty)
    PROVE  WindowInv(PDU, log)
<1>1. WindowSize \in SeqNum /\ 0 \in SeqNum /\ Plus(0, WindowSize) = WindowSize
    BY SeqNumsAssumption, PlusValue DEF SeqNum
<1> QED
    BY <1>1, SeqNumsAssumption DEF WindowSetUp, WindowInv, WindowTypeOK, WindowSlot

(* A window that has wrapped around is closed. *)
LEMMA OpenMeansRoom ==
    ASSUME NEW PDU, NEW log, WindowInv(PDU, log)
    PROVE  IsWindowOpen <=> /\ current < lower + WindowSize
                            /\ lower + WindowSize < UintModulus
<1>1. lower \in SeqNum /\ current \in SeqNum /\ WindowSize \in 0 .. UintModulus - 1
    BY SeqNumsAssumption DEF WindowInv, WindowTypeOK
<1> QED
    BY <1>1, PlusValue, SeqNumsAssumption DEF WindowInv, IsWindowOpen, SeqNum

LEMMA WindowAddPacketInv ==
    ASSUME NEW PDU, NEW log, NEW newLog, NEW pdu \in PDU,
           WindowInv(PDU, log),
           WindowAddPacket(pdu),
           newLog[current + 1] = pdu,
           \A seq \in lower .. current - 1 : newLog[seq + 1] = log[seq + 1]
    PROVE  /\ WindowInv(PDU, newLog)'
           /\ current' = current + 1
<1>1. /\ lower \in Nat /\ current \in Nat /\ WindowSize \in Nat
      /\ current < lower + WindowSize /\ lower + WindowSize < UintModulus
    BY OpenMeansRoom, SeqNumsAssumption
    DEF WindowAddPacket, WindowInv, WindowTypeOK, SeqNum
<1>2. current' = current + 1 /\ current' \in SeqNum
    <2>1. current \in SeqNum /\ 1 \in 0 .. UintModulus - 1 /\ current + 1 < UintModulus
        BY <1>1, SeqNumsAssumption DEF WindowInv, WindowTypeOK, SeqNum
    <2>2. current' = Plus(current, 1)
        BY DEF WindowAddPacket
    <2> QED
        BY <2>1, <2>2, PlusValue
<1>3. Index(current) \in Slot
    BY <1>1, SeqNumsFacts
<1>4. packets' = [packets EXCEPT ![Index(current)] =
                    [active |-> TRUE, seq |-> current, pdu |-> pdu]]
    BY DEF WindowAddPacket
<1>5. packets' \in [Slot -> WindowSlot(PDU)]
    BY <1>3, <1>4 DEF WindowInv, WindowTypeOK, WindowSlot
<1>6. ASSUME NEW seq \in lower' .. current' - 1
      PROVE  packets'[Index(seq)] = [active |-> TRUE, seq |-> seq, pdu |-> newLog[seq + 1]]
    <2>1. lower' = lower /\ seq \in Nat /\ lower <= seq /\ seq <= current
        BY <1>1, <1>2 DEF WindowAddPacket
    <2>2. CASE seq = current
        BY <1>3, <1>4, <2>2 DEF WindowInv, WindowTypeOK
    <2>3. CASE seq < current
        <3>1. Index(seq) # Index(current)
            BY <1>1, <2>1, <2>3, SlotsDiffer
        <3>2. Index(seq) \in Slot
            BY <2>1, SeqNumsFacts
        <3>3. seq \in lower .. current - 1
            BY <1>1, <2>1, <2>3
        <3> QED
            BY <1>4, <3>1, <3>2, <3>3 DEF WindowInv, WindowTypeOK
    <2> QED
        BY <1>1, <2>1, <2>2, <2>3
<1>7. ASSUME NEW i \in Slot, packets'[i].active
      PROVE  \E seq \in lower' .. current' - 1 : Index(seq) = i
    <2>1. lower' = lower /\ lower .. current - 1 \subseteq lower' .. current' - 1
          /\ current \in lower' .. current' - 1
        BY <1>1, <1>2 DEF WindowAddPacket, WindowInv
    <2>2. CASE i = Index(current)
        BY <2>1, <2>2
    <2>3. CASE i # Index(current)
        BY <1>4, <1>7, <2>1, <2>3 DEF WindowInv, WindowTypeOK
    <2> QED
        BY <2>2, <2>3
<1> QED
    BY <1>1, <1>2, <1>5, <1>6, <1>7 DEF WindowInv, WindowTypeOK, WindowAddPacket

LEMMA AcknowledgedBounds ==
    ASSUME NEW PDU, NEW log, WindowInv(PDU, log), NEW rr \in SeqNum, rr > lower
    PROVE  /\ Acknowledged(rr) \in lower .. current
           /\ Acknowledged(rr) <= rr
BY DEF WindowInv, WindowTypeOK, SeqNum, Acknowledged

LEMMA ProcessRRInv ==
    ASSUME NEW PDU, NEW log, WindowInv(PDU, log), NEW rr \in SeqNum, ProcessRR(rr)
    PROVE  /\ WindowInv(PDU, log)'
           /\ current' = current
           /\ lower <= lower'
           /\ lower' <= current
           /\ lower' = lower \/ lower' <= rr
           /\ \A seq \in lower' .. current - 1 : packets'[Index(seq)] = packets[Index(seq)]
<1>1. lower \in Nat /\ current \in Nat /\ WindowSize \in Nat /\ lower <= current
      /\ current <= lower + WindowSize
    BY SeqNumsAssumption DEF WindowInv, WindowTypeOK, SeqNum
<1>2. CASE rr <= lower
    <2>1. UNCHANGED windowVars
        BY <1>1, <1>2 DEF ProcessRR, SeqNum
    <2> QED
        BY <1>1, <2>1 DEF windowVars, WindowInv, WindowTypeOK
<1>3. CASE rr > lower
    <2> DEFINE a == Acknowledged(rr)
    <2>1. a \in lower .. current /\ a <= rr
        BY <1>3, AcknowledgedBounds
    <2>2. /\ lower' = a
          /\ upper' = Plus(a, WindowSize)
          /\ packets' = [i \in Slot |->
                           IF \E s \in lower .. a - 1 : Index(s) = i
                           THEN [packets[i] EXCEPT !.active = FALSE]
                           ELSE packets[i]]
          /\ current' = current
        BY <1>1, <1>3 DEF ProcessRR, SeqNum
    <2> HIDE DEF a
    <2>3. a \in SeqNum /\ Plus(a, WindowSize) \in SeqNum
        <3>1. a \in SeqNum /\ WindowSize \in 0 .. UintModulus - 1
            BY <1>1, <2>1, SeqNumsAssumption DEF WindowInv, WindowTypeOK, SeqNum
        <3> QED
            BY <3>1, PlusValue
    <2>4. packets' \in [Slot -> WindowSlot(PDU)]
        BY <2>2 DEF WindowInv, WindowTypeOK, WindowSlot
    <2>5. ASSUME NEW seq \in a .. current - 1
          PROVE  packets'[Index(seq)] = packets[Index(seq)]
        <3>1. seq \in Nat /\ Index(seq) \in Slot
            BY <1>1, <2>1, SeqNumsFacts
        <3>2. ASSUME NEW s \in lower .. a - 1 PROVE Index(s) # Index(seq)
            <4>1. s \in Nat /\ s < seq /\ seq < s + WindowSize
                BY <1>1, <2>1, <3>1
            <4> QED
                BY <3>1, <4>1, SlotsDiffer
        <3> QED
            BY <2>2, <3>1, <3>2
    <2>6. ASSUME NEW i \in Slot, packets'[i].active
          PROVE  \E seq \in a .. current - 1 : Index(seq) = i
        <3>1. packets[i] \in WindowSlot(PDU)
            BY DEF WindowInv, WindowTypeOK
        <3>2. (~ \E s \in lower .. a - 1 : Index(s) = i) /\ packets[i].active
            BY <2>2, <2>6, <3>1 DEF WindowSlot
        <3>3. PICK seq \in lower .. current - 1 : Index(seq) = i
            BY <3>2 DEF WindowInv
        <3> QED
            BY <1>1, <2>1, <3>2, <3>3
    <2>7. \A seq \in a .. current - 1 : seq \in lower .. current - 1
        BY <1>1, <2>1
    <2>8. WindowInv(PDU, log)'
        BY <1>1, <2>1, <2>2, <2>3, <2>4, <2>5, <2>6, <2>7 DEF WindowInv, WindowTypeOK
    <2>9. lower <= lower' /\ lower' <= current /\ lower' <= rr /\ current' = current
        BY <1>1, <2>1, <2>2
    <2> QED
        BY <2>2, <2>5, <2>8, <2>9
<1> QED
    BY <1>1, <1>2, <1>3 DEF SeqNum
=============================================================================
