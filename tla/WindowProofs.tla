---------------------------- MODULE WindowProofs ----------------------------
(***************************************************************************)
(* The window keeps what it promises, for every window size, every modulus *)
(* and every set of PDUs.  The inductive invariant is WindowInv of         *)
(* WindowLemmas for the log sent: the properties alone are not inductive,  *)
(* since they do not say that upper is lower + WindowSize, on which the    *)
(* distance between lower and current depends.                             *)
(***************************************************************************)
EXTENDS WindowLog, WindowLemmas

Inv ==
    /\ sent \in Seq(PDU)
    /\ Len(sent) = current
    /\ WindowInv(PDU \cup {NoPDU}, sent)

LEMMA InvInit == Init => Inv
<1> SUFFICES ASSUME Init PROVE Inv
    OBVIOUS
<1>1. WindowInv(PDU \cup {NoPDU}, <<>>)
    BY WindowSetUpInv DEF Init
<1> QED
    BY <1>1 DEF Init, Inv, WindowSetUp

LEMMA InvNext == Inv /\ [Next]_vars => Inv'
<1> SUFFICES ASSUME Inv, [Next]_vars PROVE Inv'
    OBVIOUS
<1> USE DEF Inv
<1>0. current \in Nat /\ lower \in Nat
    BY DEF WindowInv, WindowTypeOK, SeqNum
<1>1. CASE Add
    <2>1. PICK pdu \in PDU : WindowAddPacket(pdu) /\ sent' = Append(sent, pdu)
        BY <1>1 DEF Add
    <2>2. PICK old : old = sent
        OBVIOUS
    <2>3. PICK new : new = Append(sent, pdu)
        OBVIOUS
    <2>4. /\ sent' \in Seq(PDU)
          /\ Len(sent') = current + 1
          /\ new[current + 1] = pdu
          /\ \A seq \in lower .. current - 1 : new[seq + 1] = old[seq + 1]
        BY <1>0, <2>1, <2>2, <2>3
    <2>5. WindowInv(PDU \cup {NoPDU}, old)
        BY <2>2
    <2>6. WindowInv(PDU \cup {NoPDU}, new)' /\ current' = current + 1
        BY <2>1, <2>4, <2>5, WindowAddPacketInv
    <2>7. sent' = new
        BY <2>1, <2>3
    <2>8. WindowInv(PDU \cup {NoPDU}, sent)'
        BY <2>6, <2>7 DEF WindowInv
    <2> QED
        BY <2>4, <2>6, <2>8
<1>2. CASE RR
    <2>1. PICK rr \in SeqNum : ProcessRR(rr) /\ sent' = sent
        BY <1>2 DEF RR
    <2>2. PICK old : old = sent
        OBVIOUS
    <2>3. WindowInv(PDU \cup {NoPDU}, old)
        BY <2>2
    <2>4. WindowInv(PDU \cup {NoPDU}, old)' /\ current' = current
        BY <2>1, <2>3, ProcessRRInv
    <2>5. sent' = old
        BY <2>1, <2>2
    <2>6. WindowInv(PDU \cup {NoPDU}, sent)'
        BY <2>4, <2>5 DEF WindowInv
    <2> QED
        BY <2>1, <2>4, <2>6
<1>3. CASE UNCHANGED vars
    BY <1>3 DEF vars, windowVars, WindowInv, WindowTypeOK
<1> QED
    BY <1>1, <1>2, <1>3 DEF Next

THEOREM InvAlways == Spec => []Inv
BY InvInit, InvNext, PTL DEF Spec

-----------------------------------------------------------------------------

(* The indices stay in the range of uint32_t, and the slots hold PDUs of   *)
(* the caller (window.h:11-24).                                            *)
THEOREM WindowTypes == Spec => []TypeOK
<1>1. Inv => TypeOK
    BY DEF Inv, TypeOK, WindowInv
<1> QED
    BY <1>1, InvAlways, PTL

(* The window answers for exactly the unacknowledged PDUs, and with the    *)
(* PDU first sent under the number (getWindowPacket, processSREJ).         *)
THEOREM WindowKeeps == Spec => []KeepsUnacknowledged
<1>1. Inv => KeepsUnacknowledged
    <2> SUFFICES ASSUME Inv, NEW seq \in SeqNum
                 PROVE  /\ HasWindowPacket(seq) <=> (lower <= seq /\ seq < current)
                        /\ HasWindowPacket(seq) => GetWindowPacket(seq) = sent[seq + 1]
        BY DEF KeepsUnacknowledged
    <2>1. lower \in Nat /\ current \in Nat /\ seq \in Nat
        BY DEF Inv, WindowInv, WindowTypeOK, SeqNum
    <2>2. CASE lower <= seq /\ seq < current
        <3>1. seq \in lower .. current - 1
            BY <2>1, <2>2
        <3>2. packets[Index(seq)] = [active |-> TRUE, seq |-> seq, pdu |-> sent[seq + 1]]
            BY <3>1 DEF Inv, WindowInv
        <3> QED
            BY <2>2, <3>2 DEF HasWindowPacket, GetWindowPacket
    <2>3. CASE ~ (lower <= seq /\ seq < current)
        BY <2>3 DEF HasWindowPacket
    <2> QED
        BY <2>2, <2>3
<1> QED
    BY <1>1, InvAlways, PTL

(* A slot is active exactly while its PDU has yet to be RRd (window.h:14). *)
THEOREM WindowActive == Spec => []ActiveUntilRR
<1>1. Inv => ActiveUntilRR
    <2> SUFFICES ASSUME Inv, NEW i \in Slot,
                        NEW seq \in lower .. current - 1, Index(seq) = i
                 PROVE  packets[i].active
        BY DEF Inv, WindowInv, ActiveUntilRR
    <2>1. packets[i] = [active |-> TRUE, seq |-> seq, pdu |-> sent[seq + 1]]
        BY DEF Inv, WindowInv
    <2> QED
        BY <2>1
<1> QED
    BY <1>1, InvAlways, PTL

(* The window is open while it is not full, until upper wraps around; then *)
(* it is shut (isWindowOpen, processRR).                                   *)
THEOREM WindowOpens == Spec => []OpenUnlessFull
<1>1. Inv => OpenUnlessFull
    <2> SUFFICES ASSUME Inv PROVE OpenUnlessFull
        OBVIOUS
    <2>1. PICK old : old = sent
        OBVIOUS
    <2>2. WindowInv(PDU \cup {NoPDU}, old)
        BY <2>1 DEF Inv
    <2>3. IsWindowOpen <=> /\ current < lower + WindowSize
                           /\ lower + WindowSize < UintModulus
        BY <2>2, OpenMeansRoom
    <2>4. lower \in Nat /\ current \in Nat /\ WindowSize \in Nat
        BY SeqNumsAssumption DEF Inv, WindowInv, WindowTypeOK, SeqNum
    <2> QED
        BY <2>3, <2>4 DEF OpenUnlessFull
<1> QED
    BY <1>1, InvAlways, PTL

(* No RR moves the window back, beyond what was sent, or makes it forget a *)
(* PDU that is still unacknowledged (processRR).                           *)
THEOREM WindowForward == Spec => NeverBackwards
<1> DEFINE Forward == /\ lower' >= lower
                      /\ lower' <= current'
                      /\ \A seq \in lower' .. current - 1 :
                           packets'[Index(seq)] = packets[Index(seq)]
<1>1. Inv /\ [Next]_vars => [Forward]_vars
    <2> SUFFICES ASSUME Inv, Next PROVE Forward
        OBVIOUS
    <2>1. PICK old : old = sent
        OBVIOUS
    <2>2. WindowInv(PDU \cup {NoPDU}, old)
        BY <2>1 DEF Inv
    <2>3. /\ lower \in Nat /\ current \in Nat /\ lower <= current
        BY DEF Inv, WindowInv, WindowTypeOK, SeqNum
    <2>4. CASE Add
        <3>1. PICK pdu \in PDU : WindowAddPacket(pdu) /\ sent' = Append(sent, pdu)
            BY <2>4 DEF Add
        <3>2. Inv'
            BY InvNext
        <3>3. lower' = lower /\ current' = current + 1
            <4>1. Len(sent') = current'
                BY <3>2 DEF Inv
            <4> QED
                BY <3>1, <4>1 DEF Inv, WindowAddPacket
        <3>4. ASSUME NEW seq \in lower .. current - 1
              PROVE  packets'[Index(seq)] = packets[Index(seq)]
            <4>1. current < seq + WindowSize /\ seq \in Nat /\ seq < current
                BY <2>2, <2>3, <3>1, OpenMeansRoom, SeqNumsAssumption DEF WindowAddPacket
            <4>2. Index(seq) # Index(current) /\ Index(seq) \in Slot
                BY <2>3, <4>1, SlotsDiffer, SeqNumsFacts
            <4> QED
                BY <3>1, <4>2 DEF WindowAddPacket, Inv, WindowInv, WindowTypeOK
        <3> QED
            BY <2>3, <3>3, <3>4
    <2>5. CASE RR
        <3>1. PICK rr \in SeqNum : ProcessRR(rr)
            BY <2>5 DEF RR
        <3>2. /\ current' = current /\ lower <= lower' /\ lower' <= current
              /\ \A seq \in lower' .. current - 1 :
                   packets'[Index(seq)] = packets[Index(seq)]
            BY <2>2, <3>1, ProcessRRInv
        <3>3. lower' \in Nat
            <4>1. Inv'
                BY InvNext
            <4> QED
                BY <4>1 DEF Inv, WindowInv, WindowTypeOK, SeqNum
        <3> QED
            BY <2>3, <3>2, <3>3
    <2> QED
        BY <2>4, <2>5 DEF Next
<1> QED
    BY <1>1, InvAlways, PTL DEF Spec, NeverBackwards
=============================================================================
