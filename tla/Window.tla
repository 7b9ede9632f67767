------------------------------- MODULE Window -------------------------------
(***************************************************************************)
(* The sender's sliding window of rcopy (window.c, window.h): a ring of    *)
(* WindowSize slots that keeps every PDU sent and not yet acknowledged, so *)
(* that it can be sent again when the receiver asks for it (SREJ) or stays *)
(* silent (time-out).                                                      *)
(***************************************************************************)
EXTENDS SeqNums

VARIABLES
    lower,      \* the lowest sequence number not yet acknowledged
    upper,      \* the first sequence number outside the window
    current,    \* the next sequence number to send
    packets     \* the ring of slots

windowVars == <<lower, upper, current, packets>>

WindowSlot(PDU) == [active : BOOLEAN, seq : SeqNum, pdu : PDU]

WindowTypeOK(PDU) ==
    /\ lower \in SeqNum
    /\ upper \in SeqNum
    /\ current \in SeqNum
    /\ packets \in [Slot -> WindowSlot(PDU)]

-----------------------------------------------------------------------------

(* windowSetUp: the slots are calloc'ed, so empty stands for a zeroed PDU. *)
WindowSetUp(empty) ==
    /\ lower = 0
    /\ upper = WindowSize
    /\ current = 0
    /\ packets = [i \in Slot |->
                    [active |-> FALSE, seq |-> 0, pdu |-> empty]]

(* Mutant: one PDU too many. *)
IsWindowOpenOneMore == current <= upper

IsWindowOpen == current < upper

IsWindowEmpty == lower = current

(* Mutant: current is incremented before the slot is computed. *)
WindowAddPacketLate(pdu) ==
    /\ IsWindowOpen
    /\ current' = Plus(current, 1)
    /\ packets' = [packets EXCEPT ![Index(current')] =
                     [active |-> TRUE, seq |-> current, pdu |-> pdu]]
    /\ UNCHANGED <<lower, upper>>

(* windowAddPacket, whose pduLen check every PDU of rcopy passes.  On a    *)
(* closed window the call changes nothing, which its callers never let     *)
(* happen.                                                                 *)
WindowAddPacket(pdu) ==
    /\ IsWindowOpen
    /\ packets' = [packets EXCEPT ![Index(current)] =
                     [active |-> TRUE, seq |-> current, pdu |-> pdu]]
    /\ current' = Plus(current, 1)
    /\ UNCHANGED <<lower, upper>>

(* getWindowPacket and processSREJ return -1 unless the PDU is there.      *)
HasWindowPacket(seq) ==
    /\ lower <= seq /\ seq < current
    /\ packets[Index(seq)].active
    /\ packets[Index(seq)].seq = seq

GetWindowPacket(seq) == packets[Index(seq)].pdu

(* Mutant: an RR is taken to name the last PDU received. *)
AcknowledgedInclusive(rr) == IF rr + 1 > current THEN current ELSE rr + 1

(* processRR clamps an acknowledgement beyond the last PDU sent.           *)
Acknowledged(rr) == IF rr > current THEN current ELSE rr

(* Mutant: a stale RR moves the window back. *)
ProcessRRStale(rr) ==
    /\ lower' = Acknowledged(rr)
    /\ upper' = Plus(Acknowledged(rr), WindowSize)
    /\ UNCHANGED <<current, packets>>

(* Mutant: the slots are not marked as acknowledged. *)
ProcessRRKeepsActive(rr) ==
    /\ lower' = IF rr <= lower THEN lower ELSE Acknowledged(rr)
    /\ upper' = Plus(lower', WindowSize)
    /\ UNCHANGED <<current, packets>>

ProcessRR(rr) ==
    \/ /\ rr <= lower
       /\ UNCHANGED windowVars
    \/ /\ rr > lower
       /\ lower' = Acknowledged(rr)
       /\ upper' = Plus(Acknowledged(rr), WindowSize)
       /\ packets' = [i \in Slot |->
                        IF \E s \in lower .. Acknowledged(rr) - 1 : Index(s) = i
                        THEN [packets[i] EXCEPT !.active = FALSE]
                        ELSE packets[i]]
       /\ UNCHANGED current
=============================================================================
