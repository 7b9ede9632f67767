----------------------------- MODULE WindowLog ------------------------------
(***************************************************************************)
(* What window.c promises, whatever its caller does: PDUs are added while  *)
(* the window is open, and any number at all may arrive in an RR.  sent    *)
(* remembers every PDU ever added; the window, which keeps WindowSize of   *)
(* them in a ring, has to answer as if it remembered them too.             *)
(***************************************************************************)
EXTENDS Window, Sequences

CONSTANTS
    PDU,        \* the PDUs of the caller
    NoPDU       \* what a calloc'ed slot holds

ASSUME WindowLogAssumption == NoPDU \notin PDU

VARIABLE sent   \* history: sent[seq + 1] is the PDU added under seq

vars == <<windowVars, sent>>

TypeOK ==
    /\ WindowTypeOK(PDU \cup {NoPDU})
    /\ sent \in Seq(PDU)

Init ==
    /\ WindowSetUp(NoPDU)
    /\ sent = <<>>

Add ==
    \E pdu \in PDU :
        /\ WindowAddPacket(pdu)
        /\ sent' = Append(sent, pdu)

RR ==
    \E rr \in SeqNum :
        /\ ProcessRR(rr)
        /\ UNCHANGED sent

Next == Add \/ RR

Spec == Init /\ [][Next]_vars

-----------------------------------------------------------------------------

(* The window can send again exactly the PDUs that are not acknowledged,   *)
(* and what it sends for a sequence number is the PDU first sent under it: *)
(* no slot of the ring is taken by a later PDU too early (getWindowPacket, *)
(* windowAddPacket).                                                       *)
KeepsUnacknowledged ==
    \A seq \in SeqNum :
        /\ HasWindowPacket(seq) <=> (lower <= seq /\ seq < current)
        /\ HasWindowPacket(seq) => GetWindowPacket(seq) = sent[seq + 1]

(* window.h:14 says of a slot's active flag: 1 if the PDU has yet to be    *)
(* RRd, 0 if a valid RR came through.                                      *)
ActiveUntilRR ==
    \A i \in Slot :
        packets[i].active <=> \E seq \in lower .. current - 1 : Index(seq) = i

(* The window is open exactly while fewer than WindowSize PDUs are out, as *)
(* long as upper has not wrapped around.  Once lower + windowSize no       *)
(* longer fits a uint32_t (window.c:156), upper falls below current and    *)
(* the window is shut, rather than open for ever.                          *)
OpenUnlessFull ==
    IsWindowOpen <=> /\ current - lower < WindowSize
                     /\ lower + WindowSize < UintModulus

(* An RR, stale, repeated or beyond what was sent, moves the window only   *)
(* forward, never past what was sent, and forgets nothing above it.        *)
NeverBackwards ==
    [][ /\ lower' >= lower
        /\ lower' <= current'
        /\ \A seq \in lower' .. current - 1 :
             packets'[Index(seq)] = packets[Index(seq)] ]_vars
=============================================================================
