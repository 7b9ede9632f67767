------------------------------ MODULE Network -------------------------------
(***************************************************************************)
(* The datagrams between rcopy, the server's main process and its forked   *)
(* children.  Every program sends with sendtoErr and receives with         *)
(* recvfromErr of libcpe464: a send may drop the PDU or flip one of its    *)
(* bytes, and UDP may delay and reorder what was sent, or deliver it twice.*)
(*                                                                         *)
(* A PDU keeps what a receiver reads: its flag, one number (the sequence   *)
(* number of DATA, the number an RR or an SREJ carries in its payload, the *)
(* status of a FILENAME_RESPONSE) and the data block.  The controlSeqNum   *)
(* of control PDUs is never read and is left out.  A PDU with a flipped    *)
(* byte has the flag CORRUPT: in_cksum rejects it at every receiver, which *)
(* all call validateChecksum before they look at anything else.            *)
(*                                                                         *)
(* net is a set, so two equal datagrams in flight count as one.  That is a *)
(* loss of one copy; with Duplicates both can still be received.           *)
(***************************************************************************)
EXTENDS SeqNums

CONSTANTS
    Client,         \* address of rcopy's socket
    Main,           \* address of the server's well-known socket
    Children,       \* addresses of the sockets of the forked children
    Data,           \* the blocks a file is made of
    NoData,         \* the payload of a PDU that carries no block
    MaxErrors,      \* how many sends sendtoErr may drop or corrupt
    Duplicates,     \* may the network deliver a datagram more than once?
    MaxTries        \* how often a program tries before it gives up: 10

ASSUME NetworkAssumption ==
    /\ Client # Main
    /\ Client \notin Children
    /\ Main \notin Children
    /\ NoData \notin Data
    /\ MaxErrors \in Nat
    /\ Duplicates \in BOOLEAN
    /\ MaxTries \in Nat \ {0}

VARIABLES
    net,        \* the datagrams in flight, or in the socket of a server process
    errors      \* how many sends have been dropped or corrupted

networkVars == <<net, errors>>

Address == {Client, Main} \cup Children

Flag == {"DATA", "RR", "SREJ", "FILENAME", "FILENAME_RESPONSE",
         "EOF", "EOF_ACK", "FINAL_ACK", "CORRUPT"}

Message == [src : Address, dst : Address, flag : Flag,
            num : SeqNum, data : Data \cup {NoData}]

NetworkTypeOK ==
    /\ net \in SUBSET Message
    /\ errors \in 0 .. MaxErrors

NetworkInit ==
    /\ net = {}
    /\ errors = 0

-----------------------------------------------------------------------------

(* createPDU for a DATA PDU and for a control PDU. *)
DataPDU(src, dst, seq, block) ==
    [src |-> src, dst |-> dst, flag |-> "DATA", num |-> seq, data |-> block]

ControlPDU(src, dst, flag, num) ==
    [src |-> src, dst |-> dst, flag |-> flag, num |-> num, data |-> NoData]

(* errorFlipBits::run *)
Corrupted(m) == ControlPDU(m.src, m.dst, "CORRUPT", 0)

(* sendto_Err hands m to the network, drops it, or flips one of its bytes; *)
(* rest is what is in flight apart from m.                                 *)
SendToErr(rest, m) ==
    \/ /\ net' = rest \cup {m}
       /\ UNCHANGED errors
    \/ /\ errors < MaxErrors
       /\ errors' = errors + 1
       /\ \/ net' = rest
          \/ net' = rest \cup {Corrupted(m)}

SendNothing(rest) ==
    /\ net' = rest
    /\ UNCHANGED errors

(* What may be left in flight when a socket has received m. *)
Rest(m) == IF Duplicates THEN {net, net \ {m}} ELSE {net \ {m}}
=============================================================================
