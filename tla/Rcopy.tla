------------------------------- MODULE Rcopy --------------------------------
(***************************************************************************)
(* The client rcopy (rcopy.c): stateHandler's state machine, one action    *)
(* for each way through a state function.  processAcksState is a loop that *)
(* empties the socket; each turn of it is an action, since datagrams can   *)
(* arrive between two turns.                                               *)
(*                                                                         *)
(* inbox is what a poll() would find in rcopy's socket: the datagram at    *)
(* the head of its queue, if any.  Later ones wait in net.                 *)
(***************************************************************************)
EXTENDS Window, Network, Sequences

CONSTANTS
    File,           \* the blocks of the input file, of at most bufferSize bytes
    ReadFaults      \* may a read of the input file fail?

ASSUME RcopyAssumption ==
    /\ File \in Seq(Data)
    /\ ReadFaults \in BOOLEAN

VARIABLES
    rstate,         \* the state of stateHandler
    inbox,          \* the datagram rcopy's socket is ready to deliver, or none
    offset,         \* how many blocks of the input file have been read
    EOFReached,
    timeoutCount,
    filenameTries,
    EOFTries,
    server,         \* info->server, the address rcopy sends to
    peer            \* history: the address that accepted the file name, or Main

rcopyVars == <<rstate, inbox, offset, EOFReached, timeoutCount, filenameTries,
               EOFTries, server, peer, windowVars>>

RcopyState == {"SEND_FILENAME", "WAIT_FILENAME_ACK", "SEND_DATA", "PROCESS_ACKS",
               "WINDOW_CLOSED", "SEND_EOF", "WAIT_EOF_ACK", "DONE"}

(* A stored PDU is what is sent again, header included. *)
StoredPDU == [num : SeqNum, data : Data \cup {NoData}]

RcopyTypeOK ==
    /\ rstate \in RcopyState
    /\ inbox \in SUBSET Message
    /\ offset \in 0 .. Len(File)
    /\ EOFReached \in BOOLEAN
    /\ timeoutCount \in 0 .. MaxTries
    /\ filenameTries \in 0 .. MaxTries
    /\ EOFTries \in 0 .. MaxTries
    /\ server \in Address
    /\ peer \in Address
    /\ WindowTypeOK(StoredPDU)

(* initRcopyInfo *)
RcopyInit ==
    /\ rstate = "SEND_FILENAME"
    /\ inbox = {}
    /\ offset = 0
    /\ EOFReached = FALSE
    /\ timeoutCount = 0
    /\ filenameTries = 0
    /\ EOFTries = 0
    /\ server = Main
    /\ peer = Main
    /\ WindowSetUp([num |-> 0, data |-> NoData])

-----------------------------------------------------------------------------

(* A datagram reaches rcopy's socket, which is open until DONE. *)
Deliver ==
    /\ rstate # "DONE"
    /\ inbox = {}
    /\ \E m \in net :
         /\ m.dst = Client
         /\ inbox' = {m}
         /\ \E rest \in Rest(m) : SendNothing(rest)
    /\ UNCHANGED <<rstate, offset, EOFReached, timeoutCount, filenameTries,
                   EOFTries, server, peer, windowVars>>

-----------------------------------------------------------------------------

SendFilenameState ==
    /\ rstate = "SEND_FILENAME"
    /\ rstate' = "WAIT_FILENAME_ACK"
    /\ SendToErr(net, ControlPDU(Client, server, "FILENAME", 0))
    /\ UNCHANGED <<inbox, offset, EOFReached, timeoutCount, filenameTries,
                   EOFTries, server, peer, windowVars>>

(* Mutant: the tries are not counted. *)
WaitFilenameAckForever ==
    /\ rstate = "WAIT_FILENAME_ACK"
    /\ inbox = {}
    /\ rstate' = "SEND_FILENAME"
    /\ SendNothing(net)
    /\ UNCHANGED <<inbox, offset, EOFReached, timeoutCount, filenameTries,
                   EOFTries, server, peer, windowVars>>

WaitFilenameAckTimeout ==
    /\ rstate = "WAIT_FILENAME_ACK"
    /\ inbox = {}
    /\ filenameTries' = filenameTries + 1
    /\ rstate' = IF filenameTries' >= MaxTries THEN "DONE" ELSE "SEND_FILENAME"
    /\ SendNothing(net)
    /\ UNCHANGED <<inbox, offset, EOFReached, timeoutCount, EOFTries, server,
                   peer, windowVars>>

(* recvfrom stores the sender's address in info->server before anything of *)
(* the PDU is looked at.                                                   *)
WaitFilenameAckRecv ==
    /\ rstate = "WAIT_FILENAME_ACK"
    /\ \E m \in inbox :
         /\ server' = m.src
         /\ \/ /\ m.flag # "FILENAME_RESPONSE"
               /\ UNCHANGED <<rstate, filenameTries, peer>>
            \/ /\ m.flag = "FILENAME_RESPONSE" /\ m.num # 0
               /\ rstate' = "DONE"
               /\ UNCHANGED <<filenameTries, peer>>
            \/ /\ m.flag = "FILENAME_RESPONSE" /\ m.num = 0
               /\ rstate' = "SEND_DATA"
               /\ filenameTries' = 0
               /\ peer' = m.src
    /\ inbox' = {}
    /\ SendNothing(net)
    /\ UNCHANGED <<offset, EOFReached, timeoutCount, EOFTries, windowVars>>

-----------------------------------------------------------------------------

(* Mutant: EOF is sent without waiting for the acknowledgements. *)
AfterEOFAtOnce == "SEND_EOF"

(* Where sendDataState and processAcksState go once the file has been read.*)
AfterEOF == IF IsWindowEmpty THEN "SEND_EOF" ELSE "PROCESS_ACKS"

SendDataAtEOF ==
    /\ rstate = "SEND_DATA"
    /\ EOFReached
    /\ rstate' = AfterEOF
    /\ SendNothing(net)
    /\ UNCHANGED <<inbox, offset, EOFReached, timeoutCount, filenameTries,
                   EOFTries, server, peer, windowVars>>

SendDataWindowClosed ==
    /\ rstate = "SEND_DATA"
    /\ ~ EOFReached
    /\ ~ IsWindowOpen
    /\ rstate' = "WINDOW_CLOSED"
    /\ SendNothing(net)
    /\ UNCHANGED <<inbox, offset, EOFReached, timeoutCount, filenameTries,
                   EOFTries, server, peer, windowVars>>

(* Mutant: a failed read is taken for the end of the file. *)
SendDataReadErrorIsEOF ==
    /\ ReadFaults
    /\ rstate = "SEND_DATA"
    /\ ~ EOFReached
    /\ IsWindowOpen
    /\ EOFReached' = TRUE
    /\ rstate' = AfterEOF
    /\ SendNothing(net)
    /\ UNCHANGED <<inbox, offset, timeoutCount, filenameTries, EOFTries, server,
                   peer, windowVars>>

(* read() fails. *)
SendDataReadError ==
    /\ ReadFaults
    /\ rstate = "SEND_DATA"
    /\ ~ EOFReached
    /\ IsWindowOpen
    /\ rstate' = "DONE"
    /\ SendNothing(net)
    /\ UNCHANGED <<inbox, offset, EOFReached, timeoutCount, filenameTries,
                   EOFTries, server, peer, windowVars>>

(* read() returns 0. *)
SendDataReadEOF ==
    /\ rstate = "SEND_DATA"
    /\ ~ EOFReached
    /\ IsWindowOpen
    /\ offset = Len(File)
    /\ EOFReached' = TRUE
    /\ rstate' = AfterEOF
    /\ SendNothing(net)
    /\ UNCHANGED <<inbox, offset, timeoutCount, filenameTries, EOFTries, server,
                   peer, windowVars>>

(* read() returns a block: it is sent, then kept in the window. *)
SendDataBlock ==
    /\ rstate = "SEND_DATA"
    /\ ~ EOFReached
    /\ IsWindowOpen
    /\ offset < Len(File)
    /\ offset' = offset + 1
    /\ SendToErr(net, DataPDU(Client, server, current, File[offset']))
    /\ WindowAddPacket([num |-> current, data |-> File[offset']])
    /\ rstate' = "PROCESS_ACKS"
    /\ UNCHANGED <<inbox, EOFReached, timeoutCount, filenameTries, EOFTries,
                   server, peer>>

SendDataState ==
    \/ SendDataAtEOF
    \/ SendDataWindowClosed
    \/ SendDataReadError
    \/ SendDataReadEOF
    \/ SendDataBlock

-----------------------------------------------------------------------------

(* The PDU the window keeps for seq, sent again. *)
Resend(seq) ==
    LET pdu == GetWindowPacket(seq)
    IN  SendToErr(net, DataPDU(Client, server, pdu.num, pdu.data))

(* One turn of the loop of processAcksState.  recvfrom is given no address *)
(* here: a PDU of any sender counts, and info->server stays.               *)
ProcessAcksRecv ==
    /\ rstate = "PROCESS_ACKS"
    /\ \E m \in inbox :
         \/ /\ m.flag = "RR"
            /\ ProcessRR(m.num)
            /\ timeoutCount' = 0
            /\ SendNothing(net)
         \/ /\ m.flag = "SREJ"
            /\ timeoutCount' = 0
            /\ IF HasWindowPacket(m.num) THEN Resend(m.num) ELSE SendNothing(net)
            /\ UNCHANGED windowVars
         \/ /\ m.flag \notin {"RR", "SREJ"}
            /\ SendNothing(net)
            /\ UNCHANGED <<timeoutCount, windowVars>>
    /\ inbox' = {}
    /\ UNCHANGED <<rstate, offset, EOFReached, filenameTries, EOFTries, server, peer>>

(* Mutant: EOF is sent while PDUs are unacknowledged. *)
ProcessAcksDoneEarly ==
    /\ rstate = "PROCESS_ACKS"
    /\ inbox = {}
    /\ rstate' = IF EOFReached THEN "SEND_EOF"
                 ELSE IF IsWindowOpen THEN "SEND_DATA"
                 ELSE "WINDOW_CLOSED"
    /\ SendNothing(net)
    /\ UNCHANGED <<inbox, offset, EOFReached, timeoutCount, filenameTries,
                   EOFTries, server, peer, windowVars>>

(* poll(0) finds nothing more: the loop ends. *)
ProcessAcksDone ==
    /\ rstate = "PROCESS_ACKS"
    /\ inbox = {}
    /\ rstate' = IF EOFReached /\ IsWindowEmpty THEN "SEND_EOF"
                 ELSE IF IsWindowOpen THEN "SEND_DATA"
                 ELSE "WINDOW_CLOSED"
    /\ SendNothing(net)
    /\ UNCHANGED <<inbox, offset, EOFReached, timeoutCount, filenameTries,
                   EOFTries, server, peer, windowVars>>

WindowClosedReady ==
    /\ rstate = "WINDOW_CLOSED"
    /\ inbox # {}
    /\ timeoutCount' = 0
    /\ rstate' = "PROCESS_ACKS"
    /\ SendNothing(net)
    /\ UNCHANGED <<inbox, offset, EOFReached, filenameTries, EOFTries, server,
                   peer, windowVars>>

(* Mutant: the time-out sends nothing. *)
WindowClosedNoResend ==
    /\ rstate = "WINDOW_CLOSED"
    /\ inbox = {}
    /\ SendNothing(net)
    /\ timeoutCount' = timeoutCount + 1
    /\ rstate' = IF timeoutCount' >= MaxTries THEN "DONE" ELSE "WINDOW_CLOSED"
    /\ UNCHANGED <<inbox, offset, EOFReached, filenameTries, EOFTries, server,
                   peer, windowVars>>

(* A second without an answer: the lowest unacknowledged PDU is sent again.*)
WindowClosedTimeout ==
    /\ rstate = "WINDOW_CLOSED"
    /\ inbox = {}
    /\ IF HasWindowPacket(lower) THEN Resend(lower) ELSE SendNothing(net)
    /\ timeoutCount' = timeoutCount + 1
    /\ rstate' = IF timeoutCount' >= MaxTries THEN "DONE" ELSE "WINDOW_CLOSED"
    /\ UNCHANGED <<inbox, offset, EOFReached, filenameTries, EOFTries, server,
                   peer, windowVars>>

-----------------------------------------------------------------------------

SendEofState ==
    /\ rstate = "SEND_EOF"
    /\ rstate' = "WAIT_EOF_ACK"
    /\ SendToErr(net, ControlPDU(Client, server, "EOF", 0))
    /\ UNCHANGED <<inbox, offset, EOFReached, timeoutCount, filenameTries,
                   EOFTries, server, peer, windowVars>>

(* A time-out and an unexpected or corrupt PDU alike cost one try. *)
EofTryFailed ==
    /\ EOFTries' = EOFTries + 1
    /\ rstate' = IF EOFTries' >= MaxTries THEN "DONE" ELSE "SEND_EOF"
    /\ SendNothing(net)

WaitEofAckTimeout ==
    /\ rstate = "WAIT_EOF_ACK"
    /\ inbox = {}
    /\ EofTryFailed
    /\ UNCHANGED <<inbox, offset, EOFReached, timeoutCount, filenameTries,
                   server, peer, windowVars>>

(* As in WaitFilenameAckRecv, info->server follows every sender. *)
WaitEofAckRecv ==
    /\ rstate = "WAIT_EOF_ACK"
    /\ \E m \in inbox :
         /\ server' = m.src
         /\ \/ /\ m.flag # "EOF_ACK"
               /\ EofTryFailed
            \/ /\ m.flag = "EOF_ACK"
               /\ SendToErr(net, ControlPDU(Client, m.src, "FINAL_ACK", 0))
               /\ rstate' = "DONE"
               /\ UNCHANGED EOFTries
    /\ inbox' = {}
    /\ UNCHANGED <<offset, EOFReached, timeoutCount, filenameTries, peer, windowVars>>

-----------------------------------------------------------------------------

(* The steps rcopy takes as soon as it runs, and those that wait for poll  *)
(* to time out.                                                            *)
RcopyStep ==
    \/ SendFilenameState
    \/ WaitFilenameAckRecv
    \/ SendDataState
    \/ ProcessAcksRecv
    \/ ProcessAcksDone
    \/ WindowClosedReady
    \/ SendEofState
    \/ WaitEofAckRecv

RcopyTimeout ==
    \/ WaitFilenameAckTimeout
    \/ WindowClosedTimeout
    \/ WaitEofAckTimeout
=============================================================================
