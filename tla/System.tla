------------------------------- MODULE System -------------------------------
(***************************************************************************)
(* One rcopy and one server copy one file: the client's state machine, the *)
(* server's main process and its children interleave, and exchange         *)
(* datagrams through the network.                                          *)
(*                                                                         *)
(* With LateDelivery any time-out may strike at any moment: a datagram may *)
(* take longer than the second, or the ten, that somebody waits for it.    *)
(* Without it, datagrams and processes are fast compared to the time-outs: *)
(* poll times out only when nothing that could still arrive would be in    *)
(* time.                                                                   *)
(*                                                                         *)
(* Up to MaxCrashes processes may be killed, by their user or by a signal  *)
(* like the one that bufferInit's unchecked malloc may end in.  Nothing    *)
(* tells the others: rcopy and the children have their time-outs only.     *)
(* That main is killed and started again is like the loss of what arrives  *)
(* in between, for it remembers nothing.                                   *)
(***************************************************************************)
EXTENDS Rcopy, Server, FiniteSets

CONSTANTS
    LateDelivery,   \* may a time-out strike although an answer is on its way?
    MaxCrashes      \* how many processes may be killed

ASSUME SystemAssumption ==
    /\ LateDelivery \in BOOLEAN
    /\ MaxCrashes \in Nat

VARIABLE killed     \* the processes that were killed

vars == <<rcopyVars, serverVars, networkVars, killed>>

TypeOK ==
    /\ RcopyTypeOK
    /\ ServerTypeOK
    /\ NetworkTypeOK
    /\ killed \in SUBSET ({Client} \cup Children)

Init ==
    /\ RcopyInit
    /\ ServerInit
    /\ NetworkInit
    /\ killed = {}

-----------------------------------------------------------------------------

(* Somebody still reads the socket with this address. *)
Reads(a) ==
    \/ a = Client /\ rstate # "DONE"
    \/ a = Main
    \/ a \in Children /\ cstate[a] \in {"receiving", "eofwait"}

InFlight == {m \in net \cup inbox : Reads(m.dst)}

(* rcopy goes round between SEND_DATA and PROCESS_ACKS: the whole file has *)
(* been read, PDUs are unacknowledged, and the window is open.  It sends   *)
(* nothing and waits for nothing until an answer arrives.                  *)
Spinning ==
    /\ rstate \in {"SEND_DATA", "PROCESS_ACKS"}
    /\ EOFReached
    /\ IsWindowOpen
    /\ ~ IsWindowEmpty

(* rcopy has nothing more to say to child c unless c speaks first. *)
SilentTo(c) == rstate = "DONE" \/ server # c \/ Spinning

(* When poll may time out. *)
RcopyMayTimeOut ==
    LateDelivery \/ (InFlight = {} /\ \A c \in Children : cstate[c] # "starting")

ChildMayTimeOut(c) ==
    LateDelivery \/ ( /\ SilentTo(c)
                      /\ \A m \in InFlight : c \notin {m.src, m.dst} )

EofWaitMayTimeOut(c) ==
    LateDelivery \/ ( /\ rstate = "WAIT_EOF_ACK" \/ SilentTo(c)
                      /\ \A m \in InFlight : c \notin {m.src, m.dst} )

-----------------------------------------------------------------------------

ClientStep == RcopyStep /\ UNCHANGED <<serverVars, killed>>

ClientTimeout ==
    RcopyMayTimeOut /\ RcopyTimeout /\ UNCHANGED <<serverVars, killed>>

Delivery == Deliver /\ UNCHANGED <<serverVars, killed>>

MainStep == MainRecv /\ UNCHANGED <<rcopyVars, killed>>

ServerChildStep(c) == ChildStep(c) /\ UNCHANGED <<rcopyVars, killed>>

ServerChildTimeout(c) ==
    /\ \/ ChildMayTimeOut(c) /\ ChildTimeout(c)
       \/ EofWaitMayTimeOut(c) /\ EofWaitTimeout(c)
    /\ UNCHANGED <<rcopyVars, killed>>

(* What a killed process leaves: its datagrams, and the file as it is.     *)
KillRcopy ==
    /\ Cardinality(killed) < MaxCrashes
    /\ rstate # "DONE"
    /\ rstate' = "DONE"
    /\ killed' = killed \cup {Client}
    /\ UNCHANGED <<inbox, offset, EOFReached, timeoutCount, filenameTries,
                   EOFTries, server, peer, windowVars, serverVars, networkVars>>

KillChild(c) ==
    /\ Cardinality(killed) < MaxCrashes
    /\ cstate[c] \notin {"idle", "closed"}
    /\ cstate' = [cstate EXCEPT ![c] = "closed"]
    /\ killed' = killed \cup {c}
    /\ UNCHANGED <<context, written, ackTries, output, rcopyVars, networkVars>>

(* The copy is over: rcopy and every child have ended, main goes on. *)
Finished ==
    /\ rstate = "DONE"
    /\ \A c \in Children : cstate[c] \in {"idle", "closed"}
    /\ UNCHANGED vars

Next ==
    \/ ClientStep
    \/ ClientTimeout
    \/ Delivery
    \/ MainStep
    \/ \E c \in Children : ServerChildStep(c) \/ ServerChildTimeout(c) \/ KillChild(c)
    \/ KillRcopy
    \/ Finished

Spec == Init /\ [][Next]_vars

(* The scheduler lets every process run, every datagram that is not lost   *)
(* arrives, and poll returns when its time has passed.                     *)
Fairness ==
    /\ WF_vars(ClientStep)
    /\ WF_vars(ClientTimeout)
    /\ WF_vars(Delivery)
    /\ WF_vars(MainStep)
    /\ \A c \in Children : WF_vars(ServerChildStep(c)) /\ WF_vars(ServerChildTimeout(c))

FairSpec == Spec /\ Fairness

-----------------------------------------------------------------------------

(* What a child writes, block after block, is the file from its start,     *)
(* with no block missing, repeated or out of order (buffer.c:1-3), however *)
(* the DATA PDUs were lost, repeated or reordered.                         *)
OutputIsPrefix ==
    \A c \in Children :
        /\ context[c].expected = Len(written[c])
        /\ Len(written[c]) <= Len(File)
        /\ \A i \in 1 .. Len(written[c]) : written[c][i] = File[i]

(* rcopy forgets a PDU only after the receiver it sends to has written it: *)
(* an RR, stale or misdirected, never acknowledges what is not on disk     *)
(* (processRR, sendRR).                                                    *)
AcknowledgedIsWritten ==
    /\ peer = Main => lower = 0 /\ current = 0
    /\ peer # Main => lower <= context[peer].expected /\ context[peer].expected <= current

(* rcopy announces the end of the file, and the child that takes its DATA  *)
(* accepts the announcement, only when that child has written the file in  *)
(* full: EOF is sent without a block count, and EOF_ACK without a check of *)
(* what is missing (server.c:131-132).                                     *)
EofMeansComplete ==
    /\ rstate \in {"SEND_EOF", "WAIT_EOF_ACK"} => written[peer] = File
    /\ \A c \in Children : cstate[c] = "eofwait" /\ c = peer => written[c] = File

(* A block the receiver holds out of order is the block of the file that   *)
(* belongs there, lies ahead of the gap and within reach of the window, so *)
(* that no slot of the receiver's ring is overwritten before it is         *)
(* flushed (bufferPacket checks neither).                                  *)
HeldAheadOfGap ==
    \A c \in Children : \A i \in Slot :
        LET e == context[c].buffer[i]
        IN  e.valid => /\ context[c].expected < e.seq
                       /\ e.seq <= context[c].highest
                       /\ e.seq < context[c].expected + WindowSize
                       /\ Index(e.seq) = i
                       /\ e.data = File[e.seq + 1]

(* While a gap is open a block beyond it is held, and lastSREJ is its      *)
(* number; while none is open lastSREJ can suppress no SREJ to come and    *)
(* nothing is held.  The state FLUSHING, of which bufferProcessPDU has a   *)
(* case, is never left behind.                                             *)
GapIsAskedFor ==
    \A c \in Children :
        \/ /\ context[c].state = "INORDER"
           /\ context[c].lastSREJ = NoSREJ
           /\ \A i \in Slot : ~ context[c].buffer[i].valid
        \/ /\ context[c].state = "BUFFERING"
           /\ context[c].lastSREJ = context[c].expected
           /\ context[c].expected < context[c].highest
           /\ Held(context[c], context[c].highest)

(* The SREJ of a gap is sent when the gap opens, even if it opens with the *)
(* flush that closed another one, and then never again (sendSREJOnce).     *)
NewGap(c) ==
    /\ context'[c].state = "BUFFERING"
    /\ \/ context[c].state # "BUFFERING"
       \/ context'[c].expected # context[c].expected

OneSrejPerGap ==
    [][ \A c \in Children :
          /\ NewGap(c) =>
               \/ ControlPDU(c, Client, "SREJ", context'[c].expected) \in net'
               \/ errors' > errors
          /\ (\E m \in net' \ net : m.src = c /\ m.flag = "SREJ") => NewGap(c) ]_vars

(* The output file on disk is a copy of the input when rcopy knows all its *)
(* DATA to be acknowledged, even if a retried FILENAME made the server     *)
(* fork a second child that truncated it (server.c:70).                    *)
CopyIsOnDisk == rstate \in {"SEND_EOF", "WAIT_EOF_ACK"} => output = File

-----------------------------------------------------------------------------

(* An rcopy that the server accepted ends without a copy only when as many *)
(* sends in a row as it has tries have failed: fewer losses, wherever they *)
(* strike, are made good by SREJ and by the time-out of a closed window.   *)
(* The death of the child that makes the copy cannot be made good.         *)
AcceptedMeansCopied ==
    rstate = "DONE" /\ peer # Main /\ killed \cap {Client, peer} = {} => output = File

(* Even if writes fail, whose result the server never looks at             *)
(* (buffer.c:193), what is in the file is in the order of the input.       *)
OutputInOrder ==
    \A c \in Children :
        \E f \in Increasing(Len(written[c]), context[c].expected) :
            \A k \in 1 .. Len(written[c]) : written[c][k] = File[f[k]]

(* What stands in the output file stands in its place, or was skipped by a *)
(* write behind the end, although children that do not know of each other  *)
(* share the file: an answer that comes after the retry of FILENAME makes  *)
(* rcopy adopt one child while another empties the file under it           *)
(* (rcopy.c:157-160, server.c:70).  As long as no write has failed.        *)
OutputInPlace ==
    (\A c \in Children : Len(written[c]) = context[c].expected) =>
        /\ Len(output) <= Len(File)
        /\ \A i \in 1 .. Len(output) : output[i] \in {File[i], Hole}

(* If reading fails half-way no end of file is announced, and what is      *)
(* announced as the whole file has reached the server as a whole.          *)
EofCoversFile ==
    rstate \in {"SEND_EOF", "WAIT_EOF_ACK"} =>
        offset = Len(File) /\ context[peer].expected = Len(File)

(* What rcopy and the child that accepted its file name do together is the *)
(* copying of a file as FileCopy promises it: the child's output grows as  *)
(* a prefix, rcopy knows of blocks only after they were written, and it    *)
(* sends EOF only when it knows of all of them.                            *)
Copy == INSTANCE FileCopy WITH
            out       <- IF peer = Main THEN <<>> ELSE written[peer],
            acked     <- lower,
            announced <- \/ rstate \in {"SEND_EOF", "WAIT_EOF_ACK"}
                         \/ rstate = "DONE" /\ EOFReached /\ IsWindowEmpty

CopySpec == Copy!Spec

(* Every child ends, whatever is lost and even if rcopy is killed: none    *)
(* stays behind with its socket and the open file.                         *)
ChildrenEnd == <>[](\A c \in Children : cstate[c] \in {"idle", "closed"})

(* If no send fails and nobody is killed, however the datagrams are        *)
(* reordered, the copy is made: rcopy ends, and the file is there.         *)
CopyIsMade ==
    [](errors = 0 /\ killed = {}) => <>[](rstate = "DONE" /\ output = File)

(* rcopy ends. *)
RcopyEnds == <>(rstate = "DONE")

(* The one way for rcopy not to end, be its child killed or not, is to go  *)
(* round between SEND_DATA and PROCESS_ACKS for ever.                      *)
RcopyEndsOrSpins == <>(rstate = "DONE") \/ <>[]Spinning

(* When rcopy has ended without telling its user of an error, the output   *)
(* file is a copy of the input.                                            *)
DoneMeansCopied == rstate = "DONE" => output = File
=============================================================================
