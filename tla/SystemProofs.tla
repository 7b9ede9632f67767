----------------------------- MODULE SystemProofs -----------------------------
(***************************************************************************)
(* The properties of System, for every file and window, every number of    *)
(* children, of errors and of deaths, late time-outs and duplicated        *)
(* datagrams included unless a theorem says otherwise.                     *)
(*                                                                         *)
(* None of them is inductive.  That a DATA PDU still in flight carries the *)
(* block of its number and stays within the receiver's reach, that no RR   *)
(* in flight names a block not yet written, that rcopy's window holds the  *)
(* file and that nobody but the peer ever receives a block: these are the  *)
(* parts of Inv, one definition each, that the properties rest on.  Two    *)
(* properties need more: CopyIsOnDisk that there is OneAttempt at a time to*)
(* be accepted, and AcceptedMeansCopied, in Recovery, that what is missing *)
(* can still be made good.                                                 *)
(***************************************************************************)
EXTENDS System, WindowLemmas, BufferProofs

Blocks == Data \cup {NoData}

(* What the window remembers of the file. *)
Log == [k \in 1 .. Len(File) |-> [num |-> k - 1, data |-> File[k]]]

(* The window has been filled from the file, one block a number. *)
FileSent ==
    /\ WindowInv(StoredPDU, Log)
    /\ offset = current
    /\ EOFReached => offset = Len(File)

(* Whom rcopy speaks to, and what it has found out, in each state. *)
ClientPhase ==
    /\ server # Client
    /\ peer \in Children \/ (peer = Main /\ current = 0)
    /\ rstate # "DONE" => /\ timeoutCount < MaxTries
                          /\ filenameTries < MaxTries
                          /\ EOFTries < MaxTries
    /\ rstate \in {"SEND_FILENAME", "WAIT_FILENAME_ACK"} => peer = Main
    /\ rstate \in {"SEND_DATA", "PROCESS_ACKS", "WINDOW_CLOSED"} =>
         peer \in Children /\ server = peer
    /\ rstate \in {"SEND_EOF", "WAIT_EOF_ACK"} =>
         peer \in Children /\ EOFReached /\ lower = current

(* What a datagram in flight says is true, and stays true while it lasts.  *)
MessageInv(m) ==
    /\ m.dst = Client => m.src \in Children
    /\ m.flag = "DATA" => /\ m.dst = peer /\ peer \in Children
                          /\ m.num < current /\ m.data = File[m.num + 1]
    /\ m.flag = "RR" => m.src \in Children /\ m.num <= context[m.src].expected
    /\ m.flag = "EOF" => EOFReached /\ lower = current

NetInv ==
    /\ \A m \in net \cup inbox : MessageInv(m)
    /\ \A m \in inbox : m.dst = Client

(* Only the child that rcopy has accepted ever receives a block. *)
ChildInv(c) ==
    /\ c = peer => /\ BufferInv(context[c], Blocks, File, current)
                   /\ lower <= context[c].expected
    /\ c # peer => context[c] = BufferInit(NoData) /\ written[c] = <<>>
    /\ cstate[c] = "eofwait" => EOFReached /\ lower = current
    /\ cstate[c] # "closed" => ackTries[c] < MaxTries

(* blocks are some of the first n blocks of the file, in the file's order. *)
InOrder(blocks, n) ==
    \E f \in Increasing(Len(blocks), n) : \A k \in 1 .. Len(blocks) : blocks[k] = File[f[k]]

(* What a child has written; a write that fails leaves a block out. *)
DiskInv(c) ==
    /\ InOrder(written[c], context[c].expected)
    /\ ~ ServerFaults => Len(written[c]) = context[c].expected

(* What any of the children has left in the output file.  No child but the *)
(* peer writes to it, and it may be emptied under the peer.                *)
OutputInv ==
    /\ peer = Main => output = <<>>
    /\ peer \in Children =>
         /\ Len(output) <= Len(written[peer])
         /\ Len(written[peer]) = context[peer].expected =>
              \A i \in 1 .. Len(output) : output[i] \in {File[i], Hole}

ClientOK == RcopyTypeOK /\ FileSent /\ ClientPhase

ServerOK ==
    /\ ServerTypeOK
    /\ \A c \in Children : ChildInv(c) /\ DiskInv(c)
    /\ OutputInv

NetOK == NetworkTypeOK /\ NetInv

Inv == ClientOK /\ ServerOK /\ NetOK /\ killed \in SUBSET ({Client} \cup Children)

-----------------------------------------------------------------------------

(* The assumptions, and what they say about numbers, addresses and blocks. *)
LEMMA ConstantFacts ==
    /\ WindowSize \in Nat /\ WindowSize > 0 /\ WindowSize < UintModulus
    /\ UintModulus \in Nat
    /\ 0 \in SeqNum /\ 1 \in SeqNum
    /\ MaxTries \in Nat /\ MaxTries > 0 /\ MaxErrors \in Nat
    /\ Client \in Address /\ Main \in Address /\ Children \subseteq Address
    /\ Client # Main /\ Client \notin Children /\ Main \notin Children
    /\ File \in Seq(Data) /\ Len(File) \in Nat
    /\ \A i \in 1 .. Len(File) : File[i] \in Data
BY SeqNumsAssumption, NetworkAssumption, RcopyAssumption DEF SeqNum, Address

(* What the window is given for a block, and keeps for it.                 *)
LEMMA LogIsStored ==
    ASSUME NEW seq \in SeqNum, seq < Len(File)
    PROVE  /\ Log[seq + 1] = [num |-> seq, data |-> File[seq + 1]]
           /\ Log[seq + 1] \in StoredPDU
BY ConstantFacts DEF Log, StoredPDU, SeqNum

(* What is in the PDUs that createPDU makes.                               *)
LEMMA ControlFields ==
    ASSUME NEW src, NEW dst, NEW flag, NEW num
    PROVE  LET m == ControlPDU(src, dst, flag, num)
           IN  /\ m.src = src /\ m.dst = dst /\ m.flag = flag /\ m.num = num
               /\ src \in Address /\ dst \in Address /\ flag \in Flag /\ num \in SeqNum =>
                    m \in Message
BY DEF ControlPDU, Message

(* The same for DATA PDUs.                                                 *)
LEMMA DataFields ==
    ASSUME NEW src, NEW dst, NEW num, NEW block
    PROVE  LET m == DataPDU(src, dst, num, block)
           IN  /\ m.src = src /\ m.dst = dst /\ m.flag = "DATA" /\ m.num = num
               /\ m.data = block
               /\ src \in Address /\ dst \in Address /\ num \in SeqNum /\ block \in Data =>
                    m \in Message
BY DEF DataPDU, Message, Flag

-----------------------------------------------------------------------------

(* What no step takes back. *)
Forward ==
    /\ peer' = peer \/ peer = Main
    /\ current \in Nat /\ current' \in Nat /\ current <= current'
    /\ EOFReached /\ lower = current => EOFReached' /\ lower' = current'
    /\ \A c \in Children : /\ context[c].expected \in Nat /\ context'[c].expected \in Nat
                           /\ context[c].expected <= context'[c].expected

(* A datagram may stay in flight for ever: what it says remains true.      *)
LEMMA MessageStays ==
    ASSUME Forward, NEW m \in Message, MessageInv(m)
    PROVE  MessageInv(m)'
<1>1. m.num \in Nat
    BY ConstantFacts DEF Message, SeqNum
<1>2. m.flag = "DATA" => (/\ m.dst = peer /\ peer \in Children
                          /\ m.num < current /\ m.data = File[m.num + 1])'
    BY <1>1, ConstantFacts DEF Forward, MessageInv
<1>3. m.flag = "RR" => (m.src \in Children /\ m.num <= context[m.src].expected)'
    BY <1>1 DEF Forward, MessageInv
<1> QED
    BY <1>2, <1>3 DEF Forward, MessageInv

(* sendto_Err adds to the network what it is given, or a damaged copy.     *)
LEMMA SendToErrKeeps ==
    ASSUME NetOK, Forward, inbox' \subseteq inbox, inbox \in SUBSET Message,
           NEW STATE rest, rest \subseteq net,
           NEW m \in Message, MessageInv(m)', SendToErr(rest, m)
    PROVE  NetOK' /\ net' \subseteq net \cup {m, Corrupted(m)}
<1>1. net' \subseteq net \cup {m, Corrupted(m)} /\ errors' \in 0 .. MaxErrors
    BY ConstantFacts DEF SendToErr, NetOK, NetworkTypeOK
<1>2. Corrupted(m) \in Message /\ MessageInv(Corrupted(m))'
    BY ConstantFacts, ControlFields DEF Corrupted, Message, Flag, MessageInv
<1>3. NetworkTypeOK'
    BY <1>1, <1>2 DEF NetOK, NetworkTypeOK
<1>4. \A n \in net' \cup inbox' : MessageInv(n)'
    <2> SUFFICES ASSUME NEW n \in net' \cup inbox' PROVE MessageInv(n)'
        OBVIOUS
    <2>1. CASE n \in net \cup inbox
        BY <2>1, MessageStays DEF NetOK, NetworkTypeOK, NetInv
    <2>2. CASE n \notin net \cup inbox
        BY <1>1, <1>2, <2>2
    <2> QED
        BY <2>1, <2>2
<1> QED
    BY <1>1, <1>3, <1>4 DEF NetOK, NetInv

(* A step that sends nothing, and perhaps takes a datagram.                *)
LEMMA SendNothingKeeps ==
    ASSUME NetOK, Forward, inbox' \subseteq inbox, inbox \in SUBSET Message,
           NEW STATE rest, rest \subseteq net, SendNothing(rest)
    PROVE  NetOK' /\ net' \subseteq net
<1>1. net' \subseteq net /\ errors' = errors
    BY DEF SendNothing
<1>2. \A n \in net' \cup inbox' : MessageInv(n)'
    BY <1>1, MessageStays DEF NetOK, NetworkTypeOK, NetInv
<1> QED
    BY <1>1, <1>2 DEF NetOK, NetInv, NetworkTypeOK

-----------------------------------------------------------------------------

(* rcopy has used a number for each block that it has read.                *)
LEMMA FileIsSent ==
    ASSUME ClientOK
    PROVE  /\ SentOf(Blocks, File, current)
           /\ current \in SeqNum /\ current \in Nat /\ current <= Len(File)
           /\ lower \in SeqNum /\ lower \in Nat /\ lower <= current
           /\ current <= lower + WindowSize
<1>1. File \in Seq(Blocks)
    BY ConstantFacts DEF Blocks
<1> QED
    BY <1>1 DEF ClientOK, RcopyTypeOK, FileSent, WindowInv, WindowTypeOK, SentOf, SeqNum

(* The buffer's invariant does not mind that more has been sent.           *)
LEMMA BufferInvOfMore ==
    ASSUME NEW ctx, NEW sent \in Nat, NEW more \in Nat, sent <= more,
           BufferInv(ctx, Blocks, File, sent)
    PROVE  BufferInv(ctx, Blocks, File, more)
<1>1. ctx \in BufferContext(Blocks) /\ ctx.expected \in Nat
    BY DEF BufferInv, BufferContext, SeqNum
<1>2. SlotsHold(ctx, File, more, ctx.expected + 1, WindowSize - 1)
    BY <1>1 DEF BufferInv, SlotsHold, BufferContext, SeqNum
<1> QED
    BY <1>1, <1>2 DEF BufferInv

(* The types of what the proofs say of a child.                            *)
LEMMA ExpectedFacts ==
    ASSUME ServerOK, NEW c \in Children
    PROVE  /\ context[c] \in BufferContext(Blocks)
           /\ context[c].expected \in SeqNum /\ context[c].expected \in Nat
           /\ written[c] \in Seq(Data) /\ Len(written[c]) \in Nat
BY DEF ServerOK, ServerTypeOK, BufferContext, SeqNum, Blocks

(* A step of rcopy that sends no new block and learns of nothing written.  *)
LEMMA ServerKept ==
    ASSUME ServerOK, ClientOK, UNCHANGED serverVars, peer' = peer, Forward,
           current' <= Len(File), lower' \in Nat,
           peer \in Children => lower' <= context[peer].expected
    PROVE  ServerOK'
<1>1. ServerTypeOK'
    BY DEF ServerOK, ServerTypeOK, serverVars
<1>2. ASSUME NEW c \in Children
      PROVE  ChildInv(c)' /\ DiskInv(c)'
    <2>1. ChildInv(c) /\ DiskInv(c)
        BY DEF ServerOK
    <2>2. DiskInv(c)'
        BY <2>1 DEF DiskInv, serverVars
    <2>3. c = peer => BufferInv(context[c], Blocks, File, current')
        BY <2>1, BufferInvOfMore DEF ChildInv, Forward
    <2>4. (c = peer => BufferInv(context[c], Blocks, File, current))'
        BY <2>3 DEF serverVars
    <2> QED
        BY <2>1, <2>2, <2>4 DEF ChildInv, Forward, serverVars
<1>3. OutputInv'
    BY DEF ServerOK, OutputInv, serverVars
<1> QED
    BY <1>1, <1>2, <1>3 DEF ServerOK

(* Most steps of rcopy touch neither the file nor the window. *)
Quiet == UNCHANGED <<windowVars, offset, EOFReached, peer, serverVars>>

(* Such a step keeps all but what concerns rcopy's own state.              *)
LEMMA QuietKeeps ==
    ASSUME Inv, Quiet
    PROVE  ServerOK' /\ FileSent' /\ Forward
<1>1. Forward
    BY FileIsSent, ExpectedFacts DEF Quiet, Forward, Inv, windowVars, serverVars
<1>2. FileSent'
    BY DEF Inv, ClientOK, FileSent, Quiet, windowVars, WindowInv, WindowTypeOK
<1>3. ServerOK'
    <2>1. /\ UNCHANGED serverVars /\ peer' = peer /\ current' = current /\ lower' = lower
          /\ current' <= Len(File) /\ lower' \in Nat
        BY FileIsSent DEF Quiet, windowVars, Inv
    <2>2. peer \in Children => lower' <= context[peer].expected
        BY <2>1 DEF Inv, ServerOK, ChildInv
    <2> QED
        BY <1>1, <2>1, <2>2, ServerKept DEF Inv
<1> QED
    BY <1>1, <1>2, <1>3

-----------------------------------------------------------------------------

(* The steps of rcopy, one lemma for each way they change the state. *)

(* Steps that only move between the states of stateHandler. *)
LEMMA MovesKeep ==
    ASSUME Inv, UNCHANGED <<serverVars, killed>>,
           \/ SendDataAtEOF \/ SendDataWindowClosed \/ SendDataReadError
           \/ ProcessAcksDone \/ WindowClosedReady
    PROVE  Inv'
<1>1. Quiet /\ UNCHANGED <<inbox, filenameTries, EOFTries, server>> /\ SendNothing(net)
      /\ timeoutCount' \in {0, timeoutCount}
    BY DEF SendDataAtEOF, SendDataWindowClosed, SendDataReadError, ProcessAcksDone,
           WindowClosedReady, Quiet, Inv, ClientOK, RcopyTypeOK
<1>2. ServerOK' /\ FileSent' /\ Forward
    BY <1>1, QuietKeeps
<1>3. RcopyTypeOK' /\ ClientPhase'
    <2>1. rstate' \in RcopyState
        BY DEF SendDataAtEOF, SendDataWindowClosed, SendDataReadError, ProcessAcksDone,
               WindowClosedReady, RcopyState, AfterEOF
    <2>2. RcopyTypeOK'
        BY <1>1, <1>2, <2>1, ConstantFacts
        DEF Inv, ClientOK, RcopyTypeOK, FileSent, WindowInv, Quiet, windowVars
    <2>3. ClientPhase'
        BY <1>1, ConstantFacts
        DEF Inv, ClientOK, ClientPhase, RcopyTypeOK, Quiet, windowVars,
            SendDataAtEOF, SendDataWindowClosed, SendDataReadError, ProcessAcksDone,
            WindowClosedReady, AfterEOF, IsWindowEmpty
    <2> QED
        BY <2>2, <2>3
<1>4. NetOK'
    BY <1>1, <1>2, SendNothingKeeps DEF Inv, ClientOK, RcopyTypeOK
<1> QED
    BY <1>2, <1>3, <1>4 DEF Inv, ClientOK

(* The time-outs, and the PDUs that WAIT_EOF_ACK takes for one. *)
LEMMA TriesKeep ==
    ASSUME Inv, UNCHANGED <<serverVars, killed>>,
           WaitFilenameAckTimeout \/ WaitEofAckTimeout
    PROVE  Inv'
<1>1. Quiet /\ UNCHANGED <<inbox, timeoutCount, server>> /\ SendNothing(net)
    BY DEF WaitFilenameAckTimeout, WaitEofAckTimeout, EofTryFailed, Quiet
<1>2. ServerOK' /\ FileSent' /\ Forward
    BY <1>1, QuietKeeps
<1>3. RcopyTypeOK' /\ ClientPhase'
    BY <1>1, <1>2, ConstantFacts
    DEF Inv, ClientOK, ClientPhase, RcopyTypeOK, RcopyState, FileSent, WindowInv, Quiet,
        windowVars, WaitFilenameAckTimeout, WaitEofAckTimeout, EofTryFailed
<1>4. NetOK'
    BY <1>1, <1>2, SendNothingKeeps DEF Inv, ClientOK, RcopyTypeOK
<1> QED
    BY <1>2, <1>3, <1>4 DEF Inv, ClientOK

(* A FILENAME or an EOF is sent. *)
LEMMA AnnouncementsKeep ==
    ASSUME Inv, UNCHANGED <<serverVars, killed>>, SendFilenameState \/ SendEofState
    PROVE  Inv'
<1>1. Quiet /\ UNCHANGED <<inbox, filenameTries, EOFTries, timeoutCount, server>>
    BY DEF SendFilenameState, SendEofState, Quiet
<1>2. ServerOK' /\ FileSent' /\ Forward
    BY <1>1, QuietKeeps
<1>3. RcopyTypeOK' /\ ClientPhase'
    BY <1>1, <1>2, ConstantFacts
    DEF Inv, ClientOK, ClientPhase, RcopyTypeOK, RcopyState, FileSent, WindowInv, Quiet,
        windowVars, SendFilenameState, SendEofState
<1>4. NetOK'
    <2>1. PICK m : /\ m = ControlPDU(Client, server, IF rstate = "SEND_EOF" THEN "EOF"
                                                     ELSE "FILENAME", 0)
                   /\ SendToErr(net, m)
        BY DEF SendFilenameState, SendEofState
    <2>2. /\ m \in Message /\ m.dst = server /\ m.flag \in {"EOF", "FILENAME"}
          /\ m.flag = "EOF" => rstate = "SEND_EOF"
        BY <2>1, ControlFields, ConstantFacts DEF Inv, ClientOK, RcopyTypeOK, Flag
    <2>3. MessageInv(m)'
        BY <1>1, <2>2 DEF MessageInv, Inv, ClientOK, ClientPhase, Quiet, windowVars
    <2> QED
        BY <1>1, <1>2, <2>1, <2>2, <2>3, SendToErrKeeps DEF Inv, ClientOK, RcopyTypeOK
<1> QED
    BY <1>2, <1>3, <1>4 DEF Inv, ClientOK

(* What rcopy has received is from a child, and no DATA or EOF. *)
LEMMA InboxFacts ==
    ASSUME Inv, NEW m \in inbox
    PROVE  /\ m \in Message /\ m.dst = Client /\ m.src \in Children /\ m.num \in SeqNum
           /\ m.flag = "RR" => m.num <= context[m.src].expected
BY DEF Inv, ClientOK, RcopyTypeOK, NetOK, NetInv, MessageInv, Message

(* An answer to FILENAME: the child it comes from becomes the peer.        *)
LEMMA AcceptKeeps ==
    ASSUME Inv, UNCHANGED <<serverVars, killed>>, WaitFilenameAckRecv
    PROVE  Inv'
<1>1. PICK m \in inbox :
         /\ server' = m.src
         /\ \/ UNCHANGED <<rstate, filenameTries, peer>>
            \/ rstate' = "DONE" /\ UNCHANGED <<filenameTries, peer>>
            \/ rstate' = "SEND_DATA" /\ filenameTries' = 0 /\ peer' = m.src
    BY DEF WaitFilenameAckRecv
<1>2. /\ rstate = "WAIT_FILENAME_ACK" /\ inbox' = {} /\ SendNothing(net)
      /\ UNCHANGED <<offset, EOFReached, timeoutCount, EOFTries, windowVars>>
    BY DEF WaitFilenameAckRecv
<1>3. peer = Main /\ current = 0 /\ lower = 0 /\ server' \in Children
      /\ peer' \in {peer, m.src}
    BY <1>1, <1>2, InboxFacts, FileIsSent, ConstantFacts DEF Inv, ClientOK, ClientPhase
<1>4. Forward
    BY <1>2, <1>3, ExpectedFacts, ConstantFacts DEF Forward, Inv, windowVars, serverVars
<1>5. FileSent'
    BY <1>2 DEF Inv, ClientOK, FileSent, windowVars, WindowInv, WindowTypeOK
<1>6. RcopyTypeOK' /\ ClientPhase'
    BY <1>1, <1>2, <1>3, <1>5, ConstantFacts
    DEF Inv, ClientOK, ClientPhase, RcopyTypeOK, RcopyState, FileSent, WindowInv, windowVars
<1>7. ServerOK'
    <2>1. ASSUME NEW c \in Children PROVE ChildInv(c)' /\ DiskInv(c)'
        <3>1. /\ context'[c] = BufferInit(NoData) /\ written'[c] = <<>>
              /\ cstate'[c] = cstate[c] /\ ackTries'[c] = ackTries[c]
            BY <1>3, ConstantFacts DEF Inv, ServerOK, ChildInv, serverVars
        <3>2. BufferInv(BufferInit(NoData), Blocks, File, current)
            BY FileIsSent, BufferInitInv DEF Inv, Blocks
        <3>3. (BufferInv(context[c], Blocks, File, current))'
            BY <1>2, <3>1, <3>2 DEF windowVars
        <3>4. BufferInit(NoData).expected = 0
            BY DEF BufferInit
        <3> QED
            BY <1>2, <1>3, <3>1, <3>3, <3>4, ConstantFacts
            DEF Inv, ServerOK, ChildInv, DiskInv, serverVars, windowVars
    <2>2. ServerTypeOK'
        BY DEF Inv, ServerOK, ServerTypeOK, serverVars
    <2>3. OutputInv'
        BY <1>3, <2>1, ConstantFacts, ExpectedFacts DEF Inv, ServerOK, OutputInv, serverVars
    <2> QED
        BY <2>1, <2>2, <2>3 DEF ServerOK
<1>8. NetOK'
    BY <1>2, <1>4, SendNothingKeeps DEF Inv, ClientOK, RcopyTypeOK
<1> QED
    BY <1>5, <1>6, <1>7, <1>8 DEF Inv, ClientOK

(* read() finds the end of the file. *)
LEMMA ReadEOFKeeps ==
    ASSUME Inv, UNCHANGED <<serverVars, killed>>, SendDataReadEOF
    PROVE  Inv'
<1>1. /\ UNCHANGED <<windowVars, offset, peer, inbox, filenameTries, EOFTries, timeoutCount,
                     server>>
      /\ EOFReached' /\ offset = Len(File) /\ SendNothing(net)
      /\ rstate = "SEND_DATA" /\ rstate' = AfterEOF
    BY DEF SendDataReadEOF
<1>2. Forward
    BY <1>1, FileIsSent, ExpectedFacts DEF Forward, Inv, windowVars, serverVars
<1>3. FileSent'
    BY <1>1 DEF Inv, ClientOK, FileSent, windowVars, WindowInv, WindowTypeOK
<1>4. ServerOK'
    <2>1. peer \in Children => lower' <= context[peer].expected
        BY <1>1 DEF Inv, ServerOK, ChildInv, windowVars
    <2>2. UNCHANGED serverVars /\ peer' = peer /\ current' <= Len(File) /\ lower' \in Nat
        BY <1>1, FileIsSent DEF windowVars, Inv
    <2> QED
        BY <1>2, <2>1, <2>2, ServerKept DEF Inv
<1>5. RcopyTypeOK' /\ ClientPhase'
    BY <1>1, <1>3, ConstantFacts
    DEF Inv, ClientOK, ClientPhase, RcopyTypeOK, RcopyState, FileSent, WindowInv, windowVars,
        SendDataReadEOF, AfterEOF, IsWindowEmpty
<1>6. NetOK'
    BY <1>1, <1>2, SendNothingKeeps DEF Inv, ClientOK, RcopyTypeOK
<1> QED
    BY <1>3, <1>4, <1>5, <1>6 DEF Inv, ClientOK

(* A block of the file is sent for the first time. *)
LEMMA SendBlockKeeps ==
    ASSUME Inv, UNCHANGED <<serverVars, killed>>, SendDataBlock
    PROVE  Inv'
<1>1. /\ UNCHANGED <<peer, inbox, filenameTries, EOFTries, timeoutCount, server, EOFReached>>
      /\ rstate = "SEND_DATA" /\ rstate' = "PROCESS_ACKS" /\ ~ EOFReached
      /\ offset < Len(File) /\ offset' = offset + 1
      /\ SendToErr(net, DataPDU(Client, server, current, File[offset']))
      /\ WindowAddPacket([num |-> current, data |-> File[offset']])
    BY DEF SendDataBlock
<1>2. /\ current \in SeqNum /\ current \in Nat /\ current < Len(File) /\ offset' = current + 1
      /\ lower \in Nat /\ peer \in Children /\ server = peer
    BY <1>1, FileIsSent DEF Inv, ClientOK, FileSent, ClientPhase
<1>3. WindowInv(StoredPDU, Log)' /\ current' = current + 1
    <2>1. /\ Log[current + 1] = [num |-> current, data |-> File[offset']]
          /\ [num |-> current, data |-> File[offset']] \in StoredPDU
        BY <1>2, LogIsStored
    <2>2. PICK pdu \in StoredPDU : Log[current + 1] = pdu /\ WindowAddPacket(pdu)
        BY <1>1, <2>1
    <2>3. WindowInv(StoredPDU, Log)
        BY DEF Inv, ClientOK, FileSent
    <2> QED
        BY <2>2, <2>3, WindowAddPacketInv
<1>4. lower' = lower
    BY <1>1 DEF WindowAddPacket
<1>5. Forward
    BY <1>1, <1>2, <1>3, ExpectedFacts DEF Forward, Inv, serverVars
<1>6. ServerOK'
    <2>1. peer \in Children => lower' <= context[peer].expected
        BY <1>4 DEF Inv, ServerOK, ChildInv
    <2>2. UNCHANGED serverVars /\ peer' = peer /\ current' <= Len(File) /\ lower' \in Nat
        BY <1>1, <1>2, <1>3, <1>4, ConstantFacts
    <2> QED
        BY <1>5, <2>1, <2>2, ServerKept DEF Inv
<1>7. FileSent' /\ RcopyTypeOK' /\ ClientPhase'
    BY <1>1, <1>2, <1>3, ConstantFacts
    DEF Inv, ClientOK, ClientPhase, RcopyTypeOK, RcopyState, FileSent, WindowInv
<1>8. NetOK'
    <2>1. PICK m : m = DataPDU(Client, server, current, File[offset']) /\ SendToErr(net, m)
        BY <1>1
    <2>2. /\ m \in Message /\ m.dst = server /\ m.flag = "DATA" /\ m.num = current
          /\ m.data = File[current + 1]
        BY <1>2, <2>1, DataFields, ConstantFacts
    <2>3. MessageInv(m)'
        BY <1>1, <1>2, <1>3, <2>2, ConstantFacts DEF MessageInv
    <2> QED
        BY <1>1, <1>5, <2>1, <2>2, <2>3, SendToErrKeeps DEF Inv, ClientOK, RcopyTypeOK
<1> QED
    BY <1>6, <1>7, <1>8 DEF Inv, ClientOK

(* What the window keeps and sends again is the block of that number. *)
LEMMA ResendKeeps ==
    ASSUME Inv, Quiet, inbox' \subseteq inbox, UNCHANGED server,
           rstate \in {"PROCESS_ACKS", "WINDOW_CLOSED"}, NEW seq \in SeqNum,
           IF HasWindowPacket(seq) THEN Resend(seq) ELSE SendNothing(net)
    PROVE  NetOK'
<1>1. Forward
    BY QuietKeeps
<1>2. CASE HasWindowPacket(seq)
    <2>1. seq \in Nat /\ lower <= seq /\ seq < current /\ current <= Len(File)
        BY <1>2, FileIsSent DEF HasWindowPacket, Inv, SeqNum
    <2>2. seq \in lower .. current - 1 /\ seq < Len(File)
        BY <2>1, FileIsSent, ConstantFacts DEF Inv
    <2>3. GetWindowPacket(seq) = [num |-> seq, data |-> File[seq + 1]]
        <3>1. packets[Index(seq)] = [active |-> TRUE, seq |-> seq, pdu |-> Log[seq + 1]]
            BY <2>2 DEF Inv, ClientOK, FileSent, WindowInv
        <3> QED
            BY <2>2, <3>1, LogIsStored DEF GetWindowPacket
    <2>4. PICK m : m = DataPDU(Client, server, seq, File[seq + 1]) /\ SendToErr(net, m)
        BY <1>2, <2>3 DEF Resend
    <2>5. server = peer /\ peer \in Children /\ server \in Address
        BY ConstantFacts DEF Inv, ClientOK, ClientPhase
    <2>6. /\ m \in Message /\ m.dst = server /\ m.flag = "DATA" /\ m.num = seq
          /\ m.data = File[seq + 1]
        BY <2>1, <2>2, <2>4, <2>5, DataFields, ConstantFacts
    <2>7. MessageInv(m)'
        BY <2>1, <2>5, <2>6, ConstantFacts DEF MessageInv, Quiet, windowVars
    <2> QED
        BY <1>1, <2>4, <2>6, <2>7, SendToErrKeeps DEF Inv, ClientOK, RcopyTypeOK
<1>3. CASE ~ HasWindowPacket(seq)
    BY <1>1, <1>3, SendNothingKeeps DEF Inv, ClientOK, RcopyTypeOK
<1> QED
    BY <1>2, <1>3

(* A turn of the loop of processAcksState: an RR is heeded only as far as  *)
(* the peer has written, whoever sends it.                                 *)
LEMMA AcksKeep ==
    ASSUME Inv, UNCHANGED <<serverVars, killed>>, ProcessAcksRecv
    PROVE  Inv'
<1>1. PICK m \in inbox :
         \/ m.flag = "RR" /\ ProcessRR(m.num) /\ timeoutCount' = 0 /\ SendNothing(net)
         \/ /\ m.flag = "SREJ" /\ timeoutCount' = 0 /\ UNCHANGED windowVars
            /\ IF HasWindowPacket(m.num) THEN Resend(m.num) ELSE SendNothing(net)
         \/ SendNothing(net) /\ UNCHANGED <<timeoutCount, windowVars>>
    BY DEF ProcessAcksRecv
<1>2. /\ inbox' = {} /\ rstate = "PROCESS_ACKS"
      /\ UNCHANGED <<rstate, offset, EOFReached, filenameTries, EOFTries, server, peer>>
      /\ timeoutCount' \in {0, timeoutCount}
    BY <1>1 DEF ProcessAcksRecv
<1>3. m.num \in SeqNum
    BY InboxFacts
<1>4. ASSUME UNCHANGED windowVars
      PROVE  ServerOK' /\ FileSent' /\ Forward /\ NetOK'
    <2>1. Quiet
        BY <1>2, <1>4 DEF Quiet
    <2>2. ServerOK' /\ FileSent' /\ Forward
        BY <2>1, QuietKeeps
    <2>3. NetOK'
        <3>1. \/ IF HasWindowPacket(m.num) THEN Resend(m.num) ELSE SendNothing(net)
              \/ SendNothing(net)
            BY <1>1
        <3>2. CASE SendNothing(net)
            BY <1>2, <2>2, <3>2, SendNothingKeeps DEF Inv, ClientOK, RcopyTypeOK
        <3> QED
            BY <1>2, <1>3, <2>1, <3>1, <3>2, ResendKeeps
    <2> QED
        BY <2>2, <2>3
<1>5. ASSUME m.flag = "RR", ProcessRR(m.num), SendNothing(net)
      PROVE  ServerOK' /\ FileSent' /\ Forward /\ NetOK'
    <2>1. /\ WindowInv(StoredPDU, Log)' /\ current' = current /\ lower <= lower'
          /\ lower' <= current /\ (lower' = lower \/ lower' <= m.num)
        BY <1>3, <1>5, ProcessRRInv DEF Inv, ClientOK, FileSent
    <2>2. lower' \in Nat
        BY <2>1 DEF WindowInv, WindowTypeOK, SeqNum
    <2>3. FileSent'
        BY <1>2, <2>1 DEF Inv, ClientOK, FileSent
    <2>4. Forward
        BY <1>2, <2>1, <2>2, FileIsSent, ExpectedFacts DEF Forward, Inv, serverVars
    <2>5. peer \in Children => lower' <= context[peer].expected
        <3> SUFFICES ASSUME peer \in Children PROVE lower' <= context[peer].expected
            OBVIOUS
        <3>1. lower <= context[peer].expected /\ context[peer].expected \in Nat
            BY ExpectedFacts DEF Inv, ServerOK, ChildInv
        <3>2. m.src \in Children /\ m.num <= context[m.src].expected
            BY <1>5, InboxFacts
        <3>3. m.src # peer => context[m.src].expected = 0
            BY <3>2 DEF Inv, ServerOK, ChildInv, BufferInit
        <3> QED
            BY <1>3, <2>1, <2>2, <3>1, <3>2, <3>3 DEF SeqNum
    <2>6. ServerOK'
        BY <1>2, <2>1, <2>2, <2>4, <2>5, FileIsSent, ServerKept DEF Inv
    <2>7. NetOK'
        BY <1>2, <1>5, <2>4, SendNothingKeeps DEF Inv, ClientOK, RcopyTypeOK
    <2> QED
        BY <2>3, <2>4, <2>6, <2>7
<1>6. ServerOK' /\ FileSent' /\ Forward /\ NetOK'
    BY <1>1, <1>4, <1>5
<1>7. RcopyTypeOK' /\ ClientPhase'
    BY <1>2, <1>6, ConstantFacts
    DEF Inv, ClientOK, ClientPhase, RcopyTypeOK, RcopyState, FileSent, WindowInv, Forward
<1> QED
    BY <1>6, <1>7 DEF Inv, ClientOK

(* A second without an answer on a closed window. *)
LEMMA ClosedTimeoutKeeps ==
    ASSUME Inv, UNCHANGED <<serverVars, killed>>, WindowClosedTimeout
    PROVE  Inv'
<1>1. /\ Quiet /\ UNCHANGED <<inbox, filenameTries, EOFTries, server>>
      /\ rstate = "WINDOW_CLOSED" /\ timeoutCount' = timeoutCount + 1
      /\ rstate' = IF timeoutCount' >= MaxTries THEN "DONE" ELSE "WINDOW_CLOSED"
    BY DEF WindowClosedTimeout, Quiet
<1>2. ServerOK' /\ FileSent' /\ Forward
    BY <1>1, QuietKeeps
<1>3. RcopyTypeOK' /\ ClientPhase'
    BY <1>1, <1>2, ConstantFacts
    DEF Inv, ClientOK, ClientPhase, RcopyTypeOK, RcopyState, FileSent, WindowInv, Quiet,
        windowVars
<1>4. NetOK'
    <2>1. PICK seq \in SeqNum : IF HasWindowPacket(seq) THEN Resend(seq) ELSE SendNothing(net)
        BY FileIsSent DEF WindowClosedTimeout, Inv
    <2> QED
        BY <1>1, <2>1, ResendKeeps
<1> QED
    BY <1>2, <1>3, <1>4 DEF Inv, ClientOK

(* The answer to EOF, or what is not one. *)
LEMMA EofAnswerKeeps ==
    ASSUME Inv, UNCHANGED <<serverVars, killed>>, WaitEofAckRecv
    PROVE  Inv'
<1>1. PICK m \in inbox :
         /\ server' = m.src
         /\ \/ EofTryFailed
            \/ /\ SendToErr(net, ControlPDU(Client, m.src, "FINAL_ACK", 0))
               /\ rstate' = "DONE" /\ UNCHANGED EOFTries
    BY DEF WaitEofAckRecv
<1>2. Quiet /\ UNCHANGED <<timeoutCount, filenameTries>> /\ inbox' = {}
      /\ rstate = "WAIT_EOF_ACK"
    BY DEF WaitEofAckRecv, Quiet
<1>3. ServerOK' /\ FileSent' /\ Forward
    BY <1>2, QuietKeeps
<1>4. m.src \in Children /\ m.src \in Address /\ m.src # Client
    BY InboxFacts, ConstantFacts
<1>5. RcopyTypeOK' /\ ClientPhase'
    BY <1>1, <1>2, <1>3, <1>4, ConstantFacts
    DEF Inv, ClientOK, ClientPhase, RcopyTypeOK, RcopyState, FileSent, WindowInv, Quiet,
        windowVars, EofTryFailed
<1>6. NetOK'
    <2>1. CASE EofTryFailed
        BY <1>2, <1>3, <2>1, SendNothingKeeps DEF EofTryFailed, Inv, ClientOK, RcopyTypeOK
    <2>2. CASE SendToErr(net, ControlPDU(Client, m.src, "FINAL_ACK", 0))
        <3>1. PICK n : n = ControlPDU(Client, m.src, "FINAL_ACK", 0) /\ SendToErr(net, n)
            BY <2>2
        <3>2. n \in Message /\ n.dst = m.src /\ n.flag = "FINAL_ACK"
            BY <1>4, <3>1, ControlFields, ConstantFacts DEF Flag
        <3>3. MessageInv(n)'
            BY <1>4, <3>2 DEF MessageInv
        <3> QED
            BY <1>2, <1>3, <3>1, <3>2, <3>3, SendToErrKeeps DEF Inv, ClientOK, RcopyTypeOK
    <2> QED
        BY <1>1, <2>1, <2>2
<1> QED
    BY <1>3, <1>5, <1>6 DEF Inv, ClientOK

(* A datagram reaches rcopy's socket. *)
LEMMA DeliverKeeps ==
    ASSUME Inv, UNCHANGED <<serverVars, killed>>, Deliver
    PROVE  Inv'
<1>1. PICK m \in net : /\ m.dst = Client /\ inbox' = {m}
                       /\ \E rest \in Rest(m) : SendNothing(rest)
    BY DEF Deliver
<1>2. net' \subseteq net /\ UNCHANGED errors
    BY <1>1 DEF Rest, SendNothing
<1>3. Quiet /\ UNCHANGED <<rstate, timeoutCount, filenameTries, EOFTries, server>>
    BY DEF Deliver, Quiet
<1>4. ServerOK' /\ FileSent' /\ Forward
    BY <1>3, QuietKeeps
<1>5. NetOK'
    <2>1. \A n \in net' \cup inbox' : MessageInv(n)'
        BY <1>1, <1>2, <1>4, MessageStays DEF Inv, NetOK, NetworkTypeOK, NetInv
    <2> QED
        BY <1>1, <1>2, <2>1 DEF Inv, NetOK, NetworkTypeOK, NetInv
<1>6. RcopyTypeOK' /\ ClientPhase'
    <2>1. inbox' \in SUBSET Message
        BY <1>1 DEF Inv, NetOK, NetworkTypeOK
    <2> QED
        BY <1>3, <1>4, <2>1
        DEF Inv, ClientOK, ClientPhase, RcopyTypeOK, FileSent, WindowInv, Quiet, windowVars
<1> QED
    BY <1>4, <1>5, <1>6 DEF Inv, ClientOK

(* rcopy is killed. *)
LEMMA KillRcopyKeeps ==
    ASSUME Inv, KillRcopy
    PROVE  Inv'
<1>1. /\ Quiet /\ SendNothing(net) /\ rstate' = "DONE"
      /\ UNCHANGED <<inbox, timeoutCount, filenameTries, EOFTries, server>>
      /\ killed' \in SUBSET ({Client} \cup Children)
    BY DEF KillRcopy, Quiet, networkVars, SendNothing, Inv
<1>2. ServerOK' /\ FileSent' /\ Forward
    BY <1>1, QuietKeeps
<1>3. RcopyTypeOK' /\ ClientPhase'
    BY <1>1, <1>2
    DEF Inv, ClientOK, ClientPhase, RcopyTypeOK, RcopyState, FileSent, WindowInv, Quiet,
        windowVars
<1>4. NetOK'
    BY <1>1, <1>2, SendNothingKeeps DEF Inv, ClientOK, RcopyTypeOK
<1> QED
    BY <1>1, <1>2, <1>3, <1>4 DEF Inv, ClientOK

-----------------------------------------------------------------------------

(* n numbers picked in order are at least 1 .. n, and, from above, leave   *)
(* room for those that follow.                                             *)
LEMMA IncreasingBounds ==
    ASSUME NEW n \in Nat, NEW m \in Nat, NEW f \in Increasing(n, m)
    PROVE  \A k \in 1 .. n : k <= f[k] /\ f[k] <= m - (n - k)
<1>1. \A k \in 1 .. n : f[k] \in 1 .. m
    BY DEF Increasing
<1>2. \A k \in 1 .. n : k > 1 => f[k - 1] < f[k]
    BY DEF Increasing
<1> DEFINE Low == {k \in 1 .. n : f[k] < k}
           High == {j \in 0 .. n - 1 : f[n - j] > m - j}
<1>3. Low = {}
    <2> SUFFICES ASSUME Low # {} PROVE FALSE
        OBVIOUS
    <2>1. PICK k \in Low : \A j \in Low : k <= j
        <3> Low \subseteq Nat
            OBVIOUS
        <3> HIDE DEF Low
        <3> QED
            BY SmallestNat
    <2>2. k > 1 /\ f[k - 1] \in Nat /\ f[k] \in Nat
        BY <1>1, <2>1
    <2>3. ~ f[k - 1] < k - 1
        <3>1. k - 1 \notin Low
            BY <2>1, <2>2
        <3> QED
            BY <2>1, <2>2, <3>1
    <2> QED
        BY <1>2, <2>1, <2>2, <2>3
<1>4. High = {}
    <2> SUFFICES ASSUME High # {} PROVE FALSE
        OBVIOUS
    <2>1. PICK k \in High : \A j \in High : k <= j
        <3> High \subseteq Nat
            OBVIOUS
        <3> HIDE DEF High
        <3> QED
            BY SmallestNat
    <2>2. k > 0 /\ n - k \in 1 .. n /\ f[n - k] \in Nat
        BY <1>1, <2>1
    <2>3. n - (k - 1) \in 1 .. n /\ f[n - (k - 1)] \in Nat
        BY <1>1, <2>1, <2>2
    <2>4. ~ f[n - (k - 1)] > m - (k - 1)
        <3>1. k - 1 \notin High
            BY <2>1, <2>2
        <3> QED
            BY <2>1, <2>2, <3>1
    <2>5. f[n - k] < f[n - (k - 1)]
        <3>1. (n - (k - 1)) - 1 = n - k /\ n - (k - 1) > 1
            BY <2>1, <2>2
        <3> QED
            BY <1>2, <2>3, <3>1
    <2> QED
        BY <2>1, <2>2, <2>3, <2>4, <2>5
<1>5. ASSUME NEW k \in 1 .. n PROVE k <= f[k] /\ f[k] <= m - (n - k)
    <2>1. k \notin Low /\ f[k] \in Nat
        BY <1>1, <1>3
    <2>2. PICK j \in 0 .. n - 1 : j = n - k /\ n - j = k
        OBVIOUS
    <2>3. ~ f[n - j] > m - j
        BY <1>4
    <2> QED
        BY <2>1, <2>2, <2>3
<1> QED
    BY <1>5

(* There are never more blocks than the file has, and if there are as many *)
(* they are the file from its start.                                       *)
LEMMA InOrderFacts ==
    ASSUME NEW blocks \in Seq(Data), NEW n \in Nat, InOrder(blocks, n)
    PROVE  /\ Len(blocks) <= n
           /\ Len(blocks) = n => \A i \in 1 .. n : blocks[i] = File[i]
<1>1. PICK f \in Increasing(Len(blocks), n) :
        \A k \in 1 .. Len(blocks) : blocks[k] = File[f[k]]
    BY DEF InOrder
<1>2. Len(blocks) \in Nat
    OBVIOUS
<1>3. \A k \in 1 .. Len(blocks) : f[k] \in 1 .. n /\ k <= f[k] /\ f[k] <= n - (Len(blocks) - k)
    BY <1>2, IncreasingBounds DEF Increasing
<1>4. Len(blocks) <= n
    BY <1>2, <1>3
<1>5. Len(blocks) = n => \A i \in 1 .. n : f[i] = i
    BY <1>2, <1>3
<1> QED
    BY <1>1, <1>4, <1>5

(* What reaches the file of blocks that continue it is in order. *)
LEMMA StoredKeepsOrder ==
    ASSUME NEW old \in Seq(Data), NEW e \in Nat, InOrder(old, e),
           NEW out \in Seq(Blocks), NEW next \in Nat, e <= next, next <= Len(File),
           Continues(out, File, e, next),
           NEW blocks \in Stored(out)
    PROVE  /\ blocks \in Seq(Data) /\ Len(blocks) <= next - e
           /\ InOrder(old \o blocks, next)
           /\ ~ ServerFaults => Len(blocks) = next - e
<1>1. Len(out) = next - e /\ \A k \in 1 .. next - e : out[k] = File[e + k]
    BY DEF Continues
<1>2. PICK n \in 0 .. Len(out) : \E g \in Increasing(n, Len(out)) :
        blocks = [k \in 1 .. n |-> out[g[k]]]
    <2>1. CASE ServerFaults
        BY <2>1 DEF Stored
    <2>2. CASE ~ ServerFaults
        <3> DEFINE id == [k \in 1 .. Len(out) |-> k]
        <3>1. id \in Increasing(Len(out), Len(out)) /\ Len(out) \in 0 .. Len(out)
            <4>1. Len(out) \in Nat /\ id \in [1 .. Len(out) -> 1 .. Len(out)]
                BY <1>1
            <4>2. \A j, k \in 1 .. Len(out) : j < k => id[j] < id[k]
                BY <4>1
            <4> HIDE DEF id
            <4> QED
                BY <4>1, <4>2 DEF Increasing
        <3>2. out = [k \in 1 .. Len(out) |-> out[id[k]]]
            OBVIOUS
        <3>3. blocks = out
            BY <2>2 DEF Stored
        <3> QED
            BY <3>1, <3>2, <3>3
    <2> QED
        BY <2>1, <2>2
<1> PICK g \in Increasing(n, Len(out)) : blocks = [k \in 1 .. n |-> out[g[k]]]
    BY <1>2
<1>3. n \in Nat /\ n <= next - e /\ \A k \in 1 .. n : g[k] \in 1 .. next - e
    <2>1. \A k \in 1 .. n : g[k] \in 1 .. Len(out)
        BY DEF Increasing
    <2>2. n \in Nat /\ n <= Len(out)
        BY <1>1
    <2> QED
        BY <1>1, <2>1, <2>2
<1>4. \A k \in 1 .. n : blocks[k] = File[e + g[k]] /\ blocks[k] \in Data
    <2> SUFFICES ASSUME NEW k \in 1 .. n
                 PROVE  blocks[k] = File[e + g[k]] /\ blocks[k] \in Data
        OBVIOUS
    <2>1. PICK j \in 1 .. next - e : j = g[k]
        BY <1>3
    <2>2. blocks[k] = out[j]
        BY <2>1
    <2>3. out[j] = File[e + j]
        BY <1>1, <2>1
    <2>4. e + j \in 1 .. Len(File)
        BY <2>1, ConstantFacts, SMTT(30)
    <2> QED
        BY <2>1, <2>2, <2>3, <2>4, ConstantFacts
<1>5. blocks \in Seq(Data) /\ Len(blocks) = n
    BY <1>2, <1>3, <1>4
<1>6. InOrder(old \o blocks, next)
    <2>1. PICK f \in Increasing(Len(old), e) : \A k \in 1 .. Len(old) : old[k] = File[f[k]]
        BY DEF InOrder
    <2> DEFINE l == Len(old)
               h == [k \in 1 .. l + n |-> IF k <= l THEN f[k] ELSE e + g[k - l]]
    <2>2. l \in Nat /\ Len(old \o blocks) = l + n
        BY <1>5
    <2>3. \A k \in 1 .. l : f[k] \in 1 .. e
        BY DEF Increasing
    <2>4. \A k \in 1 .. l + n : h[k] \in 1 .. next
        BY <1>3, <2>2, <2>3
    <2>5. ASSUME NEW j \in 1 .. l + n, NEW k \in 1 .. l + n, j < k
          PROVE  h[j] < h[k]
        <3>1. CASE k <= l
            BY <2>2, <2>5, <3>1 DEF Increasing
        <3>2. CASE j <= l /\ k > l
            <4>1. f[j] \in 1 .. e /\ g[k - l] \in 1 .. next - e
                BY <1>3, <2>2, <2>3, <3>2
            <4> QED
                BY <2>2, <3>2, <4>1, SMTT(30)
        <3>3. CASE j > l
            <4>1. j - l \in 1 .. n /\ k - l \in 1 .. n /\ j - l < k - l
                BY <1>3, <2>2, <2>5, <3>3
            <4>2. g[j - l] < g[k - l] /\ g[j - l] \in Nat /\ g[k - l] \in Nat
                BY <1>3, <4>1 DEF Increasing
            <4> QED
                BY <2>2, <2>5, <3>3, <4>2, SMTT(30)
        <3> QED
            BY <2>2, <3>1, <3>2, <3>3
    <2>6. h \in Increasing(l + n, next)
        BY <2>4, <2>5 DEF Increasing
    <2>7. ASSUME NEW k \in 1 .. l + n PROVE (old \o blocks)[k] = File[h[k]]
        <3>1. CASE k <= l
            BY <1>5, <2>1, <2>2, <3>1
        <3>2. CASE k > l
            <4>1. k - l \in 1 .. n
                BY <1>3, <2>2, <3>2
            <4> QED
                BY <1>4, <1>5, <2>2, <3>2, <4>1
        <3> QED
            BY <2>2, <3>1, <3>2
    <2> HIDE DEF h
    <2> QED
        BY <2>2, <2>6, <2>7, SMTT(30) DEF InOrder
<1>7. ~ ServerFaults => n = next - e
    BY <1>1, <1>5 DEF Stored
<1> QED
    BY <1>3, <1>5, <1>6, <1>7

(* What a write leaves in the file. *)
LEMMA WrittenAfterFacts ==
    ASSUME NEW n \in Nat, NEW blocks \in Seq(Data), output \in Seq(Data \cup {Hole}),
           Len(output) <= n
    PROVE  LET after == WrittenAfter(n, blocks)
           IN  /\ after \in Seq(Data \cup {Hole})
               /\ Len(after) = n + Len(blocks)
               /\ \A i \in 1 .. Len(after) :
                    IF i > n THEN after[i] = blocks[i - n]
                    ELSE after[i] = Hole \/ (i <= Len(output) /\ after[i] = output[i])
<1> DEFINE end == n + Len(blocks)
           after == WrittenAfter(n, blocks)
<1>1. end \in Nat /\ end >= n /\ Len(output) \in Nat
    OBVIOUS
<1>2. after = [i \in 1 .. end |-> IF n < i /\ i <= end THEN blocks[i - n]
                                  ELSE IF i <= Len(output) THEN output[i]
                                  ELSE Hole]
    BY <1>1 DEF WrittenAfter
<1>3. \A i \in 1 .. end : after[i] \in Data \cup {Hole}
    <2> SUFFICES ASSUME NEW i \in 1 .. end PROVE after[i] \in Data \cup {Hole}
        OBVIOUS
    <2>1. n < i => blocks[i - n] \in Data
        OBVIOUS
    <2>2. i <= Len(output) => output[i] \in Data \cup {Hole}
        BY <1>1
    <2> QED
        BY <1>2, <2>1, <2>2
<1>4. after \in Seq(Data \cup {Hole}) /\ Len(after) = end
    <2> HIDE DEF end
    <2>1. DOMAIN after = 1 .. end /\ after = [i \in 1 .. end |-> after[i]]
        BY <1>2
    <2> HIDE DEF after
    <2> QED
        BY <1>1, <1>3, <2>1, SMTT(30)
<1> QED
    BY <1>1, <1>2, <1>4

-----------------------------------------------------------------------------

(* The steps of the server leave rcopy alone. *)
LEMMA ClientKept ==
    ASSUME Inv, UNCHANGED rcopyVars,
           \A c \in Children : /\ context'[c].expected \in Nat
                               /\ context[c].expected <= context'[c].expected
    PROVE  ClientOK' /\ Forward
<1>1. ClientOK'
    BY DEF Inv, ClientOK, RcopyTypeOK, ClientPhase, FileSent, WindowInv, WindowTypeOK,
           rcopyVars, windowVars
<1>2. Forward
    BY FileIsSent, ExpectedFacts DEF Inv, Forward, rcopyVars, windowVars
<1> QED
    BY <1>1, <1>2

(* Steps that receive no block; one of them empties the output file. *)
LEMMA ControlKeeps ==
    ASSUME Inv, UNCHANGED <<rcopyVars, context, written>>,
           cstate' \in [Children -> ChildState], ackTries' \in [Children -> 0 .. MaxTries],
           \A c \in Children :
               /\ cstate'[c] = "eofwait" => EOFReached /\ lower = current
               /\ cstate'[c] # "closed" => ackTries'[c] < MaxTries,
           output' = output \/ output' = <<>>
    PROVE  ClientOK' /\ ServerOK' /\ Forward
<1>1. ClientOK' /\ Forward
    BY ExpectedFacts, ClientKept DEF Inv
<1>2. ServerTypeOK'
    <2>1. output \in Seq(Data \cup {Hole}) /\ <<>> \in Seq(Data \cup {Hole})
        BY DEF Inv, ServerOK, ServerTypeOK
    <2>2. output' \in Seq(Data \cup {Hole})
        BY <2>1
    <2>3. context' \in [Children -> BufferContext(Data \cup {NoData})]
          /\ written' \in [Children -> Seq(Data)]
        BY DEF Inv, ServerOK, ServerTypeOK
    <2> QED
        BY <2>2, <2>3 DEF ServerTypeOK
<1>3. \A c \in Children : ChildInv(c)' /\ DiskInv(c)'
    BY DEF Inv, ServerOK, ChildInv, DiskInv, rcopyVars, windowVars
<1>4. OutputInv'
    <2>1. UNCHANGED <<peer, context, written>>
        BY DEF rcopyVars
    <2>2. CASE output' = output
        BY <2>1, <2>2 DEF Inv, ServerOK, OutputInv
    <2>3. CASE output' = <<>>
        <3>1. peer \in Children => Len(written[peer]) \in Nat
            BY ExpectedFacts DEF Inv
        <3> QED
            BY <2>1, <2>3, <3>1 DEF OutputInv
    <2> QED
        BY <2>2, <2>3
<1> QED
    BY <1>1, <1>2, <1>3, <1>4 DEF ServerOK

(* What a child sends: a reply, and never a number it has not reached. *)
LEMMA ReplyKeeps ==
    ASSUME Inv, Forward, UNCHANGED inbox, NEW STATE rest, rest \subseteq net,
           NEW c \in Children, NEW flag \in Flag \ {"DATA", "EOF"}, NEW num \in SeqNum,
           flag = "RR" => num <= context'[c].expected,
           SendToErr(rest, Reply(c, flag, num))
    PROVE  /\ NetOK'
           /\ \A n \in net' \ net : n.src = c /\ n.flag \in {flag, "CORRUPT"}
<1>1. PICK m : m = Reply(c, flag, num) /\ SendToErr(rest, m)
    OBVIOUS
<1>2. m \in Message /\ m.src = c /\ m.dst = Client /\ m.flag = flag /\ m.num = num
    BY <1>1, ControlFields, ConstantFacts DEF Reply
<1>3. MessageInv(m)'
    BY <1>2 DEF MessageInv
<1>4. NetOK' /\ net' \subseteq net \cup {m, Corrupted(m)}
    BY <1>1, <1>2, <1>3, SendToErrKeeps DEF Inv, ClientOK, RcopyTypeOK
<1>5. Corrupted(m).src = c /\ Corrupted(m).flag = "CORRUPT"
    BY <1>2, ControlFields DEF Corrupted
<1> QED
    BY <1>2, <1>4, <1>5

(* What is received and perhaps stays in flight. *)
LEMMA RestFacts ==
    ASSUME NEW m, NEW rest \in Rest(m)
    PROVE  rest \subseteq net
BY DEF Rest

(* No step but that of a DATA PDU touches a context or sends an SREJ. *)
NoNewSREJ == \A m \in net' \ net : m.src \in Children => m.flag # "SREJ"

(* A PDU for main, which may fork a child.                                 *)
LEMMA MainKeeps ==
    ASSUME Inv, MainStep
    PROVE  Inv' /\ NoNewSREJ
<1>1. PICK m \in net, rest \in SUBSET net : /\ rest \in Rest(m) /\ SendNothing(rest)
                             /\ \/ \E c \in Children :
                                     /\ cstate[c] = "idle"
                                     /\ cstate' = [cstate EXCEPT ![c] = "starting"]
                                \/ UNCHANGED cstate
    BY RestFacts DEF MainStep, MainRecv
<1>2. UNCHANGED <<rcopyVars, killed, context, written, ackTries, output>>
    BY RestFacts DEF MainStep, MainRecv
<1>3. ClientOK' /\ ServerOK' /\ Forward
    <2>1. cstate' \in [Children -> ChildState] /\ ackTries' \in [Children -> 0 .. MaxTries]
        BY <1>1, <1>2 DEF Inv, ServerOK, ServerTypeOK, ChildState
    <2>2. ASSUME NEW c \in Children
          PROVE  /\ cstate'[c] = "eofwait" => EOFReached /\ lower = current
                 /\ cstate'[c] # "closed" => ackTries'[c] < MaxTries
        BY <1>1, <1>2 DEF Inv, ServerOK, ServerTypeOK, ChildInv
    <2> QED
        BY <1>2, <2>1, <2>2, ControlKeeps
<1>4. NetOK' /\ net' \subseteq net
    BY <1>1, <1>2, <1>3, RestFacts, SendNothingKeeps
    DEF Inv, ClientOK, RcopyTypeOK, rcopyVars
<1> QED
    BY <1>2, <1>3, <1>4 DEF Inv, NoNewSREJ

(* A child opens and empties the file and answers, or fails and ends. *)
LEMMA ChildStartKeeps ==
    ASSUME Inv, UNCHANGED <<rcopyVars, killed>>, NEW c \in Children, ChildStart(c)
    PROVE  Inv' /\ NoNewSREJ
<1>1. PICK s \in {"receiving", "closed"}, num \in {0, 1} :
         /\ cstate' = [cstate EXCEPT ![c] = s]
         /\ SendToErr(net, Reply(c, "FILENAME_RESPONSE", num))
    BY DEF ChildStart
<1>2. /\ cstate[c] = "starting" /\ UNCHANGED <<context, written, ackTries>>
      /\ output' = output \/ output' = <<>>
    BY DEF ChildStart
<1>3. ClientOK' /\ ServerOK' /\ Forward
    <2>1. cstate' \in [Children -> ChildState] /\ ackTries' \in [Children -> 0 .. MaxTries]
        BY <1>1, <1>2 DEF Inv, ServerOK, ServerTypeOK, ChildState
    <2>2. ASSUME NEW d \in Children
          PROVE  /\ cstate'[d] = "eofwait" => EOFReached /\ lower = current
                 /\ cstate'[d] # "closed" => ackTries'[d] < MaxTries
        BY <1>1, <1>2 DEF Inv, ServerOK, ServerTypeOK, ChildInv
    <2> QED
        BY <1>2, <2>1, <2>2, ControlKeeps
<1>4. NetOK' /\ NoNewSREJ
    <2>1. "FILENAME_RESPONSE" \in Flag \ {"DATA", "EOF"} /\ num \in SeqNum
        BY ConstantFacts DEF Flag
    <2>2. inbox' = inbox
        BY DEF rcopyVars
    <2>3. NetOK' /\ \A n \in net' \ net : n.flag \in {"FILENAME_RESPONSE", "CORRUPT"}
        BY <1>1, <1>3, <2>1, <2>2, ReplyKeeps
    <2> QED
        BY <2>3 DEF NoNewSREJ
<1> QED
    BY <1>3, <1>4 DEF Inv

(* A child ends without sending anything. *)
LEMMA ChildEndKeeps ==
    ASSUME Inv, UNCHANGED rcopyVars, killed' \in SUBSET ({Client} \cup Children),
           UNCHANGED <<context, written, ackTries, output>>,
           NEW c \in Children, cstate' = [cstate EXCEPT ![c] = "closed"],
           NEW STATE rest, rest \subseteq net, SendNothing(rest)
    PROVE  Inv' /\ NoNewSREJ
<1>1. ClientOK' /\ ServerOK' /\ Forward
    <2>1. cstate' \in [Children -> ChildState] /\ ackTries' \in [Children -> 0 .. MaxTries]
        BY DEF Inv, ServerOK, ServerTypeOK, ChildState
    <2>2. ASSUME NEW d \in Children
          PROVE  /\ cstate'[d] = "eofwait" => EOFReached /\ lower = current
                 /\ cstate'[d] # "closed" => ackTries'[d] < MaxTries
        BY DEF Inv, ServerOK, ServerTypeOK, ChildInv
    <2> QED
        BY <2>1, <2>2, ControlKeeps
<1>2. NetOK' /\ net' \subseteq net
    <2>1. inbox' = inbox
        BY DEF rcopyVars
    <2> QED
        BY <1>1, <2>1, SendNothingKeeps DEF Inv, ClientOK, RcopyTypeOK
<1> QED
    BY <1>1, <1>2 DEF Inv, NoNewSREJ

(* EOF_ACK once more, and the end of the child after the last try. *)
LEMMA EofAckAgainKeeps ==
    ASSUME Inv, UNCHANGED <<rcopyVars, killed, context, written, output>>,
           NEW c \in Children, cstate[c] = "eofwait",
           NEW STATE rest, rest \subseteq net, EofAckAgain(c, rest)
    PROVE  Inv' /\ NoNewSREJ
<1>1. /\ ackTries' = [ackTries EXCEPT ![c] = @ + 1]
      /\ cstate' = IF ackTries'[c] < MaxTries THEN cstate
                   ELSE [cstate EXCEPT ![c] = "closed"]
      /\ SendToErr(rest, Reply(c, "EOF_ACK", 0))
    BY DEF EofAckAgain
<1>2. ClientOK' /\ ServerOK' /\ Forward
    <2>1. ackTries[c] \in 0 .. MaxTries /\ ackTries[c] < MaxTries
        BY DEF Inv, ServerOK, ServerTypeOK, ChildInv
    <2>2. /\ ackTries' \in [Children -> 0 .. MaxTries]
          /\ \A d \in Children : ackTries'[d] = IF d = c THEN ackTries[c] + 1 ELSE ackTries[d]
        BY <1>1, <2>1, ConstantFacts DEF Inv, ServerOK, ServerTypeOK
    <2>3. /\ cstate' \in [Children -> ChildState]
          /\ \A d \in Children : cstate'[d] = IF d = c /\ ~ ackTries'[c] < MaxTries
                                              THEN "closed" ELSE cstate[d]
        BY <1>1 DEF Inv, ServerOK, ServerTypeOK, ChildState
    <2>4. ASSUME NEW d \in Children
          PROVE  /\ cstate'[d] = "eofwait" => EOFReached /\ lower = current
                 /\ cstate'[d] # "closed" => ackTries'[d] < MaxTries
        BY <2>2, <2>3 DEF Inv, ServerOK, ServerTypeOK, ChildInv
    <2> QED
        BY <2>2, <2>3, <2>4, ControlKeeps
<1>3. NetOK' /\ NoNewSREJ
    <2>1. "EOF_ACK" \in Flag \ {"DATA", "EOF"} /\ 0 \in SeqNum
        BY ConstantFacts DEF Flag
    <2>2. inbox' = inbox
        BY DEF rcopyVars
    <2>3. NetOK' /\ \A n \in net' \ net : n.flag \in {"EOF_ACK", "CORRUPT"}
        BY <1>1, <1>2, <2>1, <2>2, ReplyKeeps
    <2> QED
        BY <2>3 DEF NoNewSREJ
<1> QED
    BY <1>2, <1>3 DEF Inv

(* An EOF is taken at its word: rcopy knew of every block when it sent it. *)
LEMMA ChildEofKeeps ==
    ASSUME Inv, UNCHANGED <<rcopyVars, killed>>,
           NEW c \in Children, cstate[c] = "receiving", NEW m \in net,
           NEW STATE rest, rest \subseteq net, ChildEof(c, rest, m)
    PROVE  Inv' /\ NoNewSREJ
<1>1. /\ cstate' = [cstate EXCEPT ![c] = "eofwait"]
      /\ SendToErr(rest, Reply(c, "EOF_ACK", 0))
      /\ UNCHANGED <<context, written, ackTries, output>>
    BY DEF ChildEof
<1>2. EOFReached /\ lower = current
    BY DEF ChildEof, Inv, NetOK, NetInv, MessageInv
<1>3. ClientOK' /\ ServerOK' /\ Forward
    <2>1. cstate' \in [Children -> ChildState] /\ ackTries' \in [Children -> 0 .. MaxTries]
        BY <1>1 DEF Inv, ServerOK, ServerTypeOK, ChildState
    <2>2. ASSUME NEW d \in Children
          PROVE  /\ cstate'[d] = "eofwait" => EOFReached /\ lower = current
                 /\ cstate'[d] # "closed" => ackTries'[d] < MaxTries
        BY <1>1, <1>2 DEF Inv, ServerOK, ServerTypeOK, ChildInv
    <2> QED
        BY <1>1, <2>1, <2>2, ControlKeeps
<1>4. NetOK' /\ NoNewSREJ
    <2>1. "EOF_ACK" \in Flag \ {"DATA", "EOF"} /\ 0 \in SeqNum
        BY ConstantFacts DEF Flag
    <2>2. inbox' = inbox
        BY DEF rcopyVars
    <2>3. NetOK' /\ \A n \in net' \ net : n.flag \in {"EOF_ACK", "CORRUPT"}
        BY <1>1, <1>3, <2>1, <2>2, ReplyKeeps
    <2> QED
        BY <2>3 DEF NoNewSREJ
<1> QED
    BY <1>3, <1>4 DEF Inv

(* A PDU that means nothing to a child. *)
LEMMA ChildIgnoreKeeps ==
    ASSUME Inv, UNCHANGED <<rcopyVars, killed>>, NEW m,
           NEW STATE rest, rest \subseteq net, ChildIgnore(rest, m)
    PROVE  Inv' /\ NoNewSREJ
<1>1. UNCHANGED serverVars /\ SendNothing(rest)
    BY DEF ChildIgnore
<1>2. ClientOK' /\ ServerOK' /\ Forward
    BY <1>1, ControlKeeps DEF serverVars, Inv, ServerOK, ServerTypeOK, ChildInv
<1>3. NetOK' /\ net' \subseteq net
    <2>1. inbox' = inbox
        BY DEF rcopyVars
    <2> QED
        BY <1>1, <1>2, <2>1, SendNothingKeeps DEF Inv, ClientOK, RcopyTypeOK
<1> QED
    BY <1>2, <1>3 DEF Inv, NoNewSREJ

(* A DATA PDU reaches nobody but the peer, and is within its reach. *)
LEMMA ChildDataFacts ==
    ASSUME Inv, NEW c \in Children, NEW m \in net, m.dst = c, m.flag = "DATA"
    PROVE  LET result == BufferProcessPDU(context[c], m.num, m.data)
           IN  /\ c = peer
               /\ BufferInv(result.ctx, Blocks, File, current)
               /\ result.ctx.expected >= context[c].expected
               /\ result.out \in Seq(Blocks)
               /\ Continues(result.out, File, context[c].expected, result.ctx.expected)
               /\ result.reply \in {"RR", "SREJ", NoReply}
               /\ result.reply = "SREJ" <=> OpensGap(context[c], result.ctx)
<1>1. c = peer /\ m.num \in Nat /\ m.num < current /\ m.data = File[m.num + 1]
    BY ConstantFacts DEF Inv, NetOK, NetworkTypeOK, NetInv, MessageInv, Message, SeqNum
<1>2. BufferInv(context[c], Blocks, File, current) /\ lower <= context[c].expected
    BY <1>1 DEF Inv, ServerOK, ChildInv
<1>3. m.num < context[c].expected + WindowSize
    BY <1>1, <1>2, FileIsSent, ExpectedFacts, ConstantFacts DEF Inv
<1>4. InReach(context[c], File, current, m.num, m.data)
    BY <1>1, <1>3 DEF InReach
<1> QED
    BY <1>1, <1>2, <1>4, FileIsSent, BufferWritesInOrder DEF Inv

(* The peer receives a block, new, old or again. *)
LEMMA ChildDataKeeps ==
    ASSUME Inv, UNCHANGED <<rcopyVars, killed>>,
           NEW c \in Children, NEW m \in net, m.dst = c,
           NEW STATE rest, rest \subseteq net, ChildData(c, rest, m)
    PROVE  Inv'
<1> DEFINE e == context[c].expected
<1>1. PICK result : result = BufferProcessPDU(context[c], m.num, m.data)
    OBVIOUS
<1>2. PICK blocks \in Stored(result.out) :
         /\ written' = [written EXCEPT ![c] = @ \o blocks]
         /\ output' = IF blocks = <<>> THEN output
                      ELSE WrittenAfter(Len(written[c]), blocks)
    BY <1>1 DEF ChildData
<1>3. /\ m.flag = "DATA" /\ UNCHANGED <<cstate, ackTries>>
      /\ context' = [context EXCEPT ![c] = result.ctx]
      /\ IF result.reply = NoReply THEN SendNothing(rest)
         ELSE SendToErr(rest, Reply(c, result.reply, result.ctx.expected))
    BY <1>1 DEF ChildData
<1>4. /\ c = peer
      /\ BufferInv(result.ctx, Blocks, File, current)
      /\ result.ctx.expected >= e
      /\ result.out \in Seq(Blocks)
      /\ Continues(result.out, File, e, result.ctx.expected)
      /\ result.reply \in {"RR", "SREJ", NoReply}
    BY <1>1, <1>3, ChildDataFacts
<1> PICK next : next = result.ctx.expected
    OBVIOUS
<1>5. /\ result.ctx \in BufferContext(Blocks) /\ next \in SeqNum /\ next \in Nat
      /\ next <= current /\ next <= Len(File) /\ e \in Nat /\ e <= next
      /\ lower \in Nat
    BY <1>4, FileIsSent, ExpectedFacts DEF BufferInv, BufferContext, SeqNum, Inv
<1>6. /\ written[c] \in Seq(Data) /\ InOrder(written[c], e)
      /\ ~ ServerFaults => Len(written[c]) = e
      /\ Len(written[c]) \in Nat /\ Len(written[c]) <= e
    BY <1>5, ExpectedFacts, InOrderFacts DEF Inv, ServerOK, DiskInv
<1>7. /\ blocks \in Seq(Data) /\ Len(blocks) \in Nat /\ Len(blocks) <= next - e
      /\ InOrder(written[c] \o blocks, next)
      /\ ~ ServerFaults => Len(blocks) = next - e
    BY <1>4, <1>5, <1>6, StoredKeepsOrder, SMTT(30)
<1> PICK after : after = written[c] \o blocks
    OBVIOUS
<1>8. after \in Seq(Data) /\ Len(after) = Len(written[c]) + Len(blocks)
    BY <1>6, <1>7
<1>9. /\ context'[c] = result.ctx /\ \A d \in Children \ {c} : context'[d] = context[d]
      /\ context' \in [Children -> BufferContext(Blocks)]
      /\ written'[c] = after /\ \A d \in Children \ {c} : written'[d] = written[d]
      /\ written' \in [Children -> Seq(Data)]
    BY <1>2, <1>3, <1>5, <1>8 DEF Inv, ServerOK, ServerTypeOK, Blocks
<1>10. ClientOK' /\ Forward
    <2>1. \A d \in Children : /\ context'[d].expected \in Nat
                              /\ context[d].expected <= context'[d].expected
        BY <1>5, <1>9, ExpectedFacts DEF Inv
    <2> QED
        BY <2>1, ClientKept
<1>11. NetOK'
    <2>1. CASE result.reply = NoReply
        <3>1. inbox' \subseteq inbox /\ inbox \in SUBSET Message /\ NetOK
            BY DEF Inv, ClientOK, RcopyTypeOK, rcopyVars
        <3>2. SendNothing(rest)
            BY <1>3, <2>1
        <3> QED
            BY <1>10, <3>1, <3>2, SendNothingKeeps
    <2>2. CASE result.reply # NoReply
        <3>1. PICK flag \in Flag \ {"DATA", "EOF"} : flag = result.reply
            BY <1>4, <2>2 DEF Flag
        <3>2. SendToErr(rest, Reply(c, flag, next))
            BY <1>3, <2>2, <3>1
        <3>3. UNCHANGED inbox /\ next <= context'[c].expected
            BY <1>5, <1>9 DEF rcopyVars
        <3> QED
            BY <1>5, <1>10, <3>2, <3>3, ReplyKeeps
    <2> QED
        BY <2>1, <2>2
<1>12. output' \in Seq(Data \cup {Hole}) /\ OutputInv'
    <2>1. /\ output \in Seq(Data \cup {Hole}) /\ Len(output) \in Nat
          /\ Len(output) <= Len(written[c])
          /\ Len(written[c]) = e => \A i \in 1 .. Len(output) : output[i] \in {File[i], Hole}
        BY <1>4 DEF Inv, ServerOK, ServerTypeOK, OutputInv
    <2>2. /\ output' \in Seq(Data \cup {Hole}) /\ Len(output') <= Len(after)
          /\ Len(after) = next => \A i \in 1 .. Len(output') : output'[i] \in {File[i], Hole}
        <3>1. CASE blocks = <<>>
            <4>1. output' = output /\ Len(after) = Len(written[c])
                BY <1>2, <1>6, <1>8, <3>1
            <4>2. Len(after) = next => Len(written[c]) = e
                BY <1>5, <1>6, <4>1
            <4> QED
                BY <2>1, <4>1, <4>2
        <3>2. CASE blocks # <<>>
            <4> PICK n \in Nat : n = Len(written[c])
                BY <1>6
            <4>1. /\ output' \in Seq(Data \cup {Hole}) /\ Len(output') = n + Len(blocks)
                  /\ \A i \in 1 .. Len(output') :
                       IF i > n THEN output'[i] = blocks[i - n]
                       ELSE \/ output'[i] = Hole
                            \/ i <= Len(output) /\ output'[i] = output[i]
                BY <1>2, <1>7, <2>1, <3>2, WrittenAfterFacts
            <4>2. ASSUME Len(after) = next, NEW i \in 1 .. Len(output')
                  PROVE  output'[i] \in {File[i], Hole}
                <5>1. n = e /\ Len(after) = n + Len(blocks) /\ i \in 1 .. next /\ i \in Nat
                    BY <1>5, <1>6, <1>7, <1>8, <4>1, <4>2
                <5>2. after[i] = File[i]
                    BY <1>5, <1>7, <1>8, <4>2, <5>1, InOrderFacts
                <5>3. i > n => after[i] = blocks[i - n]
                    <6> SUFFICES ASSUME i > n PROVE after[i] = blocks[i - n]
                        OBVIOUS
                    <6>1. i \in Len(written[c]) + 1 .. Len(written[c]) + Len(blocks)
                        BY <1>7, <1>8, <4>2, <5>1
                    <6> QED
                        BY <1>6, <1>7, <6>1
                <5>4. i <= Len(output) => output[i] \in {File[i], Hole}
                    BY <2>1, <5>1
                <5> QED
                    BY <4>1, <4>2, <5>1, <5>2, <5>3, <5>4
            <4> QED
                BY <1>8, <4>1, <4>2
        <3> QED
            BY <3>1, <3>2
    <2>3. peer' = c /\ c # Main /\ written'[c] = after /\ context'[c].expected = next
        BY <1>4, <1>9, ConstantFacts DEF rcopyVars
    <2> QED
        BY <2>2, <2>3 DEF OutputInv
<1>13. ServerOK'
    <2>1. ServerTypeOK'
        BY <1>3, <1>9, <1>12 DEF Inv, ServerOK, ServerTypeOK, Blocks
    <2>2. ASSUME NEW d \in Children PROVE ChildInv(d)' /\ DiskInv(d)'
        <3>1. /\ peer' = peer /\ lower' = lower /\ current' = current
              /\ EOFReached' = EOFReached
            BY DEF rcopyVars, windowVars
        <3>2. CASE d = c
            <4>1. (BufferInv(context[c], Blocks, File, current))'
                BY <1>4, <1>9, <3>1
            <4>2. context'[c].expected = next /\ lower <= next
                BY <1>4, <1>5, <1>9 DEF Inv, ServerOK, ChildInv
            <4>3. InOrder(written'[c], next)
                BY <1>7, <1>9
            <4>4. ~ ServerFaults => Len(written'[c]) = next
                <5> SUFFICES ASSUME ~ ServerFaults PROVE Len(written'[c]) = next
                    OBVIOUS
                <5>1. Len(written[c]) = e /\ Len(blocks) = next - e
                    BY <1>6, <1>7
                <5> QED
                    BY <1>5, <1>8, <1>9, <5>1
            <4>5. ChildInv(c)'
                BY <1>3, <1>4, <3>1, <4>1, <4>2 DEF Inv, ServerOK, ChildInv
            <4> QED
                BY <3>2, <4>2, <4>3, <4>4, <4>5 DEF DiskInv
        <3>3. CASE d # c
            BY <1>3, <1>4, <1>9, <3>1, <3>3 DEF Inv, ServerOK, ChildInv, DiskInv
        <3> QED
            BY <3>2, <3>3
    <2> QED
        BY <1>12, <2>1, <2>2 DEF ServerOK
<1> QED
    BY <1>10, <1>11, <1>13 DEF Inv

-----------------------------------------------------------------------------

(* The invariant holds initially.                                          *)
LEMMA InitInv == Init => Inv
<1> SUFFICES ASSUME Init PROVE Inv
    OBVIOUS
<1> USE DEF Init, RcopyInit, ServerInit, NetworkInit
<1>1. SentOf(Blocks, File, 0) /\ NoData \in Blocks
    BY ConstantFacts DEF SentOf, Blocks
<1>2. /\ BufferInv(BufferInit(NoData), Blocks, File, 0)
      /\ BufferInit(NoData) \in BufferContext(Blocks)
      /\ BufferInit(NoData).expected = 0
    BY <1>1, BufferInitInv DEF BufferInit, BufferInv
<1>3. WindowInv(StoredPDU, Log)
    <2>1. [num |-> 0, data |-> NoData] \in StoredPDU
        BY ConstantFacts DEF StoredPDU
    <2> QED
        BY <2>1, WindowSetUpInv
<1>4. ClientOK
    <2>1. current = 0 /\ lower = 0
        BY DEF WindowSetUp
    <2>2. FileSent
        BY <1>3, <2>1 DEF FileSent
    <2>3. RcopyTypeOK
        <3>1. WindowTypeOK(StoredPDU)
            BY <1>3 DEF WindowInv
        <3>2. 0 \in 0 .. Len(File) /\ 0 \in 0 .. MaxTries /\ {} \in SUBSET Message
            BY ConstantFacts
        <3> QED
            BY <3>1, <3>2, ConstantFacts DEF RcopyTypeOK, RcopyState
    <2>4. ClientPhase
        BY <2>1, ConstantFacts DEF ClientPhase
    <2> QED
        BY <2>2, <2>3, <2>4 DEF ClientOK
<1>5. ServerOK
    <2>1. InOrder(<<>>, 0)
        <3>1. [k \in 1 .. 0 |-> 0] \in Increasing(0, 0)
            BY DEF Increasing
        <3> QED
            BY <3>1 DEF InOrder
    <2>2. ServerTypeOK
        BY <1>2, ConstantFacts DEF ServerTypeOK, ChildState, Blocks
    <2>3. ASSUME NEW c \in Children PROVE ChildInv(c) /\ DiskInv(c)
        <3>1. context[c] = BufferInit(NoData) /\ written[c] = <<>> /\ ackTries[c] = 0
              /\ cstate[c] = "idle" /\ c # peer
            BY ConstantFacts
        <3> QED
            BY <1>2, <2>1, <3>1, ConstantFacts DEF ChildInv, DiskInv
    <2>4. OutputInv
        BY ConstantFacts DEF OutputInv
    <2> QED
        BY <2>2, <2>3, <2>4 DEF ServerOK
<1>6. NetOK
    BY ConstantFacts DEF NetOK, NetworkTypeOK, NetInv
<1> QED
    BY <1>4, <1>5, <1>6 DEF Inv

(* Every step of rcopy, of the network and of rcopy's end. *)
LEMMA RcopyKeeps ==
    ASSUME Inv, ClientStep \/ ClientTimeout \/ Delivery \/ KillRcopy
    PROVE  Inv'
<1>1. CASE ClientStep
    <2> USE DEF ClientStep
    <2>1. CASE SendFilenameState \/ SendEofState
        BY <1>1, <2>1, AnnouncementsKeep
    <2>2. CASE WaitFilenameAckRecv
        BY <1>1, <2>2, AcceptKeeps
    <2>3. CASE SendDataState
        BY <1>1, <2>3, MovesKeep, ReadEOFKeeps, SendBlockKeeps DEF SendDataState
    <2>4. CASE ProcessAcksRecv
        BY <1>1, <2>4, AcksKeep
    <2>5. CASE ProcessAcksDone \/ WindowClosedReady
        BY <1>1, <2>5, MovesKeep
    <2>6. CASE WaitEofAckRecv
        BY <1>1, <2>6, EofAnswerKeeps
    <2> QED
        BY <1>1, <2>1, <2>2, <2>3, <2>4, <2>5, <2>6 DEF RcopyStep
<1>2. CASE ClientTimeout
    BY <1>2, TriesKeep, ClosedTimeoutKeeps DEF ClientTimeout, RcopyTimeout
<1>3. CASE Delivery
    BY <1>3, DeliverKeeps DEF Delivery
<1>4. CASE KillRcopy
    BY <1>4, KillRcopyKeeps
<1> QED
    BY <1>1, <1>2, <1>3, <1>4

(* A child receives a DATA PDU. *)
DataStep(c) ==
    /\ UNCHANGED <<rcopyVars, killed>>
    /\ cstate[c] = "receiving"
    /\ \E m \in net : m.dst = c /\ \E rest \in Rest(m) : ChildData(c, rest, m)

(* Every other step of a child. *)
LEMMA ChildKeeps ==
    ASSUME Inv, NEW c \in Children,
           ServerChildStep(c) \/ ServerChildTimeout(c) \/ KillChild(c)
    PROVE  Inv' /\ (DataStep(c) \/ (NoNewSREJ /\ UNCHANGED context))
<1>1. CASE ServerChildStep(c)
    <2>1. UNCHANGED <<rcopyVars, killed>>
        BY <1>1 DEF ServerChildStep
    <2>2. CASE ChildStart(c)
        BY <2>1, <2>2, ChildStartKeeps DEF ChildStart
    <2>3. CASE ChildRecv(c)
        <3>1. PICK m \in net, rest \in SUBSET net : /\ m.dst = c /\ rest \in Rest(m)
                                     /\ \/ ChildData(c, rest, m)
                                        \/ ChildEof(c, rest, m)
                                        \/ ChildIgnore(rest, m)
            BY <2>3, RestFacts DEF ChildRecv
        <3>2. rest \subseteq net /\ cstate[c] = "receiving"
            BY <2>3, <3>1, RestFacts DEF ChildRecv
        <3>3. CASE ChildData(c, rest, m)
            BY <2>1, <3>1, <3>2, <3>3, ChildDataKeeps DEF DataStep
        <3>4. CASE ChildEof(c, rest, m)
            BY <2>1, <3>2, <3>4, ChildEofKeeps DEF ChildEof
        <3>5. CASE ChildIgnore(rest, m)
            BY <2>1, <3>2, <3>5, ChildIgnoreKeeps DEF ChildIgnore, serverVars
        <3> QED
            BY <3>1, <3>3, <3>4, <3>5
    <2>4. CASE EofWaitRecv(c)
        <3>1. PICK m \in net, rest \in SUBSET net :
                /\ rest \in Rest(m)
                /\ \/ /\ cstate' = [cstate EXCEPT ![c] = "closed"]
                      /\ SendNothing(rest) /\ UNCHANGED ackTries
                   \/ EofAckAgain(c, rest)
            BY <2>4, RestFacts DEF EofWaitRecv
        <3>2. /\ rest \subseteq net /\ cstate[c] = "eofwait"
              /\ UNCHANGED <<context, written, output>>
            BY <2>4, <3>1, RestFacts DEF EofWaitRecv
        <3>3. killed' \in SUBSET ({Client} \cup Children)
            BY <2>1 DEF Inv
        <3> QED
            BY <2>1, <3>1, <3>2, <3>3, ChildEndKeeps, EofAckAgainKeeps
    <2> QED
        BY <1>1, <2>2, <2>3, <2>4 DEF ServerChildStep, ChildStep
<1>2. CASE ServerChildTimeout(c)
    <2>1. UNCHANGED <<rcopyVars, killed>> /\ killed' \in SUBSET ({Client} \cup Children)
        BY <1>2 DEF ServerChildTimeout, Inv
    <2>2. CASE ChildTimeout(c)
        BY <2>1, <2>2, ChildEndKeeps DEF ChildTimeout
    <2>3. CASE EofWaitTimeout(c)
        BY <2>1, <2>3, EofAckAgainKeeps DEF EofWaitTimeout
    <2> QED
        BY <1>2, <2>2, <2>3 DEF ServerChildTimeout
<1>3. CASE KillChild(c)
    <2>1. /\ cstate' = [cstate EXCEPT ![c] = "closed"]
          /\ killed' \in SUBSET ({Client} \cup Children)
          /\ UNCHANGED <<context, written, ackTries, output, rcopyVars>> /\ SendNothing(net)
        BY <1>3 DEF KillChild, networkVars, SendNothing, Inv
    <2> QED
        BY <2>1, ChildEndKeeps
<1> QED
    BY <1>1, <1>2, <1>3

(* Every step keeps the invariant.                                         *)
LEMMA NextInv == Inv /\ [Next]_vars => Inv'
<1> SUFFICES ASSUME Inv, [Next]_vars PROVE Inv'
    OBVIOUS
<1>1. CASE ClientStep \/ ClientTimeout \/ Delivery \/ KillRcopy
    BY <1>1, RcopyKeeps
<1>2. CASE MainStep
    BY <1>2, MainKeeps
<1>3. ASSUME NEW c \in Children, ServerChildStep(c) \/ ServerChildTimeout(c) \/ KillChild(c)
      PROVE  Inv'
    BY <1>3, ChildKeeps
<1>4. CASE UNCHANGED vars
    BY <1>4 DEF vars, rcopyVars, windowVars, serverVars, networkVars, Inv, ClientOK,
        RcopyTypeOK, ClientPhase, FileSent, WindowInv, WindowTypeOK, ServerOK,
        ServerTypeOK, ChildInv, DiskInv, OutputInv, NetOK, NetworkTypeOK, NetInv, MessageInv
<1> QED
    BY <1>1, <1>2, <1>3, <1>4 DEF Next, Finished

(* The inductive invariant, of which the other theorems are consequences.  *)
THEOREM InvAlways == Spec => []Inv
BY InitInv, NextInv, PTL DEF Spec

-----------------------------------------------------------------------------

(* Every variable keeps its type, whatever the network and the processes do*)
(* (TypeOK).                                                               *)
THEOREM SystemTypes == Spec => []TypeOK
<1>1. Inv => TypeOK
    BY DEF Inv, ClientOK, ServerOK, NetOK, TypeOK
<1> QED
    BY <1>1, InvAlways, PTL

(* What the invariant says of the context of every child, peer or not. *)
LEMMA ContextFacts ==
    ASSUME Inv, NEW c \in Children
    PROVE  /\ SlotsHold(context[c], File, current, context[c].expected + 1, WindowSize - 1)
           /\ Closed(context[c]) \/ Gap(context[c])
           /\ context[c].expected <= current
<1>1. CASE c = peer
    BY <1>1 DEF Inv, ServerOK, ChildInv, BufferInv
<1>2. CASE c # peer
    BY <1>2, FileIsSent DEF Inv, ServerOK, ChildInv, BufferInit, SlotsHold, Closed
<1> QED
    BY <1>1, <1>2

(* HeldAheadOfGap, for every window and every file that the sequence       *)
(* numbers can count: no slot of the receiver's ring is overwritten before *)
(* it is flushed (bufferPacket).                                           *)
THEOREM HeldAhead == Spec => []HeldAheadOfGap
<1>1. ASSUME Inv PROVE HeldAheadOfGap
    <2> SUFFICES ASSUME NEW c \in Children, NEW i \in Slot, context[c].buffer[i].valid
                 PROVE  LET e == context[c].buffer[i]
                        IN  /\ context[c].expected < e.seq
                            /\ e.seq <= context[c].highest
                            /\ e.seq < context[c].expected + WindowSize
                            /\ Index(e.seq) = i
                            /\ e.data = File[e.seq + 1]
        BY DEF HeldAheadOfGap
    <2>1. /\ context[c].expected \in Nat
          /\ context[c].buffer[i].seq \in Nat
        BY <1>1, ExpectedFacts DEF Inv, BufferContext, SeqNum
    <2> QED
        BY <1>1, <2>1, ContextFacts, ConstantFacts, SMTT(30) DEF SlotsHold
<1> QED
    BY <1>1, InvAlways, PTL

(* GapIsAskedFor: a gap is open exactly while a block beyond it is held,   *)
(* and lastSREJ is then its number (inOrderState, bufferingState,          *)
(* flushingState).                                                         *)
THEOREM GapAskedFor == Spec => []GapIsAskedFor
<1>1. Inv => GapIsAskedFor
    BY ContextFacts DEF GapIsAskedFor, Closed, Gap
<1> QED
    BY <1>1, InvAlways, PTL

(* AcknowledgedIsWritten: rcopy never forgets a PDU that its receiver has  *)
(* not written, whichever RRs arrive late, again, or from another child    *)
(* (processRR, sendRR).                                                    *)
THEOREM AcknowledgedWritten == Spec => []AcknowledgedIsWritten
<1>1. ASSUME Inv PROVE AcknowledgedIsWritten
    <2>1. peer \in Children \/ (peer = Main /\ current = 0)
        BY <1>1 DEF Inv, ClientOK, ClientPhase
    <2>2. lower \in Nat /\ lower <= current
        BY <1>1, FileIsSent DEF Inv
    <2>3. peer \in Children => /\ lower <= context[peer].expected
                               /\ context[peer].expected <= current
        BY <1>1, ContextFacts DEF Inv, ServerOK, ChildInv
    <2> QED
        BY <2>1, <2>2, <2>3, ConstantFacts DEF AcknowledgedIsWritten
<1> QED
    BY <1>1, InvAlways, PTL

(* EofCoversFile: rcopy announces no end of file before it has read all of *)
(* it, even if a read has failed, and then the peer has received it all.   *)
THEOREM EofAfterFile == Spec => []EofCoversFile
<1>1. ASSUME Inv PROVE EofCoversFile
    <2> SUFFICES ASSUME rstate \in {"SEND_EOF", "WAIT_EOF_ACK"}
                 PROVE  offset = Len(File) /\ context[peer].expected = Len(File)
        BY DEF EofCoversFile
    <2>1. /\ peer \in Children /\ lower = current
          /\ offset = current /\ offset = Len(File)
        BY <1>1 DEF Inv, ClientOK, ClientPhase, FileSent
    <2>2. /\ lower <= context[peer].expected /\ context[peer].expected <= current
          /\ context[peer].expected \in Nat /\ current \in Nat
        BY <1>1, <2>1, ContextFacts, ExpectedFacts, FileIsSent DEF Inv, ServerOK, ChildInv
    <2> QED
        BY <2>1, <2>2
<1> QED
    BY <1>1, InvAlways, PTL

(* What the invariant says of what a child has written. *)
LEMMA WrittenFacts ==
    ASSUME Inv, NEW c \in Children
    PROVE  /\ written[c] \in Seq(Data) /\ Len(written[c]) \in Nat
           /\ Len(written[c]) <= context[c].expected
           /\ context[c].expected \in Nat /\ context[c].expected <= Len(File)
           /\ Len(written[c]) = context[c].expected =>
                \A i \in 1 .. Len(written[c]) : written[c][i] = File[i]
           /\ ~ ServerFaults => Len(written[c]) = context[c].expected
<1>1. /\ written[c] \in Seq(Data) /\ Len(written[c]) \in Nat
      /\ context[c].expected \in Nat /\ context[c].expected <= Len(File)
    BY ExpectedFacts, ContextFacts, FileIsSent, ConstantFacts DEF Inv
<1>2. InOrder(written[c], context[c].expected)
      /\ (~ ServerFaults => Len(written[c]) = context[c].expected)
    BY DEF Inv, ServerOK, DiskInv
<1>3. /\ Len(written[c]) <= context[c].expected
      /\ Len(written[c]) = context[c].expected =>
                \A i \in 1 .. Len(written[c]) : written[c][i] = File[i]
    BY <1>1, <1>2, InOrderFacts
<1> QED
    BY <1>1, <1>2, <1>3

(* OutputIsPrefix: what a child writes is the file from its start, as long *)
(* as no write fails, for buffer.c does not look at what write() returns.  *)
THEOREM PrefixWritten ==
    ASSUME ~ ServerFaults
    PROVE  Spec => []OutputIsPrefix
<1>1. ASSUME Inv PROVE OutputIsPrefix
    <2> SUFFICES ASSUME NEW c \in Children
                 PROVE  /\ context[c].expected = Len(written[c])
                        /\ Len(written[c]) <= Len(File)
                        /\ \A i \in 1 .. Len(written[c]) : written[c][i] = File[i]
        BY DEF OutputIsPrefix
    <2> QED
        BY <1>1, WrittenFacts
<1> QED
    BY <1>1, InvAlways, PTL

(* When rcopy knows of every block, the peer has written all of them.      *)
LEMMA WholeFile ==
    ASSUME ~ ServerFaults, Inv, peer \in Children, EOFReached, lower = current
    PROVE  written[peer] = File
<1>1. current = Len(File)
    BY DEF Inv, ClientOK, FileSent
<1>2. context[peer].expected = Len(File)
    <2>1. lower <= context[peer].expected /\ context[peer].expected <= current
          /\ context[peer].expected \in Nat
        BY ContextFacts, WrittenFacts DEF Inv, ServerOK, ChildInv
    <2> QED
        BY <1>1, <2>1, ConstantFacts
<1>3. /\ written[peer] \in Seq(Data) /\ Len(written[peer]) = Len(File)
      /\ \A i \in 1 .. Len(File) : written[peer][i] = File[i]
    BY <1>2, WrittenFacts
<1> QED
    BY <1>3, ConstantFacts

(* EofMeansComplete: when EOF is sent, or accepted by the peer, the file   *)
(* has been written in full, although neither side counts the blocks       *)
(* (server.c:131-132), as long as no write fails.                          *)
THEOREM CompleteAtEof ==
    ASSUME ~ ServerFaults
    PROVE  Spec => []EofMeansComplete
<1>1. ASSUME Inv PROVE EofMeansComplete
    <2>1. rstate \in {"SEND_EOF", "WAIT_EOF_ACK"} =>
            peer \in Children /\ EOFReached /\ lower = current
        BY <1>1 DEF Inv, ClientOK, ClientPhase
    <2>2. \A c \in Children : cstate[c] = "eofwait" => EOFReached /\ lower = current
        BY <1>1 DEF Inv, ServerOK, ChildInv
    <2> QED
        BY <1>1, <2>1, <2>2, WholeFile DEF EofMeansComplete
<1> QED
    BY <1>1, InvAlways, PTL

(* OutputInOrder: whatever writes fail, no block is written twice or before*)
(* one that precedes it in the file (buffer.c:193).                        *)
THEOREM WrittenInOrder == Spec => []OutputInOrder
<1>1. Inv => OutputInOrder
    BY DEF Inv, ServerOK, DiskInv, InOrder, OutputInOrder
<1> QED
    BY <1>1, InvAlways, PTL

(* OutputInPlace: although the children share the output file and one may  *)
(* empty it under another (server.c:70), what stands in it stands where it *)
(* belongs.                                                                *)
THEOREM OutputStandsInPlace == Spec => []OutputInPlace
<1>1. ASSUME Inv PROVE OutputInPlace
    <2> SUFFICES ASSUME \A c \in Children : Len(written[c]) = context[c].expected
                 PROVE  /\ Len(output) <= Len(File)
                        /\ \A i \in 1 .. Len(output) : output[i] \in {File[i], Hole}
        BY DEF OutputInPlace
    <2>1. CASE peer = Main
        BY <1>1, <2>1, ConstantFacts DEF Inv, ServerOK, OutputInv
    <2>2. CASE peer \in Children
        <3>1. /\ Len(output) <= Len(written[peer])
              /\ \A i \in 1 .. Len(output) : output[i] \in {File[i], Hole}
            BY <1>1, <2>2 DEF Inv, ServerOK, OutputInv
        <3>2. output \in Seq(Data \cup {Hole})
            BY <1>1 DEF Inv, ServerOK, ServerTypeOK
        <3>3. Len(written[peer]) \in Nat /\ Len(written[peer]) <= Len(File)
            BY <1>1, <2>2, WrittenFacts
        <3> QED
            BY <3>1, <3>2, <3>3, ConstantFacts
    <2> QED
        BY <1>1, <2>1, <2>2 DEF Inv, ClientOK, ClientPhase
<1> QED
    BY <1>1, InvAlways, PTL

-----------------------------------------------------------------------------

(* What a send adds to the network.                                        *)
LEMMA NewFacts ==
    ASSUME NEW STATE rest, rest \subseteq net, NEW m, SendToErr(rest, m)
    PROVE  \A n \in net' \ net : n = m \/ n = Corrupted(m)
BY DEF SendToErr

(* What rcopy sends comes from rcopy; a FILENAME only from one state. *)
LEMMA RcopySends ==
    ASSUME Inv, RcopyStep \/ RcopyTimeout \/ Deliver
    PROVE  \A m \in net' \ net :
             /\ m.src = Client
             /\ m.flag \in {"DATA", "EOF", "FINAL_ACK", "CORRUPT"} \/ SendFilenameState
<1>1. \/ \E m : /\ SendToErr(net, m) /\ m.src = Client
                /\ m.flag \in {"DATA", "EOF", "FINAL_ACK"} \/ SendFilenameState
      \/ net' \subseteq net
    <2>1. CASE SendFilenameState \/ SendEofState
        BY <2>1, ControlFields DEF SendFilenameState, SendEofState
    <2>2. CASE SendDataBlock
        BY <2>2, DataFields DEF SendDataBlock
    <2>3. CASE ProcessAcksRecv \/ WindowClosedTimeout
        BY <2>3, DataFields DEF ProcessAcksRecv, WindowClosedTimeout, Resend, SendNothing
    <2>4. CASE WaitEofAckRecv
        BY <2>4, ControlFields DEF WaitEofAckRecv, EofTryFailed, SendNothing
    <2>5. CASE Deliver
        BY <2>5, RestFacts DEF Deliver, SendNothing
    <2>6. CASE \/ WaitFilenameAckRecv \/ WaitFilenameAckTimeout \/ WaitEofAckTimeout
               \/ SendDataAtEOF \/ SendDataWindowClosed \/ SendDataReadError
               \/ SendDataReadEOF \/ ProcessAcksDone \/ WindowClosedReady
        BY <2>6 DEF WaitFilenameAckRecv, WaitFilenameAckTimeout, WaitEofAckTimeout,
            EofTryFailed, SendDataAtEOF, SendDataWindowClosed, SendDataReadError,
            SendDataReadEOF, ProcessAcksDone, WindowClosedReady, SendNothing
    <2> QED
        BY <2>1, <2>2, <2>3, <2>4, <2>5, <2>6 DEF RcopyStep, RcopyTimeout, SendDataState
<1>2. ASSUME NEW m, SendToErr(net, m), m.src = Client,
             m.flag \in {"DATA", "EOF", "FINAL_ACK"} \/ SendFilenameState,
             NEW n \in net' \ net
      PROVE  /\ n.src = Client
             /\ n.flag \in {"DATA", "EOF", "FINAL_ACK", "CORRUPT"} \/ SendFilenameState
    <2>1. n = m \/ n = Corrupted(m)
        BY <1>2, NewFacts
    <2>2. Corrupted(m).src = Client /\ Corrupted(m).flag = "CORRUPT"
        BY <1>2, ControlFields DEF Corrupted
    <2> QED
        BY <1>2, <2>1, <2>2
<1> QED
    BY <1>1, <1>2

(* OneSrejPerGap: the SREJ of a gap is sent when the gap opens, and at no  *)
(* other time (sendSREJOnce).                                              *)
THEOREM SrejOncePerGap == Spec => OneSrejPerGap
<1> DEFINE OneSrej ==
      \A c \in Children :
          /\ NewGap(c) =>
               \/ ControlPDU(c, Client, "SREJ", context'[c].expected) \in net'
               \/ errors' > errors
          /\ (\E m \in net' \ net : m.src = c /\ m.flag = "SREJ") => NewGap(c)
<1>1. ASSUME UNCHANGED context, NoNewSREJ PROVE OneSrej
    BY <1>1 DEF NewGap, NoNewSREJ
<1>2. ASSUME Inv, Next PROVE OneSrej
    <2>1. CASE ClientStep \/ ClientTimeout \/ Delivery
        <3>1. UNCHANGED context /\ (RcopyStep \/ RcopyTimeout \/ Deliver)
            BY <2>1 DEF ClientStep, ClientTimeout, Delivery, serverVars
        <3> QED
            BY <1>1, <1>2, <3>1, RcopySends, ConstantFacts DEF NoNewSREJ
    <2>2. CASE KillRcopy \/ Finished
        BY <1>1, <2>2 DEF KillRcopy, Finished, vars, serverVars, networkVars, NoNewSREJ
    <2>3. CASE MainStep
        BY <1>1, <1>2, <2>3, MainKeeps DEF MainStep, MainRecv
    <2>4. ASSUME NEW c \in Children,
                 ServerChildStep(c) \/ ServerChildTimeout(c) \/ KillChild(c)
          PROVE  OneSrej
        <3>1. CASE UNCHANGED context /\ NoNewSREJ
            BY <1>1, <3>1
        <3>2. CASE DataStep(c)
            <4>1. PICK m \in net, rest \in SUBSET net : /\ m.dst = c /\ rest \in Rest(m)
                                         /\ ChildData(c, rest, m)
                BY <3>2, RestFacts DEF DataStep
            <4>2. PICK result : result = BufferProcessPDU(context[c], m.num, m.data)
                OBVIOUS
            <4>3. /\ m.flag = "DATA"
                  /\ context' = [context EXCEPT ![c] = result.ctx]
                  /\ IF result.reply = NoReply THEN SendNothing(rest)
                     ELSE SendToErr(rest, Reply(c, result.reply, result.ctx.expected))
                BY <4>1, <4>2 DEF ChildData
            <4>4. result.reply = "SREJ" <=> OpensGap(context[c], result.ctx)
                BY <1>2, <4>1, <4>2, <4>3, ChildDataFacts
            <4>5. context'[c] = result.ctx /\ \A d \in Children \ {c} : context'[d] = context[d]
                BY <1>2, <4>3 DEF Inv, ServerOK, ServerTypeOK
            <4>6. /\ NewGap(c) <=> result.reply = "SREJ"
                  /\ \A d \in Children \ {c} : ~ NewGap(d)
                BY <4>4, <4>5 DEF NewGap, OpensGap
            <4>7. rest \subseteq net
                BY <4>1, RestFacts
            <4>8. result.reply = "SREJ" =>
                    \/ ControlPDU(c, Client, "SREJ", context'[c].expected) \in net'
                    \/ errors' > errors
                <5>1. errors \in Nat
                    BY <1>2, ConstantFacts DEF Inv, NetOK, NetworkTypeOK
                <5> QED
                    BY <4>3, <4>5, <5>1, BufferAssumption DEF SendToErr, Reply
            <4>9. ASSUME NEW n \in net' \ net, n.flag = "SREJ"
                  PROVE  n.src = c /\ result.reply = "SREJ"
                <5>1. PICK r : r = Reply(c, result.reply, result.ctx.expected)
                    OBVIOUS
                <5>2. r.src = c /\ r.flag = result.reply
                    BY <5>1, ControlFields DEF Reply
                <5>3. Corrupted(r).flag = "CORRUPT"
                    BY ControlFields DEF Corrupted
                <5>4. n = r \/ n = Corrupted(r)
                    BY <4>3, <4>7, <4>9, <5>1, NewFacts DEF SendNothing
                <5> QED
                    BY <4>9, <5>2, <5>3, <5>4
            <4> QED
                BY <4>6, <4>8, <4>9
        <3> QED
            BY <1>2, <2>4, <3>1, <3>2, ChildKeeps
    <2> QED
        BY <1>2, <2>1, <2>2, <2>3, <2>4 DEF Next
<1>3. Inv /\ [Next]_vars => [OneSrej]_vars
    BY <1>2
<1>4. Spec => [][OneSrej]_vars
    BY <1>3, InvAlways, PTL DEF Spec
<1> QED
    BY <1>4 DEF OneSrejPerGap

-----------------------------------------------------------------------------

(* What Copy substitutes for the variables of FileCopy. *)
Out == IF peer = Main THEN <<>> ELSE written[peer]

Announced ==
    \/ rstate \in {"SEND_EOF", "WAIT_EOF_ACK"}
    \/ rstate = "DONE" /\ EOFReached /\ IsWindowEmpty

(* In every state: a prefix of the file, and an announcement that is true. *)
CopyState ==
    /\ Len(Out) \in Nat /\ Len(Out) <= Len(File) /\ Out = SubSeq(File, 1, Len(Out))
    /\ lower \in Nat /\ lower <= Len(Out)
    /\ Announced => EOFReached /\ lower = current /\ lower = Len(File)

(* The state of the copy, as FileCopy sees it.                             *)
LEMMA CopyFacts ==
    ASSUME ~ ServerFaults
    PROVE  Inv => CopyState
<1> SUFFICES ASSUME Inv PROVE CopyState
    OBVIOUS
<1>1. peer = Main \/ peer \in Children
    BY DEF Inv, ClientOK, ClientPhase
<1>2. ASSUME peer = Main
      PROVE  /\ Len(Out) \in Nat /\ Len(Out) <= Len(File) /\ Out = SubSeq(File, 1, Len(Out))
             /\ lower \in Nat /\ lower <= Len(Out)
    <2>1. Out = <<>> /\ lower = 0
        BY <1>2, FileIsSent, ConstantFacts DEF Out, Inv, ClientOK, ClientPhase
    <2> QED
        BY <2>1, ConstantFacts
<1>3. ASSUME peer \in Children
      PROVE  /\ Len(Out) \in Nat /\ Len(Out) <= Len(File) /\ Out = SubSeq(File, 1, Len(Out))
             /\ lower \in Nat /\ lower <= Len(Out)
    <2>1. Out = written[peer]
        BY <1>3, ConstantFacts DEF Out
    <2>2. /\ Out \in Seq(Data) /\ Len(Out) \in Nat /\ Len(Out) <= Len(File)
          /\ Len(Out) = context[peer].expected
          /\ \A i \in 1 .. Len(Out) : Out[i] = File[i]
        BY <1>3, <2>1, WrittenFacts
    <2>3. lower \in Nat /\ lower <= Len(Out)
        BY <1>3, <2>2, FileIsSent DEF Inv, ServerOK, ChildInv
    <2>4. Out = SubSeq(File, 1, Len(Out))
        <3>1. /\ SubSeq(File, 1, Len(Out)) \in Seq(Data)
              /\ Len(SubSeq(File, 1, Len(Out))) = Len(Out)
              /\ \A i \in 1 .. Len(Out) : SubSeq(File, 1, Len(Out))[i] = File[i]
            BY <2>2, ConstantFacts
        <3> QED
            BY <2>2, <3>1
    <2> QED
        BY <2>2, <2>3, <2>4
<1>4. Announced => EOFReached /\ lower = current /\ lower = Len(File)
    BY DEF Announced, IsWindowEmpty, Inv, ClientOK, ClientPhase, FileSent
<1> QED
    BY <1>1, <1>2, <1>3, <1>4 DEF CopyState

(* What rcopy knows of, it knows from an RR. *)
LEMMA LowerMoves ==
    ASSUME Inv, RcopyStep \/ RcopyTimeout \/ Deliver
    PROVE  /\ \/ UNCHANGED lower
              \/ rstate = "PROCESS_ACKS" /\ UNCHANGED <<rstate, peer>>
           /\ peer' = peer \/ (peer = Main /\ peer' \in Children)
           /\ rstate \in {"SEND_EOF", "WAIT_EOF_ACK"} =>
                /\ rstate' \in {"SEND_EOF", "WAIT_EOF_ACK", "DONE"}
                /\ UNCHANGED <<EOFReached, lower, current>>
           /\ rstate = "DONE" => UNCHANGED <<rstate, EOFReached, lower, current>>
<1> USE DEF windowVars
<1>1. CASE SendFilenameState \/ SendEofState
    BY <1>1 DEF SendFilenameState, SendEofState
<1>2. CASE SendDataBlock \/ SendDataReadEOF
    BY <1>2 DEF SendDataBlock, SendDataReadEOF, WindowAddPacket
<1>3. CASE ProcessAcksRecv
    BY <1>3 DEF ProcessAcksRecv
<1>4. CASE WaitEofAckRecv \/ WaitEofAckTimeout
    BY <1>4 DEF WaitEofAckRecv, WaitEofAckTimeout, EofTryFailed
<1>5. CASE WaitFilenameAckRecv
    BY <1>5, InboxFacts DEF WaitFilenameAckRecv, Inv, ClientOK, ClientPhase
<1>6. CASE \/ WaitFilenameAckTimeout \/ SendDataAtEOF \/ SendDataWindowClosed
           \/ SendDataReadError \/ ProcessAcksDone \/ WindowClosedReady
           \/ WindowClosedTimeout \/ Deliver
    BY <1>6 DEF WaitFilenameAckTimeout, SendDataAtEOF, SendDataWindowClosed,
        SendDataReadError, ProcessAcksDone, WindowClosedReady, WindowClosedTimeout, Deliver
<1> QED
    BY <1>1, <1>2, <1>3, <1>4, <1>5, <1>6 DEF RcopyStep, RcopyTimeout, SendDataState

(* A step changes one of the three, and never back. *)
LEMMA CopyMoves ==
    ASSUME ~ ServerFaults, Inv, Next, Inv', CopyState
    PROVE  /\ Announced => Announced'
           /\ lower <= lower' /\ Len(Out) <= Len(Out')
           /\ \/ UNCHANGED <<Out, lower>>
              \/ UNCHANGED <<Out, Announced>>
              \/ UNCHANGED <<lower, Announced>>
<1>1. CASE ClientStep \/ ClientTimeout \/ Delivery
    <2>1. UNCHANGED serverVars /\ (RcopyStep \/ RcopyTimeout \/ Deliver)
        BY <1>1 DEF ClientStep, ClientTimeout, Delivery
    <2>2. Out' = Out
        <3>1. CASE peer' = peer
            BY <2>1, <3>1 DEF Out, serverVars
        <3>2. CASE peer = Main /\ peer' \in Children
            <4>1. written'[peer'] = written[peer'] /\ peer' # peer /\ peer' # Main
                BY <2>1, <3>2, ConstantFacts DEF serverVars
            <4>2. written[peer'] = <<>>
                BY <3>2, <4>1 DEF Inv, ServerOK, ChildInv
            <4> QED
                BY <3>2, <4>1, <4>2 DEF Out
        <3> QED
            BY <2>1, <3>1, <3>2, LowerMoves
    <2>3. Announced => Announced'
        BY <2>1, LowerMoves DEF CopyState, Announced, IsWindowEmpty
    <2>4. UNCHANGED lower \/ (Announced' = FALSE /\ Announced = FALSE)
        BY <2>1, LowerMoves DEF Announced
    <2>5. lower <= lower'
        <3>1. CASE ProcessAcksRecv
            <4>1. PICK m \in inbox : ProcessRR(m.num) \/ UNCHANGED windowVars
                BY <3>1 DEF ProcessAcksRecv
            <4>2. m.num \in SeqNum /\ WindowInv(StoredPDU, Log) /\ lower \in Nat
                BY InboxFacts, FileIsSent DEF Inv, ClientOK, FileSent
            <4> QED
                BY <4>1, <4>2, ProcessRRInv DEF windowVars
        <3>2. CASE ~ ProcessAcksRecv
            <4>1. UNCHANGED lower
                BY <2>1, <3>2 DEF RcopyStep, RcopyTimeout, SendDataState, windowVars,
                    SendFilenameState, SendEofState, SendDataBlock, SendDataReadEOF,
                    WindowAddPacket, WaitEofAckRecv, WaitEofAckTimeout,
                    WaitFilenameAckRecv, WaitFilenameAckTimeout, SendDataAtEOF,
                    SendDataWindowClosed, SendDataReadError, ProcessAcksDone,
                    WindowClosedReady, WindowClosedTimeout, Deliver
            <4> QED
                BY <4>1, FileIsSent DEF Inv
        <3> QED
            BY <3>1, <3>2
    <2>6. Len(Out) <= Len(Out')
        BY <2>2 DEF CopyState
    <2> QED
        BY <2>2, <2>3, <2>4, <2>5, <2>6
<1>2. CASE KillRcopy
    <2>1. UNCHANGED <<peer, windowVars, EOFReached, serverVars>> /\ rstate' = "DONE"
        BY <1>2 DEF KillRcopy
    <2>2. Out' = Out /\ lower' = lower
        BY <2>1 DEF Out, serverVars, windowVars
    <2>3. Announced => Announced'
        BY <2>1 DEF CopyState, Announced, IsWindowEmpty, windowVars
    <2> QED
        BY <2>2, <2>3 DEF CopyState
<1>3. ASSUME UNCHANGED rcopyVars, UNCHANGED written
      PROVE  UNCHANGED <<Out, lower, Announced>>
    BY <1>3 DEF rcopyVars, windowVars, Out, Announced, IsWindowEmpty
<1>4. CASE MainStep \/ Finished
    <2>1. UNCHANGED rcopyVars /\ UNCHANGED written
        BY <1>4 DEF MainStep, MainRecv, Finished, vars, serverVars
    <2> QED
        BY <1>3, <2>1 DEF CopyState
<1>5. ASSUME NEW c \in Children,
             ServerChildStep(c) \/ ServerChildTimeout(c) \/ KillChild(c)
      PROVE  /\ UNCHANGED <<lower, Announced>>
             /\ lower <= lower' /\ Len(Out) <= Len(Out')
    <2>1. UNCHANGED rcopyVars
        BY <1>5 DEF ServerChildStep, ServerChildTimeout, KillChild
    <2>2. UNCHANGED <<peer, lower, Announced>>
        BY <2>1 DEF rcopyVars, windowVars, Announced, IsWindowEmpty
    <2>3. lower <= lower'
        BY <2>2 DEF CopyState
    <2>4. Len(Out) <= Len(Out')
        <3>1. CASE peer = Main
            BY <2>2, <3>1 DEF CopyState, Out
        <3>2. CASE peer \in Children
            <4>1. UNCHANGED context \/ DataStep(c)
                BY <1>5, ChildKeeps
            <4>2. context[peer].expected <= context'[peer].expected
                <5>1. CASE UNCHANGED context
                    BY <3>2, <5>1, ExpectedFacts DEF Inv
                <5>2. CASE DataStep(c)
                    <6>1. PICK m \in net, rest \in SUBSET net : m.dst = c /\ ChildData(c, rest, m)
                        BY <5>2, RestFacts DEF DataStep
                    <6>2. PICK result : result = BufferProcessPDU(context[c], m.num, m.data)
                        OBVIOUS
                    <6>3. m.flag = "DATA" /\ context' = [context EXCEPT ![c] = result.ctx]
                        BY <6>1, <6>2 DEF ChildData
                    <6>4. /\ c = peer /\ result.ctx.expected >= context[c].expected
                          /\ BufferInv(result.ctx, Blocks, File, current)
                        BY <6>1, <6>2, <6>3, ChildDataFacts
                    <6>5. context'[c] = result.ctx /\ context[c].expected \in Nat
                        BY <6>3, ExpectedFacts DEF Inv, ServerOK, ServerTypeOK
                    <6>6. result.ctx.expected \in Nat
                        BY <6>4 DEF BufferInv, BufferContext, SeqNum
                    <6> QED
                        BY <6>4, <6>5, <6>6
                <5> QED
                    BY <4>1, <5>1, <5>2
            <4>3. Len(Out) = context[peer].expected /\ peer # Main
                BY <3>2, WrittenFacts, ConstantFacts DEF Out
            <4>4. Len(Out') = context'[peer].expected
                <5>1. ~ ServerFaults => Len(written'[peer]) = context'[peer].expected
                    BY <3>2 DEF Inv, ServerOK, DiskInv
                <5> QED
                    BY <2>2, <4>3, <5>1 DEF Out
            <4> QED
                BY <4>2, <4>3, <4>4
        <3> QED
            BY <3>1, <3>2 DEF Inv, ClientOK, ClientPhase
    <2> QED
        BY <2>2, <2>3, <2>4
<1> QED
    BY <1>1, <1>2, <1>4, <1>5 DEF Next

(* CopySpec: rcopy and the child that accepted its file name copy the file *)
(* as FileCopy promises, as long as no write fails: every step writes,     *)
(* acknowledges or announces as it allows, or is none of its business.     *)
THEOREM ImplementsCopy ==
    ASSUME ~ ServerFaults
    PROVE  Spec => CopySpec
<1>1. Init => Copy!Init
    BY DEF Init, RcopyInit, WindowSetUp, Copy!Init
<1>2. Inv /\ Inv' /\ CopyState /\ CopyState' /\ [Next]_vars => [Copy!Next]_(Copy!copyVars)
    <2> SUFFICES ASSUME Inv, Inv', CopyState, CopyState', [Next]_vars
                 PROVE  [Copy!Next]_(Copy!copyVars)
        OBVIOUS
    <2> USE DEF Copy!copyVars
    <2>1. CASE UNCHANGED vars
        BY <2>1 DEF vars, rcopyVars, serverVars, windowVars, IsWindowEmpty
    <2>2. CASE Next
        <3>1. /\ Announced => Announced'
              /\ lower <= lower' /\ Len(Out) <= Len(Out')
              /\ \/ UNCHANGED <<Out, lower>>
                 \/ UNCHANGED <<Out, Announced>>
                 \/ UNCHANGED <<lower, Announced>>
            BY <2>2, CopyMoves
        <3>2. /\ Len(Out) \in Nat /\ Out = SubSeq(File, 1, Len(Out))
              /\ lower \in Nat
            BY DEF CopyState
        <3>3. /\ Len(Out') \in Nat /\ Len(Out') <= Len(File)
              /\ Out' = SubSeq(File, 1, Len(Out'))
              /\ lower' \in Nat /\ lower' <= Len(Out')
              /\ Announced' => lower' = Len(File)
            BY DEF CopyState
        <3>4. CASE UNCHANGED <<Out, lower>>
            BY <3>1, <3>3, <3>4 DEF Copy!Next, Copy!Announce, Out, Announced
        <3>5. CASE UNCHANGED <<Out, Announced>>
            <4>1. lower' = lower \/ lower' \in lower + 1 .. Len(Out)
                BY <3>1, <3>2, <3>3, <3>5
            <4> QED
                BY <3>5, <4>1, Zenon DEF Copy!Next, Copy!Acknowledge, Out, Announced
        <3>6. CASE UNCHANGED <<lower, Announced>>
            BY <3>1, <3>2, <3>3, <3>6, SMTT(30) DEF Copy!Next, Copy!Write, Out, Announced
        <3> QED
            BY <3>1, <3>4, <3>5, <3>6
    <2> QED
        BY <2>1, <2>2
<1> QED
    BY <1>1, <1>2, CopyFacts, InvAlways, PTL DEF Spec, CopySpec, Copy!Spec

-----------------------------------------------------------------------------

(* An attempt to be accepted: a FILENAME that can fork a child, the child  *)
(* until it has opened the file, and its answer.                           *)
Token(m) ==
    \/ m.flag = "FILENAME" /\ m.dst = Main
    \/ m.flag = "FILENAME_RESPONSE"

Starting(c) == cstate[c] = "starting"

NoAttempt ==
    /\ \A m \in net \cup inbox : ~ Token(m)
    /\ \A c \in Children : ~ Starting(c)

(* There is only one attempt at a time, and none left once rcopy has been  *)
(* accepted, so that the file holds what the peer has written.             *)
OneAttempt ==
    /\ \A m, n \in net \cup inbox : Token(m) /\ Token(n) => m = n
    /\ \A c, d \in Children : Starting(c) /\ Starting(d) => c = d
    /\ \A m \in net \cup inbox : \A c \in Children : ~ (Token(m) /\ Starting(c))
    /\ \A m \in net \cap inbox : ~ Token(m)
    /\ \A m \in net : m.flag = "FILENAME_RESPONSE" => m.dst = Client
    /\ rstate = "SEND_FILENAME" \/ peer \in Children => NoAttempt
    /\ peer \in Children => output = written[peer]

(* Most steps begin no attempt. *)
NoNewAttempt ==
    /\ \A m \in net' \ net : ~ Token(m)
    /\ inbox' \subseteq inbox
    /\ \A c \in Children : Starting(c)' => Starting(c)

(* A step that begins none leaves at most one attempt.                     *)
LEMMA NoAttemptBegins ==
    ASSUME OneAttempt, NoNewAttempt,
           rstate' = "SEND_FILENAME" \/ peer' \in Children => NoAttempt,
           peer' \in Children => output' = written'[peer']
    PROVE  OneAttempt'
<1>1. \A m \in net' \cup inbox' : Token(m) => m \in net \cup inbox
    BY DEF NoNewAttempt
<1>2. \A m \in net' \cap inbox' : Token(m) => m \in net \cap inbox
    BY DEF NoNewAttempt
<1>3. \A m \in net' : m.flag = "FILENAME_RESPONSE" => m \in net
    BY DEF NoNewAttempt, Token
<1>4. NoAttempt => NoAttempt'
    BY <1>1 DEF NoAttempt, NoNewAttempt, Token
<1> QED
    BY <1>1, <1>2, <1>3, <1>4 DEF OneAttempt, NoNewAttempt, Token

(* The steps of rcopy. *)
LEMMA RcopyAttempts ==
    ASSUME ~ LateDelivery, ~ Duplicates, Inv, OneAttempt,
           ClientStep \/ ClientTimeout \/ Delivery
    PROVE  OneAttempt'
<1>1. UNCHANGED serverVars
    BY DEF ClientStep, ClientTimeout, Delivery
<1>2. \A c \in Children : Starting(c)' <=> Starting(c)
    BY <1>1 DEF Starting, serverVars
<1>3. CASE SendFilenameState
    <2>1. PICK m : m = ControlPDU(Client, server, "FILENAME", 0) /\ SendToErr(net, m)
        BY <1>3 DEF SendFilenameState
    <2>2. m.flag = "FILENAME" /\ Corrupted(m).flag = "CORRUPT"
        BY <2>1, ControlFields DEF Corrupted
    <2>3. /\ rstate = "SEND_FILENAME" /\ rstate' = "WAIT_FILENAME_ACK"
          /\ inbox' = inbox /\ peer' = peer
        BY <1>3 DEF SendFilenameState
    <2>4. NoAttempt /\ peer \notin Children
        BY <2>3, ConstantFacts DEF OneAttempt, Inv, ClientOK, ClientPhase
    <2>5. \A n \in net' : n \in net \/ n = m \/ n = Corrupted(m)
        BY <2>1, NewFacts
    <2>6. \A n \in net' \cup inbox' : Token(n) => n = m /\ n \notin inbox'
        BY <2>2, <2>3, <2>4, <2>5 DEF NoAttempt, Token
    <2>7. \A c \in Children : ~ Starting(c)'
        BY <1>2, <2>4 DEF NoAttempt
    <2>8. \A n \in net' : n.flag = "FILENAME_RESPONSE" => n.dst = Client
        BY <2>2, <2>5 DEF OneAttempt
    <2> QED
        BY <2>3, <2>4, <2>6, <2>7, <2>8 DEF OneAttempt, Token
<1>4. CASE Deliver
    <2>1. PICK m \in net : m.dst = Client /\ inbox' = {m} /\ SendNothing(net \ {m})
        BY <1>4 DEF Deliver, Rest
    <2>2. inbox = {} /\ net' = net \ {m} /\ UNCHANGED <<rstate, peer, output, written>>
        BY <1>1, <1>4, <2>1 DEF Deliver, SendNothing, serverVars
    <2>3. net' \cup inbox' = net \cup inbox /\ net' \cap inbox' = {} /\ net' \subseteq net
        BY <2>1, <2>2
    <2>4. NoAttempt => NoAttempt'
        BY <1>2, <2>3 DEF NoAttempt, Token
    <2> QED
        BY <1>2, <2>2, <2>3, <2>4 DEF OneAttempt, Token
<1>5. CASE (RcopyStep \/ RcopyTimeout) /\ ~ SendFilenameState
    <2>1. NoNewAttempt
        <3>1. \A m \in net' \ net : m.flag \in {"DATA", "EOF", "FINAL_ACK", "CORRUPT"}
            BY <1>5, RcopySends
        <3>2. inbox' \subseteq inbox
            BY <1>5 DEF RcopyStep, RcopyTimeout, SendDataState,
                SendEofState, SendDataBlock, SendDataReadEOF, WaitEofAckRecv,
                WaitEofAckTimeout, WaitFilenameAckRecv, WaitFilenameAckTimeout,
                SendDataAtEOF, SendDataWindowClosed, SendDataReadError, ProcessAcksRecv,
                ProcessAcksDone, WindowClosedReady, WindowClosedTimeout
        <3> QED
            BY <1>2, <3>1, <3>2 DEF NoNewAttempt, Token
    <2>2. rstate' = "SEND_FILENAME" => NoAttempt
        <3>1. rstate' = "SEND_FILENAME" => WaitFilenameAckTimeout
            BY <1>5 DEF RcopyStep, RcopyTimeout, SendDataState,
                SendEofState, SendDataBlock, SendDataReadEOF, WaitEofAckRecv,
                WaitEofAckTimeout, EofTryFailed, WaitFilenameAckRecv,
                SendDataAtEOF, SendDataWindowClosed, SendDataReadError, ProcessAcksRecv,
                ProcessAcksDone, WindowClosedReady, WindowClosedTimeout, AfterEOF
        <3>2. ASSUME WaitFilenameAckTimeout PROVE NoAttempt
            <4>1. RcopyMayTimeOut /\ inbox = {} /\ rstate = "WAIT_FILENAME_ACK"
                BY <3>2 DEF ClientTimeout, ClientStep, Delivery, WaitFilenameAckTimeout,
                    RcopyStep, Deliver, SendFilenameState, WaitFilenameAckRecv,
                    SendDataState, SendDataBlock, SendDataReadEOF, SendDataAtEOF,
                    SendDataWindowClosed, SendDataReadError, ProcessAcksRecv,
                    ProcessAcksDone, WindowClosedReady, SendEofState, WaitEofAckRecv
            <4>2. InFlight = {} /\ \A c \in Children : ~ Starting(c)
                BY <4>1 DEF RcopyMayTimeOut, Starting
            <4>3. \A m \in net : Token(m) => m \in InFlight
                BY <4>1 DEF Token, OneAttempt, InFlight, Reads
            <4> QED
                BY <4>1, <4>2, <4>3 DEF NoAttempt
        <3> QED
            BY <3>1, <3>2
    <2>3. CASE peer' = peer
        BY <1>1, <2>1, <2>2, <2>3, NoAttemptBegins DEF OneAttempt, serverVars
    <2>4. CASE peer' # peer
        <3>1. WaitFilenameAckRecv
            BY <1>5, <2>4 DEF RcopyStep, RcopyTimeout, SendDataState,
                SendEofState, SendDataBlock, SendDataReadEOF, WaitEofAckRecv,
                WaitEofAckTimeout, WaitFilenameAckTimeout,
                SendDataAtEOF, SendDataWindowClosed, SendDataReadError, ProcessAcksRecv,
                ProcessAcksDone, WindowClosedReady, WindowClosedTimeout
        <3>2. PICK m \in inbox : m.flag = "FILENAME_RESPONSE" /\ peer' = m.src
                                 /\ rstate' = "SEND_DATA"
            BY <2>4, <3>1 DEF WaitFilenameAckRecv
        <3>3. inbox' = {} /\ net' = net /\ peer = Main /\ m.src \in Children
            BY <3>1, <3>2, InboxFacts DEF WaitFilenameAckRecv, SendNothing, Inv, ClientOK,
                ClientPhase
        <3>4. /\ \A n \in net' \cup inbox' : ~ Token(n)
              /\ \A c \in Children : ~ Starting(c)'
            BY <1>2, <3>2, <3>3 DEF OneAttempt, Token
        <3>5. output' = written'[peer']
            BY <1>1, <3>2, <3>3, ConstantFacts
            DEF Inv, ServerOK, OutputInv, ChildInv, serverVars
        <3> QED
            BY <3>2, <3>4, <3>5 DEF OneAttempt, NoAttempt, Token
    <2> QED
        BY <2>3, <2>4
<1> QED
    BY <1>3, <1>4, <1>5 DEF ClientStep, ClientTimeout, Delivery

(* main turns a FILENAME into a child, or drops it. *)
LEMMA MainAttempts ==
    ASSUME ~ Duplicates, Inv, OneAttempt, MainStep
    PROVE  OneAttempt'
<1>1. PICK m \in net :
        /\ m.dst = Main /\ SendNothing(net \ {m})
        /\ \/ /\ m.flag = "FILENAME"
              /\ \E c \in Children : cstate[c] = "idle"
                                     /\ cstate' = [cstate EXCEPT ![c] = "starting"]
           \/ UNCHANGED cstate
    BY DEF MainStep, MainRecv, Rest
<1>2. UNCHANGED <<rcopyVars, written, output>> /\ net' = net \ {m}
    BY <1>1 DEF MainStep, MainRecv, SendNothing
<1>3. UNCHANGED <<inbox, rstate, peer>>
    BY <1>2 DEF rcopyVars
<1>4. CASE UNCHANGED cstate
    <2>1. NoNewAttempt
        BY <1>2, <1>3, <1>4 DEF NoNewAttempt, Starting
    <2> QED
        BY <1>2, <1>3, <2>1, NoAttemptBegins DEF OneAttempt
<1>5. CASE m.flag = "FILENAME" /\ \E c \in Children :
             cstate' = [cstate EXCEPT ![c] = "starting"]
    <2>1. PICK c \in Children : cstate' = [cstate EXCEPT ![c] = "starting"]
        BY <1>5
    <2>2. Token(m)
        BY <1>1, <1>5 DEF Token
    <2>3. \A d \in Children : Starting(d)' => d = c
        BY <2>1, <2>2 DEF OneAttempt, Starting, Inv, ServerOK, ServerTypeOK
    <2>4. \A n \in net' \cup inbox' : ~ Token(n)
        BY <1>2, <1>3, <2>2 DEF OneAttempt
    <2>5. rstate # "SEND_FILENAME" /\ peer \notin Children
        BY <2>2 DEF OneAttempt, NoAttempt
    <2> QED
        BY <1>2, <1>3, <2>3, <2>4, <2>5 DEF OneAttempt, Token
<1> QED
    BY <1>1, <1>4, <1>5

(* A write at the end of the file appends. *)
LEMMA WrittenAtItsEnd ==
    ASSUME NEW old \in Seq(Data), output = old, NEW blocks \in Seq(Data)
    PROVE  WrittenAfter(Len(old), blocks) = old \o blocks
<1> DEFINE end == Len(old) + Len(blocks)
<1>1. Len(old) \in Nat /\ Len(blocks) \in Nat /\ end \in Nat /\ ~ Len(old) > end
    OBVIOUS
<1>2. WrittenAfter(Len(old), blocks) =
        [i \in 1 .. end |-> IF Len(old) < i /\ i <= end THEN blocks[i - Len(old)]
                            ELSE IF i <= Len(old) THEN old[i] ELSE Hole]
    BY <1>1 DEF WrittenAfter
<1>3. old \o blocks =
        [i \in 1 .. end |-> IF i <= Len(old) THEN old[i] ELSE blocks[i - Len(old)]]
    <2> DEFINE both == old \o blocks
    <2>1. both \in Seq(Data) /\ Len(both) = end
        OBVIOUS
    <2>2. both = [i \in 1 .. end |-> both[i]]
        <3> HIDE DEF both
        <3> QED
            BY <2>1
    <2>3. \A i \in 1 .. end : both[i] = IF i <= Len(old) THEN old[i] ELSE blocks[i - Len(old)]
        OBVIOUS
    <2> QED
        BY <2>2, <2>3
<1>4. \A i \in 1 .. end : i \in Nat /\ i <= end
    BY <1>1
<1> HIDE DEF end
<1> QED
    BY <1>1, <1>2, <1>3, <1>4

(* The steps of the children. *)
LEMMA ChildAttempts ==
    ASSUME ~ ServerFaults, Inv, OneAttempt, NEW c \in Children,
           ServerChildStep(c) \/ ServerChildTimeout(c) \/ KillChild(c)
    PROVE  OneAttempt'
<1>1. UNCHANGED rcopyVars /\ UNCHANGED <<inbox, rstate, peer>>
    BY DEF ServerChildStep, ServerChildTimeout, KillChild, rcopyVars
<1>2. CASE ChildStart(c)
    <2>1. PICK m : m = Reply(c, "FILENAME_RESPONSE", 0) /\ SendToErr(net, m)
        BY <1>2 DEF ChildStart
    <2>2. /\ m.flag = "FILENAME_RESPONSE" /\ m.dst = Client
          /\ Corrupted(m).flag = "CORRUPT"
        BY <2>1, ControlFields DEF Corrupted, Reply
    <2>3. /\ Starting(c) /\ cstate' = [cstate EXCEPT ![c] = "receiving"]
        BY <1>2 DEF ChildStart, Starting
    <2>4. \A d \in Children : ~ Starting(d)'
        BY <2>3 DEF OneAttempt, Starting, Inv, ServerOK, ServerTypeOK
    <2>5. \A n \in net \cup inbox : ~ Token(n)
        BY <2>3 DEF OneAttempt
    <2>6. \A n \in net' : n \in net \/ n = m \/ n = Corrupted(m)
        BY <2>1, NewFacts
    <2>7. /\ \A n \in net' : Token(n) => n = m
          /\ \A n \in inbox' : ~ Token(n)
          /\ \A n \in net' : n.flag = "FILENAME_RESPONSE" => n.dst = Client
        BY <1>1, <2>2, <2>5, <2>6 DEF Token, OneAttempt
    <2>8. rstate # "SEND_FILENAME" /\ peer \notin Children
        BY <2>3 DEF OneAttempt, NoAttempt
    <2> QED
        BY <1>1, <2>4, <2>7, <2>8 DEF OneAttempt, Token
<1>3. CASE DataStep(c)
    <2>1. PICK m \in net, rest \in SUBSET net :
              m.dst = c /\ rest \in Rest(m) /\ ChildData(c, rest, m)
        BY <1>3, RestFacts DEF DataStep
    <2>2. PICK result : result = BufferProcessPDU(context[c], m.num, m.data)
        OBVIOUS
    <2>3. /\ m.flag = "DATA" /\ UNCHANGED cstate
          /\ written' = [written EXCEPT ![c] = @ \o result.out]
          /\ output' = IF result.out = <<>> THEN output
                       ELSE WrittenAfter(Len(written[c]), result.out)
          /\ IF result.reply = NoReply THEN SendNothing(rest)
             ELSE SendToErr(rest, Reply(c, result.reply, result.ctx.expected))
        BY <2>1, <2>2 DEF ChildData, Stored
    <2>4. /\ c = peer /\ BufferInv(result.ctx, Blocks, File, current)
          /\ result.ctx.expected >= context[c].expected
          /\ result.out \in Seq(Blocks)
          /\ Continues(result.out, File, context[c].expected, result.ctx.expected)
          /\ result.reply \in {"RR", "SREJ", NoReply}
        BY <2>1, <2>2, <2>3, ChildDataFacts
    <2>5. NoNewAttempt
        <3>1. PICK r : r = Reply(c, result.reply, result.ctx.expected)
            OBVIOUS
        <3>2. r.flag = result.reply /\ Corrupted(r).flag = "CORRUPT"
            BY <3>1, ControlFields DEF Reply, Corrupted
        <3>3. \A n \in net' \ net : (n = r /\ result.reply # NoReply) \/ n = Corrupted(r)
            BY <2>1, <2>3, <3>1, RestFacts, NewFacts DEF SendNothing
        <3>4. \A n \in net' \ net : n.flag \in {"RR", "SREJ", "CORRUPT"}
            BY <2>4, <3>2, <3>3
        <3> QED
            BY <1>1, <2>3, <3>4 DEF NoNewAttempt, Token, Starting
    <2>6. output' = written'[peer]
        <3>1. output = written[c] /\ written[c] \in Seq(Data)
            BY <2>4, ExpectedFacts DEF OneAttempt, Inv
        <3>2. written'[c] = written[c] \o result.out
            BY <2>3 DEF Inv, ServerOK, ServerTypeOK
        <3>3. result.out \in Seq(Data)
            <4>1. /\ context[c].expected \in Nat /\ result.ctx.expected \in Nat
                  /\ result.ctx.expected <= Len(File)
                BY <2>4, ExpectedFacts, FileIsSent
                DEF Inv, BufferInv, BufferContext, SeqNum
            <4>2. InOrder(written[c], context[c].expected) /\ result.out \in Stored(result.out)
                BY DEF Inv, ServerOK, DiskInv, Stored
            <4> QED
                BY <2>4, <3>1, <4>1, <4>2, StoredKeepsOrder
        <3>4. CASE result.out = <<>>
            BY <2>3, <2>4, <3>1, <3>2, <3>4
        <3>5. CASE result.out # <<>>
            BY <2>3, <2>4, <3>1, <3>2, <3>3, <3>5, WrittenAtItsEnd
        <3> QED
            BY <3>4, <3>5
    <2>7. rstate' = "SEND_FILENAME" \/ peer' \in Children => NoAttempt
        BY <1>1 DEF OneAttempt
    <2> QED
        BY <1>1, <2>5, <2>6, <2>7, NoAttemptBegins
<1>4. ASSUME UNCHANGED <<written, output>>,
             \/ UNCHANGED cstate
             \/ \E s \in {"closed", "eofwait"} : cstate' = [cstate EXCEPT ![c] = s],
             \/ \E rest : rest \subseteq net /\ SendNothing(rest)
             \/ \E rest : rest \subseteq net /\ SendToErr(rest, Reply(c, "EOF_ACK", 0))
      PROVE  OneAttempt'
    <2>1. \A n \in net' \ net : n.flag \in {"EOF_ACK", "CORRUPT"}
        <3>1. PICK r : r = Reply(c, "EOF_ACK", 0)
            OBVIOUS
        <3>2. r.flag = "EOF_ACK" /\ Corrupted(r).flag = "CORRUPT"
            BY <3>1, ControlFields DEF Reply, Corrupted
        <3>3. \A n \in net' \ net : n = r \/ n = Corrupted(r)
            BY <1>4, <3>1, NewFacts DEF SendNothing
        <3> QED
            BY <3>2, <3>3
    <2>2. \A d \in Children : Starting(d)' => Starting(d)
        BY <1>4 DEF Starting, Inv, ServerOK, ServerTypeOK
    <2>3. NoNewAttempt
        BY <1>1, <2>1, <2>2 DEF NoNewAttempt, Token
    <2> QED
        BY <1>1, <1>4, <2>3, NoAttemptBegins DEF OneAttempt
<1>5. CASE ServerChildStep(c) /\ ~ ChildStart(c) /\ ~ DataStep(c)
    <2>1. CASE EofWaitRecv(c)
        BY <1>4, <2>1, RestFacts DEF EofWaitRecv, EofAckAgain
    <2>2. CASE ChildRecv(c)
        <3>1. PICK m \in net, rest \in SUBSET net : /\ m.dst = c /\ rest \in Rest(m)
                                     /\ \/ ChildData(c, rest, m)
                                        \/ ChildEof(c, rest, m)
                                        \/ ChildIgnore(rest, m)
            BY <2>2, RestFacts DEF ChildRecv
        <3>2. ~ ChildData(c, rest, m)
            BY <1>5, <2>2, <3>1 DEF DataStep, ServerChildStep, ChildRecv
        <3>3. rest \subseteq net
            BY <3>1, RestFacts
        <3> QED
            BY <1>4, <3>1, <3>2, <3>3 DEF ChildEof, ChildIgnore, serverVars
    <2> QED
        BY <1>5, <2>1, <2>2 DEF ServerChildStep, ChildStep
<1>6. CASE ServerChildTimeout(c)
    BY <1>4, <1>6 DEF ServerChildTimeout, ChildTimeout, EofWaitTimeout, EofAckAgain
<1>7. CASE KillChild(c)
    BY <1>4, <1>7 DEF KillChild, networkVars, SendNothing
<1> QED
    BY <1>2, <1>3, <1>5, <1>6, <1>7

(* rcopy is accepted by the one attempt that is under way. *)
LEMMA OneAttemptAlways ==
    ASSUME ~ LateDelivery, ~ Duplicates, ~ ServerFaults
    PROVE  Spec => []OneAttempt
<1>1. Init => OneAttempt
    BY ConstantFacts DEF Init, RcopyInit, ServerInit, NetworkInit, OneAttempt, NoAttempt,
        Starting
<1>2. Inv /\ OneAttempt /\ [Next]_vars => OneAttempt'
    <2> SUFFICES ASSUME Inv, OneAttempt, [Next]_vars PROVE OneAttempt'
        OBVIOUS
    <2>1. CASE ClientStep \/ ClientTimeout \/ Delivery
        BY <2>1, RcopyAttempts
    <2>2. CASE MainStep
        BY <2>2, MainAttempts
    <2>3. ASSUME NEW c \in Children,
                 ServerChildStep(c) \/ ServerChildTimeout(c) \/ KillChild(c)
          PROVE  OneAttempt'
        BY <2>3, ChildAttempts
    <2>4. CASE KillRcopy
        <3>1. UNCHANGED <<net, inbox, cstate, peer, output, written>> /\ rstate' = "DONE"
            BY <2>4 DEF KillRcopy, serverVars, networkVars
        <3> QED
            BY <3>1 DEF OneAttempt, NoAttempt, Token, Starting
    <2>5. CASE UNCHANGED vars
        BY <2>5 DEF vars, rcopyVars, serverVars, networkVars, OneAttempt, NoAttempt, Token,
            Starting
    <2> QED
        BY <2>1, <2>2, <2>3, <2>4, <2>5 DEF Next, Finished
<1> QED
    BY <1>1, <1>2, InvAlways, PTL DEF Spec

(* CopyIsOnDisk: if no time-out strikes while an answer is under way, no   *)
(* datagram comes twice and no write fails, the child that rcopy is        *)
(* accepted by is the last one to have opened the file, and when the end   *)
(* is announced the file is there, retries of FILENAME or not.             *)
THEOREM OnDiskAtEof ==
    ASSUME ~ LateDelivery, ~ Duplicates, ~ ServerFaults
    PROVE  Spec => []CopyIsOnDisk
<1>1. Inv /\ OneAttempt => CopyIsOnDisk
    <2> SUFFICES ASSUME Inv, OneAttempt, rstate \in {"SEND_EOF", "WAIT_EOF_ACK"}
                 PROVE  output = File
        BY DEF CopyIsOnDisk
    <2>1. peer \in Children /\ EOFReached /\ lower = current
        BY DEF Inv, ClientOK, ClientPhase
    <2> QED
        BY <2>1, WholeFile DEF OneAttempt
<1> QED
    BY <1>1, OneAttemptAlways, InvAlways, PTL

-----------------------------------------------------------------------------

(* What AcceptedMeansCopied needs of the world: nobody gives up waiting    *)
(* while an answer is under way, sends fail less often than rcopy tries,   *)
(* the disks work, and the window never wraps around, for a window that    *)
(* has wrapped stays shut.                                                 *)
Benign ==
    /\ ~ LateDelivery /\ ~ Duplicates
    /\ ~ ReadFaults /\ ~ ServerFaults
    /\ MaxErrors < MaxTries
    /\ Len(File) + WindowSize < UintModulus

Receiving(c) == cstate[c] = "receiving"

Sending == rstate \in {"SEND_DATA", "PROCESS_ACKS", "WINDOW_CLOSED"}

(* A child that has answered waits for rcopy's data, and goes on to as     *)
(* long as rcopy may still depend on it.                                   *)
PeerListens ==
    /\ EOFReached => peer \in Children
    /\ \A m \in net \cup inbox :
         m.flag = "FILENAME_RESPONSE" /\ rstate # "DONE" /\ m.src \notin killed =>
           m.num = 0 /\ Receiving(m.src)
    /\ Sending /\ peer \notin killed => Receiving(peer) \/ (EOFReached /\ IsWindowOpen)

(* As long as no send has failed, what the receiver misses is under way,   *)
(* and so is the RR of a receiver that misses nothing.                     *)
IsDataOf(m, seq) == m.flag = "DATA" /\ m.dst = peer /\ m.num = seq

IsRROf(m, seq) == m.flag = "RR" /\ m.dst = Client /\ m.num = seq

AllUnderWay ==
    /\ \A seq \in context[peer].expected .. current - 1 :
         Held(context[peer], seq) \/ \E m \in net : IsDataOf(m, seq)
    /\ context[peer].state = "INORDER" /\ lower < context[peer].expected =>
         \E m \in net \cup inbox : IsRROf(m, context[peer].expected)

NothingLost == errors = 0 /\ peer \in Children /\ Receiving(peer) => AllUnderWay

(* A datagram that breaks the silence rcopy waits in: one for rcopy, or a  *)
(* DATA PDU that the receiver answers, being no longer ahead of the gap.   *)
Stirs(m) ==
    \/ m.dst = Client
    \/ m.flag = "DATA" /\ m.dst = peer /\ m.num <= context[peer].expected

Stirred == \E m \in net \cup inbox : Stirs(m)

(* On a closed window each time-out is due to a send that has failed, and  *)
(* if nothing is under way to end the silence, so is the next.             *)
Patience ==
    /\ rstate \notin {"WINDOW_CLOSED", "DONE"} => timeoutCount = 0
    /\ rstate = "WINDOW_CLOSED" => ~ IsWindowOpen
    /\ rstate = "WINDOW_CLOSED" /\ peer \notin killed =>
         /\ timeoutCount <= errors
         /\ Stirred \/ timeoutCount < errors

(* rcopy ends with everything acknowledged. *)
EndsWell ==
    rstate = "DONE" /\ peer \in Children /\ killed \cap {Client, peer} = {} =>
      EOFReached /\ lower = current

Recovery ==
    /\ \A m, n \in inbox : m = n
    /\ PeerListens
    /\ NothingLost
    /\ Patience
    /\ EndsWell

(* The window, when it cannot wrap around. *)
LEMMA RoomFacts ==
    ASSUME Benign, ClientOK
    PROVE  /\ IsWindowOpen <=> current < lower + WindowSize
           /\ lower = current => IsWindowOpen
           /\ ~ IsWindowOpen => lower < current /\ HasWindowPacket(lower)
<1>1. /\ lower \in Nat /\ current \in Nat /\ current <= Len(File) /\ lower <= current
      /\ Len(File) \in Nat /\ WindowSize \in Nat /\ WindowSize > 0 /\ UintModulus \in Nat
    BY FileIsSent, ConstantFacts
<1>2. WindowInv(StoredPDU, Log)
    BY DEF ClientOK, FileSent
<1>3. IsWindowOpen <=> current < lower + WindowSize
    BY <1>1, <1>2, OpenMeansRoom DEF Benign
<1>4. lower < current => HasWindowPacket(lower)
    <2> SUFFICES ASSUME lower < current PROVE HasWindowPacket(lower)
        OBVIOUS
    <2>1. lower \in lower .. current - 1 /\ lower < Len(File) /\ lower \in SeqNum
        BY <1>1, FileIsSent
    <2>2. packets[Index(lower)] = [active |-> TRUE, seq |-> lower, pdu |-> Log[lower + 1]]
        BY <1>2, <2>1 DEF WindowInv
    <2> QED
        BY <1>1, <2>2 DEF HasWindowPacket
<1> QED
    BY <1>1, <1>3, <1>4

(* What is resent is the DATA PDU of that number. *)
LEMMA ResendIsData ==
    ASSUME Inv, NEW seq \in SeqNum, HasWindowPacket(seq), Resend(seq), server = peer
    PROVE  \E m : SendToErr(net, m) /\ IsDataOf(m, seq)
<1>1. seq \in lower .. current - 1 /\ seq < Len(File)
    BY FileIsSent, ConstantFacts DEF HasWindowPacket, Inv, SeqNum
<1>2. packets[Index(seq)] = [active |-> TRUE, seq |-> seq, pdu |-> Log[seq + 1]]
    BY <1>1 DEF Inv, ClientOK, FileSent, WindowInv
<1>3. GetWindowPacket(seq).num = seq
    <2>1. GetWindowPacket(seq) = [num |-> seq, data |-> File[seq + 1]]
        BY <1>1, <1>2, LogIsStored DEF GetWindowPacket
    <2> QED
        BY <2>1
<1>4. PICK m : m = DataPDU(Client, server, seq, GetWindowPacket(seq).data) /\ SendToErr(net, m)
    BY <1>3 DEF Resend
<1> QED
    BY <1>4, DataFields DEF IsDataOf

(* A closed window on which no send has failed is not silent. *)
LEMMA ClosedIsStirred ==
    ASSUME Benign, Inv, NothingLost, peer \in Children, Receiving(peer), errors = 0,
           ~ IsWindowOpen
    PROVE  Stirred
<1> DEFINE e == context[peer].expected
<1>1. /\ e \in Nat /\ current \in Nat /\ lower \in Nat /\ lower < current
      /\ lower <= e /\ e <= current
    BY RoomFacts, ContextFacts, ExpectedFacts, FileIsSent DEF Inv, ServerOK, ChildInv
<1>2. AllUnderWay
    BY DEF NothingLost
<1>3. CASE e < current
    <2>1. ~ Held(context[peer], e)
        <3>1. Index(e) \in Slot
            BY ExpectedFacts, IndexInSlot DEF Inv
        <3> QED
            BY <1>1, <3>1, ContextFacts DEF SlotsHold, Held
    <2>2. e \in e .. current - 1
        BY <1>1, <1>3
    <2>3. PICK m \in net : IsDataOf(m, e)
        BY <1>2, <2>1, <2>2 DEF AllUnderWay
    <2> QED
        BY <1>1, <2>3 DEF Stirred, Stirs, IsDataOf
<1>4. CASE e = current
    <2>1. context[peer].state = "INORDER"
        <3> SUFFICES ASSUME Gap(context[peer]) PROVE FALSE
            BY ContextFacts DEF Closed
        <3>1. /\ Held(context[peer], context[peer].highest) /\ e < context[peer].highest
              /\ context[peer].highest \in SeqNum
            BY ExpectedFacts DEF Gap, Inv, BufferContext
        <3>2. Index(context[peer].highest) \in Slot
            BY <3>1, IndexInSlot
        <3>3. context[peer].highest < current
            BY <3>1, <3>2, ContextFacts DEF SlotsHold, Held
        <3> QED
            BY <1>1, <1>4, <3>1, <3>3 DEF SeqNum
    <2>2. PICK m \in net \cup inbox : IsRROf(m, e)
        BY <1>1, <1>2, <1>4, <2>1 DEF AllUnderWay
    <2> QED
        BY <2>2 DEF Stirred, Stirs, IsRROf
<1> QED
    BY <1>1, <1>3, <1>4

-----------------------------------------------------------------------------

(* rcopy's steps leave in flight what is not for rcopy.                    *)
LEMMA RcopyConsumes ==
    ASSUME ~ Duplicates, RcopyStep \/ RcopyTimeout \/ Deliver
    PROVE  /\ net \subseteq net' \/ Deliver
           /\ \A m \in net : m \in net' \/ (m.dst = Client /\ inbox' = {m} /\ Deliver)
           /\ ~ Deliver => inbox' = inbox \/ inbox' = {}
<1>1. CASE Deliver
    <2>1. PICK m \in net : /\ m.dst = Client /\ inbox' = {m}
                           /\ \E rest \in Rest(m) : SendNothing(rest)
        BY <1>1 DEF Deliver
    <2>2. net' = net \ {m}
        BY <2>1 DEF Rest, SendNothing
    <2> QED
        BY <1>1, <2>1, <2>2
<1>2. CASE SendFilenameState \/ SendEofState \/ SendDataBlock
    BY <1>2 DEF SendFilenameState, SendEofState, SendDataBlock, SendToErr
<1>3. CASE ProcessAcksRecv \/ WindowClosedTimeout
    BY <1>3 DEF ProcessAcksRecv, WindowClosedTimeout, Resend, SendToErr, SendNothing
<1>4. CASE WaitEofAckRecv \/ WaitEofAckTimeout
    BY <1>4 DEF WaitEofAckRecv, WaitEofAckTimeout, EofTryFailed, SendToErr, SendNothing
<1>5. CASE \/ WaitFilenameAckRecv \/ WaitFilenameAckTimeout
           \/ SendDataAtEOF \/ SendDataWindowClosed \/ SendDataReadError
           \/ SendDataReadEOF \/ ProcessAcksDone \/ WindowClosedReady
    BY <1>5 DEF WaitFilenameAckRecv, WaitFilenameAckTimeout, SendDataAtEOF,
        SendDataWindowClosed, SendDataReadError, SendDataReadEOF, ProcessAcksDone,
        WindowClosedReady, SendNothing
<1> QED
    BY <1>1, <1>2, <1>3, <1>4, <1>5 DEF RcopyStep, RcopyTimeout, SendDataState

(* The number of failed sends only grows. *)
LEMMA ErrorsGrow ==
    ASSUME Inv, NEW STATE rest, NEW m, SendToErr(rest, m) \/ SendNothing(rest)
    PROVE  errors' \in Nat /\ errors \in Nat /\ errors <= errors'
BY ConstantFacts DEF Inv, NetOK, NetworkTypeOK, SendToErr, SendNothing

LEMMA RcopyErrors ==
    ASSUME Inv, RcopyStep \/ RcopyTimeout \/ Deliver
    PROVE  errors' \in Nat /\ errors \in Nat /\ errors <= errors'
<1>1. errors \in Nat
    BY ConstantFacts DEF Inv, NetOK, NetworkTypeOK
<1>2. CASE SendFilenameState \/ SendEofState \/ SendDataBlock
    BY <1>2, ErrorsGrow DEF SendFilenameState, SendEofState, SendDataBlock
<1>3. CASE ProcessAcksRecv \/ WindowClosedTimeout
    BY <1>1, <1>3, ErrorsGrow
    DEF ProcessAcksRecv, WindowClosedTimeout, Resend, SendNothing
<1>4. CASE WaitEofAckRecv \/ WaitEofAckTimeout
    BY <1>1, <1>4, ErrorsGrow
    DEF WaitEofAckRecv, WaitEofAckTimeout, EofTryFailed, SendNothing
<1>5. CASE \/ WaitFilenameAckRecv \/ WaitFilenameAckTimeout \/ Deliver
           \/ SendDataAtEOF \/ SendDataWindowClosed \/ SendDataReadError
           \/ SendDataReadEOF \/ ProcessAcksDone \/ WindowClosedReady
    BY <1>1, <1>5 DEF WaitFilenameAckRecv, WaitFilenameAckTimeout, Deliver, SendDataAtEOF,
        SendDataWindowClosed, SendDataReadError, SendDataReadEOF, ProcessAcksDone,
        WindowClosedReady, SendNothing
<1> QED
    BY <1>2, <1>3, <1>4, <1>5 DEF RcopyStep, RcopyTimeout, SendDataState

(* The upper edge moves with the lower one as long as it does not wrap. *)
LEMMA UpperMoves ==
    ASSUME Benign, NEW a \in SeqNum, NEW b \in SeqNum, a <= b, b <= Len(File)
    PROVE  /\ Plus(a, WindowSize) <= Plus(b, WindowSize)
           /\ Plus(a, WindowSize) \in Nat /\ Plus(b, WindowSize) \in Nat
<1>1. /\ Len(File) + WindowSize < UintModulus /\ Len(File) \in Nat
      /\ WindowSize \in Nat /\ UintModulus \in Nat /\ WindowSize \in 0 .. UintModulus - 1
    BY ConstantFacts DEF Benign
<1>2. a \in Nat /\ b \in Nat /\ a + WindowSize < UintModulus /\ b + WindowSize < UintModulus
    BY <1>1 DEF SeqNum
<1>3. Plus(a, WindowSize) = a + WindowSize /\ Plus(b, WindowSize) = b + WindowSize
    BY <1>1, <1>2, PlusValue
<1> QED
    BY <1>1, <1>2, <1>3

(* A window with nothing left to read stays open. *)
LEMMA StaysOpen ==
    ASSUME Benign, Inv, Inv', EOFReached, IsWindowOpen,
           RcopyStep \/ RcopyTimeout \/ Deliver
    PROVE  EOFReached' /\ IsWindowOpen'
<1> USE DEF windowVars
<1>1. CASE ProcessAcksRecv
    <2>1. PICK m \in inbox : ProcessRR(m.num) \/ UNCHANGED windowVars
        BY <1>1 DEF ProcessAcksRecv
    <2>2. EOFReached' = EOFReached
        BY <1>1 DEF ProcessAcksRecv
    <2>3. CASE ProcessRR(m.num)
        <3>1. m.num \in SeqNum
            BY InboxFacts
        <3>2. WindowInv(StoredPDU, Log)
            BY DEF Inv, ClientOK, FileSent
        <3>3. current' = current /\ lower <= lower' /\ lower' <= current
            BY <2>3, <3>1, <3>2, ProcessRRInv
        <3>4. WindowInv(StoredPDU, Log)'
            BY DEF Inv, ClientOK, FileSent
        <3>5. /\ lower \in SeqNum /\ upper = Plus(lower, WindowSize)
              /\ lower' \in SeqNum /\ upper' = Plus(lower', WindowSize)
            BY <3>2, <3>4 DEF WindowInv, WindowTypeOK
        <3>6. current \in Nat /\ current <= Len(File) /\ lower \in Nat /\ lower' \in Nat
            BY <3>5, FileIsSent DEF Inv, SeqNum
        <3>7. upper <= upper' /\ upper \in Nat /\ upper' \in Nat
            <4>1. lower' <= Len(File) /\ Len(File) \in Nat
                BY <3>3, <3>6, ConstantFacts
            <4> QED
                BY <3>3, <3>5, <4>1, UpperMoves
        <3>8. IsWindowOpen'
            BY <3>3, <3>6, <3>7 DEF IsWindowOpen
        <3> QED
            BY <2>2, <3>8
    <2> QED
        BY <2>1, <2>2, <2>3 DEF IsWindowOpen
<1>2. CASE SendDataState
    BY <1>2 DEF SendDataState, SendDataAtEOF, SendDataWindowClosed, SendDataReadError,
        SendDataReadEOF, SendDataBlock, IsWindowOpen
<1>3. CASE \/ SendFilenameState \/ WaitFilenameAckRecv \/ ProcessAcksDone
           \/ WindowClosedReady \/ SendEofState \/ WaitEofAckRecv \/ WaitFilenameAckTimeout
           \/ WindowClosedTimeout \/ WaitEofAckTimeout \/ Deliver
    BY <1>3 DEF SendFilenameState, WaitFilenameAckRecv, ProcessAcksDone, WindowClosedReady,
        SendEofState, WaitEofAckRecv, WaitFilenameAckTimeout, WindowClosedTimeout,
        WaitEofAckTimeout, EofTryFailed, Deliver, IsWindowOpen
<1> QED
    BY <1>1, <1>2, <1>3 DEF RcopyStep, RcopyTimeout

(* Where rcopy's steps lead. *)
LEMMA RcopyMoves ==
    ASSUME Inv, ~ ReadFaults, RcopyStep \/ RcopyTimeout \/ Deliver
    PROVE  /\ EOFReached' => EOFReached \/ rstate = "SEND_DATA"
           /\ Sending' => \/ Sending /\ peer' = peer
                          \/ \E m \in inbox : m.flag = "FILENAME_RESPONSE" /\ peer' = m.src
           /\ rstate' = "DONE" =>
                \/ rstate \in {"WAIT_FILENAME_ACK", "SEND_EOF", "WAIT_EOF_ACK", "DONE"}
                \/ WindowClosedTimeout
           /\ rstate' = "WINDOW_CLOSED" =>
                \/ SendDataWindowClosed \/ ProcessAcksDone \/ WindowClosedTimeout
                \/ Deliver /\ rstate = "WINDOW_CLOSED"
           /\ rstate' \notin {"WINDOW_CLOSED", "DONE"} =>
                timeoutCount' \in {0, timeoutCount} /\
                (rstate = "WINDOW_CLOSED" => timeoutCount' = 0)
<1>1. CASE SendFilenameState \/ SendEofState
    BY <1>1 DEF SendFilenameState, SendEofState, Sending
<1>2. CASE WaitFilenameAckRecv
    BY <1>2 DEF WaitFilenameAckRecv, Sending
<1>3. CASE SendDataState
    <2>1. AfterEOF \in {"SEND_EOF", "PROCESS_ACKS"}
        BY DEF AfterEOF
    <2>2. CASE SendDataAtEOF
        BY <2>1, <2>2 DEF SendDataAtEOF, Sending
    <2>3. CASE SendDataReadEOF
        BY <2>1, <2>3 DEF SendDataReadEOF, Sending
    <2>4. CASE SendDataWindowClosed
        BY <2>4 DEF SendDataWindowClosed, Sending
    <2>5. CASE SendDataBlock
        BY <2>5 DEF SendDataBlock, Sending
    <2> QED
        BY <1>3, <2>2, <2>3, <2>4, <2>5 DEF SendDataState, SendDataReadError
<1>4. CASE ProcessAcksRecv
    BY <1>4 DEF ProcessAcksRecv, Sending
<1>5. CASE ProcessAcksDone
    BY <1>5 DEF ProcessAcksDone, Sending
<1>6. CASE WindowClosedReady
    BY <1>6 DEF WindowClosedReady, Sending
<1>7. CASE WindowClosedTimeout
    BY <1>7 DEF WindowClosedTimeout, Sending
<1>8. CASE WaitEofAckRecv \/ WaitEofAckTimeout
    BY <1>8 DEF WaitEofAckRecv, WaitEofAckTimeout, EofTryFailed, Sending
<1>9. CASE WaitFilenameAckTimeout
    BY <1>9 DEF WaitFilenameAckTimeout, Sending
<1>10. CASE Deliver
    BY <1>10 DEF Deliver, Sending
<1> QED
    BY <1>1, <1>2, <1>3, <1>4, <1>5, <1>6, <1>7, <1>8, <1>9, <1>10 DEF RcopyStep, RcopyTimeout

(* What rcopy has received was in flight before. *)
LEMMA InboxFromNet ==
    ASSUME ~ Duplicates, RcopyStep \/ RcopyTimeout \/ Deliver
    PROVE  inbox' \subseteq net \cup inbox
<1>1. CASE Deliver
    BY <1>1 DEF Deliver
<1>2. CASE ~ Deliver
    BY <1>2, RcopyConsumes
<1> QED
    BY <1>1, <1>2

LEMMA ClientListens ==
    ASSUME Benign, Inv, Inv', OneAttempt, PeerListens, UNCHANGED <<serverVars, killed>>,
           RcopyStep \/ RcopyTimeout \/ Deliver
    PROVE  PeerListens'
<1>1. ~ Duplicates /\ ~ ReadFaults
    BY DEF Benign
<1>2. UNCHANGED cstate /\ UNCHANGED killed
    BY DEF serverVars
<1>3. EOFReached' => peer' \in Children
    <2>1. EOFReached' => EOFReached \/ rstate = "SEND_DATA"
        BY <1>1, RcopyMoves
    <2>2. EOFReached' => peer \in Children
        BY <2>1 DEF PeerListens, Inv, ClientOK, ClientPhase
    <2>3. peer' = peer \/ (peer = Main /\ peer' \in Children)
        BY LowerMoves
    <2> QED
        BY <2>2, <2>3
<1>4. ASSUME NEW m \in net' \cup inbox', m.flag = "FILENAME_RESPONSE", rstate' # "DONE",
             m.src \notin killed'
      PROVE  m.num = 0 /\ Receiving(m.src)'
    <2>1. m \in net \cup inbox
        <3>1. m \notin net' \ net
            <4>1. SUFFICES ASSUME m \in net' \ net PROVE FALSE
                OBVIOUS
            <4>2. SendFilenameState
                BY <1>4, <4>1, RcopySends
            <4>3. SendToErr(net, ControlPDU(Client, server, "FILENAME", 0))
                BY <4>2 DEF SendFilenameState
            <4>4. \/ m = ControlPDU(Client, server, "FILENAME", 0)
                  \/ m = Corrupted(ControlPDU(Client, server, "FILENAME", 0))
                BY <4>1, <4>3, NewFacts
            <4> QED
                BY <1>4, <4>4, ControlFields DEF Corrupted
        <3> QED
            BY <1>1, <3>1, InboxFromNet
    <2>2. rstate # "DONE"
        BY <1>4, LowerMoves
    <2> QED
        BY <1>2, <1>4, <2>1, <2>2 DEF PeerListens, Receiving
<1>5. ASSUME Sending', peer' \notin killed'
      PROVE  Receiving(peer)' \/ (EOFReached' /\ IsWindowOpen')
    <2>1. CASE Sending /\ peer' = peer
        <3>1. Receiving(peer) \/ (EOFReached /\ IsWindowOpen)
            BY <1>2, <1>5, <2>1 DEF PeerListens
        <3>2. CASE Receiving(peer)
            BY <1>2, <2>1, <3>2 DEF Receiving
        <3>3. CASE EOFReached /\ IsWindowOpen
            BY <3>3, StaysOpen
        <3> QED
            BY <3>1, <3>2, <3>3
    <2>2. ASSUME NEW m \in inbox, m.flag = "FILENAME_RESPONSE", peer' = m.src
          PROVE  Receiving(peer)'
        <3>1. rstate # "DONE"
            BY <1>5, LowerMoves DEF Sending
        <3>2. Receiving(m.src)
            BY <1>2, <1>5, <2>2, <3>1 DEF PeerListens
        <3> QED
            BY <1>2, <2>2, <3>2 DEF Receiving
    <2> QED
        BY <1>1, <1>5, <2>1, <2>2, RcopyMoves
<1> QED
    BY <1>3, <1>4, <1>5 DEF PeerListens

(* The acknowledgement of a receiver that misses nothing closes the gap    *)
(* between its window and rcopy's.                                         *)
LEMMA AcknowledgesAll ==
    ASSUME Inv, peer \in Children, ProcessRR(context[peer].expected)
    PROVE  lower' = context[peer].expected
<1>1. /\ context[peer].expected \in Nat /\ lower \in Nat /\ current \in Nat
      /\ lower <= context[peer].expected /\ context[peer].expected <= current
    BY ExpectedFacts, ContextFacts, FileIsSent DEF Inv, ServerOK, ChildInv
<1> QED
    BY <1>1 DEF ProcessRR, Acknowledged, windowVars

(* An RR of the accepted receiver that rcopy takes from its socket is not  *)
(* lost: rcopy acts on it, or has no use for it.                           *)
LEMMA TakesRR ==
    ASSUME Inv, \A m, n \in inbox : m = n, peer \in Children,
           RcopyStep \/ RcopyTimeout \/ Deliver,
           NEW m \in inbox, IsRROf(m, context[peer].expected), m \notin inbox'
    PROVE  lower' = context[peer].expected \/ lower = context[peer].expected
<1>1. m.flag = "RR" /\ m.num = context[peer].expected
    BY DEF IsRROf
<1>2. CASE ProcessAcksRecv
    <2>1. PICK n \in inbox : n.flag = "RR" => ProcessRR(n.num)
        BY <1>2 DEF ProcessAcksRecv
    <2>2. n = m
        BY <2>1
    <2> QED
        BY <1>1, <2>1, <2>2, AcknowledgesAll
<1>3. CASE WaitEofAckRecv
    <2>1. lower = current
        BY <1>3 DEF WaitEofAckRecv, Inv, ClientOK, ClientPhase
    <2>2. /\ context[peer].expected \in Nat /\ lower \in Nat /\ current \in Nat
          /\ lower <= context[peer].expected /\ context[peer].expected <= current
        BY ExpectedFacts, ContextFacts, FileIsSent DEF Inv, ServerOK, ChildInv
    <2> QED
        BY <2>1, <2>2
<1>4. CASE WaitFilenameAckRecv
    BY <1>4, ConstantFacts DEF WaitFilenameAckRecv, Inv, ClientOK, ClientPhase
<1>5. CASE \/ SendFilenameState \/ SendDataState \/ ProcessAcksDone \/ WindowClosedReady
           \/ SendEofState \/ RcopyTimeout \/ Deliver
    <2>1. UNCHANGED inbox \/ inbox = {}
        BY <1>5 DEF SendFilenameState, SendDataState, SendDataAtEOF, SendDataWindowClosed,
            SendDataReadError, SendDataReadEOF, SendDataBlock, ProcessAcksDone,
            WindowClosedReady, SendEofState, RcopyTimeout, WaitFilenameAckTimeout,
            WindowClosedTimeout, WaitEofAckTimeout, Deliver
    <2> QED
        BY <2>1
<1> QED
    BY <1>2, <1>3, <1>4, <1>5 DEF RcopyStep

(* The block that is new in the window is under way, too. *)
LEMMA BlockIsSent ==
    ASSUME Inv, RcopyStep \/ RcopyTimeout \/ Deliver, errors' = errors,
           NEW seq \in Nat, current <= seq, seq < current'
    PROVE  \E m \in net' : IsDataOf(m, seq)
<1>1. SendDataBlock
    <2>1. current' # current
        BY FileIsSent DEF Inv
    <2>2. CASE ProcessAcksRecv
        BY <2>1, <2>2 DEF ProcessAcksRecv, ProcessRR, windowVars
    <2>3. CASE \/ SendFilenameState \/ WaitFilenameAckRecv \/ ProcessAcksDone
               \/ WindowClosedReady \/ SendEofState \/ WaitEofAckRecv
               \/ RcopyTimeout \/ Deliver
        BY <2>1, <2>3 DEF SendFilenameState, WaitFilenameAckRecv, ProcessAcksDone,
            WindowClosedReady, SendEofState, WaitEofAckRecv, RcopyTimeout, Deliver,
            WaitFilenameAckTimeout, WindowClosedTimeout, WaitEofAckTimeout, EofTryFailed,
            windowVars
    <2> QED
        BY <2>1, <2>2, <2>3 DEF RcopyStep, SendDataState, SendDataAtEOF,
            SendDataWindowClosed, SendDataReadError, SendDataReadEOF, windowVars
<1>2. /\ current' = Plus(current, 1) /\ server = peer /\ errors \in Nat
      /\ SendToErr(net, DataPDU(Client, server, current, File[offset']))
    BY <1>1, ConstantFacts DEF SendDataBlock, WindowAddPacket, Inv, ClientOK, ClientPhase,
        NetOK, NetworkTypeOK
<1>3. seq = current
    <2>1. current \in SeqNum /\ current \in Nat /\ 1 \in 0 .. UintModulus - 1
        BY FileIsSent, ConstantFacts DEF Inv
    <2>2. current' = current + 1 \/ current' = current + 1 - UintModulus
        BY <1>2, <2>1, PlusValue, ConstantFacts
    <2> QED
        BY <2>1, <2>2, ConstantFacts
<1>4. PICK m : m = DataPDU(Client, server, current, File[offset']) /\ SendToErr(net, m)
    BY <1>2
<1>5. m \in net'
    BY <1>2, <1>4 DEF SendToErr
<1> QED
    BY <1>2, <1>3, <1>4, <1>5, DataFields DEF IsDataOf

(* When rcopy is accepted nothing has been sent, and nothing is missed. *)
LEMMA AcceptedMissesNothing ==
    ASSUME Inv, Inv', UNCHANGED <<context, current, lower>>, peer = Main, peer' \in Children
    PROVE  AllUnderWay'
<1>1. context[peer'] = BufferInit(NoData)
    BY ConstantFacts DEF Inv, ServerOK, ChildInv
<1>2. current = 0 /\ lower \in Nat
    BY FileIsSent, ConstantFacts DEF Inv, ClientOK, ClientPhase
<1>3. context'[peer'].expected = 0
    BY <1>1 DEF BufferInit
<1> QED
    BY <1>2, <1>3 DEF AllUnderWay

(* rcopy's lower edge never moves back. *)
LEMMA LowerGrows ==
    ASSUME Inv, Inv', RcopyStep \/ RcopyTimeout \/ Deliver
    PROVE  lower \in Nat /\ lower' \in Nat /\ lower <= lower'
<1>1. lower \in Nat /\ lower' \in Nat
    BY FileIsSent DEF Inv, ClientOK, FileSent, WindowInv, WindowTypeOK, SeqNum
<1>2. CASE UNCHANGED lower
    BY <1>1, <1>2
<1>3. CASE rstate = "PROCESS_ACKS" /\ UNCHANGED <<rstate, peer>>
    <2>1. ProcessAcksRecv \/ UNCHANGED lower
        BY <1>3 DEF RcopyStep, RcopyTimeout, SendFilenameState, WaitFilenameAckRecv,
            SendDataState, SendDataAtEOF, SendDataWindowClosed, SendDataReadError,
            SendDataReadEOF, SendDataBlock, ProcessAcksDone, WindowClosedReady, SendEofState,
            WaitEofAckRecv, WaitFilenameAckTimeout, WindowClosedTimeout, WaitEofAckTimeout,
            Deliver, windowVars
    <2>2. CASE ProcessAcksRecv
        <3>1. PICK m \in inbox : ProcessRR(m.num) \/ UNCHANGED windowVars
            BY <2>2 DEF ProcessAcksRecv
        <3>2. WindowInv(StoredPDU, Log) /\ m.num \in SeqNum
            BY InboxFacts DEF Inv, ClientOK, FileSent
        <3>3. CASE ProcessRR(m.num)
            BY <1>1, <3>2, <3>3, ProcessRRInv
        <3>4. CASE UNCHANGED windowVars
            BY <1>1, <3>4 DEF windowVars
        <3> QED
            BY <3>1, <3>3, <3>4
    <2> QED
        BY <1>1, <2>1, <2>2
<1> QED
    BY <1>1, <1>2, <1>3, LowerMoves

LEMMA ClientLosesNothing ==
    ASSUME Benign, Inv, Inv', Recovery, UNCHANGED <<serverVars, killed>>,
           RcopyStep \/ RcopyTimeout \/ Deliver
    PROVE  NothingLost'
<1> SUFFICES ASSUME errors' = 0, peer' \in Children, Receiving(peer)'
             PROVE  AllUnderWay'
    BY DEF NothingLost
<1>1. /\ errors = 0 /\ errors' = errors /\ ~ Duplicates
      /\ UNCHANGED context /\ UNCHANGED cstate
    BY RcopyErrors DEF Benign, serverVars
<1>2. CASE peer = Main
    <2>1. UNCHANGED <<current, lower>>
        <3>1. WaitFilenameAckRecv
            BY <1>2, ConstantFacts DEF RcopyStep, RcopyTimeout, SendFilenameState, SendDataState,
                SendDataAtEOF, SendDataWindowClosed, SendDataReadError, SendDataReadEOF,
                SendDataBlock, ProcessAcksRecv, ProcessAcksDone, WindowClosedReady,
                SendEofState, WaitEofAckRecv, WaitFilenameAckTimeout, WindowClosedTimeout,
                WaitEofAckTimeout, Deliver
        <3> QED
            BY <3>1 DEF WaitFilenameAckRecv, windowVars
    <2> QED
        BY <1>1, <1>2, <2>1, AcceptedMissesNothing
<1>3. CASE peer # Main
    <2>1. peer \in Children /\ peer' = peer
        BY <1>3, LowerMoves DEF Inv, ClientOK, ClientPhase
    <2>2. AllUnderWay
        BY <1>1, <2>1 DEF Recovery, NothingLost, Receiving
    <2>3. ASSUME NEW seq \in context[peer].expected .. current' - 1
          PROVE  Held(context[peer], seq) \/ \E m \in net' : IsDataOf(m, seq)
        <3>1. context[peer].expected \in Nat /\ current \in Nat /\ current' \in Nat
            BY <2>1, ExpectedFacts, FileIsSent DEF Inv, ClientOK, FileSent, WindowInv,
                WindowTypeOK, SeqNum
        <3>2. CASE seq < current
            <4>1. seq \in context[peer].expected .. current - 1
                BY <3>1, <3>2
            <4>2. SUFFICES ASSUME NEW m \in net, IsDataOf(m, seq)
                           PROVE  m \in net'
                BY <2>2, <4>1 DEF AllUnderWay
            <4>3. m.dst # Client
                BY <2>1, <4>2, ConstantFacts DEF IsDataOf
            <4> QED
                BY <1>1, <4>3, RcopyConsumes
        <3>3. seq \in Nat /\ seq < current'
            <4>1. PICK next \in Nat : next = current'
                BY <3>1
            <4>2. seq \in context[peer].expected .. next - 1
                BY <4>1
            <4>3. seq \in Nat /\ seq < next
                BY <3>1, <4>2
            <4> QED
                BY <4>1, <4>3
        <3>4. CASE current <= seq
            BY <1>1, <3>3, <3>4, BlockIsSent
        <3> QED
            BY <3>1, <3>2, <3>3, <3>4
    <2>4. ASSUME context[peer].state = "INORDER", lower' < context[peer].expected
          PROVE  \E m \in net' \cup inbox' : IsRROf(m, context[peer].expected)
        <3>1. lower < context[peer].expected /\ lower' # context[peer].expected
            <4>1. /\ lower \in Nat /\ lower' \in Nat /\ lower <= lower'
                  /\ context[peer].expected \in Nat
                BY <2>1, LowerGrows, ExpectedFacts DEF Inv
            <4> QED
                BY <2>4, <4>1
        <3>2. PICK m \in net \cup inbox : IsRROf(m, context[peer].expected)
            BY <2>2, <2>4, <3>1 DEF AllUnderWay
        <3>3. CASE m \in net
            BY <1>1, <3>2, <3>3, RcopyConsumes
        <3>4. CASE m \in inbox
            <4>1. lower # context[peer].expected
                BY <2>1, <3>1, ExpectedFacts, FileIsSent DEF Inv
            <4>2. m \in inbox'
                BY <2>1, <3>1, <3>2, <3>4, <4>1, TakesRR DEF Recovery
            <4> QED
                BY <3>2, <4>2
        <3> QED
            BY <3>2, <3>3, <3>4
    <2>5. context'[peer'] = context[peer]
        BY <1>1, <2>1
    <2> QED
        BY <2>1, <2>3, <2>4, <2>5 DEF AllUnderWay, IsDataOf, IsRROf
<1> QED
    BY <1>2, <1>3

(* In silence nothing is under way that would break it. *)
LEMMA SilenceIsReal ==
    ASSUME Inv, RcopyMayTimeOut, ~ LateDelivery, rstate = "WINDOW_CLOSED", Receiving(peer)
    PROVE  ~ Stirred
<1>1. InFlight = {} /\ peer \in Children
    BY DEF RcopyMayTimeOut, Inv, ClientOK, ClientPhase
<1>2. Reads(Client) /\ Reads(peer)
    BY <1>1 DEF Reads, Receiving
<1> QED
    BY <1>1, <1>2 DEF Stirred, Stirs, InFlight

(* A time-out on a closed window: the resent PDU breaks the silence, unless*)
(* its sending fails.                                                      *)
LEMMA TimeoutStirs ==
    ASSUME Benign, Inv, Recovery, UNCHANGED <<serverVars, killed>>,
           RcopyMayTimeOut, WindowClosedTimeout, peer \notin killed
    PROVE  /\ rstate' = "WINDOW_CLOSED"
           /\ timeoutCount' <= errors'
           /\ Stirred' \/ timeoutCount' < errors'
<1>1. /\ rstate = "WINDOW_CLOSED" /\ timeoutCount' = timeoutCount + 1
      /\ rstate' = IF timeoutCount' >= MaxTries THEN "DONE" ELSE "WINDOW_CLOSED"
      /\ IF HasWindowPacket(lower) THEN Resend(lower) ELSE SendNothing(net)
      /\ UNCHANGED <<peer, server, context>>
    BY DEF WindowClosedTimeout, serverVars
<1>2. ~ LateDelivery /\ ~ IsWindowOpen /\ server = peer /\ peer \in Children
    BY <1>1 DEF Benign, Recovery, Patience, Inv, ClientOK, ClientPhase
<1>3. Receiving(peer)
    BY <1>1, <1>2 DEF Recovery, PeerListens, Sending
<1>4. /\ timeoutCount \in Nat /\ errors \in Nat /\ MaxErrors \in Nat /\ MaxTries \in Nat
      /\ errors <= MaxErrors /\ MaxErrors < MaxTries
    BY ConstantFacts DEF Benign, Inv, ClientOK, RcopyTypeOK, NetOK, NetworkTypeOK
<1>5. timeoutCount < errors
    BY <1>1, <1>2, <1>3, SilenceIsReal DEF Recovery, Patience
<1>6. HasWindowPacket(lower) /\ lower \in SeqNum
    BY <1>2, RoomFacts, FileIsSent DEF Inv
<1>7. PICK m : SendToErr(net, m) /\ IsDataOf(m, lower)
    BY <1>1, <1>2, <1>6, ResendIsData
<1>8. errors <= errors' /\ errors' \in Nat
    BY <1>7, ErrorsGrow
<1>9. timeoutCount' <= errors /\ timeoutCount' \in Nat /\ timeoutCount' < MaxTries
    BY <1>1, <1>4, <1>5
<1>10. CASE m \in net'
    <2>1. lower <= context[peer].expected
        BY <1>2 DEF Inv, ServerOK, ChildInv
    <2>2. Stirs(m)'
        BY <1>1, <1>7, <2>1 DEF Stirs, IsDataOf
    <2> QED
        BY <1>1, <1>4, <1>8, <1>9, <1>10, <2>2 DEF Stirred
<1>11. CASE errors' = errors + 1
    BY <1>1, <1>4, <1>9, <1>11
<1> QED
    BY <1>7, <1>10, <1>11 DEF SendToErr

LEMMA ClientIsPatient ==
    ASSUME Benign, Inv, Inv', Recovery, UNCHANGED <<serverVars, killed>>,
           RcopyStep \/ (RcopyMayTimeOut /\ RcopyTimeout) \/ Deliver
    PROVE  Patience'
<1>1. ~ ReadFaults /\ ~ Duplicates /\ UNCHANGED <<context, cstate, killed>>
    BY DEF Benign, serverVars
<1>2. rstate' \notin {"WINDOW_CLOSED", "DONE"} => timeoutCount' = 0
    <2>1. rstate' \notin {"WINDOW_CLOSED", "DONE"} => rstate # "DONE"
        BY LowerMoves
    <2> QED
        BY <1>1, <2>1, RcopyMoves DEF Recovery, Patience
<1>3. ASSUME rstate' = "WINDOW_CLOSED"
      PROVE  /\ ~ IsWindowOpen'
             /\ peer' \notin killed' =>
                  /\ timeoutCount' <= errors'
                  /\ Stirred' \/ timeoutCount' < errors'
    <2>1. CASE Deliver
        <3>1. /\ rstate = "WINDOW_CLOSED" /\ UNCHANGED <<timeoutCount, peer, windowVars>>
              /\ \E m \in net : m.dst = Client /\ inbox' = {m}
              /\ errors' = errors
            BY <1>3, <2>1 DEF Deliver, SendNothing
        <3>2. ~ IsWindowOpen'
            BY <3>1 DEF Recovery, Patience, IsWindowOpen, windowVars
        <3>3. Stirred'
            BY <3>1 DEF Stirred, Stirs
        <3>4. peer' \notin killed' => timeoutCount' <= errors'
            BY <1>1, <3>1 DEF Recovery, Patience
        <3> QED
            BY <3>2, <3>3, <3>4
    <2>2. CASE SendDataWindowClosed \/ ProcessAcksDone
        <3>1. /\ Sending /\ ~ IsWindowOpen /\ timeoutCount' = 0
              /\ UNCHANGED <<peer, windowVars, net, inbox, errors>>
            BY <1>3, <2>2 DEF SendDataWindowClosed, ProcessAcksDone, SendNothing, Sending,
                Recovery, Patience
        <3>2. ~ IsWindowOpen'
            BY <3>1 DEF IsWindowOpen, windowVars
        <3>3. errors \in Nat /\ peer \in Children
            BY <3>1, ConstantFacts DEF Inv, NetOK, NetworkTypeOK, ClientOK, ClientPhase, Sending
        <3>4. ASSUME peer \notin killed, errors = 0
              PROVE  Stirred'
            <4>1. Receiving(peer)
                BY <3>1, <3>4 DEF Recovery, PeerListens
            <4>2. Stirred
                BY <3>1, <3>3, <3>4, <4>1, ClosedIsStirred DEF Recovery
            <4> QED
                BY <1>1, <3>1, <4>2 DEF Stirred, Stirs
        <3>5. peer' = peer /\ killed' = killed
            BY <1>1, <3>1
        <3>6. errors' \in Nat /\ (errors' = 0 => errors = 0)
            BY <3>1, <3>3
        <3> QED
            BY <3>1, <3>2, <3>4, <3>5, <3>6
    <2>3. CASE RcopyMayTimeOut /\ WindowClosedTimeout
        <3>1. rstate = "WINDOW_CLOSED" /\ UNCHANGED <<peer, windowVars>>
            BY <2>3 DEF WindowClosedTimeout
        <3>2. ~ IsWindowOpen'
            BY <3>1 DEF Recovery, Patience, IsWindowOpen, windowVars
        <3>3. peer' = peer /\ killed' = killed
            BY <1>1, <3>1
        <3> QED
            BY <2>3, <3>2, <3>3, TimeoutStirs
    <2>4. WindowClosedTimeout => RcopyMayTimeOut
        <3>1. ASSUME WindowClosedTimeout, RcopyStep \/ Deliver PROVE FALSE
            BY <3>1 DEF WindowClosedTimeout, RcopyStep, Deliver, SendFilenameState,
                WaitFilenameAckRecv, SendDataState, SendDataAtEOF, SendDataWindowClosed,
                SendDataReadError, SendDataReadEOF, SendDataBlock, ProcessAcksRecv,
                ProcessAcksDone, WindowClosedReady, SendEofState, WaitEofAckRecv
        <3> QED
            BY <3>1
    <2>5. \/ SendDataWindowClosed \/ ProcessAcksDone \/ WindowClosedTimeout \/ Deliver
        BY <1>1, <1>3, RcopyMoves
    <2> QED
        BY <2>1, <2>2, <2>3, <2>4, <2>5
<1> QED
    BY <1>2, <1>3 DEF Patience

LEMMA ClientEndsWell ==
    ASSUME Benign, Inv, Inv', Recovery, UNCHANGED <<serverVars, killed>>,
           RcopyStep \/ (RcopyMayTimeOut /\ RcopyTimeout) \/ Deliver
    PROVE  EndsWell'
<1> SUFFICES ASSUME rstate' = "DONE", peer' \in Children,
                    killed' \cap {Client, peer'} = {}
             PROVE  EOFReached' /\ lower' = current'
    BY DEF EndsWell
<1>1. killed' = killed
    OBVIOUS
<1>2. CASE rstate = "DONE"
    <2>1. UNCHANGED <<rstate, EOFReached, lower, current>> /\ peer' = peer
        BY <1>2, LowerMoves DEF RcopyStep, RcopyTimeout, Deliver, SendFilenameState,
            WaitFilenameAckRecv, SendDataState, SendDataAtEOF, SendDataWindowClosed,
            SendDataReadError, SendDataReadEOF, SendDataBlock, ProcessAcksRecv,
            ProcessAcksDone, WindowClosedReady, SendEofState, WaitEofAckRecv,
            WaitFilenameAckTimeout, WindowClosedTimeout, WaitEofAckTimeout
    <2> QED
        BY <1>1, <1>2, <2>1 DEF Recovery, EndsWell
<1>3. CASE rstate \in {"SEND_EOF", "WAIT_EOF_ACK"}
    BY <1>3, LowerMoves DEF Inv, ClientOK, ClientPhase
<1>4. CASE rstate = "WAIT_FILENAME_ACK"
    <2>1. peer = Main
        BY <1>4 DEF Inv, ClientOK, ClientPhase
    <2>2. WaitFilenameAckRecv \/ WaitFilenameAckTimeout
        BY <1>4 DEF RcopyStep, RcopyTimeout, Deliver, SendFilenameState,
            SendDataState, SendDataAtEOF, SendDataWindowClosed,
            SendDataReadError, SendDataReadEOF, SendDataBlock, ProcessAcksRecv,
            ProcessAcksDone, WindowClosedReady, SendEofState, WaitEofAckRecv,
            WindowClosedTimeout, WaitEofAckTimeout
    <2>3. peer' = Main
        BY <2>1, <2>2 DEF WaitFilenameAckRecv, WaitFilenameAckTimeout
    <2> QED
        BY <2>3, ConstantFacts
<1>5. CASE WindowClosedTimeout
    <2>1. peer' = peer /\ rstate = "WINDOW_CLOSED"
        BY <1>5 DEF WindowClosedTimeout
    <2>2. RcopyMayTimeOut
        BY <2>1, <1>5 DEF WindowClosedTimeout, RcopyStep, Deliver, SendFilenameState,
            WaitFilenameAckRecv, SendDataState, SendDataAtEOF, SendDataWindowClosed,
            SendDataReadError, SendDataReadEOF, SendDataBlock, ProcessAcksRecv,
            ProcessAcksDone, WindowClosedReady, SendEofState, WaitEofAckRecv
    <2> QED
        BY <1>1, <1>5, <2>1, <2>2, TimeoutStirs
<1> QED
    BY <1>2, <1>3, <1>4, <1>5, RcopyMoves DEF Benign

(* rcopy's steps. *)
LEMMA ClientRecovers ==
    ASSUME Benign, Inv, Inv', OneAttempt, Recovery, ClientStep \/ ClientTimeout \/ Delivery
    PROVE  Recovery'
<1>1. /\ UNCHANGED <<serverVars, killed>>
      /\ RcopyStep \/ (RcopyMayTimeOut /\ RcopyTimeout) \/ Deliver
    BY DEF ClientStep, ClientTimeout, Delivery
<1>2. PeerListens' /\ NothingLost' /\ Patience' /\ EndsWell'
    BY <1>1, ClientListens, ClientLosesNothing, ClientIsPatient, ClientEndsWell DEF Recovery
<1>3. \A m, n \in inbox' : m = n
    <2>1. CASE Deliver
        BY <2>1 DEF Deliver
    <2>2. CASE ~ Deliver
        BY <1>1, <2>2, RcopyConsumes DEF Benign, Recovery
    <2> QED
        BY <2>1, <2>2
<1> QED
    BY <1>2, <1>3 DEF Recovery

-----------------------------------------------------------------------------

(* A response is on its way to rcopy from a child. *)
LEMMA ResponseFromChild ==
    ASSUME Inv, OneAttempt, NEW m \in net \cup inbox, m.flag = "FILENAME_RESPONSE"
    PROVE  m.dst = Client /\ m.src \in Children /\ peer \notin Children
<1>1. m.dst = Client
    BY DEF OneAttempt, Inv, NetOK, NetInv
<1> QED
    BY <1>1 DEF OneAttempt, NoAttempt, Token, Inv, NetOK, NetInv, MessageInv

(* A step of the server after which every child that listened goes on to,  *)
(* or rcopy has no more to wait for.                                       *)
LEMMA ListensStill ==
    ASSUME Inv, OneAttempt, PeerListens, UNCHANGED <<rcopyVars, killed>>,
           \A m \in net' \ net : m.flag # "FILENAME_RESPONSE",
           \/ \A c \in Children : cstate[c] = "receiving" => cstate'[c] = "receiving"
           \/ EOFReached /\ IsWindowOpen
    PROVE  PeerListens'
<1>1. /\ UNCHANGED <<rstate, inbox, EOFReached, peer>> /\ UNCHANGED killed
      /\ UNCHANGED <<current, upper>>
    BY DEF rcopyVars, windowVars
<1>2. EOFReached' => peer' \in Children
    BY <1>1 DEF PeerListens
<1>3. ASSUME NEW m \in net' \cup inbox', m.flag = "FILENAME_RESPONSE", rstate' # "DONE",
             m.src \notin killed'
      PROVE  m.num = 0 /\ Receiving(m.src)'
    <2>1. m \in net \cup inbox
        BY <1>1, <1>3
    <2>2. m.num = 0 /\ cstate[m.src] = "receiving"
        BY <1>1, <1>3, <2>1 DEF PeerListens, Receiving
    <2>3. m.src \in Children /\ ~ EOFReached
        BY <1>3, <2>1, ResponseFromChild DEF PeerListens
    <2> QED
        BY <2>2, <2>3 DEF Receiving
<1>4. ASSUME Sending', peer' \notin killed'
      PROVE  Receiving(peer)' \/ (EOFReached' /\ IsWindowOpen')
    <2>1. Sending /\ peer \notin killed
        BY <1>1, <1>4 DEF Sending
    <2>2. peer \in Children
        BY <2>1 DEF Sending, Inv, ClientOK, ClientPhase
    <2>3. cstate[peer] = "receiving" \/ (EOFReached /\ IsWindowOpen)
        BY <2>1 DEF PeerListens, Receiving
    <2>4. CASE EOFReached /\ IsWindowOpen
        BY <1>1, <2>4 DEF IsWindowOpen
    <2>5. CASE cstate'[peer] = "receiving"
        BY <1>1, <2>5 DEF Receiving
    <2> QED
        BY <2>2, <2>3, <2>4, <2>5
<1> QED
    BY <1>2, <1>3, <1>4 DEF PeerListens

(* What rcopy depends on: answers, and its data. *)
Matters(m) == m.dst = Client \/ (m.flag = "DATA" /\ m.dst = peer /\ peer \in Children)

(* A step of the server that leaves the receivers' buffers alone, and in   *)
(* flight what rcopy depends on.                                           *)
LEMMA OthersKeep ==
    ASSUME Inv, Recovery, PeerListens', UNCHANGED <<rcopyVars, killed, context>>,
           errors' \in Nat, errors <= errors',
           cstate'[peer] = "receiving" /\ peer \in Children => cstate[peer] = "receiving",
           \/ \A m \in net : Matters(m) => m \in net'
           \/ IsWindowOpen /\ cstate'[peer] # "receiving"
    PROVE  Recovery'
<1>1. /\ UNCHANGED <<rstate, inbox, EOFReached, timeoutCount, peer, lower, current, upper>>
      /\ UNCHANGED killed /\ UNCHANGED context /\ errors \in Nat
    BY ConstantFacts DEF rcopyVars, windowVars, Inv, NetOK, NetworkTypeOK
<1>2. IsWindowOpen' <=> IsWindowOpen
    BY <1>1 DEF IsWindowOpen
<1>3. NothingLost'
    <2> SUFFICES ASSUME errors' = 0, peer' \in Children, Receiving(peer)'
                 PROVE  AllUnderWay'
        BY DEF NothingLost
    <2>1. cstate'[peer] = "receiving"
        BY <1>1 DEF Receiving
    <2>2. errors = 0 /\ peer \in Children /\ Receiving(peer)
        BY <1>1, <2>1 DEF Receiving
    <2>3. AllUnderWay
        BY <2>2 DEF Recovery, NothingLost
    <2>4. ASSUME NEW m \in net, m.dst = Client \/ (m.flag = "DATA" /\ m.dst = peer)
          PROVE  m \in net'
        BY <2>1, <2>2, <2>4 DEF Matters
    <2> QED
        BY <1>1, <2>3, <2>4 DEF AllUnderWay, IsDataOf, IsRROf
<1>4. Patience'
    <2>1. rstate' = "WINDOW_CLOSED" => ~ IsWindowOpen'
        BY <1>1, <1>2 DEF Recovery, Patience
    <2>2. ASSUME rstate' = "WINDOW_CLOSED", peer' \notin killed'
          PROVE  timeoutCount' <= errors' /\ (Stirred' \/ timeoutCount' < errors')
        <3>1. ~ IsWindowOpen /\ peer \in Children
            BY <1>1, <2>2 DEF Recovery, Patience, Inv, ClientOK, ClientPhase
        <3>2. timeoutCount <= errors /\ (Stirred \/ timeoutCount < errors)
            BY <1>1, <2>2 DEF Recovery, Patience
        <3>3. Stirred => Stirred'
            BY <1>1, <3>1 DEF Stirred, Stirs, Matters
        <3>4. timeoutCount \in Nat
            BY ConstantFacts DEF Inv, ClientOK, RcopyTypeOK
        <3>5. timeoutCount <= errors' /\ (timeoutCount < errors => timeoutCount < errors')
            BY <1>1, <3>2, <3>4
        <3> QED
            BY <1>1, <3>2, <3>3, <3>5
    <2> QED
        BY <1>1, <2>1, <2>2 DEF Recovery, Patience
<1>5. EndsWell'
    BY <1>1 DEF Recovery, EndsWell
<1> QED
    BY <1>1, <1>3, <1>4, <1>5 DEF Recovery

LEMMA MainRecovers ==
    ASSUME Benign, Inv, OneAttempt, Recovery, MainStep
    PROVE  Recovery'
<1>1. PICK m \in net : /\ m.dst = Main
                       /\ \E rest \in Rest(m) : SendNothing(rest)
                       /\ \/ \E c \in Children : /\ cstate[c] = "idle"
                                                 /\ cstate' = [cstate EXCEPT ![c] = "starting"]
                          \/ UNCHANGED cstate
    BY DEF MainStep, MainRecv
<1>2. net' = net \ {m} /\ errors' = errors /\ errors \in Nat
    BY <1>1, ConstantFacts DEF Benign, Rest, SendNothing, Inv, NetOK, NetworkTypeOK
<1>3. UNCHANGED <<rcopyVars, killed, context>>
    BY DEF MainStep, MainRecv
<1>4. \A c \in Children : cstate'[c] = "receiving" <=> cstate[c] = "receiving"
    BY <1>1 DEF Inv, ServerOK, ServerTypeOK
<1>5. ASSUME NEW n \in net, Matters(n)
      PROVE  n \in net'
    BY <1>1, <1>2, <1>5, ConstantFacts DEF Matters
<1>6. PeerListens'
    BY <1>2, <1>3, <1>4, ListensStill DEF Recovery
<1> QED
    BY <1>2, <1>3, <1>4, <1>5, <1>6, OthersKeep

LEMMA KillRecovers ==
    ASSUME Inv, OneAttempt, Recovery, KillRcopy \/ \E c \in Children : KillChild(c)
    PROVE  Recovery'
<1>1. CASE KillRcopy
    <2>1. /\ rstate' = "DONE" /\ killed' = killed \cup {Client}
          /\ UNCHANGED <<inbox, EOFReached, peer, lower, current, cstate, context, net, errors>>
        BY <1>1 DEF KillRcopy, windowVars, serverVars, networkVars
    <2>2. PeerListens'
        BY <2>1 DEF Recovery, PeerListens, Sending
    <2>3. NothingLost'
        BY <2>1 DEF Recovery, NothingLost, Receiving, AllUnderWay, IsDataOf, IsRROf
    <2>4. Patience' /\ EndsWell'
        BY <2>1 DEF Patience, EndsWell
    <2> QED
        BY <2>1, <2>2, <2>3, <2>4 DEF Recovery
<1>2. ASSUME NEW c \in Children, KillChild(c)
      PROVE  Recovery'
    <2>1. /\ cstate' = [cstate EXCEPT ![c] = "closed"] /\ killed' = killed \cup {c}
          /\ UNCHANGED <<rstate, inbox, EOFReached, timeoutCount, peer, lower, current, upper>>
          /\ UNCHANGED <<context, net, errors>>
        BY <1>2 DEF KillChild, rcopyVars, windowVars, networkVars
    <2>2. \A d \in Children : d # c => cstate'[d] = cstate[d]
        BY <2>1 DEF Inv, ServerOK, ServerTypeOK
    <2>3. cstate'[c] = "closed"
        BY <2>1 DEF Inv, ServerOK, ServerTypeOK
    <2>4. IsWindowOpen' <=> IsWindowOpen
        BY <2>1 DEF IsWindowOpen
    <2>5. PeerListens'
        <3>1. EOFReached' => peer' \in Children
            BY <2>1 DEF Recovery, PeerListens
        <3>2. ASSUME NEW m \in net' \cup inbox', m.flag = "FILENAME_RESPONSE",
                     rstate' # "DONE", m.src \notin killed'
              PROVE  m.num = 0 /\ Receiving(m.src)'
            <4>1. m.src \in Children /\ m.src # c
                BY <2>1, <3>2, ResponseFromChild
            <4> QED
                BY <2>1, <2>2, <3>2, <4>1 DEF Recovery, PeerListens, Receiving
        <3>3. ASSUME Sending', peer' \notin killed'
              PROVE  Receiving(peer)' \/ (EOFReached' /\ IsWindowOpen')
            <4>1. Sending /\ peer \notin killed /\ peer # c
                BY <2>1, <3>3 DEF Sending
            <4>2. peer \in Children
                BY <4>1 DEF Sending, Inv, ClientOK, ClientPhase
            <4>3. Receiving(peer) \/ (EOFReached /\ IsWindowOpen)
                BY <4>1 DEF Recovery, PeerListens
            <4>4. CASE Receiving(peer)
                BY <2>1, <2>2, <4>1, <4>2, <4>4 DEF Receiving
            <4>5. CASE EOFReached /\ IsWindowOpen
                BY <2>1, <2>4, <4>5
            <4> QED
                BY <4>3, <4>4, <4>5
        <3> QED
            BY <3>1, <3>2, <3>3 DEF PeerListens
    <2>6. NothingLost'
        <3> SUFFICES ASSUME errors' = 0, peer' \in Children, Receiving(peer)'
                     PROVE  AllUnderWay'
            BY DEF NothingLost
        <3>1. peer # c /\ Receiving(peer)
            BY <2>1, <2>2, <2>3 DEF Receiving
        <3> QED
            BY <2>1, <3>1 DEF Recovery, NothingLost, AllUnderWay, IsDataOf, IsRROf
    <2>7. Patience'
        <3>1. Stirred' <=> Stirred
            BY <2>1 DEF Stirred, Stirs
        <3> QED
            BY <2>1, <2>4, <3>1 DEF Recovery, Patience
    <2>8. EndsWell'
        BY <2>1 DEF Recovery, EndsWell
    <2> QED
        BY <2>1, <2>5, <2>6, <2>7, <2>8 DEF Recovery
<1> QED
    BY <1>1, <1>2

-----------------------------------------------------------------------------

(* What the answer of a child does to the datagrams in flight. *)
LEMMA AnswerFacts ==
    ASSUME Inv, NEW STATE rest, rest \subseteq net, NEW c, NEW flag, NEW num,
           flag \in Flag, SendToErr(rest, Reply(c, flag, num))
    PROVE  /\ rest \subseteq net'
           /\ errors' \in Nat /\ errors \in Nat /\ errors <= errors'
           /\ \A m \in net' \ net : m.src = c /\ m.flag \in {flag, "CORRUPT"}
           /\ \A m \in net' \ net : m.flag = flag /\ flag # "CORRUPT" => m.num = num
           /\ errors' > errors
              \/ \E m \in net' : /\ m.dst = Client /\ m.flag = flag
                                 /\ m.num = num /\ m.src = c
<1>1. PICK m : m = ControlPDU(c, Client, flag, num) /\ SendToErr(rest, m)
    BY DEF Reply
<1>2. m.src = c /\ m.dst = Client /\ m.flag = flag /\ m.num = num
    BY <1>1, ControlFields
<1>3. Corrupted(m).src = c /\ Corrupted(m).flag = "CORRUPT"
    BY <1>2, ControlFields DEF Corrupted
<1>4. errors' \in Nat /\ errors \in Nat /\ errors <= errors'
    BY <1>1, ErrorsGrow
<1>5. \A n \in net' \ net : n = m \/ n = Corrupted(m)
    BY <1>1, NewFacts
<1>6. m \in net' \/ errors' > errors
    BY <1>1, <1>4 DEF SendToErr
<1>7. rest \subseteq net'
    BY <1>1 DEF SendToErr
<1> QED
    BY <1>2, <1>3, <1>4, <1>5, <1>6, <1>7

LEMMA StartRecovers ==
    ASSUME Benign, Inv, OneAttempt, Recovery, UNCHANGED <<rcopyVars, killed>>,
           NEW c \in Children, ChildStart(c)
    PROVE  Recovery'
<1>1. /\ cstate[c] = "starting" /\ cstate' = [cstate EXCEPT ![c] = "receiving"]
      /\ SendToErr(net, Reply(c, "FILENAME_RESPONSE", 0)) /\ UNCHANGED context
    BY DEF ChildStart, Benign
<1>2. peer \notin Children
    BY <1>1 DEF OneAttempt, NoAttempt, Starting
<1>3. cstate'[c] = "receiving" /\ \A d \in Children : d # c => cstate'[d] = cstate[d]
    BY <1>1 DEF Inv, ServerOK, ServerTypeOK
<1>4. UNCHANGED <<rstate, inbox, EOFReached, peer>> /\ UNCHANGED killed
    BY DEF rcopyVars
<1>5. /\ net \subseteq net' /\ errors' \in Nat /\ errors <= errors'
      /\ \A m \in net' \ net : /\ m.src = c
                               /\ m.flag = "FILENAME_RESPONSE" => m.num = 0
    BY <1>1, AnswerFacts DEF Flag
<1>6. PeerListens'
    <2>1. EOFReached' => peer' \in Children
        BY <1>4 DEF Recovery, PeerListens
    <2>2. ASSUME NEW m \in net' \cup inbox', m.flag = "FILENAME_RESPONSE",
                 rstate' # "DONE", m.src \notin killed'
          PROVE  m.num = 0 /\ Receiving(m.src)'
        <3>1. CASE m \in net \cup inbox
            <4>1. m.num = 0 /\ cstate[m.src] = "receiving" /\ m.src \in Children
                BY <1>4, <2>2, <3>1, ResponseFromChild DEF Recovery, PeerListens, Receiving
            <4> QED
                BY <1>3, <4>1 DEF Receiving
        <3>2. CASE m \in net' \ net
            BY <1>3, <1>5, <2>2, <3>2 DEF Receiving
        <3> QED
            BY <1>4, <3>1, <3>2
    <2>3. ~ Sending'
        BY <1>2, <1>4 DEF Sending, Inv, ClientOK, ClientPhase
    <2> QED
        BY <2>1, <2>2, <2>3 DEF PeerListens
<1> QED
    BY <1>1, <1>2, <1>5, <1>6, OthersKeep

(* A DATA PDU of rcopy's. *)
LEMMA DataLosesNothing ==
    ASSUME Inv, NEW c \in Children, NEW m \in net, m.dst = c, m.flag = "DATA"
    PROVE  LET result == BufferProcessPDU(context[c], m.num, m.data)
           IN  /\ m.num < result.ctx.expected \/ Held(result.ctx, m.num)
               /\ \A s \in SeqNum : s >= result.ctx.expected /\ Held(context[c], s) =>
                                       Held(result.ctx, s)
               /\ result.ctx.state = "INORDER" => result.reply = "RR"
               /\ m.num <= context[c].expected => result.reply # NoReply
<1>1. c = peer /\ m.num \in Nat /\ m.num < current /\ m.data = File[m.num + 1]
    BY ConstantFacts DEF Inv, NetOK, NetworkTypeOK, NetInv, MessageInv, Message, SeqNum
<1>2. BufferInv(context[c], Blocks, File, current) /\ lower <= context[c].expected
    BY <1>1 DEF Inv, ServerOK, ChildInv
<1>3. m.num < context[c].expected + WindowSize
    BY <1>1, <1>2, FileIsSent, ExpectedFacts, ConstantFacts DEF Inv
<1>4. InReach(context[c], File, current, m.num, m.data)
    BY <1>1, <1>3 DEF InReach
<1> QED
    BY <1>2, <1>4, FileIsSent, BufferLosesNothing DEF Inv

LEMMA DataRecovers ==
    ASSUME Benign, Inv, OneAttempt, Recovery, UNCHANGED <<rcopyVars, killed>>,
           NEW c \in Children, NEW m \in net, m.dst = c,
           NEW STATE rest, rest = net \ {m}, ChildData(c, rest, m)
    PROVE  Recovery'
<1> DEFINE before == context[c]
           result == BufferProcessPDU(context[c], m.num, m.data)
           after == result.ctx
<1>1. /\ m.flag = "DATA" /\ context' = [context EXCEPT ![c] = after] /\ UNCHANGED cstate
      /\ IF result.reply = NoReply THEN SendNothing(rest)
         ELSE SendToErr(rest, Reply(c, result.reply, after.expected))
    BY DEF ChildData
<1>2. /\ c = peer
      /\ after.expected \in Nat /\ before.expected \in Nat /\ before.expected <= after.expected
      /\ result.reply \in {"RR", "SREJ", NoReply}
    <2>1. /\ c = peer /\ BufferInv(after, Blocks, File, current)
          /\ after.expected >= before.expected /\ result.reply \in {"RR", "SREJ", NoReply}
        BY <1>1, ChildDataFacts
    <2>2. after.expected \in Nat
        BY <2>1 DEF BufferInv, BufferContext, SeqNum
    <2> QED
        BY <2>1, <2>2, ExpectedFacts DEF Inv
<1>3. /\ m.num < after.expected \/ Held(after, m.num)
      /\ \A s \in SeqNum : s >= after.expected /\ Held(before, s) => Held(after, s)
      /\ after.state = "INORDER" => result.reply = "RR"
      /\ m.num <= before.expected => result.reply # NoReply
    BY <1>1, DataLosesNothing
<1>4. context'[c] = after
    BY <1>1 DEF Inv, ServerOK, ServerTypeOK
<1>5. /\ rest \subseteq net' /\ errors' \in Nat /\ errors \in Nat /\ errors <= errors'
      /\ \A n \in net' \ net : n.flag # "FILENAME_RESPONSE"
      /\ result.reply # NoReply =>
           errors' > errors \/ \E n \in net' : /\ n.dst = Client /\ n.flag = result.reply
                                               /\ n.num = after.expected
    <2> HIDE DEF before, result, after
    <2>1. CASE result.reply = NoReply
        BY <1>1, <2>1, ErrorsGrow DEF SendNothing
    <2>2. CASE result.reply # NoReply
        <3>1. result.reply \in {"RR", "SREJ"}
            BY <1>2, <2>2
        <3>2. result.reply \in Flag /\ rest \subseteq net
            BY <3>1 DEF Flag
        <3> QED
            BY <1>1, <2>2, <3>1, <3>2, AnswerFacts
    <2> QED
        BY <2>1, <2>2
<1>6. /\ UNCHANGED <<rstate, inbox, EOFReached, timeoutCount, peer, lower, current, upper>>
      /\ UNCHANGED killed /\ UNCHANGED cstate
    BY <1>1 DEF rcopyVars, windowVars
<1> HIDE DEF before, result, after
<1>7. PeerListens'
    BY <1>5, <1>6, ListensStill DEF Recovery
<1>8. NothingLost'
    <2> SUFFICES ASSUME errors' = 0, peer' \in Children, Receiving(peer)'
                 PROVE  AllUnderWay'
        BY DEF NothingLost
    <2>1. errors = 0 /\ errors' = errors /\ Receiving(peer)
        BY <1>5, <1>6 DEF Receiving
    <2>2. AllUnderWay
        BY <1>2, <2>1 DEF Recovery, NothingLost
    <2>3. ASSUME NEW seq \in after.expected .. current - 1
          PROVE  Held(after, seq) \/ \E n \in net' : IsDataOf(n, seq)
        <3>1. current \in Nat /\ current \in SeqNum
            BY FileIsSent DEF Inv
        <3>2. seq \in Nat /\ after.expected <= seq /\ seq \in before.expected .. current - 1
            BY <1>2, <3>1
        <3>3. seq \in SeqNum
            BY <3>1, <3>2, ConstantFacts DEF SeqNum
        <3>4. CASE Held(before, seq)
            BY <1>3, <3>2, <3>3, <3>4
        <3>5. ASSUME NEW n \in net, IsDataOf(n, seq)
              PROVE  Held(after, seq) \/ \E k \in net' : IsDataOf(k, seq)
            <4>1. CASE n = m
                <5>1. m.num = seq
                    BY <3>5, <4>1 DEF IsDataOf
                <5>2. ~ (m.num < after.expected)
                    BY <1>2, <3>2, <5>1
                <5> QED
                    BY <1>3, <5>1, <5>2
            <4>2. CASE n # m
                BY <1>5, <3>5, <4>2
            <4> QED
                BY <4>1, <4>2
        <3> QED
            BY <1>2, <2>2, <3>2, <3>4, <3>5 DEF AllUnderWay, before
    <2>4. ASSUME after.state = "INORDER"
          PROVE  \E n \in net' : IsRROf(n, after.expected)
        <3>1. result.reply = "RR" /\ "RR" # NoReply
            BY <1>3, <2>4, BufferAssumption
        <3>2. ~ (errors' > errors)
            BY <1>5, <2>1
        <3> QED
            BY <1>5, <3>1, <3>2 DEF IsRROf
    <2>5. context'[peer'] = after
        BY <1>2, <1>4, <1>6
    <2> QED
        BY <1>6, <2>3, <2>4, <2>5 DEF AllUnderWay, IsDataOf, IsRROf
<1>9. Patience'
    <2>1. rstate' = "WINDOW_CLOSED" => ~ IsWindowOpen'
        BY <1>6 DEF Recovery, Patience, IsWindowOpen
    <2>2. ASSUME rstate' = "WINDOW_CLOSED", peer' \notin killed'
          PROVE  timeoutCount' <= errors' /\ (Stirred' \/ timeoutCount' < errors')
        <3>1. /\ timeoutCount <= errors /\ (Stirred \/ timeoutCount < errors)
              /\ timeoutCount \in Nat
            BY <1>6, <2>2, ConstantFacts DEF Recovery, Patience, Inv, ClientOK, RcopyTypeOK
        <3>2. timeoutCount <= errors' /\ (timeoutCount < errors => timeoutCount < errors')
            BY <1>5, <3>1
        <3>3. errors' > errors => timeoutCount < errors'
            BY <1>5, <3>1
        <3>4. ASSUME Stirred, ~ (errors' > errors)
              PROVE  Stirred'
            <4>1. PICK n \in net \cup inbox : Stirs(n)
                BY <3>4 DEF Stirred
            <4>2. CASE result.reply # NoReply
                BY <1>5, <3>4, <4>2 DEF Stirred, Stirs
            <4>3. CASE result.reply = NoReply
                <5>1. n # m
                    <6> SUFFICES ASSUME n = m PROVE FALSE
                        OBVIOUS
                    <6>1. m.dst # Client
                        BY ConstantFacts
                    <6>2. m.num <= before.expected
                        BY <1>2, <4>1, <6>1 DEF Stirs, before
                    <6> QED
                        BY <1>3, <4>3, <6>2
                <5>2. n \in net' \cup inbox'
                    BY <1>5, <1>6, <5>1
                <5>3. Stirs(n)'
                    <6>1. CASE n.dst = Client
                        BY <6>1 DEF Stirs
                    <6>2. CASE n.flag = "DATA" /\ n.dst = peer /\ n.num <= before.expected
                        <7>1. n.num \in Nat
                            BY <5>2, <4>1 DEF Inv, NetOK, NetworkTypeOK, ClientOK, RcopyTypeOK,
                                Message, SeqNum
                        <7>2. n.num <= after.expected
                            BY <1>2, <6>2, <7>1
                        <7> QED
                            BY <1>2, <1>4, <1>6, <6>2, <7>2 DEF Stirs
                    <6> QED
                        BY <1>2, <4>1, <6>1, <6>2 DEF Stirs, before
                <5> QED
                    BY <5>2, <5>3 DEF Stirred
            <4> QED
                BY <4>2, <4>3
        <3> QED
            BY <1>6, <3>1, <3>2, <3>3, <3>4
    <2> QED
        BY <1>6, <2>1, <2>2 DEF Recovery, Patience
<1>10. EndsWell'
    BY <1>6 DEF Recovery, EndsWell
<1> QED
    BY <1>6, <1>7, <1>8, <1>9, <1>10 DEF Recovery

(* What a child does about the end of the file, early or late, no longer   *)
(* matters to the copy.                                                    *)
LEMMA EndRecovers ==
    ASSUME Benign, Inv, OneAttempt, Recovery, UNCHANGED <<rcopyVars, killed, context>>,
           NEW c \in Children, EOFReached, lower = current,
           cstate'[c] # "receiving", \A d \in Children : d # c => cstate'[d] = cstate[d],
           \A m \in net : m.dst # c => m \in net',
           \A m \in net' \ net : m.flag # "FILENAME_RESPONSE",
           errors' \in Nat, errors <= errors'
    PROVE  Recovery'
<1>1. IsWindowOpen
    BY RoomFacts DEF Inv
<1>2. PeerListens'
    BY <1>1, ListensStill DEF Recovery
<1>3. peer \in Children
    BY DEF Recovery, PeerListens
<1>4. CASE c = peer
    BY <1>1, <1>2, <1>4, OthersKeep
<1>5. CASE c # peer
    <2>1. \A m \in net : Matters(m) => m \in net'
        BY <1>5, ConstantFacts DEF Matters
    <2> QED
        BY <1>2, <1>3, <1>5, <2>1, OthersKeep
<1> QED
    BY <1>4, <1>5

(* The child cannot give up while rcopy depends on it. *)
LEMMA TimeoutRecovers ==
    ASSUME Benign, Inv, OneAttempt, Recovery, UNCHANGED <<rcopyVars, killed>>,
           NEW c \in Children, ChildMayTimeOut(c), ChildTimeout(c)
    PROVE  Recovery'
<1>1. /\ cstate' = [cstate EXCEPT ![c] = "closed"] /\ UNCHANGED context
      /\ net' = net /\ errors' = errors /\ errors \in Nat
    BY ConstantFacts DEF ChildTimeout, SendNothing, Inv, NetOK, NetworkTypeOK
<1>2. SilentTo(c) /\ \A m \in InFlight : c \notin {m.src, m.dst}
    BY DEF ChildMayTimeOut, Benign
<1>3. cstate'[c] = "closed" /\ \A d \in Children : d # c => cstate'[d] = cstate[d]
    BY <1>1 DEF Inv, ServerOK, ServerTypeOK
<1>4. /\ UNCHANGED <<rstate, inbox, EOFReached, peer, current, upper>> /\ UNCHANGED killed
    BY DEF rcopyVars, windowVars
<1>5. PeerListens'
    <2>1. EOFReached' => peer' \in Children
        BY <1>4 DEF Recovery, PeerListens
    <2>2. ASSUME NEW m \in net' \cup inbox', m.flag = "FILENAME_RESPONSE",
                 rstate' # "DONE", m.src \notin killed'
          PROVE  m.num = 0 /\ Receiving(m.src)'
        <3>1. m \in net \cup inbox /\ m.dst = Client /\ m.src \in Children
            BY <1>1, <1>4, <2>2, ResponseFromChild
        <3>2. m \in InFlight
            BY <1>4, <2>2, <3>1 DEF InFlight, Reads
        <3>3. m.src # c
            BY <1>2, <3>2
        <3>4. m.num = 0 /\ cstate[m.src] = "receiving"
            BY <1>4, <2>2, <3>1 DEF Recovery, PeerListens, Receiving
        <3> QED
            BY <1>3, <3>1, <3>3, <3>4 DEF Receiving
    <2>3. ASSUME Sending', peer' \notin killed'
          PROVE  Receiving(peer)' \/ (EOFReached' /\ IsWindowOpen')
        <3>1. Sending /\ peer \notin killed /\ peer \in Children /\ server = peer
            BY <1>4, <2>3 DEF Sending, Inv, ClientOK, ClientPhase
        <3>2. CASE peer = c
            <4>1. EOFReached /\ IsWindowOpen
                BY <1>2, <3>1, <3>2 DEF SilentTo, Spinning, Sending
            <4> QED
                BY <1>4, <4>1 DEF IsWindowOpen
        <3>3. CASE peer # c
            <4>1. cstate[peer] = "receiving" \/ (EOFReached /\ IsWindowOpen)
                BY <3>1 DEF Recovery, PeerListens, Receiving
            <4>2. cstate'[peer] = cstate[peer]
                BY <1>3, <3>1, <3>3
            <4>3. CASE EOFReached /\ IsWindowOpen
                BY <1>4, <4>3 DEF IsWindowOpen
            <4> QED
                BY <1>4, <4>1, <4>2, <4>3 DEF Receiving
        <3> QED
            BY <3>2, <3>3
    <2> QED
        BY <2>1, <2>2, <2>3 DEF PeerListens
<1>6. cstate'[peer] = "receiving" /\ peer \in Children => cstate[peer] = "receiving"
    BY <1>3
<1> QED
    BY <1>1, <1>5, <1>6, OthersKeep

(* The steps of a child. *)
LEMMA ChildRecovers ==
    ASSUME Benign, Inv, OneAttempt, Recovery, NEW c \in Children,
           ServerChildStep(c) \/ ServerChildTimeout(c)
    PROVE  Recovery'
<1>1. UNCHANGED <<rcopyVars, killed>> /\ errors \in Nat
    BY ConstantFacts DEF ServerChildStep, ServerChildTimeout, Inv, NetOK, NetworkTypeOK
<1>2. CASE ChildStart(c)
    BY <1>1, <1>2, StartRecovers
<1>3. CASE ChildRecv(c)
    <2>1. PICK m \in net : /\ m.dst = c /\ cstate[c] = "receiving"
                           /\ \E rest \in Rest(m) : \/ ChildData(c, rest, m)
                                                    \/ ChildEof(c, rest, m)
                                                    \/ ChildIgnore(rest, m)
        BY <1>3 DEF ChildRecv
    <2>2. PICK rest \in SUBSET net :
              /\ rest = net \ {m}
              /\ ChildData(c, rest, m) \/ ChildEof(c, rest, m) \/ ChildIgnore(rest, m)
        BY <2>1 DEF Rest, Benign
    <2>3. CASE ChildData(c, rest, m)
        BY <1>1, <2>1, <2>2, <2>3, DataRecovers
    <2>4. CASE ChildEof(c, rest, m)
        <3>1. EOFReached /\ lower = current
            BY <2>4 DEF ChildEof, Inv, NetOK, NetInv, MessageInv
        <3>2. /\ cstate' = [cstate EXCEPT ![c] = "eofwait"] /\ UNCHANGED context
              /\ SendToErr(rest, Reply(c, "EOF_ACK", 0))
            BY <2>4 DEF ChildEof
        <3>3. cstate'[c] = "eofwait" /\ \A d \in Children : d # c => cstate'[d] = cstate[d]
            BY <3>2 DEF Inv, ServerOK, ServerTypeOK
        <3>4. /\ rest \subseteq net' /\ errors' \in Nat /\ errors <= errors'
              /\ \A n \in net' \ net : n.flag # "FILENAME_RESPONSE"
            BY <3>2, AnswerFacts DEF Flag
        <3> QED
            BY <1>1, <2>1, <2>2, <3>1, <3>2, <3>3, <3>4, EndRecovers
    <2>5. CASE ChildIgnore(rest, m)
        <3>1. m.flag \notin {"DATA", "EOF"} /\ net' = rest /\ errors' = errors
            BY <2>5 DEF ChildIgnore, SendNothing
        <3>2. UNCHANGED context /\ UNCHANGED cstate
            BY <2>5 DEF ChildIgnore, serverVars
        <3>3. \A n \in net : Matters(n) => n \in net'
            BY <2>1, <2>2, <3>1, ConstantFacts DEF Matters
        <3>4. PeerListens'
            BY <1>1, <2>2, <3>1, <3>2, ListensStill DEF Recovery
        <3> QED
            BY <1>1, <3>1, <3>2, <3>3, <3>4, OthersKeep
    <2> QED
        BY <2>2, <2>3, <2>4, <2>5
<1>4. ASSUME cstate[c] = "eofwait"
      PROVE  EOFReached /\ lower = current
    BY <1>4 DEF Inv, ServerOK, ChildInv
<1>5. ASSUME NEW STATE rest, rest \subseteq net, \A n \in net : n.dst # c => n \in rest,
             cstate[c] = "eofwait", EofAckAgain(c, rest), UNCHANGED context
      PROVE  Recovery'
    <2>1. cstate'[c] # "receiving" /\ \A d \in Children : d # c => cstate'[d] = cstate[d]
        BY <1>5 DEF EofAckAgain, Inv, ServerOK, ServerTypeOK
    <2>2. /\ rest \subseteq net' /\ errors' \in Nat /\ errors <= errors'
          /\ \A n \in net' \ net : n.flag # "FILENAME_RESPONSE"
        BY <1>5, AnswerFacts DEF EofAckAgain, Flag
    <2> QED
        BY <1>1, <1>4, <1>5, <2>1, <2>2, EndRecovers
<1>6. CASE EofWaitRecv(c)
    <2>1. PICK m \in net : /\ m.dst = c
                           /\ \E rest \in Rest(m) :
                                \/ /\ cstate' = [cstate EXCEPT ![c] = "closed"]
                                   /\ SendNothing(rest)
                                \/ EofAckAgain(c, rest)
        BY <1>6 DEF EofWaitRecv
    <2>2. PICK rest \in SUBSET net :
              /\ rest = net \ {m}
              /\ \/ cstate' = [cstate EXCEPT ![c] = "closed"] /\ SendNothing(rest)
                 \/ EofAckAgain(c, rest)
        BY <2>1 DEF Rest, Benign
    <2>3. cstate[c] = "eofwait" /\ UNCHANGED context
        BY <1>6 DEF EofWaitRecv
    <2>4. CASE EofAckAgain(c, rest)
        BY <1>5, <2>1, <2>2, <2>3, <2>4
    <2>5. CASE cstate' = [cstate EXCEPT ![c] = "closed"] /\ SendNothing(rest)
        <3>1. cstate'[c] = "closed" /\ \A d \in Children : d # c => cstate'[d] = cstate[d]
            BY <2>5 DEF Inv, ServerOK, ServerTypeOK
        <3>2. net' = rest /\ errors' = errors
            BY <2>5 DEF SendNothing
        <3> QED
            BY <1>1, <1>4, <2>1, <2>2, <2>3, <3>1, <3>2, EndRecovers
    <2> QED
        BY <2>2, <2>4, <2>5
<1>7. CASE ServerChildTimeout(c)
    <2>1. CASE ChildMayTimeOut(c) /\ ChildTimeout(c)
        BY <1>1, <2>1, TimeoutRecovers
    <2>2. CASE EofWaitTimeout(c)
        BY <1>5, <2>2 DEF EofWaitTimeout
    <2> QED
        BY <1>7, <2>1, <2>2 DEF ServerChildTimeout
<1> QED
    BY <1>2, <1>3, <1>6, <1>7 DEF ServerChildStep, ChildStep

(* AcceptedMeansCopied: an rcopy that the server has accepted ends without *)
(* a copy on the disk only if as many sends have failed as it has tries,   *)
(* or somebody was killed.  Until then what the receiver misses is under   *)
(* way or kept in the window, and rcopy's patience outlasts the failures.  *)
THEOREM AcceptedIsCopied ==
    ASSUME ~ LateDelivery, ~ Duplicates, ~ ReadFaults, ~ ServerFaults,
           MaxErrors < MaxTries, Len(File) + WindowSize < UintModulus
    PROVE  Spec => []AcceptedMeansCopied
<1>1. Benign
    BY DEF Benign
<1>2. Init => Recovery
    <2> SUFFICES ASSUME Init PROVE Recovery
        OBVIOUS
    <2>1. /\ rstate = "SEND_FILENAME" /\ inbox = {} /\ net = {} /\ peer = Main
          /\ EOFReached = FALSE /\ timeoutCount = 0
        BY DEF Init, RcopyInit, NetworkInit
    <2> QED
        BY <2>1, ConstantFacts DEF Recovery, PeerListens, NothingLost, Patience, EndsWell,
            Sending
<1>3. Inv /\ Inv' /\ OneAttempt /\ Recovery /\ [Next]_vars => Recovery'
    <2> SUFFICES ASSUME Inv, Inv', OneAttempt, Recovery, [Next]_vars PROVE Recovery'
        OBVIOUS
    <2>1. CASE ClientStep \/ ClientTimeout \/ Delivery
        BY <1>1, <2>1, ClientRecovers
    <2>2. CASE MainStep
        BY <1>1, <2>2, MainRecovers
    <2>3. ASSUME NEW c \in Children, ServerChildStep(c) \/ ServerChildTimeout(c)
          PROVE  Recovery'
        BY <1>1, <2>3, ChildRecovers
    <2>4. CASE KillRcopy \/ \E c \in Children : KillChild(c)
        BY <2>4, KillRecovers
    <2>5. CASE UNCHANGED vars
        <3>1. /\ UNCHANGED <<rstate, inbox, EOFReached, timeoutCount, peer, lower, current>>
              /\ UNCHANGED <<upper, cstate, context, net, errors>> /\ UNCHANGED killed
            BY <2>5 DEF vars, rcopyVars, windowVars, serverVars, networkVars
        <3>2. IsWindowOpen' <=> IsWindowOpen
            BY <3>1 DEF IsWindowOpen
        <3>3. Stirred' <=> Stirred
            BY <3>1 DEF Stirred, Stirs
        <3>4. PeerListens' /\ Patience' /\ EndsWell'
            BY <3>1, <3>2, <3>3 DEF Recovery, PeerListens, Receiving, Sending, Patience, EndsWell
        <3>5. NothingLost'
            BY <3>1 DEF Recovery, NothingLost, Receiving, AllUnderWay, IsDataOf, IsRROf
        <3> QED
            BY <3>1, <3>4, <3>5 DEF Recovery
    <2> QED
        BY <2>1, <2>2, <2>3, <2>4, <2>5 DEF Next, Finished
<1>4. Inv /\ OneAttempt /\ Recovery => AcceptedMeansCopied
    <2> SUFFICES ASSUME Inv, OneAttempt, Recovery, rstate = "DONE", peer # Main,
                        killed \cap {Client, peer} = {}
                 PROVE  output = File
        BY DEF AcceptedMeansCopied
    <2>1. peer \in Children
        BY DEF Inv, ClientOK, ClientPhase
    <2>2. EOFReached /\ lower = current
        BY <2>1 DEF Recovery, EndsWell
    <2> QED
        BY <2>1, <2>2, WholeFile DEF OneAttempt
<1> QED
    BY <1>2, <1>3, <1>4, OneAttemptAlways, InvAlways, PTL DEF Spec
=============================================================================
