------------------------------- MODULE Server -------------------------------
(***************************************************************************)
(* The server (server.c): the main process forks a child for every valid   *)
(* FILENAME PDU, and the child receives the file on a socket of its own    *)
(* with the buffer of buffer.c.  Every child opens and truncates the       *)
(* output file by name, so the children of one rcopy share it.             *)
(*                                                                         *)
(* A child is "idle" until it is forked, "starting" until it has opened    *)
(* the file and answered, "receiving" in the outer loop of receiveFile,    *)
(* "eofwait" in the inner one, and "closed" once its process has ended.    *)
(***************************************************************************)
EXTENDS Network, Buffer

CONSTANTS
    Hole,           \* a block of the output file that was never written
    ServerFaults    \* may fork, or an open or a write of the output file, fail?

ASSUME ServerAssumption ==
    /\ Hole \notin Data
    /\ ServerFaults \in BOOLEAN

VARIABLES
    cstate,     \* the state of each child
    context,    \* the BufferContext of each child
    written,    \* the blocks each child has written, one after the other
    ackTries,   \* EOFTries of each child's receiveFile
    output      \* the output file, as the file system holds it

serverVars == <<cstate, context, written, ackTries, output>>

ChildState == {"idle", "starting", "receiving", "eofwait", "closed"}

ServerTypeOK ==
    /\ cstate \in [Children -> ChildState]
    /\ context \in [Children -> BufferContext(Data \cup {NoData})]
    /\ written \in [Children -> Seq(Data)]
    /\ ackTries \in [Children -> 0 .. MaxTries]
    /\ output \in Seq(Data \cup {Hole})

ServerInit ==
    /\ cstate = [c \in Children |-> "idle"]
    /\ context = [c \in Children |-> BufferInit(NoData)]
    /\ written = [c \in Children |-> <<>>]
    /\ ackTries = [c \in Children |-> 0]
    /\ output = <<>>

-----------------------------------------------------------------------------

(* The next PDU of main's socket.  A valid FILENAME forks a child; if fork *)
(* fails, or no child is left, a bound of the model, it is ignored, as is  *)
(* any other PDU.                                                          *)
MainRecv ==
    /\ \E m \in net :
         /\ m.dst = Main
         /\ \E rest \in Rest(m) : SendNothing(rest)
         /\ \/ /\ m.flag = "FILENAME"
               /\ \E c \in Children :
                    /\ cstate[c] = "idle"
                    /\ cstate' = [cstate EXCEPT ![c] = "starting"]
            \/ /\ \/ m.flag # "FILENAME"
                  \/ ServerFaults
                  \/ \A c \in Children : cstate[c] # "idle"
               /\ UNCHANGED cstate
    /\ UNCHANGED <<context, written, ackTries, output>>

-----------------------------------------------------------------------------

Reply(c, flag, num) == ControlPDU(c, Client, flag, num)

(* processClient up to receiveFile: the output file is opened and emptied. *)
ChildStart(c) ==
    /\ cstate[c] = "starting"
    /\ \/ /\ cstate' = [cstate EXCEPT ![c] = "receiving"]
          /\ output' = <<>>
          /\ SendToErr(net, Reply(c, "FILENAME_RESPONSE", 0))
       \/ /\ ServerFaults
          /\ cstate' = [cstate EXCEPT ![c] = "closed"]
          /\ UNCHANGED output
          /\ SendToErr(net, Reply(c, "FILENAME_RESPONSE", 1))
    /\ UNCHANGED <<context, written, ackTries>>

(* The ways to pick n of 1 .. m in order. *)
Increasing(n, m) ==
    {f \in [1 .. n -> 1 .. m] : \A j, k \in 1 .. n : j < k => f[j] < f[k]}

(* What of blocks reaches the file.  A write that fails leaves the file    *)
(* and its offset alone, and its result is not looked at.                  *)
Stored(blocks) ==
    IF ServerFaults
    THEN UNION {{[k \in 1 .. n |-> blocks[f[k]]] : f \in Increasing(n, Len(blocks))} :
                n \in 0 .. Len(blocks)}
    ELSE {blocks}

(* Mutant: a child writes at the end of the file, as with O_APPEND. *)
WrittenAtEnd(n, blocks) == output \o blocks

(* The file after a write of blocks that starts after the first n blocks.  *)
WrittenAfter(n, blocks) ==
    LET end == n + Len(blocks)
    IN  [i \in 1 .. IF Len(output) > end THEN Len(output) ELSE end |->
           IF n < i /\ i <= end THEN blocks[i - n]
           ELSE IF i <= Len(output) THEN output[i]
           ELSE Hole]

(* A DATA PDU: bufferProcessPDU. *)
ChildData(c, rest, m) ==
    LET result == BufferProcessPDU(context[c], m.num, m.data)
    IN  /\ m.flag = "DATA"
        /\ context' = [context EXCEPT ![c] = result.ctx]
        /\ \E blocks \in Stored(result.out) :
             /\ written' = [written EXCEPT ![c] = @ \o blocks]
             /\ output' = IF blocks = <<>> THEN output
                          ELSE WrittenAfter(Len(written[c]), blocks)
        /\ IF result.reply = NoReply
           THEN SendNothing(rest)
           ELSE SendToErr(rest, Reply(c, result.reply, result.ctx.expected))
        /\ UNCHANGED <<cstate, ackTries>>

ChildEof(c, rest, m) ==
    /\ m.flag = "EOF"
    /\ cstate' = [cstate EXCEPT ![c] = "eofwait"]
    /\ SendToErr(rest, Reply(c, "EOF_ACK", 0))
    /\ UNCHANGED <<context, written, ackTries, output>>

ChildIgnore(rest, m) ==
    /\ m.flag \notin {"DATA", "EOF"}
    /\ SendNothing(rest)
    /\ UNCHANGED serverVars

(* The outer loop of receiveFile. *)
ChildRecv(c) ==
    /\ cstate[c] = "receiving"
    /\ \E m \in net :
         /\ m.dst = c
         /\ \E rest \in Rest(m) : \/ ChildData(c, rest, m)
                                  \/ ChildEof(c, rest, m)
                                  \/ ChildIgnore(rest, m)

(* Mutant: the time-out does not leave the loop. *)
ChildTimeoutGoesOn(c) ==
    /\ cstate[c] = "receiving"
    /\ SendNothing(net)
    /\ UNCHANGED serverVars

(* Ten seconds without a PDU. *)
ChildTimeout(c) ==
    /\ cstate[c] = "receiving"
    /\ cstate' = [cstate EXCEPT ![c] = "closed"]
    /\ SendNothing(net)
    /\ UNCHANGED <<context, written, ackTries, output>>

(* Mutant: no limit to the tries. *)
EofAckForever(c, rest) ==
    /\ ackTries' = [ackTries EXCEPT ![c] = @ + 1]
    /\ UNCHANGED cstate
    /\ SendToErr(rest, Reply(c, "EOF_ACK", 0))

(* The inner loop: EOF_ACK again, up to MaxTries times. *)
EofAckAgain(c, rest) ==
    /\ ackTries' = [ackTries EXCEPT ![c] = @ + 1]
    /\ cstate' = IF ackTries'[c] < MaxTries THEN cstate
                 ELSE [cstate EXCEPT ![c] = "closed"]
    /\ SendToErr(rest, Reply(c, "EOF_ACK", 0))

EofWaitRecv(c) ==
    /\ cstate[c] = "eofwait"
    /\ \E m \in net :
         /\ m.dst = c
         /\ \E rest \in Rest(m) :
              \/ /\ m.flag = "FINAL_ACK"
                 /\ cstate' = [cstate EXCEPT ![c] = "closed"]
                 /\ SendNothing(rest)
                 /\ UNCHANGED ackTries
              \/ /\ m.flag # "FINAL_ACK"
                 /\ EofAckAgain(c, rest)
    /\ UNCHANGED <<context, written, output>>

(* A second without a PDU. *)
EofWaitTimeout(c) ==
    /\ cstate[c] = "eofwait"
    /\ EofAckAgain(c, net)
    /\ UNCHANGED <<context, written, output>>

-----------------------------------------------------------------------------

(* The steps a child takes as soon as it runs. *)
ChildStep(c) ==
    \/ ChildStart(c)
    \/ ChildRecv(c)
    \/ EofWaitRecv(c)
=============================================================================
