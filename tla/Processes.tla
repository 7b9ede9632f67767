----------------------------- MODULE Processes ------------------------------
(***************************************************************************)
(* The server as processes of one kernel: the sockets and descriptors that *)
(* fork hands on and udpServerSetup makes (networks.c), and the children   *)
(* that main has to wait for (runServer and reapChildren of server.c).     *)
(* What the processes say to rcopy is in Server.                           *)
(*                                                                         *)
(* Main is at "start" until it has a socket ("created") and a port, then   *)
(* "serving" in recvfrom, "forking" when it has read a valid FILENAME, and *)
(* "reaping" in the loop of waitpid.  A child is "forked" as long as it    *)
(* has its parent's socket, then "closed", "created", "bound" and, in      *)
(* receiveFile, "receiving".  Any process may be killed, and main started  *)
(* again on the same port while children of the old one live on.           *)
(*                                                                         *)
(* A child stands for an entry of the process table: it is free ("none")   *)
(* only once its last process has been waited for.  networks.c does not    *)
(* include cpe464.h, so socket and bind are the system's, and the port of  *)
(* CPE464_OVERRIDE_PORT is not used.                                       *)
(***************************************************************************)
EXTENDS Integers

CONSTANTS
    Main,           \* the server's main process
    Child,          \* the entries of the process table for its children
    Socket,         \* names of sockets; with one more than Child there is no lack
    EphemeralPort,  \* the ports it picks from
    PortNumber,     \* the port the server is started with; 0: the kernel picks
    MaxFd,          \* the highest descriptor
    MaxRestarts,    \* how often main may be started again
    OutputFile,     \* what the descriptor of an output file refers to
    Nothing         \* what a descriptor refers to that is not open

ASSUME ProcessesAssumption ==
    /\ Main \notin Child
    /\ EphemeralPort \subseteq Nat \ {0}
    /\ PortNumber \in Nat \ EphemeralPort
    /\ MaxFd \in Nat
    /\ MaxRestarts \in Nat
    /\ {OutputFile, Nothing} \cap Socket = {}
    /\ OutputFile # Nothing

Process == {Main} \cup Child

(* Standard input, output and error stay open. *)
Fd == 3 .. MaxFd

VARIABLES
    at,             \* where each process is
    descriptors,    \* what its descriptors refer to
    socketNum,      \* the descriptor it takes for its socket
    polled,         \* the descriptors in the poll set of each child
    port,           \* the port each socket is bound to, or 0
    sigchld,        \* a SIGCHLD for main is pending
    handling,       \* main is in reapChildren
    orphans,        \* the children of a main process that has ended
    restarts        \* how often main was started again

kernelVars == <<descriptors, socketNum, polled, port>>

signalVars == <<sigchld, handling, orphans, restarts>>

vars == <<at, kernelVars, signalVars>>

MainAt == {"start", "created", "serving", "forking", "reaping", "ended"}
ChildAt == {"none", "forked", "closed", "created", "bound", "receiving", "zombie"}

TypeOK ==
    /\ at \in [Process -> MainAt \cup ChildAt]
    /\ at[Main] \in MainAt
    /\ \A c \in Child : at[c] \in ChildAt
    /\ descriptors \in [Process -> [Fd -> Socket \cup {OutputFile, Nothing}]]
    /\ socketNum \in [Process -> Fd \cup {0}]
    /\ polled \in [Child -> SUBSET (Fd \cup {0})]
    /\ port \in [Socket -> EphemeralPort \cup {0, PortNumber}]
    /\ sigchld \in BOOLEAN
    /\ handling \in BOOLEAN
    /\ orphans \in SUBSET Child
    /\ restarts \in 0 .. MaxRestarts

NoDescriptors == [fd \in Fd |-> Nothing]

Init ==
    /\ at = [p \in Process |-> IF p = Main THEN "start" ELSE "none"]
    /\ descriptors = [p \in Process |-> NoDescriptors]
    /\ socketNum = [p \in Process |-> 0]
    /\ polled = [c \in Child |-> {}]
    /\ port = [s \in Socket |-> 0]
    /\ sigchld = FALSE
    /\ handling = FALSE
    /\ orphans = {}
    /\ restarts = 0

-----------------------------------------------------------------------------

Holds(p, s) == \E fd \in Fd : descriptors[p][fd] = s

InUse(s) == \E p \in Process : Holds(p, s)

Taken(number) == \E s \in Socket : port[s] = number

(* Process p has the descriptors table from now on; the kernel frees the   *)
(* sockets that no descriptor refers to any more.                          *)
SetDescriptors(p, table) ==
    /\ descriptors' = [descriptors EXCEPT ![p] = table]
    /\ port' = [s \in Socket |-> IF InUse(s)' THEN port[s] ELSE 0]

Open(p, fd, what) == SetDescriptors(p, [descriptors[p] EXCEPT ![fd] = what])

CloseAll(p) == SetDescriptors(p, NoDescriptors)

(* The kernel gives out the lowest descriptor that is free. *)
LowestFree(p, fd) ==
    /\ descriptors[p][fd] = Nothing
    /\ \A lower \in Fd : lower < fd => descriptors[p][lower] # Nothing

(* Mutant: the result of socket is not looked at. *)
CreateUdpSocketUnchecked(p) ==
    /\ socketNum' = [socketNum EXCEPT ![p] = -1]
    /\ at' = [at EXCEPT ![p] = "created"]
    /\ UNCHANGED <<descriptors, polled, port>>

(* createUdpSocket; a call of socket that fails ends the process, as a     *)
(* signal does.  The name of the new socket is of no importance.           *)
CreateUdpSocket(p) ==
    \E fd \in Fd, s \in Socket :
        /\ LowestFree(p, fd)
        /\ ~ InUse(s)
        /\ s = CHOOSE t \in Socket : ~ InUse(t)
        /\ Open(p, fd, s)
        /\ socketNum' = [socketNum EXCEPT ![p] = fd]
        /\ at' = [at EXCEPT ![p] = "created"]
        /\ UNCHANGED polled

(* The ports bind may give to a socket that asks for number. *)
Bindable(number) ==
    {n \in IF number = 0 THEN EphemeralPort ELSE {number} : ~ Taken(n)}

Bind(p, number, next) ==
    /\ \E n \in Bindable(number) :
         port' = [port EXCEPT ![descriptors[p][socketNum[p]]] = n]
    /\ at' = [at EXCEPT ![p] = next]
    /\ UNCHANGED <<descriptors, socketNum, polled>>

-----------------------------------------------------------------------------

(* Main's steps wait until reapChildren has returned. *)
MainRuns == ~ handling

MainSocket ==
    /\ MainRuns
    /\ at[Main] = "start"
    /\ CreateUdpSocket(Main)
    /\ UNCHANGED signalVars

MainBind ==
    /\ MainRuns
    /\ at[Main] = "created"
    /\ Bind(Main, PortNumber, "serving")
    /\ UNCHANGED signalVars

(* recvfromErr returns a valid FILENAME.  All else leads back to it, an    *)
(* interruption by SIGCHLD included.                                       *)
MainRecv ==
    /\ MainRuns
    /\ at[Main] = "serving"
    /\ at' = [at EXCEPT ![Main] = "forking"]
    /\ UNCHANGED <<kernelVars, signalVars>>

Fork(c) ==
    /\ MainRuns
    /\ at[Main] = "forking"
    /\ at[c] = "none"
    /\ at' = [at EXCEPT ![c] = "forked", ![Main] = "reaping"]
    /\ SetDescriptors(c, descriptors[Main])
    /\ socketNum' = [socketNum EXCEPT ![c] = socketNum[Main]]
    /\ UNCHANGED <<polled, signalVars>>

ForkFails ==
    /\ MainRuns
    /\ at[Main] = "forking"
    /\ at' = [at EXCEPT ![Main] = "reaping"]
    /\ UNCHANGED <<kernelVars, signalVars>>

(* What waitpid(-1, NULL, WNOHANG) may find. *)
Zombies == {c \in Child \ orphans : at[c] = "zombie"}

(* One turn of the loop of runServer around waitpid, and its end. *)
MainWaitpid ==
    /\ MainRuns
    /\ at[Main] = "reaping"
    /\ \/ \E c \in Zombies : at' = [at EXCEPT ![c] = "none"]
       \/ /\ Zombies = {}
          /\ at' = [at EXCEPT ![Main] = "serving"]
    /\ UNCHANGED <<kernelVars, signalVars>>

(* SIGCHLD interrupts main wherever it is, but not reapChildren. *)
DeliverSigchld ==
    /\ sigchld
    /\ ~ handling
    /\ sigchld' = FALSE
    /\ handling' = TRUE
    /\ UNCHANGED <<at, kernelVars, orphans, restarts>>

(* Mutant: one child for each signal. *)
ReapChildrenOnce ==
    /\ handling
    /\ \/ \E c \in Zombies : at' = [at EXCEPT ![c] = "none"]
       \/ Zombies = {} /\ UNCHANGED at
    /\ handling' = FALSE
    /\ UNCHANGED <<kernelVars, sigchld, orphans, restarts>>

(* Mutant: main leaves the children to its own loop. *)
ReapChildrenNever ==
    /\ handling
    /\ handling' = FALSE
    /\ UNCHANGED <<at, kernelVars, sigchld, orphans, restarts>>

(* One turn of the loop of reapChildren, and its end. *)
ReapChildren ==
    /\ handling
    /\ \/ /\ \E c \in Zombies : at' = [at EXCEPT ![c] = "none"]
          /\ UNCHANGED handling
       \/ /\ Zombies = {}
          /\ handling' = FALSE
          /\ UNCHANGED at
    /\ UNCHANGED <<kernelVars, sigchld, orphans, restarts>>

MainStep ==
    \/ MainSocket
    \/ MainBind
    \/ \E c \in Child : Fork(c)
    \/ ForkFails
    \/ MainWaitpid
    \/ DeliverSigchld
    \/ ReapChildren

-----------------------------------------------------------------------------

(* Mutant: the child keeps its parent's socket. *)
ChildKeepsParents(c) ==
    /\ at[c] = "forked"
    /\ at' = [at EXCEPT ![c] = "closed"]
    /\ UNCHANGED <<kernelVars, signalVars>>

(* processClient closes its parent's socket. *)
ChildClose(c) ==
    /\ at[c] = "forked"
    /\ at' = [at EXCEPT ![c] = "closed"]
    /\ Open(c, socketNum[c], Nothing)
    /\ UNCHANGED <<socketNum, polled, signalVars>>

ChildSocket(c) ==
    /\ at[c] = "closed"
    /\ CreateUdpSocket(c)
    /\ UNCHANGED signalVars

(* Mutant: the child asks for the port of its parent. *)
ChildBindSame(c) ==
    /\ at[c] = "created"
    /\ port' = [port EXCEPT ![descriptors[c][socketNum[c]]] = PortNumber]
    /\ at' = [at EXCEPT ![c] = "bound"]
    /\ UNCHANGED <<descriptors, socketNum, polled, signalVars>>

ChildBind(c) ==
    /\ at[c] = "created"
    /\ Bind(c, 0, "bound")
    /\ UNCHANGED signalVars

(* The file is opened, and the socket is the one member of the poll set.   *)
ChildOpen(c) ==
    /\ at[c] = "bound"
    /\ \E fd \in Fd : LowestFree(c, fd) /\ Open(c, fd, OutputFile)
    /\ polled' = [polled EXCEPT ![c] = {socketNum[c]}]
    /\ at' = [at EXCEPT ![c] = "receiving"]
    /\ UNCHANGED <<socketNum, signalVars>>

(* A process that ends loses its descriptors, and its parent is told.      *)
(* init waits for orphans.                                                 *)
EndChild(c) ==
    /\ at' = [at EXCEPT ![c] = IF c \in orphans THEN "none" ELSE "zombie"]
    /\ orphans' = orphans \ {c}
    /\ sigchld' = (sigchld \/ c \notin orphans)
    /\ CloseAll(c)
    /\ polled' = [polled EXCEPT ![c] = {}]
    /\ socketNum' = [socketNum EXCEPT ![c] = 0]
    /\ UNCHANGED <<handling, restarts>>

(* The ways of processClient to an end: bind fails, for want of a port or  *)
(* else; the FILENAME is too short or the output file cannot be opened;    *)
(* receiveFile returns.                                                    *)
ChildExit(c) ==
    /\ at[c] \in {"created", "bound", "receiving"}
    /\ EndChild(c)

ChildStep(c) ==
    \/ ChildClose(c)
    \/ ChildSocket(c)
    \/ ChildBind(c)
    \/ ChildOpen(c)
    \/ ChildExit(c)

-----------------------------------------------------------------------------

(* A signal, or a call that fails: socket, or bufferInit's malloc. *)
KillChild(c) ==
    /\ at[c] \notin {"none", "zombie"}
    /\ EndChild(c)

(* A signal ends main, or a call does: socket, or bind on a port that is   *)
(* taken.  Its children go to init, which waits for those that have ended. *)
MainEnds ==
    /\ at[Main] # "ended"
    /\ at' = [p \in Process |->
                IF p = Main THEN "ended" ELSE IF at[p] = "zombie" THEN "none" ELSE at[p]]
    /\ orphans' = {c \in Child : at[c] \notin {"none", "zombie"}}
    /\ sigchld' = FALSE
    /\ handling' = FALSE
    /\ CloseAll(Main)
    /\ socketNum' = [socketNum EXCEPT ![Main] = 0]
    /\ UNCHANGED <<polled, restarts>>

MainStarts ==
    /\ at[Main] = "ended"
    /\ restarts < MaxRestarts
    /\ restarts' = restarts + 1
    /\ at' = [at EXCEPT ![Main] = "start"]
    /\ UNCHANGED <<kernelVars, sigchld, handling, orphans>>

Next ==
    \/ MainStep
    \/ MainRecv
    \/ \E c \in Child : ChildStep(c) \/ KillChild(c)
    \/ MainEnds
    \/ MainStarts

Spec == Init /\ [][Next]_vars

(* The scheduler lets every process run, and a child's protocol ends, as   *)
(* System!ChildrenEnd says.  Nobody has to send a FILENAME.                *)
Fairness == WF_vars(MainStep) /\ \A c \in Child : WF_vars(ChildStep(c))

FairSpec == Spec /\ Fairness

-----------------------------------------------------------------------------

(* A child that has ended is noticed: while one waits to be reaped, main   *)
(* has a SIGCHLD to come or is in its handler, although the signals of     *)
(* children that end together count as one, and one that comes during the  *)
(* handler waits (reapChildren).                                           *)
ZombiesAreNoticed == Zombies # {} => sigchld \/ handling

(* Each child receives on a socket of its own, with a port of its own, and *)
(* polls just that, though its descriptor has the number of its parent's:  *)
(* no other process holds it.  Two processes share a socket only until the *)
(* child has closed its parent's, and no two sockets have the same port.   *)
SocketsApart ==
    /\ \A c \in Child : at[c] = "receiving" =>
         /\ polled[c] = {socketNum[c]}
         /\ descriptors[c][socketNum[c]] \in Socket
         /\ port[descriptors[c][socketNum[c]]] \in EphemeralPort
    /\ \A p, q \in Process, s \in Socket :
         p # q /\ Holds(p, s) /\ Holds(q, s) => "forked" \in {at[p], at[q]}
    /\ \A s, t \in Socket :
         s # t /\ port[s] # 0 => port[s] # port[t]

(* A server that ended can be started again on its port at once, while its *)
(* children go on: only one that has not yet closed the socket it was      *)
(* forked with (server.c:58) is in the way.                                *)
PortComesFree ==
    PortNumber # 0 /\ at[Main] \in {"start", "created", "ended"} /\ Taken(PortNumber) =>
        \E c \in orphans : at[c] = "forked"

(* Every entry of the process table that a child takes is given back: it   *)
(* ends, and somebody waits for it, even if no request ever comes again    *)
(* and main sleeps in recvfrom, and even if main ends first.               *)
ChildrenLeave == \A c \in Child : at[c] # "none" ~> at[c] = "none"
=============================================================================
