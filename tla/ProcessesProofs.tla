-------------------------- MODULE ProcessesProofs ---------------------------
(***************************************************************************)
(* For any number of children, sockets, ports and restarts: no child that  *)
(* has ended goes unnoticed, every child receives on a socket of its own,  *)
(* and the server's port is held only by main and by children that have    *)
(* not yet closed their parent's socket.                                   *)
(***************************************************************************)
EXTENDS Processes, TLAPS

(* Where a process has a socket; it has just one, socketNum. *)
HasSocket == {"created", "serving", "forking", "reaping", "forked", "bound", "receiving"}

SocketOf(p) == descriptors[p][socketNum[p]]

OneSocket ==
    \A p \in Process :
        /\ at[p] \in HasSocket => socketNum[p] \in Fd /\ SocketOf(p) \in Socket
        /\ \A fd \in Fd :
             descriptors[p][fd] \in Socket => at[p] \in HasSocket /\ fd = socketNum[p]

(* The kernel's part: ports are of sockets in use, and no two are equal.   *)
PortsDiffer ==
    /\ \A s \in Socket : port[s] # 0 => InUse(s)
    /\ \A s, t \in Socket : s # t /\ port[s] # 0 => port[s] # port[t]

PortAsAsked ==
    \A p \in Process :
        /\ at[p] = "created" => port[SocketOf(p)] = 0
        /\ at[p] \in {"bound", "receiving"} => port[SocketOf(p)] \in EphemeralPort

SharedWhileForked ==
    \A p, q \in Process, s \in Socket :
        p # q /\ Holds(p, s) /\ Holds(q, s) => "forked" \in {at[p], at[q]}

PollsItsOwn == \A c \in Child : at[c] = "receiving" => polled[c] = {socketNum[c]}

(* While main has no port, all children are those of one that has ended.   *)
OnlyOrphans ==
    at[Main] \in {"start", "created", "ended"} =>
        \A c \in Child : at[c] # "none" => c \in orphans

SocketInv ==
    /\ OneSocket
    /\ PortsDiffer
    /\ PortAsAsked
    /\ SharedWhileForked
    /\ PollsItsOwn

Inv == TypeOK /\ ZombiesAreNoticed /\ OnlyOrphans /\ SocketInv

-----------------------------------------------------------------------------

(* What SetDescriptors leaves of the ports. *)
LEMMA SetDescriptorsPorts ==
    ASSUME NEW p, NEW table, SetDescriptors(p, table), TypeOK
    PROVE  \A s \in Socket : port'[s] = IF InUse(s)' THEN port[s] ELSE 0
BY DEF SetDescriptors

LEMMA ProcessFacts ==
    Main \in Process /\ Child \subseteq Process /\ Main \notin Child
BY ProcessesAssumption DEF Process

(* A process that gets another table of descriptors, with its socketNum    *)
(* and its place, keeps the invariant if what it has afterwards is either  *)
(* no socket, one that nobody has, or, in a fork, its parent's.            *)
LEMMA TableKeepsInv ==
    ASSUME TypeOK, TypeOK', SocketInv,
           NEW p \in Process, NEW table \in [Fd -> Socket \cup {OutputFile, Nothing}],
           SetDescriptors(p, table),
           \A q \in Process \ {p} : /\ socketNum'[q] = socketNum[q]
                                    /\ at'[q] \in HasSocket <=> at[q] \in HasSocket
                                    /\ \A place \in {"created", "bound", "receiving", "forked"} :
                                         at'[q] = place <=> at[q] = place,
           at'[p] \in HasSocket =>
             socketNum'[p] \in Fd /\ table[socketNum'[p]] \in Socket,
           \A fd \in Fd : table[fd] \in Socket => at'[p] \in HasSocket /\ fd = socketNum'[p],
           at'[p] = "created" => port[table[socketNum'[p]]] = 0,
           at'[p] \in {"bound", "receiving"} => port[table[socketNum'[p]]] \in EphemeralPort,
           at'[p] \in HasSocket =>
             \/ at'[p] = "forked"
             \/ ~ InUse(table[socketNum'[p]])
             \/ at[p] \in HasSocket \ {"forked"} /\ table[socketNum'[p]] = SocketOf(p)
    PROVE  OneSocket' /\ PortsDiffer' /\ PortAsAsked' /\ SharedWhileForked'
<1>1. /\ descriptors'[p] = table
      /\ \A q \in Process \ {p} : descriptors'[q] = descriptors[q]
    BY DEF SetDescriptors, TypeOK
<1>2. \A s \in Socket : port'[s] = IF InUse(s)' THEN port[s] ELSE 0
    BY SetDescriptorsPorts
<1>3. OneSocket'
    BY <1>1 DEF SocketInv, OneSocket, SocketOf
<1>4. PortsDiffer'
    BY <1>2 DEF SocketInv, PortsDiffer
<1>5. \A q \in Process : at'[q] \in HasSocket => InUse(SocketOf(q))' /\ SocketOf(q)' \in Socket
    BY <1>3 DEF OneSocket, InUse, Holds, SocketOf
<1>6. PortAsAsked'
    <2> SUFFICES ASSUME NEW q \in Process
                 PROVE  /\ at'[q] = "created" => port'[SocketOf(q)'] = 0
                        /\ at'[q] \in {"bound", "receiving"} =>
                             port'[SocketOf(q)'] \in EphemeralPort
        BY DEF PortAsAsked
    <2>1. at'[q] \in {"created", "bound", "receiving"} => port'[SocketOf(q)'] = port[SocketOf(q)']
        BY <1>2, <1>5 DEF HasSocket
    <2>2. CASE q = p
        BY <1>1, <2>1, <2>2 DEF SocketOf
    <2>3. CASE q # p
        BY <1>1, <2>1, <2>3 DEF SocketOf, SocketInv, PortAsAsked
    <2> QED
        BY <2>2, <2>3
<1>7. SharedWhileForked'
    <2>1. ASSUME NEW q \in Process \ {p}, NEW s \in Socket, Holds(p, s)', Holds(q, s)'
          PROVE  "forked" \in {at'[p], at'[q]}
        <3>1. at'[p] \in HasSocket /\ table[socketNum'[p]] = s
            BY <1>1, <2>1 DEF Holds
        <3>2. Holds(q, s)
            BY <1>1, <2>1 DEF Holds
        <3>3. InUse(s)
            BY <3>2 DEF InUse
        <3>4. CASE at[p] \in HasSocket \ {"forked"} /\ table[socketNum'[p]] = SocketOf(p)
            <4>1. Holds(p, s)
                BY <3>1, <3>4 DEF Holds, SocketInv, OneSocket, SocketOf
            <4>2. at[q] = "forked"
                BY <3>2, <3>4, <4>1 DEF SocketInv, SharedWhileForked
            <4> QED
                BY <4>2
        <3> QED
            BY <3>1, <3>3, <3>4
    <2>2. ASSUME NEW q \in Process \ {p}, NEW r \in Process \ {p}, NEW s \in Socket, q # r,
                 Holds(q, s)', Holds(r, s)'
          PROVE  "forked" \in {at'[q], at'[r]}
        BY <1>1, <2>2 DEF Holds, SocketInv, SharedWhileForked
    <2> QED
        BY <2>1, <2>2 DEF SharedWhileForked
<1> QED
    BY <1>3, <1>4, <1>6, <1>7
-----------------------------------------------------------------------------

LEMMA PortTypes ==
    ASSUME NEW p, NEW table, SetDescriptors(p, table), TypeOK
    PROVE  port' \in [Socket -> EphemeralPort \cup {0, PortNumber}]
BY DEF SetDescriptors, TypeOK

LEMMA TableTypes ==
    ASSUME NEW p \in Process, NEW table \in [Fd -> Socket \cup {OutputFile, Nothing}],
           SetDescriptors(p, table), TypeOK
    PROVE  /\ descriptors' \in [Process -> [Fd -> Socket \cup {OutputFile, Nothing}]]
           /\ port' \in [Socket -> EphemeralPort \cup {0, PortNumber}]
BY PortTypes DEF SetDescriptors, TypeOK

LEMMA OpenTypes ==
    ASSUME NEW p \in Process, NEW fd \in Fd, NEW what \in Socket \cup {OutputFile, Nothing},
           Open(p, fd, what), TypeOK
    PROVE  /\ descriptors' \in [Process -> [Fd -> Socket \cup {OutputFile, Nothing}]]
           /\ port' \in [Socket -> EphemeralPort \cup {0, PortNumber}]
<1> DEFINE table == [descriptors[p] EXCEPT ![fd] = what]
<1>1. table \in [Fd -> Socket \cup {OutputFile, Nothing}]
    BY DEF TypeOK
<1>2. SetDescriptors(p, table)
    BY DEF Open
<1> HIDE DEF table
<1> QED
    BY <1>1, <1>2, TableTypes

LEMMA CloseAllTypes ==
    ASSUME NEW p \in Process, CloseAll(p), TypeOK
    PROVE  /\ descriptors' \in [Process -> [Fd -> Socket \cup {OutputFile, Nothing}]]
           /\ port' \in [Socket -> EphemeralPort \cup {0, PortNumber}]
<1>1. NoDescriptors \in [Fd -> Socket \cup {OutputFile, Nothing}]
    BY DEF NoDescriptors
<1> QED
    BY <1>1, TableTypes DEF CloseAll

LEMMA CreateUdpSocketTypes ==
    ASSUME NEW p \in Process, CreateUdpSocket(p), TypeOK
    PROVE  /\ descriptors' \in [Process -> [Fd -> Socket \cup {OutputFile, Nothing}]]
           /\ port' \in [Socket -> EphemeralPort \cup {0, PortNumber}]
           /\ socketNum' \in [Process -> Fd \cup {0}]
           /\ at' = [at EXCEPT ![p] = "created"]
           /\ polled' = polled
<1>1. PICK fd \in Fd, s \in Socket : Open(p, fd, s) /\ socketNum' = [socketNum EXCEPT ![p] = fd]
    BY DEF CreateUdpSocket
<1> QED
    BY <1>1, OpenTypes DEF CreateUdpSocket, TypeOK

LEMMA BindTypes ==
    ASSUME NEW p \in Process, NEW number \in {0, PortNumber}, NEW next,
           Bind(p, number, next), TypeOK
    PROVE  /\ port' \in [Socket -> EphemeralPort \cup {0, PortNumber}]
           /\ at' = [at EXCEPT ![p] = next]
           /\ UNCHANGED <<descriptors, socketNum, polled>>
<1>1. PICK n \in Bindable(number) :
          port' = [port EXCEPT ![descriptors[p][socketNum[p]]] = n]
    BY DEF Bind
<1>2. n \in EphemeralPort \cup {0, PortNumber}
    BY DEF Bindable
<1> QED
    BY <1>1, <1>2 DEF Bind, TypeOK

LEMMA EndChildTypes ==
    ASSUME NEW c \in Child, EndChild(c), TypeOK
    PROVE  TypeOK'
<1>1. c \in Process /\ c # Main /\ Main \in Process
    BY ProcessFacts
<1>2. /\ descriptors' \in [Process -> [Fd -> Socket \cup {OutputFile, Nothing}]]
      /\ port' \in [Socket -> EphemeralPort \cup {0, PortNumber}]
    BY <1>1, CloseAllTypes DEF EndChild
<1>3. /\ at' \in [Process -> MainAt \cup ChildAt]
      /\ at'[Main] \in MainAt
      /\ \A d \in Child : at'[d] \in ChildAt
    BY <1>1, ProcessFacts DEF EndChild, TypeOK, ChildAt
<1>4. /\ socketNum' \in [Process -> Fd \cup {0}]
      /\ polled' \in [Child -> SUBSET (Fd \cup {0})]
    BY <1>1 DEF EndChild, TypeOK
<1>5. /\ sigchld' \in BOOLEAN /\ handling' \in BOOLEAN
      /\ orphans' \in SUBSET Child
      /\ restarts' \in 0 .. MaxRestarts
    BY DEF EndChild, TypeOK
<1> QED
    BY <1>2, <1>3, <1>4, <1>5 DEF TypeOK
LEMMA TypeInit == Init => TypeOK
<1> SUFFICES ASSUME Init PROVE TypeOK
    OBVIOUS
<1>1. /\ at \in [Process -> MainAt \cup ChildAt]
      /\ at[Main] \in MainAt
      /\ \A c \in Child : at[c] \in ChildAt
    BY ProcessFacts DEF Init, MainAt, ChildAt
<1>2. /\ descriptors \in [Process -> [Fd -> Socket \cup {OutputFile, Nothing}]]
      /\ socketNum \in [Process -> Fd \cup {0}]
      /\ polled \in [Child -> SUBSET (Fd \cup {0})]
      /\ port \in [Socket -> EphemeralPort \cup {0, PortNumber}]
    BY DEF Init, NoDescriptors
<1>3. restarts \in 0 .. MaxRestarts
    BY ProcessesAssumption DEF Init
<1> QED
    BY <1>1, <1>2, <1>3 DEF Init, TypeOK

LEMMA TypeNext == TypeOK /\ [Next]_vars => TypeOK'
<1> SUFFICES ASSUME TypeOK, [Next]_vars PROVE TypeOK'
    OBVIOUS
<1> USE ProcessFacts
<1> DEFINE AtOK(a) == /\ a \in [Process -> MainAt \cup ChildAt]
                      /\ a[Main] \in MainAt
                      /\ \A c \in Child : a[c] \in ChildAt
<1>a. AtOK(at)
    BY DEF TypeOK
<1>b. \A place \in MainAt : AtOK([at EXCEPT ![Main] = place])
    BY <1>a
<1>c. \A c \in Child : \A place \in ChildAt : AtOK([at EXCEPT ![c] = place])
    BY <1>a
<1> HIDE DEF AtOK
<1>1. CASE MainSocket
    <2>1. CreateUdpSocket(Main) /\ UNCHANGED signalVars
        BY <1>1 DEF MainSocket
    <2>2. AtOK(at')
        BY <1>b, <2>1, CreateUdpSocketTypes DEF MainAt
    <2> QED
        BY <2>1, <2>2, CreateUdpSocketTypes DEF AtOK, TypeOK, signalVars
<1>2. CASE MainBind
    <2>1. Bind(Main, PortNumber, "serving") /\ UNCHANGED signalVars
        BY <1>2 DEF MainBind
    <2>2. AtOK(at')
        BY <1>b, <2>1, BindTypes DEF MainAt
    <2> QED
        BY <2>1, <2>2, BindTypes DEF AtOK, TypeOK, signalVars
<1>3. CASE \E c \in Child : Fork(c)
    <2>1. PICK c \in Child : Fork(c)
        BY <1>3
    <2>2. AtOK(at')
        <3>1. AtOK([at EXCEPT ![c] = "forked"])
            BY <1>c DEF ChildAt
        <3>2. at' = [[at EXCEPT ![c] = "forked"] EXCEPT ![Main] = "reaping"]
            BY <2>1 DEF Fork, TypeOK
        <3> QED
            BY <3>1, <3>2 DEF AtOK, MainAt
    <2>3. socketNum' \in [Process -> Fd \cup {0}] /\ UNCHANGED <<polled, signalVars>>
        BY <2>1 DEF Fork, TypeOK
    <2>4. /\ SetDescriptors(c, descriptors[Main])
          /\ descriptors[Main] \in [Fd -> Socket \cup {OutputFile, Nothing}]
        BY <2>1 DEF Fork, TypeOK
    <2> QED
        BY <2>2, <2>3, <2>4, TableTypes DEF AtOK, TypeOK, signalVars
<1>4. CASE ForkFails
    BY <1>4, <1>b DEF AtOK, ForkFails, TypeOK, MainAt, kernelVars, signalVars
<1>5. CASE MainRecv
    BY <1>5, <1>b DEF AtOK, MainRecv, TypeOK, MainAt, kernelVars, signalVars
<1>6. CASE MainWaitpid
    <2>1. AtOK(at')
        BY <1>6, <1>b, <1>c DEF MainWaitpid, MainAt, ChildAt, Zombies
    <2> QED
        BY <1>6, <2>1 DEF AtOK, MainWaitpid, TypeOK, kernelVars, signalVars
<1>7. CASE DeliverSigchld
    BY <1>7 DEF AtOK, DeliverSigchld, TypeOK, kernelVars
<1>8. CASE ReapChildren
    <2>1. AtOK(at') /\ handling' \in BOOLEAN
        <3>1. at' = at \/ \E c \in Child : at' = [at EXCEPT ![c] = "none"]
            BY <1>8 DEF ReapChildren, Zombies
        <3>2. handling' \in BOOLEAN
            BY <1>8 DEF ReapChildren, TypeOK
        <3> QED
            BY <1>a, <1>c, <3>1, <3>2 DEF ChildAt
    <2> QED
        BY <1>8, <2>1 DEF AtOK, ReapChildren, TypeOK, kernelVars
<1>9. ASSUME NEW c \in Child, ChildStep(c) \/ KillChild(c) PROVE TypeOK'
    <2>0. c \in Process
        OBVIOUS
    <2>1. CASE ChildClose(c)
        <3>1. socketNum[c] \in Fd => TypeOK'
            BY <2>1, <1>c, OpenTypes, SMTT(30) DEF AtOK, ChildClose, TypeOK, ChildAt, signalVars
        <3>2. socketNum[c] \notin Fd =>
                [descriptors[c] EXCEPT ![socketNum[c]] = Nothing] = descriptors[c]
            BY DEF TypeOK
        <3>3. socketNum[c] \notin Fd => TypeOK'
            BY <2>1, <3>2, <1>c, TableTypes, SMTT(30)
            DEF AtOK, ChildClose, Open, TypeOK, ChildAt, signalVars
        <3> QED
            BY <3>1, <3>3
    <2>2. CASE ChildSocket(c)
        <3>1. CreateUdpSocket(c) /\ UNCHANGED signalVars
            BY <2>2 DEF ChildSocket
        <3>2. AtOK(at')
            BY <1>c, <2>0, <3>1, CreateUdpSocketTypes DEF ChildAt
        <3> QED
            BY <3>1, <3>2, CreateUdpSocketTypes DEF AtOK, TypeOK, signalVars
    <2>3. CASE ChildBind(c)
        <3>1. Bind(c, 0, "bound") /\ UNCHANGED signalVars
            BY <2>3 DEF ChildBind
        <3>2. AtOK(at')
            BY <1>c, <2>0, <3>1, BindTypes DEF ChildAt
        <3> QED
            BY <3>1, <3>2, BindTypes DEF AtOK, TypeOK, signalVars
    <2>4. CASE ChildOpen(c)
        <3>1. PICK fd \in Fd : Open(c, fd, OutputFile)
            BY <2>4 DEF ChildOpen
        <3>2. AtOK(at')
            BY <1>c, <2>4 DEF ChildOpen, ChildAt
        <3>3. polled' \in [Child -> SUBSET (Fd \cup {0})]
            BY <2>4, <2>0 DEF ChildOpen, TypeOK
        <3> QED
            BY <2>0, <2>4, <3>1, <3>2, <3>3, OpenTypes DEF AtOK, ChildOpen, TypeOK, signalVars
    <2>5. CASE ChildExit(c) \/ KillChild(c)
        BY <2>5, EndChildTypes DEF ChildExit, KillChild
    <2> QED
        BY <1>9, <2>1, <2>2, <2>3, <2>4, <2>5 DEF ChildStep
<1>10. CASE MainEnds
    <2>1. AtOK(at')
        BY <1>10, <1>a DEF AtOK, MainEnds, MainAt, ChildAt
    <2> QED
        BY <1>10, <2>1, CloseAllTypes DEF AtOK, MainEnds, TypeOK
<1>11. CASE MainStarts
    <2>1. AtOK(at')
        BY <1>11, <1>b DEF MainStarts, MainAt
    <2>2. restarts' \in 0 .. MaxRestarts
        BY <1>11, ProcessesAssumption DEF MainStarts, TypeOK
    <2> QED
        BY <1>11, <2>1, <2>2 DEF AtOK, MainStarts, TypeOK, kernelVars
<1>12. CASE UNCHANGED vars
    BY <1>12 DEF AtOK, TypeOK, vars, kernelVars, signalVars
<1> QED
    BY <1>1, <1>2, <1>3, <1>4, <1>5, <1>6, <1>7, <1>8, <1>9, <1>10, <1>11, <1>12
    DEF Next, MainStep
-----------------------------------------------------------------------------

LEMMA NoticedNext ==
    ASSUME TypeOK, ZombiesAreNoticed, [Next]_vars
    PROVE  ZombiesAreNoticed'
<1> USE ProcessFacts
<1>0. \A p \in Process, place \in MainAt \cup ChildAt, q \in Process :
        [at EXCEPT ![p] = place][q] = IF q = p THEN place ELSE at[q]
    BY DEF TypeOK
<1>1. ASSUME Zombies' \subseteq Zombies, UNCHANGED <<sigchld, handling>>
      PROVE  ZombiesAreNoticed'
    BY <1>1 DEF ZombiesAreNoticed
<1>2. CASE MainSocket \/ MainBind \/ ForkFails \/ MainRecv
    <2>1. \A c \in Child : at'[c] = at[c]
        BY <1>0, <1>2 DEF MainSocket, MainBind, ForkFails, MainRecv, CreateUdpSocket, Bind, MainAt
    <2> QED
        BY <1>1, <1>2, <2>1
        DEF Zombies, MainSocket, MainBind, ForkFails, MainRecv, signalVars
<1>3. CASE \E c \in Child : Fork(c)
    <2>1. PICK c \in Child : Fork(c)
        BY <1>3
    <2>2. \A d \in Child : at'[d] = IF d = c THEN "forked" ELSE at[d]
        BY <2>1 DEF Fork, TypeOK
    <2>3. UNCHANGED <<sigchld, handling, orphans>>
        BY <2>1 DEF Fork, signalVars
    <2> QED
        BY <1>1, <2>2, <2>3 DEF Zombies
<1>4. CASE MainWaitpid
    <2>1. \A c \in Child : at'[c] \in {at[c], "none"}
        BY <1>0, <1>4 DEF MainWaitpid, Zombies, MainAt, ChildAt
    <2>2. UNCHANGED <<sigchld, handling, orphans>>
        BY <1>4 DEF MainWaitpid, signalVars
    <2> QED
        BY <1>1, <2>1, <2>2 DEF Zombies
<1>5. CASE DeliverSigchld
    BY <1>5 DEF DeliverSigchld, ZombiesAreNoticed
<1>6. CASE ReapChildren
    BY <1>0, <1>6 DEF ReapChildren, ZombiesAreNoticed, Zombies, ChildAt
<1>7. ASSUME NEW c \in Child, ChildStep(c) \/ KillChild(c) PROVE ZombiesAreNoticed'
    <2>1. CASE ChildClose(c) \/ ChildSocket(c) \/ ChildBind(c) \/ ChildOpen(c)
        <3>1. \A d \in Child : at'[d] = at[d] \/ at'[d] # "zombie"
            BY <1>0, <2>1
            DEF ChildClose, ChildSocket, ChildBind, ChildOpen, CreateUdpSocket, Bind, ChildAt
        <3> QED
            BY <1>1, <2>1, <3>1
            DEF Zombies, ChildClose, ChildSocket, ChildBind, ChildOpen, signalVars
    <2>2. CASE EndChild(c)
        <3>1. \A d \in Child : d # c => at'[d] = at[d]
            BY <1>0, <2>2 DEF EndChild, ChildAt
        <3>2. c \in orphans => at'[c] = "none"
            BY <1>0, <2>2 DEF EndChild, ChildAt
        <3> QED
            BY <2>2, <3>1, <3>2 DEF EndChild, ZombiesAreNoticed, Zombies
    <2> QED
        BY <1>7, <2>1, <2>2 DEF ChildStep, ChildExit, KillChild
<1>8. CASE MainEnds
    <2>1. \A c \in Child : at'[c] # "zombie"
        BY <1>8 DEF MainEnds, TypeOK
    <2> QED
        BY <2>1 DEF ZombiesAreNoticed, Zombies
<1>9. CASE MainStarts
    <2>1. \A c \in Child : at'[c] = at[c]
        BY <1>0, <1>9 DEF MainStarts, MainAt
    <2> QED
        BY <1>1, <1>9, <2>1 DEF MainStarts, Zombies
<1>10. CASE UNCHANGED vars
    BY <1>1, <1>10 DEF vars, signalVars, Zombies
<1> QED
    BY <1>2, <1>3, <1>4, <1>5, <1>6, <1>7, <1>8, <1>9, <1>10 DEF Next, MainStep

LEMMA OnlyOrphansNext ==
    ASSUME TypeOK, OnlyOrphans, [Next]_vars
    PROVE  OnlyOrphans'
<1> USE ProcessFacts
<1>0. \A p \in Process, place \in MainAt \cup ChildAt, q \in Process :
        [at EXCEPT ![p] = place][q] = IF q = p THEN place ELSE at[q]
    BY DEF TypeOK
<1>1. CASE MainSocket \/ MainBind \/ ForkFails \/ MainRecv \/ MainStarts
    <2>1. \A c \in Child : at'[c] = at[c]
        BY <1>0, <1>1
        DEF MainSocket, MainBind, ForkFails, MainRecv, MainStarts, CreateUdpSocket, Bind, MainAt
    <2>2. at'[Main] \in {"start", "created", "ended"} => at[Main] \in {"start", "created", "ended"}
        BY <1>0, <1>1
        DEF MainSocket, MainBind, ForkFails, MainRecv, MainStarts, CreateUdpSocket, Bind, MainAt
    <2>3. orphans' = orphans
        BY <1>1 DEF MainSocket, MainBind, ForkFails, MainRecv, MainStarts, signalVars
    <2> QED
        BY <2>1, <2>2, <2>3 DEF OnlyOrphans
<1>2. CASE \E c \in Child : Fork(c)
    <2>1. at'[Main] = "reaping"
        BY <1>2 DEF Fork, TypeOK
    <2> QED
        BY <2>1 DEF OnlyOrphans
<1>3. CASE MainWaitpid \/ ReapChildren
    <2>1. \A c \in Child : at'[c] \in {at[c], "none"}
        BY <1>0, <1>3 DEF MainWaitpid, ReapChildren, Zombies, MainAt, ChildAt
    <2>2. at'[Main] \in {at[Main], "serving"}
        BY <1>0, <1>3 DEF MainWaitpid, ReapChildren, Zombies, MainAt, ChildAt
    <2> QED
        BY <1>3, <2>1, <2>2 DEF OnlyOrphans, MainWaitpid, ReapChildren, signalVars
<1>4. CASE DeliverSigchld
    BY <1>4 DEF DeliverSigchld, OnlyOrphans
<1>5. ASSUME NEW c \in Child, ChildStep(c) \/ KillChild(c) PROVE OnlyOrphans'
    <2>1. at[c] # "none"
        BY <1>5 DEF ChildStep, ChildClose, ChildSocket, ChildBind, ChildOpen, ChildExit, KillChild
    <2>2. CASE ChildClose(c) \/ ChildSocket(c) \/ ChildBind(c) \/ ChildOpen(c)
        <3>1. \A p \in Process : p # c => at'[p] = at[p]
            BY <1>0, <2>2
            DEF ChildClose, ChildSocket, ChildBind, ChildOpen, CreateUdpSocket, Bind, ChildAt
        <3>2. orphans' = orphans
            BY <2>2 DEF ChildClose, ChildSocket, ChildBind, ChildOpen, signalVars
        <3> QED
            BY <2>1, <3>1, <3>2 DEF OnlyOrphans
    <2>3. CASE EndChild(c)
        <3>1. \A p \in Process : p # c => at'[p] = at[p]
            BY <1>0, <2>3 DEF EndChild, ChildAt
        <3>2. c \in orphans => at'[c] = "none"
            BY <1>0, <2>3 DEF EndChild, ChildAt
        <3> QED
            BY <2>1, <2>3, <3>1, <3>2 DEF EndChild, OnlyOrphans
    <2> QED
        BY <1>5, <2>2, <2>3 DEF ChildStep, ChildExit, KillChild
<1>6. CASE MainEnds
    <2>1. \A c \in Child : at'[c] # "none" => at[c] \notin {"none", "zombie"}
        BY <1>6 DEF MainEnds, TypeOK
    <2> QED
        BY <1>6, <2>1 DEF MainEnds, OnlyOrphans
<1>7. CASE UNCHANGED vars
    BY <1>7 DEF vars, signalVars, OnlyOrphans
<1> QED
    BY <1>1, <1>2, <1>3, <1>4, <1>5, <1>6, <1>7 DEF Next, MainStep
-----------------------------------------------------------------------------

(* Steps that move no descriptor and no port. *)
LEMMA QuietKeepsInv ==
    ASSUME SocketInv, UNCHANGED kernelVars,
           \A p \in Process :
             /\ at'[p] \in HasSocket <=> at[p] \in HasSocket
             /\ \A place \in {"created", "bound", "receiving", "forked"} :
                  at'[p] = place <=> at[p] = place
    PROVE  SocketInv'
<1> USE ProcessFacts DEF kernelVars
<1>1. /\ \A p \in Process, s \in Socket : Holds(p, s)' = Holds(p, s)
      /\ \A p \in Process : SocketOf(p)' = SocketOf(p)
    BY DEF Holds, SocketOf
<1>2. OneSocket'
    BY <1>1 DEF SocketInv, OneSocket
<1>3. PortsDiffer'
    BY <1>1 DEF SocketInv, PortsDiffer, InUse
<1>4. PortAsAsked'
    BY <1>1 DEF SocketInv, PortAsAsked
<1>5. SharedWhileForked'
    BY <1>1 DEF SocketInv, SharedWhileForked
<1>6. PollsItsOwn'
    BY DEF SocketInv, PollsItsOwn
<1> QED
    BY <1>2, <1>3, <1>4, <1>5, <1>6 DEF SocketInv

(* createUdpSocket: a new socket, which nobody else has and no port. *)
LEMMA CreateUdpSocketKeepsInv ==
    ASSUME TypeOK, TypeOK', SocketInv, NEW p \in Process,
           at[p] \in {"start", "closed"}, CreateUdpSocket(p)
    PROVE  SocketInv'
<1> USE ProcessFacts
<1>1. PICK fd \in Fd, s \in Socket :
          /\ ~ InUse(s)
          /\ Open(p, fd, s)
          /\ socketNum' = [socketNum EXCEPT ![p] = fd]
    BY DEF CreateUdpSocket
<1>2. at' = [at EXCEPT ![p] = "created"] /\ polled' = polled
    BY DEF CreateUdpSocket
<1> DEFINE table == [descriptors[p] EXCEPT ![fd] = s]
<1>3. /\ table \in [Fd -> Socket \cup {OutputFile, Nothing}]
      /\ SetDescriptors(p, table)
      /\ table[fd] = s
      /\ \A other \in Fd \ {fd} : table[other] \notin Socket
    <2>1. \A other \in Fd : descriptors[p][other] \notin Socket
        BY DEF SocketInv, OneSocket, HasSocket
    <2> QED
        BY <1>1, <2>1 DEF Open, TypeOK
<1>4. /\ at'[p] = "created"
      /\ \A q \in Process \ {p} : at'[q] = at[q] /\ socketNum'[q] = socketNum[q]
      /\ socketNum'[p] = fd
    BY <1>1, <1>2 DEF TypeOK
<1>5. port[s] = 0
    BY <1>1 DEF SocketInv, PortsDiffer
<1> HIDE DEF table
<1>6. OneSocket' /\ PortsDiffer' /\ PortAsAsked' /\ SharedWhileForked'
    BY <1>1, <1>3, <1>4, <1>5, TableKeepsInv DEF HasSocket
<1>7. PollsItsOwn'
    BY <1>2, <1>4 DEF SocketInv, PollsItsOwn
<1> QED
    BY <1>6, <1>7 DEF SocketInv

(* udpServerSetup: the port was free. *)
LEMMA BindKeepsInv ==
    ASSUME TypeOK, TypeOK', SocketInv, NEW p \in Process, NEW number, NEW next,
           at[p] = "created", Bind(p, number, next),
           \/ p = Main /\ next = "serving"
           \/ p \in Child /\ number = 0 /\ next = "bound"
    PROVE  SocketInv'
<1> USE ProcessFacts
<1>1. PICK n \in Bindable(number) : port' = [port EXCEPT ![SocketOf(p)] = n]
    BY DEF Bind, SocketOf
<1>2. /\ UNCHANGED <<descriptors, socketNum, polled>>
      /\ at' = [at EXCEPT ![p] = next]
    BY DEF Bind
<1>3. SocketOf(p) \in Socket /\ socketNum[p] \in Fd
    BY DEF SocketInv, OneSocket, HasSocket
<1>4. InUse(SocketOf(p))
    BY <1>3 DEF InUse, Holds, SocketOf
<1>5. \A s \in Socket : port'[s] = IF s = SocketOf(p) THEN n ELSE port[s]
    BY <1>1 DEF TypeOK
<1>6. \A s \in Socket : port[s] # n
    BY <1>1 DEF Bindable, Taken
<1>7. /\ \A q \in Process, s \in Socket : Holds(q, s)' = Holds(q, s)
      /\ \A q \in Process : SocketOf(q)' = SocketOf(q)
    BY <1>2 DEF Holds, SocketOf
<1>8. /\ at'[p] = next
      /\ \A q \in Process \ {p} : at'[q] = at[q]
    BY <1>2 DEF TypeOK
<1>9. OneSocket'
    BY <1>2, <1>7, <1>8 DEF SocketInv, OneSocket, HasSocket
<1>10. PortsDiffer'
    BY <1>4, <1>5, <1>6, <1>7 DEF SocketInv, PortsDiffer, InUse
<1>11. PortAsAsked'
    <2> SUFFICES ASSUME NEW q \in Process
                 PROVE  /\ at'[q] = "created" => port'[SocketOf(q)] = 0
                        /\ at'[q] \in {"bound", "receiving"} => port'[SocketOf(q)] \in EphemeralPort
        BY <1>7 DEF PortAsAsked
    <2>1. CASE q = p
        <3>1. next = "bound" => n \in EphemeralPort
            BY <1>1 DEF Bindable
        <3> QED
            BY <1>3, <1>5, <1>8, <2>1, <3>1
    <2>2. CASE q # p /\ at[q] \in {"created", "bound", "receiving"}
        <3>1. SocketOf(q) \in Socket /\ socketNum[q] \in Fd
            BY <2>2 DEF SocketInv, OneSocket, HasSocket
        <3>2. SocketOf(q) # SocketOf(p)
            <4>1. Holds(q, SocketOf(q)) /\ Holds(p, SocketOf(p))
                BY <1>3, <3>1 DEF Holds, SocketOf
            <4> QED
                BY <1>3, <2>2, <4>1 DEF SocketInv, SharedWhileForked
        <3> QED
            BY <1>5, <1>8, <2>2, <3>1, <3>2 DEF SocketInv, PortAsAsked
    <2> QED
        BY <1>8, <2>1, <2>2
<1>12. SharedWhileForked'
    BY <1>7, <1>8 DEF SocketInv, SharedWhileForked
<1>13. PollsItsOwn'
    BY <1>2, <1>8 DEF SocketInv, PollsItsOwn
<1> QED
    BY <1>9, <1>10, <1>11, <1>12, <1>13 DEF SocketInv

(* A process ends, or a child closes its parent's socket. *)
LEMMA NoDescriptorsKeepsInv ==
    ASSUME TypeOK, TypeOK', SocketInv, NEW p \in Process,
           NEW table \in [Fd -> Socket \cup {OutputFile, Nothing}],
           SetDescriptors(p, table),
           \A fd \in Fd : table[fd] \notin Socket,
           at'[p] \notin HasSocket,
           \A q \in Process \ {p} : /\ socketNum'[q] = socketNum[q]
                                    /\ at'[q] \in HasSocket <=> at[q] \in HasSocket
                                    /\ \A place \in {"created", "bound", "receiving", "forked"} :
                                         at'[q] = place <=> at[q] = place,
           \A c \in Child \ {p} : polled'[c] = polled[c]
    PROVE  SocketInv'
<1> USE ProcessFacts
<1>1. OneSocket' /\ PortsDiffer' /\ PortAsAsked' /\ SharedWhileForked'
    BY TableKeepsInv DEF HasSocket
<1>2. PollsItsOwn'
    BY DEF SocketInv, PollsItsOwn, HasSocket
<1> QED
    BY <1>1, <1>2 DEF SocketInv
LEMMA ForkKeepsInv ==
    ASSUME TypeOK, TypeOK', SocketInv, NEW c \in Child, Fork(c)
    PROVE  SocketInv'
<1> USE ProcessFacts
<1> DEFINE table == descriptors[Main]
<1>1. /\ at[Main] = "forking" /\ at[c] = "none"
      /\ SetDescriptors(c, table)
      /\ table \in [Fd -> Socket \cup {OutputFile, Nothing}]
      /\ polled' = polled
    BY DEF Fork, TypeOK
<1>2. /\ at'[c] = "forked" /\ at'[Main] = "reaping"
      /\ \A q \in Process \ {c, Main} : at'[q] = at[q]
      /\ socketNum'[c] = socketNum[Main]
      /\ \A q \in Process \ {c} : socketNum'[q] = socketNum[q]
    BY DEF Fork, TypeOK
<1>3. /\ socketNum[Main] \in Fd /\ table[socketNum[Main]] \in Socket
      /\ \A fd \in Fd : table[fd] \in Socket => fd = socketNum[Main]
    BY <1>1 DEF SocketInv, OneSocket, SocketOf, HasSocket
<1> HIDE DEF table
<1>4. OneSocket' /\ PortsDiffer' /\ PortAsAsked' /\ SharedWhileForked'
    BY <1>1, <1>2, <1>3, TableKeepsInv DEF HasSocket
<1>5. PollsItsOwn'
    BY <1>1, <1>2 DEF SocketInv, PollsItsOwn
<1> QED
    BY <1>4, <1>5 DEF SocketInv

LEMMA ChildOpenKeepsInv ==
    ASSUME TypeOK, TypeOK', SocketInv, NEW c \in Child, ChildOpen(c)
    PROVE  SocketInv'
<1> USE ProcessFacts
<1>0. c \in Process
    OBVIOUS
<1>1. PICK fd \in Fd : LowestFree(c, fd) /\ Open(c, fd, OutputFile)
    BY DEF ChildOpen
<1> DEFINE table == [descriptors[c] EXCEPT ![fd] = OutputFile]
<1>2. /\ at[c] = "bound" /\ at'[c] = "receiving"
      /\ \A q \in Process \ {c} : at'[q] = at[q]
      /\ socketNum' = socketNum
      /\ polled'[c] = {socketNum[c]}
      /\ \A d \in Child \ {c} : polled'[d] = polled[d]
    BY DEF ChildOpen, TypeOK
<1>3. socketNum[c] \in Fd /\ SocketOf(c) \in Socket /\ port[SocketOf(c)] \in EphemeralPort
    BY <1>2 DEF SocketInv, OneSocket, PortAsAsked, HasSocket
<1>4. fd # socketNum[c]
    BY <1>1, <1>3, ProcessesAssumption DEF LowestFree, SocketOf
<1>5. /\ table \in [Fd -> Socket \cup {OutputFile, Nothing}]
      /\ SetDescriptors(c, table)
      /\ table[socketNum[c]] = SocketOf(c)
      /\ \A other \in Fd \ {socketNum[c]} : table[other] \notin Socket
    <2>1. \A other \in Fd \ {socketNum[c]} : descriptors[c][other] \notin Socket
        BY DEF SocketInv, OneSocket
    <2>2. OutputFile \notin Socket
        BY ProcessesAssumption
    <2>3. descriptors[c] \in [Fd -> Socket \cup {OutputFile, Nothing}]
        BY <1>0 DEF TypeOK
    <2>4. SetDescriptors(c, table)
        BY <1>1 DEF Open
    <2> QED
        BY <1>3, <1>4, <2>1, <2>2, <2>3, <2>4 DEF SocketOf
<1> HIDE DEF table
<1>6. OneSocket' /\ PortsDiffer' /\ PortAsAsked' /\ SharedWhileForked'
    BY <1>0, <1>2, <1>3, <1>5, TableKeepsInv DEF HasSocket
<1>7. PollsItsOwn'
    BY <1>2 DEF SocketInv, PollsItsOwn
<1> QED
    BY <1>6, <1>7 DEF SocketInv

LEMMA EndChildKeepsInv ==
    ASSUME TypeOK, TypeOK', SocketInv, NEW c \in Child, EndChild(c)
    PROVE  SocketInv'
<1> USE ProcessFacts
<1>1. /\ at'[c] \in {"none", "zombie"}
      /\ \A q \in Process \ {c} : at'[q] = at[q] /\ socketNum'[q] = socketNum[q]
      /\ \A d \in Child \ {c} : polled'[d] = polled[d]
    BY DEF EndChild, TypeOK
<1>2. /\ SetDescriptors(c, NoDescriptors)
      /\ NoDescriptors \in [Fd -> Socket \cup {OutputFile, Nothing}]
      /\ \A fd \in Fd : NoDescriptors[fd] \notin Socket
    BY ProcessesAssumption DEF EndChild, CloseAll, NoDescriptors
<1> QED
    BY <1>1, <1>2, NoDescriptorsKeepsInv DEF HasSocket

LEMMA ChildCloseKeepsInv ==
    ASSUME TypeOK, TypeOK', SocketInv, NEW c \in Child, ChildClose(c)
    PROVE  SocketInv'
<1> USE ProcessFacts
<1>0. c \in Process
    OBVIOUS
<1>1. /\ at[c] = "forked" /\ at'[c] = "closed"
      /\ \A q \in Process \ {c} : at'[q] = at[q]
      /\ UNCHANGED <<socketNum, polled>>
    BY DEF ChildClose, TypeOK
<1> DEFINE table == [descriptors[c] EXCEPT ![socketNum[c]] = Nothing]
<1>2. /\ SetDescriptors(c, table)
      /\ table \in [Fd -> Socket \cup {OutputFile, Nothing}]
    BY <1>0 DEF ChildClose, Open, TypeOK
<1>3. \A fd \in Fd : table[fd] \notin Socket
    <2>1. \A other \in Fd \ {socketNum[c]} : descriptors[c][other] \notin Socket
        BY DEF SocketInv, OneSocket
    <2>2. descriptors[c] \in [Fd -> Socket \cup {OutputFile, Nothing}] /\ Nothing \notin Socket
        BY <1>0, ProcessesAssumption DEF TypeOK
    <2> QED
        BY <2>1, <2>2
<1> HIDE DEF table
<1> QED
    BY <1>0, <1>1, <1>2, <1>3, NoDescriptorsKeepsInv DEF HasSocket

LEMMA MainEndsKeepsInv ==
    ASSUME TypeOK, TypeOK', SocketInv, MainEnds
    PROVE  SocketInv'
<1> USE ProcessFacts
<1>1. /\ at'[Main] = "ended"
      /\ \A q \in Process \ {Main} :
           /\ at'[q] = IF at[q] = "zombie" THEN "none" ELSE at[q]
           /\ socketNum'[q] = socketNum[q]
      /\ polled' = polled
    BY DEF MainEnds, TypeOK
<1>2. /\ SetDescriptors(Main, NoDescriptors)
      /\ NoDescriptors \in [Fd -> Socket \cup {OutputFile, Nothing}]
      /\ \A fd \in Fd : NoDescriptors[fd] \notin Socket
    BY ProcessesAssumption DEF MainEnds, CloseAll, NoDescriptors
<1> QED
    BY <1>1, <1>2, NoDescriptorsKeepsInv DEF HasSocket

LEMMA SocketInvNext ==
    ASSUME TypeOK, TypeOK', SocketInv, [Next]_vars
    PROVE  SocketInv'
<1> USE ProcessFacts
<1>1. CASE MainSocket
    BY <1>1, CreateUdpSocketKeepsInv DEF MainSocket
<1>2. CASE MainBind
    BY <1>2, BindKeepsInv DEF MainBind
<1>3. CASE \E c \in Child : Fork(c)
    BY <1>3, ForkKeepsInv
<1>4. CASE ForkFails \/ MainRecv \/ MainStarts
    <2>1. UNCHANGED kernelVars
        BY <1>4 DEF ForkFails, MainRecv, MainStarts
    <2>2. /\ \A q \in Process \ {Main} : at'[q] = at[q]
          /\ \/ at[Main] = "forking" /\ at'[Main] = "reaping"
             \/ at[Main] = "serving" /\ at'[Main] = "forking"
             \/ at[Main] = "ended" /\ at'[Main] = "start"
        BY <1>4 DEF ForkFails, MainRecv, MainStarts, TypeOK
    <2> QED
        BY <2>1, <2>2, QuietKeepsInv DEF HasSocket
<1>5. CASE MainWaitpid \/ DeliverSigchld \/ ReapChildren
    <2>1. UNCHANGED kernelVars
        BY <1>5 DEF MainWaitpid, DeliverSigchld, ReapChildren
    <2>2. \A q \in Process :
            \/ at'[q] = at[q]
            \/ at[q] = "zombie" /\ at'[q] = "none"
            \/ at[q] = "reaping" /\ at'[q] = "serving"
        BY <1>5 DEF MainWaitpid, DeliverSigchld, ReapChildren, Zombies, TypeOK
    <2> QED
        BY <2>1, <2>2, QuietKeepsInv DEF HasSocket
<1>6. ASSUME NEW c \in Child, ChildStep(c) \/ KillChild(c) PROVE SocketInv'
    <2>0. c \in Process
        OBVIOUS
    <2>1. CASE ChildClose(c)
        BY <2>1, ChildCloseKeepsInv
    <2>2. CASE ChildSocket(c)
        BY <2>0, <2>2, CreateUdpSocketKeepsInv DEF ChildSocket
    <2>3. CASE ChildBind(c)
        BY <2>0, <2>3, BindKeepsInv DEF ChildBind
    <2>4. CASE ChildOpen(c)
        BY <2>4, ChildOpenKeepsInv
    <2>5. CASE ChildExit(c) \/ KillChild(c)
        BY <2>5, EndChildKeepsInv DEF ChildExit, KillChild
    <2> QED
        BY <1>6, <2>1, <2>2, <2>3, <2>4, <2>5 DEF ChildStep
<1>7. CASE MainEnds
    BY <1>7, MainEndsKeepsInv
<1>8. CASE UNCHANGED vars
    BY <1>8, QuietKeepsInv DEF vars
<1> QED
    BY <1>1, <1>2, <1>3, <1>4, <1>5, <1>6, <1>7, <1>8 DEF Next, MainStep

-----------------------------------------------------------------------------

LEMMA InvInit == Init => Inv
<1> SUFFICES ASSUME Init PROVE Inv
    OBVIOUS
<1>1. TypeOK
    BY TypeInit
<1>2. /\ \A p \in Process, fd \in Fd : descriptors[p][fd] \notin Socket
      /\ \A p \in Process : at[p] \in {"start", "none"}
      /\ \A c \in Child : at[c] = "none"
      /\ \A s \in Socket : port[s] = 0
    BY ProcessFacts, ProcessesAssumption DEF Init, NoDescriptors
<1>3. SocketInv
    BY <1>2, ProcessFacts
    DEF SocketInv, OneSocket, PortsDiffer, PortAsAsked, SharedWhileForked, PollsItsOwn,
        HasSocket, Holds
<1>4. ZombiesAreNoticed /\ OnlyOrphans
    BY <1>2 DEF ZombiesAreNoticed, Zombies, OnlyOrphans
<1> QED
    BY <1>1, <1>3, <1>4 DEF Inv

THEOREM InvAlways == Spec => []Inv
<1>1. Inv /\ [Next]_vars => Inv'
    BY TypeNext, NoticedNext, OnlyOrphansNext, SocketInvNext DEF Inv
<1> QED
    BY <1>1, InvInit, PTL DEF Spec

(* The process table, descriptors and ports keep their types (server.c,    *)
(* networks.c).                                                            *)
THEOREM ProcessesTypes == Spec => []TypeOK
BY InvAlways, PTL DEF Inv

(* No child that has ended stays unnoticed, however many signals become    *)
(* one (reapChildren).                                                     *)
THEOREM ZombiesAlwaysNoticed == Spec => []ZombiesAreNoticed
BY InvAlways, PTL DEF Inv

(* Every child receives on a socket and port of its own (processClient,    *)
(* udpServerSetup).                                                        *)
THEOREM SocketsAlwaysApart == Spec => []SocketsApart
<1>1. Inv => SocketsApart
    <2> SUFFICES ASSUME Inv PROVE SocketsApart
        OBVIOUS
    <2>1. \A c \in Child : at[c] = "receiving" =>
            /\ polled[c] = {socketNum[c]}
            /\ SocketOf(c) \in Socket
            /\ port[SocketOf(c)] \in EphemeralPort
        BY ProcessFacts DEF Inv, SocketInv, OneSocket, PortAsAsked, PollsItsOwn, HasSocket
    <2> QED
        BY <2>1 DEF Inv, SocketInv, SharedWhileForked, PortsDiffer, SocketsApart, SocketOf
<1> QED
    BY <1>1, InvAlways, PTL

(* While main has no port, just a child forked by a main process that has  *)
(* ended may still hold it (processClient, server.c:58).                   *)
THEOREM PortAlwaysComesFree == Spec => []PortComesFree
<1>1. Inv => PortComesFree
    <2> SUFFICES ASSUME Inv, PortNumber # 0, at[Main] \in {"start", "created", "ended"},
                        NEW s \in Socket, port[s] = PortNumber
                 PROVE  \E c \in orphans : at[c] = "forked"
        BY DEF PortComesFree, Taken
    <2>1. PICK p \in Process, fd \in Fd : descriptors[p][fd] = s
        BY DEF Inv, SocketInv, PortsDiffer, InUse, Holds
    <2>2. at[p] \in HasSocket /\ SocketOf(p) = s
        BY <2>1 DEF Inv, SocketInv, OneSocket, SocketOf
    <2>3. at[p] \notin {"created", "bound", "receiving"}
        BY <2>2, ProcessesAssumption DEF Inv, SocketInv, PortAsAsked
    <2>4. p # Main
        BY <2>2, <2>3 DEF HasSocket
    <2>5. p \in Child /\ at[p] = "forked"
        BY <2>2, <2>3, <2>4 DEF Process, HasSocket, Inv, TypeOK, ChildAt
    <2> QED
        BY <2>5 DEF Inv, OnlyOrphans
<1> QED
    BY <1>1, InvAlways, PTL
=============================================================================
