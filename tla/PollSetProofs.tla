--------------------------- MODULE PollSetProofs ----------------------------
(***************************************************************************)
(* The poll set reports what it should for every set of descriptors and    *)
(* every POLL_SET_SIZE.  What a call returns depends on the entries that   *)
(* are not in use as much as on those that are: the inductive invariant    *)
(* adds to the properties that each of them asks for nothing on standard   *)
(* input, which has not hung up.                                           *)
(***************************************************************************)
EXTENDS PollSet, TLAPS

UnusedAsksNothing ==
    \A i \in 0 .. currentPollSetSize - 1 : i \notin added => pollFileDescriptors[i] = Unused

StdinIsAlive == "POLLHUP" \in condition[Stdin] => StdinHangsUp

Inv ==
    /\ TypeOK
    /\ ArrayCovers
    /\ UnusedAsksNothing
    /\ StdinIsAlive
    /\ ReportsLowest

LEMMA InvInit == Init => Inv
BY PollSetAssumption
   DEF Init, Inv, TypeOK, ArrayCovers, UnusedAsksNothing, StdinIsAlive,
       ReportsLowest, NoCall

(* Among the entries poll looks at, those of the set report what is ready, *)
(* and the others nothing.                                                 *)
LEMMA ReportedIsReady ==
    ASSUME Inv, ~ StdinHangsUp
    PROVE  Reported = Ready
<1>1. ASSUME NEW i \in Reported PROVE i \in Ready
    <2>1. i \in 0 .. currentPollSetSize - 1
        BY DEF Reported, Inv, TypeOK, ArrayCovers
    <2>2. CASE i \in added
        <3>1. pollFileDescriptors[i] = [fd |-> i, events |-> {"POLLIN"}]
            BY <2>2 DEF Inv, ArrayCovers
        <3>2. condition[i] # {}
            BY <3>1 DEF Reported
        <3> QED
            BY <2>2, <3>2 DEF Ready
    <2>3. CASE i \notin added
        <3>1. pollFileDescriptors[i] = Unused
            BY <2>1, <2>3 DEF Inv, UnusedAsksNothing
        <3>2. "POLLHUP" \in condition[Stdin]
            BY <3>1 DEF Reported, Unused, NoEvents
        <3> QED
            BY <3>2 DEF Inv, StdinIsAlive
    <2> QED
        BY <2>2, <2>3
<1>2. ASSUME NEW fd \in Ready PROVE fd \in Reported
    <2>1. fd \in added /\ condition[fd] # {} /\ fd \in Nat
        BY PollSetAssumption DEF Ready, Inv, TypeOK
    <2>2. fd < maxFileDescriptor /\ maxFileDescriptor \in Nat
        BY <2>1 DEF Inv, ArrayCovers, TypeOK
    <2>3. pollFileDescriptors[fd] = [fd |-> fd, events |-> {"POLLIN"}]
        BY <2>1 DEF Inv, ArrayCovers
    <2>4. condition[fd] \subseteq {"POLLIN", "POLLHUP"}
        BY <2>1 DEF Inv, TypeOK, Condition
    <2>5. condition[fd] \cap ({"POLLIN"} \cup {"POLLHUP"}) # {}
        BY <2>1, <2>4
    <2>6. fd \in 0 .. maxFileDescriptor - 1
        BY <2>1, <2>2
    <2> QED
        BY <2>3, <2>5, <2>6 DEF Reported
<1> QED
    BY <1>1, <1>2

(* What poll reports first is a descriptor: if it is an entry not in use,  *)
(* standard input has hung up, and entry 0 reports that before any other.  *)
LEMMA FirstIsDescriptor ==
    ASSUME Inv, NEW i \in Reported, \A j \in Reported : i <= j
    PROVE  i \in Fd
<1>1. i \in 0 .. currentPollSetSize - 1 /\ 0 < maxFileDescriptor
    BY DEF Reported, Inv, TypeOK, ArrayCovers
<1>2. CASE i \in added
    BY <1>2 DEF Inv, TypeOK
<1>3. CASE i \notin added
    <2>1. pollFileDescriptors[i] = Unused
        BY <1>1, <1>3 DEF Inv, UnusedAsksNothing
    <2>2. "POLLHUP" \in condition[0]
        BY <2>1 DEF Reported, Unused, NoEvents, Stdin
    <2>3. pollFileDescriptors[0].fd = 0
        <3>1. CASE 0 \in added
            <4>1. pollFileDescriptors[0] = [fd |-> 0, events |-> {"POLLIN"}]
                BY <3>1 DEF Inv, ArrayCovers
            <4> QED
                BY <4>1
        <3>2. CASE 0 \notin added
            BY <1>1, <3>2 DEF Inv, TypeOK, UnusedAsksNothing, Unused, Stdin
        <3> QED
            BY <3>1, <3>2
    <2>4. 0 \in Reported
        BY <1>1, <2>2, <2>3 DEF Reported, Inv, TypeOK
    <2>5. i <= 0
        BY <2>4
    <2>6. i = 0
        BY <1>1, <2>5 DEF Inv, TypeOK
    <2> QED
        BY <2>6, PollSetAssumption DEF Stdin
<1> QED
    BY <1>2, <1>3

LEMMA AddToPollSetKeepsInv ==
    ASSUME Inv, NEW socketNumber \in Fd, AddToPollSet(socketNumber)
    PROVE  Inv'
<1> USE PollSetAssumption
<1> DEFINE size == GrownSize(socketNumber)
           entry == [fd |-> socketNumber, events |-> {"POLLIN"}]
<1>1. /\ socketNumber \in Nat
      /\ currentPollSetSize \in Nat
      /\ maxFileDescriptor \in Nat
      /\ maxFileDescriptor <= currentPollSetSize
    BY DEF Inv, TypeOK, ArrayCovers
<1>2. /\ size \in Nat
      /\ currentPollSetSize <= size
      /\ socketNumber < size
    BY <1>1 DEF GrownSize
<1>3. /\ maxFileDescriptor' \in Nat
      /\ maxFileDescriptor <= maxFileDescriptor'
      /\ socketNumber < maxFileDescriptor'
      /\ maxFileDescriptor' <= size
      /\ \A i \in Nat : i < maxFileDescriptor' => i < maxFileDescriptor \/ i <= socketNumber
    BY <1>1, <1>2 DEF AddToPollSet, Covers
<1>4. /\ pollFileDescriptors' = [Grown(size) EXCEPT ![socketNumber] = entry]
      /\ currentPollSetSize' = size
      /\ added' = added \cup {socketNumber}
      /\ result' = NoCall
      /\ condition' = condition
      /\ running' = running
    BY DEF AddToPollSet
<1> HIDE DEF size
<1>5. DOMAIN pollFileDescriptors' = 0 .. size - 1
    BY <1>4 DEF Grown
<1>6. pollFileDescriptors'[socketNumber] = entry
    BY <1>1, <1>2, <1>4 DEF Grown
<1>7. ASSUME NEW i \in 0 .. size - 1, i # socketNumber
      PROVE  pollFileDescriptors'[i] =
               IF i < currentPollSetSize THEN pollFileDescriptors[i] ELSE Unused
    BY <1>4, <1>7 DEF Grown
<1>8. Unused \in [fd : Fd, events : SUBSET Condition]
    BY DEF Unused, NoEvents, Condition
<1>9. entry \in [fd : Fd, events : SUBSET Condition]
    BY DEF Condition
<1> HIDE DEF entry
<1>10. pollFileDescriptors' \in [0 .. size - 1 -> [fd : Fd, events : SUBSET Condition]]
    <2>1. ASSUME NEW i \in 0 .. size - 1
          PROVE  pollFileDescriptors'[i] \in [fd : Fd, events : SUBSET Condition]
        <3>1. CASE i = socketNumber
            BY <1>6, <1>9, <3>1
        <3>2. CASE i # socketNumber /\ i < currentPollSetSize
            BY <1>1, <1>7, <3>2 DEF Inv, TypeOK
        <3>3. CASE i # socketNumber /\ ~ i < currentPollSetSize
            BY <1>7, <1>8, <3>3
        <3> QED
            BY <3>1, <3>2, <3>3
    <2>2. pollFileDescriptors' = [i \in 0 .. size - 1 |-> pollFileDescriptors'[i]]
        BY <1>4 DEF Grown
    <2> QED
        BY <2>1, <2>2
<1>11. TypeOK'
    BY <1>2, <1>3, <1>4, <1>10 DEF Inv, TypeOK
<1>12. ArrayCovers'
    <2>1. ASSUME NEW fd \in added
          PROVE  /\ fd < maxFileDescriptor'
                 /\ pollFileDescriptors'[fd] = [fd |-> fd, events |-> {"POLLIN"}]
        <3>1. fd \in Nat /\ fd < maxFileDescriptor
            BY DEF Inv, TypeOK, ArrayCovers
        <3>2. fd \in 0 .. size - 1 /\ fd < currentPollSetSize /\ fd < maxFileDescriptor'
            BY <1>1, <1>2, <1>3, <3>1
        <3> QED
            BY <1>6, <1>7, <3>2 DEF Inv, ArrayCovers, entry
    <2> QED
        BY <1>3, <1>4, <1>6, <2>1 DEF ArrayCovers, entry
<1>13. UnusedAsksNothing'
    <2> SUFFICES ASSUME NEW i \in 0 .. size - 1, i \notin added'
                 PROVE  pollFileDescriptors'[i] = Unused
        BY <1>4 DEF UnusedAsksNothing
    <2>1. i # socketNumber /\ i \notin added
        BY <1>4
    <2>2. CASE i < currentPollSetSize
        BY <1>1, <1>7, <2>1, <2>2 DEF Inv, UnusedAsksNothing
    <2>3. CASE ~ i < currentPollSetSize
        BY <1>7, <2>1, <2>3
    <2> QED
        BY <2>2, <2>3
<1> QED
    BY <1>4, <1>11, <1>12, <1>13 DEF Inv, StdinIsAlive, ReportsLowest

LEMMA InvNext == Inv /\ [Next]_vars => Inv'
<1> SUFFICES ASSUME Inv, [Next]_vars PROVE Inv'
    OBVIOUS
<1> USE PollSetAssumption
<1>1. CASE SetupPollSet
    <2>1. /\ currentPollSetSize = 0 /\ maxFileDescriptor = 0 /\ added = {}
          BY <1>1 DEF SetupPollSet, Inv, TypeOK, ArrayCovers
    <2>2. pollFileDescriptors' \in [0 .. PollSetSize - 1 -> [fd : Fd, events : SUBSET Condition]]
        BY <1>1 DEF SetupPollSet, Unused, NoEvents, Condition
    <2>3. TypeOK'
        BY <1>1, <2>2 DEF SetupPollSet, Inv, TypeOK
    <2> QED
        BY <1>1, <2>1, <2>3
        DEF SetupPollSet, Inv, ArrayCovers, UnusedAsksNothing, StdinIsAlive, ReportsLowest
<1>2. CASE \E socketNumber \in Fd : AddToPollSet(socketNumber)
    BY <1>2, AddToPollSetKeepsInv
<1>3. ASSUME NEW socketNumber \in Fd, RemoveFromPollSet(socketNumber)
      PROVE  Inv'
    <2>1. /\ socketNumber \in added
          /\ pollFileDescriptors' = [pollFileDescriptors EXCEPT ![socketNumber] = Unused]
          /\ added' = added \ {socketNumber}
          /\ result' = NoCall
          /\ UNCHANGED <<currentPollSetSize, maxFileDescriptor, condition, running>>
        BY <1>3 DEF RemoveFromPollSet
    <2>2. Unused \in [fd : Fd, events : SUBSET Condition]
        BY DEF Unused, NoEvents, Condition
    <2>3. TypeOK'
        BY <2>1, <2>2 DEF Inv, TypeOK
    <2>4. ArrayCovers'
        BY <2>1 DEF Inv, TypeOK, ArrayCovers
    <2>5. UnusedAsksNothing'
        BY <2>1 DEF Inv, TypeOK, UnusedAsksNothing
    <2> QED
        BY <2>1, <2>3, <2>4, <2>5 DEF Inv, StdinIsAlive, ReportsLowest
<1>4. ASSUME NEW timeInMilliSeconds \in {-1, 0}, PollCall(timeInMilliSeconds)
      PROVE  Inv'
    <2>1. UNCHANGED <<pollSetVars, condition, running>>
        BY <1>4 DEF PollCall
    <2>2. /\ ArrayCovers' /\ UnusedAsksNothing' /\ StdinIsAlive'
        BY <2>1 DEF Inv, ArrayCovers, UnusedAsksNothing, StdinIsAlive, pollSetVars
    <2>3. result' \in Fd \cup {TimedOut}
        BY <1>4, FirstIsDescriptor DEF PollCall
    <2>4. TypeOK'
        BY <2>1, <2>3 DEF Inv, TypeOK, pollSetVars
    <2>5. ReportsLowest'
        <3>1. CASE StdinHangsUp
            BY <3>1 DEF ReportsLowest
        <3>2. CASE ~ StdinHangsUp
            <4>1. Reported = Ready
                BY <3>2, ReportedIsReady
            <4>2. Ready' = Ready
                BY <2>1 DEF Ready, pollSetVars
            <4> QED
                BY <1>4, <4>1, <4>2 DEF PollCall, ReportsLowest
        <3> QED
            BY <3>1, <3>2
    <2> QED
        BY <2>2, <2>4, <2>5 DEF Inv
<1>5. CASE PollFails
    BY <1>5 DEF PollFails, Inv, TypeOK, ArrayCovers, UnusedAsksNothing, StdinIsAlive,
                ReportsLowest, pollSetVars
<1>6. ASSUME NEW fd \in Fd, NEW what \in SUBSET Condition, Happens(fd, what)
      PROVE  Inv'
    <2>1. TypeOK' /\ StdinIsAlive'
        BY <1>6 DEF Happens, Inv, TypeOK, StdinIsAlive, pollSetVars, Stdin
    <2> QED
        BY <1>6, <2>1
        DEF Happens, Inv, ArrayCovers, UnusedAsksNothing, ReportsLowest, pollSetVars
<1>7. CASE UNCHANGED vars
    BY <1>7 DEF vars, pollSetVars, Inv, TypeOK, ArrayCovers, UnusedAsksNothing,
                StdinIsAlive, ReportsLowest, Ready
<1> QED
    BY <1>1, <1>2, <1>3, <1>4, <1>5, <1>6, <1>7 DEF Next

THEOREM InvAlways == Spec => []Inv
BY InvInit, InvNext, PTL DEF Spec

(* The array has as many entries as its length says, and every result is a *)
(* descriptor of the process or a time-out (pollLib.c:32-34).              *)
THEOREM PollSetTypes == Spec => []TypeOK
BY InvAlways, PTL DEF Inv

(* poll and the loop over revents stay within the array, and cover every   *)
(* descriptor in the set (pollLib.c:46-64, 113-136).                       *)
THEOREM PollSetCovers == Spec => []ArrayCovers
BY InvAlways, PTL DEF Inv

(* pollCall returns the lowest ready descriptor of the set, and -1 only if *)
(* there is none, unless standard input hangs up (pollLib.c:72-111).       *)
THEOREM PollSetReports == Spec => []ReportsLowest
BY InvAlways, PTL DEF Inv
=============================================================================
