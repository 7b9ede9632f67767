------------------------------ MODULE PollSet -------------------------------
(***************************************************************************)
(* pollLib.c: an array of struct pollfd, indexed by descriptor, that grows *)
(* with the largest one.  Entries that are not in use have fd 0 and no     *)
(* events, so poll looks at standard input for each of them.               *)
(*                                                                         *)
(* The caller sets the poll set up once, as rcopy and each child of the    *)
(* server do, and removes only what it added.  growPollSet's own check of  *)
(* the new size cannot fail: socketNumber + POLL_SET_SIZE is greater than  *)
(* a size that socketNumber has reached.                                   *)
(***************************************************************************)
EXTENDS Integers

CONSTANTS
    Fd,             \* the descriptors of the process, standard input among them
    PollSetSize,    \* POLL_SET_SIZE: 10
    StdinHangsUp    \* may whoever writes to standard input go away?

Stdin == 0

ASSUME PollSetAssumption ==
    /\ Fd \subseteq Nat
    /\ Stdin \in Fd
    /\ PollSetSize \in Nat \ {0}
    /\ StdinHangsUp \in BOOLEAN

VARIABLES
    pollFileDescriptors,    \* the array
    currentPollSetSize,     \* its length
    maxFileDescriptor,      \* how many of its entries poll looks at
    condition,              \* the kernel's: what poll would find of a descriptor
    added,                  \* history: the descriptors in the set
    result,                 \* what pollCall returned, if nothing happened since
    running                 \* the process has not exited

pollSetVars == <<pollFileDescriptors, currentPollSetSize, maxFileDescriptor, added>>

vars == <<pollSetVars, condition, result, running>>

Condition == {"POLLIN", "POLLHUP"}

NoEvents == {}

Unused == [fd |-> Stdin, events |-> NoEvents]

TimedOut == -1
NoCall == -2

TypeOK ==
    /\ currentPollSetSize \in Nat
    /\ maxFileDescriptor \in Nat
    /\ pollFileDescriptors \in
         [0 .. currentPollSetSize - 1 -> [fd : Fd, events : SUBSET Condition]]
    /\ condition \in [Fd -> SUBSET Condition]
    /\ added \in SUBSET Fd
    /\ result \in Fd \cup {TimedOut, NoCall}
    /\ running \in BOOLEAN

Init ==
    /\ pollFileDescriptors = [i \in {} |-> Unused]
    /\ currentPollSetSize = 0
    /\ maxFileDescriptor = 0
    /\ condition = [fd \in Fd |-> {}]
    /\ added = {}
    /\ result = NoCall
    /\ running = TRUE

-----------------------------------------------------------------------------

SetupPollSet ==
    /\ running
    /\ currentPollSetSize = 0
    /\ currentPollSetSize' = PollSetSize
    /\ pollFileDescriptors' = [i \in 0 .. PollSetSize - 1 |-> Unused]
    /\ result' = NoCall
    /\ UNCHANGED <<maxFileDescriptor, condition, added, running>>

(* Mutant: the array grows by one step, whatever is added. *)
GrownSizeOneStep(socketNumber) ==
    IF socketNumber >= currentPollSetSize
    THEN currentPollSetSize + PollSetSize
    ELSE currentPollSetSize

(* The size of the array once it has room for socketNumber. *)
GrownSize(socketNumber) ==
    IF socketNumber >= currentPollSetSize
    THEN socketNumber + PollSetSize
    ELSE currentPollSetSize

(* The array with that size: srealloc keeps the entries there were. *)
Grown(size) ==
    [i \in 0 .. size - 1 |->
        IF i < currentPollSetSize THEN pollFileDescriptors[i] ELSE Unused]

(* How many entries poll has to look at from now on. *)
Covers(socketNumber) ==
    IF socketNumber + 1 >= maxFileDescriptor THEN socketNumber + 1 ELSE maxFileDescriptor

(* Mutant: growPollSet does not note the new size. *)
AddToPollSetForgetsSize(socketNumber) ==
    /\ running
    /\ currentPollSetSize # 0
    /\ pollFileDescriptors' =
         [Grown(GrownSize(socketNumber)) EXCEPT
            ![socketNumber] = [fd |-> socketNumber, events |-> {"POLLIN"}]]
    /\ maxFileDescriptor' = Covers(socketNumber)
    /\ added' = added \cup {socketNumber}
    /\ result' = NoCall
    /\ UNCHANGED <<currentPollSetSize, condition, running>>

AddToPollSet(socketNumber) ==
    /\ running
    /\ currentPollSetSize # 0
    /\ currentPollSetSize' = GrownSize(socketNumber)
    /\ pollFileDescriptors' =
         [Grown(GrownSize(socketNumber)) EXCEPT
            ![socketNumber] = [fd |-> socketNumber, events |-> {"POLLIN"}]]
    /\ maxFileDescriptor' = Covers(socketNumber)
    /\ added' = added \cup {socketNumber}
    /\ result' = NoCall
    /\ UNCHANGED <<condition, running>>

(* Mutant: the entry keeps its events. *)
RemoveFromPollSetKeepsEvents(socketNumber) ==
    /\ running
    /\ socketNumber \in added
    /\ pollFileDescriptors' = [pollFileDescriptors EXCEPT ![socketNumber].fd = Stdin]
    /\ added' = added \ {socketNumber}
    /\ result' = NoCall
    /\ UNCHANGED <<currentPollSetSize, maxFileDescriptor, condition, running>>

RemoveFromPollSet(socketNumber) ==
    /\ running
    /\ socketNumber \in added
    /\ pollFileDescriptors' = [pollFileDescriptors EXCEPT ![socketNumber] = Unused]
    /\ added' = added \ {socketNumber}
    /\ result' = NoCall
    /\ UNCHANGED <<currentPollSetSize, maxFileDescriptor, condition, running>>

(* The entries with revents after a call of poll, which reports a hang-up  *)
(* whether it was asked to or not.                                         *)
Reported ==
    {i \in 0 .. maxFileDescriptor - 1 :
        LET entry == pollFileDescriptors[i]
        IN  condition[entry.fd] \cap (entry.events \cup {"POLLHUP"}) # {}}

(* With timeInMilliSeconds = -1 it waits until something is reported. *)
PollCall(timeInMilliSeconds) ==
    /\ running
    /\ currentPollSetSize # 0
    /\ \/ \E i \in Reported :
            /\ \A j \in Reported : i <= j
            /\ result' = i
       \/ /\ timeInMilliSeconds # -1
          /\ Reported = {}
          /\ result' = TimedOut
    /\ UNCHANGED <<pollSetVars, condition, running>>

(* poll fails, interrupted by a signal for instance: the process exits. *)
PollFails ==
    /\ running
    /\ currentPollSetSize # 0
    /\ running' = FALSE
    /\ result' = NoCall
    /\ UNCHANGED <<pollSetVars, condition>>

(* Data arrives or is read, a peer hangs up, a descriptor is closed and    *)
(* used anew.                                                              *)
Happens(fd, what) ==
    /\ running
    /\ fd = Stdin /\ "POLLHUP" \in what => StdinHangsUp
    /\ condition' = [condition EXCEPT ![fd] = what]
    /\ result' = NoCall
    /\ UNCHANGED <<pollSetVars, running>>

Next ==
    \/ SetupPollSet
    \/ \E socketNumber \in Fd :
         AddToPollSet(socketNumber) \/ RemoveFromPollSet(socketNumber)
    \/ \E timeInMilliSeconds \in {-1, 0} : PollCall(timeInMilliSeconds)
    \/ PollFails
    \/ \E fd \in Fd, what \in SUBSET Condition : Happens(fd, what)

Spec == Init /\ [][Next]_vars

-----------------------------------------------------------------------------

(* The descriptors in the set that have data to read, or hung up. *)
Ready == {fd \in added : condition[fd] # {}}

(* poll, the loop over revents and the assignments of addToPollSet stay    *)
(* within the array, however descriptors are added and removed, and every  *)
(* descriptor in the set is among the entries that poll looks at.          *)
ArrayCovers ==
    /\ maxFileDescriptor <= currentPollSetSize
    /\ \A fd \in added :
         /\ fd < maxFileDescriptor
         /\ pollFileDescriptors[fd] = [fd |-> fd, events |-> {"POLLIN"}]

(* pollCall returns the lowest descriptor of the set that is ready, and -1 *)
(* only if none is (pollLib.c:8, 74-75): none is missed after the array    *)
(* has grown, none is reported after it was removed, and input that waits  *)
(* on a standard input nobody added is not taken for one.                  *)
ReportsLowest ==
    ~ StdinHangsUp /\ result # NoCall =>
        \/ result = TimedOut /\ Ready = {}
        \/ result \in Ready /\ \A fd \in Ready : result <= fd

(* pollCall returns the socket number if one is ready for read, and -1 if  *)
(* a time-out occurred (pollLib.c:74-75).                                  *)
SocketOrTimeout ==
    result # NoCall =>
        \/ result = TimedOut /\ Ready = {}
        \/ result \in Ready
=============================================================================
