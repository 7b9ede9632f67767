# Verification of rcopy / server

The repository is a file copy over UDP: the client `rcopy` sends a file through
a sliding window with selective reject, the `server` forks a child for each
client, and every datagram goes through `sendtoErr` of libcpe464, which drops
PDUs and flips bytes at random. This directory models the protocol in TLA+,
checks it with TLC on small instances, and proves with TLAPS what holds for all.

## The system

| component | state it keeps | operations | what makes it correct |
|---|---|---|---|
| `rcopy.c` | state of `stateHandler`, file offset, `EOFReached`, three try counters, `info->server` | one function per state | forgets no PDU before it is written; announces the end only when all is written; ends |
| `window.c` | `lower`, `upper`, `current`, ring of slots | add, get, RR, SREJ, open?, empty? | keeps exactly the unacknowledged PDUs; never moves back |
| `server.c` main | its socket, its children in the process table | receive FILENAME, fork, reap | every valid FILENAME is served; no zombie stays |
| `server.c` child | loop of `receiveFile` it is in, `EOFTries`, file offset | open and answer, DATA, EOF, time-outs of 10 s and 1 s | always ends |
| `buffer.c` | `BufferContext`: state, `expected`, `highest`, `lastSREJ`, ring | `bufferProcessPDU` | writes the file in order, each block once; asks for each gap |
| libcpe464 | error events and their random seeds | `sendtoErr`, `recvfromErr` | hands a PDU on, drops it, or flips one byte |
| `createPDU.c`, `checksum.c` | none | build and check a PDU | a flipped byte is detected |
| `pollLib.c` | array of `pollfd` | set up, add, remove, `pollCall` | reports a ready socket, or a time-out |
| `networks.c` | sockets, descriptors and ports of the processes | `udpServerSetup` (the TCP functions are called by nobody) | every process receives on a socket of its own |
| `safeUtil.c`, `gethostbyname.c`, dbg_print | none of the protocol | wrappers, logging | |
| SettingsManager | the settings of a process, overridden by its environment | get, set | one value for every process (with libcpe464, in `SendErr`) |
| `*old.c`, `PacketManager.cpp.bak` | | not built | |

rcopy and the children exchange DATA, RR and SREJ; the handshakes are FILENAME /
FILENAME_RESPONSE at the start and EOF / EOF_ACK / FINAL_ACK at the end. All
children of one rcopy open the same output file with `O_TRUNC`. What is hard:
losses, duplicates and reordering of all of these; time-outs that race late
answers; retries that fork a second child; `info->server`, which follows the
sender of whatever arrives; ring slots that are reused; 32-bit arithmetic; calls
that fail and are not looked at; processes that are killed, signals that merge,
descriptors that fork hands on. PROJECT.json lists the hazards by line.

## The modules

| module | models | notes |
|---|---|---|
| `SeqNums` | uint32_t sequence numbers and ring slots | shared by window and buffer |
| `Window` | window.c | operators and actions on the four variables |
| `WindowLog` | window.c under any caller | history `sent`; its properties are the contract of the window |
| `Network` | datagrams, `createPDU`, `sendtoErr` | |
| `Rcopy` | rcopy.c | EXTENDS `Window`, `Network` |
| `Buffer` | buffer.c | operators on a `BufferContext`: each returns the new context, what is written, what is answered |
| `Server` | server.c: what it says to rcopy | EXTENDS `Network`, `Buffer` |
| `Processes` | server.c and networks.c: sockets, fork, SIGCHLD, restarts | stands alone: `Server` has a child per FILENAME, on an address of its own |
| `System` | one rcopy and one server | composes `Rcopy` and `Server`; all system properties |
| `FileCopy` | what a copy promises | abstract; `System!CopySpec` is the refinement |
| `MCSystem` | values of constants for TLC | |
| `PollSet` | pollLib.c and the `poll` beneath it | stands alone: `Rcopy` and `Server` use `pollCall` as ready, or timed out |
| `SendErr` | settings, event lists, seeds and `sendto_Err` of libcpe464, over a program and its forked children | stands alone: `Network` keeps that a send may be dropped or flipped |
| `MCSendErr` | values of the environment's lists | |
| `Checksum` | `in_cksum` on bytes | operators |
| `Pdu` | `createPDU` and its callers, the functions that read PDUs, `errorFlipBits` | EXTENDS `Checksum`; justifies the records of `Network` and its flag `CORRUPT` |
| `WindowLemmas`, `WindowProofs`, `BufferProofs`, `SystemProofs`, `PollSetProofs`, `SendErrProofs`, `ProcessesProofs`, `PduProofs` | | proofs |

An action is one way through a state function or a turn of a receive loop, with
every call that changes state. `processAcksState` is a loop, one action a turn,
since datagrams can arrive between turns. An action of a receiver consumes one
PDU and sends at most one.

Definitions marked *Mutant* are versions of the next definition with a
plausible bug. No specification uses them; each is paired in PROJECT.json with
the property that fails when it replaces the original.

### How state corresponds

* A PDU keeps the flag, one number and the block. `controlSeqNum` and
  `ackSeqNum` are never read by a receiver and are left out. A PDU with a flipped
  byte has the flag `CORRUPT`: every receiver validates the checksum first.
* `net` is the set of datagrams in flight. Two equal ones merge, which is the loss
  of a copy; with `Duplicates` a datagram can be received again instead.
* `inbox` is what poll would find in rcopy's socket. It holds one datagram, the
  head of the queue; others wait in `net`, where order means nothing, so no
  behaviour is lost.
* A server process reads its socket as soon as it runs, so its queue is part of `net`.
* `server` is `info->server`. `peer` is a history variable: the child whose
  FILENAME_RESPONSE was accepted.
* `written[c]` is what child c has written one block after the other; its length
  is the offset of its descriptor. `output` is the file both share, emptied by
  every open; writing behind its end leaves a `Hole`.
* The receiver's loop in `flushingState` is one step: it blocks on nothing.
  `FlushCount` is the number of its turns.
* `PollSet` has the array entry by entry, as pollLib.c keeps it. `condition` is
  what the kernel knows of each descriptor; `added` is a history variable, the
  set the caller means. `result` is kept until something happens, so that it can
  be compared with the state it was computed from.
* A process in `killed` takes no step any more; `KillRcopy` and `KillChild` put it
  there between any two steps, while its datagrams stay in flight and `output`
  stays on disk.
* In `Processes` a child stands for an entry of the process table. `descriptors` and
  `port` are the kernel's; `sigchld` is one bit, as the kernel keeps it, and
  `handling` says that main is in `reapChildren`. What a child receives is left
  out: `ChildExit` is any of the ways `receiveFile` returns.
* `Pdu` has no receiver's state: a behaviour is one PDU, as sent and, after
  `FlipBits`, as damaged. `meant` remembers what its sender put into it.
* In `SendErr` the environment's lists are sequences of numbers and `Junk`, what
  strtok_r cuts the values into; that they become a set loses only repetitions.
  The state of each process is a function value: a child starts as a
  copy of its parent. `chance` has the kinds of events in `m_ErrorCase_Chance`;
  that an event is in it twice changes only the odds. The random generator is a
  choice, and `seed` remembers what it was seeded with.
* Parsing of command lines is left out. In `Server` a FILENAME is always long
  enough; that it is, and what is read from it, is checked in `Pdu`.

### Time

`LateDelivery = TRUE`: poll may time out at any moment (for rcopy: whenever its
socket is empty). `FALSE`: datagrams and processes are fast compared to the
1 s and 10 s of the code. rcopy times out only when nothing that anybody reads is
in flight and no child is about to answer; a child only when nothing is in
flight to or from it and rcopy will not speak to it of its own accord
(`SilentTo`). Safety holds under both; what concerns the file on disk with
several children, and liveness, assumes the second.

## The runs

| run | instance | shows |
|---|---|---|
| `window` | W = 3, modulus 8, 2 PDUs | the contract of the window, wrap of `upper` included |
| `duplicates` | 3 blocks, W = 2, modulus 5, 1 loss, duplicates, late | output a prefix, ring reuse, acknowledgement, EOF, refinement of `FileCopy`; the window may shut when the numbers run out |
| `prompt` | 3 blocks, W = 2, 2 losses, 1 kill, 3 tries, 3 children | file on disk, survival of losses, liveness though a process dies; without losses and deaths the copy is made |
| `faults` | 3 blocks, W = 3, 2 children, failing read, fork, open, write, late | full and partial flush, one SREJ per gap, order kept, each block in its place, no false end of file |
| `processes` | 2 children, 3 sockets, 2 ephemeral ports, 2 restarts | sockets apart, port free at once, every zombie reaped |
| `poll_set` | descriptors 0, 1, 3, 5, `POLL_SET_SIZE` 2 | which descriptor `pollCall` reports |
| `errors` | 2 children, 2 messages, modulus 2, lists with and without junk, all arguments | drops and flips of the environment hold in every process; seeds differ with RSEED_OFF |
| `checksum` | PDUs of up to 18 bytes of 2 bits, all four kinds of payload | every flipped byte is detected; what is read is what was sent |
| `lost_tail` | 2 blocks, 1 loss, 4 tries | **violated**: rcopy need not end |
| `lost_reply` | 2 blocks, 1 loss, 4 tries | **violated**: rcopy ends without the copy |
| `hang_up` | as `poll_set`, standard input may hang up | **violated**: `pollCall` returns 0 |
| `flip_list` | as `errors` | **violated**: a list of messages to flip flips none |

The properties are stated, each with its meaning, at the end of `WindowLog`,
`System`, `PollSet`, `SendErr`, `Processes` and `Pdu`.

### Bounds and why they suffice

* `File` of 2 or 3 different blocks. With `WindowSize` 2 the file is longer than the
  window, so slots are reused and the window closes; with 3, in `faults`, two blocks
  wait behind a gap, so that a flush may be full or partial. Slots that are reused by
  larger windows are left to `window` and the proofs.
* `MaxErrors` counts drops and flips. With `LateDelivery` a slow datagram is as
  bad as a lost one, so one real loss is enough; `prompt` has two, in any place.
* `MaxTries` is 10 in the code; 2 in the late runs, where only reaching the limit
  matters, more than `MaxErrors` in `prompt`, so that giving up is not due to
  losses alone, and 4 in the two violated runs, where more would not help.
* `Children`: in `prompt` one more than the losses, so main can always fork. In
  the late runs main may find no child idle, which is one more failure of fork. There
  `EOF` and `AcknowledgedIsWritten` only concern the child that was accepted.
* `UintModulus` 8 is above every number that occurs, except in `window` and in
  `duplicates`, where 5 lets `upper` wrap around with the last acknowledgement, before
  or after rcopy has seen the end of the file; and in `errors`.
* `poll_set`: the array starts with 2 entries, and 3 and 5 each lie beyond the end
  it has when they are added first.
* `MaxCrashes` is 1 in `prompt`, for rcopy or any child: a second death finds nobody
  to notice it. The kill may fall between any two steps.
* `faults` has no losses, since with `LateDelivery` and retries two children exist
  without; symmetry under exchange of its two children is used there only, where
  no liveness property is checked.
* `processes`: three sockets are one more than the children, so socket never lacks
  one; two ephemeral ports, so that a bind may fail when children of two main
  processes overlap; MaxFd 5 is the parent's descriptor, the file and one more. Two
  restarts let orphans of two servers live at once.
* `errors`: with a list that names 2 the first message is dropped by chance only, and a
  child's first message is number 2 if its parent has sent one. `UintModulus` 2 stands
  for 2^32: one list has a number beyond it, and the number of the second message
  wraps around. One tick of the clock separates children forked in the same second
  from others.
* `checksum`: with bytes of 2 bits five words overflow a short several times, so
  that both folds carry; blocks of 1 to 3 bytes and names of 0 to 2, the longest
  `MaxName`, give odd and even lengths. Numbers differ from 0 in 2 or 3 of their 4
  bytes, so that a wrong order shows.
* One rcopy: children of different clients share nothing but a file name.

### Fairness

`FairSpec` assumes weak fairness of each process (it is scheduled), of delivery
(what is not dropped arrives), and of each time-out (poll returns). Nothing is
assumed about losses beyond `MaxErrors`, and a killed process takes no step.
`Processes` assumes weak fairness of main's steps as a whole and of each child's
(its protocol ends, as `ChildrenEnd` of `System` says), not of `MainRecv`, of kills or
of restarts: nobody has to send a FILENAME.

### Findings

* `lost_tail`: with the file read, the window open and PDUs unacknowledged,
  `sendDataState` and `processAcksState` call each other for ever
  (rcopy.c:192-198, 268-275): no resend, no time-out. `RcopyEndsOrSpins`, checked
  in `prompt`, says that this is the only way not to end.
* `lost_reply`: `info->server` follows the sender of a FILENAME_RESPONSE that fails
  its checksum (rcopy.c:162-166); the retries go to the child, which ignores them.
* `hang_up`: unused entries of the poll set have fd 0, and `poll` reports a hang-up
  unasked, so that `pollCall` returns 0 once the writer of a pipe on standard
  input ends. rcopy takes every such call for a time-out. `System` assumes that
  standard input stays open.
* `flip_list`: with numbers in CPE464_OVERRIDE_ERR_FLIP the library flips nothing
  (`// TODO implement`, SettingsManager.cpp:240), and as the variable is set the
  program's own flips are off as well. SettingsManager.h:15-19 documents it as a
  list of messages like that of the drops. `FlipsAsSet` only says that no message
  has a bit flipped that should not have.

`lost_tail` and `lost_reply` quote testRandError.sh for what its author expects: that
the client returns and that the files are the same. The script itself passes its
arguments in an order that this rcopy refuses (rcopy.c:418), so it cannot show either.

Some facts met on the way are not runs of their own. With RSEED_ON, as the server
uses it, `nextSeed` is `time(NULL)` and a child that calls `sendErr_init` again
takes the time once more (network-hooks.c:195-196, server.c:256), so that
children of the same second share their errors; `SeedsDifferUnlessRandom` says
that RSEED_OFF avoids it. And networks.c does not include cpe464.h, so that its
`bind` is the system's and CPE464_OVERRIDE_PORT, which testRandError.sh:53 sets, has
no effect on this server; `Processes` therefore uses the port of the command line.
A number of 2^32 or more in a list of the environment stands for its remainder
(SettingsManager.cpp:256), as do the numbers of messages; `Names` says so, and with it
`DropListRules` holds. The NOTE of checksum.c:37-44, that an odd length makes `in_cksum`
read one byte too far, is out of date: lines 75-78 add the last byte alone, and
`FlipIsDetected` covers PDUs of odd length.

## The proofs

`WindowLemmas` states what each operation of the window preserves, for all window
sizes and moduli (`WindowSize` positive and below `UintModulus`, as
`SeqNumsAssumption` says), about any log of PDUs, so that the proofs of whoever
uses the window can cite them. The heart is `SlotsDiffer`: two
numbers less than a window apart have different slots. The invariant `WindowInv` says
that the ring holds the log between `lower` and `current`, that nothing else is
active, that these are at most a window apart, and that `upper` is `lower +
WindowSize` modulo 2^32; without the last part it is not inductive, since
`isWindowOpen` looks only at `upper`. `OpenMeansRoom` covers the wrapped case.
`WindowProofs` proves every property of the run `window` from it.

`BufferProofs`: for every window size, modulus and file, however many blocks have been
sent. `BufferInv` is what `HeldAheadOfGap` and `GapIsAskedFor` say of one
context. `BufferWritesInOrder`: it is kept by `bufferProcessPDU`, which writes the next
blocks of the file and sends an SREJ exactly when a gap opens, provided a DATA PDU
carries the block of its number and is less than a window ahead of `expected`; that
the sender keeps to this is proved in `SystemProofs`. `FlushEnds` shows that the
loop of `flushingState` ends, at a number that has not wrapped around.
`BufferLosesNothing`, the other half: what arrives is written or held, what is held
stays until it is written, and every PDU that is not ahead of the gap is answered.

`SystemProofs`: for every file, window, modulus, number of children, of tries, of errors
and of kills, with late time-outs and duplicated datagrams unless said otherwise.
None of the properties of `System` is inductive; `Inv`, which TLC found to hold on
the instances of the runs first, has these parts:

* `FileSent`: rcopy's window is `WindowInv` of `WindowLemmas` over the log of the
  file, so that a block is always resent under its own number;
* `ClientPhase`: whom rcopy speaks to in each state. `server = peer` while data is
  sent: a sender that is not the accepted child can no longer take its place;
* `MessageInv`, of each datagram in flight: a DATA is for `peer` and carries the
  block of its number, below `current`; an RR never exceeds the `expected` of its
  sender, from whoever it comes; an EOF means that everything is acknowledged. These
  stay true while the datagram lasts, so losses, repetitions and order do not matter;
* `ChildInv`: `BufferInv` for `peer`, with `lower <= expected <= current`. As
  `current` is at most a window beyond `lower`, what arrives is within the
  receiver's reach, which is the hypothesis of `BufferWritesInOrder`. Any other
  child has received nothing;
* `DiskInv` and `OutputInv`: what was written, and what stands in the file shared by the
  children, which is emptied under the accepted one by a late `open`.

There is one lemma per operation (`MainKeeps`, `ChildKeeps`, `RcopyKeeps`...), and
`InvAlways` puts them together. From `Inv` follow the types, `HeldAheadOfGap`,
`GapIsAskedFor`, `AcknowledgedIsWritten`, `EofCoversFile`, `OutputInOrder` and
`OutputInPlace`, and with it `OneSrejPerGap` of every step. A failed write
refutes `OutputIsPrefix`, `EofMeansComplete` and `CopySpec`, so these are proved
under `~ServerFaults`. `ImplementsCopy`: every step of `System` is one of
`FileCopy` or a stutter under the refinement mapping of `System`. `OnDiskAtEof`
assumes `~LateDelivery` and `~Duplicates` besides: otherwise a second child may
empty the file under the accepted one. It needs a second invariant, `OneAttempt`: of the
FILENAMEs, their responses, and children about to answer there is at most one at
a time, and none once rcopy has accepted a child.

`AcceptedIsCopied` proves `AcceptedMeansCopied`: an rcopy that was accepted ends with
the copy on the disk, or it or its child was killed. Its hypotheses are those of `prompt`:
no late time-outs, no duplicates, no failing calls, fewer failed sends than
tries, and a file whose numbers do not wrap around, because `isWindowOpen` is false
for ever once `upper` has wrapped below `current`. The argument is a race between
`timeoutCount` and `errors`, the parts of the invariant `Recovery`:

* `PeerListens`: the child that answered receives as long as rcopy may send it data;
* `NothingLost`: while no send has failed, what the receiver misses is in flight, and
  so is the RR of one that misses nothing; hence a window closes with
  something in flight that will end the silence (`ClosedIsStirred`);
* `Patience`: on a closed window `timeoutCount <= errors`, and strictly less unless
  something is in flight that will end the silence. A time-out means silence, so it
  was strictly less; the PDU then resent is not ahead of the gap and will be answered,
  or its send fails and `errors` grows with `timeoutCount` (`TimeoutStirs`). Without
  the second half it is not inductive;
* `EndsWell`: so rcopy never reaches `MaxTries` there, and ends with the window empty.

`PollSetProofs`: for every set of descriptors and `POLL_SET_SIZE`. The properties
are not inductive without `UnusedAsksNothing`, that every entry of the whole array
which is not in use is `Unused`, and `StdinIsAlive`. `ReportedIsReady` is the step
from entries to descriptors. The theorem about `pollCall` holds under
`~StdinHangsUp`; `hang_up` shows that this is needed.

`SendErrProofs`: for any number of children and messages, any lists, and any width of
their numbers. `ChanceAsSet` says what may be in a chance list at all; the outcomes
follow from it. The seeds differ because `SeedsInOrder` bounds the seed each child draws
from, or is about to take, by the `nextSeed` of the first process, counting the seed that a
second `sendErr_init` passes over.

What a list of the environment names and what the library reads from it agree modulo
2^32 by `ListedIsNamed`.

`ProcessesProofs`: for any number of children, sockets, ports and restarts.
`ZombiesAreNoticed` is inductive with the types. The other properties rest on
`SocketInv`: a process has at most one socket, at `socketNum`, and only between
createUdpSocket and close (`OneSocket`); ports are of sockets in use (`PortsDiffer`);
two processes share one only while one of them is just forked. `TableKeepsInv` is
the common case of all steps that change descriptors. `PortComesFree` also needs
`OnlyOrphans`: while main has no port all children are those of an earlier main.

`PduProofs`: for every even size of a byte of at least 4, and every longest block and name
such that a PDU has no more than `WordSize` shorts (`PduAssumption`: the code has 704
of 65536), so that two folds are enough. The argument is arithmetic modulo `WordSize - 1`:

* `FoldKeepsRemainder`: folding the carries back keeps the remainder, and gives 0 only
  of 0. So a PDU is accepted just when its sum is a positive multiple of
  `WordSize - 1` (`ValidIsMultiple`), and `createPDU` makes it one (`CreatedIsValid`);
* `FlipIsFound`: flipping a byte b adds `255 - 2b` or 256 times that to the sum. That
  is not 0, since 255 is odd, and less than 65535, so the sum is no multiple any more;
* `EndAroundIsFold`: a sum that adds each carry as it occurs has the same remainder;
* `ReadBack`, `NameIsCopied`, `RequestIsRead`: what was written at each offset is what
  is read there, and a name is cut at its NUL and not before.

`Total` is a recursive function. That such a definition has a value is proved without the
induction theorems of the library, which take an operator: `SetInduction` has a
set in its place, and `RecursionExists` and `PartialSums` follow from it. The
invariant, `Inv`, is the conjunction of the properties and the length of a PDU.

Only model-checked: all liveness, since TLAPS proves no ENABLED
(`ChildrenEnd`, `CopyIsMade`, `RcopyEndsOrSpins` of `System` and what is stated under
fairness in `Processes`).

## Plan

1. Done: window, network, rcopy, buffer, server, their composition, `FileCopy`;
   the window's proofs.
2. Done: `PollSet`, `SendErr`, `Checksum` and `Pdu`, `Processes`, and the proofs of all;
   processes that are killed in `System`.
3. Done: `BufferProofs`; `SystemProofs` with the types, the safety properties and the
   refinement of `FileCopy`.
4. Done: `AcceptedMeansCopied` (`BufferLosesNothing`, `Recovery`).
5. Stays with TLC: liveness, and the disk with several children under time-outs.

## Not modelled

* Command lines and name resolution (`checkArgs`, `setupUdpClientToServer`,
  gethostbyname.c): they run before any state of the protocol exists and end the
  program if they fail.
* The TCP functions of networks.c, and `bindMod`, `selectMod`, `socketMod` of
  network-hooks.c: nothing in rcopy or the server calls them. The safe wrappers do
  one system call and exit if it fails.
* The error rate of libcpe464: whether a draw is within it is a choice.
* A write that stores part of a block (buffer.c:193): in `Server` it stores the block or
  nothing.
* printPDU, `printType`, infoSeqNo, dbg_print: output only.
* `rcopyold.c`, `serverOld.c`, `bufferold.c`, `PacketManager.cpp.bak`: not built.

PROJECT.json has the same by component.
