------------------------------ MODULE SendErr -------------------------------
(***************************************************************************)
(* The errors of libcpe464 in a program and the children it forks: what    *)
(* sendErr_init and the environment variables CPE464_OVERRIDE_... set up,  *)
(* what forkMod hands on to a child, and what send_Err and sendto_Err do   *)
(* with each message (PacketManager, SettingsManager, network-hooks).      *)
(*                                                                         *)
(* The program calls sendErr_init before it sends or forks.  The children  *)
(* call it once more before they send, as those of the server do           *)
(* (server.c:256), or they all do without.  Only the first process forks.  *)
(*                                                                         *)
(* Whether a draw of drand48 is within the error rate is a choice, so the  *)
(* rate is left out, as are events that change nothing (infoSeqNo), the    *)
(* port override and the debug level.                                      *)
(***************************************************************************)
EXTENDS Integers, Sequences

CONSTANTS
    Root,           \* the first process
    Child,          \* those it may fork
    DropLists,      \* values of CPE464_OVERRIDE_ERR_DROP, besides the empty one
    FlipLists,      \* values of CPE464_OVERRIDE_ERR_FLIP, the same
    Junk,           \* what stands between two commas and is no number
    UintModulus,    \* 2^32: a uint32_t counts modulo UintModulus
    StartTime,      \* time(NULL) when the program starts
    MaxTicks,       \* how many seconds may pass
    MaxMessages     \* how many messages a process may send, forked ones included

RandomSeed == 10    \* RANDOM_SEED
EnvSeed == 5        \* the value of CPE464_OVERRIDE_SEEDRAND

ASSUME SendErrAssumption ==
    /\ Root \notin Child
    /\ DropLists \cup FlipLists \subseteq Seq(Int \cup {Junk})
    /\ Junk \notin Int
    /\ UintModulus \in Nat \ {0}
    /\ {StartTime, MaxTicks, MaxMessages} \subseteq Nat

Process == {Root} \cup Child

Kind == {"drop", "flip"}

VARIABLES
    env,        \* the environment variables
    args,       \* the arguments of sendErr_init, and who calls it
    clock,      \* time(NULL)
    phase,      \* how far each process is
    chance,     \* m_ErrorCase_Chance: the kinds of events in it
    seed,       \* the last argument of srand48
    nextSeed,
    outcome     \* history: what became of each message

library == <<chance, seed, nextSeed>>

vars == <<env, args, clock, phase, library, outcome>>

(* isSet has the keys that are set.  drop and flip are what the commas     *)
(* separate in the values of the two lists; a number is a long, as strtol  *)
(* returns it.                                                             *)
Env == [isSet : SUBSET {"DROP", "FLIP", "SEED"},
        drop : DropLists \cup {<<>>}, flip : FlipLists \cup {<<>>}]

Args == [drop : BOOLEAN, flip : BOOLEAN, random : BOOLEAN, childInits : BOOLEAN]

TypeOK ==
    /\ env \in Env
    /\ args \in Args
    /\ clock \in StartTime .. StartTime + MaxTicks
    /\ phase \in [Process -> {"none", "started", "ready"}]
    /\ chance \in [Process -> SUBSET Kind]
    /\ seed \in [Process -> Nat]
    /\ nextSeed \in [Process -> Nat]
    /\ outcome \in [Process -> Seq({"sent", "flipped", "dropped"})]

IsSet(key) == key \in env.isSet

-----------------------------------------------------------------------------

(* The numbers before the first junk: the rest of the value is not read.   *)
Parser2ListLong(tokens) ==
    {tokens[i] : i \in {k \in DOMAIN tokens : \A j \in 1 .. k : tokens[j] # Junk}}

(* A long becomes a uint32_t where it is pushed. *)
ParserLong2Uint32(longs) == {n % UintModulus : n \in {m \in longs : m >= 0}}

Listed(tokens) == ParserLong2Uint32(Parser2ListLong(tokens))

(* The constructors of PacketManager and SettingsManager: an override      *)
(* without a number is for all messages and happens by chance, one with a  *)
(* list is a standard event for drops and not implemented for flips.       *)
EnvChance ==
    {kind \in Kind :
        \/ kind = "drop" /\ IsSet("DROP") /\ Listed(env.drop) = {}
        \/ kind = "flip" /\ IsSet("FLIP") /\ Listed(env.flip) = {}}

Init ==
    /\ env \in {e \in Env : /\ "DROP" \notin e.isSet => e.drop = <<>>
                            /\ "FLIP" \notin e.isSet => e.flip = <<>>}
    /\ args \in Args
    /\ clock = StartTime
    /\ phase = [p \in Process |-> IF p = Root THEN "started" ELSE "none"]
    /\ chance = [p \in Process |-> IF p = Root THEN EnvChance ELSE {}]
    /\ seed = [p \in Process |-> IF IsSet("SEED") THEN EnvSeed ELSE StartTime]
    /\ nextSeed = [p \in Process |-> RandomSeed]
    /\ outcome = [p \in Process |-> <<>>]

(* Mutant: the arguments of sendErr_init win. *)
SetUserModeErrDropAlways == IF args.drop THEN {"drop"} ELSE {}

(* What the setUserMode_... of SettingsManager leave to the user. *)
SetUserModeErrDrop == IF args.drop /\ ~ IsSet("DROP") THEN {"drop"} ELSE {}

(* Mutant: the arguments of sendErr_init win. *)
SetUserModeErrFlipAlways == IF args.flip THEN {"flip"} ELSE {}

SetUserModeErrFlip == IF args.flip /\ ~ IsSet("FLIP") THEN {"flip"} ELSE {}

(* Mutant: the status of a call that is overruled becomes the seed. *)
SetUserModeSeedRandStatus(old, new) == IF IsSet("SEED") THEN -1 ELSE new

SetUserModeSeedRand(old, new) == IF IsSet("SEED") THEN old ELSE new

(* Mutant: every call starts from the seed it was given. *)
NextSeedKept(old) == IF args.random THEN clock ELSE old

(* nextSeed after a call of sendErr_init. *)
NextSeed(old) == IF args.random THEN clock ELSE old + 1

SendErrInit(p) ==
    /\ phase[p] = "started"
    /\ phase' = [phase EXCEPT ![p] = "ready"]
    /\ chance' = [chance EXCEPT ![p] = @ \cup SetUserModeErrDrop \cup SetUserModeErrFlip]
    /\ seed' = [seed EXCEPT ![p] =
                  SetUserModeSeedRand(@, IF args.random THEN clock ELSE nextSeed[p])]
    /\ nextSeed' = [nextSeed EXCEPT ![p] = NextSeed(@)]
    /\ UNCHANGED <<env, args, clock, outcome>>

(* forkMod: the child is a copy of its parent, apart from its seed. *)
ForkMod(p) ==
    /\ phase[Root] = "ready"
    /\ phase[p] = "none"
    /\ phase' = [phase EXCEPT ![p] = IF args.childInits THEN "started" ELSE "ready"]
    /\ chance' = [chance EXCEPT ![p] = chance[Root]]
    /\ seed' = [seed EXCEPT ![p] = SetUserModeSeedRand(seed[Root], nextSeed[Root])]
    /\ nextSeed' = [nextSeed EXCEPT ![Root] = @ + 1, ![p] = nextSeed[Root] + 1]
    /\ outcome' = [outcome EXCEPT ![p] = outcome[Root]]
    /\ UNCHANGED <<env, args, clock>>

-----------------------------------------------------------------------------

ToDrop(msgNo) == IsSet("DROP") /\ msgNo \in Listed(env.drop)

(* Mutant: the event that happens by chance decides alone. *)
ProcessEventsLastWins(p, msgNo) ==
    {IF ToDrop(msgNo) THEN "dropped" ELSE "sent"} \cup
    {IF kind = "drop" THEN "dropped" ELSE "flipped" : kind \in chance[p]}

(* processEvents: the standard events are run, then, if the draw says so,  *)
(* one of those that happen by chance; a drop by either is final.          *)
ProcessEvents(p, msgNo) ==
    IF ToDrop(msgNo)
    THEN {"dropped"}
    ELSE {"sent"} \cup {IF kind = "drop" THEN "dropped" ELSE "flipped" : kind \in chance[p]}

(* m_MsgNo, a uint32_t, when a process sends its n-th message. *)
MsgNo(n) == n % UintModulus

(* send_Err and sendto_Err *)
Send(p) ==
    LET msgNo == MsgNo(Len(outcome[p]) + 1)
    IN  /\ phase[p] = "ready"
        /\ Len(outcome[p]) < MaxMessages
        /\ \E result \in ProcessEvents(p, msgNo) :
             outcome' = [outcome EXCEPT ![p] = Append(@, result)]
        /\ UNCHANGED <<env, args, clock, phase, library>>

Tick ==
    /\ clock < StartTime + MaxTicks
    /\ clock' = clock + 1
    /\ UNCHANGED <<env, args, phase, library, outcome>>

Next ==
    \/ \E p \in Process : SendErrInit(p) \/ Send(p)
    \/ \E p \in Child : ForkMod(p)
    \/ Tick

Spec == Init /\ [][Next]_vars

-----------------------------------------------------------------------------

(* The numbers of messages in a list; junk ends it.                        *)
Named(list) ==
    {n \in {list[i] : i \in DOMAIN list} \cap Nat :
        \E i \in DOMAIN list : list[i] = n /\ \A j \in 1 .. i - 1 : list[j] # Junk}

(* Messages, like the numbers of a list, are told apart modulo 2^32 only:  *)
(* a list that has 2^32 + 2 names the message 2 as well.                   *)
Names(list, msg) == \E n \in Named(list) : msg % UintModulus = n % UintModulus

(* A list of drops that the environment sets rules in every process,       *)
(* whatever sendErr_init asks for and however often it is called: the      *)
(* messages it names, counted from the first one of the first process, are *)
(* dropped, and no others.                                                 *)
DropListRules ==
    IsSet("DROP") /\ Named(env.drop) # {} =>
        \A p \in Process : \A msg \in DOMAIN outcome[p] :
            outcome[p][msg] = "dropped" <=> Names(env.drop, msg)

(* Bits are flipped only where that was asked for, by the environment if   *)
(* it says anything about flips ("it will always have precedence",         *)
(* SettingsManager.h:5-6), in any message or in those it lists, otherwise  *)
(* by the program.                                                         *)
FlipsAsSet ==
    \A p \in Process : \A msg \in DOMAIN outcome[p] :
        outcome[p][msg] = "flipped" =>
            IF IsSet("FLIP")
            THEN Named(env.flip) = {} \/ Names(env.flip, msg)
            ELSE args.flip

(* A list of flips that the environment sets is carried out: each message  *)
(* it names has a bit flipped unless it is dropped ("a comma-separated     *)
(* list of MsgEvents to perform an event", SettingsManager.h:18, of ERR_   *)
(* DROP and ERR_FLIP alike).  loadEnvData_ErrFlip does not do so.          *)
FlipListRules ==
    IsSet("FLIP") =>
        \A p \in Process : \A msg \in DOMAIN outcome[p] :
            Names(env.flip, msg) => outcome[p][msg] # "sent"

(* Any child forked will have a different seed value (network-hooks.c:196) *)
(* from its parent and from every other child, once each has made its last *)
(* call of srand48: they do not all lose the same PDUs.                    *)
SeedsDiffer ==
    ~ IsSet("SEED") =>
        \A p, q \in Process :
            p # q /\ phase[p] = "ready" /\ phase[q] = "ready" => seed[p] # seed[q]

(* They do so with RSEED_OFF, whether the children call sendErr_init again *)
(* or keep the seed forkMod gave them.                                     *)
SeedsDifferUnlessRandom == ~ args.random => SeedsDiffer
=============================================================================
