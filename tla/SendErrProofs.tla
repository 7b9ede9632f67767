--------------------------- MODULE SendErrProofs ----------------------------
(***************************************************************************)
(* What the environment says of drops and flips holds for any number of    *)
(* children and messages, and with RSEED_OFF no two processes draw from    *)
(* the same seed.  The first follows from what can be in m_ErrorCase_Chance*)
(* at all; the second from an order of the seeds: each child has, or is    *)
(* about to take, a seed below the one that the next child will get.       *)
(***************************************************************************)
EXTENDS SendErr, TLAPS

DropsByList == IsSet("DROP") /\ Listed(env.drop) # {}

NoFlips == IF IsSet("FLIP") THEN Listed(env.flip) # {} ELSE ~ args.flip

ChanceAsSet ==
    /\ DropsByList => \A p \in Process : "drop" \notin chance[p]
    /\ NoFlips => \A p \in Process : "flip" \notin chance[p]

OutcomeAsSet ==
    \A p \in Process : \A n \in DOMAIN outcome[p] :
        /\ DropsByList => (outcome[p][n] = "dropped" <=> MsgNo(n) \in Listed(env.drop))
        /\ NoFlips => outcome[p][n] # "flipped"

Inv == TypeOK /\ ChanceAsSet /\ OutcomeAsSet

(* What the library reads from a list is what the list names, modulo 2^32. *)
LEMMA ListedIsNamed ==
    ASSUME NEW list \in Seq(Int \cup {Junk})
    PROVE  Listed(list) = {n % UintModulus : n \in Named(list)}
<1>1. \A i \in DOMAIN list : i \in Nat /\ i >= 1 /\ list[i] \in Int \cup {Junk}
    OBVIOUS
<1>2. \A i \in DOMAIN list :
        list[i] # Junk =>
          ((\A j \in 1 .. i : list[j] # Junk) <=> \A j \in 1 .. i - 1 : list[j] # Junk)
    BY <1>1
<1>0. Listed(list) = {n % UintModulus : n \in {m \in Parser2ListLong(list) : m >= 0}}
    BY DEF Listed, ParserLong2Uint32
<1>3. ASSUME NEW n \in Parser2ListLong(list), n >= 0
      PROVE  n \in Named(list)
    <2>1. PICK i \in DOMAIN list : list[i] = n /\ \A j \in 1 .. i : list[j] # Junk
        BY DEF Parser2ListLong
    <2>2. n >= 0
        BY <1>3
    <2>3. i \in 1 .. i
        BY <1>1
    <2>4. n # Junk
        BY <2>1, <2>3
    <2>5. n \in Nat
        BY <1>1, <2>1, <2>2, <2>4
    <2> QED
        BY <1>2, <2>1, <2>4, <2>5 DEF Named
<1>4. ASSUME NEW n \in Named(list)
      PROVE  n \in Parser2ListLong(list) /\ n >= 0
    <2>1. PICK i \in DOMAIN list : list[i] = n /\ \A j \in 1 .. i - 1 : list[j] # Junk
        BY <1>4 DEF Named
    <2>2. n \in Nat /\ n # Junk
        BY <1>4, SendErrAssumption DEF Named
    <2>3. \A j \in 1 .. i : list[j] # Junk
        BY <1>2, <2>1, <2>2
    <2> QED
        BY <2>1, <2>2, <2>3 DEF Parser2ListLong
<1> QED
    BY <1>0, <1>3, <1>4

LEMMA ListsAreLists ==
    ASSUME env \in Env
    PROVE  {env.drop, env.flip} \subseteq Seq(Int \cup {Junk})
<1>1. env.drop \in DropLists \cup {<<>>} /\ env.flip \in FlipLists \cup {<<>>}
    BY DEF Env
<1>2. <<>> \in Seq(Int \cup {Junk})
    OBVIOUS
<1> QED
    BY <1>1, <1>2, SendErrAssumption

LEMMA InvInit == Init => Inv
<1> SUFFICES ASSUME Init PROVE Inv
    OBVIOUS
<1> USE SendErrAssumption
<1>1. env \in Env /\ args \in Args
    BY DEF Init
<1>2. clock \in StartTime .. StartTime + MaxTicks
    BY DEF Init
<1>3. /\ chance \in [Process -> SUBSET Kind]
      /\ phase \in [Process -> {"none", "started", "ready"}]
    BY DEF Init, EnvChance
<1>4. /\ seed \in [Process -> Nat]
      /\ nextSeed \in [Process -> Nat]
    BY DEF Init, Env, RandomSeed, EnvSeed
<1>5. outcome \in [Process -> Seq({"sent", "flipped", "dropped"})]
    BY DEF Init
<1>6. ChanceAsSet
    BY <1>1 DEF Init, ChanceAsSet, DropsByList, NoFlips, EnvChance, IsSet, Env
<1>7. OutcomeAsSet
    BY DEF Init, OutcomeAsSet
<1> QED
    BY <1>1, <1>2, <1>3, <1>4, <1>5, <1>6, <1>7 DEF Inv, TypeOK

LEMMA SendErrInitKeepsInv ==
    ASSUME Inv, NEW p \in Process, SendErrInit(p)
    PROVE  Inv'
<1>1. UNCHANGED <<env, args, clock, outcome>>
    BY DEF SendErrInit
<1>2. phase' \in [Process -> {"none", "started", "ready"}]
    BY DEF Inv, TypeOK, SendErrInit
<1>3. chance' \in [Process -> SUBSET Kind]
    BY DEF Inv, TypeOK, SendErrInit, SetUserModeErrDrop, SetUserModeErrFlip, Kind
<1>4. clock \in Nat
    BY SendErrAssumption DEF Inv, TypeOK, Args
<1>6. seed' \in [Process -> Nat]
    BY <1>4 DEF Inv, TypeOK, SendErrInit, SetUserModeSeedRand
<1>7. nextSeed' \in [Process -> Nat]
    BY <1>4 DEF Inv, TypeOK, SendErrInit, NextSeed
<1>8. ChanceAsSet'
    BY <1>1 DEF Inv, TypeOK, ChanceAsSet, DropsByList, NoFlips, SendErrInit, IsSet,
                SetUserModeErrDrop, SetUserModeErrFlip
<1>9. OutcomeAsSet'
    BY <1>1 DEF Inv, OutcomeAsSet, DropsByList, NoFlips, IsSet
<1> QED
    BY <1>1, <1>2, <1>3, <1>6, <1>7, <1>8, <1>9 DEF Inv, TypeOK

LEMMA ForkModKeepsInv ==
    ASSUME Inv, NEW p \in Child, ForkMod(p)
    PROVE  Inv'
<1>1. UNCHANGED <<env, args, clock>>
    BY DEF ForkMod
<1>2. p \in Process /\ Root \in Process /\ p # Root
    BY SendErrAssumption DEF Process
<1>3. /\ phase' \in [Process -> {"none", "started", "ready"}]
      /\ chance' \in [Process -> SUBSET Kind]
    BY <1>2 DEF Inv, TypeOK, ForkMod
<1>4. seed' \in [Process -> Nat] /\ nextSeed' \in [Process -> Nat]
    <2>1. seed[Root] \in Nat /\ nextSeed[Root] \in Nat
        BY <1>2 DEF Inv, TypeOK
    <2>2. SetUserModeSeedRand(seed[Root], nextSeed[Root]) \in Nat
        BY <2>1 DEF SetUserModeSeedRand
    <2>3. nextSeed' \in [Process -> Nat]
        <3>1. nextSeed' = [nextSeed EXCEPT ![Root] = @ + 1, ![p] = nextSeed[Root] + 1]
            BY DEF ForkMod
        <3>2. [nextSeed EXCEPT ![Root] = @ + 1] \in [Process -> Nat]
            BY <1>2, <2>1 DEF Inv, TypeOK
        <3> QED
            BY <1>2, <2>1, <3>1, <3>2
    <2> HIDE DEF SetUserModeSeedRand
    <2> QED
        BY <1>2, <2>2, <2>3 DEF Inv, TypeOK, ForkMod
<1>5. outcome' = [outcome EXCEPT ![p] = outcome[Root]]
    BY DEF ForkMod
<1>6. outcome' \in [Process -> Seq({"sent", "flipped", "dropped"})]
    BY <1>2, <1>5 DEF Inv, TypeOK
<1>7. ChanceAsSet'
    BY <1>1, <1>2 DEF Inv, TypeOK, ChanceAsSet, DropsByList, NoFlips, ForkMod, IsSet
<1>8. OutcomeAsSet'
    BY <1>1, <1>2, <1>5 DEF Inv, TypeOK, OutcomeAsSet, DropsByList, NoFlips, IsSet
<1> QED
    BY <1>1, <1>3, <1>4, <1>6, <1>7, <1>8 DEF Inv, TypeOK

LEMMA SendKeepsInv ==
    ASSUME Inv, NEW p \in Process, Send(p)
    PROVE  Inv'
<1> DEFINE msg == Len(outcome[p]) + 1
<1>2. PICK result \in ProcessEvents(p, MsgNo(msg)) :
          outcome' = [outcome EXCEPT ![p] = Append(@, result)]
    BY DEF Send
<1>3. UNCHANGED <<env, args, clock, phase, library>>
    BY DEF Send
<1>4. outcome[p] \in Seq({"sent", "flipped", "dropped"})
    BY DEF Inv, TypeOK
<1>5. result \in {"sent", "flipped", "dropped"}
    BY <1>2 DEF ProcessEvents
<1>6. DropsByList => (result = "dropped" <=> MsgNo(msg) \in Listed(env.drop))
    BY <1>2 DEF Inv, ChanceAsSet, DropsByList, ProcessEvents, ToDrop
<1>7. NoFlips => result # "flipped"
    <2> SUFFICES ASSUME NoFlips PROVE result # "flipped"
        OBVIOUS
    <2>1. \A kind \in chance[p] : kind = "drop"
        BY DEF Inv, TypeOK, ChanceAsSet, Kind
    <2> QED
        BY <1>2, <2>1 DEF ProcessEvents
<1>8. /\ outcome'[p] = Append(outcome[p], result)
      /\ \A q \in Process : q # p => outcome'[q] = outcome[q]
    BY <1>2 DEF Inv, TypeOK
<1>9. /\ DOMAIN outcome'[p] = DOMAIN outcome[p] \cup {msg}
      /\ outcome'[p][msg] = result
      /\ \A n \in DOMAIN outcome[p] : outcome'[p][n] = outcome[p][n]
    BY <1>4, <1>5, <1>8
<1>10. outcome' \in [Process -> Seq({"sent", "flipped", "dropped"})]
    BY <1>2, <1>4, <1>5 DEF Inv, TypeOK
<1>11. TypeOK' /\ ChanceAsSet'
    BY <1>3, <1>10 DEF Inv, TypeOK, ChanceAsSet, DropsByList, NoFlips, IsSet, library
<1> HIDE DEF msg
<1>12. UNCHANGED <<DropsByList, NoFlips, Listed(env.drop)>>
    BY <1>3 DEF DropsByList, NoFlips, IsSet
<1> HIDE DEF DropsByList, NoFlips
<1>13. OutcomeAsSet'
    BY <1>6, <1>7, <1>8, <1>9, <1>12, SMTT(30) DEF Inv, OutcomeAsSet
<1> QED
    BY <1>11, <1>13 DEF Inv

LEMMA InvNext == Inv /\ [Next]_vars => Inv'
<1> SUFFICES ASSUME Inv, [Next]_vars PROVE Inv'
    OBVIOUS
<1>1. CASE \E p \in Process : SendErrInit(p)
    BY <1>1, SendErrInitKeepsInv
<1>2. CASE \E p \in Process : Send(p)
    BY <1>2, SendKeepsInv
<1>3. CASE \E p \in Child : ForkMod(p)
    BY <1>3, ForkModKeepsInv
<1>4. CASE Tick
    BY <1>4, SendErrAssumption
    DEF Tick, Inv, TypeOK, ChanceAsSet, OutcomeAsSet, DropsByList, NoFlips, IsSet, library
<1>5. CASE UNCHANGED vars
    BY <1>5
    DEF vars, Inv, TypeOK, ChanceAsSet, OutcomeAsSet, DropsByList, NoFlips, IsSet, library
<1> QED
    BY <1>1, <1>2, <1>3, <1>4, <1>5 DEF Next

THEOREM InvAlways == Spec => []Inv
BY InvInit, InvNext, PTL DEF Spec

(* The lists and seeds of every process keep their types (PacketManager.h, *)
(* network-hooks.c:44-46).                                                 *)
THEOREM SendErrTypes == Spec => []TypeOK
BY InvAlways, PTL DEF Inv

(* In every process exactly the messages that the environment's list names *)
(* are dropped (PacketManager::processEvents, SettingsManager::            *)
(* setUserMode_ErrDrop), numbers being told apart modulo 2^32.             *)
THEOREM DropListAlwaysRules == Spec => []DropListRules
<1>1. Inv => DropListRules
    <2> SUFFICES ASSUME Inv, IsSet("DROP"), Named(env.drop) # {},
                        NEW p \in Process, NEW msg \in DOMAIN outcome[p]
                 PROVE  outcome[p][msg] = "dropped" <=> Names(env.drop, msg)
        BY DEF DropListRules
    <2>1. env.drop \in Seq(Int \cup {Junk})
        BY ListsAreLists DEF Inv, TypeOK
    <2>2. Listed(env.drop) = {n % UintModulus : n \in Named(env.drop)}
        BY <2>1, ListedIsNamed
    <2>3. DropsByList
        BY <2>2 DEF DropsByList
    <2>4. outcome[p][msg] = "dropped" <=> MsgNo(msg) \in Listed(env.drop)
        BY <2>3 DEF Inv, OutcomeAsSet
    <2> QED
        BY <2>2, <2>4 DEF MsgNo, Names
<1> QED
    BY <1>1, InvAlways, PTL

(* No bit is flipped where neither the environment nor, if it is silent,   *)
(* the program asks for it (SettingsManager::setUserMode_ErrFlip).         *)
THEOREM FlipsAlwaysAsSet == Spec => []FlipsAsSet
<1>1. Inv => FlipsAsSet
    <2> SUFFICES ASSUME Inv, NEW p \in Process, NEW msg \in DOMAIN outcome[p],
                        outcome[p][msg] = "flipped"
                 PROVE  IF IsSet("FLIP")
                        THEN Named(env.flip) = {} \/ Names(env.flip, msg)
                        ELSE args.flip
        BY DEF FlipsAsSet
    <2>1. env.flip \in Seq(Int \cup {Junk})
        BY ListsAreLists DEF Inv, TypeOK
    <2>2. Listed(env.flip) = {n % UintModulus : n \in Named(env.flip)}
        BY <2>1, ListedIsNamed
    <2>3. ~ NoFlips
        BY DEF Inv, OutcomeAsSet
    <2> QED
        BY <2>2, <2>3 DEF NoFlips
<1> QED
    BY <1>1, InvAlways, PTL

-----------------------------------------------------------------------------

(* The seed a child draws from, or will once it has called sendErr_init.   *)
FinalSeed(c) == IF phase[c] = "started" THEN nextSeed[c] ELSE seed[c]

Forked == {c \in Child : phase[c] # "none"}

(* Children that call sendErr_init pass over the seed forkMod gave them.   *)
Skipped == IF args.childInits THEN 1 ELSE 0

SeedsInOrder ==
    IF phase[Root] = "ready"
    THEN /\ seed[Root] = RandomSeed
         /\ nextSeed[Root] > RandomSeed
         /\ \A c \in Forked : /\ FinalSeed(c) > RandomSeed
                              /\ FinalSeed(c) < nextSeed[Root] + Skipped
         /\ \A c, d \in Forked : c # d => FinalSeed(c) # FinalSeed(d)
    ELSE /\ nextSeed[Root] = RandomSeed
         /\ Forked = {}

SeedInv ==
    /\ TypeOK
    /\ \A c \in Forked : phase[c] = "started" => args.childInits
    /\ ~ IsSet("SEED") /\ ~ args.random => SeedsInOrder
    /\ phase[Root] # "none"

LEMMA SeedInvNext == SeedInv /\ [Next]_vars /\ TypeOK' => SeedInv'
<1> SUFFICES ASSUME SeedInv, [Next]_vars, TypeOK' PROVE SeedInv'
    OBVIOUS
<1> USE SendErrAssumption
<1>0. Root \in Process /\ Child \subseteq Process /\ Root \notin Child
    BY DEF Process
<1>1. ASSUME NEW p \in Process, SendErrInit(p)
      PROVE  SeedInv'
    <2>1. phase[p] = "started" /\ UNCHANGED <<env, args>>
        BY <1>1 DEF SendErrInit
    <2>2. /\ phase' = [phase EXCEPT ![p] = "ready"]
          /\ nextSeed' = [nextSeed EXCEPT ![p] = NextSeed(@)]
          /\ \A q \in Process : q # p => /\ phase'[q] = phase[q]
                                         /\ seed'[q] = seed[q]
                                         /\ nextSeed'[q] = nextSeed[q]
          /\ phase'[p] = "ready"
        BY <1>1 DEF SendErrInit, SeedInv, TypeOK
    <2>3. ~ IsSet("SEED") /\ ~ args.random =>
             seed'[p] = nextSeed[p] /\ nextSeed'[p] = nextSeed[p] + 1
        BY <1>1 DEF SendErrInit, SeedInv, TypeOK, SetUserModeSeedRand, NextSeed
    <2>4. Forked' = Forked
        BY <1>0, <2>1, <2>2 DEF Forked, SeedInv
    <2>5. ~ IsSet("SEED") /\ ~ args.random => SeedsInOrder'
        <3> SUFFICES ASSUME ~ IsSet("SEED"), ~ args.random
                     PROVE  SeedsInOrder'
            OBVIOUS
        <3>1. SeedsInOrder
            BY DEF SeedInv
        <3>2. CASE p = Root
            BY <1>0, <2>1, <2>2, <2>3, <2>4, <3>1, <3>2 DEF SeedsInOrder, Forked, RandomSeed
        <3>3. CASE p # Root
            <4>1. p \in Forked
                BY <2>1, <3>3 DEF Forked, Process
            <4>2. phase[Root] = "ready" /\ phase'[Root] = "ready"
                BY <1>0, <2>2, <3>1, <3>3, <4>1 DEF SeedsInOrder, SeedInv, TypeOK
            <4>3. \A c \in Forked : FinalSeed(c)' = FinalSeed(c)
                BY <1>0, <2>1, <2>2, <2>3 DEF Forked, FinalSeed
            <4>4. /\ seed'[Root] = seed[Root] /\ nextSeed'[Root] = nextSeed[Root]
                  /\ Skipped' = Skipped
                BY <1>0, <2>1, <2>2, <3>3 DEF Skipped
            <4> QED
                BY <2>4, <3>1, <4>2, <4>3, <4>4 DEF SeedsInOrder
        <3> QED
            BY <3>2, <3>3
    <2> QED
        BY <1>0, <2>1, <2>2, <2>4, <2>5 DEF SeedInv, IsSet
<1>2. ASSUME NEW p \in Child, ForkMod(p)
      PROVE  SeedInv'
    <2>1. /\ phase[Root] = "ready" /\ phase[p] = "none" /\ UNCHANGED <<env, args>>
          /\ nextSeed[Root] \in Nat
        BY <1>0, <1>2 DEF ForkMod, SeedInv, TypeOK
    <2>2. /\ \A q \in Process : q # p => phase'[q] = phase[q] /\ seed'[q] = seed[q]
          /\ \A q \in Process : q # p /\ q # Root => nextSeed'[q] = nextSeed[q]
          /\ nextSeed'[Root] = nextSeed[Root] + 1
          /\ nextSeed'[p] = nextSeed[Root] + 1
          /\ phase'[p] = IF args.childInits THEN "started" ELSE "ready"
          /\ ~ IsSet("SEED") => seed'[p] = nextSeed[Root]
        BY <1>0, <1>2 DEF ForkMod, SeedInv, TypeOK, SetUserModeSeedRand
    <2>3. Forked' = Forked \cup {p} /\ p \notin Forked
        BY <1>0, <2>1, <2>2 DEF Forked
    <2>4. phase'[Root] = "ready" /\ seed'[Root] = seed[Root]
        BY <1>0, <2>1, <2>2
    <2>5. ~ IsSet("SEED") /\ ~ args.random => SeedsInOrder'
        <3> SUFFICES ASSUME ~ IsSet("SEED"), ~ args.random
                     PROVE  SeedsInOrder'
            OBVIOUS
        <3>1. SeedsInOrder
            BY DEF SeedInv
        <3>2. \A c \in Forked : FinalSeed(c)' = FinalSeed(c) /\ c # p
            BY <1>0, <2>1, <2>2, <2>3 DEF Forked, FinalSeed
        <3>3. FinalSeed(p)' = nextSeed[Root] + Skipped
            BY <2>1, <2>2 DEF FinalSeed, Skipped
        <3>4. Skipped' = Skipped /\ Skipped \in Nat
            BY <2>1 DEF Skipped
        <3>5. \A c \in Forked : FinalSeed(c) \in Nat
            BY <1>0 DEF Forked, FinalSeed, SeedInv, TypeOK
        <3> QED
            BY <2>1, <2>2, <2>3, <2>4, <3>1, <3>2, <3>3, <3>4, <3>5 DEF SeedsInOrder, RandomSeed
    <2>6. \A c \in Forked' : phase'[c] = "started" => args'.childInits
        BY <1>0, <2>1, <2>2, <2>3 DEF SeedInv, Forked
    <2> QED
        BY <2>1, <2>4, <2>5, <2>6 DEF SeedInv, IsSet
<1>3. CASE \E p \in Process : Send(p)
    BY <1>3 DEF Send, SeedInv, SeedsInOrder, Forked, FinalSeed, Skipped, IsSet, library
<1>4. CASE Tick
    BY <1>4 DEF Tick, SeedInv, SeedsInOrder, Forked, FinalSeed, Skipped, IsSet, library
<1>5. CASE UNCHANGED vars
    BY <1>5 DEF vars, SeedInv, SeedsInOrder, Forked, FinalSeed, Skipped, IsSet, library
<1> QED
    BY <1>1, <1>2, <1>3, <1>4, <1>5 DEF Next

(* With RSEED_OFF no two processes that send draw from the same seed, for  *)
(* any number of children (forkMod, sendErr_init).                         *)
THEOREM SeedsAlwaysDiffer == Spec => []SeedsDifferUnlessRandom
<1>1. Init => SeedInv
    <2> SUFFICES ASSUME Init PROVE SeedInv
        OBVIOUS
    <2>1. TypeOK
        BY InvInit DEF Inv
    <2>2. Root \in Process /\ phase[Root] = "started" /\ nextSeed[Root] = RandomSeed
        BY DEF Init, Process
    <2>3. Forked = {}
        BY SendErrAssumption DEF Init, Forked, Process
    <2> QED
        BY <2>1, <2>2, <2>3 DEF SeedInv, SeedsInOrder
<1>2. SeedInv /\ [Next]_vars /\ TypeOK' => SeedInv'
    BY SeedInvNext
<1>3. SeedInv => SeedsDifferUnlessRandom
    <2> SUFFICES ASSUME SeedInv, ~ args.random, ~ IsSet("SEED"),
                        NEW p \in Process, NEW q \in Process, p # q,
                        phase[p] = "ready", phase[q] = "ready"
                 PROVE  seed[p] # seed[q]
        BY DEF SeedsDifferUnlessRandom, SeedsDiffer
    <2>1. SeedsInOrder
        BY DEF SeedInv
    <2>2. \A c \in Child : phase[c] = "ready" => c \in Forked /\ FinalSeed(c) = seed[c]
        BY DEF Forked, FinalSeed
    <2>3. phase[Root] = "ready"
        BY <2>1, <2>2 DEF SeedsInOrder, Process
    <2>4. CASE p \in Child /\ q \in Child
        BY <2>1, <2>2, <2>3, <2>4 DEF SeedsInOrder
    <2>5. CASE p = Root \/ q = Root
        BY <2>1, <2>2, <2>3, <2>5 DEF SeedsInOrder, Process, RandomSeed
    <2> QED
        BY <2>4, <2>5 DEF Process
<1> QED
    BY <1>1, <1>2, <1>3, SendErrTypes, PTL DEF Spec
=============================================================================
