---------------------------- MODULE BufferProofs ----------------------------
(***************************************************************************)
(* What bufferProcessPDU does to a BufferContext, for every window size,   *)
(* modulus and file, of which as many blocks have been sent as there are   *)
(* numbers for: it keeps BufferInv, and what it writes are the next blocks *)
(* of the file.  The one assumption about its callers is that a DATA PDU   *)
(* carries the block of its number and is less than a window ahead of the  *)
(* gap; SystemProofs shows that the sender's window sees to it.            *)
(***************************************************************************)
EXTENDS Buffer, WindowLemmas, WellFoundedInduction

(* The sender has got as far as block sent of the file: it has used that   *)
(* many sequence numbers.                                                  *)
SentOf(Block, file, sent) ==
    /\ file \in Seq(Block)
    /\ sent \in SeqNum
    /\ sent <= Len(file)

(* What a slot holds is a block of the file, from the number first on and  *)
(* less than size further, and in the slot of its number.                  *)
SlotsHold(ctx, file, sent, first, size) ==
    \A i \in Slot :
        LET e == ctx.buffer[i]
        IN  e.valid => /\ first <= e.seq /\ e.seq < first + size
                       /\ e.seq <= ctx.highest
                       /\ e.seq < sent
                       /\ Index(e.seq) = i
                       /\ e.data = file[e.seq + 1]

Closed(ctx) ==
    /\ ctx.state = "INORDER"
    /\ ctx.lastSREJ = NoSREJ
    /\ \A i \in Slot : ~ ctx.buffer[i].valid

Gap(ctx) ==
    /\ ctx.state = "BUFFERING"
    /\ ctx.lastSREJ = ctx.expected
    /\ ctx.expected < ctx.highest
    /\ Held(ctx, ctx.highest)

(* System's HeldAheadOfGap and GapIsAskedFor, of one context.  Without the *)
(* part about highest a flush could leave the gap behind and nothing held. *)
BufferInv(ctx, Block, file, sent) ==
    /\ ctx \in BufferContext(Block)
    /\ ctx.expected <= sent
    /\ SlotsHold(ctx, file, sent, ctx.expected + 1, WindowSize - 1)
    /\ Closed(ctx) \/ Gap(ctx)

(* out continues the file behind its first from blocks, up to block to.    *)
Continues(out, file, from, to) ==
    /\ DOMAIN out = 1 .. to - from
    /\ \A k \in 1 .. to - from : out[k] = file[from + k]

-----------------------------------------------------------------------------

(* The order of the numbers, as a relation, is well founded. *)
LEMMA NatIsWellFounded == IsWellFoundedOn({ss \in Nat \X Nat : ss[1] < ss[2]}, Nat)
BY NatLessThanWellFounded, Zenon DEF OpToRel

(* A set of numbers that is not empty has a smallest one. *)
LEMMA SmallestNat ==
    ASSUME NEW S, S \subseteq Nat, S # {}
    PROVE  \E n \in S : \A m \in S : n <= m
<1>1. PICK n \in S : \A m \in S : ~ (<<m, n>> \in {ss \in Nat \X Nat : ss[1] < ss[2]})
    BY NatIsWellFounded, WFMin
<1>2. \A m \in S : ~ (m < n)
    BY <1>1
<1> QED
    BY <1>2

(* Every sequence number has a slot in the ring. *)
LEMMA IndexInSlot == ASSUME NEW seq \in SeqNum PROVE Index(seq) \in Slot
BY SeqNumsAssumption DEF SeqNum, Index, Slot

(* UINT32_MAX is a uint32_t. *)
LEMMA NoSREJIsSeqNum == NoSREJ \in SeqNum
BY SeqNumsAssumption DEF NoSREJ, SeqNum

-----------------------------------------------------------------------------

(* What holds when flushingState is called. *)
FlushReady(ctx, Block, file, sent) ==
    /\ ctx \in BufferContext(Block)
    /\ ctx.expected <= sent
    /\ SlotsHold(ctx, file, sent, ctx.expected, WindowSize - 1)
    /\ ctx.expected <= ctx.highest
    /\ Held(ctx, ctx.highest)
    /\ ctx.lastSREJ = NoSREJ

(* The loop of flushingState ends, after numbers that do not wrap around.  *)
LEMMA FlushEnds ==
    ASSUME NEW Block, NEW file, NEW sent, SentOf(Block, file, sent),
           NEW ctx, FlushReady(ctx, Block, file, sent)
    PROVE  LET n == FlushCount(ctx)
           IN  /\ n \in 0 .. WindowSize - 1
               /\ ctx.expected + n <= sent
               /\ Plus(ctx.expected, n) = ctx.expected + n
               /\ ~ Held(ctx, ctx.expected + n)
               /\ \A k \in 0 .. n - 1 : /\ Plus(ctx.expected, k) = ctx.expected + k
                                        /\ Held(ctx, ctx.expected + k)
<1> DEFINE e == ctx.expected
           Open == {n \in 0 .. WindowSize : ~ Held(ctx, Plus(e, n))}
<1>1. /\ e \in SeqNum /\ e \in Nat /\ WindowSize \in Nat \ {0} /\ WindowSize < UintModulus
      /\ UintModulus \in Nat
      /\ file \in Seq(Block) /\ sent \in Nat /\ sent < UintModulus /\ sent <= Len(file)
      /\ e <= sent
    BY SeqNumsAssumption DEF FlushReady, BufferContext, SeqNum, SentOf
<1>2. ASSUME NEW seq \in SeqNum, Held(ctx, seq)
      PROVE  e <= seq /\ seq < e + WindowSize - 1 /\ seq < sent
    BY <1>1, <1>2, IndexInSlot DEF FlushReady, SlotsHold, Held
<1>3. \A k \in 0 .. WindowSize :
        /\ Plus(e, k) \in SeqNum
        /\ Plus(e, k) = IF e + k < UintModulus THEN e + k ELSE e + k - UintModulus
    <2> SUFFICES ASSUME NEW k \in 0 .. WindowSize
                 PROVE  /\ Plus(e, k) \in SeqNum
                        /\ Plus(e, k) = IF e + k < UintModulus THEN e + k
                                        ELSE e + k - UintModulus
        OBVIOUS
    <2>1. k \in Nat /\ k < UintModulus
        BY <1>1
    <2> QED
        BY <1>1, <2>1, PlusValue
<1>4. \A k \in 0 .. WindowSize : Held(ctx, Plus(e, k)) =>
        Plus(e, k) = e + k /\ k < WindowSize - 1 /\ e + k < sent
    <2> SUFFICES ASSUME NEW k \in 0 .. WindowSize, Held(ctx, Plus(e, k))
                 PROVE  Plus(e, k) = e + k /\ k < WindowSize - 1 /\ e + k < sent
        OBVIOUS
    <2>1. e <= Plus(e, k) /\ Plus(e, k) < e + WindowSize - 1 /\ Plus(e, k) < sent
        BY <1>2, <1>3
    <2> QED
        BY <1>1, <1>3, <2>1
<1>5. WindowSize - 1 \in Open
    BY <1>1, <1>4
<1>6. PICK n \in Open : \A m \in Open : n <= m
    <2>1. Open \subseteq Nat /\ Open # {}
        BY <1>1, <1>5
    <2> HIDE DEF Open
    <2> QED
        BY <2>1, SmallestNat
<1>7. /\ ~ Held(ctx, Plus(e, n))
      /\ \A k \in 0 .. n - 1 : Held(ctx, Plus(e, k))
      /\ n \in 0 .. WindowSize
    BY <1>1, <1>6
<1>8. /\ FlushCount(ctx) \in 0 .. WindowSize
      /\ ~ Held(ctx, Plus(e, FlushCount(ctx)))
      /\ \A k \in 0 .. FlushCount(ctx) - 1 : Held(ctx, Plus(e, k))
    BY <1>7 DEF FlushCount
<1> DEFINE c == FlushCount(ctx)
<1>9. c \in 0 .. WindowSize /\ c <= WindowSize - 1
    BY <1>1, <1>4, <1>5, <1>8
<1>10. c > 0 => c - 1 \in 0 .. c - 1 /\ e + (c - 1) < sent
    BY <1>1, <1>4, <1>8
<1>11. e + c <= sent
    BY <1>1, <1>8, <1>10
<1>12. Plus(e, c) = e + c
    <2>1. c \in 0 .. WindowSize /\ e + c <= sent
        BY <1>9, <1>11
    <2> HIDE DEF c
    <2>2. Plus(e, c) = IF e + c < UintModulus THEN e + c ELSE e + c - UintModulus
        BY <1>3, <2>1
    <2> QED
        BY <1>1, <2>1, <2>2
<1>13. \A k \in 0 .. c - 1 : Plus(e, k) = e + k /\ Held(ctx, e + k)
    BY <1>1, <1>4, <1>8, <1>9
<1> QED
    BY <1>8, <1>9, <1>11, <1>12, <1>13

(* flushingState closes the context, or leaves it with the next gap open   *)
(* and asked for, past all it has written.                                 *)
LEMMA FlushingKeepsInv ==
    ASSUME NEW Block, NEW file, NEW sent, SentOf(Block, file, sent),
           NEW ctx, FlushReady(ctx, Block, file, sent)
    PROVE  LET result == FlushingState(ctx, <<file[ctx.expected]>>)
           IN  /\ BufferInv(result.ctx, Block, file, sent)
               /\ result.ctx.expected = ctx.expected + FlushCount(ctx)
               /\ result.reply = IF result.ctx.state = "BUFFERING" THEN "SREJ" ELSE "RR"
<1> DEFINE e == ctx.expected
           n == FlushCount(ctx)
           next == e + n
           slots == {Index(Plus(e, k)) : k \in 0 .. n - 1}
           new == Flushed(ctx)
<1>1. /\ e \in SeqNum /\ e \in Nat /\ WindowSize \in Nat \ {0} /\ WindowSize < UintModulus
      /\ UintModulus \in Nat
      /\ file \in Seq(Block) /\ sent \in Nat /\ sent < UintModulus /\ sent <= Len(file)
      /\ e <= sent
      /\ ctx.highest \in SeqNum
    BY SeqNumsAssumption DEF FlushReady, BufferContext, SeqNum, SentOf
<1>2. /\ n \in 0 .. WindowSize - 1
      /\ next <= sent
      /\ Plus(e, n) = next
      /\ ~ Held(ctx, next)
      /\ \A k \in 0 .. n - 1 : Plus(e, k) = e + k /\ Held(ctx, e + k)
    BY FlushEnds
<1> HIDE DEF n
<1>3. next \in SeqNum /\ next \in Nat
    BY <1>1, <1>2 DEF SeqNum
<1>4. /\ new \in BufferContext(Block)
      /\ new.expected = next
      /\ new.state = IF next <= ctx.highest THEN "BUFFERING" ELSE "INORDER"
      /\ new.highest = ctx.highest
      /\ new.lastSREJ = NoSREJ
      /\ new.buffer = [i \in Slot |-> [ctx.buffer[i] EXCEPT !.valid = @ /\ i \notin slots]]
    <2> DEFINE state == IF next <= ctx.highest THEN "BUFFERING" ELSE "INORDER"
               ring == [i \in Slot |-> [ctx.buffer[i] EXCEPT !.valid = @ /\ i \notin slots]]
    <2>1. new = [ctx EXCEPT !.expected = next, !.state = state, !.buffer = ring]
        BY <1>2, Zenon DEF Flushed, n
    <2>2. state \in BufferState
        BY DEF BufferState
    <2>3. ring \in [Slot -> [valid : BOOLEAN, seq : SeqNum, data : Block]]
        BY DEF FlushReady, BufferContext
    <2> HIDE DEF state, ring, new
    <2>4. ctx \in BufferContext(Block) /\ ctx.lastSREJ = NoSREJ
        BY DEF FlushReady
    <2>5. /\ new \in BufferContext(Block)
          /\ new.expected = next /\ new.state = state /\ new.highest = ctx.highest
          /\ new.lastSREJ = NoSREJ /\ new.buffer = ring
        BY <1>3, <2>1, <2>2, <2>3, <2>4 DEF BufferContext
    <2> QED
        BY <2>5 DEF state, ring
<1>5. \A i \in Slot :
        /\ new.buffer[i].valid <=> ctx.buffer[i].valid /\ i \notin slots
        /\ new.buffer[i].seq = ctx.buffer[i].seq
        /\ new.buffer[i].data = ctx.buffer[i].data
    BY <1>4 DEF FlushReady, BufferContext
<1> HIDE DEF new
<1>6. ASSUME NEW i \in Slot, new.buffer[i].valid
      PROVE  LET s == ctx.buffer[i].seq
             IN  /\ next < s /\ s < e + WindowSize - 1 /\ s <= ctx.highest /\ s < sent
                 /\ Index(s) = i /\ ctx.buffer[i].data = file[s + 1] /\ s \in SeqNum
    <2> DEFINE s == ctx.buffer[i].seq
    <2>1. ctx.buffer[i].valid /\ i \notin slots
        BY <1>5, <1>6
    <2>2. /\ e <= s /\ s < e + (WindowSize - 1) /\ s <= ctx.highest /\ s < sent
          /\ Index(s) = i /\ ctx.buffer[i].data = file[s + 1] /\ s \in SeqNum
        BY <2>1 DEF FlushReady, SlotsHold, BufferContext
    <2>3. s # next
        BY <1>2, <2>1, <2>2 DEF Held
    <2>4. ~ s < next
        <3> SUFFICES ASSUME s < next PROVE FALSE
            OBVIOUS
        <3>1. s - e \in 0 .. n - 1 /\ e + (s - e) = s
            BY <1>1, <1>2, <2>2, SMTT(30) DEF SeqNum
        <3>2. Plus(e, s - e) = s
            BY <1>2, <3>1
        <3> QED
            BY <2>1, <2>2, <3>1, <3>2
    <2> QED
        BY <1>1, <1>3, <2>2, <2>3, <2>4 DEF SeqNum
<1>7. CASE next <= ctx.highest
    <2>1. next < ctx.highest
        BY <1>1, <1>2, <1>3, <1>7 DEF FlushReady, SeqNum
    <2>2. Held(new, ctx.highest)
        <3>1. Index(ctx.highest) \in Slot
            BY <1>1, IndexInSlot
        <3>2. /\ ctx.buffer[Index(ctx.highest)].valid
              /\ ctx.buffer[Index(ctx.highest)].seq = ctx.highest
            BY DEF FlushReady, Held
        <3>3. Index(ctx.highest) \notin slots
            <4> SUFFICES ASSUME NEW k \in 0 .. n - 1, Index(Plus(e, k)) = Index(ctx.highest)
                         PROVE  FALSE
                OBVIOUS
            <4>1. ctx.buffer[Index(ctx.highest)].seq = e + k
                BY <1>2 DEF Held
            <4> QED
                BY <1>1, <1>2, <2>1, <3>2, <4>1
        <3> QED
            BY <1>5, <3>1, <3>2, <3>3 DEF Held
    <2> DEFINE ctx2 == [new EXCEPT !.lastSREJ = new.expected]
    <2>3. /\ FlushingState(ctx, <<file[e]>>).ctx = ctx2
          /\ new.lastSREJ # new.expected => FlushingState(ctx, <<file[e]>>).reply = "SREJ"
        BY <1>4, <1>7 DEF FlushingState, SendSREJOnce, new
    <2>4. /\ ctx2 \in BufferContext(Block) /\ ctx2.expected = next /\ ctx2.highest = ctx.highest
          /\ ctx2.state = "BUFFERING" /\ ctx2.lastSREJ = next /\ ctx2.buffer = new.buffer
        BY <1>3, <1>4, <1>7 DEF BufferContext
    <2> HIDE DEF ctx2
    <2>5. SlotsHold(ctx2, file, sent, next + 1, WindowSize - 1)
        <3> SUFFICES ASSUME NEW i \in Slot, new.buffer[i].valid
                     PROVE  LET s == new.buffer[i].seq
                            IN  /\ next + 1 <= s /\ s < next + 1 + (WindowSize - 1)
                                /\ s <= ctx.highest /\ s < sent
                                /\ Index(s) = i /\ new.buffer[i].data = file[s + 1]
            BY <2>4 DEF SlotsHold
        <3> DEFINE s == ctx.buffer[i].seq
        <3>1. /\ next < s /\ s < e + WindowSize - 1 /\ s <= ctx.highest /\ s < sent
              /\ Index(s) = i /\ ctx.buffer[i].data = file[s + 1] /\ s \in SeqNum
            BY <1>6
        <3>2. next + 1 <= s /\ s < next + 1 + (WindowSize - 1)
            <4>1. s \in Nat /\ n \in Nat /\ e <= next
                BY <1>1, <1>2, <1>3, <3>1 DEF SeqNum
            <4> HIDE DEF s
            <4> QED
                BY <1>1, <1>3, <3>1, <4>1, SMTT(30)
        <3> QED
            BY <1>5, <3>1, <3>2
    <2>6. Gap(ctx2)
        BY <2>1, <2>2, <2>4 DEF Gap, Held
    <2>7. new.lastSREJ # new.expected
        BY <1>1, <1>3, <1>4, <2>1 DEF NoSREJ, SeqNum
    <2> QED
        BY <1>1, <1>2, <2>3, <2>4, <2>5, <2>6, <2>7 DEF BufferInv, n
<1>8. CASE ~ next <= ctx.highest
    <2>1. FlushingState(ctx, <<file[e]>>).ctx = new /\ FlushingState(ctx, <<file[e]>>).reply = "RR"
        BY <1>4, <1>8 DEF FlushingState, SendRR, new
    <2>2. \A i \in Slot : ~ new.buffer[i].valid
        BY <1>1, <1>3, <1>6, <1>8 DEF SeqNum
    <2>3. SlotsHold(new, file, sent, next + 1, WindowSize - 1) /\ Closed(new)
        BY <1>4, <1>8, <2>2 DEF SlotsHold, Closed
    <2> QED
        BY <1>1, <1>2, <1>4, <1>8, <2>1, <2>3 DEF BufferInv, n
<1> QED
    BY <1>7, <1>8

(* flushingState, called with the block that closes the gap, writes that   *)
(* block and the ones after it up to the next gap.                         *)
LEMMA FlushingWrites ==
    ASSUME NEW Block, NEW file, NEW sent, SentOf(Block, file, sent),
           NEW ctx, FlushReady(ctx, Block, file, sent),
           ctx.expected > 0
    PROVE  LET out == FlushingState(ctx, <<file[ctx.expected]>>).out
           IN  /\ out \in Seq(Block)
               /\ Continues(out, file, ctx.expected - 1, ctx.expected + FlushCount(ctx))
<1> DEFINE e == ctx.expected
           n == FlushCount(ctx)
           out == <<file[e]>> \o FlushedBlocks(ctx)
<1>1. /\ e \in Nat /\ e > 0 /\ e <= sent /\ n \in Nat /\ e + n <= sent
      /\ file \in Seq(Block) /\ sent \in Nat /\ sent < UintModulus
      /\ Len(file) \in Nat /\ sent <= Len(file)
    BY FlushEnds, SeqNumsAssumption DEF FlushReady, BufferContext, SeqNum, SentOf
<1>2. \A k \in 1 .. n : FlushedBlocks(ctx)[k] = file[e + k]
    <2> SUFFICES ASSUME NEW k \in 1 .. n
                 PROVE  ctx.buffer[Index(Plus(e, k - 1))].data = file[e + k]
        BY DEF FlushedBlocks
    <2>1. k - 1 \in 0 .. n - 1
        BY <1>1
    <2>2. Plus(e, k - 1) = e + (k - 1) /\ Held(ctx, e + (k - 1))
        BY <2>1, FlushEnds
    <2>3. e + (k - 1) \in SeqNum
        BY <1>1, SeqNumsAssumption DEF SentOf, SeqNum
    <2>4. Index(e + (k - 1)) \in Slot
        BY <2>3, IndexInSlot
    <2>5. /\ ctx.buffer[Index(e + (k - 1))].data = file[e + (k - 1) + 1]
        BY <2>2, <2>4 DEF FlushReady, SlotsHold, Held
    <2>6. e + (k - 1) + 1 = e + k
        BY <1>1
    <2> QED
        BY <2>2, <2>5, <2>6
<1>3. \A k \in 1 .. n : e + k \in 1 .. Len(file)
    BY <1>1
<1>4. FlushedBlocks(ctx) \in Seq(Block) /\ Len(FlushedBlocks(ctx)) = n
    <2>1. \A k \in 1 .. n : FlushedBlocks(ctx)[k] \in Block
        BY <1>1, <1>2, <1>3
    <2>2. FlushedBlocks(ctx) = [k \in 1 .. n |-> FlushedBlocks(ctx)[k]]
        BY Zenon DEF FlushedBlocks
    <2>3. FlushedBlocks(ctx) \in [1 .. n -> Block]
        BY <2>1, <2>2
    <2> QED
        BY <1>1, <2>3
<1>5. file[e] \in Block
    BY <1>1
<1>6. /\ out \in Seq(Block)
      /\ Len(out) = n + 1
      /\ DOMAIN out = 1 .. n + 1
      /\ out[1] = file[e]
      /\ \A k \in 2 .. n + 1 : out[k] = FlushedBlocks(ctx)[k - 1]
    BY <1>1, <1>4, <1>5
<1>7. \A k \in 1 .. n + 1 : out[k] = file[(e - 1) + k]
    <2> SUFFICES ASSUME NEW k \in 1 .. n + 1
                 PROVE  out[k] = file[(e - 1) + k]
        OBVIOUS
    <2>1. CASE k = 1
        BY <1>1, <1>6, <2>1
    <2>2. CASE k # 1
        <3>1. k - 1 \in 1 .. n /\ k \in 2 .. n + 1 /\ e + (k - 1) = (e - 1) + k
            BY <1>1, <2>2
        <3> QED
            BY <1>2, <1>6, <3>1
    <2> QED
        BY <2>1, <2>2
<1>8. FlushingState(ctx, <<file[e]>>).out = out
    BY DEF FlushingState, SendSREJOnce, SendRR
<1>9. (e + n) - (e - 1) = n + 1
    BY <1>1
<1> HIDE DEF out
<1>10. Continues(out, file, e - 1, e + n)
    <2>1. SUFFICES /\ DOMAIN out = 1 .. (e + n) - (e - 1)
                   /\ \A k \in 1 .. (e + n) - (e - 1) : out[k] = file[(e - 1) + k]
        BY DEF Continues
    <2>2. 1 .. (e + n) - (e - 1) = 1 .. n + 1
        BY <1>9
    <2> QED
        BY <1>6, <1>7, <2>2, Zenon
<1> QED
    BY <1>6, <1>8, <1>10, Zenon

-----------------------------------------------------------------------------

(* A child's context as bufferInit leaves it is ready for any file.        *)
THEOREM BufferInitInv ==
    ASSUME NEW Block, NEW file, NEW sent, SentOf(Block, file, sent), NEW unset \in Block
    PROVE  BufferInv(BufferInit(unset), Block, file, sent)
<1>1. BufferInit(unset) \in BufferContext(Block)
    BY NoSREJIsSeqNum, SeqNumsAssumption
    DEF BufferInit, BufferContext, BufferState, SeqNum
<1> QED
    BY <1>1 DEF BufferInit, BufferInv, SlotsHold, Closed, SentOf, SeqNum

(* The PDUs bufferProcessPDU may be given. *)
InReach(ctx, file, sent, seq, block) ==
    /\ seq \in Nat /\ seq < sent /\ seq < ctx.expected + WindowSize
    /\ block = file[seq + 1]

(* A gap opens: at the first PDU out of order, or with the flush that      *)
(* closes the one before it.                                               *)
OpensGap(ctx, next) ==
    /\ next.state = "BUFFERING"
    /\ ctx.state # "BUFFERING" \/ next.expected # ctx.expected

(* Whatever DATA PDU arrives, new, old or again, the context keeps its     *)
(* invariant, the output goes on with the next blocks of the file, as many *)
(* as expected counts, and an SREJ is sent exactly when a gap opens        *)
(* (bufferProcessPDU and all it calls).                                    *)
THEOREM BufferWritesInOrder ==
    ASSUME NEW Block, NEW file, NEW sent, SentOf(Block, file, sent),
           NEW ctx, BufferInv(ctx, Block, file, sent),
           NEW seq, NEW block, InReach(ctx, file, sent, seq, block)
    PROVE  LET result == BufferProcessPDU(ctx, seq, block)
           IN  /\ BufferInv(result.ctx, Block, file, sent)
               /\ result.ctx.expected >= ctx.expected
               /\ result.out \in Seq(Block)
               /\ Continues(result.out, file, ctx.expected, result.ctx.expected)
               /\ result.reply \in {"RR", "SREJ", NoReply}
               /\ result.reply = "SREJ" <=> OpensGap(ctx, result.ctx)
<1> DEFINE e == ctx.expected
           result == BufferProcessPDU(ctx, seq, block)
<1>1. /\ e \in SeqNum /\ e \in Nat /\ WindowSize \in Nat \ {0} /\ WindowSize < UintModulus
      /\ UintModulus \in Nat
      /\ file \in Seq(Block) /\ sent \in Nat /\ sent < UintModulus /\ sent <= Len(file)
      /\ e <= sent
      /\ ctx.highest \in SeqNum /\ ctx.state \in {"INORDER", "BUFFERING"}
      /\ ctx \in BufferContext(Block)
    BY SeqNumsAssumption DEF BufferInv, BufferContext, SeqNum, SentOf, Closed, Gap
<1>2. seq \in SeqNum /\ seq \in Nat /\ seq < sent /\ seq < e + WindowSize /\ block = file[seq + 1]
    BY <1>1 DEF InReach, SeqNum
<1>3. block \in Block
    BY <1>1, <1>2 DEF SentOf
<1>4. result = IF ctx.state = "INORDER" THEN InOrderState(ctx, seq, block)
               ELSE BufferingState(ctx, seq, block)
    BY <1>1 DEF BufferProcessPDU
<1>5. CASE seq < e
    <2>1. result = SendRR(ctx, <<>>)
        BY <1>1, <1>2, <1>4, <1>5 DEF InOrderState, BufferingState
    <2> QED
        BY <1>1, <2>1 DEF SendRR, Continues, OpensGap
<1>6. CASE seq = e /\ ctx.state = "INORDER"
    <2> DEFINE ctx2 == [ctx EXCEPT !.highest = e, !.expected = Plus(e, 1)]
    <2>1. Plus(e, 1) = e + 1 /\ Plus(e, 1) \in SeqNum
        BY <1>1, <1>2, <1>6, PlusValue
    <2>2. result = SendRR(ctx2, <<block>>)
        <3>1. seq = e /\ ~ (seq > e) /\ ~ (seq < e)
            BY <1>1, <1>2, <1>6
        <3>2. InOrderState(ctx, seq, block) = SendRR(ctx2, <<block>>)
            BY <3>1, Zenon DEF InOrderState
        <3> QED
            BY <1>4, <1>6, <3>2, Zenon
    <2>3. /\ ctx2 \in BufferContext(Block) /\ ctx2.expected = e + 1
          /\ ctx2.buffer = ctx.buffer /\ ctx2.lastSREJ = ctx.lastSREJ /\ ctx2.state = ctx.state
        BY <1>1, <2>1 DEF BufferContext
    <2> HIDE DEF ctx2
    <2>4. Closed(ctx)
        BY <1>6 DEF BufferInv, Gap
    <2>5. Closed(ctx2) /\ SlotsHold(ctx2, file, sent, e + 2, WindowSize - 1)
        BY <2>3, <2>4 DEF Closed, SlotsHold
    <2>6. BufferInv(ctx2, Block, file, sent)
        BY <1>1, <1>2, <1>6, <2>3, <2>5 DEF BufferInv
    <2>7. Continues(<<block>>, file, e, e + 1)
        <3>1. (e + 1) - e = 1 /\ block = file[e + 1]
            BY <1>1, <1>2, <1>6
        <3>2. DOMAIN <<block>> = 1 .. 1 /\ \A k \in 1 .. 1 : <<block>>[k] = file[e + k]
            BY <3>1
        <3> DEFINE out == <<block>>
        <3>3. DOMAIN out = 1 .. 1 /\ \A k \in 1 .. 1 : out[k] = file[e + k]
            BY <3>2
        <3> HIDE DEF out
        <3>4. Continues(out, file, e, e + 1)
            <4>1. SUFFICES /\ DOMAIN out = 1 .. (e + 1) - e
                           /\ \A k \in 1 .. (e + 1) - e : out[k] = file[e + k]
                BY DEF Continues
            <4> QED
                BY <3>1, <3>3
        <3> QED
            BY <3>4 DEF out
    <2> QED
        BY <1>1, <1>3, <1>6, <2>2, <2>3, <2>6, <2>7 DEF SendRR, OpensGap
<1>7. CASE seq = e /\ ctx.state = "BUFFERING"
    <2> DEFINE ctx2 == [ctx EXCEPT !.lastSREJ = NoSREJ, !.expected = Plus(e, 1)]
    <2>1. Plus(e, 1) = e + 1 /\ Plus(e, 1) \in SeqNum
        BY <1>1, <1>2, <1>7, PlusValue
    <2>2. result = FlushingState(ctx2, <<block>>)
        <3>1. seq = e /\ ~ (seq > e) /\ ~ (seq < e)
            BY <1>1, <1>2, <1>7
        <3>2. BufferingState(ctx, seq, block) = FlushingState(ctx2, <<block>>)
            BY <3>1, Zenon DEF BufferingState
        <3> QED
            BY <1>4, <1>7, <3>2
    <2>3. /\ ctx2 \in BufferContext(Block) /\ ctx2.expected = e + 1
          /\ ctx2.buffer = ctx.buffer /\ ctx2.lastSREJ = NoSREJ /\ ctx2.highest = ctx.highest
        BY <1>1, <2>1, NoSREJIsSeqNum DEF BufferContext
    <2> HIDE DEF ctx2
    <2>4. Gap(ctx)
        BY <1>7 DEF BufferInv, Closed
    <2>5. FlushReady(ctx2, Block, file, sent)
        BY <1>1, <1>2, <1>7, <2>3, <2>4 DEF BufferInv, FlushReady, Gap, SlotsHold, Held, SeqNum
    <2>6. block = file[ctx2.expected]
        BY <1>2, <1>7, <2>3
    <2>7. FlushCount(ctx2) \in Nat
        BY <2>5, FlushEnds
    <2>8. /\ BufferInv(result.ctx, Block, file, sent)
          /\ result.ctx.expected = e + 1 + FlushCount(ctx2)
          /\ result.reply = IF result.ctx.state = "BUFFERING" THEN "SREJ" ELSE "RR"
        BY <2>2, <2>3, <2>5, <2>6, FlushingKeepsInv
    <2>9. /\ result.out \in Seq(Block)
          /\ Continues(result.out, file, e + 1 - 1, e + 1 + FlushCount(ctx2))
        BY <1>1, <2>2, <2>3, <2>5, <2>6, FlushingWrites
    <2>10. e + 1 - 1 = e /\ e + 1 + FlushCount(ctx2) > e
        BY <1>1, <2>7
    <2> QED
        BY <1>1, <1>7, <2>7, <2>8, <2>9, <2>10 DEF OpensGap
<1>8. CASE seq > e
    <2> DEFINE high == IF ctx.state = "INORDER" \/ seq > ctx.highest THEN seq ELSE ctx.highest
               ctx2 == [ctx EXCEPT
                          !.buffer[Index(seq)] = [valid |-> TRUE, seq |-> seq, data |-> block],
                          !.highest = high, !.state = "BUFFERING", !.lastSREJ = e]
    <2>1. /\ result.ctx = ctx2 /\ result.out = <<>>
          /\ result.reply = IF ctx.lastSREJ = e THEN NoReply ELSE "SREJ"
        <3>1. CASE ctx.state = "INORDER"
            BY <1>1, <1>2, <1>4, <1>8, <3>1
            DEF InOrderState, SendSREJOnce, BufferPacket, BufferContext
        <3>2. CASE ctx.state = "BUFFERING"
            <4>1. seq > e /\ seq # e /\ ~ (seq < e)
                BY <1>1, <1>2, <1>8
            <4> DEFINE packet == BufferPacket(ctx, seq, block)
                       held == [packet EXCEPT !.highest = IF seq > @ THEN seq ELSE @]
            <4>2. BufferingState(ctx, seq, block) = SendSREJOnce(held, <<>>)
                BY <4>1, Zenon DEF BufferingState
            <4>3. /\ packet = [ctx EXCEPT !.buffer[Index(seq)] =
                                  [valid |-> TRUE, seq |-> seq, data |-> block]]
                  /\ packet.highest = ctx.highest
                BY <1>1 DEF BufferPacket, BufferContext
            <4>4. held = [packet EXCEPT !.highest = high]
                BY <3>2, <4>3
            <4>5. held.lastSREJ = ctx.lastSREJ /\ held.expected = e
                BY <1>1, <4>3, <4>4 DEF BufferContext
            <4>6. [held EXCEPT !.lastSREJ = held.expected] = ctx2
                <5> DEFINE ring == [ctx.buffer EXCEPT ![Index(seq)] =
                                      [valid |-> TRUE, seq |-> seq, data |-> block]]
                <5>1. /\ packet = [ctx EXCEPT !.buffer = ring]
                      /\ ctx2 = [ctx EXCEPT !.buffer = ring, !.highest = high,
                                            !.state = "BUFFERING", !.lastSREJ = e]
                    BY <4>3
                <5> HIDE DEF ring, packet, held, ctx2
                <5> QED
                    BY <1>1, <3>2, <4>4, <4>5, <5>1 DEF BufferContext
            <4> HIDE DEF packet, held, ctx2
            <4>7. SendSREJOnce(held, <<>>) =
                    [ctx |-> ctx2, out |-> <<>>,
                     reply |-> IF ctx.lastSREJ = e THEN NoReply ELSE "SREJ"]
                BY <4>5, <4>6, Zenon DEF SendSREJOnce
            <4> QED
                BY <1>4, <3>2, <4>2, <4>7
        <3> QED
            BY <1>1, <3>1, <3>2
    <2>2. Index(seq) \in Slot
        BY <1>2, IndexInSlot
    <2>3. /\ ctx2 \in BufferContext(Block) /\ ctx2.expected = e /\ ctx2.lastSREJ = e
          /\ ctx2.state = "BUFFERING" /\ ctx2.highest = high
          /\ \A i \in Slot : ctx2.buffer[i] = IF i = Index(seq)
                                              THEN [valid |-> TRUE, seq |-> seq, data |-> block]
                                              ELSE ctx.buffer[i]
        BY <1>1, <1>2, <1>3, <2>2 DEF BufferContext, BufferState
    <2> HIDE DEF ctx2
    <2>4. /\ high \in SeqNum /\ e < high /\ seq <= high
          /\ ctx.state = "BUFFERING" => ctx.highest <= high
        BY <1>1, <1>2, <1>8 DEF SeqNum
    <2>5. SlotsHold(ctx2, file, sent, e + 1, WindowSize - 1)
        <3> SUFFICES ASSUME NEW i \in Slot, ctx2.buffer[i].valid
                     PROVE  LET c == ctx2.buffer[i]
                            IN  /\ e + 1 <= c.seq /\ c.seq < e + 1 + (WindowSize - 1)
                                /\ c.seq <= high /\ c.seq < sent
                                /\ Index(c.seq) = i /\ c.data = file[c.seq + 1]
            BY <2>3 DEF SlotsHold
        <3>1. CASE i = Index(seq)
            <4>1. /\ ctx2.buffer[i].seq = seq /\ ctx2.buffer[i].data = block
                BY <2>3, <3>1
            <4>2. e + 1 <= seq /\ seq < e + 1 + (WindowSize - 1)
                BY <1>1, <1>2, <1>8
            <4> QED
                BY <1>2, <2>4, <3>1, <4>1, <4>2
        <3>2. CASE i # Index(seq)
            <4> DEFINE c == ctx.buffer[i]
            <4>1. ctx2.buffer[i] = c /\ c.valid
                BY <2>3, <3>2
            <4>2. /\ e + 1 <= c.seq /\ c.seq < e + 1 + (WindowSize - 1)
                  /\ c.seq <= ctx.highest /\ c.seq < sent
                  /\ Index(c.seq) = i /\ c.data = file[c.seq + 1] /\ c.seq \in SeqNum
                BY <4>1 DEF BufferInv, SlotsHold, BufferContext
            <4>3. ctx.state = "BUFFERING"
                BY <4>1 DEF BufferInv, Closed, Gap
            <4>4. c.seq <= high
                BY <1>1, <2>4, <4>2, <4>3 DEF SeqNum
            <4> QED
                BY <4>1, <4>2, <4>4
        <3> QED
            BY <3>1, <3>2
    <2>6. Held(ctx2, high)
        <3>1. CASE high = seq
            BY <2>2, <2>3, <3>1 DEF Held
        <3>2. CASE high # seq
            <4>1. Gap(ctx) /\ high = ctx.highest
                BY <3>2 DEF BufferInv, Closed, Gap
            <4>2. Index(high) \in Slot
                BY <2>4, IndexInSlot
            <4>3. Index(high) # Index(seq)
                <5> SUFFICES ASSUME Index(high) = Index(seq) PROVE FALSE
                    OBVIOUS
                <5>1. /\ ctx.buffer[Index(high)].valid /\ ctx.buffer[Index(high)].seq = high
                    BY <4>1 DEF Gap, Held
                <5>2. high < e + 1 + (WindowSize - 1)
                    BY <4>2, <5>1 DEF BufferInv, SlotsHold
                <5>3. high < seq + WindowSize /\ seq < high
                    BY <1>1, <1>2, <1>8, <2>4, <3>2, <5>2, SMTT(30) DEF SeqNum
                <5> QED
                    BY <1>1, <1>2, <2>4, <5>3, SlotsDiffer DEF SeqNum
            <4> QED
                BY <2>3, <4>1, <4>2, <4>3 DEF Gap, Held
        <3> QED
            BY <3>1, <3>2
    <2>7. BufferInv(ctx2, Block, file, sent)
        BY <1>1, <2>3, <2>4, <2>5, <2>6 DEF BufferInv, Gap
    <2>8. ctx.lastSREJ = e <=> ctx.state = "BUFFERING"
        BY <1>1, <1>2, <1>8 DEF BufferInv, Closed, Gap, NoSREJ, SeqNum
    <2>9. Continues(result.out, file, e, e)
        BY <1>1, <2>1 DEF Continues
    <2>10. result.reply = "SREJ" <=> OpensGap(ctx, ctx2)
        BY <1>1, <2>1, <2>3, <2>8, BufferAssumption DEF OpensGap
    <2> QED
        BY <1>1, <2>1, <2>3, <2>7, <2>9, <2>10
<1> QED
    BY <1>1, <1>2, <1>5, <1>6, <1>7, <1>8 DEF SeqNum

-----------------------------------------------------------------------------

(* flushingState gives up no block but those it writes.                    *)
LEMMA FlushingKeepsHeld ==
    ASSUME NEW Block, NEW file, NEW sent, SentOf(Block, file, sent),
           NEW ctx, FlushReady(ctx, Block, file, sent), NEW out,
           NEW s \in SeqNum, s >= ctx.expected + FlushCount(ctx), Held(ctx, s)
    PROVE  Held(FlushingState(ctx, out).ctx, s)
<1> DEFINE n == FlushCount(ctx)
           slots == {Index(Plus(ctx.expected, k)) : k \in 0 .. n - 1}
           new == Flushed(ctx)
<1>1. /\ ctx.expected \in Nat /\ n \in Nat /\ Index(s) \in Slot
      /\ \A k \in 0 .. n - 1 : /\ Plus(ctx.expected, k) = ctx.expected + k
                               /\ Held(ctx, ctx.expected + k)
    BY FlushEnds, IndexInSlot DEF FlushReady, BufferContext, SeqNum
<1>2. Index(s) \notin slots
    <2> SUFFICES ASSUME NEW k \in 0 .. n - 1, Index(ctx.expected + k) = Index(s)
                 PROVE  FALSE
        BY <1>1
    <2>1. ctx.expected + k = s
        BY <1>1 DEF Held
    <2> QED
        BY <1>1, <2>1 DEF SeqNum
<1>3. new.buffer = [i \in Slot |-> [ctx.buffer[i] EXCEPT !.valid = @ /\ i \notin slots]]
    BY DEF Flushed, FlushReady, BufferContext
<1> HIDE DEF n, slots, new
<1>4. Held(new, s)
    <2>1. ctx.buffer[Index(s)].valid /\ ctx.buffer[Index(s)].seq = s
        BY DEF Held
    <2>2. new.buffer[Index(s)] = [ctx.buffer[Index(s)] EXCEPT
                                     !.valid = @ /\ Index(s) \notin slots]
        BY <1>1, <1>3
    <2>3. ctx.buffer[Index(s)] \in [valid : BOOLEAN, seq : SeqNum, data : Block]
        BY <1>1 DEF FlushReady, BufferContext
    <2>4. new.buffer[Index(s)].valid /\ new.buffer[Index(s)].seq = s
        BY <1>2, <2>1, <2>2, <2>3
    <2> QED
        BY <2>4 DEF Held
<1>5. FlushingState(ctx, out).ctx.buffer = new.buffer
    BY DEF FlushingState, SendSREJOnce, SendRR, new, Flushed, FlushReady, BufferContext
<1> QED
    BY <1>4, <1>5 DEF Held

(* No block is lost: what arrives is written or held, what is held stays   *)
(* held until it is written.  And the sender is told: every PDU that was   *)
(* expected, or is older, is answered, and a receiver that waits for       *)
(* nothing has sent an RR (bufferProcessPDU and all it calls).             *)
THEOREM BufferLosesNothing ==
    ASSUME NEW Block, NEW file, NEW sent, SentOf(Block, file, sent),
           NEW ctx, BufferInv(ctx, Block, file, sent),
           NEW seq, NEW block, InReach(ctx, file, sent, seq, block)
    PROVE  LET result == BufferProcessPDU(ctx, seq, block)
           IN  /\ seq < result.ctx.expected \/ Held(result.ctx, seq)
               /\ \A s \in SeqNum : s >= result.ctx.expected /\ Held(ctx, s) =>
                                       Held(result.ctx, s)
               /\ result.ctx.state = "INORDER" => result.reply = "RR"
               /\ seq <= ctx.expected => result.reply # NoReply
<1> DEFINE e == ctx.expected
           result == BufferProcessPDU(ctx, seq, block)
<1>1. /\ e \in SeqNum /\ e \in Nat /\ WindowSize \in Nat \ {0} /\ WindowSize < UintModulus
      /\ UintModulus \in Nat /\ sent \in Nat /\ sent < UintModulus /\ e <= sent
      /\ ctx.highest \in SeqNum /\ ctx.state \in {"INORDER", "BUFFERING"}
      /\ ctx \in BufferContext(Block)
    BY SeqNumsAssumption DEF BufferInv, BufferContext, SeqNum, SentOf, Closed, Gap
<1>2. seq \in SeqNum /\ seq \in Nat /\ seq < sent /\ seq < e + WindowSize /\ block = file[seq + 1]
    BY <1>1 DEF InReach, SeqNum
<1>3. result = IF ctx.state = "INORDER" THEN InOrderState(ctx, seq, block)
               ELSE BufferingState(ctx, seq, block)
    BY <1>1 DEF BufferProcessPDU
<1>4. CASE seq < e
    <2>1. result = SendRR(ctx, <<>>)
        BY <1>1, <1>2, <1>3, <1>4 DEF InOrderState, BufferingState
    <2> QED
        BY <1>4, <2>1, BufferAssumption DEF SendRR
<1>5. CASE seq = e /\ ctx.state = "INORDER"
    <2> DEFINE ctx2 == [ctx EXCEPT !.highest = e, !.expected = Plus(e, 1)]
    <2>1. Plus(e, 1) = e + 1
        BY <1>1, <1>2, <1>5, PlusValue DEF InReach
    <2>2. result = SendRR(ctx2, <<block>>)
        <3>1. seq = e /\ ~ (seq > e) /\ ~ (seq < e)
            BY <1>1, <1>2, <1>5
        <3>2. InOrderState(ctx, seq, block) = SendRR(ctx2, <<block>>)
            BY <3>1, Zenon DEF InOrderState
        <3> QED
            BY <1>3, <1>5, <3>2, Zenon
    <2>3. ctx2.expected = e + 1 /\ ctx2.buffer = ctx.buffer
        BY <1>1, <2>1 DEF BufferContext
    <2> HIDE DEF ctx2
    <2>4. result.ctx = ctx2 /\ result.reply = "RR"
        BY <2>2 DEF SendRR
    <2> QED
        BY <1>1, <1>5, <2>3, <2>4, BufferAssumption DEF Held
<1>6. CASE seq = e /\ ctx.state = "BUFFERING"
    <2> DEFINE ctx2 == [ctx EXCEPT !.lastSREJ = NoSREJ, !.expected = Plus(e, 1)]
    <2>1. Plus(e, 1) = e + 1 /\ Plus(e, 1) \in SeqNum
        BY <1>1, <1>2, <1>6, PlusValue DEF InReach
    <2>2. result = FlushingState(ctx2, <<block>>)
        <3>1. seq = e /\ ~ (seq > e) /\ ~ (seq < e)
            BY <1>1, <1>2, <1>6
        <3>2. BufferingState(ctx, seq, block) = FlushingState(ctx2, <<block>>)
            BY <3>1, Zenon DEF BufferingState
        <3> QED
            BY <1>3, <1>6, <3>2
    <2>3. /\ ctx2 \in BufferContext(Block) /\ ctx2.expected = e + 1
          /\ ctx2.buffer = ctx.buffer /\ ctx2.lastSREJ = NoSREJ /\ ctx2.highest = ctx.highest
        BY <1>1, <2>1, NoSREJIsSeqNum DEF BufferContext
    <2> HIDE DEF ctx2
    <2>4. Gap(ctx)
        BY <1>6 DEF BufferInv, Closed
    <2>5. FlushReady(ctx2, Block, file, sent)
        BY <1>1, <1>2, <1>6, <2>3, <2>4
        DEF BufferInv, FlushReady, Gap, SlotsHold, Held, SeqNum
    <2>6. block = file[ctx2.expected] /\ FlushCount(ctx2) \in Nat
        BY <1>2, <1>6, <2>3, <2>5, FlushEnds
    <2>7. /\ result.ctx.expected = e + 1 + FlushCount(ctx2)
          /\ result.reply = IF result.ctx.state = "BUFFERING" THEN "SREJ" ELSE "RR"
        BY <2>2, <2>3, <2>5, <2>6, FlushingKeepsInv
    <2>8. \A s \in SeqNum : s >= result.ctx.expected /\ Held(ctx, s) => Held(result.ctx, s)
        <3> SUFFICES ASSUME NEW s \in SeqNum, s >= result.ctx.expected, Held(ctx, s)
                     PROVE  Held(FlushingState(ctx2, <<block>>).ctx, s)
            BY <2>2
        <3>1. s >= ctx2.expected + FlushCount(ctx2) /\ Held(ctx2, s)
            BY <2>3, <2>7 DEF Held
        <3> QED
            BY <2>5, <3>1, FlushingKeepsHeld
    <2>9. seq < result.ctx.expected
        BY <1>1, <1>6, <2>6, <2>7
    <2>10. result.reply # NoReply /\ (result.ctx.state = "INORDER" => result.reply = "RR")
        BY <2>7, BufferAssumption
    <2> QED
        BY <2>8, <2>9, <2>10
<1>7. CASE seq > e
    <2> DEFINE slot == [valid |-> TRUE, seq |-> seq, data |-> block]
    <2>1. /\ result.ctx.expected = e /\ result.ctx.state = "BUFFERING"
          /\ result.ctx.buffer = [ctx.buffer EXCEPT ![Index(seq)] = slot]
        <3> DEFINE packet == BufferPacket(ctx, seq, block)
        <3>1. packet = [ctx EXCEPT !.buffer = [ctx.buffer EXCEPT ![Index(seq)] = slot]]
            BY <1>1 DEF BufferPacket, BufferContext
        <3>2. /\ packet.expected = e /\ packet.state = ctx.state
              /\ packet.buffer = [ctx.buffer EXCEPT ![Index(seq)] = slot]
              /\ DOMAIN packet = {"state", "expected", "highest", "lastSREJ", "buffer"}
            BY <1>1, <3>1 DEF BufferContext
        <3>3. seq > e /\ seq # e /\ ~ (seq < e)
            BY <1>1, <1>2, <1>7
        <3>4. CASE ctx.state = "INORDER"
            <4> DEFINE held == [packet EXCEPT !.highest = seq, !.state = "BUFFERING"]
            <4>1. InOrderState(ctx, seq, block) = SendSREJOnce(held, <<>>)
                BY <3>3, Zenon DEF InOrderState
            <4> HIDE DEF packet
            <4>2. /\ held.expected = e /\ held.state = "BUFFERING"
                  /\ held.buffer = packet.buffer
                  /\ DOMAIN held = DOMAIN packet
                BY <3>2
            <4> HIDE DEF held
            <4>3. result.ctx = [held EXCEPT !.lastSREJ = e]
                BY <1>3, <3>4, <4>1, <4>2 DEF SendSREJOnce
            <4> QED
                BY <3>2, <4>2, <4>3
        <3>5. CASE ctx.state = "BUFFERING"
            <4> DEFINE held == [packet EXCEPT !.highest = IF seq > @ THEN seq ELSE @]
            <4>1. BufferingState(ctx, seq, block) = SendSREJOnce(held, <<>>)
                BY <3>3, Zenon DEF BufferingState
            <4> HIDE DEF packet
            <4>2. /\ held.expected = e /\ held.state = "BUFFERING"
                  /\ held.buffer = packet.buffer
                  /\ DOMAIN held = DOMAIN packet
                BY <3>2, <3>5
            <4> HIDE DEF held
            <4>3. result.ctx = [held EXCEPT !.lastSREJ = e]
                BY <1>3, <3>5, <4>1, <4>2 DEF SendSREJOnce
            <4> QED
                BY <3>2, <4>2, <4>3
        <3> QED
            BY <1>1, <3>4, <3>5
    <2>2. /\ Index(seq) \in Slot
          /\ ctx.buffer \in [Slot -> [valid : BOOLEAN, seq : SeqNum, data : Block]]
        BY <1>1, <1>2, IndexInSlot DEF BufferContext
    <2>3. Held(result.ctx, seq)
        BY <2>1, <2>2 DEF Held
    <2>4. ASSUME NEW s \in SeqNum, Held(ctx, s) PROVE Held(result.ctx, s)
        <3>1. CASE Index(s) # Index(seq)
            BY <2>1, <2>2, <2>4, <3>1 DEF Held
        <3>2. CASE Index(s) = Index(seq)
            <4>1. e + 1 <= s /\ s < e + 1 + (WindowSize - 1) /\ s \in Nat
                BY <2>2, <2>4, <3>2 DEF BufferInv, SlotsHold, Held, SeqNum
            <4>2. ~ (s < seq) /\ ~ (seq < s)
                BY <1>1, <1>2, <1>7, <3>2, <4>1, SlotsDiffer
            <4>3. s = seq
                BY <1>2, <4>1, <4>2
            <4> QED
                BY <2>3, <4>3
        <3> QED
            BY <3>1, <3>2
    <2> QED
        BY <1>1, <1>2, <1>7, <2>1, <2>3, <2>4
<1> QED
    BY <1>1, <1>2, <1>4, <1>5, <1>6, <1>7
=============================================================================
