------------------------------- MODULE Buffer -------------------------------
(***************************************************************************)
(* The receiver's buffer (buffer.c): puts the DATA PDUs of one transfer    *)
(* back in order.  Each child of the server has one BufferContext of its   *)
(* own, so the functions are operators on a context ctx, and return a      *)
(* record of                                                               *)
(*   ctx     the context afterwards,                                       *)
(*   out     the blocks written to the output file, in order,              *)
(*   reply   the control PDU sent, RR or SREJ, or NoReply; the number it   *)
(*           carries is always the expected field of ctx afterwards.       *)
(*                                                                         *)
(* ackSeqNum, the sequence number of these control PDUs, is never read.    *)
(***************************************************************************)
EXTENDS SeqNums, Sequences

CONSTANT NoReply

(* That there is no reply is not taken for one. *)
ASSUME BufferAssumption == NoReply \notin {"RR", "SREJ"}

(* Mutant: no SREJ is outstanding is written as a sequence number in use. *)
NoSREJZero == 0

(* UINT32_MAX: no SREJ is outstanding. *)
NoSREJ == UintModulus - 1

BufferState == {"INORDER", "BUFFERING", "FLUSHING"}

BufferContext(Block) ==
    [state : BufferState, expected : SeqNum, highest : SeqNum, lastSREJ : SeqNum,
     buffer : [Slot -> [valid : BOOLEAN, seq : SeqNum, data : Block]]]

(* The data of a new slot is whatever malloc left there: unset. *)
BufferInit(unset) ==
    [state |-> "INORDER", expected |-> 0, highest |-> 0, lastSREJ |-> NoSREJ,
     buffer |-> [i \in Slot |-> [valid |-> FALSE, seq |-> 0, data |-> unset]]]

-----------------------------------------------------------------------------

Held(ctx, seq) ==
    /\ ctx.buffer[Index(seq)].valid
    /\ ctx.buffer[Index(seq)].seq = seq

BufferPacket(ctx, seq, block) ==
    [ctx EXCEPT !.buffer[Index(seq)] = [valid |-> TRUE, seq |-> seq, data |-> block]]

SendRR(ctx, out) == [ctx |-> ctx, out |-> out, reply |-> "RR"]

SendSREJOnce(ctx, out) ==
    [ctx |-> [ctx EXCEPT !.lastSREJ = ctx.expected], out |-> out,
     reply |-> IF ctx.lastSREJ = ctx.expected THEN NoReply ELSE "SREJ"]

(* Mutant: a PDU that comes again is written again. *)
InOrderStateRepeats(ctx, seq, block) ==
    IF seq <= ctx.expected
    THEN SendRR([ctx EXCEPT !.expected = Plus(ctx.expected, 1)], <<block>>)
    ELSE SendSREJOnce([BufferPacket(ctx, seq, block) EXCEPT
                         !.highest = seq, !.state = "BUFFERING"], <<>>)

(* Mutant: a PDU that is in order is written and not acknowledged. *)
InOrderStateSilent(ctx, seq, block) ==
    CASE seq = ctx.expected ->
           [ctx |-> [ctx EXCEPT !.highest = ctx.expected,
                                !.expected = Plus(ctx.expected, 1)],
            out |-> <<block>>, reply |-> NoReply]
      [] seq > ctx.expected ->
           SendSREJOnce([BufferPacket(ctx, seq, block) EXCEPT
                           !.highest = seq, !.state = "BUFFERING"], <<>>)
      [] seq < ctx.expected -> SendRR(ctx, <<>>)

InOrderState(ctx, seq, block) ==
    CASE seq = ctx.expected ->
           SendRR([ctx EXCEPT !.highest = ctx.expected,
                              !.expected = Plus(ctx.expected, 1)], <<block>>)
      [] seq > ctx.expected ->
           SendSREJOnce([BufferPacket(ctx, seq, block) EXCEPT
                           !.highest = seq, !.state = "BUFFERING"], <<>>)
      [] seq < ctx.expected -> SendRR(ctx, <<>>)

(* How many turns the loop of flushingState takes: the number of PDUs held *)
(* from expected on, without a gap.                                        *)
FlushCount(ctx) ==
    CHOOSE n \in 0 .. WindowSize :
        /\ ~ Held(ctx, Plus(ctx.expected, n))
        /\ \A k \in 0 .. n - 1 : Held(ctx, Plus(ctx.expected, k))

(* Mutant: flushed slots stay valid. *)
FlushedKeepsValid(ctx) ==
    LET next == Plus(ctx.expected, FlushCount(ctx))
    IN  [ctx EXCEPT
           !.expected = next,
           !.state = IF next <= ctx.highest THEN "BUFFERING" ELSE "INORDER"]

Flushed(ctx) ==
    LET next == Plus(ctx.expected, FlushCount(ctx))
        slots == {Index(Plus(ctx.expected, k)) : k \in 0 .. FlushCount(ctx) - 1}
    IN  [ctx EXCEPT
           !.expected = next,
           !.state = IF next <= ctx.highest THEN "BUFFERING" ELSE "INORDER",
           !.buffer = [i \in Slot |-> [ctx.buffer[i] EXCEPT
                                         !.valid = @ /\ i \notin slots]]]

FlushedBlocks(ctx) ==
    [k \in 1 .. FlushCount(ctx) |->
        ctx.buffer[Index(Plus(ctx.expected, k - 1))].data]

(* Mutant: the PDU that closes the gap is written after the held ones. *)
FlushingStateLate(ctx, out) ==
    IF Flushed(ctx).state = "BUFFERING"
    THEN SendSREJOnce(Flushed(ctx), FlushedBlocks(ctx) \o out)
    ELSE SendRR(Flushed(ctx), FlushedBlocks(ctx) \o out)

(* out is what was written before flushingState was called. *)
FlushingState(ctx, out) ==
    IF Flushed(ctx).state = "BUFFERING"
    THEN SendSREJOnce(Flushed(ctx), out \o FlushedBlocks(ctx))
    ELSE SendRR(Flushed(ctx), out \o FlushedBlocks(ctx))

(* Mutant: lastSREJ is not reset when the gap closes. *)
BufferingStateKeepsSREJ(ctx, seq, block) ==
    CASE seq = ctx.expected ->
           FlushingState([ctx EXCEPT !.expected = Plus(ctx.expected, 1)], <<block>>)
      [] seq > ctx.expected ->
           SendSREJOnce([BufferPacket(ctx, seq, block) EXCEPT
                           !.highest = IF seq > @ THEN seq ELSE @], <<>>)
      [] seq < ctx.expected -> SendRR(ctx, <<>>)

BufferingState(ctx, seq, block) ==
    CASE seq = ctx.expected ->
           FlushingState([ctx EXCEPT !.lastSREJ = NoSREJ,
                                     !.expected = Plus(ctx.expected, 1)], <<block>>)
      [] seq > ctx.expected ->
           SendSREJOnce([BufferPacket(ctx, seq, block) EXCEPT
                           !.highest = IF seq > @ THEN seq ELSE @], <<>>)
      [] seq < ctx.expected -> SendRR(ctx, <<>>)

(* For a DATA PDU with a valid checksum; its caller passes on no other.    *)
BufferProcessPDU(ctx, seq, block) ==
    CASE ctx.state = "INORDER"   -> InOrderState(ctx, seq, block)
      [] ctx.state = "BUFFERING" -> BufferingState(ctx, seq, block)
      [] ctx.state = "FLUSHING"  -> FlushingState(ctx, <<>>)
=============================================================================
