---------------------------- MODULE AckFrameEmitter ----------------------------
(***************************************************************************)
(* FrameEmitter::emit_ack_frames (emit_frame.rs lines 264-318) and        *)
(* FrameEmitter::emit_sync_frame (lines 245-262).  emit_ack_frames packs  *)
(* the frame-ack queue into ack frames under the byte budget and          *)
(* MAX_FRAME_SIZE; it is modelled one loop iteration per step (ackPc =    *)
(* "loop").  Between calls the peer's data frames keep arriving and their *)
(* acknowledgements are queued.  The window base ids the ack frame header *)
(* carries are opaque here: only the header size matters.                 *)
(***************************************************************************)
EXTENDS FrameAckQueue, SequencesExt, Functions

CONSTANTS
    MAX_FRAME_SIZE,     \* hard wire limit of a frame
    ACK_FRAME_HEADER,   \* AckFrameBuilder::new(..).size(): an ack frame without entries
    SYNC_FRAME_SIZE,    \* frame::serial::SYNC_FRAME_SIZE
    Budgets,            \* max_send_size values a call is made with
    MaxCalls            \* bound: calls of emit_ack_frames / emit_sync_frame

VARIABLES
    ackPc,          \* "idle", or "loop" while emit_ack_frames runs
    minOne,         \* min_one of the current call
    maxSend,        \* max_send_size of the current call
    remaining,      \* bytes_remaining
    frameSent,      \* frame_sent
    builder,        \* the AckFrameBuilder: the acknowledgements added to it
    out,            \* every frame handed to emit_cb: [kind, acks, size, call]
    calls,          \* number of calls made so far (the current one included)
    callKind,       \* "ack" or "sync": the function the last call entered
    returned        \* value returned by the last call

aeVars == <<ackPc, minOne, maxSend, remaining, frameSent, builder, out, calls, callKind, returned>>
vars == <<faqVars, aeVars>>

\* AckFrameBuilder::size
BuilderSize(b) == ACK_FRAME_HEADER + SumFunction([i \in DOMAIN b |-> b[i].size])

\* fbuilder.build() handed to emit_cb
EmitBuilder ==
    out' = Append(out, [kind |-> "ack", acks |-> builder,
                        size |-> BuilderSize(builder), call |-> calls])

\* Variant computing the return value with the operands swapped.
AckReturnSwapped(rem) ==
    /\ ackPc' = "idle"
    /\ returned' = rem - maxSend

\* The call returns max_send_size - bytes_remaining.
AckReturn(rem) ==
    /\ ackPc' = "idle"
    /\ returned' = maxSend - rem

\* Variant of the emit condition grouped as (count > 0 || min_one) && !frame_sent.
MustEmitMisgrouped == (Len(builder) > 0 \/ minOne) /\ ~frameSent

\* The condition under which a pending builder is emitted at the end.
MustEmit == Len(builder) > 0 \/ (minOne /\ ~frameSent)

Init ==
    /\ FaqInit
    /\ ackPc = "idle"
    /\ minOne = FALSE
    /\ maxSend = 0
    /\ remaining = 0
    /\ frameSent = FALSE
    /\ builder = <<>>
    /\ out = <<>>
    /\ calls = 0
    /\ callKind = "ack"
    /\ returned = 0

\* Variant of the entry without the check that an empty ack frame fits.
EmitAckFramesUnchecked(max, one) ==
    /\ ackPc = "idle"
    /\ calls < MaxCalls
    /\ calls' = calls + 1
    /\ callKind' = "ack"
    /\ maxSend' = max
    /\ minOne' = one
    /\ remaining' = max
    /\ frameSent' = FALSE
    /\ builder' = <<>>
    /\ ackPc' = "loop" /\ UNCHANGED returned
    /\ UNCHANGED <<faqVars, out>>

(* emit_ack_frames entry, lines 270-278.                                    *)
EmitAckFrames(max, one) ==
    /\ ackPc = "idle"
    /\ calls < MaxCalls
    /\ calls' = calls + 1
    /\ callKind' = "ack"
    /\ maxSend' = max
    /\ minOne' = one
    /\ remaining' = max
    /\ frameSent' = FALSE
    /\ builder' = <<>>
    /\ IF ACK_FRAME_HEADER > max
       THEN ackPc' = "idle" /\ returned' = 0
       ELSE ackPc' = "loop" /\ UNCHANGED returned
    /\ UNCHANGED <<faqVars, out>>

\* Variant of the budget check that also stops when the entry fits exactly.
AckBudgetExhaustedAtLimit ==
    /\ ackPc = "loop"
    /\ faq # <<>>
    /\ BuilderSize(builder) + Head(faq).size >= remaining
    /\ IF MustEmit
       THEN /\ EmitBuilder
            /\ remaining' = remaining - BuilderSize(builder)
            /\ AckReturn(remaining - BuilderSize(builder))
       ELSE /\ UNCHANGED <<out, remaining>>
            /\ AckReturn(remaining)
    /\ builder' = <<>>
    /\ UNCHANGED <<faqVars, minOne, maxSend, frameSent, calls, callKind>>

\* Lines 284-292: the next acknowledgement does not fit in the budget.
AckBudgetExhausted ==
    /\ ackPc = "loop"
    /\ faq # <<>>
    /\ BuilderSize(builder) + Head(faq).size > remaining
    /\ IF MustEmit
       THEN /\ EmitBuilder
            /\ remaining' = remaining - BuilderSize(builder)
            /\ AckReturn(remaining - BuilderSize(builder))
       ELSE /\ UNCHANGED <<out, remaining>>
            /\ AckReturn(remaining)
    /\ builder' = <<>>
    /\ UNCHANGED <<faqVars, minOne, maxSend, frameSent, calls, callKind>>

\* Lines 294-304: the next acknowledgement would exceed MAX_FRAME_SIZE: the
\* current frame is emitted and a fresh builder started.
AckFrameFull ==
    /\ ackPc = "loop"
    /\ faq # <<>>
    /\ LET potential == BuilderSize(builder) + Head(faq).size IN
       /\ potential <= remaining
       /\ potential > MAX_FRAME_SIZE
    /\ EmitBuilder
    /\ remaining' = remaining - BuilderSize(builder)
    /\ frameSent' = TRUE
    /\ builder' = <<>>
    /\ UNCHANGED <<faqVars, ackPc, minOne, maxSend, calls, callKind, returned>>

\* Lines 306-308: the acknowledgement is added and popped.
AckAdd ==
    /\ ackPc = "loop"
    /\ faq # <<>>
    /\ LET potential == BuilderSize(builder) + Head(faq).size IN
       /\ potential <= remaining
       /\ potential <= MAX_FRAME_SIZE
    /\ builder' = Append(builder, Head(faq))
    /\ faq' = Tail(faq)
    /\ UNCHANGED <<ackLog, ackPc, minOne, maxSend, remaining, frameSent, out, calls, callKind, returned>>

\* Lines 311-317: the queue is empty.
AckDrained ==
    /\ ackPc = "loop"
    /\ faq = <<>>
    /\ IF MustEmit
       THEN /\ EmitBuilder
            /\ remaining' = remaining - BuilderSize(builder)
            /\ AckReturn(remaining - BuilderSize(builder))
       ELSE /\ UNCHANGED <<out, remaining>>
            /\ AckReturn(remaining)
    /\ builder' = <<>>
    /\ UNCHANGED <<faqVars, minOne, maxSend, frameSent, calls, callKind>>

(* emit_sync_frame, lines 245-262: one sync frame if it fits.               *)
EmitSyncFrame(max) ==
    /\ ackPc = "idle"
    /\ calls < MaxCalls
    /\ calls' = calls + 1
    /\ callKind' = "sync"
    /\ maxSend' = max
    /\ IF SYNC_FRAME_SIZE > max
       THEN /\ returned' = 0
            /\ UNCHANGED out
       ELSE /\ out' = Append(out, [kind |-> "sync", acks |-> <<>>,
                                   size |-> SYNC_FRAME_SIZE, call |-> calls + 1])
            /\ returned' = SYNC_FRAME_SIZE
    /\ UNCHANGED <<faqVars, ackPc, minOne, remaining, frameSent, builder>>

QueueAck(size) ==
    /\ ackPc = "idle"
    /\ QueueFrameAck(size)
    /\ UNCHANGED aeVars

Next ==
    \/ \E max \in Budgets, one \in BOOLEAN : EmitAckFrames(max, one)
    \/ AckBudgetExhausted \/ AckFrameFull \/ AckAdd \/ AckDrained
    \/ \E max \in Budgets : EmitSyncFrame(max)
    \/ \E size \in AckSizes : QueueAck(size)

\* A call runs to completion on the endpoint's thread.
Spec == Init /\ [][Next]_vars /\ WF_vars(AckBudgetExhausted \/ AckFrameFull \/ AckAdd \/ AckDrained)

-----------------------------------------------------------------------------
(* Properties.                                                              *)

Ack == [tag : Nat, size : AckSizes]

TypeOK ==
    /\ faq \in Seq(Ack) /\ ackLog \in Seq(Ack)
    /\ ackPc \in {"idle", "loop"}
    /\ minOne \in BOOLEAN /\ frameSent \in BOOLEAN
    /\ maxSend \in Budgets \cup {0}
    /\ remaining \in Nat
    /\ builder \in Seq(Ack)
    /\ out \in Seq([kind : {"ack", "sync"}, acks : Seq(Ack), size : Nat, call : 1 .. MaxCalls])
    /\ calls \in 0 .. MaxCalls /\ callKind \in {"ack", "sync"}
    /\ returned \in Nat

\* Spec 8.8: every queued acknowledgement leaves the queue only inside an
\* emitted ack frame, once and in queue order: the frames emitted so far,
\* then the builder, then the queue, spell out exactly what was queued.
\* Needs the early return (lines 284-291) to emit a non-empty builder and
\* the MAX_FRAME_SIZE branch (294-303) to retry the entry it did not add.
AckConservation ==
    LET sent == [i \in DOMAIN out |-> out[i].acks]
    IN FlattenSeq(sent) \o builder \o faq = ackLog

\* Bytes of the frames emitted by call k.
CallBytes(k) ==
    SumFunctionOnSet([i \in DOMAIN out |-> out[i].size], {i \in DOMAIN out : out[i].call = k})

\* Spec 8.1 and 8.2 for ack and sync frames: every frame is at most
\* MAX_FRAME_SIZE; while emit_ack_frames runs, bytes_remaining is what is
\* left of max_send_size and a builder that would be emitted fits in it
\* (including the empty frame min_one forces); the value a call returns is
\* the size of the frames it emitted, within max_send_size.
AckBudget ==
    /\ \A i \in DOMAIN out : out[i].size \in 1 .. MAX_FRAME_SIZE
    /\ ackPc = "loop" =>
          /\ remaining = maxSend - CallBytes(calls)
          /\ MustEmit => BuilderSize(builder) <= remaining
    /\ ackPc = "idle" /\ calls > 0 =>
          /\ returned = CallBytes(calls)
          /\ returned <= maxSend

-----------------------------------------------------------------------------
(* A reference definition of what one emit_ack_frames call emits, stated  *)
(* from spec 4.3 and independent of the loop: the longest prefix of the   *)
(* queue whose greedy split into frames fits the budget is sent, split    *)
(* greedily under MAX_FRAME_SIZE; an empty frame is sent instead when     *)
(* nothing fits and min_one is set.                                       *)

\* Bytes of the acknowledgement entries of s.
EntryBytes(s) == SumFunction([i \in DOMAIN s |-> s[i].size])

\* s split into frames, each as long as MAX_FRAME_SIZE allows.
RECURSIVE GreedySplit(_)
GreedySplit(s) ==
    IF s = <<>> THEN <<>>
    ELSE LET n == Max({k \in 1 .. Len(s) :
                          ACK_FRAME_HEADER + EntryBytes(SubSeq(s, 1, k)) <= MAX_FRAME_SIZE})
         IN <<SubSeq(s, 1, n)>> \o GreedySplit(SubSeq(s, n + 1, Len(s)))

FramesBytes(fs) == SumFunction([i \in DOMAIN fs |-> ACK_FRAME_HEADER + EntryBytes(fs[i])])

AckPacking(q, max, one) ==
    LET fits == {k \in 0 .. Len(q) : FramesBytes(GreedySplit(SubSeq(q, 1, k))) <= max}
        sent == SubSeq(q, 1, Max(fits))
    IN CASE ACK_FRAME_HEADER > max -> <<>>
         [] sent = <<>> /\ one     -> << <<>> >>
         [] OTHER                  -> GreedySplit(sent)

\* The entries of the frames of the last call, frame by frame.
LastCallAcks ==
    LET fs == SelectSeq(out, LAMBDA f : f.call = calls)
    IN [i \in DOMAIN fs |-> fs[i].acks]

\* A step in which an emit_ack_frames call returns.
AckCallReturns ==
    /\ ackPc' = "idle"
    /\ callKind' = "ack"
    /\ \/ ackPc = "loop"
       \/ calls' = calls + 1

\* emit_ack_frames is the greedy packing of spec 4.3: every call emits, in
\* order, exactly the frames AckPacking gives for the queue it started
\* with (what it sent followed by what it left), its max_send_size and its
\* min_one.  A frame closed too early, a budget check off by one or a
\* frame lost at one of the three exits (lines 286-291, 296-303, 313-315)
\* changes the frames.
AckPackingMatches ==
    [][AckCallReturns =>
         LastCallAcks' = AckPacking(FlattenSeq(LastCallAcks') \o faq', maxSend', minOne')]_vars
=============================================================================
