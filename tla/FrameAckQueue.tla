---------------------------- MODULE FrameAckQueue ----------------------------
(***************************************************************************)
(* The frame-ack queue (spec component C4): peer frame acknowledgements   *)
(* waiting to be sent back.  frame_ack_queue.rs is not among the modelled *)
(* sources; this follows spec.md sections 2 and 4.3.  An entry is a frame *)
(* acknowledgement with a unique tag and its encoded size.                *)
(***************************************************************************)
EXTENDS Naturals, Sequences

CONSTANTS
    AckSizes,   \* encoded sizes a frame acknowledgement can have
    MaxAcks     \* bound: acknowledgements queued in a behaviour

VARIABLES
    faq,        \* the queue: Seq of [tag, size]
    ackLog      \* every acknowledgement ever queued, in order

faqVars == <<faq, ackLog>>

FaqInit == faq = <<>> /\ ackLog = <<>>

\* A data frame of the peer was received: its acknowledgement is queued.
QueueFrameAck(size) ==
    LET a == [tag |-> Len(ackLog), size |-> size] IN
    /\ Len(ackLog) < MaxAcks
    /\ faq' = Append(faq, a)
    /\ ackLog' = Append(ackLog, a)
=============================================================================
