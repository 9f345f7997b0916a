----------------------------- MODULE FrameQueue -----------------------------
(***************************************************************************)
(* The frame queue (spec component C3): it assigns outgoing frame ids,    *)
(* keeps the fragment references of every outstanding data frame for ack  *)
(* reconciliation, and enforces the frame window.  frame_queue.rs is not  *)
(* among the modelled sources: this module follows spec.md sections 3, 6  *)
(* and 9.  The nonce check of acknowledge_group is abstracted to a peer   *)
(* that only acknowledges frames it received (the XOR then matches).      *)
(***************************************************************************)
EXTENDS PacketSender

CONSTANT FRAME_WINDOW   \* maximum number of outstanding frame ids

VARIABLES
    fqBase,       \* frame window base id
    fqNext,       \* next frame id to assign
    fqSent,       \* outstanding frame id -> fragment refs it carries (persistent only)
    rateLimited   \* mark_rate_limited() was called during the current flush

fqVars == <<fqBase, fqNext, fqSent, rateLimited>>

FqInit ==
    /\ fqBase = 0
    /\ fqNext = 0
    /\ fqSent = <<>>
    /\ rateLimited = FALSE

\* FrameQueue::can_push, on the value-level view of the queue used by the
\* data frame emitter (fields base and next).
CanPush(s) == s.next - s.base < FRAME_WINDOW

\* FrameQueue::push(size, now_ms, fragment_refs, nonce): the frame is
\* recorded under the next id.
FqPush(s, refs) ==
    [s EXCEPT !.sent = s.sent @@ (s.next :> refs), !.next = s.next + 1]

\* FrameQueue::acknowledge_group: the frames in S were received; every fragment
\* they carry whose packet is still alive gets its acknowledgement bit set, and
\* the frames stop being outstanding.
AcknowledgeGroup(S) ==
    LET refs == UNION {fqSent[i] : i \in S}
        frames == DOMAIN fqSent \ S
    IN
    /\ S # {} /\ S \subseteq DOMAIN fqSent
    /\ acked' = acked \cup {d \in refs : Live(d[1])}
    /\ fqSent' = [i \in frames |-> fqSent[i]]
    /\ UNCHANGED <<fqBase, fqNext, rateLimited>>
    /\ UNCHANGED <<sendQueue, packets, psBase, psNext, enqueued>>

\* The peer's frame window base advances to b: frames below b fall out of
\* the window whether or not they were acknowledged.
AdvanceFrameWindow(b) ==
    LET frames == {i \in DOMAIN fqSent : i >= b} IN
    /\ fqBase < b /\ b <= fqNext
    /\ fqBase' = b
    /\ fqSent' = [i \in frames |-> fqSent[i]]
    /\ UNCHANGED <<fqNext, rateLimited>>
    /\ UNCHANGED psVars
=============================================================================
