----------------------------- MODULE FrameEmitter -----------------------------
(***************************************************************************)
(* FrameEmitter::emit_data_frames (emit_frame.rs lines 167-243) composed  *)
(* with the packet sender, the pending and resend queues, the frame queue *)
(* and the frame packer, plus the environment between flushes: the        *)
(* application enqueues packets, time passes, and the peer acknowledges   *)
(* frames and advances the packet and frame windows.                      *)
(*                                                                         *)
(* A flush is one synchronous call.  It is modelled one loop iteration    *)
(* per step (pc = "resend" for the first loop, "pending" for the second), *)
(* and the environment only moves while no flush runs (pc = "idle"),     *)
(* since the endpoint is single-threaded and flushes are not re-entrant.  *)
(***************************************************************************)
EXTENDS DataFrameEmitter, FiniteSets, Functions

CONSTANTS
    Budgets,      \* max_send_size values a flush is called with
    Rtts,         \* rtt_ms values a flush is called with
    MaxTime,      \* bound: last value of now_ms
    MaxFlushes,   \* bound: number of emit_data_frames calls
    MaxFlushId,   \* bound: last flush id the caller moves on to
    HonestPeer    \* TRUE: the peer only advances the packet window past packets it fully received

\* emit_frame.rs line 14
MAX_SEND_COUNT == 2

\* bound of the ghost send counter: from the third send on the interval stays 4 rtt
MaxSendsTracked == 3

VARIABLES
    pendingQ,        \* pending queue: Seq of [d, resend]
    resendQ,         \* resend queue: set of [d, time, count], a priority queue on time
    pc,              \* "idle", or the emitter loop the current flush is in
    now,             \* now_ms
    rtt,             \* rtt_ms of the current flush
    flushId,         \* the caller's flush id: passed to FrameEmitter::new and enqueue_packet
    calls,           \* number of emit_data_frames calls that have returned
    maxSendSize,     \* max_send_size of the current flush
    bytesRemaining,  \* DataFrameEmitter::bytes_remaining
    inProgress,      \* DataFrameEmitter::in_progress_frame
    bytesEmitted,    \* value returned by the last emit_data_frames call
    wire,            \* every frame handed to the callback, in order
    lastSend         \* ghost: fragment -> [n sends (capped), time and rtt of the last send]

emVars == <<pendingQ, resendQ, pc, now, rtt, flushId, calls, maxSendSize,
            bytesRemaining, inProgress, bytesEmitted, wire, lastSend>>
vars == <<psVars, fqVars, emVars>>

-----------------------------------------------------------------------------
(* The packer state seen as the record of module DataFrameEmitter.          *)

Packer == [ip |-> inProgress, remaining |-> bytesRemaining, base |-> fqBase,
           next |-> fqNext, sent |-> fqSent, limited |-> rateLimited,
           wire |-> wire, fid |-> flushId, call |-> calls]

SetPacker(s) ==
    /\ inProgress' = s.ip
    /\ bytesRemaining' = s.remaining
    /\ fqNext' = s.next
    /\ fqSent' = s.sent
    /\ rateLimited' = s.limited
    /\ wire' = s.wire
    /\ UNCHANGED fqBase

\* Variant of the drain condition that only looks at the weak upgrade.
SkippableLiveOnly(d) == ~Live(d[1])

\* A queue entry is drained without sending when its packet is gone (weak
\* upgrade fails) or the fragment is already acknowledged.
Skippable(d) == ~Live(d[1]) \/ d \in acked

\* ResendQueue::peek: an entry of earliest resend time (ties unspecified).
ResendHead == {e \in resendQ : \A o \in resendQ : e.time <= o.time}

\* ResendQueue::pop on the current head (no-op when empty).
PopResend ==
    \/ resendQ = {} /\ UNCHANGED resendQ
    \/ \E e \in ResendHead : resendQ' = resendQ \ {e}

RecordSend(d) ==
    lastSend' = [lastSend EXCEPT ![d] = [n |-> IF @.n < MaxSendsTracked THEN @.n + 1 ELSE @.n,
                                         at |-> now, rtt |-> rtt]]

\* emit_data_frames returns total_size().
Return(s) ==
    /\ pc' = "idle"
    /\ bytesEmitted' = TotalSize(maxSendSize, s)
    /\ calls' = calls + 1

-----------------------------------------------------------------------------
Init ==
    /\ PsInit
    /\ FqInit
    /\ pendingQ = <<>>
    /\ resendQ = {}
    /\ pc = "idle"
    /\ now = 0
    /\ rtt = CHOOSE r \in Rtts : TRUE
    /\ flushId = 0
    /\ calls = 0
    /\ maxSendSize = 0
    /\ bytesRemaining = 0
    /\ inProgress = NoFrame
    /\ bytesEmitted = 0
    /\ wire = <<>>
    /\ lastSend = [d \in Fragments |-> [n |-> 0, at |-> 0, rtt |-> 0]]

(* emit_data_frames entry: DataFrameEmitter::new.                           *)
EmitDataFrames(t, max, r, fid) ==
    /\ pc = "idle"
    /\ calls < MaxFlushes
    /\ pc' = "resend"
    /\ now' = t
    /\ flushId' = fid
    /\ maxSendSize' = max
    /\ bytesRemaining' = max
    /\ rtt' = r
    /\ inProgress' = NoFrame
    /\ UNCHANGED <<psVars, fqVars>>
    /\ UNCHANGED <<pendingQ, resendQ, calls, bytesEmitted, wire, lastSend>>

(* First loop: drain the resend queue.                                      *)

ResendDrained ==
    /\ pc = "resend"
    /\ resendQ = {}
    /\ pc' = "pending"
    /\ UNCHANGED <<psVars, fqVars>>
    /\ UNCHANGED <<pendingQ, resendQ, now, rtt, flushId, calls, maxSendSize,
                   bytesRemaining, inProgress, bytesEmitted, wire, lastSend>>

\* Variant of the skip branch that drops the head without checking it.
ResendSkipUnchecked ==
    /\ pc = "resend"
    /\ \E e \in ResendHead : resendQ' = resendQ \ {e}
    /\ UNCHANGED <<psVars, fqVars>>
    /\ UNCHANGED <<pendingQ, pc, now, rtt, flushId, calls, maxSendSize,
                   bytesRemaining, inProgress, bytesEmitted, wire, lastSend>>

\* Variant of the skip branch that continues without popping the head.
ResendSkipNoPop ==
    /\ pc = "resend"
    /\ \E e \in ResendHead : Skippable(e.d)
    /\ UNCHANGED <<psVars, fqVars, emVars>>

ResendSkip ==
    /\ pc = "resend"
    /\ \E e \in ResendHead :
          /\ Skippable(e.d)
          /\ resendQ' = resendQ \ {e}
    /\ UNCHANGED <<psVars, fqVars>>
    /\ UNCHANGED <<pendingQ, pc, now, rtt, flushId, calls, maxSendSize,
                   bytesRemaining, inProgress, bytesEmitted, wire, lastSend>>

\* Variant of the not-due branch that returns from the call instead of
\* breaking out to the pending loop.
ResendNotDueReturns ==
    /\ pc = "resend"
    /\ \E e \in ResendHead :
          /\ ~Skippable(e.d)
          /\ e.time > now
    /\ Return(Packer)
    /\ UNCHANGED <<psVars, fqVars>>
    /\ UNCHANGED <<pendingQ, resendQ, now, rtt, flushId, maxSendSize,
                   bytesRemaining, inProgress, wire, lastSend>>

\* Variant of the due check that treats an entry due exactly now as not due.
ResendNotDueAtNow ==
    /\ pc = "resend"
    /\ \E e \in ResendHead :
          /\ ~Skippable(e.d)
          /\ e.time >= now
    /\ pc' = "pending"
    /\ UNCHANGED <<psVars, fqVars>>
    /\ UNCHANGED <<pendingQ, resendQ, now, rtt, flushId, calls, maxSendSize,
                   bytesRemaining, inProgress, bytesEmitted, wire, lastSend>>

ResendNotDue ==
    /\ pc = "resend"
    /\ \E e \in ResendHead :
          /\ ~Skippable(e.d)
          /\ e.time > now
    /\ pc' = "pending"
    /\ UNCHANGED <<psVars, fqVars>>
    /\ UNCHANGED <<pendingQ, resendQ, now, rtt, flushId, calls, maxSendSize,
                   bytesRemaining, inProgress, bytesEmitted, wire, lastSend>>

\* Variant of the rescheduling with the backoff exponent one too small.
RescheduledShortBackoff(e) ==
    [d |-> e.d, time |-> now + rtt * 2 ^ (e.count - 1),
     count |-> IF e.count + 1 < MAX_SEND_COUNT THEN e.count + 1 ELSE MAX_SEND_COUNT]

\* Variant of the rescheduling without the MAX_SEND_COUNT clamp.
RescheduledUnclamped(e) ==
    [d |-> e.d, time |-> now + rtt * 2 ^ e.count, count |-> e.count + 1]

\* Variant of the rescheduling that counts the backoff from the due time of
\* e instead of from now_ms.
RescheduledFromDue(e) ==
    [d |-> e.d, time |-> e.time + rtt * 2 ^ e.count,
     count |-> IF e.count + 1 < MAX_SEND_COUNT THEN e.count + 1 ELSE MAX_SEND_COUNT]

\* Resend time and count of the entry that replaces e once it is sent again.
Rescheduled(e) ==
    [d |-> e.d, time |-> now + rtt * 2 ^ e.count,
     count |-> IF e.count + 1 < MAX_SEND_COUNT THEN e.count + 1 ELSE MAX_SEND_COUNT]

ResendSend ==
    /\ pc = "resend"
    /\ \E e \in ResendHead :
          LET r == Push(Packer, e.d, DatagramSize(e.d), TRUE) IN
          /\ ~Skippable(e.d)
          /\ e.time <= now
          /\ r.ok
          /\ SetPacker(r.s)
          /\ resendQ' = (resendQ \ {e}) \cup {Rescheduled(e)}
          /\ RecordSend(e.d)
    /\ UNCHANGED psVars
    /\ UNCHANGED <<pendingQ, pc, now, rtt, flushId, calls, maxSendSize, bytesEmitted>>

ResendLimited ==
    /\ pc = "resend"
    /\ \E e \in ResendHead :
          LET r == Push(Packer, e.d, DatagramSize(e.d), TRUE) IN
          /\ ~Skippable(e.d)
          /\ e.time <= now
          /\ ~r.ok
          /\ SetPacker(r.s)
          /\ Return(r.s)
    /\ UNCHANGED psVars
    /\ UNCHANGED <<pendingQ, resendQ, now, rtt, flushId, maxSendSize, lastSend>>

(* Second loop: drain the pending queue, refilling it from the sender.      *)

PendingAdmit ==
    /\ pc = "pending"
    /\ pendingQ = <<>>
    /\ EmitPacketSome(flushId)
    /\ LET p == psNext
           pkt == packets'[p]
       IN pendingQ' = [i \in DOMAIN pkt.sizes |->
                          [d |-> <<p, i - 1>>, resend |-> pkt.mode = "Resend"]]
    /\ UNCHANGED fqVars
    /\ UNCHANGED <<resendQ, pc, now, rtt, flushId, calls, maxSendSize,
                   bytesRemaining, inProgress, bytesEmitted, wire, lastSend>>

\* No packet is admissible: the trailing in-progress frame is flushed and
\* the call returns.
PendingExhausted ==
    /\ pc = "pending"
    /\ pendingQ = <<>>
    /\ EmitPacketNone(flushId)
    /\ SetPacker(FlushFrame(Packer))
    /\ Return(FlushFrame(Packer))
    /\ UNCHANGED <<pendingQ, resendQ, now, rtt, flushId, maxSendSize, lastSend>>

\* Lines 216-222 and 234-237: a pending head whose packet is gone or whose
\* fragment is acknowledged makes the code pop the RESEND queue and loop
\* again, leaving the pending head in place.
PendingSkip ==
    /\ pc = "pending"
    /\ pendingQ # <<>>
    /\ Skippable(Head(pendingQ).d)
    /\ PopResend
    /\ UNCHANGED <<psVars, fqVars>>
    /\ UNCHANGED <<pendingQ, pc, now, rtt, flushId, calls, maxSendSize,
                   bytesRemaining, inProgress, bytesEmitted, wire, lastSend>>

PendingSend ==
    /\ pc = "pending"
    /\ pendingQ # <<>>
    /\ LET e == Head(pendingQ)
           r == Push(Packer, e.d, DatagramSize(e.d), e.resend)
       IN /\ ~Skippable(e.d)
          /\ r.ok
          /\ SetPacker(r.s)
          /\ pendingQ' = Tail(pendingQ)
          /\ resendQ' = IF e.resend
                        THEN resendQ \cup {[d |-> e.d, time |-> now + rtt, count |-> 1]}
                        ELSE resendQ
          /\ RecordSend(e.d)
    /\ UNCHANGED psVars
    /\ UNCHANGED <<pc, now, rtt, flushId, calls, maxSendSize, bytesEmitted>>

PendingLimited ==
    /\ pc = "pending"
    /\ pendingQ # <<>>
    /\ LET e == Head(pendingQ)
           r == Push(Packer, e.d, DatagramSize(e.d), e.resend)
       IN /\ ~Skippable(e.d)
          /\ ~r.ok
          /\ SetPacker(r.s)
          /\ Return(r.s)
    /\ UNCHANGED psVars
    /\ UNCHANGED <<pendingQ, resendQ, now, rtt, flushId, maxSendSize, lastSend>>

-----------------------------------------------------------------------------
(* The environment, between flushes.                                        *)

\* Every fragment of every packet below b has been on the wire.
Received(b) ==
    \A p \in psBase .. b - 1 : \A d \in FragmentsOf(p) :
        \E i \in DOMAIN wire : d \in Range(wire[i].dgs)

Enqueue(mode, sizes, fid) ==
    /\ pc = "idle"
    /\ EnqueuePacket(mode, sizes, fid)
    /\ UNCHANGED <<fqVars, emVars>>

Tick ==
    /\ pc = "idle"
    /\ now < MaxTime
    /\ now' = now + 1
    /\ UNCHANGED <<psVars, fqVars>>
    /\ UNCHANGED <<pendingQ, resendQ, pc, rtt, flushId, calls, maxSendSize,
                   bytesRemaining, inProgress, bytesEmitted, wire, lastSend>>

\* The caller moves on to a new flush id.
NextFlushId ==
    /\ pc = "idle"
    /\ flushId < MaxFlushId
    /\ flushId' = flushId + 1
    /\ UNCHANGED <<psVars, fqVars>>
    /\ UNCHANGED <<pendingQ, resendQ, pc, now, rtt, calls, maxSendSize,
                   bytesRemaining, inProgress, bytesEmitted, wire, lastSend>>

AckPackets(b) ==
    /\ pc = "idle"
    /\ HonestPeer => Received(b)
    /\ Acknowledge(b)
    /\ UNCHANGED <<fqVars, emVars>>

AckFrames(S) ==
    /\ pc = "idle"
    /\ AcknowledgeGroup(S)
    /\ UNCHANGED emVars

AdvanceFrames(b) ==
    /\ pc = "idle"
    /\ AdvanceFrameWindow(b)
    /\ UNCHANGED emVars

-----------------------------------------------------------------------------
EmitterStep ==
    \/ ResendDrained \/ ResendSkip \/ ResendNotDue \/ ResendSend \/ ResendLimited
    \/ PendingAdmit \/ PendingExhausted \/ PendingSkip \/ PendingSend \/ PendingLimited

Environment ==
    \/ \E max \in Budgets, r \in Rtts : EmitDataFrames(now, max, r, flushId)
    \/ \E mode \in Modes, sizes \in Shapes : Enqueue(mode, sizes, flushId)
    \/ Tick
    \/ NextFlushId
    \/ \E b \in psBase + 1 .. psNext : AckPackets(b)
    \/ \E S \in SUBSET DOMAIN fqSent : AckFrames(S)
    \/ \E b \in fqBase + 1 .. fqNext : AdvanceFrames(b)

Next == EmitterStep \/ Environment

\* emit_data_frames is a synchronous call on the endpoint's thread: once
\* started it keeps running.  Nothing is assumed about the environment.
Spec == Init /\ [][Next]_vars /\ WF_vars(EmitterStep)

-----------------------------------------------------------------------------
(* Properties.                                                              *)

Frame == [id : Nat, size : Nat, refs : SUBSET Fragments, dgs : Seq(Fragments)]

TypeOK ==
    /\ sendQueue \in Seq([mode : Modes, sizes : Shapes, fid : 0 .. MaxFlushId])
    /\ DOMAIN packets = 0 .. psNext - 1
    /\ \A p \in DOMAIN packets : packets[p] \in [mode : Modes, sizes : Shapes, fid : 0 .. MaxFlushId]
    /\ psBase \in 0 .. psNext /\ psNext \in 0 .. MaxPackets
    /\ acked \subseteq Fragments
    /\ fqBase \in 0 .. fqNext
    /\ DOMAIN fqSent \subseteq fqBase .. fqNext - 1
    /\ \A i \in DOMAIN fqSent : fqSent[i] \subseteq Fragments
    /\ rateLimited \in BOOLEAN
    /\ pendingQ \in Seq([d : Fragments, resend : BOOLEAN])
    /\ resendQ \subseteq [d : Fragments, time : Nat, count : 1 .. MAX_SEND_COUNT]
    /\ pc \in {"idle", "resend", "pending"}
    /\ now \in 0 .. MaxTime /\ rtt \in Rtts
    /\ flushId \in 0 .. MaxFlushId /\ calls \in 0 .. MaxFlushes
    /\ bytesRemaining \in 0 .. maxSendSize
    /\ inProgress \in Frame \cup {NoFrame}
    /\ wire \in Seq([id : Nat, dgs : Seq(Fragments), size : Nat, fid : Nat, call : Nat])
    /\ lastSend \in [Fragments -> [n : 0 .. MaxSendsTracked, at : 0 .. MaxTime, rtt : Rtts \cup {0}]]

\* Every fragment of a live Resend packet that the peer has not acknowledged
\* is still queued for sending: in the pending queue before its first send,
\* in the resend queue after it.  This is what makes Resend mode reliable;
\* it depends on the pop/push pairs of both loops (lines 188-192, 229-233)
\* and on the early returns leaving the failed entry queued.
ReliableCoverage ==
    \A p \in DOMAIN packets :
        Live(p) /\ packets[p].mode = "Resend" =>
            \A d \in FragmentsOf(p) \ acked :
                \/ \E i \in DOMAIN pendingQ : pendingQ[i].d = d
                \/ \E e \in resendQ : e.d = d

\* Retransmission backoff (spec 8.6): the resend entry of a fragment sent n
\* times is due rtt, 2 rtt, then 4 rtt after the last send (1, 2, 4, 4, ...)
\* and carries send_count min(n, MAX_SEND_COUNT).  Lines 190-192 and 232.
ResendSchedule ==
    \A e \in resendQ :
        LET h == lastSend[e.d] IN
        /\ h.n >= 1
        /\ e.time = h.at + h.rtt * 2 ^ (h.n - 1)
        /\ e.count = IF h.n < MAX_SEND_COUNT THEN h.n ELSE MAX_SEND_COUNT

\* Bytes of the frames handed to the callback during call k (counted from 0).
FlushBytes(k) ==
    SumFunctionOnSet([i \in DOMAIN wire |-> wire[i].size],
                     {i \in DOMAIN wire : wire[i].call = k})

InProgressSize == IF inProgress = NoFrame THEN 0 ELSE inProgress.size

\* Spec 8.1 and 8.2: no frame exceeds MAX_FRAME_SIZE; during a flush the
\* frames emitted so far plus the in-progress frame fit in max_send_size and
\* bytes_remaining is exactly what is left of it; the value returned by
\* emit_data_frames is the byte count of the frames that flush emitted.
\* It rests on both checks of push and on push_initial re-checking the
\* budget after a MAX_FRAME_SIZE split (lines 64-71, 101-109, 131).
FlushWithinBudget ==
    /\ \A i \in DOMAIN wire : wire[i].size \in 1 .. MAX_FRAME_SIZE
    /\ pc # "idle" =>
          /\ bytesRemaining = maxSendSize - FlushBytes(calls)
          /\ InProgressSize <= bytesRemaining
    /\ pc = "idle" /\ calls > 0 =>
          /\ bytesEmitted = FlushBytes(calls - 1)
          /\ bytesEmitted <= maxSendSize

\* Spec 8.3: frames reach the callback with ids 0, 1, 2, ... in order, the
\* id in each header is the one the frame queue registered it under, and the
\* slot holds exactly the fragments of Resend packets the frame carries.
\* The id is read at push_initial (line 73) and registered at flush (129),
\* where the frame window must still have room (line 128).
FramesRegistered ==
    /\ fqNext = Len(wire)
    /\ fqNext - fqBase <= FRAME_WINDOW
    /\ \A i \in DOMAIN wire : wire[i].id = i - 1
    /\ \A i \in DOMAIN fqSent :
          fqSent[i] = {d \in Range(wire[i + 1].dgs) : packets[d[1]].mode = "Resend"}

\* No flush packs a fragment twice: the frames one flush hands to the
\* callback carry pairwise distinct datagrams.  The resend loop (lines
\* 170-193) re-peeks the queue after rescheduling the entry it just sent, so
\* this rests on the new resend time (line 191) lying after now_ms.
FlushDistinct ==
    \A i, j \in DOMAIN wire : wire[i].call = wire[j].call =>
        \A k \in DOMAIN wire[i].dgs, l \in DOMAIN wire[j].dgs :
            wire[i].dgs[k] = wire[j].dgs[l] => <<i, k>> = <<j, l>>

\* Spec 8.7: a TimeSensitive packet enqueued under flush id a is never
\* emitted by a flush with another id.
TimeSensitiveDrop ==
    \A i \in DOMAIN wire : \A d \in Range(wire[i].dgs) :
        packets[d[1]].mode = "TimeSensitive" => wire[i].fid = packets[d[1]].fid

\* Fragment d of a live packet is unacknowledged and its resend time has come.
ResendDue(d) ==
    /\ \E e \in resendQ : e.d = d /\ e.time <= now
    /\ Live(d[1])
    /\ d \notin acked

\* Resends come before new data: once a flush moves on to the pending queue,
\* no fragment of a live packet that the peer has not acknowledged is due
\* for resending.  The resend loop (lines 170-197) only looks at the
\* earliest entry and leaves at the first one not yet due, so this rests on
\* the queue order, on the skip branch, and on a resent entry moving past
\* now_ms (line 191).  Together with ResendSchedule it is the resend
\* every 1, 2, 4, 4 rtt of an unacknowledged fragment.
ResendsFirst == pc = "pending" => \A d \in Fragments : ~ResendDue(d)

-----------------------------------------------------------------------------
(* Refinement of the fragment lifecycle (spec 4.5).  A fragment is New     *)
(* until its packet is admitted; Acknowledged once its ack bit is set;    *)
(* Skipped once the packet window has passed its packet; InFlight once a  *)
(* frame on the wire carried it; Pending otherwise.                       *)

Admitted(d) == d[1] \in DOMAIN packets /\ d \in FragmentsOf(d[1])

\* Indices of the frames handed to the callback that carried fragment d.
Carriers(d) == {i \in DOMAIN wire : d \in Range(wire[i].dgs)}

FragmentState ==
    [d \in Fragments |->
        CASE ~Admitted(d)    -> "new"
          [] d \in acked     -> "acked"
          [] ~Live(d[1])     -> "skipped"
          [] Carriers(d) # {} -> "inflight"
          [] OTHER           -> "pending"]

Lifecycle == INSTANCE FragmentLifecycle WITH
    fstate   <- FragmentState,
    reliable <- {d \in Fragments : Admitted(d) /\ packets[d[1]].mode = "Resend"},
    sends    <- [d \in Fragments |-> Cardinality(Carriers(d))]

\* emit_data_frames implements the fragment lifecycle: every frame carries
\* only fragments that are Pending, or InFlight of a Resend packet; no
\* fragment is sent after its ack bit is set (lines 174-177) or after its
\* packet left the window (lines 171, 194-196); fragments of Unreliable and
\* TimeSensitive packets are sent at most once (lines 229-233).
LifecycleRefined == Lifecycle!LcSpec

\* Every emit_data_frames call returns.
FlushTerminates == pc # "idle" ~> pc = "idle"
=============================================================================
