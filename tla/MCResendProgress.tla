--------------------------- MODULE MCResendProgress ---------------------------
(***************************************************************************)
(* Model-checking instance of FrameEmitter for retransmission progress.   *)
(* The number of emit_data_frames calls is unbounded in the system, and a *)
(* bound on it would end every fair behaviour, so instead of cutting the  *)
(* state space off, the call counter is abstracted: once it reaches       *)
(* MaxFlushes, the step CollectCalls folds the frames of the two oldest   *)
(* calls under one label and moves the counter back.  Call labels are a   *)
(* ghost of the model (the code has no call counter), and the property   *)
(* checked here does not read them.  Everything else of the model is      *)
(* bounded by time, packets and the windows.                              *)
(***************************************************************************)
EXTENDS FrameEmitter

MCShapes == {<<1>>, <<3, 1>>}

\* Model-only: the labels of calls 0 and 1 are merged.
CollectCalls ==
    /\ pc = "idle"
    /\ calls = MaxFlushes
    /\ calls' = calls - 1
    /\ wire' = [i \in DOMAIN wire |-> [wire[i] EXCEPT !.call = IF @ > 0 THEN @ - 1 ELSE 0]]
    /\ UNCHANGED <<psVars, fqVars>>
    /\ UNCHANGED <<pendingQ, resendQ, pc, now, rtt, flushId, maxSendSize,
                   bytesRemaining, inProgress, bytesEmitted, lastSend>>

(* Whether a resend happens depends on the caller and the peer, not on      *)
(* emit_frame.rs: the endpoint must keep calling emit_data_frames with a    *)
(* budget a frame fits in, and the peer must keep its frame window moving,  *)
(* or every push fails WindowLimited.  Each is only intermittently enabled  *)
(* (both need pc = "idle" and each disables the other for a while), so     *)
(* both are assumed strongly fair.  A call, once entered, keeps running.    *)
(* Enqueues, acks and the clock are not fair: time may stop for good.       *)
ProgressFairness ==
    /\ WF_vars(EmitterStep)
    /\ SF_vars(\E r \in Rtts : EmitDataFrames(now, Max(Budgets), r, flushId))
    /\ SF_vars(\E b \in fqBase + 1 .. fqNext : AdvanceFrames(b))
    /\ WF_vars(CollectCalls)

ProgressSpec == Init /\ [][Next \/ CollectCalls]_vars /\ ProgressFairness

\* A due resend is eventually made.  A fragment of a live packet that the
\* peer has not acknowledged and whose resend time has come stops being due:
\* it is sent again and rescheduled after now_ms (lines 188-192), or it is
\* acknowledged or released.  The resend loop serves only the earliest
\* entry and stops at the first failed push (line 187), so this needs the
\* queue order, the skip branches and the rescheduling to agree, across as
\* many calls as the budget and the frame window make it take.
ResendProgress == \A d \in Fragments : ResendDue(d) ~> ~ResendDue(d)

\* New data is not starved by resends: a packet the application enqueued is
\* eventually taken up and every fragment of it that is still pending is
\* sent, unless its packet is released.  Every call serves the resend queue
\* first (lines 170-197) and may spend its whole budget there, so this needs
\* resends to fall behind the clock as they back off (line 191).
DataProgress ==
    sendQueue # <<>> \/ pendingQ # <<>>
        ~> sendQueue = <<>> /\ \A i \in DOMAIN pendingQ : ~Live(pendingQ[i].d[1])
=============================================================================
