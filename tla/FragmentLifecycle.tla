--------------------------- MODULE FragmentLifecycle ---------------------------
(***************************************************************************)
(* What the send side promises about each fragment (spec section 4.5),    *)
(* independent of queues, frames and budgets.  A fragment is New until    *)
(* its packet is admitted, then Pending until it is first sent, then      *)
(* InFlight.  Acknowledged and Skipped are terminal.  A fragment is sent  *)
(* only while it is Pending, or again while it is InFlight when its      *)
(* packet is reliable (SendMode::Resend).  An acknowledged or skipped     *)
(* fragment is never sent again (spec 8.4, 8.5), and a fragment of an     *)
(* Unreliable or TimeSensitive packet is sent at most once.               *)
(*                                                                         *)
(* FrameEmitter refines this specification: see LifecycleRefined there.  *)
(***************************************************************************)
EXTENDS Naturals

CONSTANT Fragments

VARIABLES
    fstate,    \* fragment -> its lifecycle state
    reliable,  \* fragments of admitted Resend packets
    sends      \* fragment -> number of frames that carried it

States == {"new", "pending", "inflight", "acked", "skipped"}

LcTypeOK ==
    /\ fstate \in [Fragments -> States]
    /\ reliable \subseteq Fragments
    /\ sends \in [Fragments -> Nat]

LcInit ==
    /\ fstate = [f \in Fragments |-> "new"]
    /\ reliable = {}
    /\ sends = [f \in Fragments |-> 0]

\* Fragments that may be put on the wire now.
Sendable == {f \in Fragments : \/ fstate[f] = "pending"
                               \/ fstate[f] = "inflight" /\ f \in reliable}

\* The fragments F of one packet enter the pending state together.
Admit(F, r) ==
    /\ F # {}
    /\ \A f \in F : fstate[f] = "new"
    /\ fstate' = [f \in Fragments |-> IF f \in F THEN "pending" ELSE fstate[f]]
    /\ reliable' = IF r THEN reliable \cup F ELSE reliable
    /\ UNCHANGED sends

\* One frame carrying the fragments F goes out.
Send(F) ==
    /\ F # {}
    /\ F \subseteq Sendable
    /\ fstate' = [f \in Fragments |-> IF f \in F THEN "inflight" ELSE fstate[f]]
    /\ sends' = [f \in Fragments |-> IF f \in F THEN sends[f] + 1 ELSE sends[f]]
    /\ UNCHANGED reliable

\* The peer acknowledges fragments it received.
Ack(F) ==
    /\ F # {}
    /\ \A f \in F : fstate[f] \in {"inflight", "acked"}
    /\ fstate' = [f \in Fragments |-> IF f \in F THEN "acked" ELSE fstate[f]]
    /\ UNCHANGED <<reliable, sends>>

\* The packet window passes the packets of the fragments F.
Skip(F) ==
    /\ F # {}
    /\ \A f \in F : fstate[f] \in {"pending", "inflight"}
    /\ fstate' = [f \in Fragments |-> IF f \in F THEN "skipped" ELSE fstate[f]]
    /\ UNCHANGED <<reliable, sends>>

LcNext ==
    \E F \in SUBSET Fragments :
        \/ \E r \in BOOLEAN : Admit(F, r)
        \/ Send(F)
        \/ Ack(F)
        \/ Skip(F)

LcSpec == LcInit /\ [][LcNext]_<<fstate, reliable, sends>>
=============================================================================
