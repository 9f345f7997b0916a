---------------------------- MODULE PacketSender ----------------------------
(***************************************************************************)
(* The packet sender and pending-packet store (spec components C1, C2).   *)
(* Their code (packet_sender.rs, pending_packet.rs) is not part of the    *)
(* sources modelled here, so this module follows the contract spec.md     *)
(* gives for them (sections 3, 6 and 9).                                   *)
(*                                                                         *)
(* A packet is admitted by emit_packet: it gets the next sequence id and  *)
(* enters the packet window [psBase, psNext).  A packet is alive exactly  *)
(* while it is in that window: once the window base passes it, the        *)
(* sender drops its strong reference and every weak reference held by a   *)
(* queue entry fails to upgrade.  Fragment acknowledgement bits live in   *)
(* the packet (acked).  The payload is abstracted to the encoded size of  *)
(* each fragment's datagram.                                               *)
(***************************************************************************)
EXTENDS Naturals, Sequences, FiniteSetsExt, TLC

CONSTANTS
    Shapes,          \* possible packets: sequences of datagram encoded sizes, one per fragment
    PACKET_WINDOW,   \* the packet window of the sender
    MaxPackets       \* bound: packets the application enqueues in a behaviour

Modes == {"Unreliable", "Resend", "TimeSensitive"}

VARIABLES
    sendQueue,   \* packets enqueued by the application and not yet admitted
    packets,     \* sequence id -> [mode, sizes, fid] of every admitted packet
    psBase,      \* packet window base: packets below it have been skipped or acknowledged
    psNext,      \* next sequence id to assign
    acked,       \* fragment acknowledgement bits: set of <<sequence id, fragment id>>
    enqueued     \* number of enqueue calls so far (bounded by MaxPackets)

psVars == <<sendQueue, packets, psBase, psNext, acked, enqueued>>

MaxFragments == Max({Len(s) : s \in Shapes})

SeqIds == 0 .. MaxPackets - 1
Fragments == SeqIds \X (0 .. MaxFragments - 1)

\* The fragments of admitted packet p, in fragment order.
FragmentsOf(p) == {<<p, i - 1>> : i \in DOMAIN packets[p].sizes}

\* Resolving the weak reference of a queue entry: the packet is alive.
Live(p) == psBase <= p /\ p < psNext

\* Encoded size of the datagram that carries fragment d.
DatagramSize(d) == packets[d[1]].sizes[d[2] + 1]

PsInit ==
    /\ sendQueue = <<>>
    /\ packets = <<>>
    /\ psBase = 0
    /\ psNext = 0
    /\ acked = {}
    /\ enqueued = 0

\* PacketSender::enqueue_packet: the packet is stamped with the current
\* flush id, which gates TimeSensitive packets.
EnqueuePacket(mode, sizes, fid) ==
    /\ enqueued < MaxPackets
    /\ sendQueue' = Append(sendQueue, [mode |-> mode, sizes |-> sizes, fid |-> fid])
    /\ enqueued' = enqueued + 1
    /\ UNCHANGED <<packets, psBase, psNext, acked>>

\* The queue after emit_packet(fid) has dropped the TimeSensitive packets at
\* its head that were enqueued under another flush id.
RECURSIVE DropStale(_, _)
DropStale(q, fid) ==
    IF q # <<>> /\ Head(q).mode = "TimeSensitive" /\ Head(q).fid # fid
    THEN DropStale(Tail(q), fid)
    ELSE q

WindowFull == psNext - psBase >= PACKET_WINDOW

\* emit_packet(fid) returns Some(packet): the head packet that survives the
\* TimeSensitive drop is admitted under sequence id psNext.
EmitPacketSome(fid) ==
    LET q == DropStale(sendQueue, fid) IN
    /\ ~WindowFull
    /\ q # <<>>
    /\ sendQueue' = Tail(q)
    /\ packets' = packets @@ (psNext :> Head(q))
    /\ psNext' = psNext + 1
    /\ UNCHANGED <<psBase, acked, enqueued>>

\* emit_packet(fid) returns None: the window is saturated or nothing
\* admissible is queued (stale TimeSensitive packets are dropped meanwhile).
EmitPacketNone(fid) ==
    \/ /\ WindowFull
       /\ UNCHANGED psVars
    \/ /\ ~WindowFull
       /\ DropStale(sendQueue, fid) = <<>>
       /\ sendQueue' = <<>>
       /\ UNCHANGED <<packets, psBase, psNext, acked, enqueued>>

\* PacketSender::acknowledge(b): the peer reports its packet window base b;
\* every packet below b is released and its weak references die.
Acknowledge(b) ==
    /\ psBase < b /\ b <= psNext
    /\ psBase' = b
    /\ UNCHANGED <<sendQueue, packets, psNext, acked, enqueued>>
=============================================================================
