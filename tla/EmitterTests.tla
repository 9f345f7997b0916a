----------------------------- MODULE EmitterTests -----------------------------
(***************************************************************************)
(* The unit tests of emit_frame.rs (mod tests, lines 321-605) replayed on *)
(* the FrameEmitter model.  Each test is a script of the calls it makes:  *)
(* enqueue_packet, emit_data_frames (through test_emit_data_frames),      *)
(* PacketSender::acknowledge and FrameQueue::acknowledge_group.  The      *)
(* model runs each emit_data_frames call to completion before the next    *)
(* command, and TestAssertions states the test's assert_eq!s on the       *)
(* frames each call emitted.  Payload bytes are abstracted as in the      *)
(* model: a datagram is its <<sequence id, fragment id>>, and the         *)
(* constants of the cfg keep the size relations the tests rely on (a      *)
(* MAX_FRAGMENT_SIZE datagram fills a frame exactly, a 3-byte and a       *)
(* 400-byte packet fit in one).  The commented-out test size_limited_flag *)
(* (lines 607-676) is not replayed.                                       *)
(***************************************************************************)
EXTENDS FrameEmitter, SequencesExt

VARIABLES
    script,   \* the commands of the test being replayed
    step      \* index of the next command

testVars == <<script, step>>

-----------------------------------------------------------------------------
(* Commands and expectations.                                               *)

EnqueueCmd(mode, sizes, fid) ==
    [op |-> "enqueue", mode |-> mode, sizes |-> sizes, fid |-> fid]

\* test_emit_data_frames(.., fid, now_ms, rtt_ms, max_send_size) and the
\* frames the test asserts it returns.
FlushCmd(t, r, max, fid, expect) ==
    [op |-> "flush", now |-> t, rtt |-> r, max |-> max, fid |-> fid, expect |-> expect]

AckPacketsCmd(b) == [op |-> "ackPackets", base |-> b]

AckFramesCmd(ids) == [op |-> "ackFrames", ids |-> ids]

\* Only the number of frames is asserted.
Count(n) == [count |-> n, checked |-> FALSE, frames |-> <<>>, full |-> FALSE]

\* test_data_frame: the frames' sequence ids and datagrams are asserted, and
\* with full their length equals MAX_FRAME_SIZE.
Exactly(fs, full) == [count |-> Len(fs), checked |-> TRUE, frames |-> fs, full |-> full]

DF(id, dgs) == [id |-> id, dgs |-> dgs]

-----------------------------------------------------------------------------
(* The tests.  Shapes: <<1>> a 3-byte packet, <<2>> a 400-byte packet,     *)
(* <<3>> a MAX_FRAGMENT_SIZE packet, <<3, 3>> a 2*MAX_FRAGMENT_SIZE one.   *)

TestShapes == {<<1>>, <<2>>, <<3>>, <<3, 3>>}

TestBasic ==
    << EnqueueCmd("Unreliable", <<1>>, 0),
       FlushCmd(0, 100, 10000, 0, Exactly(<< DF(0, << <<0, 0>> >>) >>, FALSE)) >>

TestMaxFrameSize ==
    << EnqueueCmd("Unreliable", <<3, 3>>, 0),
       FlushCmd(0, 100, 10000, 0,
                Exactly(<< DF(0, << <<0, 0>> >>), DF(1, << <<0, 1>> >>) >>, TRUE)) >>

\* Flushes at t - 1, t and t + 1 around each expected resend time t.
ResendTimes == << 100, 300, 700, 1100, 1500, 1900, 2300 >>

AroundResend(t) ==
    << FlushCmd(t - 1, 100, MAX_FRAME_SIZE, 0, Count(0)),
       FlushCmd(t,     100, MAX_FRAME_SIZE, 0, Count(1)),
       FlushCmd(t + 1, 100, MAX_FRAME_SIZE, 0, Count(0)) >>

TestResendTiming ==
    << EnqueueCmd("Resend", <<2>>, 0),
       FlushCmd(0, 100, MAX_FRAME_SIZE, 0, Count(1)),
       FlushCmd(1, 100, MAX_FRAME_SIZE, 0, Count(0)) >>
    \o FlattenSeq([i \in DOMAIN ResendTimes |-> AroundResend(ResendTimes[i])])

TestTimeSensitiveDrop ==
    << EnqueueCmd("TimeSensitive", <<1>>, 0),
       EnqueueCmd("Unreliable", <<1>>, 0),
       FlushCmd(0, 100, 10000, 1, Exactly(<< DF(0, << <<0, 0>> >>) >>, FALSE)) >>

FiveResendPackets == [i \in 1 .. 5 |-> EnqueueCmd("Resend", <<3>>, 0)]

TestNoResendAfterPacketSkip ==
    FiveResendPackets \o
    << FlushCmd(0, 100, 10000, 0, Count(5)),
       AckPacketsCmd(4),
       FlushCmd(100, 100, 10000, 0, Exactly(<< DF(5, << <<4, 0>> >>) >>, FALSE)) >>

\* The bitfield 0b11101 acknowledges frames 0, 2, 3 and 4; the nonce XOR of
\* those frames is what get_data_frame_nonce reads, so the check passes.
TestNoResendAfterAck ==
    FiveResendPackets \o
    << FlushCmd(0, 100, 10000, 0, Count(5)),
       AckFramesCmd({0, 2, 3, 4}),
       FlushCmd(100, 100, 10000, 0, Exactly(<< DF(5, << <<1, 0>> >>) >>, FALSE)) >>

Tests == {TestBasic, TestMaxFrameSize, TestResendTiming, TestTimeSensitiveDrop,
          TestNoResendAfterPacketSkip, TestNoResendAfterAck}

-----------------------------------------------------------------------------
(* Replaying a script.                                                      *)

RunEnqueue(c) ==
    /\ EnqueuePacket(c.mode, c.sizes, c.fid)
    /\ UNCHANGED <<fqVars, emVars>>

RunFlush(c) == EmitDataFrames(c.now, c.max, c.rtt, c.fid)

RunAckPackets(c) ==
    /\ Acknowledge(c.base)
    /\ UNCHANGED <<fqVars, emVars>>

RunAckFrames(c) ==
    /\ AcknowledgeGroup(c.ids)
    /\ UNCHANGED emVars

\* The test's next statement, once the previous call has returned.
Command ==
    /\ pc = "idle"
    /\ step <= Len(script)
    /\ step' = step + 1
    /\ UNCHANGED script
    /\ LET c == script[step] IN
       \/ c.op = "enqueue"    /\ RunEnqueue(c)
       \/ c.op = "flush"      /\ RunFlush(c)
       \/ c.op = "ackPackets" /\ RunAckPackets(c)
       \/ c.op = "ackFrames"  /\ RunAckFrames(c)

\* The test function has returned.
Finished ==
    /\ pc = "idle"
    /\ step > Len(script)
    /\ UNCHANGED <<vars, testVars>>

TestInit ==
    /\ Init
    /\ script \in Tests
    /\ step = 1

TestNext ==
    \/ Command
    \/ EmitterStep /\ UNCHANGED testVars
    \/ Finished

TestSpec == TestInit /\ [][TestNext]_<<vars, testVars>>

-----------------------------------------------------------------------------
(* The test assertions.                                                     *)

FlushCmds == SelectSeq(script, LAMBDA c : c.op = "flush")

\* The frames the callback received during call k (counted from 0).
CallFrames(k) == SelectSeq(wire, LAMBDA f : f.call = k)

\* Every assert_eq! of the tests holds: each emit_data_frames call that has
\* returned emitted the asserted number of frames and, where the test
\* decodes them, the asserted sequence ids, datagrams and lengths.  This
\* replays scenarios S1-S6 of spec section 8 on the model of lines 167-243.
TestAssertions ==
    \A k \in 1 .. calls :
        LET e  == FlushCmds[k].expect
            fs == CallFrames(k - 1)
        IN /\ Len(fs) = e.count
           /\ e.checked => [i \in DOMAIN fs |-> DF(fs[i].id, fs[i].dgs)] = e.frames
           /\ e.full => \A i \in DOMAIN fs : fs[i].size = MAX_FRAME_SIZE
=============================================================================
