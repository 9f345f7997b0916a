# TLA+ models of the porous send-side emission core

These modules model `src/src/endpoint/daten_meister/emit_frame.rs`. That file is the per-flush emission pipeline of porous's reliable datagram transport. The TLC configurations here check these models. `spec.md` describes the collaborators the file calls, which are the packet sender, the queues and the frame queue. Their sources are not in this snapshot, so the modules for them follow the contract in `spec.md` and are marked `spec_modelled` in `PROJECT.json`.

## 1. Inventory

### Components, their state and operations

| Component | State | Operations (code) | Module |
|---|---|---|---|
| Frame packer `DataFrameEmitter` (rs 21-139) | `in_progress_frame` (id, builder, fragment refs, nonce), `bytes_remaining`, `max_send_size`, `now_ms` | `push`, `push_initial`, `flush`, `total_size` | `DataFrameEmitter` |
| Data emitter `FrameEmitter::emit_data_frames` (rs 167-243) | none of its own: it drives the five queues | resend loop, pending loop with refill, final flush, early returns | `FrameEmitter` |
| Ack/sync emitter `emit_ack_frames`, `emit_sync_frame` (rs 245-318) | locals `bytes_remaining`, `frame_sent`, ack builder | ack loop with budget/MAX split, sync frame | `AckFrameEmitter` |
| Packet sender and pending packets (spec C1, C2) | send queue, packet window `[base, next)`, per-fragment ack bits | `enqueue_packet`, `emit_packet(flush_id)`, `acknowledge(base)` | `PacketSender` (spec-modelled) |
| Pending queue / resend queue (C5) | FIFO of `(ref, resend)`; priority queue of `(ref, resend_time, send_count)` | `push_back`, `front`, `pop_front`; `push`, `peek`, `pop` | `FrameEmitter` (spec-modelled helpers) |
| Frame queue (C3) | next id, window base, outstanding frames with their fragment refs, rate-limited flag | `can_push`, `next_id`, `push`, `mark_rate_limited`, `acknowledge_group` | `FrameQueue` (spec-modelled) |
| Frame-ack queue (C4) | FIFO of peer frame acknowledgements | `peek`, `pop`, push from the receive side | `FrameAckQueue` (spec-modelled) |
| Fragment lifecycle (spec 4.5) | per-fragment state New, Pending, InFlight, Acknowledged, Skipped | admit, send, ack, skip | `FragmentLifecycle` (abstract) |
| Unit tests (`mod tests`, rs 321-605) | the calls each test makes | `basic`, `max_frame_size`, `resend_timing`, `time_sensitive_drop`, `no_resend_after_packet_skip`, `no_resend_after_ack` | `EmitterTests` |

Not modelled: the wire codec (`frame::serial`, which is abstracted to encoded sizes), the socket layer, the receive pipeline, the RTT estimator and congestion control. All are out of the spec's scope. `now_ms`, `rtt_ms` and `max_send_size` are inputs chosen from small sets.

### Interaction

A flush is one synchronous call on the endpoint's thread. `emit_data_frames` first drains the resend queue in time order. It then drains the pending queue, refilling it from `PacketSender::emit_packet` when it is empty. Every sendable entry goes through `DataFrameEmitter::push`. That call may flush the open frame, which means registering it with the frame queue, charging it to the budget and handing it to the caller's callback. The first `Err`, either `SizeLimited` or `WindowLimited`, ends the call. Between flushes:
- the application enqueues packets;
- time advances;
- the peer's ack frames set fragment ack bits through `FrameQueue::acknowledge_group`;
- the peer advances the packet window, which kills the weak refs of queue entries, and the frame window.

Queue entries hold only weak references: a queue finds a released packet by its failed upgrade.

### What is hard here

- **Partial failure.** A flush can stop in the middle of either loop. Popped entries must already be in a frame that went out, and the failed entry must stay queued.
- **Ordering across flushes.** Entries outlive the flush that queued them. Acks and window advances land between flushes, on entries in either queue.
- **Timeouts and retries.** The resend time and `send_count` clamp give the 1, 2, 4, 4 rtt backoff.
- **Resource bounds.** Three limits meet here: the hard `MAX_FRAME_SIZE`, the soft byte budget, and the frame window. A `MAX_FRAME_SIZE` split has to re-check the other two.
- **Numeric edges.** `rtt_ms = 0`, and an empty ack frame forced by `min_one`.

### Properties that make each component correct

- **Packer:** frames are at most `MAX_FRAME_SIZE`, the total is within the budget, the return value equals the bytes emitted, and each frame is registered once under its header id inside the window.
- **Data emitter:**
  - Resend fragments stay queued until they are acknowledged or released.
  - No flush packs a fragment twice.
  - Each fragment follows the lifecycle of spec 4.5. An acknowledged or skipped fragment is never sent again. A fragment of an Unreliable or TimeSensitive packet is sent at most once.
  - The backoff schedule is followed.
  - Resends come before new data: a flush reaches the pending queue only after every due resend went out.
  - Under a caller that keeps flushing and a peer that keeps its frame window moving, a due resend is eventually made and new data is eventually sent.
  - TimeSensitive fragments are never sent under another flush id.
  - Every call returns.
- **Ack emitter:**
  - Acks are conserved, in order, without loss or duplication.
  - Frames respect the budget and the size limit.
  - Each call emits exactly the greedy packing of spec 4.3, including the empty frame `min_one` forces.

## 2. Plan

1. `PacketSender`, `FrameQueue` and `DataFrameEmitter`, composed by `FrameEmitter`, with `MCFrameEmitter`. This is the data path, the core of the system. Done in the first sitting.
2. `FrameAckQueue` and `AckFrameEmitter`, with `MCAckFrameEmitter`. Done.
3. Added in the second sitting:
   - `FlushDistinct` and the `rtt_ms = 0` run.
   - The abstract `FragmentLifecycle` and the refinement `LifecycleRefined`.
   - `EmitterTests`, which replays the unit tests.
   - For the test replay, `flush_id` and `now_ms` became inputs of `EmitDataFrames`, as they are inputs of the code. The caller's flush id changes only through the environment action `NextFlushId`. `calls` counts the calls.
4. Added in the third sitting:
   - `ResendsFirst`.
   - The ack packing reference `AckPacking`, with `AckPackingMatches`.
5. Added in the fourth sitting:
   - `MCResendProgress` with `ResendProgress` and `DataProgress`, with the call counter abstracted so that liveness can be checked over unboundedly many calls.
6. Not pursued:
   - A call-level abstraction in which one step performs a whole `emit_data_frames` call. Stating which frames a call emits without the loop would restate the loop: the MAX_FRAME_SIZE split, the budget and the window all interact. `FragmentLifecycle` is the abstraction this code promises, and the ack path has its own reference, `AckPacking`.
   - Symmetry, which is not sound here because packet and frame ids are ordered.

## 3. Modules and correspondence

- `PacketSender` (spec-modelled).
  - `sendQueue` holds packets stamped with the flush id at enqueue time. `packets` holds admitted packets with their datagram sizes.
  - `[psBase, psNext)` is the window. `Live(p)` is the weak upgrade succeeding. `acked` holds the fragment ack bits.
  - `EmitPacketSome` and `EmitPacketNone` are the two outcomes of `emit_packet`, including the TimeSensitive drop done by `DropStale`.
- `FrameQueue` (spec-modelled). `fqNext`, `fqBase`, `fqSent` and `rateLimited` are the frame queue's state. `AcknowledgeGroup(S)` is a peer acknowledging frames it received. `rateLimited` is set by the packer's `mark_rate_limited` calls and is never cleared by `emit_data_frames`, which does not touch it at entry. The fragment refs recorded in `fqSent` are the code's `FragmentRef`, which holds a `Weak` (rs 205): an acknowledgement sets ack bits only on packets that are still `Live`. Spec §3 says frame-queue slots keep packet memory alive. The model follows the code, as does the test `no_resend_after_packet_skip`. `AdvanceFrameWindow(b)` is the peer's frame window base moving on.
- `DataFrameEmitter`. `Push`, `PushInitial` and `FlushFrame` translate rs 54-134 as pure operators over a record `s`. The result `[ok, s]` stands for `Result<(), EmitError>`. A frame is its id, its size, its refs, which are recorded only when `persistent`, and its datagrams.
- `FrameEmitter`. `pc` is the loop the call is in.
  - The resend loop has five branches, rs 170-197: `ResendDrained`, `ResendSkip`, `ResendNotDue`, `ResendSend` and `ResendLimited`.
  - The pending loop, rs 199-239, maps to `PendingAdmit`, `PendingExhausted`, `PendingSkip`, `PendingSend` and `PendingLimited`. `PendingExhausted` includes the final `dfe.flush()` at rs 241.
  - `PendingSkip` keeps the code's `resend_queue.pop()`.
  - `wire` is the callback's output. Each frame is labelled with the flush id and the call number that emitted it. `lastSend` is a ghost history of sends, used by `ResendSchedule`.
  - `EmitDataFrames(t, max, r, fid)` is the call, with the code's arguments `now_ms`, `max_send_size`, `rtt_ms` and `flush_id`. In `Next` the caller passes the current clock and its current flush id. `NextFlushId` is the caller moving on to a new flush id. Enqueues are stamped with the caller's current id.
  - The refinement mapping at the end of the module gives each fragment its lifecycle state:
    - New until its packet is admitted.
    - Acknowledged once its ack bit is set.
    - Skipped once its packet left the window.
    - InFlight once a frame on the wire carried it.
    - Pending otherwise.

    The abstract `sends` counter is the number of frames that carried the fragment.
- `FragmentLifecycle` is the abstract specification of spec 4.5. It has no queues, frames or budgets. `Send(F)` is one frame carrying the fragments `F`. `Admit`, `Ack` and `Skip` are the other lifecycle steps.
- `EmitterTests` replays each test as a script of commands, for example `EnqueueCmd` and `FlushCmd`, with the test's expected frames:
  - `RunFlush` is `test_emit_data_frames`.
  - `Exactly` is `test_data_frame`.
  - `TestAssertions` is every `assert_eq!` of the tests.
  - `Finished` lets the script end. Deadlock checking stays on, so a script that cannot run to its end is an error.
- `MCResendProgress` instantiates `FrameEmitter` for `ResendProgress`, adding the strongly fair caller and peer and the model-only `CollectCalls` step.
- `AckFrameEmitter`. `EmitAckFrames` is the entry and its early `return 0`. The loop's three branches are `AckBudgetExhausted`, `AckFrameFull` and `AckAdd`. `AckDrained` is the tail. `EmitSyncFrame` is `emit_sync_frame`.
  - `AckPacking(q, max, one)` is a reference for what one call emits, written from spec 4.3 and not from the loop. It takes the longest prefix of the queue whose greedy split fits the budget. `GreedySplit`, a `RECURSIVE` operator, splits that prefix into frames as full as `MAX_FRAME_SIZE` allows.
  - `AckPackingMatches` compares the reference with the stepwise loop at every return. The queue the call started with is rebuilt as what the call sent followed by what it left, so no ghost variable is needed.

## 4. Runs

| Run | cfg | Expect | Checks |
|---|---|---|---|
| `emitter_safety` | `MCFrameEmitter.cfg` | pass | `TypeOK`, `ReliableCoverage`, `ResendSchedule`, `FlushWithinBudget`, `FramesRegistered`, `FlushDistinct`, `ResendsFirst`; about 5.4M states |
| `emitter_lifecycle` | `MCFrameEmitter_lifecycle.cfg` | pass | `LifecycleRefined`: `FrameEmitter` implements `FragmentLifecycle` |
| `emitter_rtt0` | `MCFrameEmitter_rtt0.cfg` | violation | `FlushDistinct` with `rtt_ms = 0` |
| `emitter_tests` | `EmitterTests.cfg` | pass | `TestAssertions` on all six active unit tests |
| `emitter_liveness` | `MCFrameEmitter_live.cfg` | pass | `FlushTerminates` with an honest peer |
| `emitter_hang` | `MCFrameEmitter_hang.cfg` | violation | `FlushTerminates` with a peer that skips a packet whose fragments are still pending |
| `timesensitive_drop` | `MCFrameEmitter_ts.cfg` | violation | `TimeSensitiveDrop` (spec 8.7) |
| `resend_progress` | `MCResendProgress.cfg` | pass | `ResendProgress`, `DataProgress`: a due resend is eventually made and new data is eventually sent, over unboundedly many calls |
| `ack_safety` | `MCAckFrameEmitter.cfg` | pass | `TypeOK`, `AckConservation`, `AckBudget`, `AckPackingMatches` |

### Findings

- **`emitter_hang`.** A pending entry whose packet was released makes the loop at rs 215 pop the resend queue (rs 220/235) and `continue` without removing the pending head. The call never returns. TLC shows the trace:
  1. A packet is admitted.
  2. The budget stops the flush before its fragments go out.
  3. The peer advances the packet window past the packet.
  4. The next flush spins.

  This needs a peer that acknowledges a packet it never fully received, for example a faulty or hostile one. With an honest peer, `emitter_liveness` passes.
- **`emitter_rtt0`.** With `rtt_ms = 0` the entry just resent is rescheduled at `now_ms` (rs 191). The resend loop peeks it again at once and packs the same datagram again. This repeats until the budget or the frame window stops the flush, so every later flush spends its budget on duplicates and never reaches the pending queue. The spec puts no lower bound on `rtt_ms`.
- **`timesensitive_drop`.** A two-fragment TimeSensitive packet whose second fragment does not fit the budget is finished by the next flush, under a new flush id. The flush id is only checked at admission in the packet sender. Spec 8.7 says such fragments are dropped without being sent.

### Bounds and why they are enough

**Data path (`MCFrameEmitter`).**
- `MAX_FRAME_SIZE = 4`, `DATA_FRAME_OVERHEAD = 1`.
- Packets are `<<1>>` (small) or `<<3, 1>>` (a full fragment and a small one). A full fragment fills a frame, as in test `max_frame_size`. Two small datagrams share a frame. A small one after a full one forces the `MAX_FRAME_SIZE` split.
- Budgets of 2 and 5:
  - With 2, a second small datagram hits the soft budget while a frame is open.
  - With 5, the budget runs out inside a two-fragment packet.
- 2 packets, a packet window of 2 and a frame window of 2 let a full window stop a flush.
- Time runs 0..3 with rtt 1. This reaches sends at 0, 1 and 3, so a fragment's resend entry has counts 1 and 2 and intervals 1, 2 and 4 rtt.
- There are 3 flushes, so entries outlive a flush twice.
- In `emitter_safety` and `timesensitive_drop` the caller may move from flush id 0 to 1 once. The other runs keep flush id 0, which keeps the temporal checks under two minutes.
- `emitter_lifecycle` stops time at 2. A fragment is still resent at time 1, after an ack or a skip may have arrived, which is the case the refinement is about.
- All three modes are enumerated.

**Tests.** `EmitterTests.cfg` uses the tests' own values where they matter:
- `rtt_ms = 100`;
- budgets of 10000 and `MAX_FRAME_SIZE`;
- times up to 2301;
- 5 packets.

Payload sizes are scaled so that a `MAX_FRAGMENT_SIZE` datagram fills a frame exactly, as `max_frame_size` asserts. The frame and packet windows are 16, enough for the 8 unacknowledged frames of `resend_timing`.

**Resend progress (`MCResendProgress`).**
- One `<<3, 1>>` packet: its two fragments share a resend time, so the queue has ties.
- Budgets of 2 and 5: a budget of 2 cannot fit the full fragment, so calls with it fail `SizeLimited` before the resend.
- A frame window of 2 fills after one packet and its resend.
- Time runs 0..3, which reaches resend intervals of 1 and 2 rtt.
- Two packets with this unbounded number of calls take over 2 million states even with time 0..1, too many for the liveness check.

**Ack path.**
- The frame holds 4 bytes and the header takes 2. Acks are 1 or 2 bytes.
- There are 4 acks and budgets of 1, 3 and 7. This covers a budget below an empty frame, one that runs out mid-frame, and one that spans a `MAX_FRAME_SIZE` split.

### Fairness

`emit_data_frames` and `emit_ack_frames` are synchronous, non-re-entrant calls on one thread. Once entered they keep running, so the emitter steps get weak fairness. The environment gets none: the application, the clock and the peer may stop at any time. `CHECK_DEADLOCK FALSE` is set because behaviours end when the enqueue, time and flush bounds are used up. The emitter's own progress is checked by `FlushTerminates` instead.

`resend_progress` (module `MCResendProgress`) checks `ResendProgress`: every due resend of a live, unacknowledged fragment is eventually made. Whether that happens depends on the caller and the peer, not on `emit_frame.rs`, so this run assumes strong fairness for two steps:
- the caller flushing with the largest budget, which any frame fits in;
- the peer moving its frame window.

Strong fairness is needed because each step is only intermittently enabled. Both need `pc = "idle"`, and each disables the other for a while. With either assumption weakened or removed, TLC finds a counterexample. The clock, enqueues and acks stay unfair, so time may stop for good with a resend due.

The number of calls is unbounded in the system. A bound on it would end every fair behaviour and make any "eventually" hold trivially. An earlier attempt with such a bound passed a mutant that never resends. So `MCResendProgress` abstracts the call counter, as in the FiniteMonotonic example, instead of cutting the state space off:
- at `MaxFlushes`, the model-only step `CollectCalls` merges the labels of the two oldest calls;
- it moves the counter back;
- it is weakly fair.

Call labels are a ghost of the model, and `ResendProgress` does not read them. Everything else is bounded by time, the packet and the windows, so the graph is finite and every fair behaviour is infinite.

`ResendsFirst` states the per-flush half: every call that reaches new data has served every due resend.

The same run checks `DataProgress`, the other side of resends going first. Every enqueued packet is eventually taken up, and its pending fragments are sent unless the packet is released. New data is not starved by resends, because a resent entry moves past the clock.

## 5. Not modelled

- The random nonce and its XOR check. The peer modelled only acknowledges frames it received, for which the check passes. Spoofed acks belong to `frame_queue.rs`, which is not in this snapshot.
- Channel and window parent leads.
- Frame and datagram byte layouts.
- RTT samples.
- The commented-out test `size_limited_flag` (rs 607-676) is not replayed.
- The `debug_assert` at rs 295 and the model's assumption that an ack entry fits an empty frame (`ASSUME` in `MCAckFrameEmitter`). Entry sizes come from `frame::serial`, which is not in this snapshot. Under that assumption the assert cannot fire, so no property is stated about it.
- Tie order among resend entries with equal times is left nondeterministic, as a `BinaryHeap` leaves it unspecified.
