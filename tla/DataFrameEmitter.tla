--------------------------- MODULE DataFrameEmitter ---------------------------
(***************************************************************************)
(* The frame packer (struct DataFrameEmitter, emit_frame.rs lines 21-139). *)
(* It keeps at most one in-progress data frame and packs datagrams into   *)
(* it under the hard MAX_FRAME_SIZE and the soft per-flush byte budget.   *)
(*                                                                         *)
(* The packer runs inside one emitter step, so it is written as pure      *)
(* operators over a record s that holds its own state and the part of the *)
(* frame queue it touches:                                                 *)
(*   s.ip         the in-progress frame, or NoFrame                       *)
(*   s.remaining  bytes_remaining                                          *)
(*   s.base, s.next, s.sent, s.limited   the frame queue                  *)
(*   s.wire       frames handed to the callback, in order                 *)
(*   s.fid, s.call  the flush id and the call number, which only label  *)
(*                the frames on s.wire                                     *)
(* A datagram is the fragment <<sequence id, fragment id>> it carries; its *)
(* bytes are abstracted to its encoded size.  The random nonce is left    *)
(* out: the peer modelled in FrameQueue acknowledges received frames only,*)
(* for which the nonce check always passes.                               *)
(***************************************************************************)
EXTENDS FrameQueue

CONSTANTS
    MAX_FRAME_SIZE,       \* hard wire limit of a frame
    DATA_FRAME_OVERHEAD   \* header bytes of a data frame

\* Option::None for the in-progress frame.
NoFrame == [none |-> TRUE]

\* An in-progress frame: its id, encoded size, the fragment refs recorded
\* for ack reconciliation and the datagrams it carries.
NewFrame(id, d, size, persistent) ==
    [id |-> id, size |-> DATA_FRAME_OVERHEAD + size,
     refs |-> IF persistent THEN {d} ELSE {}, dgs |-> <<d>>]

\* DataFrameEmitter::flush: the in-progress frame is built, registered with
\* the frame queue, subtracted from the budget and handed to the callback.
FlushFrame(s) ==
    IF s.ip = NoFrame THEN s
    ELSE LET f == s.ip IN
         [FqPush(s, f.refs) EXCEPT
            !.ip = NoFrame,
            !.remaining = s.remaining - f.size,
            !.wire = Append(s.wire, [id |-> f.id, dgs |-> f.dgs,
                                     size |-> f.size, fid |-> s.fid,
                                     call |-> s.call])]

\* Variant of push_initial without the frame window check.
PushInitialNoWindow(s, d, size, persistent) ==
    IF DATA_FRAME_OVERHEAD + size > s.remaining
    THEN [ok |-> FALSE, s |-> [s EXCEPT !.limited = TRUE]]
    ELSE [ok |-> TRUE, s |-> [s EXCEPT !.ip = NewFrame(s.next, d, size, persistent)]]

\* DataFrameEmitter::push_initial: open a fresh frame for datagram d.
\* Result: [ok, s]; ok = FALSE is WindowLimited or SizeLimited.
PushInitial(s, d, size, persistent) ==
    CASE ~CanPush(s) ->
            [ok |-> FALSE, s |-> s]
      [] DATA_FRAME_OVERHEAD + size > s.remaining ->
            [ok |-> FALSE, s |-> [s EXCEPT !.limited = TRUE]]
      [] OTHER ->
            [ok |-> TRUE, s |-> [s EXCEPT !.ip = NewFrame(s.next, d, size, persistent)]]

\* Variant of push without the soft budget check on an open frame.
PushIgnoringBudget(s, d, size, persistent) ==
    IF s.ip = NoFrame THEN PushInitial(s, d, size, persistent)
    ELSE LET potential == s.ip.size + size IN
         IF potential > MAX_FRAME_SIZE
         THEN PushInitial(FlushFrame(s), d, size, persistent)
         ELSE [ok |-> TRUE,
               s |-> [s EXCEPT !.ip = [@ EXCEPT
                         !.size = potential,
                         !.refs = IF persistent THEN @ \cup {d} ELSE @,
                         !.dgs = Append(@, d)]]]

\* DataFrameEmitter::push: append d to the in-progress frame, or close it
\* and start a new one when d would exceed MAX_FRAME_SIZE, or close it and
\* fail when d would exceed the remaining budget.
Push(s, d, size, persistent) ==
    IF s.ip = NoFrame THEN PushInitial(s, d, size, persistent)
    ELSE LET potential == s.ip.size + size IN
         CASE potential > MAX_FRAME_SIZE ->
                 PushInitial(FlushFrame(s), d, size, persistent)
           [] potential > s.remaining ->
                 [ok |-> FALSE, s |-> [FlushFrame(s) EXCEPT !.limited = TRUE]]
           [] OTHER ->
                 [ok |-> TRUE,
                  s |-> [s EXCEPT !.ip = [@ EXCEPT
                            !.size = potential,
                            !.refs = IF persistent THEN @ \cup {d} ELSE @,
                            !.dgs = Append(@, d)]]]

\* DataFrameEmitter::total_size: bytes emitted so far in this flush.
TotalSize(maxSendSize, s) == maxSendSize - s.remaining
=============================================================================
