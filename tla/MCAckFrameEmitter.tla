--------------------------- MODULE MCAckFrameEmitter ---------------------------
(***************************************************************************)
(* Model-checking instance of AckFrameEmitter.  With a 4-byte frame and a *)
(* 2-byte header, two 1-byte acknowledgements fill a frame and a third    *)
(* forces the MAX_FRAME_SIZE branch; budgets of 1, 3 and 7 bytes cover a *)
(* budget below the empty frame, one that runs out mid-frame, and one     *)
(* that spans two frames.                                                 *)
(***************************************************************************)
EXTENDS AckFrameEmitter

ASSUME ACK_FRAME_HEADER + Max(AckSizes) <= MAX_FRAME_SIZE
=============================================================================
