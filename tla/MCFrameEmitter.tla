---------------------------- MODULE MCFrameEmitter ----------------------------
(***************************************************************************)
(* Model-checking instance of FrameEmitter.  Sizes are scaled down while  *)
(* keeping the relations the code depends on: a full fragment fills a     *)
(* frame exactly (DATA_FRAME_OVERHEAD + 3 = MAX_FRAME_SIZE, as in test    *)
(* max_frame_size), two small datagrams share a frame, a small one after  *)
(* a full one forces a MAX_FRAME_SIZE split, and a budget of 5 bytes runs *)
(* out in the middle of a two-fragment packet.                            *)
(***************************************************************************)
EXTENDS FrameEmitter

MCShapes == {<<1>>, <<3, 1>>}
=============================================================================
