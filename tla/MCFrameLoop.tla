---------------------------- MODULE MCFrameLoop ----------------------------
(* The frame loop of FrameLoop with a command FIFO shorter than a frame.   *)
EXTENDS FrameLoop
=============================================================================
