---------------------------- MODULE MCMediaFifo ----------------------------
(* The media FIFO of MediaFifo with room for five words, fed in blocks of  *)
(* eight bytes or at once; the last block of the file is shorter.          *)
EXTENDS MediaFifo

AllCallers == {"frame", "video", "direct"}
=============================================================================
