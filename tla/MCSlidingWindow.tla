--------------------------- MODULE MCSlidingWindow ---------------------------
(***************************************************************************)
(* Two integers of three bits: jumps by less than, exactly, and more than   *)
(* one integer, and by up to the whole window, all fit below MaxSeq.        *)
(***************************************************************************)
EXTENDS SlidingWindow

MaxSeq == 15
MCSeqNums == 0 .. MaxSeq
=============================================================================
