---------------------------- MODULE MCTranscoder ----------------------------
(***************************************************************************)
(* The composed pipeline for TLC.  MaxQueue is 0 instead of 100, so that   *)
(* the queues fill up; there are more frames than the decoder and the      *)
(* pipeline hold, and every interleaving of the two streams in the input   *)
(* file is explored.                                                       *)
(***************************************************************************)
EXTENDS Transcoder
=============================================================================
