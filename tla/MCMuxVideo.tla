----------------------------- MODULE MCMuxVideo -----------------------------
(***************************************************************************)
(* write_video_frame for TLC: every stream of up to MaxPackets packets,    *)
(* long enough for both parameter sets, a unit cut in pieces and a         *)
(* repeated set.                                                           *)
(***************************************************************************)
EXTENDS MuxVideo
=============================================================================
