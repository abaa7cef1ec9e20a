---------------------------- MODULE MCWriterLoop ----------------------------
(***************************************************************************)
(* The writer's loop for TLC.  Two buffers and four frames let the list    *)
(* run empty, the backlog reach its bound and the buffers be reused;       *)
(* MaxQueue = 0 makes the demuxer wait for room in both queues.            *)
(***************************************************************************)
EXTENDS WriterLoop
=============================================================================
