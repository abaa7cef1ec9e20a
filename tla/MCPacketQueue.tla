--------------------------- MODULE MCPacketQueue ----------------------------
(***************************************************************************)
(* The packet queue and its list for TLC; the .cfg file gives the threads  *)
(* and packets.                                                            *)
(***************************************************************************)
EXTENDS PacketQueueList
=============================================================================
