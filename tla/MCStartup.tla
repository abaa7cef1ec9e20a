----------------------------- MODULE MCStartup ------------------------------
(***************************************************************************)
(* The start for TLC: every file of up to MaxStreams streams and every     *)
(* content of the uninitialised memory.                                    *)
(***************************************************************************)
EXTENDS Startup
=============================================================================
