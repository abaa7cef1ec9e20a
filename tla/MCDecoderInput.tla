--------------------------- MODULE MCDecoderInput ---------------------------
(***************************************************************************)
(* The decoder's input for TLC: a packet that fits, one of two and a half  *)
(* buffers, an empty one and a key frame that fills a buffer exactly.      *)
(***************************************************************************)
EXTENDS DecoderInput

MCPackets == << [length |-> 1, key |-> FALSE, PTS |-> -3],
                [length |-> 5, key |-> FALSE, PTS |-> 7],
                [length |-> 0, key |-> FALSE, PTS |-> 0],
                [length |-> 2, key |-> TRUE, PTS |-> -8] >>
=============================================================================
