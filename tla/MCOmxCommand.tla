---------------------------- MODULE MCOmxCommand ----------------------------
(***************************************************************************)
(* Commands for TLC: the three components with the ports the code names.   *)
(* The script is the whole configuration sequence, so nothing is bounded.  *)
(***************************************************************************)
EXTENDS OmxCommand, TLC

MCPorts == ("video_decode" :> <<130, 131>>) @@ ("image_fx" :> <<190, 191>>)
             @@ ("video_encode" :> <<200, 201>>)
=============================================================================
