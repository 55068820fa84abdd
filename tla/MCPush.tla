------------------------------- MODULE MCPush -------------------------------
(***************************************************************************)
(* RtmpPush on small instances.                                            *)
(***************************************************************************)
EXTENDS RtmpPush

(* A stream with a camera, well used and restarted at once; streams with only *)
(* sound under the other hazards, which do not concern the camera.            *)
Scenarios ==
    {{}, {"restart"}} \cup
    {H \cup {"nocamera"} : H \in {{"quickstop"}, {"clear"},
                                  {"quickstop", "clear"}, {"nosocket"}}}

=============================================================================
