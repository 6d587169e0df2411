--------------------------- MODULE MCTogglePathway ---------------------------
(***************************************************************************)
(* A small instance of TogglePathway: a device writes three levels to a    *)
(* queue and to a device, as the gates of the idle levels are wired.       *)
(***************************************************************************)
EXTENDS TogglePathway, MCPathway

ToggleLHSCap == 0 :> 0
ToggleRHSCap == 0 :> 1 @@ 1 :> 0
ToggleSrc == [m \in Msgs |-> 0]
ToggleDest == [m \in Msgs |-> Broadcast]
=============================================================================
