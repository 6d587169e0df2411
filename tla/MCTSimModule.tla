----------------------------- MODULE MCTSimModule -----------------------------
(***************************************************************************)
(* Small instances of TSimModule: a queued and a capacity-0 output, a      *)
(* PLAIN and a TOGGLE input, pipelines of two stages.             *)
(***************************************************************************)
EXTENDS TSimModule, TLC

\* The pipeline the constructor allocates for the given depth.
SlotMask == PipeSlots[PDepth] - 1

\* The constructor makes room for every depth up to MAX_PDEPTH.
ASSUME MaskAssumption == \A pd \in 0..64 : PipeSlots[pd] > pd

MixedOutCap == "queued" :> 1 @@ "direct" :> 0
MixedInCap == "data" :> 2 @@ "level" :> 1
=============================================================================
