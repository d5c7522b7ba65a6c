------------------------- MODULE MCProjectionRepair -------------------------
(* Instances of ProjectionRepair for TLC. *)
EXTENDS ProjectionRepair, TLC

MCSpan == {{1}, {2}}
MCRole == {"lead"}
MCTrimmed == [r \in MCRole |-> "lead"]
MCPackage ==
  {[span |-> s, role |-> "lead", envelope |-> "morning", rest |-> "x"] : s \in MCSpan}

MCSymmetry == Permutations(TourId) \cup Permutations(RepairId)
=============================================================================
