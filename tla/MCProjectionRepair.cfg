\* One assignment that is cancelled or moved by a critical version, hit twice.
SPECIFICATION RepairSpec
CONSTANTS
  Guide = {g1}
  ConnectionId = {c1}
  AssignmentId = {a1}
  TourId = {t1, t2, t3}
  RepairId = {r1, r2}
  Span <- MCSpan
  Role <- MCRole
  Trimmed <- MCTrimmed
  Package <- MCPackage
  NoRow = NoRow
  MaxVersion = 2
  MaxDrift = 2
SYMMETRY MCSymmetry
INVARIANTS
  MirroredUnlessDamaged
PROPERTIES
  NoNeedlessRepair
  RepairsClearOfOthers
