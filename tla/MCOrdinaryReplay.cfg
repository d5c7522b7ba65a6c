\* Are late redeliveries of an ordinary version answered?
SPECIFICATION Spec
CONSTANTS
  Guide = {g1}
  ConnectionId = {c1}
  AssignmentId = {a1}
  TourId = {t1}
  Span <- MCOneSpan
  Role <- MCOneRole
  Trimmed <- MCOneTrimmed
  Package <- MCOnePackage
  NoRow = NoRow
  MaxVersion = 3
INVARIANTS
  OrdinaryReplayAnswered
CHECK_DEADLOCK FALSE
