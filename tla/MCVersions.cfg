\* One assignment, all kinds of packages, up to four versions.
SPECIFICATION Spec
CONSTANTS
  Guide = {g1}
  ConnectionId = {c1}
  AssignmentId = {a1}
  TourId = {t1, t2}
  Span <- MCSpan
  Role <- MCRole
  Trimmed <- MCTrimmed
  Package <- MCPackage
  NoRow = NoRow
  MaxVersion = 4
SYMMETRY MCTourSymmetry
INVARIANTS
  CalendarMirrorsAssignments
  VersionChain
  AgreedTermsHold
  OperatorSeesState
  RequestsReplayed
  NoticesServed
PROPERTIES
  RejectionFreezes
  NoticesAge
