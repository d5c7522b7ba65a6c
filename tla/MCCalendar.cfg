\* Two guides, two connections, two assignments and the guides' entries on the same days.
SPECIFICATION Spec
CONSTANTS
  Guide = {g1, g2}
  ConnectionId = {c1, c2}
  AssignmentId = {a1, a2}
  TourId = {t1, t2}
  Span <- MCDisjointSpan
  Role <- MCOneRole
  Trimmed <- MCOneTrimmed
  Package <- MCPlainPackage
  NoRow = NoRow
  MaxVersion = 2
SYMMETRY MCGuidesSymmetry
INVARIANTS
  OperatorToursDisjoint
  ConnectionRecordsAgree
PROPERTIES
  OverlapsOnlyByGuide
  CommitmentKept
  OffersFollowConsent
