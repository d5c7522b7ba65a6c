SPECIFICATION LinkSpec
CONSTANTS
  Guide = {g1}
  Membership = {m1}
  Caller = {c1, c2}
  Wanted = {"conflict"}
  MaxRequests = 2
SYMMETRY Alike
INVARIANTS
  EvidenceTellsHistory
  AnswersHold
  ActivationsDatedInTime
PROPERTY TokensOneTime
CHECK_DEADLOCK FALSE
