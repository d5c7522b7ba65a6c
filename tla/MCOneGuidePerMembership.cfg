SPECIFICATION LinkSpec
CONSTANTS
  Guide = {g1, g2}
  Membership = {m1}
  Caller = {c1, c2}
  Wanted = {"conflict"}
  MaxRequests = 2
SYMMETRY Alike
INVARIANT OneGuidePerMembership
CHECK_DEADLOCK FALSE
