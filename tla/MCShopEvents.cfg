\* Two workers, one feed of events on one visit, one fault.
SPECIFICATION Spec
CONSTANTS
  g1 = g1  visit = visit  e1 = e1  e2 = e2  e3 = e3
  Event = {e1, e2, e3}
  Guide = {g1}
  Subject = {visit}
  Nothing = Nothing
  Worker = {w1, w2}
  Feed <- VisitFeed
  MaxAttempts = 2
  MaxInboxAttempts = 3
  PageLimit = 1
  BatchLimit = 1
  MaxFaults = 1
INVARIANTS
  WatermarksSound
  UntriedIsNewest
  ClaimsNeverBlock
  NothingSkipped
  RepeatedOnlyInDoubt
PROPERTIES
  SettledOnce
  EventsSettle
  FeedsRead
