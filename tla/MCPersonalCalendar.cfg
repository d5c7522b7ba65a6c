\* Two entries, three kinds of times, one keyed request, a fault.
SPECIFICATION CalendarSpec
CONSTANTS
  Text <- MCText
  Span <- MCSpan
  Slot <- MCSlot
  morning = morning
  evening = evening
  Detail = {d1, d2}
  Day <- MCDay
  Key = {k1}
  NoRow = NoRow
  MaxRows = 2
  MaxPrompts = 1
  MaxFaults = 1
SYMMETRY MCSymmetry
INVARIANTS
  GroupsUniform
  FreeIsOfferable
PROPERTIES
  DoubleBookedOnlyByGuide
  KeyedOnce
CHECK_DEADLOCK FALSE
