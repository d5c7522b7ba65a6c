\* One evening: two entries that come, move and go, faults, new reminder times.
SPECIFICATION RemindersSpec
CONSTANTS
  Text <- MCText
  Span <- MCSpan
  Slot <- MCSlot
  Detail = {d1}
  Day = {}
  Key = {}
  NoRow = NoRow
  MaxRows = 2
  MaxPrompts = 0
  MaxFaults = 1
  Tomorrow = 1
  MaxResets = 1
INVARIANT RemindedAgainOnlyInDoubt
PROPERTY DueReminded
CHECK_DEADLOCK FALSE
