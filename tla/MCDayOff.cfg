\* Does a request of the Mini App keep a day off free?
SPECIFICATION CalendarSpec
CONSTANTS
  Text <- MCText
  Span <- MCSpan
  Slot <- MCSlot
  morning = morning
  evening = evening
  Detail = {d1}
  Day = {}
  Key = {}
  NoRow = NoRow
  MaxRows = 2
  MaxPrompts = 0
  MaxFaults = 0
PROPERTY DayOffsBlock
CHECK_DEADLOCK FALSE
