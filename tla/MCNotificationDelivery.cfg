\* Two workers at one notice, three attempts; crashes, overrun leases, fairness.
SPECIFICATION Spec
CONSTANTS
  Item <- MCItem
  Worker = {w1, w2}
  Idle = Idle
  MaxAttempts = 3
  MaxCrashes = 2
  MaxOverruns = 2
INVARIANTS
  NoStaleNotice
  RepeatedOnlyInDoubt
PROPERTIES
  FactsSettled
CHECK_DEADLOCK FALSE
