\* Two workers, two rows, two attempts; a crash, an overrun lease, and fairness.
SPECIFICATION Spec
CONSTANTS
  Item <- MCItem
  Worker = {w1, w2}
  Idle = Idle
  MaxAttempts = 2
  MaxCrashes = 1
  MaxOverruns = 1
INVARIANTS
  LeaseExclusive
PROPERTIES
  FactsSafe
  FactsSettled
CHECK_DEADLOCK FALSE
