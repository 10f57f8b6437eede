\* Two calls of either kind, two attempts each, sharing one set of counters.
CONSTANTS
  Calls = {c1, c2}
  MaxAttempts = 2
  Modes = {"send", "stream"}
SPECIFICATION FairSpec
INVARIANTS AtMostOnce NoEarlySurrender CountersBalance
PROPERTIES KeepsContract CallSettles
