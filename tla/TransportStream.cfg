\* A streamed request that may not be repeated.
CONSTANTS
  Calls = {c1}
  MaxAttempts = 2
  Modes = {"stream"}
SPECIFICATION Spec
INVARIANTS RepeatedOnlyIfUnseen
