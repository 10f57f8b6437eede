\* Two threads that share a client.
CONSTANTS
  Tasks = {t1, t2}
  TTLs = {2}
  Latency = 1
  MaxVersion = 1
  LastCall = 1
  EndOfTime = 2
SPECIFICATION Spec
SYMMETRY Symmetry
INVARIANTS SafeToShare
CHECK_DEADLOCK FALSE
