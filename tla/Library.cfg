\* Two tasks, as coroutines and as threads, with and without reuse.
CONSTANTS
  Tasks = {t1, t2}
  TTLs = {0, 2}
  Latency = 1
  MaxVersion = 2
  LastCall = 3
  EndOfTime = 4
SPECIFICATION Spec
SYMMETRY Symmetry
INVARIANTS StaleNoLonger WritesAreSeen IndexIsThere
CHECK_DEADLOCK FALSE
