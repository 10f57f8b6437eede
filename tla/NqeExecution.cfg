\* Two coroutines waiting on one handle, with and without a timeout; Forward
\* may leave out that a query broke.  A client that calls no more stops.
CONSTANTS
  Waiters = {w1, w2}
  Timeouts = {1}
  Untimed = TRUE
  Budget = 1
  TellsBudget = TRUE
  Untold = {"SYSTEM_ERROR"}
  Grace = 2
  Latency = 1
  FirstInterval = 1
  PollInterval = 2
  RetryAfters = {0, 2}
  OutcomeRetries = 1
  RetryOutcomes = {"SYSTEM_ERROR", "TIMED_OUT"}
  LastCall = 1
  EndOfTime = 7
SPECIFICATION FairSpec
INVARIANTS VerdictIsTrue OnlyTheDoomed RecordedOnce
PROPERTIES  WaitEnds
CHECK_DEADLOCK FALSE
