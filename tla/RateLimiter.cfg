\* Three tasks sharing the limiter, as coroutines and as threads.  A client that
\* asks no more stops.
CONSTANTS
  Tasks = {t1, t2, t3}
  Interval = 2
  Horizon = 4
  Slack = 1
SPECIFICATION FairLimiterSpec
INVARIANTS Spacing
PROPERTIES AcquireReturns
CHECK_DEADLOCK FALSE
