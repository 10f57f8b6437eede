\* Servers that stray in every way or in none, with and without a total, for
\* queries whose rows are all alike and for others.
CONSTANTS
  PageSize = 2
  MaxPages = 5
  MaxRows = 7
  RepeatLimit = 2
  Deadline = TRUE
  Size = 7
  Totals = {TRUE, FALSE}
  Faults = {"capped", "stalled", "stops"}
SPECIFICATION Spec
INVARIANTS WorkIsBounded InOrder NotTruncated StallsAreTold
