\* The two newest snapshots are compared: of three that were there before, one
\* may come into sight when another leaves.
CONSTANTS
  Recent = 2
  MaxTasks = 2
  MaxNew = 2
  MaxLeft = 1
SPECIFICATION FairSpec
INVARIANTS OwnSnapshot NotOverlooked
PROPERTIES WaitsEnd
