\* An entry, two library modules and one of Forward's, importing one another
\* in any way, any of them overridden.
CONSTANTS
  Paths = {entry, a, b, fwd}
  Entry = entry
  ForwardPaths = {fwd}
  Leaves = {fwd}
  MaxImports = 2
  MaxOverrides = 2
  MaxHead = 2
SPECIFICATION FairSpec
INVARIANTS BundleIsWhole FromOneCommit RefusalsAreTrue
PROPERTIES BundleEnds
