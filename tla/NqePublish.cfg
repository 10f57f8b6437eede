\* Every way to call publish(), every failure, and another session interfering
\* twice.
CONSTANTS
  Files = {p1, p2}
  Depth = 2
  Options = {"overwrite", "dry run", "cleanup"}
  Faults = {"refused", "lost", "unreadable", "errors", "undiscarded"}
  Others = {"draft", "discard", "publish"}
  MaxOthers = 2
SPECIFICATION FairSpec
INVARIANTS SuccessIsTotal ReportIsTrue FailureIsClean
PROPERTIES ForeignDraftsSurvive PublishEnds
