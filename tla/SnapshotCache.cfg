\* Two tasks sharing a cache, kept for the client's lifetime or for a tick.
CONSTANTS
  Tasks = {t1, t2}
  TTL = 1
  Writes = {"invalidate", "delete", "upload"}
  MaxSnapshots = 2
  MaxVersions = 2
SPECIFICATION FairCacheSpec
INVARIANTS WritesAreSeen PinnedAnswer OnlyWhatWasAsked
PROPERTIES CacheConverges
