\* Two tasks, two handles on one chat, and another program of the user;
\* waits with a timeout and without.
CONSTANTS
  Tasks = {t1, t2}
  Handles = {h1, h2}
  Chats = {c1}
  Elsewhere = elsewhere
  PollInterval = 1
  Timeouts = {1}
  Untimed = TRUE
  BusyTimeouts = {0, 2}
  Pauses = {2}
  Latency = 1
SPECIFICATION CheckedSpec
INVARIANTS TypeOK OwnAnswer AskedOnce BusyToTheDeadline
PROPERTIES CallsEnd
