\* A unit is a minute.
SPECIFICATION WatchFairSpec
CONSTANTS
  Deadline = 6
  PollInterval = 1
  Windows <- MCWindows
  RebuildAfter = 3
  HealthTick = 1
INVARIANTS WaitingIsNotStale OutageShows
PROPERTY Recovers
