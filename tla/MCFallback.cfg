SPECIFICATION Spec
CONSTANTS
  Upstreams <- MCUpstreams
  Modes = {TRUE, FALSE}
  Threshold = 2
  Limit = 3
  Timeout = 4
INVARIANTS TypeOK BackupIsLastResort StandbyInTime OnlyWinnerShows UsableBeatsFailure StoresOwnWork NoOrphans
