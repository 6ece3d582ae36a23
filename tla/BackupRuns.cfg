CONSTANTS
    Destinations = {d1, d2}
    Schedules = {nightly, hourly}
    Retains = {1, 2}
    MaxRuns = 3
    MaxEdits = 1
    Null = Null
SPECIFICATION MCSpec
SYMMETRY Alike
INVARIANTS NextFollowsSchedule NewestAreKept FilesAreKnown
PROPERTY OncePerTime
CHECK_DEADLOCK FALSE
