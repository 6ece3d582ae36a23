\* Two requests recorded at a time, and the worker's archive run beside Archive now.
CONSTANTS
    MaxId = 4
    Recorders = {r1, r2}
    Archivers = {worker, now}
SPECIFICATION Spec
INVARIANTS TypeOK NothingLost ArchivedOnce SegmentsChain
\* The sequence is bounded.
CHECK_DEADLOCK FALSE
