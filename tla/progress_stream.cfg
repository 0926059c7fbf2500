\* Two streams, two runs, a buffer too small for one run's five events; fair
\* runs and streams (no symmetry: liveness).
CONSTANTS
    Clients = {c1}
    MaxEvents = 3
    MaxRuns = 2
    MaxStreams = 2
SPECIFICATION FairSpec
INVARIANTS
    NothingIsMissed
    BufferHasRun
    RunEndsTerminal
PROPERTIES
    StreamEnds
CHECK_DEADLOCK FALSE
