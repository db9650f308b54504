\* The main thread, three workers and a tracker.
SPECIFICATION FairSpec
CONSTANTS
    Workers = {w1, w2, w3}
    TrackerLists <- MCTrackerLists
    TrackerThrows <- MCTrackerThrows
    DummyIp = "0.0.0.0"
    TotalPieces = 3
    Header = 1
INVARIANTS
    TypeOK
    NoLostWakeup
    PeersOfOneAnswer
    DummyForEach
    NoneWaitsAtJoin
    PeersAsListed
PROPERTY PoolEnds
