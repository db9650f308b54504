\* Two workers that take turns in blockReceived, peers that may send bad blocks.
SPECIFICATION Spec
CONSTANTS
    TotalPieces = 2
    BlockCount <- MCBlockCount
    MaxPendingTime = 1
    Header = 0
    Contents = {"good", "bad"}
    Workers = {w1, w2}
    Peers = {a, b}
    NoPeer = NoPeer
    EmptyBitField = EmptyBitField
    BitFields <- SeedersAndEmpty
    PeerEvents = {"unchoke", "have", "other", "keepAlive", "timeout", "refuse"}
CONSTRAINT BlocksInTurn
SYMMETRY WorkerPeerSymmetry
INVARIANTS
    HavePiecesOnDisk
    PendingRequestsLive
PROPERTY OnlyRemovalKills
