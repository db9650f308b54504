\* Two workers, honest peers, requests that expire and connections that break.
SPECIFICATION Spec
CONSTANTS
    TotalPieces = 3
    BlockCount <- MCBlockCount
    MaxPendingTime = 1
    Header = 1
    Contents = {"good"}
    Workers = {w1, w2}
    Peers = {a, b}
    NoPeer = NoPeer
    EmptyBitField = EmptyBitField
    BitFields <- SeedersAndPartial
    PeerEvents = {"choke", "unchoke", "timeout"}
SYMMETRY WorkerPeerSymmetry
INVARIANTS
    TypeOK
    PiecesConserved
    PendingRequestsLive
PROPERTIES
    NeverRequestsRetrieved
    ReissuesOnlyExpired
    OnlyRacesKill
    StagesInOrder
