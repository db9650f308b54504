\* Two workers and peers that may send bad blocks.
SPECIFICATION Spec
CONSTANTS
    TotalPieces = 2
    BlockCount <- MCBlockCount
    MaxPendingTime = 1
    Header = 1
    Contents = {"good", "bad"}
    Workers = {w1, w2}
    Peers = {a, b}
    NoPeer = NoPeer
    EmptyBitField = EmptyBitField
    BitFields <- Seeders
    PeerEvents = {"unchoke", "timeout", "refuse"}
CONSTRAINT FewPendingRequests
SYMMETRY WorkerPeerSymmetry
INVARIANTS
    RequestsTracked
    CompletePieceInHand
    
    PendingIsInFlight
