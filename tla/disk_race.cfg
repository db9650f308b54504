\* Two workers write two pieces at once.
SPECIFICATION Spec
CONSTANTS
    TotalPieces = 3
    BlockCount <- OneBlockEach
    MaxPendingTime = 1
    Header = 1
    Contents = {"good"}
    Workers = {w1, w2}
    Peers = {a}
    NoPeer = NoPeer
    EmptyBitField = EmptyBitField
    BitFields <- Seeders
    PeerEvents = {"unchoke"}
INVARIANT HavePiecesOnDisk
