\* The last piece has been started and has a block nobody has asked for.
SPECIFICATION Spec
CONSTANTS
    TotalPieces = 3
    BlockCount <- MCBlockCount
    MaxPendingTime = 1
    Header = 1
    Contents = {"good"}
    Workers = {w1, w2}
    Peers = {a}
    NoPeer = NoPeer
    EmptyBitField = EmptyBitField
    BitFields <- Seeders
    PeerEvents = {"unchoke"}
PROPERTY NothingLeftToRequest
