\* Two workers: a piece published after the main thread has seen the end.
SPECIFICATION FairSpec
CONSTANTS
    TotalPieces = 3
    BlockCount <- OneBlockEach
    MaxPendingTime = 1
    Header = 1
    Contents = {"good"}
    Workers = {w1, w2}
    Peers = {a}
    NoPeer = NoPeer
    EmptyBitField = EmptyBitField
    BitFields <- Seeders
    PeerEvents = {"unchoke"}
PROPERTY TerminateStopsAll
