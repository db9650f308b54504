\* One worker and two connections, byte by byte.
SPECIFICATION FairSpec
CONSTANTS
    Scripts <- MCScripts
    InfoHash = "t"
    HandshakeSize = 3
    MaxBuffer = 65535
    MaxConnections = 2
INVARIANTS
    TypeOK
    RegistryShowsAnnounced
    SocketsClosed
PROPERTIES
    FramesKept
    OnlyRecvHolds
