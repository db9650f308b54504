\* A peer that serves another torrent.
SPECIFICATION Spec
CONSTANTS
    Scripts <- MCScripts
    InfoHash = "t"
    HandshakeSize = 3
    MaxBuffer = 65535
    MaxConnections = 2
INVARIANT OnlySameTorrent
