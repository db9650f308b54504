\* Runs of the program with all kinds of files.
SPECIFICATION Spec
CONSTANTS
    KeyOrder <- MCKeyOrder
    TorrentFiles <- MCTorrentFiles
    SortedFiles <- MCSortedFiles
    Metadata <- MCMetadata
    Header = 4
INVARIANTS
    TypeOK
    InsertNeverDuplicates
    DecodesWhatItEncodes
    InfoHashOfFile
    SearchFindsKey
    LayoutTiles
