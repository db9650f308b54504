------------------------------- MODULE Session -------------------------------
(***************************************************************************)
(* The runs of the program, one after another: main, the constructor of    *)
(* PieceManager, TorrentClient::start and the table of TorrentState and    *)
(* DatabaseService.  Files and table outlive a run; a run may be killed at *)
(* any point.  The download itself is the module PeerConnection: here the  *)
(* pieces are counted, those of havePieces and those at their place in the *)
(* file apart, since neither the write nor the push_back sees to the other.*)
(* What the getters of TorrentFileParser give for a file is the constant   *)
(* Metadata, which SessionFiles computes.                                  *)
(*                                                                         *)
(* phase is "off" between runs, "constructed" when main has made its       *)
(* objects, "download" in the loop of downloadFile, "joining" when         *)
(* terminate waits for the workers.                                        *)
(***************************************************************************)
EXTENDS PieceLayout

CONSTANTS TorrentFiles,   \* the files the program may be given
          Metadata,       \* what is read of those that can be downloaded
          Header          \* the `header` of isComplete, 4

ASSUME FilesAssumption ==
    /\ DOMAIN Metadata \subseteq TorrentFiles
    /\ \A f \in DOMAIN Metadata :
          /\ {"info", "hash", "name", "total", "announce", "pieceLength", "size"}
                \subseteq DOMAIN Metadata[f]
          /\ Metadata[f].total \in Nat
          /\ Metadata[f].info \in BOOLEAN
          /\ Metadata[f].announce \in BOOLEAN
    /\ Header \in Nat

VARIABLES phase,
          torrent,        \* the file of this run
          have,           \* the size of havePieces
          disk,           \* name -> whose file that is, and its pieces at their place
          recorded,       \* the rows of Torrents: [name, hashinfo]
          table           \* whether the database has the table

vars == <<phase, torrent, have, disk, recorded, table>>

InfoHash == Metadata[torrent].hash
FileName == Metadata[torrent].name
TotalPieces == Metadata[torrent].total

FileNames == {Metadata[f].name : f \in DOMAIN Metadata}

InfoHashes == {Metadata[f].hash : f \in DOMAIN Metadata}

NoFile == [hash |-> <<>>, pieces |-> 0]

TypeOK == /\ phase \in {"off", "constructed", "download", "joining"}
          /\ torrent \in TorrentFiles
          /\ have \in Nat
          /\ disk \in [FileNames -> [hash : InfoHashes \union {NoFile.hash}, pieces : Nat]]
          /\ recorded \subseteq [name : FileNames, hashinfo : InfoHashes]
          /\ table \in BOOLEAN

Init == /\ phase = "off"
        /\ torrent \in TorrentFiles
        /\ have = 0
        /\ disk = [name \in FileNames |-> NoFile]
        /\ recorded = {}
        /\ table \in BOOLEAN

\* The process ends: by an exception nobody catches, at the end of main, or
\* because somebody kills it.
Off == phase' = "off" /\ have' = 0

\* main up to start: allocateFile truncates what a file of that name holds.
Construct(file) ==
    /\ phase = "off" /\ file \in DOMAIN Metadata
    /\ phase' = "constructed"
    /\ torrent' = file
    /\ have' = 0
    /\ disk' = [disk EXCEPT ![Metadata[file].name] = [hash |-> Metadata[file].hash, pieces |-> 0]]
    /\ UNCHANGED <<recorded, table>>

\* The construction ends the process, before it allocates the file.
ConstructFails(file) ==
    /\ phase = "off" /\ file \notin DOMAIN Metadata
    /\ torrent' = file
    /\ Off
    /\ UNCHANGED <<disk, recorded, table>>

\* Variant of GetTorrent that does not step the statement.
GetTorrentUnstepped(hashinfo) == {}

\* The record of a torrent; without one getTorrent gives an empty record.
GetTorrent(hashinfo) ==
    {[name |-> r.name, id |-> r.hashinfo] : r \in {s \in recorded : s.hashinfo = hashinfo}}

AlreadyDownloaded == \E r \in GetTorrent(InfoHash) : r.id = InfoHash

\* start up to downloadFile's loop: getInfoHash dereferences the null pointer
\* of a missing info, a statement on a missing table throws, and so does the
\* value() of a missing announce.
CheckRecord ==
    /\ phase = "constructed"
    /\ IF Metadata[torrent].info /\ table /\ ~AlreadyDownloaded /\ Metadata[torrent].announce
         THEN phase' = "download" /\ UNCHANGED have
         ELSE Off
    /\ UNCHANGED <<torrent, disk, recorded, table>>

\* writePiece, while the loop runs or after it.  It is not locked: it may land
\* at the place of another piece, so that any number is in place afterwards.
WritePiece ==
    /\ phase \in {"download", "joining"}
    /\ \E n \in 0 .. TotalPieces : disk' = [disk EXCEPT ![FileName].pieces = n]
    /\ UNCHANGED <<phase, torrent, have, recorded, table>>

\* The push_back, which may count a piece twice.  The first count past the one
\* isComplete looks for stands for all greater ones.
PublishPiece ==
    /\ phase \in {"download", "joining"}
    /\ have' = IF have + Header > TotalPieces THEN have ELSE have + 1
    /\ UNCHANGED <<phase, torrent, disk, recorded, table>>

IsComplete == have + Header = TotalPieces

LoopEnds == /\ phase = "download" /\ IsComplete
            /\ phase' = "joining"
            /\ UNCHANGED <<torrent, have, disk, recorded, table>>

\* The row a statement adds; a second row with the same hashinfo would violate
\* the primary key, and exec would throw.
InsertOne(name, hashinfo) ==
    recorded' = IF \E r \in recorded : r.hashinfo = hashinfo THEN recorded
                ELSE recorded \union {[name |-> name, hashinfo |-> hashinfo]}

\* Variant of StoreState that stores the path start was given.
StoreStatePath ==
    /\ phase = "joining"
    /\ InsertOne("x.torrent", InfoHash)
    /\ Off
    /\ UNCHANGED <<torrent, disk, table>>

StoreState ==
    /\ phase = "joining"
    /\ InsertOne(FileName, InfoHash)
    /\ Off
    /\ UNCHANGED <<torrent, disk, table>>

\* The process is killed.
Crash == /\ phase # "off"
         /\ Off
         /\ UNCHANGED <<torrent, disk, recorded, table>>

Next == \/ \E file \in TorrentFiles : Construct(file) \/ ConstructFails(file)
        \/ CheckRecord \/ WritePiece \/ PublishPiece \/ LoopEnds \/ StoreState \/ Crash

Spec == Init /\ [][Next]_vars

-----------------------------------------------------------------------------
(* Properties.                                                             *)

\* A download never ends at a row that is there already: the insertion, the
\* exception of which nobody catches, does not violate the primary key.
InsertNeverDuplicates ==
    phase = "joining" => \A r \in recorded : r.hashinfo # InfoHash

\* Of a file whose numbers fit together the pieces are cut into blocks that
\* cover them without gaps or empty blocks if and only if all pieces but the
\* last have whole blocks and the last one ends with part of a block.
LayoutTiles ==
    torrent \in DOMAIN Metadata =>
        LET file == Metadata[torrent]
        IN  Fitting(file.total, file.pieceLength, file.size) =>
                (Tiles(file.total, file.pieceLength, file.size) <=>
                     Regular(file.total, file.pieceLength, file.size))

\* What was downloaded and recorded is not erased by a later run of the
\* program for that torrent, which finds it already downloaded.
RecordedDataKept ==
    [][phase = "off" /\ phase' = "constructed" =>
          \A r \in recorded :
              r.hashinfo = InfoHash' /\ disk[r.name].hash = r.hashinfo =>
                  disk'[r.name].pieces >= disk[r.name].pieces]_vars

=============================================================================
