---------------------------- MODULE SessionProofs ----------------------------
(***************************************************************************)
(* What the runs of the program leave behind, for any files, any metadata  *)
(* read of them and any number of runs that are killed at any point.       *)
(***************************************************************************)
EXTENDS Session, TLAPS

-----------------------------------------------------------------------------
(* When initiatePieces cuts a file up right, for every number of pieces,    *)
(* piece length and file size.                                             *)

\* What lies between two neighbouring multiples of a number leaves the rest
\* above the lower one.
LEMMA RestAboveMultiple ==
    ASSUME NEW p \in Nat \ {0}, NEW m \in Nat, NEW a \in Nat,
           m * p <= a, a < (m + 1) * p
    PROVE  a % p = a - m * p
PROOF
<1> DEFINE q == a \div p
           r == a % p
<1>1. /\ q \in Int /\ r \in 0 .. p - 1
      /\ a = p * q + r
  OBVIOUS
<1>2. (m + 1) * p = m * p + p /\ m * p \in Nat
  OBVIOUS
<1> HIDE DEF q, r
<1>3. ~(q >= m + 1)
  <2> SUFFICES ASSUME q >= m + 1 PROVE FALSE
    OBVIOUS
  <2>1. q - (m + 1) \in Nat
    BY <1>1
  <2>2. p * (q - (m + 1)) \in Nat
    BY <2>1
  <2>3. p * (q - (m + 1)) = p * q - p * (m + 1)
    BY <1>1
  <2>4. p * (m + 1) = (m + 1) * p /\ p * q \in Int
    BY <1>1
  <2> QED
    BY <1>1, <1>2, <2>2, <2>3, <2>4
<1>4. ~(q <= m - 1)
  <2> SUFFICES ASSUME q <= m - 1 PROVE FALSE
    OBVIOUS
  <2>1. (m - 1) - q \in Nat
    BY <1>1
  <2>2. p * ((m - 1) - q) \in Nat
    BY <2>1
  <2>3. p * ((m - 1) - q) = m * p - p - p * q
    BY <1>1
  <2>4. p * q \in Int
    BY <1>1
  <2> QED
    BY <1>1, <1>2, <2>2, <2>3, <2>4
<1>5. q = m
  BY <1>1, <1>3, <1>4
<1>6. a = m * p + r
  BY <1>1, <1>5
<1> QED
  BY <1>1, <1>2, <1>6 DEF r

\* The number of blocks that hold a bytes.
LEMMA CeilBlocksBounds ==
    ASSUME NEW a \in Nat
    PROVE  /\ CeilBlocks(a) \in Nat
           /\ BlockSize * CeilBlocks(a) >= a
           /\ BlockSize * CeilBlocks(a) < a + BlockSize
           /\ a % BlockSize = 0 => BlockSize * CeilBlocks(a) = a
           /\ a % BlockSize # 0 => BlockSize * CeilBlocks(a) = a - (a % BlockSize) + BlockSize
PROOF
  BY DEF CeilBlocks, BlockSize

\* A piece that is not the last one is cut up right exactly if it has whole
\* blocks.
LEMMA InnerPieceTiles ==
    ASSUME NEW n \in Nat \ {0}, NEW p \in Nat \ {0}, NEW size \in Nat,
           NEW i \in 0 .. n - 2
    PROVE  BlocksTile(i, n, p, size) <=> p % BlockSize = 0
PROOF
<1> DEFINE c == CeilBlocks(p)
<1>1. /\ i # n - 1
      /\ BlockCountOf(i, n, p, size) = c
      /\ PieceSize(i, n, p, size) = p
      /\ \A j \in 0 .. c - 1 : BlockLength(i, j, n, p, size) = BlockSize
  BY DEF BlockCountOf, PieceSize, BlockLength
<1>2. /\ c \in Nat \ {0}
      /\ p % BlockSize = 0 <=> BlockSize * c = p
  BY CeilBlocksBounds DEF BlockSize
<1> HIDE DEF c
<1>3. BlocksTile(i, n, p, size) <=>
          \A j \in 0 .. c - 1 :
              BlockOffset(j) + BlockSize = IF j = c - 1 THEN p ELSE BlockOffset(j + 1)
  BY <1>1, <1>2 DEF BlocksTile, BlockSize
<1>4. \A j \in 0 .. c - 1 : BlockOffset(j) + BlockSize = BlockSize * (j + 1)
                            /\ BlockOffset(j + 1) = BlockSize * (j + 1)
  BY <1>2 DEF BlockOffset, BlockSize
<1>5. c - 1 \in 0 .. c - 1 /\ (c - 1) + 1 = c
  BY <1>2
<1>6. (\A j \in 0 .. c - 1 :
          BlockOffset(j) + BlockSize = IF j = c - 1 THEN p ELSE BlockOffset(j + 1))
        <=> BlockSize * c = p
  BY <1>4, <1>5
<1> QED
  BY <1>2, <1>3, <1>6

\* The last piece is cut up right exactly if it ends with part of a block.
LEMMA LastPieceTiles ==
    ASSUME NEW n, NEW p, NEW size, Fitting(n, p, size)
    PROVE  BlocksTile(n - 1, n, p, size) <=> RemLength(p, size) % BlockSize # 0
PROOF
<1> DEFINE s == size - (n - 1) * p
           r == RemLength(p, size)
           c == BlockCountOf(n - 1, n, p, size)
<1>1. /\ n \in Nat \ {0} /\ p \in Nat \ {0} /\ size \in Nat
      /\ (n - 1) * p \in Nat /\ n * p = (n - 1) * p + p
      /\ s \in 1 .. p
  BY DEF Fitting
<1>2. r \in 0 .. p - 1
  BY <1>1 DEF RemLength
<1>3. r # 0 => r = s
  <2>1. CASE s < p
    <3>1. /\ n - 1 \in Nat /\ ((n - 1) + 1) * p = n * p
          /\ (n - 1) * p <= size /\ size < n * p
      BY <1>1, <2>1
    <3>2. size % p = size - (n - 1) * p
      BY <1>1, <3>1, RestAboveMultiple
    <3> QED
      BY <3>2 DEF RemLength
  <2>2. CASE s = p
    <3>1. size = n * p /\ (n + 1) * p = n * p + p
      BY <1>1, <2>2
    <3>2. size % p = size - n * p
      BY <1>1, <3>1, RestAboveMultiple
    <3> QED
      BY <1>1, <3>1, <3>2 DEF RemLength
  <2> QED
    BY <1>1, <2>1, <2>2
<1>4. /\ PieceSize(n - 1, n, p, size) = s
      /\ c = AtLeastOne(CeilBlocks(r))
      /\ \A j \in 0 .. c - 1 : BlockLength(n - 1, j, n, p, size) =
                                   IF j = c - 1 THEN r % BlockSize ELSE BlockSize
  BY DEF PieceSize, BlockCountOf, BlockLength
<1>5. c \in Nat \ {0} /\ c - 1 \in 0 .. c - 1
  BY <1>2, <1>4, CeilBlocksBounds DEF AtLeastOne
<1>6. BlocksTile(n - 1, n, p, size) <=>
          \A j \in 0 .. c - 1 :
              /\ BlockLength(n - 1, j, n, p, size) > 0
              /\ BlockOffset(j) + BlockLength(n - 1, j, n, p, size) =
                     IF j = c - 1 THEN s ELSE BlockOffset(j + 1)
  BY <1>4 DEF BlocksTile
<1>7. CASE r % BlockSize = 0
  <2>1. BlockLength(n - 1, c - 1, n, p, size) = 0
    BY <1>4, <1>5, <1>7
  <2> QED
    BY <1>5, <1>6, <1>7, <2>1
<1>8. CASE r % BlockSize # 0
  <2> HIDE DEF c, r, s
  <2>1. r # 0 /\ r = s /\ r % BlockSize \in 1 .. BlockSize - 1
    BY <1>2, <1>3, <1>8 DEF BlockSize
  <2>2. BlockSize * c = r - (r % BlockSize) + BlockSize
    <3>1. r \in Nat /\ r > 0
      BY <1>2, <2>1
    <3>2. BlockSize * CeilBlocks(r) = r - (r % BlockSize) + BlockSize
      BY <1>8, <3>1, CeilBlocksBounds
    <3>3. CeilBlocks(r) \in Nat /\ BlockSize * CeilBlocks(r) >= r
      BY <3>1, CeilBlocksBounds
    <3>4. AtLeastOne(CeilBlocks(r)) = CeilBlocks(r)
      BY <3>1, <3>3 DEF AtLeastOne, BlockSize
    <3> QED
      BY <1>4, <3>2, <3>4
  <2>3. ASSUME NEW j \in 0 .. c - 1
        PROVE  /\ BlockLength(n - 1, j, n, p, size) > 0
               /\ BlockOffset(j) + BlockLength(n - 1, j, n, p, size) =
                      IF j = c - 1 THEN s ELSE BlockOffset(j + 1)
    <3>1. CASE j = c - 1
      <4>1. BlockLength(n - 1, j, n, p, size) = r % BlockSize
        BY <1>4, <3>1
      <4>2. BlockOffset(j) = BlockSize * c - BlockSize
        BY <1>5, <3>1 DEF BlockOffset, BlockSize
      <4>3. BlockOffset(j) + (r % BlockSize) = s
        BY <1>2, <1>5, <2>1, <2>2, <4>2 DEF BlockSize
      <4>4. r % BlockSize > 0
        BY <1>2, <2>1 DEF BlockSize
      <4> QED
        BY <3>1, <4>1, <4>3, <4>4
    <3>2. CASE j # c - 1
      BY <1>4, <1>5, <3>2 DEF BlockOffset, BlockSize
    <3> QED
      BY <3>1, <3>2
  <2> QED
    BY <1>6, <1>8, <2>3 DEF r
<1> QED
  BY <1>7, <1>8 DEF r

\* Of a file whose numbers fit together the pieces are cut into blocks that
\* cover them without gaps or empty blocks if and only if all pieces but the
\* last have whole blocks and the last one ends with part of a block.
THEOREM TilesIffRegular ==
    ASSUME NEW n, NEW pieceLength, NEW size, Fitting(n, pieceLength, size)
    PROVE  Tiles(n, pieceLength, size) <=> Regular(n, pieceLength, size)
PROOF
<1>1. n \in Nat \ {0} /\ pieceLength \in Nat \ {0} /\ size \in Nat
  BY DEF Fitting
<1>2. /\ n - 1 \in 0 .. n - 1
      /\ \A i \in 0 .. n - 1 : i = n - 1 \/ i \in 0 .. n - 2
      /\ \A i \in 0 .. n - 2 : i \in 0 .. n - 1
  BY <1>1
<1>3. Tiles(n, pieceLength, size) <=>
          /\ BlocksTile(n - 1, n, pieceLength, size)
          /\ \A i \in 0 .. n - 2 : BlocksTile(i, n, pieceLength, size)
  BY <1>2 DEF Tiles
<1>4. \A i \in 0 .. n - 2 :
          BlocksTile(i, n, pieceLength, size) <=> pieceLength % BlockSize = 0
  BY <1>1, InnerPieceTiles
<1>5. n = 1 <=> 0 .. n - 2 = {}
  BY <1>1
<1> QED
  BY <1>3, <1>4, <1>5, LastPieceTiles DEF Regular

-----------------------------------------------------------------------------
(* The runs.                                                               *)

\* A run that was constructed has a file of which there is metadata.
FileOfRun == phase # "off" => torrent \in DOMAIN Metadata

\* A run that downloads has found no row, and nobody else adds one.
NoRowYet ==
    phase \in {"download", "joining"} => \A r \in recorded : r.hashinfo # InfoHash

RunInv == FileOfRun /\ NoRowYet

\* What is read of a file that can be downloaded.
LEMMA MetadataOf ==
    ASSUME NEW file \in DOMAIN Metadata
    PROVE  /\ file \in TorrentFiles
           /\ Metadata[file].total \in Nat
           /\ Metadata[file].name \in FileNames
           /\ Metadata[file].hash \in InfoHashes
PROOF
  BY FilesAssumption DEF FileNames, InfoHashes

LEMMA TypeInit == Init => TypeOK
PROOF
<1> SUFFICES ASSUME Init PROVE TypeOK
  OBVIOUS
<1>1. disk \in [FileNames -> [hash : InfoHashes \union {NoFile.hash}, pieces : Nat]]
  BY DEF Init, NoFile
<1> QED
  BY <1>1 DEF Init, TypeOK

\* The row a run adds has the name and the hash of its file.
LEMMA InsertedRows ==
    ASSUME NEW name, NEW hashinfo, InsertOne(name, hashinfo)
    PROVE  recorded' \subseteq recorded \union {[name |-> name, hashinfo |-> hashinfo]}
PROOF
  BY DEF InsertOne

LEMMA TypeStep == TypeOK /\ RunInv /\ [Next]_vars => TypeOK'
PROOF
<1> SUFFICES ASSUME TypeOK, RunInv, [Next]_vars PROVE TypeOK'
  OBVIOUS
<1>1. ASSUME NEW file \in TorrentFiles, Construct(file) PROVE TypeOK'
  <2>1. disk' \in [FileNames -> [hash : InfoHashes \union {NoFile.hash}, pieces : Nat]]
    BY <1>1, MetadataOf DEF Construct, TypeOK
  <2> QED
    BY <1>1, <2>1 DEF Construct, TypeOK
<1>2. ASSUME NEW file \in TorrentFiles, ConstructFails(file) PROVE TypeOK'
  BY <1>2 DEF ConstructFails, Off, TypeOK
<1>3. CASE CheckRecord
  BY <1>3 DEF CheckRecord, Off, TypeOK
<1>4. CASE WritePiece
  <2>1. torrent \in DOMAIN Metadata
    BY <1>4 DEF WritePiece, RunInv, FileOfRun
  <2>2. PICK n \in 0 .. TotalPieces : disk' = [disk EXCEPT ![FileName].pieces = n]
    BY <1>4 DEF WritePiece
  <2>3. FileName \in FileNames /\ n \in Nat
    BY <2>1, <2>2, MetadataOf DEF FileName, TotalPieces
  <2>4. disk' \in [FileNames -> [hash : InfoHashes \union {NoFile.hash}, pieces : Nat]]
    BY <2>2, <2>3 DEF TypeOK
  <2> QED
    BY <1>4, <2>4 DEF WritePiece, TypeOK
<1>5. CASE PublishPiece
  BY <1>5 DEF PublishPiece, TypeOK
<1>6. CASE LoopEnds
  BY <1>6 DEF LoopEnds, TypeOK
<1>7. CASE StoreState
  <2>1. torrent \in DOMAIN Metadata
    BY <1>7 DEF StoreState, RunInv, FileOfRun
  <2>2. FileName \in FileNames /\ InfoHash \in InfoHashes
    BY <2>1, MetadataOf DEF FileName, InfoHash
  <2>3. recorded' \subseteq [name : FileNames, hashinfo : InfoHashes]
    BY <1>7, <2>2, InsertedRows DEF StoreState, TypeOK
  <2> QED
    BY <1>7, <2>3 DEF StoreState, Off, TypeOK
<1>8. CASE Crash
  BY <1>8 DEF Crash, Off, TypeOK
<1>9. CASE UNCHANGED vars
  BY <1>9 DEF vars, TypeOK
<1> QED
  BY <1>1, <1>2, <1>3, <1>4, <1>5, <1>6, <1>7, <1>8, <1>9 DEF Next

LEMMA RunInit == Init => RunInv
PROOF
  BY DEF Init, RunInv, FileOfRun, NoRowYet

LEMMA RunStep == RunInv /\ [Next]_vars => RunInv'
PROOF
<1> SUFFICES ASSUME RunInv, [Next]_vars PROVE RunInv'
  OBVIOUS
<1>1. ASSUME NEW file \in TorrentFiles, Construct(file) PROVE RunInv'
  BY <1>1 DEF Construct, RunInv, FileOfRun, NoRowYet
<1>2. CASE CheckRecord
  <2>1. CASE Off
    BY <2>1 DEF Off, RunInv, FileOfRun, NoRowYet
  <2>2. CASE ~AlreadyDownloaded /\ phase' = "download"
    <3>1. ASSUME NEW r \in recorded, r.hashinfo = InfoHash PROVE FALSE
      <4>1. [name |-> r.name, id |-> InfoHash] \in GetTorrent(InfoHash)
        BY <3>1 DEF GetTorrent
      <4>2. [name |-> r.name, id |-> InfoHash].id = InfoHash
        OBVIOUS
      <4> QED
        BY <2>2, <4>1, <4>2 DEF AlreadyDownloaded
    <3>2. NoRowYet'
      BY <1>2, <3>1 DEF CheckRecord, NoRowYet, InfoHash
    <3> QED
      BY <1>2, <2>2, <3>2 DEF CheckRecord, RunInv, FileOfRun
  <2> QED
    BY <1>2, <2>1, <2>2 DEF CheckRecord
<1>3. CASE WritePiece \/ PublishPiece \/ LoopEnds \/ UNCHANGED vars
  BY <1>3 DEF WritePiece, PublishPiece, LoopEnds, vars, RunInv, FileOfRun, NoRowYet, InfoHash
<1>4. CASE \/ \E file \in TorrentFiles : ConstructFails(file)
           \/ StoreState \/ Crash
  BY <1>4 DEF ConstructFails, StoreState, Crash, Off, RunInv, FileOfRun, NoRowYet
<1> QED
  BY <1>1, <1>2, <1>3, <1>4 DEF Next

LEMMA InvCorrect == Spec => [](TypeOK /\ RunInv)
PROOF
<1>1. Init => TypeOK /\ RunInv
  BY TypeInit, RunInit
<1>2. (TypeOK /\ RunInv) /\ [Next]_vars => (TypeOK /\ RunInv)'
  BY TypeStep, RunStep
<1> QED
  BY <1>1, <1>2, PTL DEF Spec

\* Every variable keeps its type: whatever files the program is given and
\* wherever its runs are killed, the table holds names and hashes of those files
\* only, and the disk their torrents.
THEOREM TypeCorrect == Spec => []TypeOK
PROOF
  BY InvCorrect, PTL

\* The row of a torrent that start adds at the end of a download is not in
\* the table: the insertion does not violate the primary key.
THEOREM InsertsOnce == Spec => []InsertNeverDuplicates
PROOF
<1>1. RunInv => InsertNeverDuplicates
  BY DEF RunInv, NoRowYet, InsertNeverDuplicates
<1> QED
  BY <1>1, InvCorrect, PTL

\* Whatever numbers that fit together are read of a file, its pieces are cut
\* into blocks that cover them without gaps or empty blocks if and only if
\* all but the last have whole blocks and the last ends with part of one.
THEOREM LayoutsTile == Spec => []LayoutTiles
PROOF
<1>1. LayoutTiles
  BY TilesIffRegular DEF LayoutTiles
<1> QED
  BY <1>1, PTL

=============================================================================
