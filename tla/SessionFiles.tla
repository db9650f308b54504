----------------------------- MODULE SessionFiles -----------------------------
(***************************************************************************)
(* Session with the metadata that TorrentFileParser reads of the files.    *)
(***************************************************************************)
EXTENDS Session, TorrentFile

CONSTANT SortedFiles   \* the files whose dictionaries have their keys in order,
                       \* none twice

ASSUME SortedAssumption == SortedFiles \subseteq TorrentFiles

\* What main and the constructor of PieceManager need of the file: every
\* value is there, and the division by the piece length is defined.
Constructible(file) ==
    /\ CanBeRead(file)
    /\ HasFileName(file) /\ HasPieceLength(file) /\ HasFileSize(file)
    /\ CanSplitPieceHashes(file)
    /\ PieceHashCount(file) > 0 => GetPieceLength(file) > 0

\* What the getters give for the files that get that far: the value of the
\* constant Metadata.
FileMetadata ==
    [f \in {g \in TorrentFiles : Constructible(g)} |->
         [info |-> HasInfo(f), hash |-> GetInfoHash(f),
          name |-> GetFileName(f), total |-> PieceHashCount(f),
          announce |-> HasAnnounce(f), pieceLength |-> GetPieceLength(f),
          size |-> GetFileSize(f)]]

-----------------------------------------------------------------------------
(* Properties.                                                             *)

\* Encoding what was decoded, and decoding that, gives the same item: the info
\* hash does not depend on how the file writes its dictionaries.
DecodesWhatItEncodes ==
    LET item == DecodeStream(torrent)
    IN  item # Malformed => DecodeString(Encode(item)) = item

\* The hash of a file whose keys are in order is that of the very text the
\* file holds after its key "info", which is what peers and tracker expect, if
\* all numbers and lengths in that text are written in the plain form, and
\* that of another text, a torrent nobody serves, if one is not.
InfoHashOfFile ==
    torrent \in SortedFiles \intersect DOMAIN Metadata =>
        \A i \in DOMAIN torrent :
            torrent[i].kind = "s" /\ torrent[i].str = "info" =>
                LET text == SubSeq(torrent, i + 1, DecodeAt(torrent, i + 1).next - 1)
                IN  InfoHash = text <=> \A j \in DOMAIN text : text[j].plain

\* What getValue may find: the values of the key in all dictionaries that are
\* reached through dictionaries and through lists of dictionaries.
RECURSIVE ValuesOf(_, _)
ValuesOf(map, key) ==
    LET inner == {map[k] : k \in {l \in DOMAIN map : map[l].type = "dictionary"}}
        lists == {map[k].items : k \in {l \in DOMAIN map : map[l].type = "list"}}
        listed == {d \in UNION {ToSet(items) : items \in lists} : d.type = "dictionary"}
    IN  {map[k] : k \in DOMAIN map \intersect {key}}
          \union UNION {ValuesOf(d.map, key) : d \in inner \union listed}

\* getValue finds a key wherever it is, and gives a null pointer only if it
\* is nowhere.
SearchFindsKey ==
    CanBeRead(torrent) =>
        \A i \in DOMAIN KeyOrder :
            LET values == ValuesOf(Root(torrent).map, KeyOrder[i])
                value == Get(torrent, KeyOrder[i])
            IN  IF values = {} THEN value = NoValue ELSE value \in values

=============================================================================
