----------------------------- MODULE TorrentFile -----------------------------
(***************************************************************************)
(* TorrentFileParser.  A getter gives a value, the error of a key that is  *)
(* missing (its caller's value() throws, and nobody catches it), or a null *)
(* pointer that is dereferenced because the item has another type.         *)
(***************************************************************************)
EXTENDS Bencode

kHashLen == 20

\* root_, null if the file holds something else than a dictionary.
Root(file) == LET item == DecodeStream(file)
              IN  IF item.type = "dictionary" THEN item ELSE NoValue

\* The file is decoded by the constructor; a DecodingError ends the process.
CanBeRead(file) == DecodeStream(file) # Malformed /\ Root(file) # NoValue

Get(file, key) == GetValue(Root(file).map, key)

\* The value is there and has the type the getter casts it to.
HasTyped(file, key, type) == Get(file, key).type = type

HasInfo(file) == Get(file, "info") # NoValue
HasFileName(file) == HasTyped(file, "name", "string")
HasFileSize(file) == HasTyped(file, "length", "integer")
HasPieceLength(file) == HasTyped(file, "piece length", "integer")
HasAnnounce(file) == HasTyped(file, "announce", "string")

GetFileName(file) == Get(file, "name").str
GetFileSize(file) == Get(file, "length").value
GetPieceLength(file) == Get(file, "piece length").value

\* SHA-1 tells apart what it is taken of: the hash stands for the text.  A file
\* without info has none, and the process ends when it asks for it.
GetInfoHash(file) == IF HasInfo(file) THEN Encode(Get(file, "info")) ELSE <<>>

\* splitPieceHashes asserts that nothing is left over, and returns an error,
\* which its caller takes for no pieces, if the key is missing.
CanSplitPieceHashes(file) ==
    LET pieces == Get(file, "pieces")
    IN  \/ pieces = NoValue
        \/ pieces.type = "string" /\ pieces.length % kHashLen = 0

PieceHashCount(file) == LET pieces == Get(file, "pieces")
                        IN  IF pieces = NoValue THEN 0 ELSE pieces.length \div kHashLen

=============================================================================
