------------------------------ MODULE MCSession ------------------------------
(***************************************************************************)
(* Session with files that download, files that never end or throw on the  *)
(* way, and files that cannot be read.  Lengths are the real ones, so that *)
(* the layouts are those of initiatePieces.                                *)
(***************************************************************************)
EXTENDS SessionFiles

MCKeyOrder == <<"announce", "announce-list", "files", "httpseeds", "info", "length",
                "name", "path", "piece length", "pieces">>

Dictionary(entries) == <<Token("d")>> \o FlattenSeq(entries) \o <<Token("e")>>
ListOf(entries) == <<Token("l")>> \o FlattenSeq(entries) \o <<Token("e")>>
Entry(key, tokens) == <<Key(key)>> \o tokens
Num(n) == <<IntToken(n)>>
Str(s) == <<StrToken(s, 8)>>

Announce == Entry("announce", Str("url"))
Length(n) == Entry("length", Num(n))
Name(s) == Entry("name", Str(s))
PieceLength(n) == Entry("piece length", Num(n))
Hashes(s, bytes) == Entry("pieces", <<StrToken(s, bytes)>>)

Info(name, size, pieceLength, hashes, count) ==
    Entry("info", Dictionary(<<Length(size), Name(name), PieceLength(pieceLength),
                               Hashes(hashes, 20 * count)>>))

\* Five pieces of two blocks, the last one shorter.
Regular5 == Dictionary(<<Announce, Info("a", 4 * 32768 + 20000, 32768, "h5", 5)>>)

\* Another torrent of the same name, a whole number of pieces as in
\* debian.torrent, and a list of lists before info.
Whole6 == Dictionary(<<Announce,
                       Entry("announce-list", ListOf(<<ListOf(<<Str("url")>>)>>)),
                       Info("a", 6 * 16384, 16384, "h6", 6)>>)

\* Pieces that are no whole number of blocks.
Ragged2 == Dictionary(<<Announce, Info("b", 20000 + 5, 20000, "r2", 2)>>)

\* Keys out of order, one of them twice.
Unsorted3 == Dictionary(<<Info("b", 1, 16384, "x", 5), Announce,
    Entry("info", Dictionary(<<Hashes("u3", 60), PieceLength(16384), Name("b"),
                               Length(2 * 16384 + 1)>>))>>)

\* Fewer pieces than the header: isComplete never holds.
Short3 == Dictionary(<<Announce, Info("b", 40000, 16384, "h3", 3)>>)

\* Several files: getFileSize gives the length of the first.
MultiFile == Dictionary(<<Announce, Entry("info", Dictionary(<<
    Entry("files", ListOf(<<Dictionary(<<Length(100), Entry("path", ListOf(<<Str("p")>>))>>),
                            Dictionary(<<Length(200), Entry("path", ListOf(<<Str("q")>>))>>)>>)),
    Name("b"), PieceLength(16384), Hashes("m1", 20)>>))>>)

\* A key of a dictionary that comes before info is found first.
Shadowed == Dictionary(<<Announce, Entry("httpseeds", Dictionary(<<Length(7)>>)),
                         Info("b", 50000, 16384, "s4", 4)>>)

\* A sign, a number and a length that the encoder writes in another way.
PlusNumber == Dictionary(<<Announce, Entry("info", Dictionary(<<
    Entry("length", <<NotPlain(IntToken(9))>>), Name("b"), PieceLength(16384),
    Hashes("p1", 20)>>))>>)
ZeroPadded == Dictionary(<<Announce, Entry("info", Dictionary(<<
    Length(9), Entry("name", <<NotPlain(StrToken("b", 8))>>), PieceLength(16384),
    Hashes("z1", 20)>>))>>)

\* Not plain, but outside info.
PaddedAnnounce == Dictionary(<<Entry("announce", <<NotPlain(StrToken("url", 8))>>),
                               Info("b", 16384 + 9, 16384, "q2", 2)>>)

\* All that the construction asks for, but no info.
NoInfo == Dictionary(<<Announce, Length(70000), Name("a"), PieceLength(16384),
                       Hashes("i5", 100)>>)

NoAnnounce == Dictionary(<<Info("b", 70000, 16384, "n5", 5)>>)
NoPieces == Dictionary(<<Announce, Entry("info", Dictionary(<<Length(5), Name("b"),
                                                               PieceLength(16384)>>))>>)
NoLength == Dictionary(<<Announce, Entry("info", Dictionary(<<Name("b"), PieceLength(16384),
                                                               Hashes("l1", 20)>>))>>)
HalfHash == Dictionary(<<Announce, Info("b", 5, 16384, "half", 0),
                         Hashes("half", 30)>>)
NoPieceLength == Dictionary(<<Announce, Info("b", 5, 0, "zero", 1)>>)
NameNumber == Dictionary(<<Entry("name", Num(3))>>)
Cut == SubSeq(Regular5, 1, Len(Regular5) - 1)
NumberKey == <<Token("d")>> \o Num(1) \o Num(2) \o <<Token("e")>>
AList == ListOf(<<Num(1), Str("s"), Dictionary(<<Length(2)>>)>>)
Garbage == <<Token("d"), Key("info"), Token("?"), Token("e")>>
Leftover == Short3 \o <<Token("e")>>

MCSortedFiles == {Regular5, Whole6, Ragged2, Short3, MultiFile, Shadowed, NoAnnounce,
                  PlusNumber, ZeroPadded, PaddedAnnounce, NoInfo}

MCTorrentFiles == MCSortedFiles \union
    {Unsorted3, NoPieces, NoLength, NoPieceLength, HalfHash, NameNumber, Cut, NumberKey,
     AList, Garbage, Leftover, <<>>}

MCMetadata == FileMetadata

=============================================================================
