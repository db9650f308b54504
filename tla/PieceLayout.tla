----------------------------- MODULE PieceLayout -----------------------------
(***************************************************************************)
(* The pieces and blocks PieceManager::initiatePieces cuts a file into: a  *)
(* file of `size` bytes, of n hashes, of pieces of `pieceLength` bytes.    *)
(* Pieces are numbered from 0, and so are the blocks of a piece.           *)
(***************************************************************************)
EXTENDS Integers

BlockSize == 16384      \* BLOCK_SIZE

\* ceil(static_cast<double>(a) / BLOCK_SIZE), exact below 2^53.
CeilBlocks(a) == (a + BlockSize - 1) \div BlockSize

AtLeastOne(a) == IF a < 1 THEN 1 ELSE a

\* rem_length of the last piece.
RemLength(pieceLength, size) == size % pieceLength

BlockCountOf(i, n, pieceLength, size) ==
    IF i = n - 1 THEN AtLeastOne(CeilBlocks(RemLength(pieceLength, size)))
    ELSE CeilBlocks(pieceLength)

BlockOffset(j) == j * BlockSize

\* Variant of BlockLength that gives the last block of every piece the rest.
BlockLengthOfRest(i, j, n, pieceLength, size) ==
    IF j = BlockCountOf(i, n, pieceLength, size) - 1
      THEN RemLength(pieceLength, size) % BlockSize
      ELSE BlockSize

BlockLength(i, j, n, pieceLength, size) ==
    IF i = n - 1 /\ j = BlockCountOf(i, n, pieceLength, size) - 1
      THEN RemLength(pieceLength, size) % BlockSize
      ELSE BlockSize

-----------------------------------------------------------------------------
(* What a layout is for.                                                   *)

\* The bytes that belong to piece i.
PieceSize(i, n, pieceLength, size) ==
    IF i = n - 1 THEN size - (n - 1) * pieceLength ELSE pieceLength

\* Every block has bytes to ask for, each begins where the one before it ends,
\* and the last one ends with the piece.
BlocksTile(i, n, pieceLength, size) ==
    LET count == BlockCountOf(i, n, pieceLength, size)
    IN  \A j \in 0 .. count - 1 :
            /\ BlockLength(i, j, n, pieceLength, size) > 0
            /\ BlockOffset(j) + BlockLength(i, j, n, pieceLength, size) =
                   IF j = count - 1 THEN PieceSize(i, n, pieceLength, size)
                   ELSE BlockOffset(j + 1)

Tiles(n, pieceLength, size) ==
    \A i \in 0 .. n - 1 : BlocksTile(i, n, pieceLength, size)

\* Numbers that fit together: the last piece is not empty and not too long.
Fitting(n, pieceLength, size) ==
    /\ n \in Nat \ {0} /\ pieceLength \in Nat \ {0} /\ size \in Nat
    /\ (n - 1) * pieceLength < size
    /\ size <= n * pieceLength

\* What the arithmetic of initiatePieces needs to cut a file up right: whole
\* blocks in every piece but the last, and a rest in the last one.
Regular(n, pieceLength, size) ==
    /\ n = 1 \/ pieceLength % BlockSize = 0
    /\ RemLength(pieceLength, size) % BlockSize # 0

=============================================================================
