------------------------------- MODULE Torrent -------------------------------
(***************************************************************************)
(* The shape of one torrent: its pieces and the blocks they are cut into   *)
(* (Piece.h, Block.h).  A piece is its index; a block is the pair of its   *)
(* piece and its position in the piece, which stands for the byte offset.  *)
(***************************************************************************)
EXTENDS Integers

CONSTANTS TotalPieces,  \* total_pieces_: the number of piece hashes
          BlockCount    \* BlockCount[p]: how many blocks piece p is cut into

ASSUME TorrentAssumption ==
    /\ TotalPieces \in Nat \ {0}
    /\ BlockCount \in [0 .. TotalPieces - 1 -> Nat \ {0}]

Pieces == 0 .. TotalPieces - 1

Blocks(p) == {p} \X (1 .. BlockCount[p])

BlockIds == UNION {Blocks(p) : p \in Pieces}

PieceOf(b) == b[1]

=============================================================================
