------------------------------ MODULE BitField ------------------------------
(***************************************************************************)
(* The bitfields of PeerRegistry, byte by byte: piece `index` is bit       *)
(* 7 - index % 8 of byte index / 8.  A bitfield is a sequence of bytes,    *)
(* the number 0 .. 255 a char stands for.  The code checks no index: one   *)
(* beyond the last byte is not looked up in the string's own memory.       *)
(***************************************************************************)
EXTENDS Integers, Sequences

Bytes == 0 .. 255

BitFieldBytes == Seq(Bytes)

\* 1 << (7 - offset)
BitMask == [offset \in 0 .. 7 |-> <<128, 64, 32, 16, 8, 4, 2, 1>>[offset + 1]]

InBitField(bitField, index) == index \div 8 < Len(bitField)

HasPiece(bitField, index) ==
    (bitField[index \div 8 + 1] \div BitMask[index % 8]) % 2 = 1

\* Variant of SetPiece that counts the bits of a byte from the right.
SetPieceFromRight(bitField, index) ==
    LET byte == index \div 8 + 1
        mask == BitMask[7 - (index % 8)]
    IN  IF (bitField[byte] \div mask) % 2 = 1 THEN bitField
        ELSE [bitField EXCEPT ![byte] = @ + mask]

\* |= sets the bit, or leaves it set.
SetPiece(bitField, index) ==
    IF HasPiece(bitField, index) THEN bitField
    ELSE [bitField EXCEPT ![index \div 8 + 1] = @ + BitMask[index % 8]]

\* The set of pieces that the module PeerRegistry sees.
PiecesOf(bitField) == {index \in 0 .. 8 * Len(bitField) - 1 : HasPiece(bitField, index)}

=============================================================================
