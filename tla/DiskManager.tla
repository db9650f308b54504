----------------------------- MODULE DiskManager -----------------------------
(***************************************************************************)
(* DiskManager: the one output stream all worker threads write through.    *)
(* The file is seen piece by piece: a slot holds the zeros of allocateFile,*)
(* the verified data of the piece that belongs there, or something else.   *)
(* The put position counts in pieces; a write advances it by one piece.    *)
(*                                                                         *)
(* writePiece is called without a lock, so its seekp and its write are two *)
(* steps, and another thread's seekp or write may come between them.       *)
(***************************************************************************)
EXTENDS Torrent

VARIABLES putPos,  \* the put position of downloadedFile_
          file     \* file[p]: what lies where piece p belongs

SlotContents == {"zeros", "data", "corrupt"}

DiskTypeOK == /\ putPos \in Nat
              /\ file \in [Pieces -> SlotContents]

\* The file is opened with truncation and one byte is written at its end.
AllocateFile == /\ putPos = TotalPieces
                /\ file = [p \in Pieces |-> "zeros"]

\* Variant of SeekToPiece that counts pieces from one.
SeekToPieceFromOne(p) == /\ putPos' = p - 1
                         /\ UNCHANGED file

SeekToPiece(p) == /\ putPos' = p
                  /\ UNCHANGED file

\* The data of piece p lands wherever the stream stands.  verified says that
\* it is the data the piece's hash stands for.  Beyond the last piece the
\* file only grows.
WriteAtPutPos(p, verified) ==
    /\ putPos' = putPos + 1
    /\ file' = [s \in Pieces |->
                  IF s # putPos THEN file[s]
                  ELSE IF p = s /\ verified THEN "data" ELSE "corrupt"]

=============================================================================
