-------------------------- MODULE MCPeerConnection --------------------------
(***************************************************************************)
(* Small instances of PeerConnection: the values of the constants that are *)
(* not numbers or model values, the symmetry of the runs without liveness, *)
(* and the bounds.                                                         *)
(***************************************************************************)
EXTENDS PeerConnection, TLC

\* The first piece has two blocks, as all but the last usually do.
MCBlockCount == [p \in Pieces |-> IF p = 0 THEN 2 ELSE 1]

OneBlockEach == [p \in Pieces |-> 1]

Seeders == {Pieces}
SeedersAndPartial == {Pieces, {0}}
SeedersAndEmpty == {Pieces, EmptyBitField}

\* Workers are interchangeable, and so are peers.
PeerSymmetry == Permutations(Peers)

WorkerPeerSymmetry == Permutations(Workers) \union PeerSymmetry

\* Bound of the runs with corrupt data, where entries of reset blocks pile up.
FewPendingRequests == Len(pendingRequests) <= 2

=============================================================================
