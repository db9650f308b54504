----------------------------- MODULE PeerRegistry -----------------------------
(***************************************************************************)
(* PeerRegistry: the map from peer id to bitfield that all worker threads  *)
(* share.  The map's domain is the set of registered peers and a bitfield  *)
(* is the set of pieces whose bit is set, or the empty string, which       *)
(* hasPeer tests for.  A bitfield that is not empty has full length.       *)
(*                                                                         *)
(* addPeer, updatePeer and removePeer hold the registry's own mutex for    *)
(* their whole duration and are single steps.  hasPeer and peerHasPiece    *)
(* take no lock: their callers read whatever the map holds at that step.   *)
(***************************************************************************)
EXTENDS Torrent

CONSTANTS Peers,         \* the ids remote peers announce in their handshake
          EmptyBitField  \* the payload of a Bitfield message that has none

ASSUME PeerRegistryAssumption == \A S \in SUBSET Pieces : S # EmptyBitField

VARIABLE peers  \* peers_

IsBitField(f) == f = EmptyBitField \/ f \subseteq Pieces

PeersTypeOK == /\ DOMAIN peers \subseteq Peers
               /\ \A q \in DOMAIN peers : IsBitField(peers[q])

HasPeer(q) == q \in DOMAIN peers /\ peers[q] # EmptyBitField

\* A peer that is not registered has no piece, nor has the empty string a bit.
PeerHasPiece(q, p) == HasPeer(q) /\ p \in peers[q]

\* An id that is registered already gets the new bitfield.
AddPeer(q, bitField) ==
    peers' = [r \in DOMAIN peers \union {q} |-> IF r = q THEN bitField ELSE peers[r]]

\* Updating an unknown peer is an error the caller ignores.  On the empty
\* string setPiece writes where there is no character: the string stays empty.
UpdatePeer(q, p) ==
    peers' = [r \in DOMAIN peers |->
                IF r = q /\ HasPeer(r) THEN peers[r] \union {p} ELSE peers[r]]

\* Removing an unknown peer is an error the caller ignores.
RemovePeer(q) ==
    peers' = [r \in DOMAIN peers \ {q} |-> peers[r]]

=============================================================================
