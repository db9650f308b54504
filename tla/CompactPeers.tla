---------------------------- MODULE CompactPeers ----------------------------
(***************************************************************************)
(* The compact form of a tracker's list of peers: the bytes of a string,   *)
(* six for each peer.                                                      *)
(***************************************************************************)
EXTENDS Integers, Sequences, TLC

PeerInfoSize == 6       \* peer_info_size

Peer(ip, port) == [ip |-> ip, port |-> port]

\* What a call yields: a list of peers, an error, or the end of the process
\* by an exception or a null pointer.
Peers(list) == [outcome |-> "peers", peers |-> list]
Error == [outcome |-> "error", peers |-> <<>>]
Death == [outcome |-> "death", peers |-> <<>>]

DottedIp(bytes) == ToString(bytes[1]) \o "." \o ToString(bytes[2]) \o "."
                     \o ToString(bytes[3]) \o "." \o ToString(bytes[4])

\* Variant of CompactPeer that reads the port's bytes in the other order.
CompactPeerLittleEndian(info) == Peer(DottedIp(info), 256 * info[6] + info[5])

\* Six bytes: the address and the port, in network order.
CompactPeer(info) == Peer(DottedIp(info), 256 * info[5] + info[6])

DecodeCompact(blob) ==
    IF Len(blob) % PeerInfoSize # 0 THEN Error
    ELSE Peers([i \in 1 .. Len(blob) \div PeerInfoSize |->
                   CompactPeer(SubSeq(blob, PeerInfoSize * (i - 1) + 1, PeerInfoSize * i))])

=============================================================================
