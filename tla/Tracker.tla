------------------------------- MODULE Tracker -------------------------------
(***************************************************************************)
(* PeerRetriever: what retrievePeers makes of a tracker's answer.  An      *)
(* answer is a status code, a text, and the bytes `blob` of the string the *)
(* text has under the key "peers", if it has one there.  The request is    *)
(* not modelled: nothing depends on it.                                    *)
(***************************************************************************)
EXTENDS Bencode, CompactPeers

\* One item of a list of peers.
DecodeListed(item) ==
    IF item.type # "dictionary" THEN Death
    ELSE LET ip == GetValue(item.map, "ip")
             port == GetValue(item.map, "port")
         IN  CASE ip = NoValue -> Error
               [] ip # NoValue /\ ip.type # "string" -> Death
               [] ip.type = "string" /\ port = NoValue -> Error
               [] ip.type = "string" /\ port # NoValue /\ port.type # "integer" -> Death
               [] OTHER -> Peers(<<Peer(ip.str, port.value)>>)

\* The first item that is no peer decides.
DecodePeerList(items) ==
    LET decoded == [i \in DOMAIN items |-> DecodeListed(items[i])]
        bad == SelectSeq(decoded, LAMBDA d : d.outcome # "peers")
    IN  IF bad # <<>> THEN Head(bad)
        ELSE Peers(FlattenSeq([i \in DOMAIN items |-> decoded[i].peers]))

DecodeResponse(res) ==
    LET response == DecodeString(res.text)
        peers == IF response.type = "dictionary" THEN GetValue(response.map, "peers")
                 ELSE NoValue
    IN  CASE response.type # "dictionary" -> Death
          [] response.type = "dictionary" /\ peers = NoValue -> Error
          [] peers.type = "string" -> DecodeCompact(res.blob)
          [] peers.type = "list" -> DecodePeerList(peers.items)
          [] OTHER -> Error

\* A failed request and an error of decodeResponse give no peers.
RetrievePeers(res) ==
    IF res.status # 200 THEN Peers(<<>>)
    ELSE IF DecodeResponse(res).outcome = "error" THEN Peers(<<>>)
    ELSE DecodeResponse(res)

=============================================================================
