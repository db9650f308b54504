------------------------------- MODULE MCWire -------------------------------
(***************************************************************************)
(* Wire with a handshake of 3 bytes and these peers: one that behaves, one *)
(* that says Have of a piece beyond its bitfield, sends a message cut      *)
(* short or a keep-alive, one that serves another torrent and says no      *)
(* Bitfield, and some whose bytes are no messages.                         *)
(***************************************************************************)
EXTENDS Wire, SequencesExt

Strings(messages) == [i \in DOMAIN messages |-> MessageToString(messages[i])]

Script(hash, messages, tail) ==
    [hash |-> hash,
     stream |-> HandshakeBytes \o FlattenSeq(Strings(messages)) \o tail,
     messages |-> messages,
     ends |-> [i \in 0 .. Len(messages) |->
                  HandshakeSize + Len(FlattenSeq(Strings(SubSeq(messages, 1, i))))]]

Have(index) == Message(kHave, <<0, 0, 0, index>>)

MCScripts ==
    {Script("t", <<Message(kBitField, <<160, 4>>), Have(3), Have(12), Have(3)>>, <<>>),
     Script("t", <<Message(kBitField, <<255>>), Have(9), Message(1, <<>>),
                   Message(kKeepAlive, <<>>)>>, <<>>),
     Script("t", <<Message(kBitField, <<1>>),
                   Message(kPiece, <<0, 0, 0, 0, 0, 0, 0, 0, 7>>),
                   Message(kPiece, <<0, 0, 0>>)>>, <<>>),
     Script("t", <<Message(kBitField, <<1>>)>>, <<0, 1, 0, 0>>),
     Script("t", <<Message(kBitField, <<2>>)>>, <<255, 255, 255, 255, 4>>),
     Script("u", <<Message(1, <<>>)>>, <<>>)}

=============================================================================
