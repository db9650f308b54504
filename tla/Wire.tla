-------------------------------- MODULE Wire --------------------------------
(***************************************************************************)
(* The connections of one worker, byte by byte: createConnection,          *)
(* receiveData, BitTorrentMessage, the handshake, the bitfield and the     *)
(* reading of messages in PeerConnection.  TCP hands over the bytes the    *)
(* peer wrote, in order, in pieces of any size.                            *)
(*                                                                         *)
(* pc is where the worker stands: "idle" in the outer loop of start,       *)
(* "poll", "length" and "read" in receiveData's poll, its recv of the      *)
(* length and its loop, "handle" with all it asked for in its hands, and   *)
(* "exit" or "dead" when start has returned or the process has died.       *)
(* stage says whom it reads for: performHandshake, receiveBitField or the  *)
(* inner loop of start.  The download is not complete in the meantime, and *)
(* what the worker sends is left to the module PeerConnection.             *)
(***************************************************************************)
EXTENDS BitField

CONSTANTS Scripts,         \* what peers may send over a connection
          InfoHash,        \* the torrent that is downloaded
          HandshakeSize,   \* length of a handshake message, 68
          MaxBuffer,       \* numeric_limits<uint16_t>::max(), 65535
          MaxConnections   \* bound on the number of connections

\* The handshake fits in the buffer.
ASSUME SizesAssumption == /\ HandshakeSize \in Nat \ {0} /\ MaxBuffer \in Nat
                          /\ HandshakeSize <= MaxBuffer
                          /\ MaxConnections \in Nat

VARIABLES pc, stage,
          script, arrived, eof,     \* the peer: bytes delivered so far, FIN seen
          consumed,                 \* bytes taken out of the socket
          need, got,                \* bufferSize and bytes_read
          late,                     \* kReadTimeout has passed
          bits,                     \* the registry's bitfield for this peer
          delivered,                \* the messages received: a history
          sock, openFds, refused,   \* sock_, descriptors, those given up open
          connections

peerVars == <<script, arrived, eof>>
readVars == <<consumed, need, got, late>>
fdVars == <<sock, openFds, refused, connections>>
vars == <<pc, stage, peerVars, readVars, bits, delivered, fdVars>>

LengthSize == 4     \* kLengthIndicatorSize

kKeepAlive == 255   \* kEepAlive = -1 as a uint8_t
kHave == 4
kBitField == 5
kPiece == 7
kSeeding == 10      \* the greatest id there is

-----------------------------------------------------------------------------
(* Bytes and messages.                                                     *)

\* stoi throws on no digits and on what is no int.
IsInt(bytes) == /\ bytes # <<>>
                /\ \A i \in 1 .. Len(bytes) - 4 : bytes[i] = 0
                /\ Len(bytes) >= 4 => bytes[Len(bytes) - 3] < 128

\* The k-th byte from the end.
ByteFromEnd(bytes, k) == IF k < Len(bytes) THEN bytes[Len(bytes) - k] ELSE 0

\* The value of what is an int: whatever precedes the last four bytes is 0.
BytesToInt(bytes) == ByteFromEnd(bytes, 0) + 256 * ByteFromEnd(bytes, 1)
                       + 65536 * ByteFromEnd(bytes, 2)
                       + 16777216 * ByteFromEnd(bytes, 3)

Messages == [id : Bytes, payload : BitFieldBytes]

Message(id, payload) == [id |-> id, payload |-> payload]

\* BitTorrentMessage::toString.  A peer's keep-alive is a length of 0.
MessageToString(m) ==
    LET length == Len(m.payload) + 1
    IN  IF m.id = kKeepAlive THEN <<0, 0, 0, 0>>
        ELSE <<0, 0, length \div 256, length % 256, m.id>> \o m.payload

\* The peer's handshake message; of its bytes only the hash matters.
HandshakeBytes == [i \in 1 .. HandshakeSize |-> 0]

\* A script is the torrent the peer serves, the bytes it writes, and where in
\* them the messages end: ends[0] is the end of the handshake.
ASSUME ScriptsAssumption ==
    \A s \in Scripts : /\ DOMAIN s = {"hash", "stream", "messages", "ends"}
                       /\ s.stream \in BitFieldBytes
                       /\ s.messages \in Seq(Messages)
                       /\ s.ends \in [0 .. Len(s.messages) -> Nat]

Frame(s, i) == SubSeq(s.stream, s.ends[i - 1] + 1, s.ends[i])

\* The size a frame that begins after byte e would have, by its length bytes.
FrameLength(s, e) == SubSeq(s.stream, e + 1, e + LengthSize)

\* A whole message, of a size that is accepted, follows byte e.
MessageFollows(s, e) ==
    /\ e + LengthSize <= Len(s.stream)
    /\ IsInt(FrameLength(s, e)) /\ BytesToInt(FrameLength(s, e)) <= MaxBuffer
    /\ e + LengthSize + BytesToInt(FrameLength(s, e)) <= Len(s.stream)

\* The messages are the frames in the bytes, from the handshake on.  What
\* follows the last of them, if anything does, is no message.
ASSUME FramesAssumption ==
    \A s \in Scripts :
        /\ s.ends[0] = HandshakeSize
        /\ SubSeq(s.stream, 1, HandshakeSize) = HandshakeBytes
        /\ \A i \in DOMAIN s.messages :
              /\ s.messages[i].id = kKeepAlive => s.messages[i].payload = <<>>
              /\ s.ends[i] = s.ends[i - 1] + Len(MessageToString(s.messages[i]))
              /\ s.ends[i] <= Len(s.stream)
              /\ Frame(s, i) = MessageToString(s.messages[i])
        /\ ~MessageFollows(s, s.ends[Len(s.messages)])

\* What receiveData returns, and receiveMessage's reading of it.
Reply == SubSeq(script.stream, consumed - got + 1, consumed)

ReceivedMessage == IF got = 0 THEN Message(kKeepAlive, <<>>)
                   ELSE Message(Head(Reply), Tail(Reply))

\* The peer's info hash is 20 bytes and infoHash_ is its 40 hexadecimal digits.
ReceivedInfoHash == [form |-> "raw", of |-> script.hash]
infoHash == [form |-> "hex", of |-> InfoHash]

Available == arrived - consumed

-----------------------------------------------------------------------------

TypeOK == /\ pc \in {"idle", "poll", "length", "read", "handle", "exit", "dead"}
          /\ stage \in {"handshake", "bitfield", "loop"}
          /\ script \in Scripts
          /\ arrived \in 0 .. Len(script.stream)
          /\ consumed \in 0 .. arrived
          /\ need \in 0 .. MaxBuffer /\ got \in 0 .. need
          /\ late \in BOOLEAN /\ eof \in BOOLEAN
          /\ bits \in BitFieldBytes
          /\ sock \in openFds \union {0}
          /\ openFds \subseteq 1 .. connections
          /\ refused \subseteq 1 .. connections
          /\ connections \in 0 .. MaxConnections

Init == /\ pc = "idle" /\ stage = "handshake"
        /\ script \in Scripts /\ arrived = 0 /\ eof = FALSE
        /\ consumed = 0 /\ need = 0 /\ got = 0 /\ late = FALSE
        /\ bits = <<>> /\ delivered = <<>>
        /\ sock = 0 /\ openFds = {} /\ refused = {} /\ connections = 0

\* receiveData begins to read `size` bytes; its clock starts.
StartReading(size) == /\ need' = size /\ got' = 0 /\ late' = FALSE
                      /\ pc' = IF size = 0 THEN "handle" ELSE "read"

\* receiveMessage: receiveData polls for a length.
StartPolling == pc' = "poll" /\ late' = FALSE

\* Variant of CloseDescriptor that forgets it without closing it.
CloseDescriptorForgets == /\ sock' = 0
                          /\ UNCHANGED <<openFds, refused, connections>>

\* closeSock's descriptor.
CloseDescriptor == /\ openFds' = openFds \ {sock}
                   /\ sock' = 0
                   /\ UNCHANGED <<refused, connections>>

\* An exception reaches start: closeSock, and the next peer.
Fail == /\ CloseDescriptor
        /\ bits' = <<>>
        /\ pc' = "idle"
        /\ UNCHANGED stage

-----------------------------------------------------------------------------
(* The network.                                                            *)

Arrive == /\ pc \notin {"idle", "exit", "dead"} /\ ~eof
          /\ arrived < Len(script.stream)
          /\ arrived' = arrived + 1
          /\ UNCHANGED <<pc, stage, script, eof, readVars, bits, delivered, fdVars>>

\* The peer closes the connection, whatever it has sent.
PeerCloses == /\ pc \notin {"idle", "exit", "dead"} /\ ~eof
              /\ eof' = TRUE
              /\ UNCHANGED <<pc, stage, script, arrived, readVars, bits, delivered, fdVars>>

\* 300 ms pass since receiveData was called or began to read.
TimePasses == /\ pc \in {"poll", "read"} /\ ~late
              /\ late' = TRUE
              /\ UNCHANGED <<pc, stage, peerVars, consumed, need, got, bits, delivered, fdVars>>

-----------------------------------------------------------------------------
(* createConnection and receiveData.                                       *)

\* The socket is connected and the handshake sent; a descriptor still in
\* sock_ is overwritten.
Connect == /\ pc = "idle" /\ connections < MaxConnections
           /\ connections' = connections + 1
           /\ sock' = connections'
           /\ openFds' = openFds \union {sock'}
           /\ script' \in Scripts
           /\ arrived' = 0 /\ eof' = FALSE /\ consumed' = 0
           /\ delivered' = <<>>
           /\ stage' = "handshake"
           /\ StartReading(HandshakeSize)
           /\ UNCHANGED <<bits, refused>>

\* createConnection closes its own descriptor; its error is thrown on by
\* value(), and closeSock closes the descriptor of an earlier connection.
ConnectFails == /\ pc = "idle" /\ sock # 0
                /\ Fail
                /\ UNCHANGED <<peerVars, readVars, delivered>>

PollReady == /\ pc = "poll" /\ (Available > 0 \/ eof)
             /\ pc' = "length"
             /\ UNCHANGED <<stage, peerVars, readVars, bits, delivered, fdVars>>

\* Variant of PollTimeout that polls again.
PollTimeoutRetries == /\ pc = "poll" /\ Available = 0 /\ ~eof /\ late
                      /\ StartPolling
                      /\ UNCHANGED <<stage, peerVars, consumed, need, got, bits,
                                     delivered, fdVars>>

PollTimeout == /\ pc = "poll" /\ Available = 0 /\ ~eof /\ late
               /\ Fail
               /\ UNCHANGED <<peerVars, readVars, delivered>>

LengthBytes == FrameLength(script, consumed)

\* Variant of RecvLength that is content with the bytes recv returns.
RecvLengthPartial ==
    LET n == IF Available < LengthSize THEN Available ELSE LengthSize
        bytes == [i \in 1 .. LengthSize |->
                     IF i <= n THEN script.stream[consumed + i] ELSE 0]
    IN  /\ pc = "length" /\ n > 0
        /\ IsInt(bytes) /\ BytesToInt(bytes) <= MaxBuffer
        /\ consumed' = consumed + n
        /\ StartReading(BytesToInt(bytes))
        /\ UNCHANGED <<stage, peerVars, bits, delivered, fdVars>>

\* Variant of LengthReadable without the test of the size.
LengthReadableUnbounded == /\ Available >= LengthSize
                           /\ IsInt(LengthBytes)

\* All four bytes are there and are the length of a message.
LengthReadable == /\ Available >= LengthSize
                  /\ IsInt(LengthBytes) /\ BytesToInt(LengthBytes) <= MaxBuffer

RecvLength == /\ pc = "length" /\ LengthReadable
              /\ consumed' = consumed + LengthSize
              /\ StartReading(BytesToInt(LengthBytes))
              /\ UNCHANGED <<stage, peerVars, bits, delivered, fdVars>>

RecvLengthFails == /\ pc = "length" /\ ~LengthReadable
                   /\ Fail
                   /\ UNCHANGED <<peerVars, readVars, delivered>>

\* One round of the loop: recv waits, without a timeout, for the first byte
\* and takes what is there; the time is looked at if bytes are still missing.
Recv == LET n == IF Available < need - got THEN Available ELSE need - got
        IN  /\ pc = "read" /\ n > 0
            /\ consumed' = consumed + n
            /\ got' = got + n
            /\ IF got' = need
                 THEN pc' = "handle" /\ UNCHANGED <<stage, bits, fdVars>>
                 ELSE IF late THEN Fail
                 ELSE UNCHANGED <<pc, stage, bits, fdVars>>
            /\ UNCHANGED <<peerVars, need, late, delivered>>

RecvFails == /\ pc = "read" /\ Available = 0 /\ eof
             /\ Fail
             /\ UNCHANGED <<peerVars, readVars, delivered>>

-----------------------------------------------------------------------------
(* The handling of what was read.                                          *)

\* An establishment that fails by returning an error leaves the socket open.
ReturnError == /\ pc' = "idle"
               /\ refused' = refused \union {sock}
               /\ UNCHANGED <<stage, bits, late, sock, openFds, connections>>

\* The rest of performHandshake: equal hashes are the error.
HandleHandshake ==
    /\ pc = "handle" /\ stage = "handshake"
    /\ IF ReceivedInfoHash = infoHash
         THEN ReturnError
         ELSE stage' = "bitfield" /\ StartPolling /\ UNCHANGED <<bits, fdVars>>
    /\ UNCHANGED <<peerVars, consumed, need, got, delivered>>

\* receiveBitField, addPeer.
HandleBitField ==
    /\ pc = "handle" /\ stage = "bitfield"
    /\ delivered' = Append(delivered, ReceivedMessage)
    /\ IF ReceivedMessage.id # kBitField
         THEN ReturnError
         ELSE /\ bits' = ReceivedMessage.payload
              /\ stage' = "loop" /\ StartPolling
              /\ UNCHANGED fdVars
    /\ UNCHANGED <<peerVars, consumed, need, got>>

\* The parsing of other payloads throws.
Readable(m) == /\ m.id = kHave => IsInt(m.payload)
               /\ m.id = kPiece => /\ Len(m.payload) >= 8
                                   /\ IsInt(SubSeq(m.payload, 1, 4))
                                   /\ IsInt(SubSeq(m.payload, 5, 8))

HandleMessage ==
    LET m == ReceivedMessage IN
    /\ pc = "handle" /\ stage = "loop"
    /\ delivered' = Append(delivered, m)
    /\ \/ /\ m.id > kSeeding
          /\ pc' = "exit"
          /\ UNCHANGED <<stage, late, bits, fdVars>>
       \/ /\ m.id <= kSeeding /\ ~Readable(m)
          /\ Fail
          /\ UNCHANGED late
       \/ /\ m.id <= kSeeding /\ Readable(m)
          /\ bits' = IF m.id = kHave /\ InBitField(bits, BytesToInt(m.payload))
                       THEN SetPiece(bits, BytesToInt(m.payload))
                       ELSE bits
          /\ StartPolling
          /\ UNCHANGED <<stage, fdVars>>
    /\ UNCHANGED <<peerVars, consumed, need, got>>

\* setPiece writes beyond the bitfield, which the process may not survive.
WriteBeyondBitField ==
    /\ pc = "handle" /\ stage = "loop"
    /\ ReceivedMessage.id = kHave /\ Readable(ReceivedMessage)
    /\ ~InBitField(bits, BytesToInt(ReceivedMessage.payload))
    /\ pc' = "dead"
    /\ UNCHANGED <<stage, peerVars, readVars, bits, delivered, fdVars>>

-----------------------------------------------------------------------------

\* Nothing runs any more.
Finished == /\ \/ pc \in {"exit", "dead"}
               \/ pc = "idle" /\ connections = MaxConnections
            /\ UNCHANGED vars

ReceiveData == \/ PollReady \/ PollTimeout \/ RecvLength \/ RecvLengthFails
               \/ Recv \/ RecvFails

Handle == \/ HandleHandshake \/ HandleBitField \/ HandleMessage
          \/ WriteBeyondBitField

Network == Arrive \/ PeerCloses \/ TimePasses

Next == Connect \/ ConnectFails \/ ReceiveData \/ Handle \/ Network \/ Finished

Spec == Init /\ [][Next]_vars

\* The worker runs when it can, and time passes.  Nothing is assumed of the
\* peer: it may fall silent anywhere and never close the connection.
FairSpec == /\ Spec
            /\ WF_vars(ReceiveData) /\ WF_vars(Handle) /\ WF_vars(TimePasses)

-----------------------------------------------------------------------------
(* Properties.                                                             *)

\* The worker receives a prefix of the messages the peer sends, each of them
\* whole and in order: however TCP cuts the bytes up, wherever the timeout
\* falls and the connection ends, receiveData never loses the frame.
Channel == INSTANCE FifoChannel
    WITH Outboxes <- {s.messages : s \in Scripts}, sent <- script.messages,
         received <- delivered

FramesKept == Channel!ChannelSpec

\* The worker reads from a peer.
Connected == pc \in {"poll", "length", "read", "handle"}

\* Those of the first 8 * size pieces that a Have among the messages names.
AnnouncedByHave(messages, size) ==
    {index \in 0 .. 8 * size - 1 :
        \E i \in 2 .. Len(messages) :
            /\ messages[i].id = kHave
            /\ BytesToInt(messages[i].payload) = index}

\* While a connection is used the registry's bitfield has the bits of exactly
\* the pieces the peer has announced, by its Bitfield message or a Have since.
RegistryShowsAnnounced ==
    stage = "loop" /\ Connected =>
        PiecesOf(bits) = PiecesOf(delivered[1].payload)
                           \union AnnouncedByHave(delivered, Len(bits))

\* Whatever goes wrong, a descriptor that is not in sock_ any more has been
\* closed, unless the peer's first message was no Bitfield.
SocketsClosed == openFds \subseteq {sock} \union refused

\* receiveData has asked for bytes, none has come and the peer has not closed
\* the connection: recv has no timeout.
BlockedInRecv == pc = "read" /\ Available = 0 /\ ~eof

\* A peer that has written its last byte can hold the worker for ever in one
\* way only, by leaving out bytes of the handshake or of a message it has
\* begun: every other connection ends, be it by the timeout of poll.
OnlyRecvHolds == Connected ~> (~Connected \/ []BlockedInRecv)

\* The worker talks to peers that serve its torrent only.
OnlySameTorrent == stage \in {"bitfield", "loop"} => script.hash = InfoHash

=============================================================================
