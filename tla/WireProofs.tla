----------------------------- MODULE WireProofs -----------------------------
(***************************************************************************)
(* Theorems about Wire for all peers, whatever bytes they send, and for    *)
(* any number of connections.                                              *)
(***************************************************************************)
EXTENDS Wire, BitFieldProofs, SequenceTheorems

\* SocketsClosed and what it rests on: descriptors are numbered as they are
\* opened, and a worker that looks for the next peer either holds no
\* descriptor or has given up the one it holds.
DescriptorInv ==
    /\ connections \in Nat
    /\ openFds \subseteq 1 .. connections
    /\ pc = "idle" => sock = 0 \/ sock \in refused
    /\ SocketsClosed

LEMMA InitDescriptors == Init => DescriptorInv
PROOF
  BY DEF Init, DescriptorInv, SocketsClosed

\* An exception leaves nothing open but what had been given up.
LEMMA FailDescriptors ==
    ASSUME DescriptorInv, Fail
    PROVE  DescriptorInv'
PROOF
  BY DEF DescriptorInv, SocketsClosed, Fail, CloseDescriptor

\* So does the return of an error, which gives up the descriptor.
LEMMA ReturnErrorDescriptors ==
    ASSUME DescriptorInv, ReturnError
    PROVE  DescriptorInv'
PROOF
  BY DEF DescriptorInv, SocketsClosed, ReturnError

\* A step that leaves the descriptors alone and does not end the connection.
LEMMA KeepDescriptors ==
    ASSUME DescriptorInv, UNCHANGED fdVars, pc' # "idle" \/ pc' = pc
    PROVE  DescriptorInv'
PROOF
  BY DEF DescriptorInv, SocketsClosed, fdVars

\* The descriptor that is overwritten was none, or one given up.
LEMMA ConnectDescriptors ==
    ASSUME DescriptorInv, Connect
    PROVE  DescriptorInv'
PROOF
<1>1. /\ connections' = connections + 1
      /\ sock' = connections'
      /\ openFds' = openFds \union {sock'}
      /\ refused' = refused
      /\ pc = "idle"
  BY DEF Connect
<1>2. pc' # "idle"
  BY DEF Connect, StartReading
<1>3. openFds \subseteq refused
  <2>1. 0 \notin openFds
    BY DEF DescriptorInv
  <2> QED
    BY <1>1, <2>1 DEF DescriptorInv, SocketsClosed
<1> QED
  BY <1>1, <1>2, <1>3 DEF DescriptorInv, SocketsClosed

LEMMA ReceiveDataDescriptors ==
    ASSUME DescriptorInv, ReceiveData
    PROVE  DescriptorInv'
PROOF
<1>1. CASE PollReady
  BY <1>1, KeepDescriptors DEF PollReady
<1>2. CASE PollTimeout
  BY <1>2, FailDescriptors DEF PollTimeout
<1>3. CASE RecvLength
  <2>1. pc' # "idle" /\ UNCHANGED fdVars
    BY <1>3 DEF RecvLength, StartReading
  <2> QED
    BY <2>1, KeepDescriptors
<1>4. CASE RecvLengthFails
  BY <1>4, FailDescriptors DEF RecvLengthFails
<1>5. CASE Recv
  <2>1. \/ pc' = "handle" /\ UNCHANGED fdVars
        \/ Fail
        \/ UNCHANGED <<pc, fdVars>>
    BY <1>5 DEF Recv
  <2> QED
    BY <2>1, FailDescriptors, KeepDescriptors
<1>6. CASE RecvFails
  BY <1>6, FailDescriptors DEF RecvFails
<1> QED
  BY <1>1, <1>2, <1>3, <1>4, <1>5, <1>6 DEF ReceiveData

LEMMA HandleDescriptors ==
    ASSUME DescriptorInv, Handle
    PROVE  DescriptorInv'
PROOF
<1>1. CASE HandleHandshake
  <2>1. ReturnError \/ (pc' = "poll" /\ UNCHANGED fdVars)
    BY <1>1 DEF HandleHandshake, StartPolling
  <2> QED
    BY <2>1, ReturnErrorDescriptors, KeepDescriptors
<1>2. CASE HandleBitField
  <2>1. ReturnError \/ (pc' = "poll" /\ UNCHANGED fdVars)
    BY <1>2 DEF HandleBitField, StartPolling
  <2> QED
    BY <2>1, ReturnErrorDescriptors, KeepDescriptors
<1>3. CASE HandleMessage
  <2>1. \/ pc' = "exit" /\ UNCHANGED fdVars
        \/ Fail
        \/ pc' = "poll" /\ UNCHANGED fdVars
    BY <1>3 DEF HandleMessage, StartPolling
  <2> QED
    BY <2>1, FailDescriptors, KeepDescriptors
<1>4. CASE WriteBeyondBitField
  BY <1>4, KeepDescriptors DEF WriteBeyondBitField
<1> QED
  BY <1>1, <1>2, <1>3, <1>4 DEF Handle

LEMMA NextDescriptors ==
    ASSUME DescriptorInv, [Next]_vars
    PROVE  DescriptorInv'
PROOF
<1>1. CASE Connect
  BY <1>1, ConnectDescriptors
<1>2. CASE ConnectFails
  BY <1>2, FailDescriptors DEF ConnectFails
<1>3. CASE ReceiveData
  BY <1>3, ReceiveDataDescriptors
<1>4. CASE Handle
  BY <1>4, HandleDescriptors
<1>5. CASE Network
  BY <1>5, KeepDescriptors DEF Network, Arrive, PeerCloses, TimePasses
<1>6. CASE Finished \/ UNCHANGED vars
  BY <1>6, KeepDescriptors DEF Finished, vars
<1> QED
  BY <1>1, <1>2, <1>3, <1>4, <1>5, <1>6 DEF Next

\* Whatever a peer sends and wherever a connection breaks, every descriptor
\* but the current one has been closed or was given up by an establishment
\* that returned an error (PeerConnection::start, closeSock).
THEOREM SocketsAreClosed == Spec => []SocketsClosed
PROOF
<1>1. Spec => []DescriptorInv
  BY InitDescriptors, NextDescriptors, PTL DEF Spec
<1>2. DescriptorInv => SocketsClosed
  BY DEF DescriptorInv
<1> QED
  BY <1>1, <1>2, PTL

-----------------------------------------------------------------------------
(* Types.                                                                  *)

\* What TypeOK rests on: what has been read has been taken out of the socket,
\* and a worker that reads holds an open descriptor.
TypeInv == /\ TypeOK
           /\ got <= consumed
           /\ Connected => sock \in openFds

LEMMA ByteFromEndType ==
    ASSUME NEW bytes \in BitFieldBytes, NEW k \in Nat
    PROVE  ByteFromEnd(bytes, k) \in Bytes
PROOF
<1>1. CASE k < Len(bytes)
  <2>1. Len(bytes) - k \in 1 .. Len(bytes)
    BY <1>1 DEF BitFieldBytes
  <2> QED
    BY <1>1, <2>1 DEF ByteFromEnd, BitFieldBytes
<1>2. CASE ~(k < Len(bytes))
  BY <1>2 DEF ByteFromEnd, Bytes
<1> QED
  BY <1>1, <1>2

LEMMA BytesToIntType ==
    ASSUME NEW bytes \in BitFieldBytes
    PROVE  BytesToInt(bytes) \in Nat
PROOF
<1>1. \A k \in 0 .. 3 : ByteFromEnd(bytes, k) \in Nat
  BY ByteFromEndType DEF Bytes
<1> QED
  BY <1>1 DEF BytesToInt

\* What receiveData returns are bytes, and a message that is not empty has an
\* id and a payload.
LEMMA ReceivedMessageType ==
    ASSUME TypeInv
    PROVE  ReceivedMessage \in Messages
PROOF
<1>1. /\ script.stream \in BitFieldBytes
      /\ arrived \in 0 .. Len(script.stream)
      /\ consumed \in 0 .. arrived
      /\ need \in Nat /\ got \in 0 .. need /\ got <= consumed
  BY ScriptsAssumption, SizesAssumption DEF TypeInv, TypeOK
<1>2. CASE got = 0
  <2>1. <<>> \in BitFieldBytes
    BY DEF BitFieldBytes
  <2> QED
    BY <1>2, <2>1 DEF ReceivedMessage, Message, Messages, kKeepAlive, Bytes
<1>3. CASE got # 0
  <2> DEFINE first == consumed - got + 1
             stream == script.stream
  <2>1. /\ first \in 1 .. consumed + 1 /\ consumed \in 0 .. Len(stream)
        /\ consumed - first + 1 = got
        /\ got \in Nat \ {0}
        /\ stream \in Seq(Bytes)
    BY <1>1, <1>3 DEF BitFieldBytes
  <2>2. Reply \in Seq(Bytes) /\ Len(Reply) = got
    <3> HIDE DEF first, stream
    <3>0. \A i \in first .. consumed : stream[i] \in Bytes
      BY <2>1
    <3>1. /\ SubSeq(stream, first, consumed) \in Seq(Bytes)
          /\ Len(SubSeq(stream, first, consumed))
               = IF first <= consumed THEN consumed - first + 1 ELSE 0
      BY <2>1, <3>0, SubSeqProperties
    <3> QED
      BY <2>1, <3>1 DEF Reply, first, stream
  <2>3. Reply # <<>>
    BY <2>1, <2>2
  <2>4. Head(Reply) \in Bytes /\ Tail(Reply) \in Seq(Bytes)
    BY <2>2, <2>3
  <2> QED
    BY <1>3, <2>4 DEF ReceivedMessage, Message, Messages, BitFieldBytes
<1> QED
  BY <1>2, <1>3

\* TypeOK in groups of variables that the steps change together.
ReadType == /\ consumed \in 0 .. arrived /\ need \in 0 .. MaxBuffer
            /\ got \in 0 .. need /\ got <= consumed

StreamType == script \in Scripts /\ arrived \in 0 .. Len(script.stream)

FdType == /\ sock \in openFds \union {0}
          /\ openFds \subseteq 1 .. connections
          /\ refused \subseteq 1 .. connections
          /\ connections \in 0 .. MaxConnections

FlagType == late \in BOOLEAN /\ eof \in BOOLEAN

ControlType == /\ pc \in {"idle", "poll", "length", "read", "handle", "exit", "dead"}
               /\ stage \in {"handshake", "bitfield", "loop"}
               /\ Connected => sock \in openFds

TypesInGroups == /\ StreamType /\ ReadType /\ FdType /\ FlagType /\ ControlType
                 /\ bits \in BitFieldBytes

LEMMA TypeGroups ==
    /\ TypeInv <=> TypesInGroups
    /\ TypesInGroups' => TypeInv'
PROOF
  BY DEF TypeInv, TypeOK, TypesInGroups, StreamType, ReadType, FdType, FlagType,
         ControlType

LEMMA InitTypes == Init => TypeInv
PROOF
<1> SUFFICES ASSUME Init
             PROVE  TypeInv
  OBVIOUS
<1>1. StreamType
  <2>1. Len(script.stream) \in Nat
    BY ScriptsAssumption DEF Init, BitFieldBytes
  <2> QED
    BY <2>1 DEF Init, StreamType
<1>2. ReadType /\ FdType
  BY SizesAssumption DEF Init, ReadType, FdType
<1>3. FlagType
  BY DEF Init, FlagType
<1>4. ControlType
  BY DEF Init, ControlType, Connected
<1>5. bits \in BitFieldBytes
  BY DEF Init, BitFieldBytes
<1> QED
  BY <1>1, <1>2, <1>3, <1>4, <1>5, TypeGroups DEF TypesInGroups

LEMMA FailTypes ==
    ASSUME FdType, ControlType, Fail
    PROVE  FdType' /\ ControlType' /\ bits' \in BitFieldBytes
PROOF
<1>1. FdType'
  BY DEF FdType, Fail, CloseDescriptor
<1>2. ControlType'
  BY DEF ControlType, Fail, Connected
<1>3. bits' \in BitFieldBytes
  BY DEF Fail, BitFieldBytes
<1> QED
  BY <1>1, <1>2, <1>3

LEMMA ReturnErrorTypes ==
    ASSUME FdType, ControlType, Connected, ReturnError
    PROVE  FdType' /\ ControlType' /\ UNCHANGED <<bits, late>>
PROOF
  BY DEF FdType, ControlType, ReturnError, Connected

LEMMA StartPollingTypes ==
    ASSUME ControlType, Connected, StartPolling, UNCHANGED fdVars,
           stage' \in {"handshake", "bitfield", "loop"}
    PROVE  ControlType' /\ late' \in BOOLEAN
PROOF
<1>1. ControlType'
  BY DEF ControlType, StartPolling, Connected, fdVars
<1>2. late' \in BOOLEAN
  BY DEF StartPolling
<1> QED
  BY <1>1, <1>2

\* A read of no more than the buffer holds, of which nothing is there yet.
LEMMA StartReadingTypes ==
    ASSUME NEW size \in 0 .. MaxBuffer, StartReading(size),
           arrived' \in Nat, consumed' \in 0 .. arrived'
    PROVE  /\ ReadType'
           /\ late' \in BOOLEAN
           /\ pc' \in {"read", "handle"}
PROOF
<1>1. ReadType'
  BY SizesAssumption DEF ReadType, StartReading
<1>2. late' \in BOOLEAN
  BY DEF StartReading
<1>3. pc' \in {"read", "handle"}
  BY DEF StartReading
<1> QED
  BY <1>1, <1>2, <1>3

\* What does not touch the descriptors keeps their type.
LEMMA KeepTypes ==
    /\ FdType /\ UNCHANGED fdVars => FdType'
    /\ FdType /\ ControlType /\ UNCHANGED <<pc, stage, fdVars>> => ControlType'
    /\ StreamType /\ UNCHANGED <<script, arrived>> => StreamType'
    /\ ReadType /\ UNCHANGED <<arrived, consumed, need, got>> => ReadType'
    /\ FlagType /\ UNCHANGED <<late, eof>> => FlagType'
PROOF
  BY DEF FdType, ControlType, StreamType, ReadType, FlagType, fdVars, Connected

LEMMA ConnectTypes ==
    ASSUME TypeInv, Connect
    PROVE  TypeInv'
PROOF
<1>1. StreamType'
  <2>1. script' \in Scripts /\ arrived' = 0
    BY DEF Connect
  <2>2. Len(script'.stream) \in Nat
    BY <2>1, ScriptsAssumption DEF BitFieldBytes
  <2> QED
    BY <2>1, <2>2 DEF StreamType
<1>2. ReadType' /\ pc' \in {"read", "handle"} /\ late' \in BOOLEAN
  <2>1. HandshakeSize \in 0 .. MaxBuffer
    BY SizesAssumption
  <2>2. arrived' = 0 /\ consumed' = 0 /\ StartReading(HandshakeSize)
    BY DEF Connect
  <2> QED
    BY <2>1, <2>2, StartReadingTypes
<1>3. FdType' /\ sock' \in openFds'
  BY TypeGroups, SizesAssumption DEF TypesInGroups, Connect, FdType
<1>4. FlagType'
  BY <1>2 DEF Connect, FlagType
<1>5. stage' = "handshake" /\ bits' \in BitFieldBytes
  BY TypeGroups DEF TypesInGroups, Connect
<1>6. ControlType'
  BY <1>2, <1>3, <1>5 DEF ControlType, Connected
<1> QED
  BY <1>1, <1>2, <1>3, <1>4, <1>5, <1>6, TypeGroups DEF TypesInGroups

LEMMA ReceiveDataTypes ==
    ASSUME TypeInv, ReceiveData
    PROVE  TypeInv'
PROOF
<1>0. /\ StreamType /\ ReadType /\ FdType /\ FlagType /\ ControlType
      /\ bits \in BitFieldBytes
  BY TypeGroups DEF TypesInGroups
<1>1. CASE PollReady
  <2>1. UNCHANGED <<stage, script, arrived, eof, consumed, need, got, late, bits>>
        /\ UNCHANGED fdVars /\ pc = "poll" /\ pc' = "length"
    BY <1>1 DEF PollReady, peerVars, readVars
  <2>2. ControlType'
    BY <1>0, <2>1 DEF ControlType, Connected, fdVars
  <2> QED
    BY <1>0, <2>1, <2>2, KeepTypes, TypeGroups DEF TypesInGroups
<1>2. CASE PollTimeout \/ RecvLengthFails \/ RecvFails
  <2>1. Fail /\ UNCHANGED <<script, arrived, eof, consumed, need, got, late>>
    BY <1>2 DEF PollTimeout, RecvLengthFails, RecvFails, peerVars, readVars
  <2> QED
    BY <1>0, <2>1, FailTypes, KeepTypes, TypeGroups DEF TypesInGroups
<1>3. CASE RecvLength
  <2>1. /\ pc = "length" /\ LengthReadable
        /\ consumed' = consumed + LengthSize
        /\ StartReading(BytesToInt(LengthBytes))
        /\ UNCHANGED <<stage, script, arrived, eof, bits>> /\ UNCHANGED fdVars
    BY <1>3 DEF RecvLength, peerVars
  <2>2. consumed' \in 0 .. arrived' /\ arrived' \in Nat
    BY <1>0, <2>1, ScriptsAssumption
    DEF LengthReadable, Available, LengthSize, ReadType, StreamType, BitFieldBytes
  <2>3. BytesToInt(LengthBytes) \in 0 .. MaxBuffer
    <3> DEFINE stream == script.stream
    <3>1. /\ stream \in Seq(Bytes) /\ consumed + LengthSize \in 0 .. Len(stream)
          /\ consumed \in Nat
      BY <1>0, <2>1, ScriptsAssumption
      DEF LengthReadable, Available, LengthSize, ReadType, StreamType, BitFieldBytes
    <3>2. \A i \in consumed + 1 .. consumed + LengthSize : stream[i] \in Bytes
      BY <3>1 DEF LengthSize
    <3>3. LengthBytes \in BitFieldBytes
      <4> HIDE DEF stream
      <4>1. SubSeq(stream, consumed + 1, consumed + LengthSize) \in Seq(Bytes)
        BY <3>1, <3>2, SubSeqProperties DEF LengthSize
      <4> QED
        BY <4>1 DEF LengthBytes, FrameLength, BitFieldBytes, stream
    <3> QED
      BY <2>1, <3>3, BytesToIntType, SizesAssumption DEF LengthReadable
  <2>4. ReadType' /\ late' \in BOOLEAN /\ pc' \in {"read", "handle"}
    BY <2>1, <2>2, <2>3, StartReadingTypes
  <2>5. ControlType'
    BY <1>0, <2>1, <2>4 DEF ControlType, Connected, fdVars
  <2>6. FlagType'
    BY <1>0, <2>1, <2>4 DEF FlagType
  <2> QED
    BY <1>0, <2>1, <2>4, <2>5, <2>6, KeepTypes, TypeGroups DEF TypesInGroups
<1>4. CASE Recv
  <2> DEFINE n == IF Available < need - got THEN Available ELSE need - got
  <2>1. /\ pc = "read" /\ n > 0
        /\ consumed' = consumed + n /\ got' = got + n
        /\ UNCHANGED <<script, arrived, eof, need, late>>
    BY <1>4 DEF Recv, peerVars
  <2>2. ReadType'
    BY <1>0, <2>1, SizesAssumption, ScriptsAssumption
    DEF ReadType, StreamType, Available, BitFieldBytes
  <2>3. \/ pc' = "handle" /\ UNCHANGED <<stage, bits>> /\ UNCHANGED fdVars
        \/ Fail
        \/ UNCHANGED <<pc, stage, bits>> /\ UNCHANGED fdVars
    BY <1>4 DEF Recv
  <2>4. FdType' /\ ControlType' /\ bits' \in BitFieldBytes
    <3>1. CASE pc' = "handle" /\ UNCHANGED <<stage, bits>> /\ UNCHANGED fdVars
      <4>1. ControlType'
        BY <1>0, <2>1, <3>1 DEF ControlType, Connected, fdVars
      <4> QED
        BY <1>0, <3>1, <4>1, KeepTypes
    <3>2. CASE Fail
      BY <1>0, <3>2, FailTypes
    <3>3. CASE UNCHANGED <<pc, stage, bits>> /\ UNCHANGED fdVars
      BY <1>0, <3>3, KeepTypes
    <3> QED
      BY <2>3, <3>1, <3>2, <3>3
  <2> QED
    BY <1>0, <2>1, <2>2, <2>4, KeepTypes, TypeGroups DEF TypesInGroups
<1> QED
  BY <1>1, <1>2, <1>3, <1>4 DEF ReceiveData

LEMMA HandleTypes ==
    ASSUME TypeInv, Handle
    PROVE  TypeInv'
PROOF
<1>0. /\ StreamType /\ ReadType /\ FdType /\ FlagType /\ ControlType
      /\ bits \in BitFieldBytes /\ eof \in BOOLEAN
  BY TypeGroups DEF TypesInGroups, FlagType
<1> DEFINE Established == \/ ReturnError
                          \/ /\ StartPolling /\ UNCHANGED fdVars
                             /\ stage' \in {"bitfield", "loop"}
<1>a. ASSUME Connected, Established, UNCHANGED <<script, arrived, consumed, need, got, eof>>,
             UNCHANGED bits \/ bits' \in BitFieldBytes
      PROVE  TypeInv'
  <2>1. CASE ReturnError
    BY <1>0, <1>a, <2>1, ReturnErrorTypes, KeepTypes, TypeGroups DEF TypesInGroups
  <2>2. CASE StartPolling /\ UNCHANGED fdVars /\ stage' \in {"bitfield", "loop"}
    <3>1. ControlType' /\ late' \in BOOLEAN
      BY <1>0, <1>a, <2>2, StartPollingTypes
    <3>2. FlagType'
      BY <1>0, <1>a, <3>1 DEF FlagType
    <3> QED
      BY <1>0, <1>a, <2>2, <3>1, <3>2, KeepTypes, TypeGroups DEF TypesInGroups
  <2> QED
    BY <1>a, <2>1, <2>2
<1>1. CASE HandleHandshake
  <2>1. /\ Connected /\ Established
        /\ UNCHANGED <<script, arrived, consumed, need, got, eof, bits>>
    BY <1>1 DEF HandleHandshake, ReturnError, Connected, peerVars
  <2> QED
    BY <2>1, <1>a
<1>2. CASE HandleBitField
  <2>1. /\ Connected /\ Established
        /\ UNCHANGED <<script, arrived, consumed, need, got, eof>>
        /\ bits' = bits \/ bits' = ReceivedMessage.payload
    BY <1>2 DEF HandleBitField, ReturnError, Connected, peerVars
  <2>2. ReceivedMessage.payload \in BitFieldBytes
    BY ReceivedMessageType DEF Messages
  <2> QED
    BY <2>1, <2>2, <1>a
<1>3. CASE HandleMessage
  <2> DEFINE m == ReceivedMessage
  <2>1. /\ pc = "handle" /\ stage = "loop"
        /\ UNCHANGED <<script, arrived, eof, consumed, need, got>>
    BY <1>3 DEF HandleMessage, peerVars
  <2>2. CASE pc' = "exit" /\ UNCHANGED <<stage, late, bits>> /\ UNCHANGED fdVars
    <3>1. ControlType'
      BY <1>0, <2>2 DEF ControlType, Connected, fdVars
    <3> QED
      BY <1>0, <2>1, <2>2, <3>1, KeepTypes, TypeGroups DEF TypesInGroups
  <2>3. CASE Fail /\ UNCHANGED late
    BY <1>0, <2>1, <2>3, FailTypes, KeepTypes, TypeGroups DEF TypesInGroups
  <2>4. CASE /\ bits' = IF m.id = kHave /\ InBitField(bits, BytesToInt(m.payload))
                          THEN SetPiece(bits, BytesToInt(m.payload))
                          ELSE bits
             /\ StartPolling /\ UNCHANGED stage /\ UNCHANGED fdVars
    <3>1. BytesToInt(m.payload) \in Nat
      BY ReceivedMessageType, BytesToIntType DEF Messages
    <3>2. bits' \in BitFieldBytes
      BY <1>0, <2>4, <3>1, SetPieceSetsOneBit
    <3>3. ControlType' /\ late' \in BOOLEAN
      BY <1>0, <2>1, <2>4, StartPollingTypes DEF Connected
    <3>4. FlagType'
      BY <1>0, <2>1, <3>3 DEF FlagType
    <3> QED
      BY <1>0, <2>1, <2>4, <3>2, <3>3, <3>4, KeepTypes, TypeGroups DEF TypesInGroups
  <2> QED
    BY <1>3, <2>2, <2>3, <2>4 DEF HandleMessage
<1>4. CASE WriteBeyondBitField
  <2>1. /\ pc' = "dead" /\ UNCHANGED fdVars
        /\ UNCHANGED <<stage, script, arrived, eof, consumed, need, got, late, bits>>
    BY <1>4 DEF WriteBeyondBitField, peerVars, readVars
  <2>2. ControlType'
    BY <1>0, <2>1 DEF ControlType, Connected, fdVars
  <2> QED
    BY <1>0, <2>1, <2>2, KeepTypes, TypeGroups DEF TypesInGroups
<1> QED
  BY <1>1, <1>2, <1>3, <1>4 DEF Handle

LEMMA NetworkTypes ==
    ASSUME TypeInv, Network
    PROVE  TypeInv'
PROOF
<1>0. /\ StreamType /\ ReadType /\ FdType /\ FlagType /\ ControlType
      /\ bits \in BitFieldBytes
  BY TypeGroups DEF TypesInGroups
<1>1. UNCHANGED <<pc, stage, script, consumed, need, got, bits>> /\ UNCHANGED fdVars
  BY DEF Network, Arrive, PeerCloses, TimePasses, peerVars, readVars
<1>2. FdType' /\ ControlType'
  BY <1>0, <1>1, KeepTypes
<1>3. FlagType'
  BY <1>0 DEF Network, Arrive, PeerCloses, TimePasses, FlagType, peerVars, readVars
<1>4. StreamType' /\ ReadType'
  <2>1. CASE Arrive
    BY <1>0, <1>1, <2>1, ScriptsAssumption, SizesAssumption
    DEF Arrive, StreamType, ReadType, BitFieldBytes
  <2>2. CASE PeerCloses \/ TimePasses
    BY <1>0, <1>1, <2>2, KeepTypes DEF PeerCloses, TimePasses, peerVars
  <2> QED
    BY <2>1, <2>2 DEF Network
<1> QED
  BY <1>0, <1>1, <1>2, <1>3, <1>4, TypeGroups DEF TypesInGroups

LEMMA NextTypes ==
    ASSUME TypeInv, [Next]_vars
    PROVE  TypeInv'
PROOF
<1>0. /\ StreamType /\ ReadType /\ FdType /\ FlagType /\ ControlType
      /\ bits \in BitFieldBytes
  BY TypeGroups DEF TypesInGroups
<1>1. CASE ConnectFails
  <2>1. Fail /\ UNCHANGED <<script, arrived, eof, consumed, need, got, late>>
    BY <1>1 DEF ConnectFails, peerVars, readVars
  <2> QED
    BY <1>0, <2>1, FailTypes, KeepTypes, TypeGroups DEF TypesInGroups
<1>2. CASE Finished \/ UNCHANGED vars
  BY <1>0, <1>2, KeepTypes, TypeGroups
  DEF TypesInGroups, Finished, vars, peerVars, readVars, fdVars
<1> QED
  BY <1>1, <1>2, ConnectTypes, ReceiveDataTypes, HandleTypes, NetworkTypes DEF Next

\* Every variable keeps its type whatever the peers send: no more is read than
\* was sent and fits in the buffer, and what is read are bytes.
THEOREM TypeCorrect == Spec => []TypeOK
PROOF
<1>1. Spec => []TypeInv
  BY InitTypes, NextTypes, PTL DEF Spec
<1>2. TypeInv => TypeOK
  BY DEF TypeInv
<1> QED
  BY <1>1, <1>2, PTL

-----------------------------------------------------------------------------
(* The registry's bitfield.                                                *)

\* Before the Bitfield message nothing has been received, and afterwards the
\* bits are those that have been announced.
AnnouncedInv == /\ delivered \in Seq(Messages)
                /\ stage # "loop" /\ Connected => delivered = <<>>
                /\ stage = "loop" /\ Connected => delivered # <<>>
                /\ RegistryShowsAnnounced

\* One message more adds what it says if it is a Have within the bitfield.
LEMMA AnnouncedByAppended ==
    ASSUME NEW messages \in Seq(Messages), messages # <<>>,
           NEW m \in Messages, NEW size \in Nat
    PROVE  AnnouncedByHave(Append(messages, m), size) =
               AnnouncedByHave(messages, size) \union
               {index \in 0 .. 8 * size - 1 :
                   m.id = kHave /\ BytesToInt(m.payload) = index}
PROOF
<1> DEFINE after == Append(messages, m)
<1>1. /\ Len(after) = Len(messages) + 1 /\ Len(messages) \in Nat \ {0}
      /\ \A i \in 1 .. Len(messages) : after[i] = messages[i]
      /\ after[Len(messages) + 1] = m
  OBVIOUS
<1>2. 2 .. Len(after) = (2 .. Len(messages)) \union {Len(messages) + 1}
  BY <1>1
<1>3. \A i \in 2 .. Len(messages) : after[i] = messages[i]
  BY <1>1
<1> HIDE DEF after
<1>4. ASSUME NEW index
      PROVE  (\E i \in 2 .. Len(after) :
                  after[i].id = kHave /\ BytesToInt(after[i].payload) = index)
               <=> \/ \E i \in 2 .. Len(messages) :
                         /\ messages[i].id = kHave
                         /\ BytesToInt(messages[i].payload) = index
                   \/ m.id = kHave /\ BytesToInt(m.payload) = index
  BY <1>1, <1>2, <1>3
<1>5. AnnouncedByHave(after, size) =
          AnnouncedByHave(messages, size) \union
          {index \in 0 .. 8 * size - 1 :
              m.id = kHave /\ BytesToInt(m.payload) = index}
  BY <1>4 DEF AnnouncedByHave
<1> QED
  BY <1>5 DEF after

\* Nothing is announced while there is no connection.
LEMMA UnconnectedAnnounced ==
    ASSUME delivered' \in Seq(Messages), ~Connected'
    PROVE  AnnouncedInv'
PROOF
  BY DEF AnnouncedInv, RegistryShowsAnnounced

\* The same connection, bits and messages.
LEMMA KeepAnnounced ==
    ASSUME AnnouncedInv, Connected, UNCHANGED <<stage, bits, delivered>>
    PROVE  AnnouncedInv'
PROOF
  BY DEF AnnouncedInv, RegistryShowsAnnounced

LEMMA ReceiveDataAnnounced ==
    ASSUME AnnouncedInv, ReceiveData
    PROVE  AnnouncedInv'
PROOF
<1>1. Connected /\ UNCHANGED delivered
  BY DEF ReceiveData, PollReady, PollTimeout, RecvLength, RecvLengthFails, Recv,
         RecvFails, Connected
<1>2. \/ Fail
      \/ UNCHANGED <<stage, bits>>
  BY DEF ReceiveData, PollReady, PollTimeout, RecvLength, RecvLengthFails, Recv,
         RecvFails
<1>3. CASE Fail
  BY <1>1, <1>3, UnconnectedAnnounced DEF AnnouncedInv, Fail, Connected
<1> QED
  BY <1>1, <1>2, <1>3, KeepAnnounced

LEMMA HandleBitFieldAnnounced ==
    ASSUME TypeInv, AnnouncedInv, HandleBitField
    PROVE  AnnouncedInv'
PROOF
<1> DEFINE m == ReceivedMessage
<1>1. m \in Messages
  BY ReceivedMessageType
<1>2. delivered' = <<m>>
  BY DEF HandleBitField, AnnouncedInv, Connected
<1>3. delivered' \in Seq(Messages) /\ Len(delivered') = 1 /\ delivered'[1] = m
  BY <1>1, <1>2
<1>4. CASE ReturnError
  BY <1>3, <1>4, UnconnectedAnnounced DEF ReturnError, Connected
<1>5. CASE bits' = m.payload /\ stage' = "loop"
  <2>1. AnnouncedByHave(delivered', Len(bits')) = {}
    BY <1>3 DEF AnnouncedByHave
  <2>2. PiecesOf(bits') = PiecesOf(delivered'[1].payload)
                            \union AnnouncedByHave(delivered', Len(bits'))
    BY <1>3, <1>5, <2>1
  <2>3. RegistryShowsAnnounced'
    BY <2>2 DEF RegistryShowsAnnounced
  <2>4. delivered' # <<>>
    BY <1>2
  <2> QED
    BY <1>3, <1>5, <2>3, <2>4 DEF AnnouncedInv
<1> QED
  BY <1>4, <1>5 DEF HandleBitField

LEMMA HandleMessageAnnounced ==
    ASSUME TypeInv, AnnouncedInv, HandleMessage
    PROVE  AnnouncedInv'
PROOF
<1> DEFINE m == ReceivedMessage
           index == BytesToInt(m.payload)
<1>1. m \in Messages /\ index \in Nat
  BY ReceivedMessageType, BytesToIntType DEF Messages
<1>2. /\ delivered \in Seq(Messages) /\ delivered # <<>>
      /\ PiecesOf(bits) = PiecesOf(delivered[1].payload)
                            \union AnnouncedByHave(delivered, Len(bits))
      /\ stage = "loop" /\ delivered' = Append(delivered, m)
  BY DEF HandleMessage, AnnouncedInv, RegistryShowsAnnounced, Connected
<1>3. delivered' \in Seq(Messages) /\ delivered' # <<>> /\ delivered'[1] = delivered[1]
  BY <1>1, <1>2
<1>4. CASE pc' = "exit" \/ Fail
  BY <1>3, <1>4, UnconnectedAnnounced DEF Fail, Connected
<1>5. CASE /\ bits' = IF m.id = kHave /\ InBitField(bits, index)
                        THEN SetPiece(bits, index) ELSE bits
           /\ UNCHANGED stage
  <2>1. bits \in BitFieldBytes /\ Len(bits) \in Nat
    BY DEF TypeInv, TypeOK, BitFieldBytes
  <2> DEFINE new == {i \in 0 .. 8 * Len(bits) - 1 : m.id = kHave /\ index = i}
  <2>2. AnnouncedByHave(delivered', Len(bits)) =
            AnnouncedByHave(delivered, Len(bits)) \union new
    <3> HIDE DEF m
    <3> QED
      BY <1>1, <1>2, <2>1, AnnouncedByAppended
  <2>3. Len(bits') = Len(bits) /\ PiecesOf(bits') = PiecesOf(bits) \union new
    <3>1. CASE m.id = kHave /\ InBitField(bits, index)
      <4>1. index \in 0 .. 8 * Len(bits) - 1
        <5> HIDE DEF index
        <5> QED
          BY <1>1, <2>1, <3>1 DEF InBitField
      <4>2. new = {index}
        BY <3>1, <4>1
      <4> QED
        BY <1>1, <1>5, <2>1, <3>1, <4>2, SetPieceSetsOneBit, SetPieceAddsPiece
    <3>2. CASE ~(m.id = kHave /\ InBitField(bits, index))
      <4>1. ~InBitField(bits, index) => index \notin 0 .. 8 * Len(bits) - 1
        <5> HIDE DEF index
        <5> QED
          BY <1>1, <2>1 DEF InBitField
      <4>2. new = {}
        BY <3>2, <4>1
      <4> QED
        BY <1>5, <3>2, <4>2
    <3> QED
      BY <3>1, <3>2
  <2>4. PiecesOf(bits') = PiecesOf(delivered'[1].payload)
                            \union AnnouncedByHave(delivered', Len(bits'))
    BY <1>2, <1>3, <2>2, <2>3
  <2>5. RegistryShowsAnnounced'
    BY <2>4 DEF RegistryShowsAnnounced
  <2> QED
    BY <1>2, <1>3, <1>5, <2>5 DEF AnnouncedInv
<1> QED
  BY <1>4, <1>5 DEF HandleMessage

LEMMA NextAnnounced ==
    ASSUME TypeInv, AnnouncedInv, [Next]_vars
    PROVE  AnnouncedInv'
PROOF
<1>1. CASE Connect
  <2>1. stage' = "handshake" /\ delivered' = <<>>
    BY <1>1 DEF Connect
  <2> QED
    BY <2>1 DEF AnnouncedInv, RegistryShowsAnnounced
<1>2. CASE ConnectFails
  BY <1>2, UnconnectedAnnounced DEF ConnectFails, Fail, Connected, AnnouncedInv
<1>3. CASE ReceiveData
  BY <1>3, ReceiveDataAnnounced
<1>4. CASE HandleHandshake
  <2>1. delivered = <<>> /\ delivered' = delivered /\ (stage' = "bitfield" \/ ReturnError)
    BY <1>4 DEF HandleHandshake, AnnouncedInv, Connected
  <2>2. CASE ReturnError
    BY <2>1, <2>2, UnconnectedAnnounced DEF ReturnError, Connected, AnnouncedInv
  <2>3. CASE stage' = "bitfield"
    BY <2>1, <2>3 DEF AnnouncedInv, RegistryShowsAnnounced
  <2> QED
    BY <2>1, <2>2, <2>3
<1>5. CASE HandleBitField
  BY <1>5, HandleBitFieldAnnounced
<1>6. CASE HandleMessage
  BY <1>6, HandleMessageAnnounced
<1>7. CASE WriteBeyondBitField
  BY <1>7, UnconnectedAnnounced DEF WriteBeyondBitField, Connected, AnnouncedInv
<1>8. CASE Network \/ Finished \/ UNCHANGED vars
  <2>1. UNCHANGED <<pc, stage, bits, delivered>>
    BY <1>8 DEF Network, Arrive, PeerCloses, TimePasses, Finished, vars
  <2> QED
    BY <2>1 DEF AnnouncedInv, RegistryShowsAnnounced, Connected
<1> QED
  BY <1>1, <1>2, <1>3, <1>4, <1>5, <1>6, <1>7, <1>8 DEF Next, Handle

\* For every peer: the registry shows the pieces that the peer has announced,
\* no more and no less, as long as its messages are read (receiveBitField, the
\* Have case of PeerConnection::start, PeerRegistry::updatePeer).
THEOREM AnnouncedIsShown == Spec => []RegistryShowsAnnounced
PROOF
<1>1. Init => AnnouncedInv
  BY DEF Init, AnnouncedInv, RegistryShowsAnnounced, Connected
<1>2. TypeInv /\ AnnouncedInv /\ [Next]_vars => AnnouncedInv'
  BY NextAnnounced
<1>3. Spec => [](TypeInv /\ AnnouncedInv)
  BY InitTypes, NextTypes, <1>1, <1>2, PTL DEF Spec
<1>4. AnnouncedInv => RegistryShowsAnnounced
  BY DEF AnnouncedInv
<1> QED
  BY <1>3, <1>4, PTL

-----------------------------------------------------------------------------
(* Frames.  FramesKept says that the worker implements FifoChannel; by then *)
(* what a step needs to know is where in the bytes the worker stands.       *)

\* Where a worker stands in the bytes: between two messages when it polls, in
\* the handshake, or behind the length of the message that comes next.
FrameInv ==
    LET k == Len(delivered) IN
    /\ Connected => k <= Len(script.messages)
    /\ pc \in {"poll", "length"} => /\ stage # "handshake"
                                    /\ consumed = script.ends[k]
    /\ pc \in {"read", "handle"} /\ stage = "handshake" =>
           consumed = got /\ need = HandshakeSize
    /\ pc \in {"read", "handle"} /\ stage # "handshake" =>
           /\ consumed = script.ends[k] + LengthSize + got
           /\ IsInt(FrameLength(script, script.ends[k]))
           /\ need = BytesToInt(FrameLength(script, script.ends[k]))
    /\ pc = "handle" => got = need

\* A message that is no keep-alive: four bytes of length, the id, the payload.
LEMMA StringOfMessage ==
    ASSUME NEW m \in Messages, m.id # kKeepAlive
    PROVE  LET string == MessageToString(m)
               length == Len(m.payload) + 1
           IN  /\ Len(string) = length + 4
               /\ string[1] = 0 /\ string[2] = 0
               /\ string[3] = length \div 256 /\ string[4] = length % 256
               /\ string[5] = m.id
               /\ \A j \in 1 .. Len(m.payload) : string[5 + j] = m.payload[j]
PROOF
<1> DEFINE length == Len(m.payload) + 1
           head == <<0, 0, length \div 256, length % 256, m.id>>
<1>1. /\ m.payload \in Seq(Int) /\ Len(m.payload) \in Nat /\ m.id \in Int
  <2>1. m.payload \in Seq(Bytes) /\ m.id \in Bytes
    BY DEF Messages, BitFieldBytes
  <2>2. Bytes \subseteq Int
    BY DEF Bytes
  <2>3. m.payload \in Seq(Int)
    BY <2>1, <2>2, SeqMonotonic
  <2>4. Len(m.payload) \in Nat
    BY <2>1
  <2>5. m.id \in Int
    BY <2>1, <2>2
  <2> QED
    BY <2>3, <2>4, <2>5
<1>2. length \div 256 \in Int /\ length % 256 \in Int
  BY <1>1
<1>3. head \in Seq(Int) /\ Len(head) = 5
  BY <1>1, <1>2
<1>4. MessageToString(m) = head \o m.payload
  BY DEF MessageToString
<1>5. /\ head[1] = 0 /\ head[2] = 0 /\ head[5] = m.id
      /\ head[3] = length \div 256 /\ head[4] = length % 256
  OBVIOUS
<1> DEFINE string == MessageToString(m)
<1> HIDE DEF head, string, length
<1>6. /\ Len(string) = 5 + Len(m.payload)
      /\ \A i \in 1 .. 5 + Len(m.payload) :
            string[i] = IF i <= 5 THEN head[i] ELSE m.payload[i - 5]
  <2>1. /\ Len(head \o m.payload) = Len(head) + Len(m.payload)
        /\ \A i \in 1 .. Len(head) + Len(m.payload) : (head \o m.payload)[i] =
               IF i <= Len(head) THEN head[i] ELSE m.payload[i - Len(head)]
    BY <1>1, <1>3, ConcatProperties
  <2> QED
    BY <1>3, <1>4, <2>1 DEF string
<1>7. \A i \in 1 .. 5 : string[i] = head[i]
  BY <1>1, <1>6
<1>8. \A j \in 1 .. Len(m.payload) : string[5 + j] = m.payload[j]
  <2> TAKE j \in 1 .. Len(m.payload)
  <2>1. 5 + j \in 1 .. 5 + Len(m.payload) /\ ~(5 + j <= 5) /\ 5 + j - 5 = j
    BY <1>1
  <2> QED
    BY <1>6, <2>1
<1>9. Len(string) = length + 4
  BY <1>1, <1>6 DEF length
<1>10. /\ string[1] = 0 /\ string[2] = 0 /\ string[5] = m.id
       /\ string[3] = length \div 256 /\ string[4] = length % 256
  BY <1>5, <1>7
<1> QED
  BY <1>8, <1>9, <1>10 DEF string, length

\* The bytes of the i-th message lie in the stream before its end.
LEMMA FrameBytes ==
    ASSUME NEW s \in Scripts, NEW i \in 1 .. Len(s.messages)
    PROVE  LET string == MessageToString(s.messages[i])
           IN  /\ s.messages[i] \in Messages
               /\ s.ends[i - 1] \in Nat
               /\ s.ends[i] = s.ends[i - 1] + Len(string)
               /\ s.ends[i] <= Len(s.stream)
               /\ Len(string) \in Nat
               /\ \A j \in 1 .. Len(string) : s.stream[s.ends[i - 1] + j] = string[j]
PROOF
<1> DEFINE string == MessageToString(s.messages[i])
           e == s.ends[i - 1]
<1>1. /\ s.messages \in Seq(Messages) /\ s.stream \in Seq(Bytes)
      /\ s.ends \in [0 .. Len(s.messages) -> Nat]
  BY ScriptsAssumption DEF BitFieldBytes
<1>2. /\ s.messages[i] \in Messages /\ i \in DOMAIN s.messages
      /\ e \in Nat /\ s.ends[i] \in Nat
  BY <1>1
<1>3. /\ s.ends[i] = e + Len(string)
      /\ s.ends[i] <= Len(s.stream)
      /\ SubSeq(s.stream, e + 1, s.ends[i]) = string
  BY <1>2, FramesAssumption DEF Frame
<1>4. Len(string) \in Nat
  <2>1. CASE s.messages[i].id = kKeepAlive
    BY <2>1 DEF MessageToString
  <2>2. CASE s.messages[i].id # kKeepAlive
    <3>1. Len(s.messages[i].payload) \in Nat
      BY <1>2 DEF Messages, BitFieldBytes
    <3> QED
      BY <1>2, <2>2, <3>1, StringOfMessage
  <2> QED
    BY <2>1, <2>2
<1> HIDE DEF e, string
<1>5. \A j \in 1 .. Len(string) : s.stream[e + j] = string[j]
  <2>1. \A j \in e + 1 .. s.ends[i] : s.stream[j] \in Bytes
    BY <1>1, <1>2, <1>3
  <2>2. \A j \in 1 .. s.ends[i] - (e + 1) + 1 :
            SubSeq(s.stream, e + 1, s.ends[i])[j] = s.stream[e + 1 + j - 1]
    BY <1>2, <2>1, SubSeqProperties
  <2> TAKE j \in 1 .. Len(string)
  <2>3. j \in 1 .. s.ends[i] - (e + 1) + 1 /\ e + 1 + j - 1 = e + j
    BY <1>2, <1>3, <1>4
  <2> QED
    BY <1>3, <2>2, <2>3
<1> QED
  BY <1>2, <1>3, <1>4, <1>5 DEF e, string

\* The number of which length \div 256 and length % 256 are the low bytes.
LEMMA LengthOfBytes ==
    ASSUME NEW bytes, Len(bytes) = 4, bytes[1] = 0, bytes[2] = 0,
           NEW length \in Nat, bytes[3] = length \div 256, bytes[4] = length % 256
    PROVE  BytesToInt(bytes) = length
PROOF
<1>1. /\ ByteFromEnd(bytes, 0) = length % 256
      /\ ByteFromEnd(bytes, 1) = length \div 256
      /\ ByteFromEnd(bytes, 2) = 0
      /\ ByteFromEnd(bytes, 3) = 0
  BY DEF ByteFromEnd
<1>2. /\ (length % 256) + 256 * (length \div 256) = length
      /\ length % 256 \in Nat /\ length \div 256 \in Nat
  OBVIOUS
<1> QED
  BY <1>1, <1>2 DEF BytesToInt

\* What a worker has in its hands is the next message of the peer.
LEMMA NextMessageReceived ==
    ASSUME TypeInv, FrameInv, delivered \in Seq(Messages),
           pc = "handle", stage # "handshake"
    PROVE  /\ Len(delivered) < Len(script.messages)
           /\ ReceivedMessage = script.messages[Len(delivered) + 1]
           /\ consumed = script.ends[Len(delivered) + 1]
PROOF
<1> DEFINE k == Len(delivered)
           e == script.ends[k]
           bytes == FrameLength(script, e)
           m == script.messages[k + 1]
           string == MessageToString(m)
           stream == script.stream
<1>1. /\ script \in Scripts
      /\ stream \in Seq(Bytes) /\ Len(stream) \in Nat
      /\ script.messages \in Seq(Messages) /\ Len(script.messages) \in Nat
      /\ script.ends \in [0 .. Len(script.messages) -> Nat]
  BY ScriptsAssumption DEF TypeInv, TypeOK, BitFieldBytes
<1>2. /\ k \in 0 .. Len(script.messages) /\ e \in Nat
      /\ consumed = e + 4 + got /\ got \in Nat /\ got = need
      /\ consumed \in Nat /\ consumed <= Len(stream) /\ need <= MaxBuffer
  BY <1>1, SizesAssumption DEF FrameInv, Connected, TypeInv, TypeOK, LengthSize
<1>3. need = BytesToInt(bytes) /\ IsInt(bytes)
  BY DEF FrameInv
<1>4. k < Len(script.messages)
  <2>1. k # Len(script.messages)
    <3> SUFFICES ASSUME k = Len(script.messages)
                 PROVE  FALSE
      OBVIOUS
    <3>1. MessageFollows(script, e)
      BY <1>1, <1>2, <1>3 DEF MessageFollows, LengthSize
    <3> QED
      BY <1>1, <3>1, FramesAssumption
  <2> QED
    BY <1>1, <1>2, <2>1
<1>5. /\ m \in Messages /\ Len(string) \in Nat
      /\ script.ends[k + 1] = e + Len(string)
      /\ script.ends[k + 1] <= Len(stream)
      /\ \A j \in 1 .. Len(string) : stream[e + j] = string[j]
  <2>1. k + 1 \in 1 .. Len(script.messages) /\ k + 1 - 1 = k
    BY <1>1, <1>2, <1>4
  <2> QED
    BY <1>1, <2>1, FrameBytes
<1> HIDE DEF k, e, stream, string, m
<1>6. Len(string) >= 4 => /\ Len(bytes) = 4
                          /\ \A j \in 1 .. 4 : bytes[j] = string[j]
  <2> SUFFICES ASSUME Len(string) >= 4
               PROVE  /\ Len(bytes) = 4
                      /\ \A j \in 1 .. 4 : bytes[j] = string[j]
    OBVIOUS
  <2>1. \A j \in e + 1 .. e + 4 : stream[j] \in Bytes
    BY <1>1, <1>2, <1>5
  <2>2. /\ Len(SubSeq(stream, e + 1, e + 4)) =
              IF e + 1 <= e + 4 THEN e + 4 - (e + 1) + 1 ELSE 0
        /\ \A j \in 1 .. e + 4 - (e + 1) + 1 :
              SubSeq(stream, e + 1, e + 4)[j] = stream[e + 1 + j - 1]
    BY <1>2, <2>1, SubSeqProperties
  <2>3. bytes = SubSeq(stream, e + 1, e + 4)
    BY DEF FrameLength, LengthSize, stream
  <2>4. Len(bytes) = 4
    <3>1. e + 1 <= e + 4 /\ e + 4 - (e + 1) + 1 = 4
      BY <1>2
    <3> QED
      BY <2>2, <2>3, <3>1
  <2>5. \A j \in 1 .. 4 : bytes[j] = stream[e + j]
    <3> TAKE j \in 1 .. 4
    <3>1. j \in 1 .. e + 4 - (e + 1) + 1 /\ e + 1 + j - 1 = e + j
      BY <1>2
    <3> QED
      BY <2>2, <2>3, <3>1
  <2>6. \A j \in 1 .. 4 : stream[e + j] = string[j]
    BY <1>5
  <2> QED
    BY <2>4, <2>5, <2>6
<1>7. m = [id |-> m.id, payload |-> m.payload]
  BY <1>5 DEF Messages
<1>8. CASE m.id = kKeepAlive
  <2>1. string = <<0, 0, 0, 0>>
    BY <1>8 DEF string, MessageToString
  <2>2. Len(string) = 4 /\ \A j \in 1 .. 4 : string[j] = 0
    BY <2>1
  <2>3. BytesToInt(bytes) = 0
    <3>1. 0 = 0 \div 256 /\ 0 = 0 % 256
      OBVIOUS
    <3> QED
      BY <1>6, <2>2, <3>1, LengthOfBytes
  <2>4. m.payload = <<>>
    <3>1. k + 1 \in DOMAIN script.messages
      BY <1>1, <1>2, <1>4
    <3> QED
      BY <1>1, <1>8, <3>1, FramesAssumption DEF m
  <2>5. got = 0 /\ ReceivedMessage = m
    BY <1>2, <1>3, <1>7, <1>8, <2>3, <2>4 DEF ReceivedMessage, Message
  <2>6. consumed = script.ends[k + 1]
    BY <1>2, <1>5, <2>2, <2>5
  <2> QED
    BY <1>4, <2>5, <2>6 DEF k, m
<1>9. CASE m.id # kKeepAlive
  <2> DEFINE length == Len(m.payload) + 1
  <2>1. /\ Len(string) = length + 4
        /\ string[1] = 0 /\ string[2] = 0
        /\ string[3] = length \div 256 /\ string[4] = length % 256
        /\ string[5] = m.id
        /\ \A j \in 1 .. Len(m.payload) : string[5 + j] = m.payload[j]
    BY <1>5, <1>9, StringOfMessage DEF string
  <2>2. m.payload \in Seq(Bytes) /\ Len(m.payload) \in Nat
    BY <1>5 DEF Messages, BitFieldBytes
  <2> HIDE DEF length
  <2>3. got = length
    <3>1. Len(string) >= 4 /\ length \in Nat
      BY <2>1, <2>2 DEF length
    <3>2. /\ Len(bytes) = 4 /\ bytes[1] = 0 /\ bytes[2] = 0
          /\ bytes[3] = length \div 256 /\ bytes[4] = length % 256
      BY <1>6, <2>1, <3>1
    <3>3. BytesToInt(bytes) = length
      BY <3>1, <3>2, LengthOfBytes
    <3> QED
      BY <1>2, <1>3, <3>3
  <2>4. length \in Nat /\ length >= 1 /\ Len(m.payload) = length - 1
    BY <2>2 DEF length
  <2>5. consumed = script.ends[k + 1]
    BY <1>2, <1>5, <2>1, <2>3, <2>4
  <2>6. /\ Reply \in Seq(Bytes) /\ Len(Reply) = length
        /\ \A j \in 1 .. length : Reply[j] = string[4 + j]
    <3>1. consumed - got + 1 = e + 5 /\ consumed = e + 4 + length
      BY <1>2, <2>4, <2>3
    <3>2. \A j \in e + 5 .. e + 4 + length : stream[j] \in Bytes
      BY <1>1, <1>2, <2>4, <3>1
    <3>3. /\ SubSeq(stream, e + 5, e + 4 + length) \in Seq(Bytes)
          /\ Len(SubSeq(stream, e + 5, e + 4 + length)) =
                IF e + 5 <= e + 4 + length THEN e + 4 + length - (e + 5) + 1 ELSE 0
          /\ \A j \in 1 .. e + 4 + length - (e + 5) + 1 :
                SubSeq(stream, e + 5, e + 4 + length)[j] = stream[e + 5 + j - 1]
      BY <1>2, <2>4, <3>2, SubSeqProperties
    <3>4. Reply = SubSeq(stream, e + 5, e + 4 + length)
      BY <3>1 DEF Reply, stream
    <3>5. Len(Reply) = length /\ Reply \in Seq(Bytes)
      BY <1>2, <2>4, <3>3, <3>4
    <3>6. \A j \in 1 .. length : Reply[j] = string[4 + j]
      <4> TAKE j \in 1 .. length
      <4>1. /\ j \in 1 .. e + 4 + length - (e + 5) + 1 /\ e + 5 + j - 1 = e + (4 + j)
            /\ 4 + j \in 1 .. Len(string)
        BY <1>2, <2>1, <2>4
      <4> QED
        BY <1>5, <3>3, <3>4, <4>1
    <3> QED
      BY <3>5, <3>6
  <2>7. Reply # <<>> /\ Head(Reply) = m.id
    <3>1. Reply # <<>>
      BY <2>6, <2>4
    <3>2. Head(Reply) = Reply[1]
      BY <2>6, <3>1
    <3>3. Reply[1] = string[5]
      BY <2>6, <2>4
    <3> QED
      BY <2>1, <3>1, <3>2, <3>3
  <2>8. Tail(Reply) = m.payload
    <3>1. /\ Tail(Reply) \in Seq(Bytes) /\ Len(Tail(Reply)) = length - 1
          /\ \A j \in 1 .. length - 1 : Tail(Reply)[j] = Reply[j + 1]
      BY <2>6, <2>4, <2>7, HeadTailProperties
    <3>2. \A j \in 1 .. length - 1 : Tail(Reply)[j] = m.payload[j]
      <4> TAKE j \in 1 .. length - 1
      <4>1. j + 1 \in 1 .. length /\ 4 + (j + 1) = 5 + j /\ j \in 1 .. Len(m.payload)
        BY <2>4
      <4>2. Tail(Reply)[j] = Reply[j + 1] /\ Reply[j + 1] = string[4 + (j + 1)]
        BY <2>6, <3>1, <4>1
      <4> QED
        BY <2>1, <4>1, <4>2
    <3> QED
      BY <2>2, <2>4, <3>1, <3>2, SeqEqual
  <2>9. got # 0
    BY <2>3, <2>4
  <2>10. ReceivedMessage = m
    BY <1>7, <2>7, <2>8, <2>9 DEF ReceivedMessage, Message
  <2> QED
    BY <1>4, <2>5, <2>10 DEF k, m
<1> QED
  BY <1>8, <1>9

\* A worker that does not read stands nowhere.
LEMMA UnconnectedFrame ==
    ASSUME ~Connected'
    PROVE  FrameInv'
PROOF
  BY DEF FrameInv, Connected

LEMMA ReceiveDataFrame ==
    ASSUME TypeInv, FrameInv, delivered \in Seq(Messages), ReceiveData
    PROVE  FrameInv' /\ UNCHANGED <<script, delivered>>
PROOF
<1>0. UNCHANGED <<script, delivered>>
  BY DEF ReceiveData, PollReady, PollTimeout, RecvLength, RecvLengthFails, Recv, RecvFails,
         peerVars
<1>1. CASE PollReady
  BY <1>1 DEF PollReady, FrameInv, Connected, peerVars, readVars
<1>2. CASE PollTimeout \/ RecvLengthFails \/ RecvFails
  BY <1>0, <1>2, UnconnectedFrame DEF PollTimeout, RecvLengthFails, RecvFails, Fail, Connected
<1>3. CASE RecvLength
  <2>1. /\ pc = "length" /\ IsInt(LengthBytes)
        /\ consumed' = consumed + LengthSize
        /\ need' = BytesToInt(LengthBytes) /\ got' = 0
        /\ pc' = IF need' = 0 THEN "handle" ELSE "read"
        /\ UNCHANGED stage
    BY <1>3 DEF RecvLength, LengthReadable, StartReading
  <2>2. /\ stage # "handshake" /\ consumed = script.ends[Len(delivered)]
        /\ Len(delivered) <= Len(script.messages)
    BY <2>1 DEF FrameInv, Connected
  <2>3. LengthBytes = FrameLength(script, script.ends[Len(delivered)])
    BY <2>2 DEF LengthBytes
  <2>4. consumed \in Nat
    BY ScriptsAssumption DEF TypeInv, TypeOK, BitFieldBytes
  <2>5. consumed' = script.ends[Len(delivered)] + LengthSize + got'
    BY <2>1, <2>2, <2>4 DEF LengthSize
  <2> QED
    BY <1>0, <2>1, <2>2, <2>3, <2>5 DEF FrameInv, Connected
<1>4. CASE Recv
  <2> DEFINE n == IF Available < need - got THEN Available ELSE need - got
  <2>1. /\ pc = "read"
        /\ consumed' = consumed + n /\ got' = got + n
        /\ UNCHANGED need
    BY <1>4 DEF Recv
  <2>2. \/ Fail
        \/ UNCHANGED stage /\ (UNCHANGED pc \/ (pc' = "handle" /\ got' = need))
    BY <1>4 DEF Recv
  <2>3. CASE Fail
    BY <1>0, <2>3, UnconnectedFrame DEF Fail, Connected
  <2>4. CASE UNCHANGED stage /\ (UNCHANGED pc \/ (pc' = "handle" /\ got' = need))
    <3>1. /\ consumed \in Nat /\ got \in Nat /\ n \in Int
      BY ScriptsAssumption, SizesAssumption DEF TypeInv, TypeOK, BitFieldBytes, Available
    <3>2. Len(delivered) <= Len(script.messages)
      BY <2>1 DEF FrameInv, Connected
    <3>3. CASE stage = "handshake"
      <4>1. consumed = got /\ need = HandshakeSize
        BY <2>1, <3>3 DEF FrameInv
      <4> QED
        BY <1>0, <2>1, <2>4, <3>1, <3>2, <3>3, <4>1 DEF FrameInv
    <3>4. CASE stage # "handshake"
      <4> DEFINE e == script.ends[Len(delivered)]
      <4>1. /\ consumed = e + LengthSize + got
            /\ IsInt(FrameLength(script, e)) /\ need = BytesToInt(FrameLength(script, e))
        BY <2>1, <3>4 DEF FrameInv
      <4>2. e \in Int
        <5>1. /\ script.ends \in [0 .. Len(script.messages) -> Nat]
              /\ Len(delivered) \in Nat /\ Len(script.messages) \in Nat
          BY ScriptsAssumption DEF TypeInv, TypeOK
        <5> QED
          BY <3>2, <5>1
      <4>3. consumed' = e + LengthSize + got'
        <5> HIDE DEF n, e
        <5> QED
          BY <2>1, <3>1, <4>1, <4>2 DEF LengthSize
      <4> QED
        BY <1>0, <2>1, <2>4, <3>2, <3>4, <4>1, <4>3 DEF FrameInv
    <3> QED
      BY <3>3, <3>4
  <2> QED
    BY <1>0, <2>2, <2>3, <2>4
<1> QED
  BY <1>0, <1>1, <1>2, <1>3, <1>4 DEF ReceiveData

\* The handling of a message hands over the next one of the peer's.
LEMMA HandleFrame ==
    ASSUME TypeInv, AnnouncedInv, FrameInv, Handle
    PROVE  /\ FrameInv' /\ UNCHANGED script
           /\ \/ UNCHANGED delivered
              \/ /\ Len(delivered) < Len(script.messages)
                 /\ delivered' = Append(delivered, script.messages[Len(delivered) + 1])
PROOF
<1>0. UNCHANGED <<script, consumed, need, got>> /\ pc = "handle"
  BY DEF Handle, HandleHandshake, HandleBitField, HandleMessage, WriteBeyondBitField, peerVars,
         readVars
<1>1. CASE HandleHandshake
  <2>1. /\ consumed = HandshakeSize /\ Len(delivered) = 0 /\ UNCHANGED delivered
        /\ script \in Scripts
    BY <1>0, <1>1 DEF HandleHandshake, FrameInv, AnnouncedInv, Connected, TypeInv, TypeOK
  <2>2. CASE ReturnError
    BY <1>0, <2>1, <2>2, UnconnectedFrame DEF ReturnError, Connected
  <2>3. CASE stage' = "bitfield" /\ pc' = "poll"
    BY <1>0, <2>1, <2>3, FramesAssumption DEF FrameInv, Connected
  <2> QED
    BY <1>0, <1>1, <2>1, <2>2, <2>3 DEF HandleHandshake, StartPolling
<1>2. CASE HandleBitField \/ HandleMessage
  <2>1. /\ stage # "handshake"
        /\ delivered' = Append(delivered, ReceivedMessage)
        /\ \/ pc' \in {"idle", "exit"}
           \/ pc' = "poll" /\ stage' # "handshake"
    BY <1>2 DEF HandleBitField, HandleMessage, ReturnError, StartPolling, Fail
  <2>2. /\ delivered \in Seq(Messages)
        /\ Len(delivered) < Len(script.messages)
        /\ ReceivedMessage = script.messages[Len(delivered) + 1]
        /\ consumed = script.ends[Len(delivered) + 1]
    BY <1>0, <2>1, NextMessageReceived DEF AnnouncedInv
  <2>3. Len(delivered') = Len(delivered) + 1 /\ Len(delivered) \in Nat
    <3>1. ReceivedMessage \in Messages
      BY ReceivedMessageType
    <3> QED
      BY <2>1, <2>2, <3>1
  <2>4. FrameInv'
    <3>1. CASE pc' \in {"idle", "exit"}
      BY <3>1, UnconnectedFrame DEF Connected
    <3>2. CASE pc' = "poll" /\ stage' # "handshake"
      <4>1. Len(script.messages) \in Nat
        BY ScriptsAssumption DEF TypeInv, TypeOK
      <4> QED
        BY <1>0, <2>2, <2>3, <3>2, <4>1 DEF FrameInv, Connected
    <3> QED
      BY <2>1, <3>1, <3>2
  <2> QED
    BY <1>0, <2>1, <2>2, <2>4
<1>3. CASE WriteBeyondBitField
  BY <1>0, <1>3, UnconnectedFrame DEF WriteBeyondBitField, Connected
<1> QED
  BY <1>1, <1>2, <1>3 DEF Handle

\* Every step is one of the channel, or leaves what it shows alone.
LEMMA NextFrame ==
    ASSUME TypeInv, AnnouncedInv, FrameInv, [Next]_vars
    PROVE  FrameInv' /\ [Channel!ChannelNext]_<<script.messages, delivered>>
PROOF
<1>1. CASE Connect
  <2>1. /\ script' \in Scripts /\ delivered' = <<>> /\ stage' = "handshake"
        /\ consumed' = 0 /\ need' = HandshakeSize /\ got' = 0 /\ pc' = "read"
    BY <1>1, SizesAssumption DEF Connect, StartReading
  <2>2. Len(script'.messages) \in Nat /\ Len(delivered') = 0
    BY <2>1, ScriptsAssumption
  <2>3. FrameInv'
    BY <2>1, <2>2 DEF FrameInv
  <2>4. Channel!Reconnect
    BY <2>1 DEF Channel!Reconnect
  <2> QED
    BY <2>3, <2>4 DEF Channel!ChannelNext
<1>2. CASE ConnectFails
  <2>1. UNCHANGED <<script, delivered>> /\ ~Connected'
    BY <1>2 DEF ConnectFails, Fail, Connected, peerVars
  <2> QED
    BY <2>1, UnconnectedFrame
<1>3. CASE ReceiveData
  BY <1>3, ReceiveDataFrame DEF AnnouncedInv
<1>4. CASE Handle
  <2>1. /\ FrameInv' /\ UNCHANGED script
        /\ \/ UNCHANGED delivered
           \/ /\ Len(delivered) < Len(script.messages)
              /\ delivered' = Append(delivered, script.messages[Len(delivered) + 1])
    BY <1>4, HandleFrame
  <2> QED
    BY <2>1 DEF Channel!ChannelNext, Channel!ReceiveNext
<1>5. CASE Network \/ Finished \/ UNCHANGED vars
  <2>1. UNCHANGED <<pc, stage, script, consumed, need, got, delivered>>
    BY <1>5 DEF Network, Arrive, PeerCloses, TimePasses, Finished, vars, peerVars, readVars
  <2> QED
    BY <2>1 DEF FrameInv, Connected
<1> QED
  BY <1>1, <1>2, <1>3, <1>4, <1>5 DEF Next

\* However TCP cuts the stream up and wherever a connection breaks, the worker
\* receives the peer's messages whole, once and in order: the bytes implement
\* FifoChannel (receiveData, receiveMessage).
THEOREM FramesAreKept == Spec => FramesKept
PROOF
<1>1. Init => AnnouncedInv /\ FrameInv /\ Channel!ChannelInit
  BY DEF Init, AnnouncedInv, RegistryShowsAnnounced, Connected, FrameInv, Channel!ChannelInit
<1>2. TypeInv /\ AnnouncedInv /\ FrameInv /\ [Next]_vars =>
          AnnouncedInv' /\ FrameInv' /\ [Channel!ChannelNext]_<<script.messages, delivered>>
  BY NextAnnounced, NextFrame
<1>3. Spec => Channel!ChannelInit /\ [][Channel!ChannelNext]_<<script.messages, delivered>>
  BY InitTypes, NextTypes, <1>1, <1>2, PTL DEF Spec
<1> QED
  BY <1>3 DEF FramesKept, Channel!ChannelSpec

=============================================================================
