--------------------------- MODULE BitFieldProofs ---------------------------
(***************************************************************************)
(* setPiece and hasPiece, for every bitfield and every piece in it, and the *)
(* compact form of a list of peers, for every list.                        *)
(***************************************************************************)
EXTENDS BitField, CompactPeers, SequenceTheorems, TLAPS

\* The mask of each bit.
Masks == {1, 2, 4, 8, 16, 32, 64, 128}

Bit(byte, mask) == (byte \div mask) % 2 = 1

LEMMA MaskOfBit ==
    /\ \A offset \in 0 .. 7 : BitMask[offset] \in Masks
    /\ \A offset, other \in 0 .. 7 : BitMask[offset] = BitMask[other] => offset = other
PROOF
  BY DEF BitMask, Masks

\* To add the mask of a bit that is not set stays within a byte, sets the bit
\* and changes no other.
LEMMA AddMask ==
    ASSUME NEW byte \in Bytes, NEW mask \in Masks, ~Bit(byte, mask),
           NEW other \in Masks
    PROVE  /\ byte + mask \in Bytes
           /\ Bit(byte + mask, other) <=> (other = mask \/ Bit(byte, other))
PROOF
<1>1. CASE mask = 1
  BY <1>1, SMTT(120) DEF Bytes, Masks, Bit
<1>2. CASE mask = 2
  BY <1>2, SMTT(120) DEF Bytes, Masks, Bit
<1>3. CASE mask = 4
  BY <1>3, SMTT(120) DEF Bytes, Masks, Bit
<1>4. CASE mask = 8
  BY <1>4, SMTT(120) DEF Bytes, Masks, Bit
<1>5. CASE mask = 16
  BY <1>5, SMTT(120) DEF Bytes, Masks, Bit
<1>6. CASE mask = 32
  BY <1>6, SMTT(120) DEF Bytes, Masks, Bit
<1>7. CASE mask = 64
  BY <1>7, SMTT(120) DEF Bytes, Masks, Bit
<1>8. CASE mask = 128
  BY <1>8, SMTT(120) DEF Bytes, Masks, Bit
<1> QED
  BY <1>1, <1>2, <1>3, <1>4, <1>5, <1>6, <1>7, <1>8 DEF Masks

\* An index names a byte of the bitfield and a bit of the byte, and no two
\* indices name the same.
LEMMA IndexProperties ==
    ASSUME NEW bitField \in BitFieldBytes, NEW index \in Nat,
           InBitField(bitField, index)
    PROVE  /\ index \div 8 + 1 \in DOMAIN bitField
           /\ bitField[index \div 8 + 1] \in Bytes
           /\ index % 8 \in 0 .. 7
           /\ BitMask[index % 8] \in Masks
           /\ HasPiece(bitField, index)
                <=> Bit(bitField[index \div 8 + 1], BitMask[index % 8])
PROOF
<1>1. index \div 8 \in Nat /\ index % 8 \in 0 .. 7
  OBVIOUS
<1>2. index \div 8 + 1 \in 1 .. Len(bitField)
  BY <1>1 DEF InBitField, BitFieldBytes
<1>3. bitField[index \div 8 + 1] \in Bytes
  BY <1>2 DEF BitFieldBytes
<1> QED
  BY <1>1, <1>2, <1>3, MaskOfBit DEF HasPiece, Bit, BitFieldBytes

LEMMA IndexUnique ==
    ASSUME NEW index \in Nat, NEW other \in Nat,
           index \div 8 = other \div 8, index % 8 = other % 8
    PROVE  index = other
PROOF
  OBVIOUS

\* setPiece leaves a bitfield of the same length with the one bit set
\* (setPiece and hasPiece in PeerRegistry.cpp).
THEOREM SetPieceSetsOneBit ==
    ASSUME NEW bitField \in BitFieldBytes, NEW index \in Nat,
           InBitField(bitField, index)
    PROVE  /\ SetPiece(bitField, index) \in BitFieldBytes
           /\ Len(SetPiece(bitField, index)) = Len(bitField)
           /\ \A other \in Nat :
                InBitField(bitField, other) =>
                    (HasPiece(SetPiece(bitField, index), other)
                       <=> other = index \/ HasPiece(bitField, other))
PROOF
<1>1. CASE HasPiece(bitField, index)
  BY <1>1 DEF SetPiece
<1>2. CASE ~HasPiece(bitField, index)
  <2> DEFINE byte == index \div 8 + 1
             mask == BitMask[index % 8]
             after == [bitField EXCEPT ![byte] = @ + mask]
  <2>1. SetPiece(bitField, index) = after
    BY <1>2 DEF SetPiece
  <2>2. /\ byte \in DOMAIN bitField /\ bitField[byte] \in Bytes
        /\ mask \in Masks /\ ~Bit(bitField[byte], mask)
        /\ index % 8 \in 0 .. 7
    BY <1>2, IndexProperties
  <2>3. bitField[byte] + mask \in Bytes
    BY <2>2, AddMask
  <2>4. after \in BitFieldBytes /\ Len(after) = Len(bitField)
    BY <2>2, <2>3 DEF BitFieldBytes
  <2>5. ASSUME NEW other \in Nat, InBitField(bitField, other)
        PROVE  HasPiece(after, other)
                 <=> other = index \/ HasPiece(bitField, other)
    <3> DEFINE place == other \div 8 + 1
               bit == BitMask[other % 8]
    <3>1. /\ place \in DOMAIN bitField /\ other % 8 \in 0 .. 7 /\ bit \in Masks
          /\ HasPiece(bitField, other) <=> Bit(bitField[place], bit)
      BY <2>5, IndexProperties
    <3>2. InBitField(after, other)
      BY <2>4, <2>5 DEF InBitField
    <3>3. HasPiece(after, other) <=> Bit(after[place], bit)
      BY <2>4, <3>2, IndexProperties
    <3>4. CASE place = byte
      <4>1. after[place] = bitField[byte] + mask
        BY <2>2, <3>4 DEF BitFieldBytes
      <4>2. Bit(after[place], bit) <=> bit = mask \/ Bit(bitField[place], bit)
        BY <2>2, <3>1, <3>4, <4>1, AddMask
      <4>3. bit = mask <=> other = index
        <5>1. bit = mask => other % 8 = index % 8
          BY <2>2, <3>1, MaskOfBit
        <5>2. other \div 8 = index \div 8
          BY <3>4
        <5> QED
          BY <5>1, <5>2, IndexUnique
      <4> QED
        BY <3>1, <3>3, <4>2, <4>3
    <3>5. CASE place # byte
      <4>1. after[place] = bitField[place] /\ other # index
        BY <2>2, <3>1, <3>5 DEF BitFieldBytes
      <4> QED
        BY <3>1, <3>3, <4>1
    <3> QED
      BY <3>4, <3>5
  <2> QED
    BY <2>1, <2>4, <2>5
<1> QED
  BY <1>1, <1>2

\* In terms of the sets of pieces that the module PeerRegistry is about,
\* setPiece adds one element.
THEOREM SetPieceAddsPiece ==
    ASSUME NEW bitField \in BitFieldBytes, NEW index \in Nat,
           InBitField(bitField, index)
    PROVE  PiecesOf(SetPiece(bitField, index)) = PiecesOf(bitField) \union {index}
PROOF
<1>1. Len(bitField) \in Nat
  BY DEF BitFieldBytes
<1>2. \A other \in Nat : InBitField(bitField, other) <=> other <= 8 * Len(bitField) - 1
  BY <1>1 DEF InBitField
<1>3. Len(SetPiece(bitField, index)) = Len(bitField)
  BY SetPieceSetsOneBit
<1>4. \A other \in 0 .. 8 * Len(bitField) - 1 :
        HasPiece(SetPiece(bitField, index), other)
          <=> other = index \/ HasPiece(bitField, other)
  <2> TAKE other \in 0 .. 8 * Len(bitField) - 1
  <2>1. other \in Nat /\ InBitField(bitField, other)
    BY <1>1, <1>2
  <2> QED
    BY <2>1, SetPieceSetsOneBit
<1>5. index \in 0 .. 8 * Len(bitField) - 1
  BY <1>1, <1>2
<1> QED
  BY <1>3, <1>4, <1>5 DEF PiecesOf

-----------------------------------------------------------------------------
(* Compact lists.                                                          *)

Addresses == [1 .. 4 -> Bytes]
Ports == 0 .. 65535

PeerAddresses == [address : Addresses, port : Ports]

\* The bytes of a list of peers: of each the address, then the port, both in
\* network order.
CompactForm(list) ==
    [k \in 1 .. PeerInfoSize * Len(list) |->
        LET peer == list[(k - 1) \div PeerInfoSize + 1]
            at == ((k - 1) % PeerInfoSize) + 1
        IN  CASE at \in 1 .. 4 -> peer.address[at]
              [] at = 5 -> peer.port \div 256
              [] at = 6 -> peer.port % 256]

\* The part of it that is decoded for one peer.
InfoOf(list, i) ==
    SubSeq(CompactForm(list), PeerInfoSize * (i - 1) + 1, PeerInfoSize * i)

\* It holds the six bytes of that peer.
LEMMA BytesOfPeer ==
    ASSUME NEW list \in Seq(PeerAddresses), NEW i \in 1 .. Len(list)
    PROVE  /\ \A at \in 1 .. 4 : InfoOf(list, i)[at] = list[i].address[at]
           /\ InfoOf(list, i)[5] = list[i].port \div 256
           /\ InfoOf(list, i)[6] = list[i].port % 256
PROOF
<1> DEFINE blob == CompactForm(list)
           first == PeerInfoSize * (i - 1)
           info == SubSeq(blob, first + 1, PeerInfoSize * i)
<1>1. /\ Len(list) \in Nat /\ i \in Nat \ {0} /\ i <= Len(list)
      /\ first \in Nat /\ PeerInfoSize * i = first + 6
      /\ first + 6 <= PeerInfoSize * Len(list)
  BY LenProperties DEF PeerInfoSize
<1>2. ASSUME NEW at \in 1 .. 6
      PROVE  /\ first + at \in 1 .. PeerInfoSize * Len(list)
             /\ ((first + at) - 1) \div PeerInfoSize + 1 = i
             /\ (((first + at) - 1) % PeerInfoSize) + 1 = at
  BY <1>1 DEF PeerInfoSize
<1>3. ASSUME NEW at \in 1 .. 6
      PROVE  blob[first + at] = CASE at \in 1 .. 4 -> list[i].address[at]
                                  [] at = 5 -> list[i].port \div 256
                                  [] at = 6 -> list[i].port % 256
  BY <1>2 DEF CompactForm
<1>4. \A at \in 1 .. 6 : info[at] = blob[first + at]
  <2> DEFINE last == first + 6
             values == {blob[j] : j \in first + 1 .. last}
  <2>0. PeerInfoSize * i = last
    BY <1>1
  <2> HIDE DEF first, last, blob
  <2>1. /\ first + 1 \in Int /\ last \in Int
        /\ info = SubSeq(blob, first + 1, last)
    <3>1. first \in Int
      BY <1>1
    <3>2. last = first + 6
      BY DEF last
    <3>3. first + 1 \in Int /\ last \in Int
      BY <3>1, <3>2
    <3>4. info = SubSeq(blob, first + 1, last)
      BY <2>0, Zenon
    <3> QED
      BY <3>3, <3>4
  <2>2. \A j \in first + 1 .. last : blob[j] \in values
    OBVIOUS
  <2>3. /\ last - (first + 1) + 1 = 6
        /\ \A at \in 1 .. 6 : (first + 1) + at - 1 = first + at
    BY <1>1 DEF last
  <2> HIDE DEF info, values
  <2>4. \A at \in 1 .. last - (first + 1) + 1 :
            SubSeq(blob, first + 1, last)[at] = blob[(first + 1) + at - 1]
    BY <2>1, <2>2, SubSeqProperties
  <2> QED
    BY <2>1, <2>3, <2>4
<1> HIDE DEF blob, first, info
<1>5. ASSUME NEW at \in 1 .. 4
      PROVE  info[at] = list[i].address[at]
  BY <1>3, <1>4
<1>6. info[5] = list[i].port \div 256 /\ info[6] = list[i].port % 256
  BY <1>3, <1>4
<1>7. info = InfoOf(list, i)
  BY DEF info, first, blob, InfoOf
<1> QED
  BY <1>5, <1>6, <1>7

\* The compact form of any list of peers is decoded to that list: every
\* address with its port, in order, none missing.
THEOREM CompactListsPeers ==
    ASSUME NEW list \in Seq(PeerAddresses)
    PROVE  DecodeCompact(CompactForm(list)) =
               Peers([i \in 1 .. Len(list) |-> Peer(DottedIp(list[i].address), list[i].port)])
PROOF
<1> DEFINE blob == CompactForm(list)
<1>1. Len(list) \in Nat
  BY LenProperties
<1>2. Len(blob) = PeerInfoSize * Len(list)
  BY <1>1 DEF CompactForm, PeerInfoSize
<1>3. Len(blob) % PeerInfoSize = 0 /\ Len(blob) \div PeerInfoSize = Len(list)
  BY <1>1, <1>2 DEF PeerInfoSize
<1>4. ASSUME NEW i \in 1 .. Len(list)
      PROVE  CompactPeer(InfoOf(list, i)) = Peer(DottedIp(list[i].address), list[i].port)
  <2>1. list[i].port \in Ports
    <3>1. list[i] \in PeerAddresses
      BY ElementOfSeq
    <3> QED
      BY <3>1 DEF PeerAddresses
  <2>2. DottedIp(InfoOf(list, i)) = DottedIp(list[i].address)
    <3>1. /\ InfoOf(list, i)[1] = list[i].address[1]
          /\ InfoOf(list, i)[2] = list[i].address[2]
          /\ InfoOf(list, i)[3] = list[i].address[3]
          /\ InfoOf(list, i)[4] = list[i].address[4]
      BY BytesOfPeer
    <3> QED
      BY <3>1 DEF DottedIp
  <2>3. 256 * InfoOf(list, i)[5] + InfoOf(list, i)[6] = list[i].port
    <3>1. \A n \in Nat : 256 * (n \div 256) + (n % 256) = n
      OBVIOUS
    <3>2. Ports \subseteq Nat
      BY DEF Ports
    <3>3. list[i].port \in Nat
      BY <2>1, <3>2
    <3> QED
      BY <3>1, <3>3, BytesOfPeer
  <2> QED
    BY <2>2, <2>3 DEF CompactPeer
<1>5. [i \in 1 .. Len(list) |->
          CompactPeer(SubSeq(blob, PeerInfoSize * (i - 1) + 1, PeerInfoSize * i))] =
      [i \in 1 .. Len(list) |-> Peer(DottedIp(list[i].address), list[i].port)]
  <2>1. \A i \in 1 .. Len(list) :
            InfoOf(list, i) = SubSeq(blob, PeerInfoSize * (i - 1) + 1, PeerInfoSize * i)
    BY DEF InfoOf
  <2> QED
    BY <1>4, <2>1
<1> HIDE DEF blob
<1> QED
  BY <1>3, <1>5 DEF DecodeCompact, blob

=============================================================================
