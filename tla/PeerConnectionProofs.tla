------------------------ MODULE PeerConnectionProofs ------------------------
(***************************************************************************)
(* Theorems about PeerConnection for every number of pieces, blocks, peers *)
(* and workers.                                                            *)
(***************************************************************************)
EXTENDS PeerConnection, SequenceTheorems, TLAPS

-----------------------------------------------------------------------------
(* Lemmas on the operators of the model.                                   *)

\* The element at one position of a sequence is dropped, those behind it move
\* up by one.
LEMMA RemoveAtProperties ==
    ASSUME NEW S, NEW s \in Seq(S), NEW i \in 1 .. Len(s)
    PROVE  /\ RemoveAt(s, i) \in Seq(S)
           /\ Len(RemoveAt(s, i)) = Len(s) - 1
           /\ \A k \in 1 .. Len(s) - 1 :
                 RemoveAt(s, i)[k] = IF k < i THEN s[k] ELSE s[k + 1]
PROOF
<1> DEFINE front == SubSeq(s, 1, i - 1)
           back == SubSeq(s, i + 1, Len(s))
<1>1. /\ front \in Seq(S) /\ Len(front) = i - 1
      /\ \A k \in 1 .. i - 1 : front[k] = s[k]
  BY SubSeqProperties
<1>2. /\ back \in Seq(S) /\ Len(back) = Len(s) - i
      /\ \A k \in 1 .. Len(s) - i : back[k] = s[i + k]
  BY SubSeqProperties
<1>3. RemoveAt(s, i) = front \o back
  BY DEF RemoveAt
<1> HIDE DEF front, back
<1>4. /\ front \o back \in Seq(S)
      /\ Len(front \o back) = Len(front) + Len(back)
      /\ \A k \in 1 .. Len(front) + Len(back) :
            (front \o back)[k] = IF k <= Len(front) THEN front[k] ELSE back[k - Len(front)]
  BY <1>1, <1>2, ConcatProperties
<1>5. Len(s) \in Nat
  OBVIOUS
<1>6. Len(front) + Len(back) = Len(s) - 1
  BY <1>1, <1>2, <1>5
<1>7. ASSUME NEW k \in 1 .. Len(s) - 1
      PROVE  (front \o back)[k] = IF k < i THEN s[k] ELSE s[k + 1]
  <2>1. (front \o back)[k] = IF k <= i - 1 THEN front[k] ELSE back[k - (i - 1)]
    BY <1>1, <1>4, <1>6
  <2>2. CASE k < i
    BY <2>1, <2>2, <1>1, <1>5
  <2>3. CASE ~(k < i)
    <3>1. /\ k - (i - 1) \in 1 .. Len(s) - i
          /\ i + (k - (i - 1)) = k + 1
      BY <2>3, <1>5
    <3>2. back[k - (i - 1)] = s[k + 1]
      BY <3>1, <1>2
    <3> QED
      BY <2>1, <2>3, <3>2, <1>5
  <2> QED
    BY <2>2, <2>3
<1> QED
  BY <1>3, <1>4, <1>6, <1>7

\* A new element at the end of a sequence without duplicates.
LEMMA AppendToSet ==
    ASSUME NEW S, NEW s \in Seq(S), NEW e \in S
    PROVE  /\ ToSet(Append(s, e)) = ToSet(s) \union {e}
           /\ IsInjective(s) /\ e \notin ToSet(s) => IsInjective(Append(s, e))
PROOF
<1>1. /\ DOMAIN s = 1 .. Len(s)
      /\ DOMAIN Append(s, e) = 1 .. Len(s) + 1
      /\ Len(s) \in Nat
      /\ \A i \in 1 .. Len(s) : Append(s, e)[i] = s[i]
      /\ Append(s, e)[Len(s) + 1] = e
  OBVIOUS
<1>2. ToSet(Append(s, e)) = ToSet(s) \union {e}
  <2>1. ASSUME NEW x \in ToSet(Append(s, e))
        PROVE  x \in ToSet(s) \union {e}
    BY <1>1 DEF ToSet
  <2>2. ASSUME NEW x \in ToSet(s)
        PROVE  x \in ToSet(Append(s, e))
    BY <1>1 DEF ToSet
  <2>3. e \in ToSet(Append(s, e))
    BY <1>1 DEF ToSet
  <2> QED
    BY <2>1, <2>2, <2>3
<1>3. ASSUME IsInjective(s), e \notin ToSet(s)
      PROVE  IsInjective(Append(s, e))
  <2> SUFFICES ASSUME NEW i \in 1 .. Len(s) + 1, NEW j \in 1 .. Len(s) + 1,
                      Append(s, e)[i] = Append(s, e)[j]
               PROVE  i = j
    BY <1>1 DEF IsInjective
  <2>1. CASE i \in 1 .. Len(s) /\ j \in 1 .. Len(s)
    BY <2>1, <1>1, <1>3 DEF IsInjective
  <2>2. CASE i = Len(s) + 1 /\ j \in 1 .. Len(s)
    BY <2>2, <1>1, <1>3 DEF ToSet
  <2>3. CASE j = Len(s) + 1 /\ i \in 1 .. Len(s)
    BY <2>3, <1>1, <1>3 DEF ToSet
  <2> QED
    BY <2>1, <2>2, <2>3, <1>1
<1> QED
  BY <1>2, <1>3

\* One position of a sequence without duplicates is dropped.
LEMMA RemoveAtToSet ==
    ASSUME NEW S, NEW s \in Seq(S), NEW i \in DOMAIN s, IsInjective(s)
    PROVE  /\ ToSet(RemoveAt(s, i)) = ToSet(s) \ {s[i]}
           /\ IsInjective(RemoveAt(s, i))
PROOF
<1> DEFINE r == RemoveAt(s, i)
<1>1. /\ Len(s) \in Nat /\ DOMAIN s = 1 .. Len(s) /\ i \in 1 .. Len(s)
      /\ r \in Seq(S) /\ Len(r) = Len(s) - 1 /\ DOMAIN r = 1 .. Len(s) - 1
      /\ \A k \in 1 .. Len(s) - 1 : r[k] = IF k < i THEN s[k] ELSE s[k + 1]
  BY RemoveAtProperties
<1> HIDE DEF r
<1>2. ASSUME NEW k \in DOMAIN r
      PROVE  r[k] \in ToSet(s) \ {s[i]}
  <2>1. CASE k < i
    BY <2>1, <1>1 DEF ToSet, IsInjective
  <2>2. CASE ~(k < i)
    <3>1. k + 1 \in DOMAIN s /\ k + 1 # i
      BY <2>2, <1>1
    <3> QED
      BY <2>2, <3>1, <1>1 DEF ToSet, IsInjective
  <2> QED
    BY <2>1, <2>2
<1>3. ASSUME NEW x \in ToSet(s) \ {s[i]}
      PROVE  x \in ToSet(r)
  <2>1. PICK k \in DOMAIN s : s[k] = x /\ k # i
    BY DEF ToSet
  <2>2. CASE k < i
    <3>1. k \in DOMAIN r /\ r[k] = x
      BY <2>1, <2>2, <1>1
    <3> QED
      BY <3>1 DEF ToSet
  <2>3. CASE ~(k < i)
    <3>1. k - 1 \in DOMAIN r /\ ~(k - 1 < i) /\ (k - 1) + 1 = k
      BY <2>1, <2>3, <1>1
    <3>2. r[k - 1] = x
      BY <2>1, <3>1, <1>1
    <3> QED
      BY <3>1, <3>2 DEF ToSet
  <2> QED
    BY <2>2, <2>3
<1>4. ASSUME NEW j \in DOMAIN r, NEW k \in DOMAIN r, r[j] = r[k]
      PROVE  j = k
  <2>1. \A m \in DOMAIN r : /\ m \in DOMAIN s /\ m + 1 \in DOMAIN s
                            /\ r[m] = s[IF m < i THEN m ELSE m + 1]
    BY <1>1
  <2>2. (IF j < i THEN j ELSE j + 1) = (IF k < i THEN k ELSE k + 1)
    BY <1>4, <2>1 DEF IsInjective
  <2> QED
    BY <2>2, <1>1
<1>5. ToSet(r) = ToSet(s) \ {s[i]}
  BY <1>2, <1>3 DEF ToSet
<1> QED
  BY <1>4, <1>5 DEF r, IsInjective

\* A block belongs to a piece of the torrent.
LEMMA BlockIdsProperties ==
    /\ \A b \in BlockIds : PieceOf(b) \in Pieces /\ b \in Blocks(PieceOf(b))
    /\ \A p \in Pieces : \A b \in Blocks(p) : b \in BlockIds /\ PieceOf(b) = p
    /\ \A p \in Pieces : Blocks(p) # {}
PROOF
<1>1. ASSUME NEW p \in Pieces, NEW b \in Blocks(p)
      PROVE  b \in BlockIds /\ PieceOf(b) = p
  BY DEF BlockIds, Blocks, PieceOf
<1>2. ASSUME NEW b \in BlockIds
      PROVE  PieceOf(b) \in Pieces /\ b \in Blocks(PieceOf(b))
  <2>1. PICK p \in Pieces : b \in Blocks(p)
    BY DEF BlockIds
  <2> QED
    BY <1>1, <2>1
<1>3. ASSUME NEW p \in Pieces
      PROVE  Blocks(p) # {}
  <2>1. BlockCount[p] \in Nat \ {0}
    BY TorrentAssumption DEF Pieces
  <2>2. <<p, 1>> \in Blocks(p)
    BY <2>1 DEF Blocks
  <2> QED
    BY <2>2
<1> QED
  BY <1>1, <1>2, <1>3

\* An entry leaves pendingRequests_ and the others stay as they are.
LEMMA ErasePendingType ==
    ASSUME PieceTypeOK, NEW b, ErasePending(b)
    PROVE  pendingRequests' \in Seq(PendingRequest)
PROOF
  BY RemoveAtProperties DEF ErasePending, PieceTypeOK

-----------------------------------------------------------------------------
(* Type correctness.  The variables fall into three groups that are typed  *)
(* by three lemmas.                                                        *)

WorkerTypeOK == /\ pc \in [Workers -> Labels]
                /\ target \in [Workers -> SUBSET BlockIds]
                /\ peerId \in [Workers -> Peers \union {NoPeer}]
                /\ conn \in [Workers -> ConnStates]
                /\ choked \in [Workers -> BOOLEAN]
                /\ requestPending \in [Workers -> BOOLEAN]
                /\ inFlight \in [Workers -> SUBSET BlockIds]
                /\ terminated \in BOOLEAN
                /\ crashed \in BOOLEAN

\* A request only ever stands for a block of the torrent.
LEMMA NextRequestType ==
    ASSUME PieceTypeOK, NEW q, NEW b \in BlockIds, NextRequest(q, b)
    PROVE  PieceTypeOK'
PROOF
<1>1. pendingRequests' \in Seq(PendingRequest)
  <2>1. CASE ExpiredRequest(q, b)
    <3>1. PICK i \in DOMAIN pendingRequests :
              pendingRequests' = [pendingRequests EXCEPT ![i].age = 0]
      BY <2>1 DEF ExpiredRequest
    <3>2. pendingRequests[i] \in PendingRequest
      BY DEF PieceTypeOK
    <3>3. [pendingRequests[i] EXCEPT !.age = 0] \in PendingRequest
      BY <3>2, PieceManagerAssumption DEF PendingRequest
    <3> QED
      BY <3>1, <3>3, ExceptSeq DEF PieceTypeOK
  <2>2. CASE NextOngoing(q, b)
    <3>1. [block |-> b, age |-> 0] \in PendingRequest
      BY PieceManagerAssumption DEF PendingRequest
    <3> QED
      BY <2>2, <3>1 DEF NextOngoing, PieceTypeOK
  <2>3. CASE StartPiece(q, b)
    BY <2>3 DEF StartPiece, PieceTypeOK
  <2> QED
    BY <2>1, <2>2, <2>3 DEF NextRequest
<1>2. ongoingPieces' \in Seq(Pieces) /\ missingPieces' \subseteq Pieces
  <2>1. CASE ExpiredRequest(q, b)
    BY <2>1 DEF ExpiredRequest, PieceTypeOK
  <2>2. CASE NextOngoing(q, b)
    BY <2>2 DEF NextOngoing, PieceTypeOK
  <2>3. CASE StartPiece(q, b)
    <3>1. PICK p \in missingPieces : /\ missingPieces' = missingPieces \ {p}
                                     /\ ongoingPieces' = Append(ongoingPieces, p)
      BY <2>3 DEF StartPiece
    <3> QED
      BY <3>1 DEF PieceTypeOK
  <2> QED
    BY <2>1, <2>2, <2>3 DEF NextRequest
<1>3. status' \in [BlockIds -> {"missing", "pending", "retrieved"}]
  BY DEF NextRequest, ExpiredRequest, NextOngoing, StartPiece, PieceTypeOK
<1> QED
  BY <1>1, <1>2, <1>3 DEF NextRequest, PieceTypeOK

\* The pieces, through every step of every worker.
LEMMA PieceTypeStep ==
    ASSUME TypeOK, Next
    PROVE  PieceTypeOK'
PROOF
<1> USE DEF TypeOK
<1>1. CASE UNCHANGED pieceVars
  BY <1>1 DEF pieceVars, PieceTypeOK
<1>2. ASSUME NEW w \in Workers, NEW b \in BlockIds, ReceivePiece(w, b)
      PROVE  PieceTypeOK'
  BY <1>2, ErasePendingType DEF ReceivePiece, PieceTypeOK
<1>3. ASSUME NEW w \in Workers, Store(w)
      PROVE  PieceTypeOK'
  <2>1. PICK b \in target[w], content \in Contents : StoreBlock(b, content)
    BY <1>3 DEF Store
  <2>2. content \in {"good", "bad"}
    BY PieceManagerAssumption
  <2> QED
    BY <2>1, <2>2 DEF StoreBlock, PieceTypeOK
<1>4. ASSUME NEW w \in Workers, Reset(w)
      PROVE  PieceTypeOK'
  <2>1. PICK b \in target[w] : ResetPiece(PieceOf(b))
    BY <1>4 DEF Reset
  <2> QED
    BY <2>1 DEF ResetPiece, PieceTypeOK
<1>5. ASSUME NEW w \in Workers, Publish(w)
      PROVE  PieceTypeOK'
  <2>1. PICK b \in target[w] : PublishPiece(PieceOf(b))
    BY <1>5 DEF Publish
  <2>2. PieceOf(b) \in Pieces
    BY BlockIdsProperties
  <2>3. ongoingPieces' \in Seq(Pieces)
    <3>1. CASE UNCHANGED ongoingPieces
      BY <3>1 DEF PieceTypeOK
    <3>2. CASE \E i \in DOMAIN ongoingPieces : ongoingPieces' = RemoveAt(ongoingPieces, i)
      BY <3>2, RemoveAtProperties DEF PieceTypeOK
    <3> QED
      BY <2>1, <3>1, <3>2 DEF PublishPiece
  <2>4. havePieces' \in Seq(Pieces)
    BY <2>1, <2>2 DEF PublishPiece, PieceTypeOK
  <2> QED
    BY <2>1, <2>3, <2>4 DEF PublishPiece, PieceTypeOK
<1>6. ASSUME NEW w \in Workers, NEW b \in BlockIds, SendRequest(w, b)
      PROVE  PieceTypeOK'
  BY <1>6, NextRequestType DEF SendRequest
<1>7. ASSUME Tick
      PROVE  PieceTypeOK'
  <2>1. TimePasses
    BY <1>7 DEF Tick
  <2>2. ASSUME NEW i \in DOMAIN pendingRequests
        PROVE  [pendingRequests[i] EXCEPT
                  !.age = IF @ < MaxPendingTime THEN @ + 1 ELSE @] \in PendingRequest
    <3>1. pendingRequests[i] \in PendingRequest
      BY DEF PieceTypeOK
    <3> QED
      BY <3>1, PieceManagerAssumption DEF PendingRequest
  <2>3. pendingRequests' \in [1 .. Len(pendingRequests) -> PendingRequest]
    BY <2>1, <2>2 DEF TimePasses, PieceTypeOK
  <2>4. pendingRequests' \in Seq(PendingRequest)
    <3>1. Len(pendingRequests) \in Nat
      BY DEF PieceTypeOK
    <3> QED
      BY ONLY <2>3, <3>1, SeqDef, Zenon
  <2> QED
    BY <2>1, <2>4 DEF TimePasses, PieceTypeOK
<1>8. ASSUME NEW w \in Workers, Step(w)
      PROVE  PieceTypeOK'
  <2>1. CASE Establish(w)
    BY <2>1, <1>1 DEF Establish, Connect, NoBitField, ConnectThrows
  <2>2. CASE Receive(w)
    BY <2>2, <1>1, <1>2 DEF Receive, ReceiveHave, ReceiveChoke, ReceiveUnchoke,
                            ReceiveOther, ReceiveKeepAlive, ReceiveThrows
  <2>3. CASE BlockReceived(w)
    BY <2>3, <1>1, <1>3, <1>4, <1>5 DEF BlockReceived, CompleteTest, HashTest, Seek, Write
  <2>4. CASE RequestPiece(w)
    BY <2>4, <1>1, <1>6 DEF RequestPiece, BeginRequest
  <2>5. CASE OuterTest(w) \/ PopDummy(w) \/ InnerTest(w) \/ Deregister(w) \/ Dies(w)
    BY <2>5, <1>1 DEF OuterTest, PopDummy, InnerTest, Deregister, Dies, NullRarest,
                      FreedPiece, FreedBlock, AssertFails, Crash
  <2> QED
    BY <1>8, <2>1, <2>2, <2>3, <2>4, <2>5 DEF Step
<1> QED
  BY <1>1, <1>7, <1>8 DEF Next, Terminate, Finished, vars

\* The registry and the file.
LEMMA SharedTypeStep ==
    ASSUME TypeOK, Next
    PROVE  PeersTypeOK' /\ DiskTypeOK'
PROOF
<1> USE DEF TypeOK
<1>1. ASSUME UNCHANGED <<peers, putPos, file>>
      PROVE  PeersTypeOK' /\ DiskTypeOK'
  BY <1>1 DEF PeersTypeOK, IsBitField, DiskTypeOK
<1>2. ASSUME NEW w \in Workers, NEW q \in Peers, NEW bitField \in BitFields,
             Connect(w, q, bitField)
      PROVE  PeersTypeOK' /\ DiskTypeOK'
  <2>1. IsBitField(bitField)
    BY PeerConnectionAssumption
  <2> QED
    BY <1>2, <2>1 DEF Connect, AddPeer, PeersTypeOK, IsBitField, DiskTypeOK
<1>3. ASSUME NEW w \in Workers, Deregister(w)
      PROVE  PeersTypeOK' /\ DiskTypeOK'
  BY <1>3 DEF Deregister, RemovePeer, PeersTypeOK, IsBitField, DiskTypeOK
<1>4. ASSUME NEW w \in Workers, NEW p \in Pieces, ReceiveHave(w, p)
      PROVE  PeersTypeOK' /\ DiskTypeOK'
  BY <1>4 DEF ReceiveHave, UpdatePeer, HasPeer, PeersTypeOK, IsBitField, DiskTypeOK
<1>5. ASSUME NEW w \in Workers, Seek(w)
      PROVE  PeersTypeOK' /\ DiskTypeOK'
  <2>1. PICK b \in target[w] : SeekToPiece(PieceOf(b))
    BY <1>5 DEF Seek
  <2>2. PieceOf(b) \in Nat
    BY BlockIdsProperties DEF Pieces
  <2> QED
    BY <1>5, <2>1, <2>2 DEF Seek, SeekToPiece, PeersTypeOK, DiskTypeOK
<1>6. ASSUME NEW w \in Workers, Write(w)
      PROVE  PeersTypeOK' /\ DiskTypeOK'
  <2>1. PICK b \in target[w] : WriteAtPutPos(PieceOf(b), HashMatches(PieceOf(b)))
    BY <1>6 DEF Write
  <2> QED
    BY <1>6, <2>1 DEF Write, WriteAtPutPos, PeersTypeOK, DiskTypeOK, SlotContents
<1>7. ASSUME NEW w \in Workers, Step(w)
      PROVE  PeersTypeOK' /\ DiskTypeOK'
  <2>1. CASE Establish(w)
    BY <2>1, <1>1, <1>2 DEF Establish, NoBitField, ConnectThrows
  <2>2. CASE Receive(w)
    BY <2>2, <1>1, <1>4 DEF Receive, ReceivePiece, ReceiveChoke, ReceiveUnchoke,
                            ReceiveOther, ReceiveKeepAlive, ReceiveThrows
  <2>3. CASE BlockReceived(w)
    BY <2>3, <1>1, <1>5, <1>6 DEF BlockReceived, Store, CompleteTest, HashTest, Reset, Publish
  <2>4. CASE RequestPiece(w)
    BY <2>4, <1>1 DEF RequestPiece, BeginRequest, SendRequest
  <2>5. CASE OuterTest(w) \/ PopDummy(w) \/ InnerTest(w) \/ Deregister(w) \/ Dies(w)
    BY <2>5, <1>1, <1>3 DEF OuterTest, PopDummy, InnerTest, Dies, NullRarest, FreedPiece,
                            FreedBlock, AssertFails, Crash
  <2> QED
    BY <1>7, <2>1, <2>2, <2>3, <2>4, <2>5 DEF Step
<1> QED
  BY <1>1, <1>7 DEF Next, Terminate, Tick, Finished, vars

\* What each worker keeps for itself.
LEMMA WorkerTypeStep ==
    ASSUME WorkerTypeOK, Next
    PROVE  WorkerTypeOK'
PROOF
<1> USE DEF WorkerTypeOK, GoTo, AfterMessage, Labels, ConnStates
<1>1. ASSUME NEW w \in Workers, Step(w)
      PROVE  WorkerTypeOK'
  <2>1. CASE OuterTest(w) \/ PopDummy(w) \/ InnerTest(w) \/ Deregister(w)
    BY <2>1 DEF OuterTest, PopDummy, InnerTest, Deregister, workerVars
  <2>2. CASE Establish(w)
    <3>1. ASSUME NEW q \in Peers, NEW bitField \in BitFields, Connect(w, q, bitField)
          PROVE  WorkerTypeOK'
      BY <3>1 DEF Connect
    <3>2. ASSUME NEW q \in Peers, NoBitField(w, q)
          PROVE  WorkerTypeOK'
      BY <3>2 DEF NoBitField
    <3>3. ASSUME NEW q \in Peers \union {NoPeer}, ConnectThrows(w, q)
          PROVE  WorkerTypeOK'
      BY <3>3 DEF ConnectThrows, CloseSock
    <3> QED
      BY <2>2, <3>1, <3>2, <3>3 DEF Establish
  <2>3. CASE Receive(w)
    <3>1. ASSUME NEW b \in BlockIds, ReceivePiece(w, b)
          PROVE  WorkerTypeOK'
      BY <3>1 DEF ReceivePiece
    <3>2. ASSUME NEW p \in Pieces, ReceiveHave(w, p)
          PROVE  WorkerTypeOK'
      BY <3>2 DEF ReceiveHave
    <3>3. CASE ReceiveChoke(w)
      BY <3>3 DEF ReceiveChoke
    <3>4. CASE ReceiveUnchoke(w) \/ ReceiveOther(w) \/ ReceiveKeepAlive(w)
      BY <3>4 DEF ReceiveUnchoke, ReceiveOther, ReceiveKeepAlive, workerVars
    <3>5. CASE ReceiveThrows(w)
      BY <3>5 DEF ReceiveThrows, CloseSock
    <3> QED
      BY <2>3, <3>1, <3>2, <3>3, <3>4, <3>5 DEF Receive
  <2>4. CASE BlockReceived(w)
    BY <2>4 DEF BlockReceived, Store, CompleteTest, HashTest, Reset, Seek, Write, Publish,
                BlockReceivedDone, workerVars
  <2>5. CASE RequestPiece(w)
    <3>1. CASE BeginRequest(w)
      BY <3>1 DEF BeginRequest, workerVars
    <3>2. ASSUME NEW b \in BlockIds, SendRequest(w, b)
          PROVE  WorkerTypeOK'
      BY <3>2 DEF SendRequest
    <3> QED
      BY <2>5, <3>1, <3>2 DEF RequestPiece
  <2>6. CASE Dies(w)
    BY <2>6 DEF Dies, NullRarest, FreedPiece, FreedBlock, AssertFails, Crash, workerVars
  <2> QED
    BY <1>1, <2>1, <2>2, <2>3, <2>4, <2>5, <2>6 DEF Step
<1> QED
  BY <1>1 DEF Next, Terminate, Tick, Finished, vars, workerVars

LEMMA TypeInit == Init => TypeOK
PROOF
<1> SUFFICES ASSUME Init
             PROVE  TypeOK
  OBVIOUS
<1>1. PieceTypeOK
  BY DEF Init, PieceInit, PieceTypeOK
<1>2. PeersTypeOK /\ DiskTypeOK
  BY TorrentAssumption DEF Init, AllocateFile, PeersTypeOK, DiskTypeOK, SlotContents
<1>3. WorkerTypeOK
  BY DEF Init, WorkerTypeOK, Labels, ConnStates
<1> QED
  BY <1>1, <1>2, <1>3 DEF WorkerTypeOK, TypeOK

LEMMA TypeStep == TypeOK /\ [Next]_vars => TypeOK'
PROOF
<1> SUFFICES ASSUME TypeOK, [Next]_vars
             PROVE  TypeOK'
  OBVIOUS
<1>1. CASE Next
  <2>1. WorkerTypeOK'
    BY <1>1, WorkerTypeStep DEF TypeOK, WorkerTypeOK
  <2> QED
    BY <1>1, <2>1, PieceTypeStep, SharedTypeStep DEF TypeOK, WorkerTypeOK
<1>2. CASE UNCHANGED vars
  BY <1>2 DEF vars, pieceVars, TypeOK, PieceTypeOK, PeersTypeOK, IsBitField, DiskTypeOK
<1> QED
  BY <1>1, <1>2

\* Every variable keeps its type, in every download.
THEOREM TypeCorrect == Spec => []TypeOK
PROOF
  BY TypeInit, TypeStep, PTL DEF Spec

-----------------------------------------------------------------------------
(* No piece is lost.  PiecesConserved is not inductive by itself: a worker *)
(* publishes the piece of its target, and must not take it from            *)
(* missingPieces_.                                                         *)

\* The piece of a block that is being received has been started.
TargetsStarted ==
    \A w \in Workers : \A b \in target[w] : PieceOf(b) \notin missingPieces

ConservedInv == TypeOK /\ PiecesConserved /\ TargetsStarted

LEMMA ConservedInit == Init => PiecesConserved /\ TargetsStarted
PROOF
<1> SUFFICES ASSUME Init
             PROVE  PiecesConserved /\ TargetsStarted
  OBVIOUS
<1>1. ongoingPieces = <<>> /\ havePieces = <<>> /\ missingPieces = Pieces
  BY DEF Init, PieceInit
<1>2. Ongoing = {} /\ Have = {}
  BY <1>1 DEF Ongoing, Have, ToSet
<1>3. IsInjective(ongoingPieces)
  BY <1>1 DEF IsInjective
<1>4. TargetsStarted
  BY DEF Init, TargetsStarted
<1> QED
  BY <1>1, <1>2, <1>3, <1>4 DEF PiecesConserved

\* nextRequest moves at most one piece, from missingPieces_ to ongoingPieces_.
LEMMA NextRequestMoves ==
    ASSUME TypeOK, PiecesConserved, NEW q, NEW b \in BlockIds, NextRequest(q, b)
    PROVE  /\ PiecesConserved'
           /\ missingPieces' \subseteq missingPieces
           /\ Ongoing' \subseteq Ongoing \union {PieceOf(b)}
PROOF
<1> USE DEF TypeOK, PieceTypeOK
<1>1. CASE UNCHANGED <<missingPieces, ongoingPieces>>
  BY <1>1 DEF NextRequest, PiecesConserved, Ongoing, Have
<1>2. CASE StartPiece(q, b)
  <2>1. PICK p \in missingPieces : /\ NextOfPiece(p, b)
                                   /\ missingPieces' = missingPieces \ {p}
                                   /\ ongoingPieces' = Append(ongoingPieces, p)
    BY <1>2 DEF StartPiece
  <2>2. PieceOf(b) = p
    BY <2>1, BlockIdsProperties DEF NextOfPiece
  <2>3. p \notin Ongoing
    BY DEF PiecesConserved
  <2>4. Ongoing' = Ongoing \union {p} /\ IsInjective(ongoingPieces')
    BY <2>1, <2>3, AppendToSet DEF Ongoing, PiecesConserved
  <2>5. Have' = Have
    BY DEF NextRequest, Have
  <2> QED
    BY <2>1, <2>2, <2>4, <2>5 DEF PiecesConserved
<1> QED
  BY <1>1, <1>2 DEF NextRequest, ExpiredRequest, NextOngoing

\* Publishing takes one piece that was started out of ongoingPieces_.
LEMMA PublishMoves ==
    ASSUME TypeOK, PiecesConserved, NEW p \in Pieces, p \notin missingPieces, PublishPiece(p)
    PROVE  PiecesConserved' /\ Ongoing' = Ongoing \ {p}
PROOF
<1> USE DEF TypeOK, PieceTypeOK
<1>1. Have' = Have \union {p}
  BY AppendToSet DEF PublishPiece, Have
<1>2. Ongoing' = Ongoing \ {p} /\ IsInjective(ongoingPieces')
  <2>1. CASE p \notin Ongoing /\ UNCHANGED ongoingPieces
    BY <2>1 DEF Ongoing, PiecesConserved
  <2>2. CASE \E i \in DOMAIN ongoingPieces : /\ ongoingPieces[i] = p
                                             /\ ongoingPieces' = RemoveAt(ongoingPieces, i)
    BY <2>2, RemoveAtToSet DEF Ongoing, PiecesConserved
  <2> QED
    BY <2>1, <2>2 DEF PublishPiece
<1> QED
  BY <1>1, <1>2 DEF PublishPiece, PiecesConserved

LEMMA ConservedStep ==
    ASSUME TypeOK, TypeOK', PiecesConserved, TargetsStarted, Next
    PROVE  PiecesConserved' /\ TargetsStarted'
PROOF
<1>1. ASSUME UNCHANGED <<missingPieces, ongoingPieces, havePieces>>
      PROVE  PiecesConserved'
  BY <1>1 DEF PiecesConserved, Ongoing, Have
<1>2. ASSUME UNCHANGED missingPieces,
             \A w \in Workers : target'[w] \subseteq target[w]
      PROVE  TargetsStarted'
  BY <1>2 DEF TargetsStarted
<1>3. ASSUME NEW w \in Workers, NEW b \in BlockIds, ReceivePiece(w, b)
      PROVE  PiecesConserved' /\ TargetsStarted'
  <2>1. CASE PieceOf(b) \in Ongoing
    <3>1. PieceOf(b) \notin missingPieces
      BY <2>1 DEF PiecesConserved
    <3>2. target' = [target EXCEPT ![w] = {b}]
      BY <1>3, <2>1 DEF ReceivePiece
    <3>3. TargetsStarted'
      BY <1>3, <3>1, <3>2 DEF ReceivePiece, TargetsStarted, TypeOK
    <3> QED
      BY <3>3, <1>3, <1>1 DEF ReceivePiece
  <2>2. CASE PieceOf(b) \notin Ongoing
    BY <1>3, <2>2, <1>1, <1>2 DEF ReceivePiece
  <2> QED
    BY <2>1, <2>2
<1>4. ASSUME NEW w \in Workers, Publish(w)
      PROVE  PiecesConserved' /\ TargetsStarted'
  <2>1. PICK b \in target[w] : PublishPiece(PieceOf(b))
    BY <1>4 DEF Publish
  <2>2. PieceOf(b) \in Pieces /\ PieceOf(b) \notin missingPieces
    BY BlockIdsProperties DEF TypeOK, TargetsStarted
  <2>3. UNCHANGED missingPieces /\ target' = [target EXCEPT ![w] = {}]
    BY <1>4, <2>1 DEF Publish, PublishPiece, BlockReceivedDone
  <2>4. TargetsStarted'
    BY <2>3, <1>2 DEF TypeOK
  <2> QED
    BY <2>1, <2>2, <2>4, PublishMoves
<1>5. ASSUME NEW w \in Workers, NEW b \in BlockIds, SendRequest(w, b)
      PROVE  PiecesConserved' /\ TargetsStarted'
  <2>1. PiecesConserved' /\ missingPieces' \subseteq missingPieces
    BY <1>5, NextRequestMoves DEF SendRequest
  <2>2. UNCHANGED target
    BY <1>5 DEF SendRequest
  <2> QED
    BY <2>1, <2>2 DEF TargetsStarted
<1>6. ASSUME NEW w \in Workers, BlockReceived(w)
      PROVE  PiecesConserved' /\ TargetsStarted'
  <2>1. CASE Store(w)
    BY <2>1, <1>1, <1>2 DEF Store, StoreBlock, workerVars
  <2>2. CASE CompleteTest(w)
    BY <2>2, <1>1, <1>2 DEF CompleteTest, BlockReceivedDone, pieceVars, TypeOK
  <2>3. CASE Reset(w)
    BY <2>3, <1>1, <1>2 DEF Reset, ResetPiece, BlockReceivedDone, TypeOK
  <2>4. CASE HashTest(w) \/ Seek(w) \/ Write(w)
    BY <2>4, <1>1, <1>2 DEF HashTest, Seek, Write, pieceVars, workerVars
  <2> QED
    BY <1>6, <1>4, <2>1, <2>2, <2>3, <2>4 DEF BlockReceived
<1>7. ASSUME NEW w \in Workers, Step(w)
      PROVE  PiecesConserved' /\ TargetsStarted'
  <2>1. CASE OuterTest(w) \/ PopDummy(w) \/ InnerTest(w) \/ Deregister(w)
    BY <2>1, <1>1, <1>2 DEF OuterTest, PopDummy, InnerTest, Deregister, pieceVars, workerVars
  <2>2. CASE Establish(w)
    BY <2>2, <1>1, <1>2 DEF Establish, Connect, NoBitField, ConnectThrows, pieceVars
  <2>3. CASE Receive(w)
    BY <2>3, <1>1, <1>2, <1>3 DEF Receive, ReceiveHave, ReceiveChoke, ReceiveUnchoke,
         ReceiveOther, ReceiveKeepAlive, ReceiveThrows, pieceVars, workerVars
  <2>4. CASE RequestPiece(w)
    BY <2>4, <1>1, <1>2, <1>5 DEF RequestPiece, BeginRequest, pieceVars, workerVars
  <2>5. CASE Dies(w)
    BY <2>5, <1>1, <1>2 DEF Dies, NullRarest, FreedPiece, FreedBlock, AssertFails, Crash,
         pieceVars, workerVars
  <2> QED
    BY <1>7, <1>6, <2>1, <2>2, <2>3, <2>4, <2>5 DEF Step
<1>8. CASE Terminate \/ Tick \/ Finished
  BY <1>8, <1>1, <1>2 DEF Terminate, Tick, TimePasses, Finished, vars, pieceVars, workerVars
<1> QED
  BY <1>7, <1>8 DEF Next

\* Every piece stays in exactly one of missingPieces_, ongoingPieces_ and
\* havePieces, whatever the peers send and however the workers interleave.
THEOREM PiecesAreConserved == Spec => []PiecesConserved
PROOF
<1>1. Init => ConservedInv
  BY TypeInit, ConservedInit DEF ConservedInv
<1>2. ConservedInv /\ [Next]_vars => ConservedInv'
  <2> SUFFICES ASSUME ConservedInv, [Next]_vars
               PROVE  ConservedInv'
    OBVIOUS
  <2>1. TypeOK'
    BY TypeStep DEF ConservedInv
  <2>2. CASE Next
    BY <2>1, <2>2, ConservedStep DEF ConservedInv
  <2>3. CASE UNCHANGED vars
    BY <2>1, <2>3 DEF vars, pieceVars, ConservedInv, PiecesConserved, TargetsStarted,
                      Ongoing, Have
  <2> QED
    BY <2>2, <2>3
<1>3. ConservedInv => PiecesConserved
  BY DEF ConservedInv
<1> QED
  BY <1>1, <1>2, <1>3, PTL DEF Spec

-----------------------------------------------------------------------------
(* A complete piece is never abandoned.  Besides the invariant above, a    *)
(* worker must be known to handle one block at a time: its completeness    *)
(* test, hash and publication are all about the piece of that block.       *)

TargetsSingle == \A w \in Workers : \A b, c \in target[w] : b = c

\* The code from the completeness test to the end of blockReceived.
Finishing == {"complete", "hash", "reset", "seek", "write", "publish"}

InHand(p) ==
    \E w \in Workers : pc[w] \in Finishing /\ \E b \in target[w] : PieceOf(b) = p

HandInv == ConservedInv /\ TargetsSingle /\ CompletePieceInHand

LEMMA HandInit == Init => TargetsSingle /\ CompletePieceInHand
PROOF
<1> SUFFICES ASSUME Init
             PROVE  TargetsSingle /\ CompletePieceInHand
  OBVIOUS
<1>1. TargetsSingle
  BY DEF Init, TargetsSingle
<1>2. Ongoing = {}
  BY DEF Init, PieceInit, Ongoing, ToSet
<1> QED
  BY <1>1, <1>2 DEF CompletePieceInHand

\* A step under which the worker w does not give up a target, no piece
\* becomes ongoing and no block becomes retrieved.
LEMMA HandKept ==
    ASSUME TypeOK, TypeOK', CompletePieceInHand, NEW w \in Workers,
           Ongoing' \subseteq Ongoing,
           \A b \in BlockIds : status'[b] = "retrieved" => status[b] = "retrieved",
           \A v \in Workers \ {w} : pc'[v] = pc[v] /\ target'[v] = target[v],
           pc[w] \in Finishing => pc'[w] \in Finishing /\ target'[w] = target[w]
    PROVE  CompletePieceInHand'
PROOF
<1> SUFFICES ASSUME NEW p \in Ongoing', PieceComplete(p)'
             PROVE  InHand(p)'
  BY DEF CompletePieceInHand, InHand, Finishing
<1>1. p \in Pieces
  BY DEF Ongoing, ToSet, TypeOK, PieceTypeOK
<1>2. PieceComplete(p)
  BY <1>1, BlockIdsProperties DEF PieceComplete
<1>3. PICK v \in Workers : pc[v] \in Finishing /\ \E b \in target[v] : PieceOf(b) = p
  BY <1>2 DEF CompletePieceInHand, Finishing
<1> QED
  BY <1>3 DEF InHand

LEMMA HandStep ==
    ASSUME TypeOK, TypeOK', PiecesConserved, TargetsStarted, TargetsSingle,
           CompletePieceInHand, Next
    PROVE  TargetsSingle' /\ CompletePieceInHand'
PROOF
<1> USE DEF Finishing
<1>1. ASSUME NEW w \in Workers, pc[w] \notin Finishing,
             UNCHANGED <<ongoingPieces, status>>,
             \A v \in Workers \ {w} : pc'[v] = pc[v] /\ target'[v] = target[v]
      PROVE  CompletePieceInHand'
  BY <1>1, HandKept DEF Ongoing
<1>2. ASSUME NEW w \in Workers, NEW b, target' = [target EXCEPT ![w] = {b}]
      PROVE  TargetsSingle'
  BY <1>2 DEF TargetsSingle, TypeOK
<1>3. ASSUME \A v \in Workers : target'[v] \subseteq target[v]
      PROVE  TargetsSingle'
  BY <1>3 DEF TargetsSingle
<1>4. ASSUME NEW w \in Workers,
             Establish(w) \/ OuterTest(w) \/ PopDummy(w) \/ InnerTest(w) \/ Deregister(w)
      PROVE  TargetsSingle' /\ CompletePieceInHand'
  <2>1. /\ pc[w] \notin Finishing /\ UNCHANGED <<ongoingPieces, status, target>>
        /\ \A v \in Workers \ {w} : pc'[v] = pc[v]
    BY <1>4 DEF Establish, Connect, NoBitField, ConnectThrows, CloseSock, OuterTest,
                PopDummy, InnerTest, Deregister, At, GoTo, pieceVars, workerVars, TypeOK
  <2> QED
    BY <2>1, <1>1, <1>3
<1>5. ASSUME NEW w \in Workers, Receive(w)
      PROVE  TargetsSingle' /\ CompletePieceInHand'
  <2>1. /\ pc[w] \notin Finishing /\ UNCHANGED <<ongoingPieces, status>>
        /\ \A v \in Workers \ {w} : pc'[v] = pc[v] /\ target'[v] = target[v]
    BY <1>5 DEF Receive, ReceivePiece, ReceiveHave, ReceiveChoke, ReceiveUnchoke,
                ReceiveOther, ReceiveKeepAlive, ReceiveThrows, CloseSock, AfterMessage,
                At, GoTo, pieceVars, workerVars, TypeOK
  <2>2. TargetsSingle'
    <3>1. UNCHANGED target \/ \E b \in BlockIds : target' = [target EXCEPT ![w] = {b}]
      BY <1>5 DEF Receive, ReceivePiece, ReceiveHave, ReceiveChoke, ReceiveUnchoke,
                  ReceiveOther, ReceiveKeepAlive, ReceiveThrows, workerVars
    <3> QED
      BY <3>1, <1>2, <1>3
  <2> QED
    BY <2>1, <2>2, <1>1
<1>6. ASSUME NEW w \in Workers, Store(w)
      PROVE  TargetsSingle' /\ CompletePieceInHand'
  <2>1. PICK b \in target[w], content \in Contents : StoreBlock(b, content)
    BY <1>6 DEF Store
  <2>2. /\ UNCHANGED <<target, ongoingPieces>> /\ pc[w] = "store" /\ pc'[w] = "complete"
        /\ \A v \in Workers \ {w} : pc'[v] = pc[v]
        /\ status' = [status EXCEPT ![b] = "retrieved"]
        /\ b \in BlockIds
    BY <1>6, <2>1 DEF Store, StoreBlock, At, GoTo, workerVars, TypeOK
  <2>3. ASSUME NEW p \in Ongoing', PieceComplete(p)'
        PROVE  InHand(p)'
    <3>1. p \in Ongoing /\ p \in Pieces
      BY <2>2 DEF Ongoing, ToSet, TypeOK, PieceTypeOK
    <3>2. CASE PieceOf(b) = p
      BY <2>2, <3>2 DEF InHand
    <3>3. CASE PieceOf(b) # p
      <4>1. PieceComplete(p)
        BY <2>2, <2>3, <3>1, <3>3, BlockIdsProperties
           DEF PieceComplete, TypeOK, PieceTypeOK
      <4>2. PICK v \in Workers : pc[v] \in Finishing /\ \E c \in target[v] : PieceOf(c) = p
        BY <3>1, <4>1 DEF CompletePieceInHand
      <4>3. v # w
        BY <2>2, <4>2
      <4> QED
        BY <2>2, <4>2, <4>3 DEF InHand
    <3> QED
      BY <3>2, <3>3
  <2> QED
    BY <2>2, <2>3, <1>3 DEF CompletePieceInHand, InHand
<1>7. ASSUME NEW w \in Workers, CompleteTest(w)
      PROVE  TargetsSingle' /\ CompletePieceInHand'
  <2>1. PICK b \in target[w] :
          \/ /\ PieceComplete(PieceOf(b))
             /\ GoTo(w, "hash")
             /\ UNCHANGED target
          \/ /\ ~PieceComplete(PieceOf(b))
             /\ BlockReceivedDone(w)
    BY <1>7 DEF CompleteTest
  <2>2. UNCHANGED <<ongoingPieces, status>>
    BY <1>7 DEF CompleteTest, pieceVars
  <2>3. CASE GoTo(w, "hash") /\ UNCHANGED target
    <3>1. /\ pc'[w] \in Finishing
          /\ \A v \in Workers \ {w} : pc'[v] = pc[v]
      BY <2>3 DEF GoTo, TypeOK
    <3>2. CompletePieceInHand'
      BY <2>2, <2>3, <3>1, HandKept DEF Ongoing
    <3> QED
      BY <3>2, <2>3, <1>3
  <2>4. CASE ~PieceComplete(PieceOf(b)) /\ BlockReceivedDone(w)
    <3>1. /\ \A v \in Workers : target'[v] \subseteq target[v]
          /\ \A v \in Workers \ {w} : pc'[v] = pc[v] /\ target'[v] = target[v]
      BY <2>4 DEF BlockReceivedDone, AfterMessage, GoTo, TypeOK
    <3>2. ASSUME NEW p \in Ongoing', PieceComplete(p)'
          PROVE  InHand(p)'
      <4>1. p \in Ongoing /\ PieceComplete(p)
        BY <2>2, <3>2 DEF Ongoing, PieceComplete
      <4>2. PICK v \in Workers : pc[v] \in Finishing /\ \E c \in target[v] : PieceOf(c) = p
        BY <4>1 DEF CompletePieceInHand
      <4>3. v # w
        BY <2>4, <4>1, <4>2 DEF TargetsSingle
      <4> QED
        BY <3>1, <4>2, <4>3 DEF InHand
    <3> QED
      BY <3>1, <3>2, <1>3 DEF CompletePieceInHand, InHand
  <2> QED
    BY <2>1, <2>3, <2>4
<1>8. ASSUME NEW w \in Workers, HashTest(w) \/ Seek(w) \/ Write(w)
      PROVE  TargetsSingle' /\ CompletePieceInHand'
  <2>1. /\ UNCHANGED <<ongoingPieces, status, target>>
        /\ pc'[w] \in Finishing
        /\ \A v \in Workers \ {w} : pc'[v] = pc[v]
    BY <1>8 DEF HashTest, Seek, Write, GoTo, pieceVars, workerVars, TypeOK
  <2>2. CompletePieceInHand'
    BY <2>1, HandKept DEF Ongoing
  <2> QED
    BY <2>1, <2>2, <1>3
<1>9. ASSUME NEW w \in Workers, NEW b \in target[w], BlockReceivedDone(w),
             \A p \in Ongoing' : PieceComplete(p)' =>
                 p \in Ongoing /\ PieceComplete(p) /\ p # PieceOf(b)
      PROVE  TargetsSingle' /\ CompletePieceInHand'
  <2>1. /\ \A v \in Workers : target'[v] \subseteq target[v]
        /\ \A v \in Workers \ {w} : pc'[v] = pc[v] /\ target'[v] = target[v]
    BY <1>9 DEF BlockReceivedDone, AfterMessage, GoTo, TypeOK
  <2>2. ASSUME NEW p \in Ongoing', PieceComplete(p)'
        PROVE  InHand(p)'
    <3>1. PICK v \in Workers : pc[v] \in Finishing /\ \E c \in target[v] : PieceOf(c) = p
      BY <1>9, <2>2 DEF CompletePieceInHand
    <3>2. v # w
      BY <1>9, <2>2, <3>1 DEF TargetsSingle
    <3> QED
      BY <2>1, <3>1, <3>2 DEF InHand
  <2> QED
    BY <2>1, <2>2, <1>3 DEF CompletePieceInHand, InHand
<1>10. ASSUME NEW w \in Workers, Reset(w)
       PROVE  TargetsSingle' /\ CompletePieceInHand'
  <2>1. PICK b \in target[w] : ResetPiece(PieceOf(b))
    BY <1>10 DEF Reset
  <2>2. ASSUME NEW p \in Ongoing', PieceComplete(p)'
        PROVE  p \in Ongoing /\ PieceComplete(p) /\ p # PieceOf(b)
    <3>1. p \in Ongoing /\ p \in Pieces
      BY <2>1 DEF ResetPiece, Ongoing, ToSet, TypeOK, PieceTypeOK
    <3>2. \A c \in Blocks(p) : PieceOf(c) # PieceOf(b) /\ status[c] = "retrieved"
      BY <2>1, <2>2, <3>1, BlockIdsProperties DEF ResetPiece, PieceComplete
    <3> QED
      BY <3>1, <3>2, BlockIdsProperties DEF PieceComplete
  <2> QED
    BY <1>9, <1>10, <2>2 DEF Reset
<1>11. ASSUME NEW w \in Workers, Publish(w)
       PROVE  TargetsSingle' /\ CompletePieceInHand'
  <2>1. PICK b \in target[w] : PublishPiece(PieceOf(b))
    BY <1>11 DEF Publish
  <2>2. Ongoing' = Ongoing \ {PieceOf(b)}
    BY <2>1, BlockIdsProperties, PublishMoves DEF TypeOK, TargetsStarted
  <2>3. \A p \in Ongoing' : PieceComplete(p)' => PieceComplete(p)
    BY <2>1 DEF PublishPiece, PieceComplete
  <2> QED
    BY <1>9, <1>11, <2>2, <2>3 DEF Publish
<1>12. ASSUME NEW w \in Workers, RequestPiece(w)
       PROVE  TargetsSingle' /\ CompletePieceInHand'
  <2>1. CASE BeginRequest(w)
    <3>1. /\ pc[w] \notin Finishing /\ UNCHANGED <<ongoingPieces, status, target>>
          /\ \A v \in Workers \ {w} : pc'[v] = pc[v]
      BY <2>1 DEF BeginRequest, At, GoTo, pieceVars, workerVars, TypeOK
    <3> QED
      BY <3>1, <1>1, <1>3
  <2>2. ASSUME NEW b \in BlockIds, SendRequest(w, b)
        PROVE  TargetsSingle' /\ CompletePieceInHand'
    <3>1. /\ pc[w] \notin Finishing /\ UNCHANGED target
          /\ \A v \in Workers \ {w} : pc'[v] = pc[v]
      BY <2>2 DEF SendRequest, At, GoTo, TypeOK
    <3>2. CASE UNCHANGED <<ongoingPieces, status>>
      BY <3>1, <3>2, <1>1, <1>3
    <3>3. CASE status' = [status EXCEPT ![b] = "pending"]
      <4>1. Ongoing' \subseteq Ongoing \union {PieceOf(b)}
        BY <2>2, NextRequestMoves DEF SendRequest
      <4>2. ASSUME NEW p \in Ongoing', PieceComplete(p)'
            PROVE  InHand(p)'
        <5>1. p \in Pieces
          BY DEF Ongoing, ToSet, TypeOK, PieceTypeOK
        <5>2. p # PieceOf(b) /\ PieceComplete(p)
          BY <3>3, <4>2, <5>1, BlockIdsProperties DEF PieceComplete, TypeOK, PieceTypeOK
        <5>3. PICK v \in Workers : pc[v] \in Finishing /\ \E c \in target[v] : PieceOf(c) = p
          BY <4>1, <5>2 DEF CompletePieceInHand
        <5> QED
          BY <3>1, <5>3 DEF InHand
      <4> QED
        BY <3>1, <4>2, <1>3 DEF CompletePieceInHand, InHand
    <3> QED
      BY <2>2, <3>2, <3>3 DEF SendRequest, NextRequest, ExpiredRequest, NextOngoing, StartPiece
  <2> QED
    BY <1>12, <2>1, <2>2 DEF RequestPiece
<1>13. ASSUME UNCHANGED <<ongoingPieces, status, target, pc>>
       PROVE  TargetsSingle' /\ CompletePieceInHand'
  BY <1>13 DEF TargetsSingle, CompletePieceInHand, Ongoing, PieceComplete
<1>14. ASSUME NEW w \in Workers, Step(w)
       PROVE  TargetsSingle' /\ CompletePieceInHand'
  <2>1. CASE BlockReceived(w)
    BY <2>1, <1>6, <1>7, <1>8, <1>10, <1>11 DEF BlockReceived
  <2>2. CASE Dies(w)
    BY <2>2, <1>13 DEF Dies, NullRarest, FreedPiece, FreedBlock, AssertFails, Crash,
         pieceVars, workerVars
  <2> QED
    BY <1>14, <2>1, <2>2, <1>4, <1>5, <1>12 DEF Step
<1>15. CASE Terminate \/ Tick \/ Finished
  BY <1>15, <1>13 DEF Terminate, Tick, TimePasses, Finished, vars, pieceVars, workerVars
<1> QED
  BY <1>14, <1>15 DEF Next

\* Whenever all blocks of an ongoing piece have been retrieved, a worker is
\* between the completeness test and the reset or publication of that piece.
THEOREM CompletePiecesAreInHand == Spec => []CompletePieceInHand
PROOF
<1>1. Init => HandInv
  BY TypeInit, ConservedInit, HandInit DEF HandInv, ConservedInv
<1>2. HandInv /\ [Next]_vars => HandInv'
  <2> SUFFICES ASSUME HandInv, [Next]_vars
               PROVE  HandInv'
    OBVIOUS
  <2>1. TypeOK'
    BY TypeStep DEF HandInv, ConservedInv
  <2>2. CASE Next
    BY <2>1, <2>2, ConservedStep, HandStep DEF HandInv, ConservedInv
  <2>3. CASE UNCHANGED vars
    BY <2>1, <2>3 DEF vars, pieceVars, HandInv, ConservedInv, PiecesConserved,
         TargetsStarted, TargetsSingle, CompletePieceInHand, Ongoing, Have, PieceComplete
  <2> QED
    BY <2>2, <2>3
<1>3. HandInv => CompletePieceInHand
  BY DEF HandInv
<1> QED
  BY <1>1, <1>2, <1>3, PTL DEF Spec

=============================================================================
