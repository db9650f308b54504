--------------------------- MODULE RequestProofs ---------------------------
(***************************************************************************)
(* Theorems about the requests of PeerConnection, for every number of      *)
(* pieces, blocks, peers and workers: whatever the peers send, and then    *)
(* for peers that send what the hashes stand for.                          *)
(***************************************************************************)
EXTENDS PeerConnectionProofs

-----------------------------------------------------------------------------
(* What a step may do to the blocks.                                       *)

Busy == Finishing \union {"store"}

\* The pieces and their blocks stay as they are, nothing new is in flight
\* and no worker enters or leaves blockReceived.
QuietStep == /\ UNCHANGED pieceVars /\ UNCHANGED target
             /\ \A v \in Workers : inFlight'[v] \subseteq inFlight[v]
             /\ \A v \in Workers : \/ pc'[v] = pc[v]
                                   \/ pc[v] \notin Busy /\ pc'[v] \notin Busy

LEMMA StepCases ==
    ASSUME TypeOK, Next
    PROVE  \/ QuietStep
           \/ Tick
           \/ \E w \in Workers : BlockReceived(w)
           \/ \E w \in Workers, b \in BlockIds : ReceivePiece(w, b) \/ SendRequest(w, b)
PROOF
<1> USE DEF Busy, Finishing
<1>1. ASSUME NEW w \in Workers,
             Establish(w) \/ OuterTest(w) \/ PopDummy(w) \/ InnerTest(w) \/ Deregister(w)
      PROVE  QuietStep
  BY <1>1 DEF QuietStep, Establish, Connect, NoBitField, ConnectThrows, CloseSock,
              OuterTest, PopDummy, InnerTest, Deregister, At, GoTo, pieceVars, workerVars, TypeOK
<1>2. ASSUME NEW w \in Workers, Receive(w), \A b \in BlockIds : ~ReceivePiece(w, b)
      PROVE  QuietStep
  BY <1>2 DEF QuietStep, Receive, ReceiveHave, ReceiveChoke, ReceiveUnchoke,
              ReceiveOther, ReceiveKeepAlive, ReceiveThrows, CloseSock, AfterMessage,
              At, GoTo, pieceVars, workerVars, TypeOK
<1>3. ASSUME NEW w \in Workers, BeginRequest(w)
      PROVE  QuietStep
  BY <1>3 DEF QuietStep, BeginRequest, At, GoTo, pieceVars, workerVars, TypeOK
<1>4. ASSUME NEW w \in Workers, Dies(w)
      PROVE  QuietStep
  BY <1>4 DEF QuietStep, Dies, NullRarest, FreedPiece, FreedBlock, AssertFails, Crash,
              workerVars
<1>5. ASSUME Terminate \/ Finished
      PROVE  QuietStep
  BY <1>5 DEF QuietStep, Terminate, Finished, vars, pieceVars, workerVars
<1>6. ASSUME NEW w \in Workers, Step(w)
      PROVE  \/ QuietStep
             \/ BlockReceived(w)
             \/ \E b \in BlockIds : ReceivePiece(w, b) \/ SendRequest(w, b)
  BY <1>6, <1>1, <1>2, <1>3, <1>4 DEF Step, RequestPiece
<1> QED
  BY <1>5, <1>6 DEF Next

\* The entries of pendingRequests_ stay, but for their ages.
SameEntries == /\ DOMAIN pendingRequests' = DOMAIN pendingRequests
               /\ \A i \in DOMAIN pendingRequests :
                     pendingRequests'[i].block = pendingRequests[i].block

LEMMA TickEntries ==
    ASSUME TypeOK, Tick
    PROVE  SameEntries
PROOF
<1>1. \A i \in DOMAIN pendingRequests : pendingRequests[i] \in PendingRequest
  BY DEF TypeOK, PieceTypeOK
<1>2. pendingRequests' =
         [i \in DOMAIN pendingRequests |->
            [pendingRequests[i] EXCEPT !.age = IF @ < MaxPendingTime THEN @ + 1 ELSE @]]
  BY DEF Tick, TimePasses
<1> QED
  BY <1>1, <1>2 DEF SameEntries, PendingRequest

\* The block of every entry of pendingRequests_ is requested once.
EntriesDistinct ==
    \A i, j \in DOMAIN pendingRequests :
        pendingRequests[i].block = pendingRequests[j].block => i = j

\* What is erased is an entry for the block, and without duplicates none for
\* it is left.
LEMMA EraseEntries ==
    ASSUME TypeOK, NEW b, ErasePending(b)
    PROVE  /\ \A k \in DOMAIN pendingRequests' :
                  \E i \in DOMAIN pendingRequests : pendingRequests'[k] = pendingRequests[i]
           /\ \A i \in DOMAIN pendingRequests :
                  pendingRequests[i].block # b =>
                      \E k \in DOMAIN pendingRequests' : pendingRequests'[k] = pendingRequests[i]
           /\ EntriesDistinct =>
                  /\ EntriesDistinct'
                  /\ \A k \in DOMAIN pendingRequests' : pendingRequests'[k].block # b
PROOF
<1>1. CASE /\ \A i \in DOMAIN pendingRequests : pendingRequests[i].block # b
           /\ UNCHANGED pendingRequests
  BY <1>1 DEF EntriesDistinct
<1>2. ASSUME NEW r \in DOMAIN pendingRequests, pendingRequests[r].block = b,
             pendingRequests' = RemoveAt(pendingRequests, r)
      PROVE  /\ \A k \in DOMAIN pendingRequests' :
                    \E i \in DOMAIN pendingRequests : pendingRequests'[k] = pendingRequests[i]
             /\ \A i \in DOMAIN pendingRequests :
                    pendingRequests[i].block # b =>
                        \E k \in DOMAIN pendingRequests' : pendingRequests'[k] = pendingRequests[i]
             /\ EntriesDistinct =>
                    /\ EntriesDistinct'
                    /\ \A k \in DOMAIN pendingRequests' : pendingRequests'[k].block # b
  <2> DEFINE n == Len(pendingRequests)
             Before(k) == IF k < r THEN k ELSE k + 1
  <2>1. /\ n \in Nat /\ DOMAIN pendingRequests = 1 .. n /\ r \in 1 .. n
        /\ pendingRequests \in Seq(PendingRequest)
    BY <1>2 DEF TypeOK, PieceTypeOK
  <2>2. /\ DOMAIN pendingRequests' = 1 .. n - 1
        /\ \A k \in 1 .. n - 1 : pendingRequests'[k] = pendingRequests[Before(k)]
    <3>1. /\ RemoveAt(pendingRequests, r) \in Seq(PendingRequest)
          /\ Len(RemoveAt(pendingRequests, r)) = n - 1
          /\ \A k \in 1 .. n - 1 : RemoveAt(pendingRequests, r)[k] =
                IF k < r THEN pendingRequests[k] ELSE pendingRequests[k + 1]
      BY <2>1, RemoveAtProperties
    <3> QED
      BY <1>2, <3>1
  <2> HIDE DEF n
  <2>3. \A k \in 1 .. n - 1 : Before(k) \in 1 .. n /\ Before(k) # r
    BY <2>1
  <2>4. \A i \in 1 .. n : i # r => \E k \in 1 .. n - 1 : Before(k) = i
    <3> TAKE i \in 1 .. n
    <3> HAVE i # r
    <3>1. CASE i < r
      BY <2>1, <3>1
    <3>2. CASE i > r
      <4>1. i - 1 \in 1 .. n - 1 /\ Before(i - 1) = i
        BY <2>1, <3>2
      <4> QED
        BY <4>1
    <3> QED
      BY <2>1, <3>1, <3>2
  <2>5. \A j, k \in 1 .. n - 1 : Before(j) = Before(k) => j = k
    BY <2>1
  <2> HIDE DEF Before
  <2>6. \A k \in DOMAIN pendingRequests' :
            \E i \in DOMAIN pendingRequests : pendingRequests'[k] = pendingRequests[i]
    BY <2>1, <2>2, <2>3
  <2>7. ASSUME NEW i \in DOMAIN pendingRequests, pendingRequests[i].block # b
        PROVE  \E k \in DOMAIN pendingRequests' : pendingRequests'[k] = pendingRequests[i]
    <3>1. i # r
      BY <1>2, <2>7
    <3>2. PICK k \in 1 .. n - 1 : Before(k) = i
      BY <2>1, <2>4, <3>1
    <3> QED
      BY <2>2, <3>2
  <2>8. ASSUME EntriesDistinct
        PROVE  /\ EntriesDistinct'
               /\ \A k \in DOMAIN pendingRequests' : pendingRequests'[k].block # b
    <3>1. EntriesDistinct'
      <4> SUFFICES ASSUME NEW j \in DOMAIN pendingRequests',
                          NEW k \in DOMAIN pendingRequests',
                          pendingRequests'[j].block = pendingRequests'[k].block
                   PROVE  j = k
        BY DEF EntriesDistinct
      <4>1. Before(j) = Before(k)
        BY <2>1, <2>2, <2>3, <2>8 DEF EntriesDistinct
      <4> QED
        BY <2>2, <2>5, <4>1
    <3>2. ASSUME NEW k \in DOMAIN pendingRequests', pendingRequests'[k].block = b
          PROVE  FALSE
      <4>1. Before(k) = r
        BY <1>2, <2>1, <2>2, <2>3, <2>8, <3>2 DEF EntriesDistinct
      <4> QED
        BY <2>2, <2>3, <4>1
    <3> QED
      BY <3>1, <3>2
  <2> QED
    BY <2>6, <2>7, <2>8
<1> QED
  BY <1>1, <1>2 DEF ErasePending

\* nextRequest hands out a block that has an expired entry, or one that is
\* missing: of a piece that is ongoing, with a new entry, or the first one of
\* a piece that was missing, with none.
Repeats(b) == /\ UNCHANGED <<missingPieces, ongoingPieces, status>>
              /\ SameEntries
              /\ \E i \in DOMAIN pendingRequests :
                    /\ pendingRequests[i].block = b
                    /\ pendingRequests[i].age >= MaxPendingTime

Continues(b) == /\ PieceOf(b) \in Ongoing
                /\ status[b] = "missing"
                /\ status' = [status EXCEPT ![b] = "pending"]
                /\ pendingRequests' = Append(pendingRequests, [block |-> b, age |-> 0])
                /\ UNCHANGED <<missingPieces, ongoingPieces>>

Starts(b) == /\ PieceOf(b) \in missingPieces
             /\ NextOfPiece(PieceOf(b), b)
             /\ status' = [status EXCEPT ![b] = "pending"]
             /\ missingPieces' = missingPieces \ {PieceOf(b)}
             /\ ongoingPieces' = Append(ongoingPieces, PieceOf(b))
             /\ UNCHANGED pendingRequests

LEMMA NextRequestCases ==
    ASSUME TypeOK, NEW q, NEW b \in BlockIds, NextRequest(q, b)
    PROVE  /\ Repeats(b) \/ Continues(b) \/ Starts(b)
           /\ UNCHANGED <<havePieces, data>>
PROOF
<1> USE DEF TypeOK, PieceTypeOK
<1>1. CASE ExpiredRequest(q, b)
  <2>1. PICK i \in DOMAIN pendingRequests :
            /\ Expired(q, i)
            /\ b = pendingRequests[i].block
            /\ pendingRequests' = [pendingRequests EXCEPT ![i].age = 0]
            /\ UNCHANGED <<missingPieces, ongoingPieces, status>>
    BY <1>1 DEF ExpiredRequest
  <2>2. \A k \in DOMAIN pendingRequests : pendingRequests[k] \in PendingRequest
    OBVIOUS
  <2>3. SameEntries
    BY <2>1, <2>2 DEF SameEntries, PendingRequest
  <2> QED
    BY <2>1, <2>3 DEF Repeats, Expired, NextRequest
<1>2. CASE NextOngoing(q, b)
  <2>1. PICK i \in DOMAIN ongoingPieces : NextOfPiece(ongoingPieces[i], b)
    BY <1>2 DEF NextOngoing
  <2>2. PieceOf(b) = ongoingPieces[i] /\ status[b] = "missing"
    BY <2>1, BlockIdsProperties DEF NextOfPiece
  <2>3. PieceOf(b) \in Ongoing
    BY <2>2 DEF Ongoing, ToSet
  <2> QED
    BY <1>2, <2>2, <2>3 DEF Continues, NextOngoing, NextRequest
<1>3. CASE StartPiece(q, b)
  <2>1. PICK p \in missingPieces : /\ NextOfPiece(p, b)
                                   /\ missingPieces' = missingPieces \ {p}
                                   /\ ongoingPieces' = Append(ongoingPieces, p)
    BY <1>3 DEF StartPiece
  <2>2. PieceOf(b) = p
    BY <2>1, BlockIdsProperties DEF NextOfPiece
  <2> QED
    BY <1>3, <2>1, <2>2 DEF Starts, StartPiece, NextRequest
<1> QED
  BY <1>1, <1>2, <1>3 DEF NextRequest

-----------------------------------------------------------------------------
(* No request of nextOngoing is forgotten, whatever the peers send.        *)

\* No block of a missing piece has been requested: that is why a piece is
\* started with its first block.
MissingUntouched ==
    \A b \in BlockIds : PieceOf(b) \in missingPieces => status[b] = "missing"

TrackInv == HandInv /\ MissingUntouched /\ RequestsTracked

\* The invariants of the module PeerConnectionProofs, for one step.
LEMMA HandNext ==
    ASSUME HandInv, Next
    PROVE  HandInv'
PROOF
<1>1. TypeOK'
  BY TypeStep DEF HandInv, ConservedInv
<1> QED
  BY <1>1, ConservedStep, HandStep DEF HandInv, ConservedInv

LEMMA HandStart == Init => HandInv
PROOF
  BY TypeInit, ConservedInit, HandInit DEF HandInv, ConservedInv

LEMMA UntouchedStep ==
    ASSUME HandInv, MissingUntouched, Next
    PROVE  MissingUntouched'
PROOF
<1> USE DEF HandInv, ConservedInv
<1>1. CASE UNCHANGED <<status, missingPieces>>
  BY <1>1 DEF MissingUntouched
<1>2. ASSUME NEW w \in Workers, NEW b \in BlockIds, SendRequest(w, b)
      PROVE  MissingUntouched'
  <2>1. Repeats(b) \/ Continues(b) \/ Starts(b)
    BY <1>2, NextRequestCases DEF SendRequest
  <2>2. CASE Continues(b)
    <3>1. PieceOf(b) \notin missingPieces
      BY <2>2 DEF Continues, PiecesConserved
    <3> QED
      BY <2>2, <3>1 DEF Continues, MissingUntouched, TypeOK, PieceTypeOK
  <2> QED
    BY <2>1, <2>2, <1>1 DEF Repeats, Starts, MissingUntouched, TypeOK, PieceTypeOK
<1>3. ASSUME NEW w \in Workers, Store(w)
      PROVE  MissingUntouched'
  <2>1. PICK b \in target[w], content \in Contents : StoreBlock(b, content)
    BY <1>3 DEF Store
  <2>2. PieceOf(b) \notin missingPieces
    BY DEF TargetsStarted
  <2> QED
    BY <2>1, <2>2 DEF StoreBlock, MissingUntouched, TypeOK, PieceTypeOK
<1>4. ASSUME NEW w \in Workers, Reset(w)
      PROVE  MissingUntouched'
  BY <1>4 DEF Reset, ResetPiece, MissingUntouched
<1>5. ASSUME NEW w \in Workers, BlockReceived(w)
      PROVE  MissingUntouched'
  BY <1>5, <1>1, <1>3, <1>4
  DEF BlockReceived, CompleteTest, HashTest, Seek, Write, Publish, PublishPiece, pieceVars
<1>6. ASSUME NEW w \in Workers, NEW b \in BlockIds, ReceivePiece(w, b)
      PROVE  MissingUntouched'
  BY <1>6, <1>1 DEF ReceivePiece
<1> QED
  BY StepCases, <1>1, <1>2, <1>5, <1>6 DEF QuietStep, Tick, TimePasses, pieceVars

\* The entry of an outstanding request, or the worker that has its answer.
Tracked(b) == \/ \E i \in DOMAIN pendingRequests : pendingRequests[i].block = b
              \/ \E w \in Workers : pc[w] = "store" /\ b \in target[w]

LEMMA TrackedStep ==
    ASSUME HandInv, MissingUntouched, RequestsTracked, Next
    PROVE  RequestsTracked'
PROOF
<1> USE DEF HandInv, ConservedInv
<1> SUFFICES ASSUME NEW b \in BlockIds,
                    PieceOf(b) \in Ongoing', status'[b] = "pending", b[2] > 1
             PROVE  Tracked(b)'
  BY DEF RequestsTracked, Tracked
<1>0. ASSUME PieceOf(b) \in Ongoing, status[b] = "pending"
      PROVE  Tracked(b)
  BY <1>0 DEF RequestsTracked, Tracked
<1>1. CASE QuietStep
  <2>1. Tracked(b) /\ UNCHANGED <<pendingRequests, target>>
    BY <1>0, <1>1 DEF QuietStep, pieceVars, Ongoing
  <2>2. \A w \in Workers : pc[w] = "store" => pc'[w] = "store"
    BY <1>1 DEF QuietStep, Busy
  <2> QED
    BY <2>1, <2>2 DEF Tracked
<1>2. CASE Tick
  <2>1. Tracked(b) /\ UNCHANGED <<pc, target>>
    BY <1>0, <1>2 DEF Tick, TimePasses, Ongoing, workerVars
  <2> QED
    BY <1>2, <2>1, TickEntries DEF Tracked, SameEntries
<1>3. ASSUME NEW w \in Workers, NEW c \in BlockIds, ReceivePiece(w, c)
      PROVE  Tracked(b)'
  <2>1. /\ PieceOf(b) \in Ongoing /\ Tracked(b) /\ ErasePending(c)
        /\ pc[w] = "recv"
    BY <1>0, <1>3 DEF ReceivePiece, Ongoing, At
  <2>2. CASE b = c
    <3>1. target' = [target EXCEPT ![w] = {c}] /\ pc' = [pc EXCEPT ![w] = "store"]
      BY <1>3, <2>1, <2>2 DEF ReceivePiece, GoTo
    <3> QED
      BY <2>2, <3>1 DEF Tracked, TypeOK
  <2>3. CASE b # c
    <3>1. CASE \E i \in DOMAIN pendingRequests : pendingRequests[i].block = b
      BY <2>1, <2>3, <3>1, EraseEntries DEF Tracked
    <3>2. ASSUME NEW v \in Workers, pc[v] = "store", b \in target[v]
          PROVE  Tracked(b)'
      <4>1. v # w
        BY <2>1, <3>2
      <4>2. pc'[v] = pc[v] /\ target'[v] = target[v]
        BY <1>3, <4>1 DEF ReceivePiece, GoTo, AfterMessage, TypeOK
      <4> QED
        BY <3>2, <4>2 DEF Tracked
    <3> QED
      BY <2>1, <3>1, <3>2 DEF Tracked
  <2> QED
    BY <2>2, <2>3
<1>4. ASSUME NEW w \in Workers, NEW c \in BlockIds, SendRequest(w, c)
      PROVE  Tracked(b)'
  <2>1. /\ Repeats(c) \/ Continues(c) \/ Starts(c)
        /\ UNCHANGED target /\ pc[w] = "pick" /\ pc' = [pc EXCEPT ![w] = "inner"]
    BY <1>4, NextRequestCases DEF SendRequest, At, GoTo
  <2>2. ASSUME Tracked(b),
               \A i \in DOMAIN pendingRequests :
                   /\ i \in DOMAIN pendingRequests'
                   /\ pendingRequests'[i].block = pendingRequests[i].block
        PROVE  Tracked(b)'
    BY <2>1, <2>2 DEF Tracked, TypeOK
  <2>3. CASE Repeats(c)
    BY <1>0, <2>2, <2>3 DEF Repeats, SameEntries, Ongoing
  <2>4. CASE Continues(c)
    <3>1. /\ pendingRequests \in Seq(PendingRequest)
          /\ [block |-> c, age |-> 0] \in PendingRequest
      BY PieceManagerAssumption DEF TypeOK, PieceTypeOK, PendingRequest
    <3>2. /\ \A i \in DOMAIN pendingRequests :
                 /\ i \in DOMAIN pendingRequests'
                 /\ pendingRequests'[i] = pendingRequests[i]
          /\ \E i \in DOMAIN pendingRequests' : pendingRequests'[i].block = c
      <4>1. pendingRequests' = Append(pendingRequests, [block |-> c, age |-> 0])
        BY <2>4 DEF Continues
      <4>2. /\ Len(pendingRequests) + 1 \in DOMAIN pendingRequests'
            /\ pendingRequests'[Len(pendingRequests) + 1] = [block |-> c, age |-> 0]
        BY <3>1, <4>1
      <4> QED
        BY <3>1, <4>1, <4>2
    <3>3. CASE b = c
      BY <3>2, <3>3 DEF Tracked
    <3>4. CASE b # c
      <4>1. PieceOf(b) \in Ongoing /\ status[b] = "pending"
        BY <2>4, <3>4 DEF Continues, Ongoing, TypeOK, PieceTypeOK
      <4> QED
        BY <1>0, <2>2, <3>2, <4>1
    <3> QED
      BY <3>3, <3>4
  <2>5. CASE Starts(c)
    <3>1. b # c
      <4>1. PieceOf(c) \in Pieces /\ c \in Blocks(PieceOf(c))
        BY BlockIdsProperties
      <4>2. <<PieceOf(c), 1>> \in Blocks(PieceOf(c))
        BY <4>1, TorrentAssumption DEF Blocks, Pieces
      <4>3. status[<<PieceOf(c), 1>>] = "missing"
        BY <2>5, <4>1, <4>2, BlockIdsProperties DEF Starts, MissingUntouched
      <4>4. c[2] <= 1
        BY <2>5, <4>2, <4>3 DEF Starts, NextOfPiece
      <4>5. c[2] \in Nat
        BY <4>1, TorrentAssumption DEF Blocks, Pieces
      <4> QED
        BY <4>4, <4>5
    <3>2. status[b] = "pending"
      BY <2>5, <3>1 DEF Starts, TypeOK, PieceTypeOK
    <3>3. PieceOf(b) \in Ongoing
      <4>1. Ongoing' = Ongoing \union {PieceOf(c)}
        BY <2>5, AppendToSet DEF Starts, Ongoing, TypeOK, PieceTypeOK
      <4>2. PieceOf(b) # PieceOf(c)
        BY <2>5, <3>2 DEF Starts, MissingUntouched
      <4> QED
        BY <4>1, <4>2
    <3> QED
      BY <1>0, <2>2, <2>5, <3>2, <3>3 DEF Starts
  <2> QED
    BY <2>1, <2>3, <2>4, <2>5
<1>5. ASSUME NEW w \in Workers, BlockReceived(w)
      PROVE  Tracked(b)'
  <2>1. UNCHANGED pendingRequests
    BY <1>5 DEF BlockReceived, Store, StoreBlock, CompleteTest, HashTest, Reset, ResetPiece,
                Seek, Write, Publish, PublishPiece, pieceVars
  <2>2. \A v \in Workers \ {w} : pc'[v] = pc[v] /\ target'[v] = target[v]
    BY <1>5 DEF BlockReceived, Store, CompleteTest, HashTest, Reset, Seek, Write, Publish,
                BlockReceivedDone, AfterMessage, GoTo, workerVars, TypeOK
  <2>3. PieceOf(b) \in Ongoing /\ status[b] = "pending"
    <3>1. CASE Publish(w)
      <4>1. PICK c \in target[w] : PublishPiece(PieceOf(c))
        BY <3>1 DEF Publish
      <4>2. PieceOf(c) \in Pieces /\ PieceOf(c) \notin missingPieces
        BY BlockIdsProperties DEF TypeOK, TargetsStarted
      <4> QED
        BY <4>1, <4>2, PublishMoves DEF PublishPiece
    <3>2. CASE Store(w)
      BY <3>2 DEF Store, StoreBlock, Ongoing, TypeOK, PieceTypeOK
    <3>3. CASE Reset(w)
      BY <3>3 DEF Reset, ResetPiece, Ongoing
    <3> QED
      BY <1>5, <3>1, <3>2, <3>3
      DEF BlockReceived, CompleteTest, HashTest, Seek, Write, pieceVars, Ongoing
  <2>4. pc[w] = "store" => b \notin target[w]
    <3> SUFFICES ASSUME pc[w] = "store", b \in target[w]
                 PROVE  FALSE
      OBVIOUS
    <3>1. Store(w)
      BY <1>5 DEF BlockReceived, CompleteTest, HashTest, Reset, Seek, Write, Publish, At
    <3>2. PICK c \in target[w], content \in Contents : StoreBlock(c, content)
      BY <3>1 DEF Store
    <3>3. b = c
      BY DEF TargetsSingle
    <3> QED
      BY <3>2, <3>3 DEF StoreBlock, TypeOK, PieceTypeOK
  <2> QED
    BY <1>0, <2>1, <2>2, <2>3, <2>4 DEF Tracked
<1> QED
  BY StepCases, <1>1, <1>2, <1>3, <1>4, <1>5

\* Whatever peers send and however connections break, the request for a block
\* that is not the first of its piece stays in pendingRequests_ until a worker
\* is about to store the block.
THEOREM RequestsAreTracked == Spec => []RequestsTracked
PROOF
<1>1. Init => TrackInv
  <2> SUFFICES ASSUME Init
               PROVE  MissingUntouched /\ RequestsTracked
    BY HandStart DEF TrackInv
  <2>1. \A b \in BlockIds : status[b] = "missing"
    BY DEF Init, PieceInit
  <2> QED
    BY <2>1 DEF MissingUntouched, RequestsTracked
<1>2. TrackInv /\ [Next]_vars => TrackInv'
  <2>1. CASE Next
    BY <2>1, HandNext, UntouchedStep, TrackedStep DEF TrackInv
  <2>2. CASE UNCHANGED vars
    BY <2>2 DEF vars, pieceVars, TrackInv, HandInv, ConservedInv, TypeOK, PieceTypeOK,
         PeersTypeOK, IsBitField, DiskTypeOK, PiecesConserved, TargetsStarted, TargetsSingle,
         CompletePieceInHand, PieceComplete, MissingUntouched, RequestsTracked, Ongoing, Have
  <2> QED
    BY <2>1, <2>2
<1>3. TrackInv => RequestsTracked
  BY DEF TrackInv
<1> QED
  BY <1>1, <1>2, <1>3, PTL DEF Spec

-----------------------------------------------------------------------------
(* Peers that send what the hashes stand for.  Then no piece is ever reset, *)
(* and a block that has been retrieved stays so.                           *)

HonestPeers == Contents = {"good"}

StoredIsGood == \A b \in BlockIds : status[b] = "retrieved" => data[b] = "good"

\* What is awaited or being stored has been requested.
AwaitedRequested ==
    \A w \in Workers : \A b \in inFlight[w] \union target[w] : status[b] # "missing"

HaveComplete == \A p \in Have : PieceComplete(p)

\* A worker that hashes, writes or publishes has a complete piece, and none
\* finds a hash that does not match.
FinishesComplete ==
    \A w \in Workers :
        /\ pc[w] # "reset"
        /\ pc[w] \in {"hash", "seek", "write", "publish"} =>
               \A b \in target[w] : PieceComplete(PieceOf(b))

BlocksInv == StoredIsGood /\ AwaitedRequested /\ HaveComplete /\ FinishesComplete

\* The entries of pendingRequests_ are for blocks that are awaited, and none
\* is for a block that a worker is about to store.
EntriesPending ==
    \A i \in DOMAIN pendingRequests : status[pendingRequests[i].block] = "pending"

StoresUntracked ==
    \A w \in Workers : pc[w] = "store" =>
        \A b \in target[w] : \A i \in DOMAIN pendingRequests : pendingRequests[i].block # b

EntriesInv == EntriesPending /\ EntriesDistinct /\ StoresUntracked

HonestInv == HandInv /\ MissingUntouched /\ BlocksInv /\ EntriesInv

\* Only missing blocks change to pending, and none changes back.
LEMMA StatusStep ==
    ASSUME HandInv, BlocksInv, Next
    PROVE  \A b \in BlockIds :
               /\ status[b] = "retrieved" => status'[b] = "retrieved"
               /\ status[b] # "missing" => status'[b] # "missing"
PROOF
<1> USE DEF HandInv, ConservedInv, TypeOK, PieceTypeOK
<1>1. CASE UNCHANGED status
  BY <1>1
<1>2. ASSUME NEW w \in Workers, NEW b \in BlockIds, SendRequest(w, b)
      PROVE  \A c \in BlockIds :
                 /\ status[c] = "retrieved" => status'[c] = "retrieved"
                 /\ status[c] # "missing" => status'[c] # "missing"
  <2>1. Repeats(b) \/ Continues(b) \/ Starts(b)
    BY <1>2, NextRequestCases DEF SendRequest
  <2> QED
    BY <2>1 DEF Repeats, Continues, Starts, NextOfPiece
<1>3. ASSUME NEW w \in Workers, BlockReceived(w)
      PROVE  \A c \in BlockIds :
                 /\ status[c] = "retrieved" => status'[c] = "retrieved"
                 /\ status[c] # "missing" => status'[c] # "missing"
  <2>1. CASE Store(w)
    BY <2>1 DEF Store, StoreBlock
  <2>2. ~Reset(w)
    BY DEF Reset, At, BlocksInv, FinishesComplete
  <2> QED
    BY <1>1, <1>3, <2>1, <2>2
    DEF BlockReceived, CompleteTest, HashTest, Seek, Write, Publish, PublishPiece, pieceVars
<1> QED
  BY StepCases, <1>1, <1>2, <1>3 DEF QuietStep, Tick, TimePasses, ReceivePiece, pieceVars

LEMMA CompleteStays ==
    ASSUME HandInv, BlocksInv, Next, NEW p \in Pieces, PieceComplete(p)
    PROVE  PieceComplete(p)'
PROOF
  BY StatusStep, BlockIdsProperties DEF PieceComplete

LEMMA GoodStep ==
    ASSUME HonestPeers, HandInv, BlocksInv, Next
    PROVE  StoredIsGood'
PROOF
<1> USE DEF HandInv, ConservedInv, TypeOK, PieceTypeOK, BlocksInv
<1>1. CASE UNCHANGED <<status, data>>
  BY <1>1 DEF StoredIsGood
<1>2. ASSUME NEW w \in Workers, NEW b \in BlockIds, SendRequest(w, b)
      PROVE  StoredIsGood'
  <2>1. (Repeats(b) \/ Continues(b) \/ Starts(b)) /\ UNCHANGED data
    BY <1>2, NextRequestCases DEF SendRequest
  <2> QED
    BY <2>1 DEF Repeats, Continues, Starts, StoredIsGood
<1>3. ASSUME NEW w \in Workers, BlockReceived(w)
      PROVE  StoredIsGood'
  <2>1. CASE Store(w)
    BY <2>1 DEF Store, StoreBlock, StoredIsGood, HonestPeers
  <2>2. CASE Reset(w)
    BY <2>2 DEF Reset, ResetPiece, StoredIsGood
  <2> QED
    BY <1>1, <1>3, <2>1, <2>2
    DEF BlockReceived, CompleteTest, HashTest, Seek, Write, Publish, PublishPiece, pieceVars
<1> QED
  BY StepCases, <1>1, <1>2, <1>3 DEF QuietStep, Tick, TimePasses, ReceivePiece, pieceVars

LEMMA AwaitedStep ==
    ASSUME HandInv, BlocksInv, EntriesInv, Next
    PROVE  AwaitedRequested'
PROOF
<1> USE DEF HandInv, ConservedInv, TypeOK
<1>1. ASSUME \A w \in Workers :
                inFlight'[w] \union target'[w] \subseteq inFlight[w] \union target[w]
      PROVE  AwaitedRequested'
  BY <1>1, StatusStep DEF BlocksInv, AwaitedRequested
<1>2. ASSUME NEW w \in Workers, NEW b \in BlockIds, ReceivePiece(w, b)
      PROVE  AwaitedRequested'
  BY <1>1, <1>2 DEF ReceivePiece
<1>3. ASSUME NEW w \in Workers, NEW b \in BlockIds, SendRequest(w, b)
      PROVE  AwaitedRequested'
  <2>1. (Repeats(b) \/ Continues(b) \/ Starts(b))
        /\ inFlight' = [inFlight EXCEPT ![w] = {b}] /\ UNCHANGED target
    BY <1>3, NextRequestCases DEF SendRequest
  <2>2. status'[b] # "missing"
    BY <2>1
    DEF Repeats, Continues, Starts, EntriesInv, EntriesPending, PieceTypeOK
  <2> QED
    BY <2>1, <2>2, StatusStep DEF BlocksInv, AwaitedRequested
<1>4. ASSUME NEW w \in Workers, BlockReceived(w)
      PROVE  AwaitedRequested'
  BY <1>1, <1>4
  DEF BlockReceived, Store, CompleteTest, HashTest, Reset, Seek, Write, Publish,
      BlockReceivedDone, workerVars
<1> QED
  BY StepCases, <1>1, <1>2, <1>3, <1>4 DEF QuietStep, Tick, workerVars

LEMMA FinishStep ==
    ASSUME HonestPeers, HandInv, BlocksInv, Next
    PROVE  HaveComplete' /\ FinishesComplete'
PROOF
<1> USE DEF HandInv, ConservedInv, TypeOK, BlocksInv
<1>0. /\ \A b \in BlockIds : PieceOf(b) \in Pieces
      /\ Have \subseteq Pieces
  BY BlockIdsProperties DEF Have, ToSet, PieceTypeOK
<1>1. ASSUME NEW w \in Workers, pc'[w] = pc[w], target'[w] = target[w]
      PROVE  /\ pc'[w] # "reset"
             /\ pc'[w] \in {"hash", "seek", "write", "publish"} =>
                    \A b \in target'[w] : PieceComplete(PieceOf(b))'
  BY <1>0, <1>1, CompleteStays DEF FinishesComplete
<1>2. ASSUME NEW w \in Workers, pc'[w] \notin {"hash", "reset", "seek", "write", "publish"},
             \A v \in Workers \ {w} : pc'[v] = pc[v] /\ target'[v] = target[v]
      PROVE  FinishesComplete'
  BY <1>1, <1>2 DEF FinishesComplete
<1>3. UNCHANGED havePieces => HaveComplete'
  BY <1>0, CompleteStays DEF HaveComplete, Have
<1>4. CASE QuietStep
  <2>1. FinishesComplete'
    <3>1. ASSUME NEW v \in Workers
          PROVE  /\ pc'[v] # "reset"
                 /\ pc'[v] \in {"hash", "seek", "write", "publish"} =>
                        \A b \in target'[v] : PieceComplete(PieceOf(b))'
      <4>1. CASE pc'[v] = pc[v]
        BY <1>1, <1>4, <4>1 DEF QuietStep
      <4>2. CASE pc'[v] \notin Busy
        BY <4>2 DEF Busy, Finishing
      <4> QED
        BY <1>4, <4>1, <4>2 DEF QuietStep
    <3> QED
      BY <3>1 DEF FinishesComplete
  <2> QED
    BY <1>3, <1>4, <2>1 DEF QuietStep, pieceVars
<1>5. CASE Tick
  BY <1>1, <1>3, <1>5 DEF Tick, TimePasses, workerVars, FinishesComplete
<1>6. ASSUME NEW w \in Workers, NEW b \in BlockIds, ReceivePiece(w, b) \/ SendRequest(w, b)
      PROVE  HaveComplete' /\ FinishesComplete'
  <2>1. /\ pc'[w] \in {"store", "request", "inner"}
        /\ \A v \in Workers \ {w} : pc'[v] = pc[v] /\ target'[v] = target[v]
        /\ UNCHANGED havePieces
    BY <1>6 DEF ReceivePiece, SendRequest, NextRequest, GoTo, AfterMessage
  <2> QED
    BY <1>2, <1>3, <2>1
<1>7. ASSUME NEW w \in Workers, BlockReceived(w)
      PROVE  HaveComplete' /\ FinishesComplete'
  <2>0. \A v \in Workers \ {w} : pc'[v] = pc[v] /\ target'[v] = target[v]
    BY <1>7 DEF BlockReceived, Store, CompleteTest, HashTest, Reset, Seek, Write, Publish,
                BlockReceivedDone, AfterMessage, GoTo, workerVars
  <2>1. CASE Store(w)
    BY <1>2, <1>3, <2>0, <2>1 DEF Store, StoreBlock, GoTo
  <2>2. CASE CompleteTest(w)
    <3>0. HaveComplete'
      BY <1>3, <2>2 DEF CompleteTest, pieceVars
    <3>1. PICK b \in target[w] :
            \/ PieceComplete(PieceOf(b)) /\ GoTo(w, "hash") /\ UNCHANGED target
            \/ BlockReceivedDone(w)
      BY <2>2 DEF CompleteTest
    <3>2. CASE PieceComplete(PieceOf(b)) /\ GoTo(w, "hash") /\ UNCHANGED target
      <4>1. \A c \in target'[w] : PieceComplete(PieceOf(c))'
        BY <1>0, <3>2, CompleteStays DEF TargetsSingle
      <4>2. pc'[w] = "hash"
        BY <3>2 DEF GoTo
      <4> QED
        BY <1>1, <2>0, <3>0, <4>1, <4>2 DEF FinishesComplete
    <3>3. CASE BlockReceivedDone(w)
      BY <1>2, <2>0, <3>0, <3>3 DEF BlockReceivedDone, AfterMessage, GoTo
    <3> QED
      BY <3>1, <3>2, <3>3
  <2>3. CASE HashTest(w) \/ Seek(w) \/ Write(w)
    <3>0. HaveComplete' /\ UNCHANGED target
      BY <1>3, <2>3 DEF HashTest, Seek, Write, pieceVars, workerVars
    <3>1. pc[w] \in {"hash", "seek", "write"}
      BY <2>3 DEF HashTest, Seek, Write, At
    <3>2. ASSUME NEW b \in target[w]
          PROVE  PieceComplete(PieceOf(b)) /\ HashMatches(PieceOf(b))
      <4>1. PieceComplete(PieceOf(b))
        BY <3>1 DEF FinishesComplete
      <4> QED
        BY <1>0, <4>1, BlockIdsProperties DEF StoredIsGood, PieceComplete, HashMatches
    <3>3. pc'[w] \in {"seek", "write", "publish"}
      BY <2>3, <3>2 DEF HashTest, Seek, Write, GoTo
    <3>4. \A b \in target'[w] : PieceComplete(PieceOf(b))'
      BY <1>0, <3>0, <3>2, CompleteStays
    <3> QED
      BY <1>1, <2>0, <3>0, <3>3, <3>4 DEF FinishesComplete
  <2>4. CASE Reset(w)
    BY <2>4 DEF Reset, At, FinishesComplete
  <2>5. CASE Publish(w)
    <3>1. PICK b \in target[w] : PublishPiece(PieceOf(b))
      BY <2>5 DEF Publish
    <3>2. PieceComplete(PieceOf(b)) /\ PieceOf(b) \in Pieces
      BY <1>0, <2>5 DEF Publish, At, FinishesComplete
    <3>3. Have' = Have \union {PieceOf(b)}
      BY <3>1, <3>2, AppendToSet DEF PublishPiece, Have, PieceTypeOK
    <3>4. HaveComplete'
      BY <1>0, <3>2, <3>3, CompleteStays DEF HaveComplete
    <3> QED
      BY <1>2, <2>0, <2>5, <3>4 DEF Publish, BlockReceivedDone, AfterMessage, GoTo
  <2> QED
    BY <1>7, <2>1, <2>2, <2>3, <2>4, <2>5 DEF BlockReceived
<1> QED
  BY StepCases, <1>4, <1>5, <1>6, <1>7

LEMMA EntryBlocks ==
    ASSUME TypeOK
    PROVE  \A i \in DOMAIN pendingRequests : pendingRequests[i].block \in BlockIds
PROOF
<1>1. \A i \in DOMAIN pendingRequests : pendingRequests[i] \in PendingRequest
  BY DEF TypeOK, PieceTypeOK
<1> QED
  BY <1>1 DEF PendingRequest

\* What a worker is about to store while another one chooses has been
\* requested, and what is reset is a whole piece: both hold with honest peers,
\* and of workers that take turns.
StoresRequested ==
    \A v, w \in Workers : pc[v] = "store" /\ pc[w] = "pick" =>
        \A b \in target[v] : status[b] # "missing"

ResetsComplete ==
    \A w \in Workers : pc[w] = "reset" =>
        \A b \in target[w] : PieceComplete(PieceOf(b))

LEMMA EntriesStep ==
    ASSUME HandInv, EntriesInv, StoresRequested, ResetsComplete, Next
    PROVE  EntriesInv'
PROOF
<1> USE DEF HandInv, ConservedInv, TypeOK, PieceTypeOK
<1>0. \A i \in DOMAIN pendingRequests : pendingRequests[i].block \in BlockIds
  BY EntryBlocks
<1>1. ASSUME SameEntries, UNCHANGED status, UNCHANGED target,
             \A w \in Workers : pc'[w] = "store" => pc[w] = "store"
      PROVE  EntriesInv'
  <2>1. EntriesPending'
    BY <1>1 DEF SameEntries, EntriesInv, EntriesPending
  <2>2. EntriesDistinct'
    BY <1>1 DEF SameEntries, EntriesInv, EntriesDistinct
  <2>3. StoresUntracked'
    BY <1>1 DEF SameEntries, EntriesInv, StoresUntracked
  <2> QED
    BY <2>1, <2>2, <2>3 DEF EntriesInv
<1>2. CASE QuietStep
  BY <1>1, <1>2 DEF QuietStep, SameEntries, Busy, pieceVars
<1>3. CASE Tick
  <2>1. SameEntries
    BY <1>3, TickEntries
  <2> QED
    BY <1>1, <1>3, <2>1 DEF Tick, TimePasses, workerVars
<1>4. ASSUME NEW w \in Workers, NEW b \in BlockIds, ReceivePiece(w, b)
      PROVE  EntriesInv'
  <2>1. ErasePending(b) /\ UNCHANGED status
    BY <1>4 DEF ReceivePiece
  <2>2. EntriesPending' /\ EntriesDistinct'
    BY <2>1, EraseEntries DEF EntriesInv, EntriesPending
  <2>3. StoresUntracked'
    <3> SUFFICES ASSUME NEW v \in Workers, pc'[v] = "store", NEW c \in target'[v],
                        NEW k \in DOMAIN pendingRequests', pendingRequests'[k].block = c
                 PROVE  FALSE
      BY DEF StoresUntracked
    <3>1. c # b
      BY <2>1, EraseEntries DEF EntriesInv
    <3>2. CASE v = w
      BY <1>4, <3>1, <3>2 DEF ReceivePiece, GoTo, AfterMessage
    <3>3. CASE v # w
      <4>1. pc[v] = "store" /\ c \in target[v]
        BY <1>4, <3>3 DEF ReceivePiece, GoTo, AfterMessage
      <4>2. PICK i \in DOMAIN pendingRequests : pendingRequests'[k] = pendingRequests[i]
        BY <2>1, EraseEntries
      <4> QED
        BY <4>1, <4>2 DEF EntriesInv, StoresUntracked
    <3> QED
      BY <3>2, <3>3
  <2> QED
    BY <2>2, <2>3 DEF EntriesInv
<1>5. ASSUME NEW w \in Workers, NEW b \in BlockIds, SendRequest(w, b)
      PROVE  EntriesInv'
  <2>1. /\ Repeats(b) \/ Continues(b) \/ Starts(b)
        /\ UNCHANGED target /\ pc' = [pc EXCEPT ![w] = "inner"] /\ pc[w] = "pick"
    BY <1>5, NextRequestCases DEF SendRequest, GoTo, At
  <2>2. \A v \in Workers : pc'[v] = "store" => pc[v] = "store"
    BY <2>1
  <2>3. CASE Repeats(b)
    BY <1>1, <2>1, <2>2, <2>3 DEF Repeats
  <2>4. CASE Continues(b)
    <3> DEFINE e == [block |-> b, age |-> 0]
               n == Len(pendingRequests)
    <3>1. /\ n \in Nat /\ DOMAIN pendingRequests = 1 .. n
          /\ DOMAIN pendingRequests' = 1 .. n + 1
          /\ \A i \in 1 .. n : pendingRequests'[i] = pendingRequests[i]
          /\ pendingRequests'[n + 1] = e
      <4>1. pendingRequests' = Append(pendingRequests, e)
        BY <2>4 DEF Continues
      <4> QED
        BY <4>1
    <3>2. /\ status[b] = "missing" /\ status'[b] = "pending"
          /\ \A c \in BlockIds \ {b} : status'[c] = status[c]
      BY <2>4 DEF Continues
    <3>3. \A i \in 1 .. n : pendingRequests[i].block # b
      BY <3>1, <3>2 DEF EntriesInv, EntriesPending
    <3>4. e.block = b
      OBVIOUS
    <3> HIDE DEF e, n
    <3>5. \A i \in 1 .. n + 1 : i \in 1 .. n \/ i = n + 1
      BY <3>1
    <3>6. EntriesPending'
      <4> SUFFICES ASSUME NEW i \in 1 .. n + 1
                   PROVE  status'[pendingRequests'[i].block] = "pending"
        BY <3>1 DEF EntriesPending
      <4>1. CASE i = n + 1
        BY <3>1, <3>2, <3>4, <4>1
      <4>2. CASE i \in 1 .. n
        <5>1. /\ pendingRequests[i].block \in BlockIds \ {b}
              /\ status[pendingRequests[i].block] = "pending"
          BY <1>0, <3>1, <3>3, <4>2 DEF EntriesInv, EntriesPending
        <5> QED
          BY <3>1, <3>2, <4>2, <5>1
      <4> QED
        BY <3>5, <4>1, <4>2
    <3>7. EntriesDistinct'
      BY <3>1, <3>3, <3>4, <3>5 DEF EntriesInv, EntriesDistinct
    <3>8. StoresUntracked'
      <4>1. \A v \in Workers : pc[v] = "store" => b \notin target[v]
        BY <2>1, <3>2 DEF StoresRequested
      <4> QED
        BY <2>1, <2>2, <3>1, <3>4, <3>5, <4>1 DEF EntriesInv, StoresUntracked
    <3> QED
      BY <3>6, <3>7, <3>8 DEF EntriesInv
  <2>5. CASE Starts(b)
    <3>1. /\ UNCHANGED pendingRequests
          /\ status[b] = "missing"
          /\ \A c \in BlockIds \ {b} : status'[c] = status[c]
      BY <2>5 DEF Starts, NextOfPiece
    <3>2. EntriesPending'
      BY <1>0, <3>1 DEF EntriesInv, EntriesPending
    <3> QED
      BY <2>1, <2>2, <3>1, <3>2 DEF EntriesInv, EntriesDistinct, StoresUntracked
  <2> QED
    BY <2>1, <2>3, <2>4, <2>5
<1>6. ASSUME NEW w \in Workers, BlockReceived(w)
      PROVE  EntriesInv'
  <2>1. /\ UNCHANGED pendingRequests
        /\ \A v \in Workers : target'[v] \subseteq target[v]
        /\ \A v \in Workers : pc'[v] = "store" => pc[v] = "store"
    <3>1. UNCHANGED pendingRequests
      BY <1>6 DEF BlockReceived, Store, StoreBlock, CompleteTest, HashTest, Reset, ResetPiece,
                  Seek, Write, Publish, PublishPiece, pieceVars
    <3>2. \A v \in Workers : target'[v] \subseteq target[v]
      BY <1>6 DEF BlockReceived, Store, CompleteTest, HashTest, Reset, Seek, Write, Publish,
                  BlockReceivedDone, workerVars
    <3>3. \A v \in Workers : pc'[v] = "store" => pc[v] = "store"
      BY <1>6 DEF BlockReceived, Store, CompleteTest, HashTest, Reset, Seek, Write, Publish,
                  BlockReceivedDone, AfterMessage, GoTo
    <3> QED
      BY <3>1, <3>2, <3>3
  <2>2. EntriesDistinct' /\ StoresUntracked'
    BY <2>1 DEF EntriesInv, EntriesDistinct, StoresUntracked
  <2>3. EntriesPending'
    <3>1. CASE UNCHANGED status
      BY <2>1, <3>1 DEF EntriesInv, EntriesPending
    <3>2. CASE Store(w)
      <4>1. PICK b \in target[w] : status' = [status EXCEPT ![b] = "retrieved"]
        BY <3>2 DEF Store, StoreBlock
      <4>2. \A i \in DOMAIN pendingRequests : pendingRequests[i].block # b
        BY <3>2 DEF Store, At, EntriesInv, StoresUntracked
      <4> QED
        BY <1>0, <2>1, <4>1, <4>2 DEF EntriesInv, EntriesPending
    <3>3. CASE Reset(w)
      <4>1. PICK b \in target[w] : ResetPiece(PieceOf(b))
        BY <3>3 DEF Reset
      <4>2. PieceOf(b) \in Pieces /\ PieceComplete(PieceOf(b))
        BY <3>3, BlockIdsProperties DEF Reset, At, ResetsComplete
      <4>3. \A i \in DOMAIN pendingRequests : PieceOf(pendingRequests[i].block) # PieceOf(b)
        BY <1>0, <4>2, BlockIdsProperties DEF PieceComplete, EntriesInv, EntriesPending
      <4> QED
        BY <1>0, <2>1, <4>1, <4>3 DEF ResetPiece, EntriesInv, EntriesPending
    <3> QED
      BY <1>6, <3>1, <3>2, <3>3
      DEF BlockReceived, CompleteTest, HashTest, Seek, Write, Publish, PublishPiece, pieceVars
  <2> QED
    BY <2>2, <2>3 DEF EntriesInv
<1> QED
  BY StepCases, <1>2, <1>3, <1>4, <1>5, <1>6

LEMMA HonestInit == Init => HonestInv
PROOF
<1> SUFFICES ASSUME Init
             PROVE  HonestInv
  OBVIOUS
<1>1. \A b \in BlockIds : status[b] = "missing"
  BY DEF Init, PieceInit
<1>2. Have = {} /\ DOMAIN pendingRequests = {}
  BY DEF Init, PieceInit, Have, ToSet
<1>3. \A w \in Workers : pc[w] = "outer" /\ inFlight[w] = {} /\ target[w] = {}
  BY DEF Init
<1> QED
  BY HandStart, <1>1, <1>2, <1>3
  DEF HonestInv, MissingUntouched, BlocksInv, StoredIsGood, AwaitedRequested, HaveComplete,
      FinishesComplete, EntriesInv, EntriesPending, EntriesDistinct, StoresUntracked

LEMMA HonestNext ==
    ASSUME HonestPeers, HonestInv, [Next]_vars
    PROVE  HonestInv'
PROOF
<1>0. StoresRequested /\ ResetsComplete
  BY DEF HonestInv, BlocksInv, AwaitedRequested, FinishesComplete, StoresRequested,
         ResetsComplete
<1>1. CASE Next
  BY <1>0, <1>1, HandNext, UntouchedStep, GoodStep, AwaitedStep, FinishStep, EntriesStep
  DEF HonestInv, BlocksInv
<1>2. CASE UNCHANGED vars
  BY <1>2 DEF vars, pieceVars, HonestInv, HandInv, ConservedInv, TypeOK, PieceTypeOK,
     PeersTypeOK, IsBitField, DiskTypeOK, PiecesConserved, TargetsStarted, TargetsSingle,
     CompletePieceInHand, PieceComplete, MissingUntouched, Ongoing, Have, BlocksInv,
     StoredIsGood, AwaitedRequested, HaveComplete, FinishesComplete, EntriesInv,
     EntriesPending, EntriesDistinct, StoresUntracked
<1> QED
  BY <1>1, <1>2

\* A requested block that has not arrived belongs to a piece in ongoingPieces_.
LEMMA PendingIsOngoing ==
    ASSUME HonestInv, NEW b \in BlockIds, status[b] = "pending"
    PROVE  PieceOf(b) \in Ongoing
PROOF
<1>1. PieceOf(b) \in Pieces /\ b \in Blocks(PieceOf(b))
  BY BlockIdsProperties
<1>2. PieceOf(b) \notin missingPieces
  BY DEF HonestInv, MissingUntouched
<1>3. PieceOf(b) \notin Have
  BY <1>1 DEF HonestInv, BlocksInv, HaveComplete, PieceComplete
<1> QED
  BY <1>1, <1>2, <1>3 DEF HonestInv, HandInv, ConservedInv, PiecesConserved

\* With honest peers, no entry of pendingRequests_ ever points into a freed
\* piece or to a block that has arrived, and no block has two.
THEOREM PendingRequestsStayLive ==
    ASSUME HonestPeers
    PROVE  Spec => []PendingRequestsLive
PROOF
<1>1. HonestInv /\ [Next]_vars => HonestInv'
  BY HonestNext
<1>2. HonestInv => PendingRequestsLive
  <2> SUFFICES ASSUME HonestInv
               PROVE  PendingRequestsLive
    OBVIOUS
  <2>1. \A i \in DOMAIN pendingRequests : /\ pendingRequests[i].block \in BlockIds
                                          /\ status[pendingRequests[i].block] = "pending"
    BY EntryBlocks DEF HonestInv, HandInv, ConservedInv, EntriesInv, EntriesPending
  <2> QED
    BY <2>1, PendingIsOngoing DEF HonestInv, EntriesInv, EntriesDistinct, PendingRequestsLive
<1> QED
  BY HonestInit, <1>1, <1>2, PTL DEF Spec

\* A block that comes into flight has just been requested.
LEMMA NewInFlight ==
    ASSUME TypeOK, Next, NEW w \in Workers, NEW b \in inFlight'[w] \ inFlight[w]
    PROVE  b \in BlockIds /\ SendRequest(w, b)
PROOF
<1> USE DEF TypeOK
<1>1. ~QuietStep
  BY DEF QuietStep
<1>2. inFlight' # inFlight
  OBVIOUS
<1>3. ~Tick /\ \A v \in Workers : ~BlockReceived(v)
  BY <1>2 DEF Tick, BlockReceived, Store, CompleteTest, HashTest, Reset, Seek, Write,
              Publish, workerVars
<1>4. \A v \in Workers, c \in BlockIds : ~ReceivePiece(v, c)
  BY DEF ReceivePiece
<1>5. PICK v \in Workers, c \in BlockIds : SendRequest(v, c)
  BY StepCases, <1>1, <1>3, <1>4
<1>6. v = w /\ c = b
  BY <1>5 DEF SendRequest
<1> QED
  BY <1>5, <1>6

\* With honest peers, no connection is ever asked for a block that has been
\* retrieved, however many have been asked for it before.
THEOREM RetrievedNeverRequested ==
    ASSUME HonestPeers
    PROVE  Spec => NeverRequestsRetrieved
PROOF
<1>1. HonestInv /\ [Next]_vars => HonestInv'
  BY HonestNext
<1>2. HonestInv /\ [Next]_vars =>
          [\A w \in Workers : \A b \in inFlight'[w] \ inFlight[w] :
              status[b] # "retrieved"]_vars
  <2> SUFFICES ASSUME HonestInv, Next, NEW w \in Workers,
                      NEW b \in inFlight'[w] \ inFlight[w]
               PROVE  status[b] # "retrieved"
    BY DEF vars
  <2>1. TypeOK
    BY DEF HonestInv, HandInv, ConservedInv
  <2>2. b \in BlockIds /\ (Repeats(b) \/ Continues(b) \/ Starts(b))
    BY <2>1, NewInFlight, NextRequestCases DEF SendRequest
  <2> QED
    BY <2>2 DEF Repeats, Continues, Starts, NextOfPiece, HonestInv, EntriesInv, EntriesPending
<1> QED
  BY HonestInit, <1>1, <1>2, PTL DEF Spec, NeverRequestsRetrieved

\* With honest peers, a block that one connection is still to send is handed
\* to another one only after its entry has expired.
THEOREM OnlyExpiredReissued ==
    ASSUME HonestPeers
    PROVE  Spec => ReissuesOnlyExpired
PROOF
<1>1. HonestInv /\ [Next]_vars => HonestInv'
  BY HonestNext
<1>2. HonestInv /\ [Next]_vars =>
          [\A v, w \in Workers : \A b \in inFlight'[w] \ inFlight[w] :
              b \in inFlight[v] =>
                  \E i \in DOMAIN pendingRequests :
                      /\ pendingRequests[i].block = b
                      /\ pendingRequests[i].age >= MaxPendingTime]_vars
  <2> SUFFICES ASSUME HonestInv, Next, NEW v \in Workers, NEW w \in Workers,
                      NEW b \in inFlight'[w] \ inFlight[w], b \in inFlight[v]
               PROVE  \E i \in DOMAIN pendingRequests :
                          /\ pendingRequests[i].block = b
                          /\ pendingRequests[i].age >= MaxPendingTime
    BY DEF vars
  <2>1. TypeOK
    BY DEF HonestInv, HandInv, ConservedInv
  <2>2. b \in BlockIds /\ (Repeats(b) \/ Continues(b) \/ Starts(b))
    BY <2>1, NewInFlight, NextRequestCases DEF SendRequest
  <2>3. status[b] # "missing"
    BY DEF HonestInv, BlocksInv, AwaitedRequested
  <2> QED
    BY <2>2, <2>3 DEF Repeats, Continues, Starts, NextOfPiece
<1> QED
  BY HonestInit, <1>1, <1>2, PTL DEF Spec, ReissuesOnlyExpired

\* With honest peers, the process dies only of a piece that was published
\* under a worker's feet or of a rarest piece that is not there: a pending
\* request never points into a freed piece when it is followed, and the
\* assertion in getData never fails.
THEOREM OnlyRacesAreFatal ==
    ASSUME HonestPeers
    PROVE  Spec => OnlyRacesKill
PROOF
<1>1. HonestInv /\ [Next]_vars => HonestInv'
  BY HonestNext
<1>2. HonestInv /\ [Next]_vars =>
          [crashed' /\ ~crashed => \E w \in Workers : FreedPiece(w) \/ NullRarest(w)]_vars
  <2> SUFFICES ASSUME HonestInv, Next, crashed', ~crashed
               PROVE  \E w \in Workers : FreedPiece(w) \/ NullRarest(w)
    OBVIOUS
  <2>1. PICK w \in Workers : Dies(w)
    BY DEF Next, Step, OuterTest, PopDummy, Establish, Connect, NoBitField, ConnectThrows,
           Deregister, InnerTest, Receive, ReceivePiece, ReceiveHave, ReceiveChoke,
           ReceiveUnchoke, ReceiveOther, ReceiveKeepAlive, ReceiveThrows, BlockReceived, Store,
           CompleteTest, HashTest, Reset, Seek, Write, Publish, RequestPiece, BeginRequest, SendRequest,
           Terminate, Tick, Finished, vars
\* No entry of pendingRequests_ points into a freed piece.
  <2>2. ~FreedBlock(w)
    <3> SUFFICES ASSUME NEW i \in DOMAIN pendingRequests
                 PROVE  PieceOf(pendingRequests[i].block) \in Ongoing
      BY DEF FreedBlock
    <3>1. /\ pendingRequests[i].block \in BlockIds
          /\ status[pendingRequests[i].block] = "pending"
      BY EntryBlocks DEF HonestInv, HandInv, ConservedInv, EntriesInv, EntriesPending
    <3> QED
      BY <3>1, PendingIsOngoing
\* Who hashes or writes a piece has a complete one.
  <2>3. ~AssertFails(w)
    BY DEF AssertFails, At, HonestInv, BlocksInv, FinishesComplete
  <2> QED
    BY <2>1, <2>2, <2>3 DEF Dies
<1> QED
  BY HonestInit, <1>1, <1>2, PTL DEF Spec, OnlyRacesKill

-----------------------------------------------------------------------------
(* The workers implement the life cycle of the module PieceLifecycle.      *)

Stage == [p \in Pieces |-> IF p \in missingPieces THEN "missing"
                           ELSE IF p \in Ongoing THEN "ongoing" ELSE "done"]

LEMMA LifecycleTorrent ==
    /\ Lifecycle!Pieces = Pieces
    /\ Lifecycle!BlockIds = BlockIds
    /\ \A b : Lifecycle!PieceOf(b) = PieceOf(b)
    /\ \A p : Lifecycle!Blocks(p) = Blocks(p)
PROOF
  BY DEF Lifecycle!Pieces, Lifecycle!BlockIds, Lifecycle!PieceOf, Lifecycle!Blocks,
         Pieces, BlockIds, PieceOf, Blocks

LEMMA LifecycleStarts == Init => Lifecycle!LifecycleInit
PROOF
  BY LifecycleTorrent DEF Init, PieceInit, Lifecycle!LifecycleInit

\* Every step is one of the life cycle, or none.
LEMMA LifecycleStep ==
    ASSUME HonestInv, HonestInv', Next
    PROVE  Lifecycle!LifecycleNext \/ UNCHANGED <<Stage, status>>
PROOF
<1> USE DEF HonestInv, HandInv, ConservedInv, TypeOK, PieceTypeOK
<1>0. \A b \in BlockIds : PieceOf(b) \in Pieces
  BY BlockIdsProperties
<1>1. CASE UNCHANGED <<missingPieces, ongoingPieces, status>>
  BY <1>1 DEF Stage, Ongoing
<1>2. ASSUME NEW w \in Workers, NEW b \in BlockIds, SendRequest(w, b)
      PROVE  Lifecycle!LifecycleNext \/ UNCHANGED <<Stage, status>>
  <2>1. Repeats(b) \/ Continues(b) \/ Starts(b)
    BY <1>2, NextRequestCases DEF SendRequest
  <2>2. CASE Continues(b)
    <3>1. Stage[PieceOf(b)] = "ongoing" /\ Stage' = Stage
      BY <1>0, <2>2 DEF Continues, Stage, PiecesConserved, Ongoing
    <3>2. Stage' = [Stage EXCEPT ![PieceOf(b)] = "ongoing"]
      BY <1>0, <3>1 DEF Stage
    <3>3. Lifecycle!Request(b)
      BY <2>2, <3>1, <3>2, LifecycleTorrent DEF Continues, Lifecycle!Request, Stage
    <3> QED
      BY <3>3, LifecycleTorrent DEF Lifecycle!LifecycleNext
  <2>3. CASE Starts(b)
    <3>1. Stage[PieceOf(b)] = "missing" /\ status[b] = "missing"
      BY <1>0, <2>3 DEF Starts, NextOfPiece, Stage
    <3>2. Ongoing' = Ongoing \union {PieceOf(b)}
      BY <1>0, <2>3, AppendToSet DEF Starts, Ongoing
    <3>3. Stage' = [Stage EXCEPT ![PieceOf(b)] = "ongoing"]
      BY <1>0, <2>3, <3>2 DEF Starts, Stage
    <3>4. Lifecycle!Request(b)
      BY <2>3, <3>1, <3>3, LifecycleTorrent DEF Starts, Lifecycle!Request, Stage
    <3> QED
      BY <3>4, LifecycleTorrent DEF Lifecycle!LifecycleNext
  <2> QED
    BY <1>1, <2>1, <2>2, <2>3 DEF Repeats
<1>3. ASSUME NEW w \in Workers, Store(w)
      PROVE  Lifecycle!LifecycleNext \/ UNCHANGED <<Stage, status>>
  <2>1. PICK b \in target[w] : /\ status' = [status EXCEPT ![b] = "retrieved"]
                               /\ UNCHANGED <<missingPieces, ongoingPieces>>
    BY <1>3 DEF Store, StoreBlock
  <2>2. b \in BlockIds /\ status[b] \in {"pending", "retrieved"}
    BY DEF BlocksInv, AwaitedRequested
  <2>3. CASE status[b] = "retrieved"
    BY <1>1, <2>1, <2>2, <2>3
  <2>4. CASE status[b] = "pending"
    <3>1. PieceOf(b) \in Ongoing
      BY <2>2, <2>4, PendingIsOngoing
    <3>2. Stage[PieceOf(b)] = "ongoing" /\ Stage' = Stage
      BY <1>0, <2>1, <2>2, <3>1 DEF Stage, PiecesConserved, Ongoing
    <3>3. Lifecycle!Retrieve(b)
      BY <2>1, <2>4, <3>2, LifecycleTorrent DEF Lifecycle!Retrieve, Stage
    <3> QED
      BY <2>2, <3>3, LifecycleTorrent DEF Lifecycle!LifecycleNext
  <2> QED
    BY <2>2, <2>3, <2>4
<1>4. ASSUME NEW w \in Workers, Publish(w)
      PROVE  Lifecycle!LifecycleNext \/ UNCHANGED <<Stage, status>>
  <2>1. PICK b \in target[w] : PublishPiece(PieceOf(b))
    BY <1>4 DEF Publish
  <2> DEFINE p == PieceOf(b)
  <2>2. p \in Pieces /\ p \notin missingPieces /\ PieceComplete(p)
    BY <1>0, <1>4 DEF Publish, At, TargetsStarted, BlocksInv, FinishesComplete
  <2>3. Ongoing' = Ongoing \ {p} /\ UNCHANGED <<missingPieces, status>>
    BY <2>1, <2>2, PublishMoves DEF PublishPiece
  <2>4. CASE p \notin Ongoing
    BY <2>3, <2>4 DEF Stage
  <2>5. CASE p \in Ongoing
    <3>1. Stage[p] = "ongoing" /\ Stage' = [Stage EXCEPT ![p] = "done"]
      BY <2>2, <2>3, <2>5 DEF Stage
    <3>2. \A c \in Blocks(p) : status[c] = "retrieved"
      BY <2>2 DEF PieceComplete
    <3>3. Lifecycle!Finish(p)
      BY <2>3, <3>1, <3>2, LifecycleTorrent DEF Lifecycle!Finish, Stage
    <3> QED
      BY <2>2, <3>3, LifecycleTorrent DEF Lifecycle!LifecycleNext
  <2> QED
    BY <2>4, <2>5
<1>5. ASSUME NEW w \in Workers, BlockReceived(w)
      PROVE  Lifecycle!LifecycleNext \/ UNCHANGED <<Stage, status>>
  <2>1. ~Reset(w)
    BY DEF Reset, At, BlocksInv, FinishesComplete
  <2> QED
    BY <1>1, <1>3, <1>4, <1>5, <2>1
    DEF BlockReceived, CompleteTest, HashTest, Seek, Write, pieceVars
<1> QED
  BY StepCases, <1>1, <1>2, <1>5 DEF QuietStep, Tick, TimePasses, ReceivePiece, pieceVars

\* With honest peers every download, however its workers interleave, is a
\* life cycle of its pieces: none goes back to an earlier stage, and none is
\* done before all its blocks have been stored.
THEOREM ImplementsLifecycle ==
    ASSUME HonestPeers
    PROVE  Spec => StagesInOrder
PROOF
<1>1. HonestInv /\ [Next]_vars => HonestInv'
  BY HonestNext
<1>2. HonestInv /\ HonestInv' /\ [Next]_vars =>
          [Lifecycle!LifecycleNext]_<<Stage, status>>
  <2> SUFFICES ASSUME HonestInv, HonestInv', [Next]_vars
               PROVE  Lifecycle!LifecycleNext \/ UNCHANGED <<Stage, status>>
    OBVIOUS
  <2>1. CASE Next
    BY <2>1, LifecycleStep
  <2>2. CASE UNCHANGED vars
    BY <2>2 DEF vars, pieceVars, Stage, Ongoing
  <2> QED
    BY <2>1, <2>2
<1> QED
  BY HonestInit, LifecycleStarts, <1>1, <1>2, PTL
  DEF Spec, StagesInOrder, Lifecycle!LifecycleSpec, Stage

=============================================================================
