---------------------------- MODULE SerialProofs ----------------------------
(***************************************************************************)
(* The file, the counts, the crashes and the pending flag of               *)
(* PeerConnection, for every number of workers, pieces and peers.  The     *)
(* theorems InTurn say what would hold if no two workers were in           *)
(* blockReceived or nextRequest at once; the code does not see to it, and  *)
(* without BlocksInTurn TLC finds HavePiecesOnDisk and CountedOnce         *)
(* violated by two workers.                                                *)
(***************************************************************************)
EXTENDS RequestProofs, FiniteSetTheorems

-----------------------------------------------------------------------------
(* One worker at a time.                                                   *)

\* While a worker is in the critical code, its step moves nobody else, and
\* the others are outside.
LEMMA OthersOut ==
    ASSUME TypeOK, BlocksInTurn, NEW w \in Workers,
           BlockReceived(w) \/ \E b \in BlockIds : SendRequest(w, b)
    PROVE  /\ pc[w] \in Critical
           /\ \A v \in Workers \ {w} : pc'[v] = pc[v] /\ pc'[v] \notin Critical
           /\ Busy \subseteq Critical
PROOF
<1>1. pc[w] \in Critical
  BY DEF BlockReceived, Store, CompleteTest, HashTest, Reset, Seek, Write, Publish, SendRequest,
         At, Critical
<1>2. \A v \in Workers \ {w} : pc'[v] = pc[v]
  BY DEF BlockReceived, Store, CompleteTest, HashTest, Reset, Seek, Write, Publish,
         BlockReceivedDone, SendRequest, AfterMessage, GoTo, TypeOK
<1>3. \A v \in Workers \ {w} : pc[v] \notin Critical
  BY <1>1 DEF BlocksInTurn
<1> QED
  BY <1>1, <1>2, <1>3 DEF Busy, Finishing, Critical

-----------------------------------------------------------------------------
(* The file.                                                               *)

\* From the hash to the publication the worker's piece has the right data, the
\* stream stands where the piece belongs, and then the data lies there.
WritesInPlace ==
    \A w \in Workers : \A b \in target[w] :
        /\ pc[w] \in {"seek", "write"} => HashMatches(PieceOf(b))
        /\ pc[w] = "write" => putPos = PieceOf(b)
        /\ pc[w] = "publish" => file[PieceOf(b)] = "data"

DiskInv == HandInv /\ WritesInPlace /\ HavePiecesOnDisk

LEMMA DiskStep ==
    ASSUME BlocksInTurn, HandInv, WritesInPlace, HavePiecesOnDisk, Next
    PROVE  WritesInPlace' /\ HavePiecesOnDisk'
PROOF
<1> USE DEF HandInv, ConservedInv, TypeOK
<1>0. /\ \A b \in BlockIds : PieceOf(b) \in Pieces
      /\ Have \subseteq Pieces
  BY BlockIdsProperties DEF Have, ToSet, PieceTypeOK
<1> DEFINE Late == {"seek", "write", "publish"}
\* Nothing is stored or written, and no worker gets on with its piece.
<1>1. ASSUME UNCHANGED <<havePieces, putPos, file, data>>,
             \A w \in Workers : \/ pc'[w] \notin Late
                                \/ pc'[w] = pc[w] /\ target'[w] = target[w]
      PROVE  WritesInPlace' /\ HavePiecesOnDisk'
  BY <1>1 DEF WritesInPlace, HavePiecesOnDisk, Have, HashMatches
\* The worker that decides leaves, or is not that far yet.
<1>2. ASSUME NEW w \in Workers, pc'[w] \notin Late, UNCHANGED <<havePieces, file>>,
             BlockReceived(w) \/ \E b \in BlockIds : SendRequest(w, b)
      PROVE  WritesInPlace' /\ HavePiecesOnDisk'
  <2>1. \A v \in Workers : pc'[v] \notin Late
    BY <1>2, OthersOut DEF Critical
  <2> QED
    BY <1>2, <2>1 DEF WritesInPlace, HavePiecesOnDisk, Have
\* The worker that decides goes on: only its own piece is late.
<1>3. ASSUME NEW w \in Workers, BlockReceived(w), HavePiecesOnDisk',
              \A b \in target'[w] :
                 /\ pc'[w] \in {"seek", "write"} => HashMatches(PieceOf(b))'
                 /\ pc'[w] = "write" => putPos' = PieceOf(b)
                 /\ pc'[w] = "publish" => file'[PieceOf(b)] = "data"
       PROVE  WritesInPlace' /\ HavePiecesOnDisk'
  <2>1. \A v \in Workers \ {w} : pc'[v] \notin Late
    BY <1>3, OthersOut DEF Critical
  <2> QED
    BY <1>3, <2>1 DEF WritesInPlace
<1>4. CASE QuietStep
  <2>1. UNCHANGED <<putPos, file>>
    BY <1>4 DEF Next, Step, OuterTest, PopDummy, InnerTest, Establish, Connect, NoBitField,
       ConnectThrows, Receive, ReceivePiece, ReceiveHave, ReceiveChoke, ReceiveUnchoke,
       ReceiveOther, ReceiveKeepAlive, ReceiveThrows, Deregister, BlockReceived, Store,
       CompleteTest,
       HashTest, Reset, Seek, Write, Publish, RequestPiece, BeginRequest, SendRequest, Dies,
       NullRarest, FreedPiece, FreedBlock, AssertFails, Crash, Terminate, Tick, Finished,
       vars, QuietStep, Busy, Finishing, GoTo, At
  <2> QED
    BY <1>1, <1>4, <2>1 DEF QuietStep, pieceVars, Busy, Finishing
<1>5. CASE Tick
  BY <1>1, <1>5 DEF Tick, TimePasses, workerVars
<1>6. ASSUME NEW w \in Workers, NEW b \in BlockIds, ReceivePiece(w, b)
      PROVE  WritesInPlace' /\ HavePiecesOnDisk'
  <2>1. /\ pc'[w] \notin Late
        /\ \A v \in Workers \ {w} : pc'[v] = pc[v] /\ target'[v] = target[v]
        /\ UNCHANGED <<havePieces, putPos, file, data>>
    BY <1>6 DEF ReceivePiece, GoTo, AfterMessage
  <2> QED
    BY <1>1, <2>1
<1>7. ASSUME NEW w \in Workers, NEW b \in BlockIds, SendRequest(w, b)
       PROVE  WritesInPlace' /\ HavePiecesOnDisk'
  <2>1. pc'[w] \notin Late /\ UNCHANGED <<havePieces, file>>
    BY <1>7 DEF SendRequest, NextRequest, GoTo
  <2> QED
    BY <1>2, <1>7, <2>1
<1>8. ASSUME NEW w \in Workers, Store(w) \/ CompleteTest(w) \/ Reset(w)
      PROVE  WritesInPlace' /\ HavePiecesOnDisk'
  <2>1. pc'[w] \notin Late /\ UNCHANGED <<havePieces, file>>
    BY <1>8 DEF Store, StoreBlock, CompleteTest, Reset, ResetPiece, BlockReceivedDone,
                GoTo, AfterMessage, pieceVars
  <2> QED
    BY <1>2, <1>8, <2>1 DEF BlockReceived
<1>9. ASSUME NEW w \in Workers, HashTest(w)
      PROVE  WritesInPlace' /\ HavePiecesOnDisk'
  <2>1. PICK b \in target[w] : GoTo(w, IF HashMatches(PieceOf(b)) THEN "seek" ELSE "reset")
    BY <1>9 DEF HashTest
  <2>2. UNCHANGED <<havePieces, file, target, data>>
    BY <1>9 DEF HashTest, pieceVars, workerVars
  <2>3. CASE HashMatches(PieceOf(b))
    <3>1. pc'[w] = "seek"
      BY <2>1, <2>3 DEF GoTo
    <3>2. \A c \in target'[w] : HashMatches(PieceOf(c))'
      BY <2>2, <2>3 DEF TargetsSingle, HashMatches
    <3>3. HavePiecesOnDisk'
      BY <2>2 DEF HavePiecesOnDisk, Have
    <3> QED
      BY <1>9, <1>3, <3>1, <3>2, <3>3 DEF BlockReceived
  <2>4. CASE ~HashMatches(PieceOf(b))
    BY <1>2, <1>9, <2>1, <2>2, <2>4 DEF GoTo, BlockReceived
  <2> QED
    BY <2>3, <2>4
<1>10. ASSUME NEW w \in Workers, Seek(w)
      PROVE  WritesInPlace' /\ HavePiecesOnDisk'
  <2>1. PICK b \in target[w] : putPos' = PieceOf(b)
    BY <1>10 DEF Seek, SeekToPiece
  <2>2. /\ UNCHANGED <<havePieces, file, target, data>>
        /\ pc[w] = "seek" /\ pc'[w] = "write"
    BY <1>10 DEF Seek, SeekToPiece, At, GoTo, pieceVars, workerVars
  <2>3. \A c \in target'[w] : c = b /\ HashMatches(PieceOf(c))'
    BY <2>2 DEF TargetsSingle, WritesInPlace, HashMatches
  <2>4. HavePiecesOnDisk'
    BY <2>2 DEF HavePiecesOnDisk, Have
  <2> QED
    BY <1>10, <1>3, <2>1, <2>2, <2>3, <2>4 DEF BlockReceived
<1>11. ASSUME NEW w \in Workers, Write(w)
      PROVE  WritesInPlace' /\ HavePiecesOnDisk'
  <2>1. PICK b \in target[w] : WriteAtPutPos(PieceOf(b), HashMatches(PieceOf(b)))
    BY <1>11 DEF Write
  <2> DEFINE p == PieceOf(b)
  <2>2. /\ UNCHANGED <<havePieces, target>>
        /\ pc[w] = "write" /\ pc'[w] = "publish"
    BY <1>11 DEF Write, At, GoTo, pieceVars, workerVars
  <2>3. p \in Pieces /\ putPos = p /\ HashMatches(p)
    BY <1>0, <2>2 DEF WritesInPlace
  <2>4. /\ file'[p] = "data"
        /\ \A s \in Pieces : file'[s] = "data" \/ file'[s] = file[s]
    BY <2>1, <2>3 DEF WriteAtPutPos
  <2>5. \A c \in target'[w] : c = b
    BY <2>2 DEF TargetsSingle
  <2>6. HavePiecesOnDisk'
    BY <1>0, <2>2, <2>4 DEF HavePiecesOnDisk, Have
  <2> QED
    BY <1>11, <1>3, <2>2, <2>4, <2>5, <2>6 DEF BlockReceived
<1>12. ASSUME NEW w \in Workers, Publish(w)
       PROVE  WritesInPlace' /\ HavePiecesOnDisk'
  <2>1. PICK b \in target[w] : PublishPiece(PieceOf(b))
    BY <1>12 DEF Publish
  <2>2. file[PieceOf(b)] = "data" /\ PieceOf(b) \in Pieces
    BY <1>0, <1>12 DEF Publish, At, WritesInPlace
  <2>3. Have' = Have \union {PieceOf(b)}
    BY <2>1, <2>2, AppendToSet DEF PublishPiece, Have, PieceTypeOK
  <2>4. UNCHANGED file /\ pc'[w] \in {"request", "inner"}
    BY <1>12 DEF Publish, BlockReceivedDone, AfterMessage, GoTo
  <2>5. HavePiecesOnDisk'
    BY <2>2, <2>3, <2>4 DEF HavePiecesOnDisk
  <2> QED
    BY <1>12, <1>3, <2>4, <2>5 DEF BlockReceived
<1> QED
  BY StepCases, <1>4, <1>5, <1>6, <1>7, <1>8, <1>9, <1>10, <1>11, <1>12 DEF BlockReceived

\* Workers that take turns in blockReceived count a piece as downloaded only
\* when its verified data lies in its place in the file, however many they are
\* and whatever blocks their peers send.
THEOREM FileHoldsPiecesInTurn == Spec /\ []BlocksInTurn => []HavePiecesOnDisk
PROOF
<1>1. Init => DiskInv
  <2> SUFFICES ASSUME Init
               PROVE  WritesInPlace /\ HavePiecesOnDisk
    BY HandStart DEF DiskInv
  <2> QED
    BY DEF Init, PieceInit, WritesInPlace, HavePiecesOnDisk, Have, ToSet
<1>2. DiskInv /\ BlocksInTurn /\ [Next]_vars => DiskInv'
  <2>1. CASE Next
    BY <2>1, HandNext, DiskStep DEF DiskInv
  <2>2. CASE UNCHANGED vars
    BY <2>2 DEF vars, pieceVars, DiskInv, HandInv, ConservedInv, TypeOK, PieceTypeOK,
       PeersTypeOK, IsBitField, DiskTypeOK, PiecesConserved, TargetsStarted, TargetsSingle,
       CompletePieceInHand, PieceComplete, WritesInPlace, HavePiecesOnDisk, HashMatches,
       Ongoing, Have
  <2> QED
    BY <2>1, <2>2
<1>3. DiskInv => HavePiecesOnDisk
  BY DEF DiskInv
<1> QED
  BY <1>1, <1>2, <1>3, PTL DEF Spec

-----------------------------------------------------------------------------
(* The file again, with peers that send what the hashes stand for.  Then the *)
(* put position is all the workers have to take turns with.                 *)

WritesLand ==
    \A w \in Workers : \A b \in target[w] :
        /\ pc[w] = "write" => putPos = PieceOf(b)
        /\ pc[w] = "publish" => file[PieceOf(b)] = "data"

LEMMA LandStep ==
    ASSUME HonestInv, WritesLand, HavePiecesOnDisk, WritesInTurn, WritesInTurn', Next
    PROVE  WritesLand' /\ HavePiecesOnDisk'
PROOF
<1> USE DEF HonestInv, HandInv, ConservedInv, TypeOK
<1>0. /\ \A b \in BlockIds : PieceOf(b) \in Pieces
      /\ Have \subseteq Pieces
  BY BlockIdsProperties DEF Have, ToSet, PieceTypeOK
<1> DEFINE Late == {"write", "publish"}
\* Neither the stream nor the file is touched, and no worker gets on.
<1>1. ASSUME UNCHANGED <<havePieces, putPos, file>>,
             \A w \in Workers : \/ pc'[w] \notin Late
                                \/ pc'[w] = pc[w] /\ target'[w] = target[w]
      PROVE  WritesLand' /\ HavePiecesOnDisk'
  BY <1>1 DEF WritesLand, HavePiecesOnDisk, Have
<1>2. CASE QuietStep
  <2>1. UNCHANGED <<putPos, file>>
    BY <1>2 DEF Next, Step, OuterTest, PopDummy, InnerTest, Establish, Connect, NoBitField,
       ConnectThrows, Receive, ReceivePiece, ReceiveHave, ReceiveChoke, ReceiveUnchoke,
       ReceiveOther, ReceiveKeepAlive, ReceiveThrows, Deregister, BlockReceived, Store,
       CompleteTest,
       HashTest, Reset, Seek, Write, Publish, RequestPiece, BeginRequest, SendRequest, Dies,
       NullRarest, FreedPiece, FreedBlock, AssertFails, Crash, Terminate, Tick, Finished,
       vars, QuietStep, Busy, Finishing, GoTo, At
  <2> QED
    BY <1>1, <1>2, <2>1 DEF QuietStep, pieceVars, Busy, Finishing
<1>3. CASE Tick
  BY <1>1, <1>3 DEF Tick, TimePasses, workerVars
<1>4. ASSUME NEW w \in Workers, NEW b \in BlockIds, ReceivePiece(w, b) \/ SendRequest(w, b)
      PROVE  WritesLand' /\ HavePiecesOnDisk'
  <2>1. /\ pc'[w] \notin Late
        /\ \A v \in Workers \ {w} : pc'[v] = pc[v] /\ target'[v] = target[v]
        /\ UNCHANGED <<havePieces, putPos, file>>
    BY <1>4 DEF ReceivePiece, SendRequest, NextRequest, GoTo, AfterMessage
  <2> QED
    BY <1>1, <2>1
<1>5. ASSUME NEW w \in Workers, Store(w) \/ CompleteTest(w) \/ HashTest(w) \/ Reset(w)
      PROVE  WritesLand' /\ HavePiecesOnDisk'
  <2>1. /\ pc'[w] \notin Late
        /\ \A v \in Workers \ {w} : pc'[v] = pc[v] /\ target'[v] = target[v]
        /\ UNCHANGED <<havePieces, putPos, file>>
    BY <1>5 DEF Store, StoreBlock, CompleteTest, HashTest, Reset, ResetPiece, BlockReceivedDone,
                GoTo, AfterMessage, pieceVars, workerVars
  <2> QED
    BY <1>1, <2>1
<1>6. ASSUME NEW w \in Workers, Seek(w)
      PROVE  WritesLand' /\ HavePiecesOnDisk'
  <2>1. PICK b \in target[w] : putPos' = PieceOf(b)
    BY <1>6 DEF Seek, SeekToPiece
  <2>2. /\ UNCHANGED <<havePieces, file, target>>
        /\ pc'[w] = "write" /\ \A v \in Workers \ {w} : pc'[v] = pc[v]
    BY <1>6 DEF Seek, SeekToPiece, GoTo, pieceVars, workerVars
  <2>3. \A v \in Workers \ {w} : pc'[v] # "write"
    BY <2>2 DEF WritesInTurn
  <2>4. \A c \in target'[w] : c = b
    BY <2>2 DEF TargetsSingle
  <2> QED
    BY <2>1, <2>2, <2>3, <2>4 DEF WritesLand, HavePiecesOnDisk, Have
<1>7. ASSUME NEW w \in Workers, Write(w)
      PROVE  WritesLand' /\ HavePiecesOnDisk'
  <2>1. PICK b \in target[w] : WriteAtPutPos(PieceOf(b), HashMatches(PieceOf(b)))
    BY <1>7 DEF Write
  <2> DEFINE p == PieceOf(b)
  <2>2. /\ UNCHANGED <<havePieces, target>>
        /\ pc[w] = "write" /\ pc'[w] = "publish" /\ \A v \in Workers \ {w} : pc'[v] = pc[v]
    BY <1>7 DEF Write, At, GoTo, pieceVars, workerVars
  <2>3. p \in Pieces /\ putPos = p
    BY <1>0, <2>2 DEF WritesLand
  <2>4. HashMatches(p)
    BY <2>2, <2>3, BlockIdsProperties
    DEF BlocksInv, FinishesComplete, PieceComplete, StoredIsGood, HashMatches
  <2>5. /\ file'[p] = "data"
        /\ \A s \in Pieces : file'[s] = "data" \/ file'[s] = file[s]
    BY <2>1, <2>3, <2>4 DEF WriteAtPutPos
  <2>6. \A v \in Workers : pc'[v] # "write"
    BY <2>2 DEF WritesInTurn
  <2>7. \A c \in target'[w] : c = b
    BY <2>2 DEF TargetsSingle
  <2> QED
    BY <1>0, <2>2, <2>5, <2>6, <2>7 DEF WritesLand, HavePiecesOnDisk, Have
<1>8. ASSUME NEW w \in Workers, Publish(w)
      PROVE  WritesLand' /\ HavePiecesOnDisk'
  <2>1. PICK b \in target[w] : PublishPiece(PieceOf(b))
    BY <1>8 DEF Publish
  <2>2. file[PieceOf(b)] = "data" /\ PieceOf(b) \in Pieces
    BY <1>0, <1>8 DEF Publish, At, WritesLand
  <2>3. Have' = Have \union {PieceOf(b)}
    BY <2>1, <2>2, AppendToSet DEF PublishPiece, Have, PieceTypeOK
  <2>4. /\ UNCHANGED <<putPos, file>> /\ pc'[w] \notin Late
        /\ \A v \in Workers \ {w} : pc'[v] = pc[v] /\ target'[v] = target[v]
    BY <1>8 DEF Publish, BlockReceivedDone, AfterMessage, GoTo
  <2> QED
    BY <2>2, <2>3, <2>4 DEF WritesLand, HavePiecesOnDisk
<1> QED
  BY StepCases, <1>2, <1>3, <1>4, <1>5, <1>6, <1>7, <1>8 DEF BlockReceived

\* While peers send what the hashes stand for, the file is right if no worker
\* seeks between another one's seek and write, whatever else they do at once.
THEOREM FileHoldsPiecesHonest ==
    ASSUME HonestPeers
    PROVE  Spec /\ []WritesInTurn => []HavePiecesOnDisk
PROOF
<1> DEFINE LandInv == HonestInv /\ WritesLand /\ HavePiecesOnDisk
<1>1. Init => LandInv
  BY HonestInit DEF Init, PieceInit, WritesLand, HavePiecesOnDisk, Have, ToSet
<1>2. LandInv /\ WritesInTurn /\ WritesInTurn' /\ [Next]_vars => LandInv'
  <2> SUFFICES ASSUME LandInv, WritesInTurn, WritesInTurn', [Next]_vars
               PROVE  LandInv'
    OBVIOUS
  <2>1. HonestInv'
    BY HonestNext
  <2>2. CASE Next
    BY <2>1, <2>2, LandStep
  <2>3. CASE UNCHANGED vars
    BY <2>1, <2>3 DEF vars, pieceVars, workerVars, WritesLand, HavePiecesOnDisk, Have
  <2> QED
    BY <2>2, <2>3
<1>3. LandInv => HavePiecesOnDisk
  OBVIOUS
<1> HIDE DEF LandInv
<1> QED
  BY <1>1, <1>2, <1>3, PTL DEF Spec

-----------------------------------------------------------------------------
(* Requests.  A worker finds its piece where it left it, no piece is        *)
(* published twice, and every entry of pendingRequests_ points to a piece  *)
(* that is there.                                                          *)

\* blockReceived works on a piece of ongoingPieces_, and from its hash on all
\* blocks of the piece are there, also when the hash does not match.
TargetsOngoing ==
    \A w \in Workers : \A b \in target[w] :
        /\ pc[w] \in Busy => PieceOf(b) \in Ongoing
        /\ pc[w] \in Finishing \ {"complete"} => PieceComplete(PieceOf(b))

EntriesOngoing ==
    \A i \in DOMAIN pendingRequests : PieceOf(pendingRequests[i].block) \in Ongoing

RequestInv == HandInv /\ EntriesInv /\ EntriesOngoing /\ TargetsOngoing

LEMMA TargetsOngoingStep ==
    ASSUME BlocksInTurn, RequestInv, Next
    PROVE  TargetsOngoing'
PROOF
<1> USE DEF RequestInv, HandInv, ConservedInv, TypeOK, PieceTypeOK
<1>0. \A b \in BlockIds : PieceOf(b) \in Pieces
  BY BlockIdsProperties
\* A worker goes on to another label with its piece as it was, or leaves.
<1>1. ASSUME UNCHANGED <<ongoingPieces, status, target>>,
             \A w \in Workers : \/ pc'[w] = pc[w]
                                \/ pc'[w] \notin Busy
                                \/ pc[w] \in Finishing \ {"complete"}
      PROVE  TargetsOngoing'
  BY <1>1 DEF TargetsOngoing, Ongoing, PieceComplete, Busy
\* The worker that decides is the only one with a piece.
<1>2. ASSUME NEW w \in Workers,
             BlockReceived(w) \/ \E b \in BlockIds : SendRequest(w, b),
             pc'[w] \in Busy =>
                 \A b \in target'[w] :
                     /\ PieceOf(b) \in Ongoing'
                     /\ pc'[w] \in Finishing \ {"complete"} => PieceComplete(PieceOf(b))'
      PROVE  TargetsOngoing'
  <2>1. \A v \in Workers \ {w} : pc'[v] \notin Busy
    BY <1>2, OthersOut
  <2> QED
    BY <1>2, <2>1 DEF TargetsOngoing, Busy
<1>3. CASE QuietStep
  BY <1>1, <1>3 DEF QuietStep, pieceVars
<1>4. CASE Tick
  BY <1>1, <1>4 DEF Tick, TimePasses, workerVars
<1>5. ASSUME NEW w \in Workers, NEW b \in BlockIds, ReceivePiece(w, b)
      PROVE  TargetsOngoing'
  <2>1. /\ UNCHANGED <<ongoingPieces, status>>
        /\ \A v \in Workers \ {w} : pc'[v] = pc[v] /\ target'[v] = target[v]
    BY <1>5 DEF ReceivePiece, GoTo, AfterMessage
  <2>2. \/ pc'[w] = "store" /\ target'[w] = {b} /\ PieceOf(b) \in Ongoing
        \/ pc'[w] \notin Busy
    BY <1>5 DEF ReceivePiece, GoTo, AfterMessage, Busy, Finishing
  <2>3. ASSUME NEW v \in Workers, NEW c \in target'[v], pc'[v] \in Busy
        PROVE  /\ PieceOf(c) \in Ongoing'
               /\ pc'[v] \in Finishing \ {"complete"} => PieceComplete(PieceOf(c))'
    BY <2>1, <2>2, <2>3 DEF TargetsOngoing, Ongoing, PieceComplete, Finishing
  <2> QED
    BY <2>3 DEF TargetsOngoing, Busy
<1>6. ASSUME NEW w \in Workers, NEW b \in BlockIds, SendRequest(w, b)
      PROVE  TargetsOngoing'
  <2>1. pc'[w] = "inner"
    BY <1>6 DEF SendRequest, GoTo
  <2> QED
    BY <1>2, <1>6, <2>1 DEF Busy, Finishing
<1>7. ASSUME NEW w \in Workers, Store(w)
      PROVE  TargetsOngoing'
  <2>1. /\ UNCHANGED <<ongoingPieces, target>>
        /\ pc[w] = "store" /\ pc'[w] = "complete"
    BY <1>7 DEF Store, StoreBlock, At, GoTo, workerVars
  <2>2. \A b \in target'[w] : PieceOf(b) \in Ongoing'
    BY <2>1 DEF TargetsOngoing, Ongoing, Busy
  <2> QED
    BY <1>2, <1>7, <2>1, <2>2 DEF BlockReceived
<1>8. ASSUME NEW w \in Workers, CompleteTest(w)
      PROVE  TargetsOngoing'
  <2>1. PICK b \in target[w] :
          \/ PieceComplete(PieceOf(b)) /\ GoTo(w, "hash") /\ UNCHANGED target
          \/ BlockReceivedDone(w)
    BY <1>8 DEF CompleteTest
  <2>2. UNCHANGED <<ongoingPieces, status>> /\ pc[w] = "complete"
    BY <1>8 DEF CompleteTest, At, pieceVars
  <2>3. CASE PieceComplete(PieceOf(b)) /\ GoTo(w, "hash") /\ UNCHANGED target
    <3>1. \A c \in target'[w] :
             PieceOf(c) \in Ongoing' /\ PieceComplete(PieceOf(c))'
      BY <2>2, <2>3 DEF TargetsSingle, TargetsOngoing, Ongoing, PieceComplete, Busy, Finishing
    <3> QED
      BY <1>2, <1>8, <3>1 DEF BlockReceived
  <2>4. CASE BlockReceivedDone(w)
    <3>1. pc'[w] \notin Busy
      BY <2>4 DEF BlockReceivedDone, AfterMessage, GoTo, Busy, Finishing
    <3> QED
      BY <1>2, <1>8, <3>1 DEF BlockReceived
  <2> QED
    BY <2>1, <2>3, <2>4
<1>9. ASSUME NEW w \in Workers, HashTest(w) \/ Seek(w) \/ Write(w)
      PROVE  TargetsOngoing'
  <2>1. /\ UNCHANGED <<ongoingPieces, status, target>>
        /\ pc[w] \in {"hash", "seek", "write"}
        /\ \A v \in Workers \ {w} : pc'[v] = pc[v]
    BY <1>9 DEF HashTest, Seek, Write, At, GoTo, pieceVars, workerVars
  <2> QED
    BY <1>1, <2>1 DEF Finishing
<1>10. ASSUME NEW w \in Workers, Reset(w) \/ Publish(w)
       PROVE  TargetsOngoing'
  <2>1. pc'[w] \notin Busy
    BY <1>10 DEF Reset, Publish, BlockReceivedDone, AfterMessage, GoTo, Busy, Finishing
  <2> QED
    BY <1>2, <1>10, <2>1 DEF BlockReceived
<1> QED
  BY StepCases, <1>3, <1>4, <1>5, <1>6, <1>7, <1>8, <1>9, <1>10 DEF BlockReceived

LEMMA EntriesOngoingStep ==
    ASSUME RequestInv, Next
    PROVE  EntriesOngoing'
PROOF
<1> USE DEF RequestInv, HandInv, ConservedInv, TypeOK, PieceTypeOK
<1>1. ASSUME SameEntries, Ongoing \subseteq Ongoing'
      PROVE  EntriesOngoing'
  BY <1>1 DEF SameEntries, EntriesOngoing
<1>2. CASE QuietStep
  BY <1>1, <1>2 DEF QuietStep, SameEntries, pieceVars, Ongoing
<1>3. CASE Tick
  BY <1>1, <1>3, TickEntries DEF Tick, TimePasses, Ongoing
<1>4. ASSUME NEW w \in Workers, NEW b \in BlockIds, ReceivePiece(w, b)
      PROVE  EntriesOngoing'
  <2>1. ErasePending(b) /\ Ongoing' = Ongoing
    BY <1>4 DEF ReceivePiece, Ongoing
  <2> QED
    BY <2>1, EraseEntries DEF EntriesOngoing
<1>5. ASSUME NEW w \in Workers, NEW b \in BlockIds, SendRequest(w, b)
      PROVE  EntriesOngoing'
  <2>1. Repeats(b) \/ Continues(b) \/ Starts(b)
    BY <1>5, NextRequestCases DEF SendRequest
  <2>2. CASE Repeats(b)
    BY <1>1, <2>2 DEF Repeats, Ongoing
  <2>3. CASE Continues(b)
    <3>1. /\ PieceOf(b) \in Ongoing /\ Ongoing' = Ongoing
          /\ pendingRequests' = Append(pendingRequests, [block |-> b, age |-> 0])
      BY <2>3 DEF Continues, Ongoing
    <3>2. \A i \in DOMAIN pendingRequests' :
             \/ i \in DOMAIN pendingRequests /\ pendingRequests'[i] = pendingRequests[i]
             \/ pendingRequests'[i] = [block |-> b, age |-> 0]
      BY <3>1
    <3> QED
      BY <3>1, <3>2 DEF EntriesOngoing
  <2>4. CASE Starts(b)
    <3>1. Ongoing' = Ongoing \union {PieceOf(b)}
      BY <2>4, AppendToSet DEF Starts, Ongoing
    <3> QED
      BY <1>1, <2>4, <3>1 DEF Starts, SameEntries
  <2> QED
    BY <2>1, <2>2, <2>3, <2>4
<1>6. ASSUME NEW w \in Workers, BlockReceived(w)
      PROVE  EntriesOngoing'
  <2>1. UNCHANGED pendingRequests
    BY <1>6 DEF BlockReceived, Store, StoreBlock, CompleteTest, HashTest, Reset, ResetPiece,
                Seek, Write, Publish, PublishPiece, pieceVars
  <2>2. CASE Publish(w)
    <3>1. PICK b \in target[w] : PublishPiece(PieceOf(b))
      BY <2>2 DEF Publish
    <3>2. /\ PieceOf(b) \in Pieces /\ PieceOf(b) \notin missingPieces
          /\ PieceComplete(PieceOf(b))
      BY <2>2, BlockIdsProperties DEF Publish, At, TargetsStarted, TargetsOngoing, Finishing
    <3>3. Ongoing' = Ongoing \ {PieceOf(b)}
      BY <3>1, <3>2, PublishMoves
    \* All blocks of the published piece are there, so none has an entry.
    <3>4. \A i \in DOMAIN pendingRequests : PieceOf(pendingRequests[i].block) # PieceOf(b)
      BY <3>2, EntryBlocks, BlockIdsProperties DEF PieceComplete, EntriesInv, EntriesPending
    <3> QED
      BY <2>1, <3>3, <3>4 DEF EntriesOngoing
  <2>3. CASE ~Publish(w)
    <3>1. UNCHANGED ongoingPieces
      BY <1>6, <2>3 DEF BlockReceived, Store, StoreBlock, CompleteTest, HashTest, Reset,
                        ResetPiece, Seek, Write, pieceVars
    <3> QED
      BY <1>1, <2>1, <3>1 DEF SameEntries, Ongoing
  <2> QED
    BY <2>2, <2>3
<1> QED
  BY StepCases, <1>2, <1>3, <1>4, <1>5, <1>6

LEMMA RequestInit == Init => RequestInv
PROOF
<1> SUFFICES ASSUME Init
             PROVE  EntriesInv /\ EntriesOngoing /\ TargetsOngoing
  BY HandStart DEF RequestInv
<1>1. DOMAIN pendingRequests = {} /\ \A w \in Workers : target[w] = {}
  BY DEF Init, PieceInit
<1> QED
  BY <1>1 DEF EntriesInv, EntriesPending, EntriesDistinct, StoresUntracked, EntriesOngoing,
              TargetsOngoing

LEMMA RequestNext ==
    ASSUME BlocksInTurn, RequestInv, [Next]_vars
    PROVE  RequestInv'
PROOF
<1>1. StoresRequested /\ ResetsComplete
  BY DEF BlocksInTurn, Critical, RequestInv, TargetsOngoing, Finishing, StoresRequested,
         ResetsComplete
<1>2. CASE Next
  BY <1>1, <1>2, HandNext, EntriesStep, EntriesOngoingStep, TargetsOngoingStep DEF RequestInv
<1>3. CASE UNCHANGED vars
  BY <1>3 DEF vars, pieceVars, workerVars, RequestInv, HandInv, ConservedInv, TypeOK, PieceTypeOK,
     PeersTypeOK, IsBitField, DiskTypeOK, PiecesConserved, TargetsStarted, TargetsSingle,
     CompletePieceInHand, PieceComplete, Ongoing, Have, EntriesInv, EntriesPending,
     EntriesDistinct, StoresUntracked, EntriesOngoing, TargetsOngoing
<1> QED
  BY <1>2, <1>3

\* While workers take turns there is no entry for a block that has arrived,
\* nor into a freed piece, even when peers send bad blocks and pieces are reset.
THEOREM PendingRequestsStayLiveInTurn == Spec /\ []BlocksInTurn => []PendingRequestsLive
PROOF
<1>1. RequestInv /\ BlocksInTurn /\ [Next]_vars => RequestInv'
  BY RequestNext
<1>2. RequestInv => PendingRequestsLive
  BY DEF RequestInv, EntriesInv, EntriesPending, EntriesDistinct, EntriesOngoing,
         PendingRequestsLive
<1> QED
  BY RequestInit, <1>1, <1>2, PTL DEF Spec

-----------------------------------------------------------------------------
(* How often a piece is counted.                                           *)

\* Only Publish changes havePieces: it appends the piece of its worker's target.
LEMMA HaveStep ==
    ASSUME TypeOK, [Next]_vars
    PROVE  \/ UNCHANGED havePieces
           \/ \E w \in Workers : \E b \in target[w] :
                 Publish(w) /\ PublishPiece(PieceOf(b)) /\ PieceOf(b) \in Pieces
PROOF
<1>1. ASSUME NEW w \in Workers, Publish(w)
      PROVE  \E b \in target[w] : PublishPiece(PieceOf(b)) /\ PieceOf(b) \in Pieces
  BY <1>1, BlockIdsProperties DEF Publish, TypeOK
<1>2. ASSUME NEW w \in Workers, BlockReceived(w), ~Publish(w)
      PROVE  UNCHANGED havePieces
  BY <1>2 DEF BlockReceived, Store, StoreBlock, CompleteTest, HashTest, Reset, ResetPiece, Seek,
              Write, pieceVars
<1>3. ASSUME NEW w \in Workers, NEW b \in BlockIds, ReceivePiece(w, b) \/ SendRequest(w, b)
      PROVE  UNCHANGED havePieces
  BY <1>3 DEF ReceivePiece, SendRequest, NextRequest
<1>4. CASE QuietStep \/ Tick \/ UNCHANGED vars
  BY <1>4 DEF QuietStep, Tick, TimePasses, vars, pieceVars
<1> QED
  BY StepCases, <1>1, <1>2, <1>3, <1>4

\* Where a piece lies in a sequence.
Places(s, p) == {i \in DOMAIN s : s[i] = p}

\* A piece that is appended has one place more, the others have theirs.
LEMMA PlacesAppend ==
    ASSUME NEW s \in Seq(Pieces), NEW p \in Pieces, NEW q \in Pieces
    PROVE  /\ IsFiniteSet(Places(s, q))
           /\ Cardinality(Places(s, q)) \in Nat
           /\ Cardinality(Places(Append(s, p), q)) =
                  Cardinality(Places(s, q)) + (IF q = p THEN 1 ELSE 0)
           /\ q \notin ToSet(s) => Cardinality(Places(s, q)) = 0
PROOF
<1>1. Len(s) \in Nat /\ DOMAIN s = 1 .. Len(s)
  OBVIOUS
<1>2. IsFiniteSet(Places(s, q)) /\ Cardinality(Places(s, q)) \in Nat
  <2>1. IsFiniteSet(1 .. Len(s))
    BY <1>1, FS_Interval
  <2>2. Places(s, q) \subseteq 1 .. Len(s)
    BY <1>1 DEF Places
  <2> QED
    BY <2>1, <2>2, FS_Subset, FS_CardinalityType
<1>3. /\ DOMAIN Append(s, p) = 1 .. Len(s) + 1
      /\ \A i \in 1 .. Len(s) : Append(s, p)[i] = s[i]
      /\ Append(s, p)[Len(s) + 1] = p
      /\ Len(s) + 1 \notin 1 .. Len(s)
      /\ 1 .. Len(s) + 1 = (1 .. Len(s)) \union {Len(s) + 1}
  BY <1>1
<1>4. ASSUME q = p
      PROVE  Cardinality(Places(Append(s, p), q)) = Cardinality(Places(s, q)) + 1
  <2>1. Places(Append(s, p), q) = Places(s, q) \union {Len(s) + 1}
    BY <1>1, <1>3, <1>4 DEF Places
  <2>2. Len(s) + 1 \notin Places(s, q)
    BY <1>1, <1>3 DEF Places
  <2>3. Cardinality(Places(Append(s, p), q)) = Cardinality(Places(s, q)) + 1
    BY <1>2, <2>1, <2>2, FS_AddElement
  <2> QED
    BY <2>3
<1>5. ASSUME q # p
      PROVE  Cardinality(Places(Append(s, p), q)) = Cardinality(Places(s, q))
  <2>1. Places(Append(s, p), q) = Places(s, q)
    BY <1>1, <1>3, <1>5 DEF Places
  <2> QED
    BY <2>1
<1>6. ASSUME q \notin ToSet(s)
      PROVE  Cardinality(Places(s, q)) = 0
  <2>1. Places(s, q) = {}
    BY <1>6 DEF Places, ToSet
  <2> QED
    BY <2>1, FS_EmptySet
<1>7. Cardinality(Places(Append(s, p), q)) =
          Cardinality(Places(s, q)) + (IF q = p THEN 1 ELSE 0)
  BY <1>2, <1>4, <1>5
<1> QED
  BY <1>2, <1>6, <1>7

LEMMA TimesCountedPlaces ==
    \A p : TimesCounted(p) = Cardinality(Places(havePieces, p))
PROOF
  BY DEF TimesCounted, Places

\* What is published is in progress, and no longer afterwards.
LEMMA CountedStep ==
    ASSUME RequestInv, CountedOnce, [Next]_vars
    PROVE  CountedOnce'
PROOF
<1> USE DEF RequestInv, HandInv, ConservedInv, TypeOK, PieceTypeOK
<1>1. ASSUME NEW w \in Workers, NEW b \in target[w], Publish(w),
             PublishPiece(PieceOf(b)), PieceOf(b) \in Pieces
      PROVE  CountedOnce'
  <2>1. PieceOf(b) \in Ongoing
    BY <1>1 DEF Publish, At, TargetsOngoing, Busy, Finishing
  <2>2. PieceOf(b) \notin ToSet(havePieces)
    BY <2>1 DEF PiecesConserved, Have
  <2>3. havePieces' = Append(havePieces, PieceOf(b))
    BY <1>1 DEF PublishPiece
  <2>4. ASSUME NEW q \in Pieces
        PROVE  Cardinality(Places(havePieces', q)) <= 1
    <3>1. /\ Cardinality(Places(havePieces, q)) \in Nat
          /\ Cardinality(Places(havePieces', q)) =
                 Cardinality(Places(havePieces, q)) + (IF q = PieceOf(b) THEN 1 ELSE 0)
          /\ q \notin ToSet(havePieces) => Cardinality(Places(havePieces, q)) = 0
      BY <1>1, <2>3, PlacesAppend
    <3>2. Cardinality(Places(havePieces, q)) <= 1
      BY TimesCountedPlaces DEF CountedOnce
    <3> QED
      BY <2>2, <3>1, <3>2
  <2> QED
    BY <2>4 DEF CountedOnce, TimesCounted, Places
<1>2. CASE UNCHANGED havePieces
  BY <1>2 DEF CountedOnce, TimesCounted
<1> QED
  BY <1>1, <1>2, HaveStep

\* Workers that take turns publish no piece twice, so that the length of
\* havePieces is the number of pieces that are there; it is the overlapping of
\* blockReceived, and nothing else, that counts pieces twice.
THEOREM CountedOnceInTurn == Spec /\ []BlocksInTurn => []CountedOnce
PROOF
<1>1. Init => CountedOnce
  <2> SUFFICES ASSUME Init, NEW p \in Pieces
               PROVE  TimesCounted(p) <= 1
    BY DEF CountedOnce
  <2>1. {i \in DOMAIN havePieces : havePieces[i] = p} = {}
    BY DEF Init, PieceInit
  <2> QED
    BY <2>1, FS_EmptySet DEF TimesCounted
<1>2. RequestInv /\ BlocksInTurn /\ [Next]_vars => RequestInv'
  BY RequestNext
<1>3. RequestInv /\ CountedOnce /\ [Next]_vars => CountedOnce'
  BY CountedStep
<1> QED
  BY RequestInit, <1>1, <1>2, <1>3, PTL DEF Spec

\* The workers that handle a piece are workers.
LEMMA HandlingFinite ==
    ASSUME NEW S, S \subseteq Workers
    PROVE  /\ IsFiniteSet(S) /\ Cardinality(S) \in Nat
           /\ Cardinality(Workers) \in Nat /\ Cardinality(S) <= Cardinality(Workers)
           /\ \A T \in SUBSET S : Cardinality(T) \in Nat /\ Cardinality(T) <= Cardinality(S)
           /\ \A w \in S : Cardinality(S \ {w}) = Cardinality(S) - 1
PROOF
<1>1. IsFiniteSet(Workers)
  BY PeerConnectionAssumption
<1>2. IsFiniteSet(S)
  BY <1>1, FS_Subset
<1>3. \A T \in SUBSET S : Cardinality(T) \in Nat /\ Cardinality(T) <= Cardinality(S)
  BY <1>2, FS_Subset, FS_CardinalityType
<1>4. \A w \in S : Cardinality(S \ {w}) = Cardinality(S) - 1
  BY <1>2, FS_RemoveElement
<1> QED
  BY <1>1, <1>2, <1>3, <1>4, FS_Subset, FS_CardinalityType

LEMMA InsideStep ==
    ASSUME HandInv, CountedByThoseInside, [Next]_vars
    PROVE  CountedByThoseInside'
PROOF
<1> USE DEF HandInv, ConservedInv, TypeOK, PieceTypeOK
<1> DEFINE Count(p) == Cardinality(Places(havePieces, p))
<1>1. \A p \in Pieces : /\ Handling(p) \subseteq Workers /\ Handling(p)' \subseteq Workers
                        /\ Count(p) \in Nat
                        /\ Count(p) + Cardinality(Handling(p)) <= Cardinality(Workers)
  BY TimesCountedPlaces, PlacesAppend DEF Handling, CountedByThoseInside
<1> HIDE DEF Count
\* Nothing is counted, and nobody gets a block of another piece.
<1>2. ASSUME UNCHANGED havePieces, NEW p \in Pieces, Handling(p)' \subseteq Handling(p)
      PROVE  (TimesCounted(p) + Cardinality(Handling(p)) <= Cardinality(Workers))'
  <2>1. TimesCounted(p)' = Count(p)
    BY <1>2 DEF TimesCounted, Places, Count
  <2>2. /\ Cardinality(Handling(p)') \in Nat /\ Cardinality(Handling(p)) \in Nat
        /\ Cardinality(Handling(p)') <= Cardinality(Handling(p))
        /\ Cardinality(Workers) \in Nat
    BY <1>1, <1>2, HandlingFinite
  <2> QED
    BY <1>1, <2>1, <2>2
\* A piece of ongoingPieces_ has not been counted yet.
<1>3. ASSUME UNCHANGED havePieces, NEW p \in Pieces, p \in Ongoing
      PROVE  (TimesCounted(p) + Cardinality(Handling(p)) <= Cardinality(Workers))'
  <2>1. p \notin ToSet(havePieces)
    BY <1>3 DEF PiecesConserved, Have
  <2>2. TimesCounted(p)' = 0
    <3>1. Places(havePieces', p) = {}
      BY <1>3, <2>1 DEF Places, ToSet
    <3> QED
      BY <3>1, FS_EmptySet DEF TimesCounted, Places
  <2>3. /\ Cardinality(Handling(p)') \in Nat
        /\ Cardinality(Handling(p)') <= Cardinality(Workers)
    BY <1>1, HandlingFinite
  <2> QED
    BY <2>2, <2>3
<1>4. ASSUME UNCHANGED havePieces, \A w \in Workers : target'[w] \subseteq target[w]
      PROVE  CountedByThoseInside'
  <2>1. \A p \in Pieces : Handling(p)' \subseteq Handling(p)
    BY <1>4 DEF Handling
  <2> QED
    BY <1>2, <1>4, <2>1 DEF CountedByThoseInside
<1>5. ASSUME NEW w \in Workers, NEW b \in BlockIds, ReceivePiece(w, b)
      PROVE  CountedByThoseInside'
  <2>1. UNCHANGED havePieces
    BY <1>5 DEF ReceivePiece
  <2>2. CASE UNCHANGED target
    BY <1>4, <2>1, <2>2
  <2>3. CASE PieceOf(b) \in Ongoing /\ target' = [target EXCEPT ![w] = {b}]
    <3>1. \A p \in Pieces \ {PieceOf(b)} : Handling(p)' \subseteq Handling(p)
      BY <2>3 DEF Handling
    <3> QED
      BY <1>2, <1>3, <2>1, <2>3, <3>1 DEF CountedByThoseInside
  <2> QED
    BY <1>5, <2>2, <2>3 DEF ReceivePiece
\* Who publishes a piece gives up its block.
<1>6. ASSUME NEW w \in Workers, NEW b \in target[w], Publish(w),
             PublishPiece(PieceOf(b)), PieceOf(b) \in Pieces
      PROVE  CountedByThoseInside'
  <2> DEFINE p == PieceOf(b)
  <2>1. havePieces' = Append(havePieces, p) /\ target' = [target EXCEPT ![w] = {}]
    BY <1>6 DEF PublishPiece, Publish, BlockReceivedDone
  <2>2. ASSUME NEW q \in Pieces
        PROVE  (TimesCounted(q) + Cardinality(Handling(q)) <= Cardinality(Workers))'
    <3>1. TimesCounted(q)' = Count(q) + (IF q = p THEN 1 ELSE 0)
      <4>1. TimesCounted(q)' = Cardinality(Places(havePieces', q))
        BY DEF TimesCounted, Places
      <4> QED
        BY <1>6, <2>1, <4>1, PlacesAppend DEF Count
    <3>2. /\ Handling(q)' \subseteq Handling(q)
          /\ q = p => w \in Handling(q) /\ Handling(q)' \subseteq Handling(q) \ {w}
      BY <2>1 DEF Handling
    <3>3. /\ Cardinality(Handling(q)) \in Nat /\ Cardinality(Handling(q)') \in Nat
          /\ Cardinality(Workers) \in Nat
          /\ Cardinality(Handling(q)') <= Cardinality(Handling(q))
      BY <1>1, <3>2, HandlingFinite
    <3>4. CASE q = p
      <4>1. /\ Cardinality(Handling(q) \ {w}) = Cardinality(Handling(q)) - 1
            /\ Cardinality(Handling(q)') <= Cardinality(Handling(q) \ {w})
        BY <1>1, <3>2, <3>4, HandlingFinite
      <4> QED
        BY <1>1, <3>1, <3>3, <3>4, <4>1
    <3>5. CASE q # p
      BY <1>1, <3>1, <3>3, <3>5
    <3> QED
      BY <3>4, <3>5
  <2> QED
    BY <2>2 DEF CountedByThoseInside
<1>7. ASSUME UNCHANGED havePieces, \A w \in Workers, b \in BlockIds : ~ReceivePiece(w, b)
      PROVE  \A w \in Workers : target'[w] \subseteq target[w]
  <2>1. ASSUME NEW w \in Workers, BlockReceived(w)
        PROVE  \A v \in Workers : target'[v] \subseteq target[v]
    BY <2>1 DEF BlockReceived, Store, CompleteTest, HashTest, Reset, Seek, Write, Publish,
                BlockReceivedDone, workerVars
  <2>2. ASSUME NEW w \in Workers, NEW b \in BlockIds, SendRequest(w, b)
        PROVE  UNCHANGED target
    BY <2>2 DEF SendRequest
  <2>3. CASE QuietStep \/ Tick \/ UNCHANGED vars
    BY <2>3 DEF QuietStep, Tick, vars, workerVars
  <2> QED
    BY <1>7, <2>1, <2>2, <2>3, StepCases
<1> QED
  BY <1>4, <1>5, <1>6, <1>7, HaveStep, StepCases

\* However the workers interleave and whatever their peers send, a piece is
\* counted at most once by each worker that was handling a block of it when it
\* was first published, and by nobody who comes later.
THEOREM CountsAreByThoseInside == Spec => []CountedByThoseInside
PROOF
<1>1. Init => CountedByThoseInside
  <2> SUFFICES ASSUME Init, NEW p \in Pieces
               PROVE  TimesCounted(p) + Cardinality(Handling(p)) <= Cardinality(Workers)
    BY DEF CountedByThoseInside
  <2>1. {i \in DOMAIN havePieces : havePieces[i] = p} = {} /\ Handling(p) = {}
    BY DEF Init, PieceInit, Handling
  <2>2. Cardinality(Workers) \in Nat
    BY HandlingFinite
  <2> QED
    BY <2>1, <2>2, FS_EmptySet DEF TimesCounted
<1>2. HandInv /\ [Next]_vars => HandInv'
  <2>1. CASE Next
    BY <2>1, HandNext
  <2>2. CASE UNCHANGED vars
    BY <2>2 DEF vars, pieceVars, HandInv, ConservedInv, TypeOK, PieceTypeOK,
       PeersTypeOK, IsBitField, DiskTypeOK, PiecesConserved, TargetsStarted, TargetsSingle,
       CompletePieceInHand, PieceComplete, Ongoing, Have
  <2> QED
    BY <2>1, <2>2
<1>3. HandInv /\ CountedByThoseInside /\ [Next]_vars => CountedByThoseInside'
  BY InsideStep
<1> QED
  BY HandStart, <1>1, <1>2, <1>3, PTL DEF Spec

-----------------------------------------------------------------------------
(* How a process of workers that take turns may die, among peers that have  *)
(* all pieces or announce an empty bitfield: with a peer that has none of   *)
(* the missing ones getRarestPiece gives a null pointer anyway.             *)

FullPeers == BitFields \subseteq {Pieces, EmptyBitField}

\* The registry knows peers that have everything, or the empty string of them.
RegisteredFull == \A q \in DOMAIN peers : peers[q] \in {Pieces, EmptyBitField}

\* Past its first test, nextRequest finds a piece missing.
PicksFromMissing == \A w \in Workers : pc[w] = "pick" => missingPieces # {}

InTurnInv == RequestInv /\ RegisteredFull /\ PicksFromMissing

LEMMA RegisteredStep ==
    ASSUME FullPeers, TypeOK, RegisteredFull, Next
    PROVE  RegisteredFull'
PROOF
<1> USE DEF TypeOK, PeersTypeOK, RegisteredFull
<1>1. CASE UNCHANGED peers
  BY <1>1
<1>2. ASSUME NEW w \in Workers, Deregister(w)
      PROVE  RegisteredFull'
  BY <1>2 DEF Deregister, RemovePeer
<1>3. ASSUME NEW w \in Workers, NEW q \in Peers, NEW bitField \in BitFields,
             Connect(w, q, bitField)
      PROVE  RegisteredFull'
  <2>1. bitField \in {Pieces, EmptyBitField} /\ AddPeer(q, bitField)
    BY <1>3 DEF FullPeers, Connect
  <2> QED
    BY <2>1 DEF AddPeer
<1>4. ASSUME NEW w \in Workers, NEW p \in Pieces, ReceiveHave(w, p)
      PROVE  RegisteredFull'
  <2>1. UpdatePeer(peerId[w], p)
    BY <1>4 DEF ReceiveHave
  <2>2. \A q \in DOMAIN peers : HasPeer(q) => peers[q] \union {p} = Pieces
    BY DEF HasPeer
  <2> QED
    BY <2>1, <2>2 DEF UpdatePeer
<1>5. ASSUME NEW w \in Workers, Step(w)
      PROVE  RegisteredFull'
  BY <1>5, <1>1, <1>2, <1>3, <1>4
  DEF Step, OuterTest, PopDummy, Establish, NoBitField, ConnectThrows, InnerTest,
      Receive, ReceivePiece, ReceiveChoke, ReceiveUnchoke, ReceiveOther, ReceiveKeepAlive,
      ReceiveThrows, BlockReceived, Store, CompleteTest, HashTest, Reset, Seek, Write, Publish,
      RequestPiece, BeginRequest, SendRequest, Dies, NullRarest, FreedPiece, FreedBlock,
      AssertFails, Crash
<1> QED
  BY <1>1, <1>5 DEF Next, Terminate, Tick, Finished, vars

LEMMA PicksStep ==
    ASSUME BlocksInTurn, TypeOK, PicksFromMissing, Next
    PROVE  PicksFromMissing'
PROOF
<1> USE DEF TypeOK, PicksFromMissing
<1>1. ASSUME UNCHANGED missingPieces,
             \A w \in Workers : pc'[w] = "pick" => pc[w] = "pick"
      PROVE  PicksFromMissing'
  BY <1>1
<1>2. ASSUME NEW w \in Workers, BeginRequest(w)
      PROVE  PicksFromMissing'
  BY <1>2 DEF BeginRequest, GoTo, pieceVars
\* Whoever else is choosing a block would have to wait.
<1>3. ASSUME NEW w \in Workers, NEW b \in BlockIds, SendRequest(w, b)
      PROVE  PicksFromMissing'
  <2>1. pc'[w] = "inner"
    BY <1>3 DEF SendRequest, GoTo
  <2>2. \A v \in Workers \ {w} : pc'[v] # "pick"
    BY <1>3, OthersOut DEF Critical
  <2> QED
    BY <2>1, <2>2
<1>4. ASSUME NEW w \in Workers, Dies(w)
      PROVE  PicksFromMissing'
  BY <1>1, <1>4 DEF Dies, NullRarest, FreedPiece, FreedBlock, AssertFails, Crash, pieceVars
<1>5. ASSUME NEW w \in Workers, Step(w), ~RequestPiece(w), ~Dies(w)
      PROVE  PicksFromMissing'
  <2>1. \A v \in Workers : pc'[v] = "pick" => pc[v] = "pick"
    BY <1>5
    DEF Step, OuterTest, PopDummy, Establish, Connect, NoBitField, ConnectThrows, CloseSock,
        Deregister, InnerTest, Receive, ReceivePiece, ReceiveHave, ReceiveChoke, ReceiveUnchoke,
        ReceiveOther, ReceiveKeepAlive, ReceiveThrows, Deregister, BlockReceived, Store,
        CompleteTest,
        HashTest, Reset, Seek, Write, Publish, BlockReceivedDone, AfterMessage, GoTo
  <2>2. UNCHANGED missingPieces
    BY <1>5
    DEF Step, OuterTest, PopDummy, Establish, Connect, NoBitField, ConnectThrows, Deregister,
        InnerTest, Receive, ReceivePiece, ReceiveHave, ReceiveChoke, ReceiveUnchoke,
        ReceiveOther, ReceiveKeepAlive, ReceiveThrows, BlockReceived, Store, StoreBlock,
        CompleteTest, HashTest, Reset, ResetPiece, Seek, Write, Publish, PublishPiece, pieceVars
  <2> QED
    BY <1>1, <2>1, <2>2
<1> QED
  BY <1>1, <1>2, <1>3, <1>4, <1>5
  DEF Next, RequestPiece, Terminate, Tick, TimePasses, Finished, vars, pieceVars

\* Of the four ways to die one is open: that of a peer that is gone.
LEMMA DiesOfRemoval ==
    ASSUME InTurnInv, NEW w \in Workers, Dies(w)
    PROVE  NullRarest(w) /\ ~HasPeer(peerId[w])
PROOF
<1> USE DEF InTurnInv, RequestInv
<1>1. ~FreedPiece(w)
  BY DEF FreedPiece, At, TargetsOngoing, Busy, Finishing
<1>2. ~FreedBlock(w)
  BY DEF FreedBlock, EntriesOngoing
<1>3. ~AssertFails(w)
  BY DEF AssertFails, At, TargetsOngoing, Finishing
<1>4. NullRarest(w)
  BY <1>1, <1>2, <1>3 DEF Dies
<1>5. ASSUME HasPeer(peerId[w])
      PROVE  FALSE
  <2>1. pc[w] = "pick" /\ RarestIsNull(peerId[w])
    BY <1>4 DEF NullRarest, At
  <2>2. PICK p \in missingPieces : TRUE
    BY <2>1 DEF PicksFromMissing
  <2>3. p \in Pieces /\ peers[peerId[w]] = Pieces
    BY <1>5 DEF HasPeer, RegisteredFull, HandInv, ConservedInv, TypeOK, PieceTypeOK
  <2>4. PeerHasPiece(peerId[w], p)
    BY <1>5, <2>3 DEF PeerHasPiece
  <2> QED
    BY <2>1, <2>4 DEF RarestIsNull
<1> QED
  BY <1>4, <1>5

\* Workers that take turns, among peers that have all pieces, do bring the
\* process down in one way, and only in that: closeSock of another worker has
\* taken the peer out of the registry, or a connection has announced its id
\* with an empty bitfield, while nextRequest is past its hasPeer.
THEOREM OnlyRemovalKillsInTurn ==
    ASSUME FullPeers
    PROVE  Spec /\ []BlocksInTurn => OnlyRemovalKills
PROOF
<1>1. Init => InTurnInv
  BY RequestInit DEF InTurnInv, Init, RegisteredFull, PicksFromMissing
<1>2. InTurnInv /\ BlocksInTurn /\ [Next]_vars => InTurnInv'
  <2> SUFFICES ASSUME InTurnInv, BlocksInTurn, [Next]_vars
               PROVE  InTurnInv'
    OBVIOUS
  <2>1. RequestInv' /\ TypeOK
    BY RequestNext DEF InTurnInv, RequestInv, HandInv, ConservedInv
  <2>2. CASE Next
    BY <2>1, <2>2, RegisteredStep, PicksStep DEF InTurnInv
  <2>3. CASE UNCHANGED vars
    BY <2>1, <2>3 DEF vars, pieceVars, InTurnInv, RegisteredFull, PicksFromMissing
  <2> QED
    BY <2>2, <2>3
<1>3. InTurnInv /\ [Next]_vars =>
          [crashed' /\ ~crashed =>
              \E w \in Workers : NullRarest(w) /\ ~HasPeer(peerId[w])]_vars
  <2> SUFFICES ASSUME InTurnInv, Next, crashed', ~crashed
               PROVE  \E w \in Workers : NullRarest(w) /\ ~HasPeer(peerId[w])
    OBVIOUS
  <2>1. ASSUME NEW w \in Workers, OuterTest(w) \/ PopDummy(w) \/ Establish(w) \/ Deregister(w)
        PROVE  UNCHANGED crashed
    BY <2>1 DEF OuterTest, PopDummy, Establish, Connect, NoBitField, ConnectThrows, Deregister
  <2>2. ASSUME NEW w \in Workers, InnerTest(w) \/ Receive(w)
        PROVE  UNCHANGED crashed
    BY <2>2 DEF InnerTest, Receive, ReceivePiece, ReceiveHave, ReceiveChoke, ReceiveUnchoke,
                ReceiveOther, ReceiveKeepAlive, ReceiveThrows
  <2>3. ASSUME NEW w \in Workers, BlockReceived(w) \/ RequestPiece(w)
        PROVE  UNCHANGED crashed
    BY <2>3 DEF BlockReceived, Store, CompleteTest, HashTest, Reset, Seek, Write, Publish,
                RequestPiece, BeginRequest, SendRequest
  <2>4. Terminate \/ Tick \/ Finished => UNCHANGED crashed
    BY DEF Terminate, Tick, Finished, vars
  <2>5. PICK w \in Workers : Dies(w)
    BY <2>1, <2>2, <2>3, <2>4 DEF Next, Step
  <2> QED
    BY <2>5, DiesOfRemoval
<1> QED
  BY <1>1, <1>2, <1>3, PTL DEF Spec, OnlyRemovalKills

-----------------------------------------------------------------------------
(* The pending flag, however the workers interleave.                       *)

\* The count has reached isComplete's value, and has gone past it.
Enough == Len(havePieces) + Header >= TotalPieces
Past == Len(havePieces) + Header > TotalPieces

\* The count never goes down, so that both stay.
LEMMA CountGrows ==
    ASSUME TypeOK, [Next]_vars
    PROVE  /\ Enough => Enough'
           /\ Past => Past'
           /\ Past => Enough
           /\ Enough /\ ~IsComplete => Past
PROOF
<1>1. Len(havePieces) \in Nat /\ TotalPieces \in Nat /\ Header \in Nat
  BY TorrentAssumption, PieceManagerAssumption DEF TypeOK, PieceTypeOK
<1>2. Len(havePieces') = Len(havePieces) \/ Len(havePieces') = Len(havePieces) + 1
  BY HaveStep DEF PublishPiece, TypeOK, PieceTypeOK
<1> QED
  BY <1>1, <1>2 DEF Enough, Past, IsComplete

\* A worker that looks for a peer has no request pending, unless isComplete
\* had it leave its peer, and the count has gone on since.
PendingReset ==
    \A w \in Workers :
        /\ pc[w] = "connect" => ~requestPending[w] \/ Past
        /\ pc[w] = "outer" => ~requestPending[w] \/ Enough
        /\ pc[w] = "remove" => ~requestPending[w]

PendingInv == TypeOK /\ PendingIsInFlight /\ PendingReset

LEMMA PendingStep ==
    ASSUME "choke" \notin PeerEvents, TypeOK, PendingIsInFlight, PendingReset, Next
    PROVE  PendingIsInFlight' /\ PendingReset'
PROOF
<1> USE DEF TypeOK, PendingReset
<1>0. /\ Enough => Enough'
      /\ Past => Past'
      /\ Past => Enough
      /\ Enough /\ ~IsComplete => Past
  BY CountGrows
\* The flag of one worker, and where it looks for a peer.
<1> DEFINE FlagRight(w) == /\ requestPending'[w] => inFlight'[w] # {} \/ Past'
                           /\ pc'[w] = "connect" => ~requestPending'[w] \/ Past'
                           /\ pc'[w] = "outer" => ~requestPending'[w] \/ Enough'
                           /\ pc'[w] = "remove" => ~requestPending'[w]
<1>a. \A w \in Workers : requestPending[w] => inFlight[w] # {} \/ Past
  BY DEF PendingIsInFlight, Past
<1>1. ASSUME NEW w \in Workers, NEW v \in Workers \ {w}, Step(w)
      PROVE  FlagRight(v)
  <2>1. pc'[v] = pc[v] /\ requestPending'[v] = requestPending[v] /\ inFlight'[v] = inFlight[v]
    BY <1>1
    DEF Step, OuterTest, PopDummy, Establish, Connect, NoBitField, ConnectThrows, CloseSock,
        Deregister, InnerTest, Receive, ReceivePiece, ReceiveHave, ReceiveChoke, ReceiveUnchoke,
        ReceiveOther, ReceiveKeepAlive, ReceiveThrows, Deregister, BlockReceived, Store,
        CompleteTest,
        HashTest, Reset, Seek, Write, Publish, BlockReceivedDone, RequestPiece, BeginRequest,
        SendRequest, AfterMessage, GoTo, Dies, NullRarest, FreedPiece, FreedBlock, AssertFails,
        Crash, workerVars
  <2> QED
    BY <1>0, <1>a, <2>1
<1>2. ASSUME UNCHANGED <<pc, requestPending, inFlight>>, NEW w \in Workers
      PROVE  FlagRight(w)
  BY <1>0, <1>a, <1>2
<1>3. ASSUME NEW w \in Workers, OuterTest(w) \/ PopDummy(w) \/ InnerTest(w) \/ Deregister(w)
      PROVE  FlagRight(w)
  <2>1. UNCHANGED <<requestPending, inFlight>>
    BY <1>3 DEF OuterTest, PopDummy, InnerTest, Deregister, workerVars
  <2>2. CASE OuterTest(w)
    <3>1. pc[w] = "outer" /\ pc'[w] \in {"exit", "connect"} /\ (pc'[w] = "connect" => ~IsComplete)
      BY <2>2 DEF OuterTest, At, GoTo
    <3> QED
      BY <1>0, <1>a, <2>1, <3>1
  <2>3. CASE InnerTest(w)
    <3>1. pc'[w] \in {"outer", "recv"} /\ (pc'[w] = "outer" => IsComplete)
      BY <2>3 DEF InnerTest, GoTo
    <3>2. IsComplete => Enough
      BY TorrentAssumption, PieceManagerAssumption DEF IsComplete, Enough, PieceTypeOK
    <3> QED
      BY <1>0, <1>a, <2>1, <3>1, <3>2
  <2>4. CASE PopDummy(w)
    <3>1. pc'[w] = "exit"
      BY <2>4 DEF PopDummy, GoTo
    <3> QED
      BY <1>0, <1>a, <2>1, <3>1
  <2>5. CASE Deregister(w)
    <3>1. pc[w] = "remove" /\ pc'[w] = "outer"
      BY <2>5 DEF Deregister, At, GoTo
    <3> QED
      BY <1>0, <1>a, <2>1, <3>1
  <2> QED
    BY <1>3, <2>2, <2>3, <2>4, <2>5
<1>4. ASSUME NEW w \in Workers, Establish(w)
      PROVE  FlagRight(w)
  <2>1. CASE \E q \in Peers \union {NoPeer} : ConnectThrows(w, q)
    <3>1. requestPending'[w] = FALSE
      BY <2>1 DEF ConnectThrows, CloseSock
    <3> QED
      BY <3>1
  <2>2. CASE \/ \E q \in Peers, bitField \in BitFields : Connect(w, q, bitField)
             \/ \E q \in Peers : NoBitField(w, q)
    <3>1. /\ UNCHANGED requestPending /\ pc[w] = "connect"
          /\ pc'[w] \in {"inner", "outer"}
      BY <2>2 DEF Connect, NoBitField, At, GoTo
    <3> QED
      BY <1>0, <3>1
  <2> QED
    BY <1>4, <2>1, <2>2 DEF Establish
<1>5. ASSUME NEW w \in Workers, Receive(w)
      PROVE  FlagRight(w)
  <2>1. CASE ReceiveThrows(w) \/ \E b \in BlockIds : ReceivePiece(w, b)
    <3>1. requestPending'[w] = FALSE
      BY <2>1 DEF ReceiveThrows, CloseSock, ReceivePiece
    <3> QED
      BY <3>1
  <2>2. CASE \/ ReceiveUnchoke(w) \/ ReceiveOther(w) \/ ReceiveKeepAlive(w)
             \/ \E p \in Pieces : ReceiveHave(w, p)
    <3>1. UNCHANGED <<requestPending, inFlight>> /\ pc'[w] \in {"request", "inner", "exit"}
      BY <2>2 DEF ReceiveUnchoke, ReceiveOther, ReceiveKeepAlive, ReceiveHave, AfterMessage,
                  GoTo, workerVars
    <3> QED
      BY <1>0, <1>a, <3>1
  <2>3. ~ReceiveChoke(w)
    BY DEF ReceiveChoke
  <2> QED
    BY <1>5, <2>1, <2>2, <2>3 DEF Receive
<1>6. ASSUME NEW w \in Workers, BlockReceived(w)
      PROVE  FlagRight(w)
  <2>1. /\ UNCHANGED <<requestPending, inFlight>>
        /\ pc'[w] \notin {"connect", "outer", "remove"}
    BY <1>6 DEF BlockReceived, Store, CompleteTest, HashTest, Reset, Seek, Write, Publish,
                BlockReceivedDone, AfterMessage, GoTo, workerVars
  <2> QED
    BY <1>0, <1>a, <2>1
<1>7. ASSUME NEW w \in Workers, RequestPiece(w)
      PROVE  FlagRight(w)
  <2>1. CASE BeginRequest(w)
    <3>1. UNCHANGED <<requestPending, inFlight>> /\ pc'[w] \in {"pick", "inner"}
      BY <2>1 DEF BeginRequest, GoTo, workerVars
    <3> QED
      BY <1>0, <1>a, <3>1
  <2>2. ASSUME NEW b \in BlockIds, SendRequest(w, b)
        PROVE  FlagRight(w)
    <3>1. inFlight'[w] = {b} /\ pc'[w] = "inner"
      BY <2>2 DEF SendRequest, GoTo
    <3> QED
      BY <3>1
  <2> QED
    BY <1>7, <2>1, <2>2 DEF RequestPiece
<1>8. ASSUME NEW w \in Workers, Dies(w)
      PROVE  FlagRight(w)
  BY <1>2, <1>8 DEF Dies, NullRarest, FreedPiece, FreedBlock, AssertFails, Crash, workerVars
<1>9. ASSUME NEW w \in Workers, Step(w)
      PROVE  FlagRight(w)
  BY <1>9, <1>3, <1>4, <1>5, <1>6, <1>7, <1>8 DEF Step
<1>10. \A w \in Workers : FlagRight(w)
  BY <1>1, <1>2, <1>9 DEF Next, Terminate, Tick, Finished, vars, workerVars
<1> QED
  BY <1>10 DEF PendingIsInFlight, Past

\* While no peer chokes, a worker that believes a request is pending has one
\* in flight until the count of pieces goes past isComplete's value, for any
\* number of workers and however they interleave.
THEOREM PendingStaysInFlight ==
    ASSUME "choke" \notin PeerEvents
    PROVE  Spec => []PendingIsInFlight
PROOF
<1>1. Init => PendingInv
  <2> SUFFICES ASSUME Init
               PROVE  PendingIsInFlight /\ PendingReset
    BY TypeInit DEF PendingInv
  <2> QED
    BY DEF Init, PendingIsInFlight, PendingReset
<1>2. PendingInv /\ [Next]_vars => PendingInv'
  <2> SUFFICES ASSUME PendingInv, [Next]_vars
               PROVE  PendingInv'
    OBVIOUS
  <2>1. TypeOK'
    BY TypeStep DEF PendingInv
  <2>2. CASE Next
    BY <2>1, <2>2, PendingStep DEF PendingInv
  <2>3. CASE UNCHANGED vars
    BY <2>1, <2>3 DEF vars, pieceVars, PendingInv, PendingIsInFlight, PendingReset, Enough, Past
  <2> QED
    BY <2>2, <2>3
<1>3. PendingInv => PendingIsInFlight
  BY DEF PendingInv
<1> QED
  BY <1>1, <1>2, <1>3, PTL DEF Spec

=============================================================================
