--------------------------- MODULE PeerConnection ---------------------------
(***************************************************************************)
(* The worker threads of a download.  Each runs PeerConnection::start: it  *)
(* takes a peer, connects, and handles one message at a time, receiving    *)
(* blocks and requesting the next ones.  The workers share one             *)
(* PieceManager, one PeerRegistry and one DiskManager, and nothing else.   *)
(*                                                                         *)
(* pc[w] names the next stretch of code worker w runs without another      *)
(* thread in between:                                                      *)
(*   outer      the test of the outer while                                *)
(*   connect    pop a peer, establishNewConnection                         *)
(*   inner      the test of the inner while                                *)
(*   recv       receiveMessage and its handling, for a Piece message up to *)
(*              the end of blockReceived's first locked part               *)
(*   store ... publish   the rest of blockReceived                         *)
(*   remove     the end of closeSock, once isComplete has returned false    *)
(*   request    requestPiece up to the hasPeer test of nextRequest         *)
(*   pick       the rest of nextRequest, with lock_ held, and the sending  *)
(*   exit       start has returned                                         *)
(* The remote peers and the queue of peers are not under src/'s control:   *)
(* any peer may come next, with any bitfield of BitFields, and send any    *)
(* message of PeerEvents, or the block that was asked of it.               *)
(***************************************************************************)
EXTENDS PieceManager

CONSTANTS Workers,     \* the threads of TorrentClient
          NoPeer,      \* the empty peerId_
          BitFields,   \* the bitfields peers announce
          PeerEvents   \* what remote peers and the network do besides serving

Events == {"choke", "unchoke", "have", "other", "keepAlive", "timeout", "refuse"}

ASSUME PeerConnectionAssumption == /\ IsFiniteSet(Workers)
                                   /\ NoPeer \notin Peers
                                   /\ \A f \in BitFields : IsBitField(f)
                                   /\ PeerEvents \subseteq Events

VARIABLES pc,
          target,          \* blockReceived's argument, from store to publish
          peerId,          \* peerId_
          conn,            \* sock_ and peerBitField_: see below
          choked,          \* choked_
          requestPending,  \* requestPending_
          inFlight,        \* the block the connected peer has yet to send
          terminated,      \* terminated_ of every worker
          crashed          \* the process has died of an undefined behaviour

vars == <<pieceVars, peers, putPos, file, pc, target, peerId, conn, choked,
          requestPending, inFlight, terminated, crashed>>

workerVars == <<target, peerId, conn, choked, requestPending, inFlight>>

Labels == {"outer", "connect", "inner", "recv", "store", "complete", "hash",
           "reset", "seek", "write", "publish", "request", "pick", "remove", "exit"}

\* "registered": sock_ is set and peerBitField_ is not empty.
\* "open": sock_ is set, and peerBitField_ is empty.
ConnStates == {"closed", "open", "registered"}

TypeOK == /\ PieceTypeOK
          /\ PeersTypeOK
          /\ DiskTypeOK
          /\ pc \in [Workers -> Labels]
          /\ target \in [Workers -> SUBSET BlockIds]
          /\ peerId \in [Workers -> Peers \union {NoPeer}]
          /\ conn \in [Workers -> ConnStates]
          /\ choked \in [Workers -> BOOLEAN]
          /\ requestPending \in [Workers -> BOOLEAN]
          /\ inFlight \in [Workers -> SUBSET BlockIds]
          /\ terminated \in BOOLEAN
          /\ crashed \in BOOLEAN

Init == /\ PieceInit
        /\ peers = [q \in {} |-> {}]
        /\ AllocateFile
        /\ pc = [w \in Workers |-> "outer"]
        /\ target = [w \in Workers |-> {}]
        /\ peerId = [w \in Workers |-> NoPeer]
        /\ conn = [w \in Workers |-> "closed"]
        /\ choked = [w \in Workers |-> TRUE]
        /\ requestPending = [w \in Workers |-> FALSE]
        /\ inFlight = [w \in Workers |-> {}]
        /\ terminated = FALSE
        /\ crashed = FALSE

\* PieceManager's lock_ is free: it is held between steps only at "pick".
LockFree == \A w \in Workers : pc[w] # "pick"

At(w, label) == ~crashed /\ pc[w] = label

GoTo(w, label) == pc' = [pc EXCEPT ![w] = label]

\* What follows the handling of a message.
AfterMessage(w) ==
    GoTo(w, IF ~choked'[w] /\ ~requestPending'[w] THEN "request" ELSE "inner")

-----------------------------------------------------------------------------
(* Connecting.                                                             *)

OuterTest(w) ==
    /\ At(w, "outer") /\ LockFree
    /\ GoTo(w, IF terminated \/ IsComplete THEN "exit" ELSE "connect")
    /\ UNCHANGED <<pieceVars, peers, putPos, file, workerVars, terminated, crashed>>

\* A dummy peer is popped: terminate has pushed one for each worker.
PopDummy(w) ==
    /\ At(w, "connect") /\ terminated
    /\ GoTo(w, "exit")
    /\ UNCHANGED <<pieceVars, peers, putPos, file, workerVars, terminated, crashed>>

\* Handshake, bitfield and Interested succeed.  A socket that is still open
\* is overwritten; choked_ and requestPending_ keep their values.
Connect(w, q, bitField) ==
    /\ At(w, "connect")
    /\ AddPeer(q, bitField)
    /\ peerId' = [peerId EXCEPT ![w] = q]
    /\ conn' = [conn EXCEPT ![w] = IF bitField = EmptyBitField THEN "open" ELSE "registered"]
    /\ inFlight' = [inFlight EXCEPT ![w] = {}]
    /\ GoTo(w, "inner")
    /\ UNCHANGED <<pieceVars, putPos, file, target, choked, requestPending,
                   terminated, crashed>>

\* The peer's first message is no bitfield: an error is returned and the
\* socket stays open.
NoBitField(w, q) ==
    /\ At(w, "connect") /\ "refuse" \in PeerEvents
    /\ peerId' = [peerId EXCEPT ![w] = q]
    /\ conn' = [conn EXCEPT ![w] = IF @ = "closed" THEN "open" ELSE @]
    /\ inFlight' = [inFlight EXCEPT ![w] = {}]
    /\ GoTo(w, "outer")
    /\ UNCHANGED <<pieceVars, peers, putPos, file, target, choked, requestPending,
                   terminated, crashed>>

\* Variant of CloseSock that does not reset requestPending_.
CloseSockPending(w) ==
    /\ conn' = [conn EXCEPT ![w] = "closed"]
    /\ inFlight' = [inFlight EXCEPT ![w] = {}]
    /\ GoTo(w, IF conn[w] = "registered" /\ ~IsComplete THEN "remove" ELSE "outer")
    /\ UNCHANGED requestPending

\* closeSock, up to the answer of isComplete.
CloseSock(w) ==
    /\ conn' = [conn EXCEPT ![w] = "closed"]
    /\ requestPending' = [requestPending EXCEPT ![w] = FALSE]
    /\ inFlight' = [inFlight EXCEPT ![w] = {}]
    /\ GoTo(w, IF conn[w] = "registered" /\ ~IsComplete THEN "remove" ELSE "outer")

\* The removePeer at the end of closeSock, with lock_ released again: another
\* worker may be between its hasPeer and its getRarestPiece.
Deregister(w) ==
    /\ At(w, "remove")
    /\ RemovePeer(peerId[w])
    /\ GoTo(w, "outer")
    /\ UNCHANGED <<pieceVars, putPos, file, workerVars, terminated, crashed>>

\* createConnection or a receive throws: before the handshake is read, with
\* the old peerId_ (and, if no new socket was made, no socket), or after it.
ConnectThrows(w, q) ==
    /\ At(w, "connect") /\ LockFree /\ "refuse" \in PeerEvents
    /\ q \in {peerId[w]} \union Peers
    /\ CloseSock(w)
    /\ peerId' = [peerId EXCEPT ![w] = q]
    /\ UNCHANGED <<pieceVars, peers, putPos, file, target, choked, terminated, crashed>>

-----------------------------------------------------------------------------
(* Receiving.                                                              *)

InnerTest(w) ==
    /\ At(w, "inner") /\ LockFree
    /\ GoTo(w, IF IsComplete THEN "outer" ELSE "recv")
    /\ UNCHANGED <<pieceVars, peers, putPos, file, workerVars, terminated, crashed>>

\* A Piece message, up to the end of blockReceived's first locked part.  A
\* block of a piece that is not ongoing is dropped.
ReceivePiece(w, b) ==
    /\ At(w, "recv") /\ LockFree
    /\ b \in inFlight[w]
    /\ inFlight' = [inFlight EXCEPT ![w] = {}]
    /\ requestPending' = [requestPending EXCEPT ![w] = FALSE]
    /\ ErasePending(b)
    /\ UNCHANGED choked
    /\ \/ /\ PieceOf(b) \in Ongoing
          /\ target' = [target EXCEPT ![w] = {b}]
          /\ GoTo(w, "store")
       \/ /\ PieceOf(b) \notin Ongoing
          /\ UNCHANGED target
          /\ AfterMessage(w)
    /\ UNCHANGED <<missingPieces, ongoingPieces, havePieces, status, data, peers,
                   putPos, file, peerId, conn, terminated, crashed>>

\* A peer that chokes discards the request it holds, or has answered it.
ReceiveChoke(w) ==
    /\ At(w, "recv") /\ "choke" \in PeerEvents
    /\ choked' = [choked EXCEPT ![w] = TRUE]
    /\ inFlight' \in {inFlight, [inFlight EXCEPT ![w] = {}]}
    /\ UNCHANGED requestPending
    /\ AfterMessage(w)
    /\ UNCHANGED <<pieceVars, peers, putPos, file, target, peerId, conn, terminated, crashed>>

ReceiveUnchoke(w) ==
    /\ At(w, "recv") /\ "unchoke" \in PeerEvents
    /\ choked' = [choked EXCEPT ![w] = FALSE]
    /\ UNCHANGED requestPending
    /\ AfterMessage(w)
    /\ UNCHANGED <<pieceVars, peers, putPos, file, target, peerId, conn, inFlight,
                   terminated, crashed>>

ReceiveHave(w, p) ==
    /\ At(w, "recv") /\ "have" \in PeerEvents
    /\ UpdatePeer(peerId[w], p)
    /\ UNCHANGED <<choked, requestPending>>
    /\ AfterMessage(w)
    /\ UNCHANGED <<pieceVars, putPos, file, target, peerId, conn, inFlight,
                   terminated, crashed>>

\* Any other message with an id up to 10.
ReceiveOther(w) ==
    /\ At(w, "recv") /\ "other" \in PeerEvents
    /\ UNCHANGED <<choked, requestPending>>
    /\ AfterMessage(w)
    /\ UNCHANGED <<pieceVars, peers, putPos, file, target, peerId, conn, inFlight,
                   terminated, crashed>>

\* A keep-alive has id 255 in receiveMessage's reading: start returns, and
\* the socket and the registration stay.
ReceiveKeepAlive(w) ==
    /\ At(w, "recv") /\ "keepAlive" \in PeerEvents
    /\ GoTo(w, "exit")
    /\ UNCHANGED <<pieceVars, peers, putPos, file, workerVars, terminated, crashed>>

\* Nothing arrives in time, or the connection is gone: receiveMessage throws.
ReceiveThrows(w) ==
    /\ At(w, "recv") /\ LockFree /\ "timeout" \in PeerEvents
    /\ CloseSock(w)
    /\ UNCHANGED <<pieceVars, peers, putPos, file, target, peerId, choked, terminated, crashed>>

-----------------------------------------------------------------------------
(* blockReceived after its first locked part.                              *)

BlockReceivedDone(w) == /\ target' = [target EXCEPT ![w] = {}]
                        /\ UNCHANGED <<choked, requestPending>>
                        /\ AfterMessage(w)

\* Variant of Store that tests the piece for completeness before it stores.
StoreAfterTest(w) ==
    /\ At(w, "store")
    /\ \E b \in target[w], content \in Contents :
        /\ StoreBlock(b, content)
        /\ IF PieceComplete(PieceOf(b))
             THEN GoTo(w, "hash") /\ UNCHANGED <<target, choked, requestPending>>
             ELSE BlockReceivedDone(w)
    /\ UNCHANGED <<peers, putPos, file, peerId, conn, inFlight, terminated, crashed>>

Store(w) ==
    /\ At(w, "store")
    /\ \E b \in target[w], content \in Contents : StoreBlock(b, content)
    /\ GoTo(w, "complete")
    /\ UNCHANGED <<peers, putPos, file, workerVars, terminated, crashed>>

CompleteTest(w) ==
    /\ At(w, "complete")
    /\ \E b \in target[w] :
        \/ /\ PieceComplete(PieceOf(b))
           /\ GoTo(w, "hash")
           /\ UNCHANGED <<target, choked, requestPending>>
        \/ /\ ~PieceComplete(PieceOf(b))
           /\ BlockReceivedDone(w)
    /\ UNCHANGED <<pieceVars, peers, putPos, file, peerId, conn, inFlight,
                   terminated, crashed>>

\* Variant of HashTest that takes every hash for matching.
HashTestSkipped(w) ==
    /\ At(w, "hash")
    /\ GoTo(w, "seek")
    /\ UNCHANGED <<pieceVars, peers, putPos, file, workerVars, terminated, crashed>>

HashTest(w) ==
    /\ At(w, "hash")
    /\ \E b \in target[w] :
        GoTo(w, IF HashMatches(PieceOf(b)) THEN "seek" ELSE "reset")
    /\ UNCHANGED <<pieceVars, peers, putPos, file, workerVars, terminated, crashed>>

\* Variant of Reset without the return: the piece is written all the same.
ResetGoesOn(w) ==
    /\ At(w, "reset")
    /\ \E b \in target[w] : ResetPiece(PieceOf(b))
    /\ GoTo(w, "seek")
    /\ UNCHANGED <<peers, putPos, file, workerVars, terminated, crashed>>

Reset(w) ==
    /\ At(w, "reset")
    /\ \E b \in target[w] : ResetPiece(PieceOf(b))
    /\ BlockReceivedDone(w)
    /\ UNCHANGED <<peers, putPos, file, peerId, conn, inFlight, terminated, crashed>>

Seek(w) ==
    /\ At(w, "seek")
    /\ \E b \in target[w] : SeekToPiece(PieceOf(b))
    /\ GoTo(w, "write")
    /\ UNCHANGED <<pieceVars, peers, workerVars, terminated, crashed>>

\* getData, write and flush.
Write(w) ==
    /\ At(w, "write")
    /\ \E b \in target[w] : WriteAtPutPos(PieceOf(b), HashMatches(PieceOf(b)))
    /\ GoTo(w, "publish")
    /\ UNCHANGED <<pieceVars, peers, workerVars, terminated, crashed>>

Publish(w) ==
    /\ At(w, "publish") /\ LockFree
    /\ \E b \in target[w] : PublishPiece(PieceOf(b))
    /\ BlockReceivedDone(w)
    /\ UNCHANGED <<peers, putPos, file, peerId, conn, inFlight, terminated, crashed>>

-----------------------------------------------------------------------------
(* requestPiece.                                                           *)

\* lock_ is taken; nullptr is returned if no piece is missing (whatever is
\* ongoing) or the peer is not registered.
BeginRequest(w) ==
    /\ At(w, "request") /\ LockFree
    /\ GoTo(w, IF missingPieces = {} \/ ~HasPeer(peerId[w]) THEN "inner" ELSE "pick")
    /\ UNCHANGED <<pieceVars, peers, putPos, file, workerVars, terminated, crashed>>

\* A block is chosen and its Request message sent.
SendRequest(w, b) ==
    /\ At(w, "pick")
    /\ NextRequest(peerId[w], b)
    /\ inFlight' = [inFlight EXCEPT ![w] = {b}]
    /\ requestPending' = [requestPending EXCEPT ![w] = TRUE]
    /\ GoTo(w, "inner")
    /\ UNCHANGED <<peers, putPos, file, target, peerId, conn, choked, terminated, crashed>>

-----------------------------------------------------------------------------
(* Undefined behaviour and assertions that end the process.  Where the     *)
(* freed memory still holds the object, or the build has no assertions,    *)
(* the action of the same label goes on as if nothing had happened.        *)

Crash == /\ crashed' = TRUE
         /\ UNCHANGED <<pieceVars, peers, putPos, file, pc, workerVars, terminated>>

\* getRarestPiece(peerId)->nextRequest() with a null pointer.
NullRarest(w) == /\ At(w, "pick")
                 /\ RarestIsNull(peerId[w])
                 /\ Crash

\* target_piece was freed by another thread's last locked part.
FreedPiece(w) == /\ \E l \in {"store", "complete", "hash", "reset", "seek", "write"} : At(w, l)
                 /\ \E b \in target[w] : PieceOf(b) \notin Ongoing
                 /\ Crash

\* A pending request points into a piece that was freed.
FreedBlock(w) == /\ At(w, "pick") \/ (At(w, "recv") /\ LockFree /\ inFlight[w] # {})
                 /\ \E i \in DOMAIN pendingRequests :
                        PieceOf(pendingRequests[i].block) \notin Ongoing
                 /\ Crash

\* assert(isComplete()) in Piece::getData.
AssertFails(w) == /\ At(w, "hash") \/ At(w, "write")
                  /\ \E b \in target[w] : ~PieceComplete(PieceOf(b))
                  /\ Crash

-----------------------------------------------------------------------------
\* The main thread leaves its loop and calls terminate.
Terminate == /\ ~crashed /\ ~terminated
             /\ LockFree /\ IsComplete
             /\ terminated' = TRUE
             /\ UNCHANGED <<pieceVars, peers, putPos, file, pc, workerVars, crashed>>

Tick == /\ ~crashed
        /\ TimePasses
        /\ UNCHANGED <<peers, putPos, file, pc, workerVars, terminated, crashed>>

\* Nothing runs any more.
Finished == /\ crashed \/ \A w \in Workers : pc[w] = "exit"
            /\ UNCHANGED vars

Establish(w) == \/ \E q \in Peers, bitField \in BitFields : Connect(w, q, bitField)
                \/ \E q \in Peers : NoBitField(w, q)
                \/ \E q \in Peers \union {NoPeer} : ConnectThrows(w, q)

Receive(w) == \/ \E b \in BlockIds : ReceivePiece(w, b)
              \/ \E p \in Pieces : ReceiveHave(w, p)
              \/ ReceiveChoke(w) \/ ReceiveUnchoke(w) \/ ReceiveOther(w)
              \/ ReceiveKeepAlive(w) \/ ReceiveThrows(w)

BlockReceived(w) == \/ Store(w) \/ CompleteTest(w) \/ HashTest(w) \/ Reset(w)
                    \/ Seek(w) \/ Write(w) \/ Publish(w)

RequestPiece(w) == \/ BeginRequest(w)
                   \/ \E b \in BlockIds : SendRequest(w, b)

Dies(w) == NullRarest(w) \/ FreedPiece(w) \/ FreedBlock(w) \/ AssertFails(w)

Step(w) == \/ OuterTest(w) \/ PopDummy(w) \/ Establish(w)
           \/ Deregister(w) \/ InnerTest(w) \/ Receive(w)
           \/ BlockReceived(w) \/ RequestPiece(w) \/ Dies(w)

Next == \/ \E w \in Workers : Step(w)
        \/ Terminate \/ Tick \/ Finished

Spec == Init /\ [][Next]_vars

\* A thread that can run code of the client does so in the end, and the main
\* thread polls for ever.  Among the peers the tracker hands out again and
\* again there is one that accepts; a connected peer that may unchoke does so,
\* and it answers the requests it goes on holding.
Fairness ==
    /\ \A w \in Workers :
          /\ WF_vars(OuterTest(w) \/ PopDummy(w) \/ InnerTest(w) \/ Deregister(w))
          /\ WF_vars(BlockReceived(w))
          /\ WF_vars(RequestPiece(w))
          /\ SF_vars(\E q \in Peers, bitField \in BitFields : Connect(w, q, bitField))
          /\ SF_vars(ReceiveUnchoke(w))
          /\ SF_vars(\E b \in BlockIds : ReceivePiece(w, b))
    /\ WF_vars(Terminate)

FairSpec == Spec /\ Fairness

-----------------------------------------------------------------------------
\* The code from a worker's decision to store a block to the end of its
\* blockReceived, and nextRequest with lock_ held.
Critical == {"store", "complete", "hash", "reset", "seek", "write", "publish", "pick"}

\* No two workers are there at once.  The code does not see to it: it would if
\* blockReceived held lock_ throughout, as nextRequest does.
BlocksInTurn == \A v, w \in Workers : pc[v] \in Critical /\ pc[w] \in Critical => v = w

\* No worker seeks between another one's seek and write.  Nor does the code see
\* to this, which it would if writePiece held a mutex.
WritesInTurn == \A v, w \in Workers : pc[v] = "write" /\ pc[w] = "write" => v = w

-----------------------------------------------------------------------------
(* Properties.                                                             *)

\* Every piece is in exactly one of missingPieces_, ongoingPieces_ (where it
\* lies once) and havePieces, whatever order blockReceived and nextRequest run
\* in: no piece is lost and none is started twice.
PiecesConserved ==
    /\ missingPieces \union Ongoing \union Have = Pieces
    /\ missingPieces \intersect (Ongoing \union Have) = {}
    /\ Ongoing \intersect Have = {}
    /\ IsInjective(ongoingPieces)

\* While peers send what the hashes stand for, an entry of pendingRequests_
\* points to a block of an ongoing piece that is still awaited, and no block
\* has two entries: expiredRequest neither follows a pointer into a freed
\* Piece nor asks again for a block that has arrived.
PendingRequestsLive ==
    /\ \A i \in DOMAIN pendingRequests :
          /\ PieceOf(pendingRequests[i].block) \in Ongoing
          /\ status[pendingRequests[i].block] = "pending"
    /\ \A i, j \in DOMAIN pendingRequests :
          pendingRequests[i].block = pendingRequests[j].block => i = j

\* A request that was made by nextOngoing stays known to expiredRequest until
\* its block is about to be stored, whatever becomes of the connection: only
\* the first block of a piece can be forgotten.
RequestsTracked ==
    \A b \in BlockIds :
        PieceOf(b) \in Ongoing /\ status[b] = "pending" /\ b[2] > 1 =>
            \/ \E i \in DOMAIN pendingRequests : pendingRequests[i].block = b
            \/ \E w \in Workers : pc[w] = "store" /\ b \in target[w]

\* When the last block of an ongoing piece has been stored, some worker is on
\* its way from the completeness test to the reset or publication of it: the
\* workers that store its blocks never all take the piece for incomplete.
CompletePieceInHand ==
    \A p \in Ongoing :
        PieceComplete(p) =>
            \E w \in Workers :
                /\ pc[w] \in {"complete", "hash", "reset", "seek", "write", "publish"}
                /\ \E b \in target[w] : PieceOf(b) = p

\* A block that has been retrieved is never asked for again, while peers send
\* what the hashes stand for.
NeverRequestsRetrieved ==
    [][\A w \in Workers : \A b \in inFlight'[w] \ inFlight[w] :
          status[b] # "retrieved"]_vars

\* A block that one connection still has in flight is handed to another one
\* only after its request has expired.
ReissuesOnlyExpired ==
    [][\A v, w \in Workers : \A b \in inFlight'[w] \ inFlight[w] :
          b \in inFlight[v] =>
              \E i \in DOMAIN pendingRequests :
                  /\ pendingRequests[i].block = b
                  /\ pendingRequests[i].age >= MaxPendingTime]_vars

\* What counts as downloaded is in the file: the verified data of every piece
\* of havePieces lies where the piece belongs.
HavePiecesOnDisk == \A p \in Have : file[p] = "data"

\* How often piece p is in havePieces.
TimesCounted(p) == Cardinality({i \in DOMAIN havePieces : havePieces[i] = p})

\* The workers that handle a block of piece p.
Handling(p) == {w \in Workers : \E b \in target[w] : PieceOf(b) = p}

\* No piece is counted twice: the bytes bytesDownloaded computes from the length
\* of havePieces have been downloaded.
CountedOnce == \A p \in Pieces : TimesCounted(p) <= 1

\* A piece is counted once more only by a worker that was handling a block of it
\* when it was first published: however blockReceived interleaves, and however
\* often the piece is reset, no late answer and no repeated request lets
\* anybody in afterwards, and each worker counts it at most once.
CountedByThoseInside ==
    \A p \in Pieces : TimesCounted(p) + Cardinality(Handling(p)) <= Cardinality(Workers)

\* While peers send what the hashes stand for, the process dies of a piece
\* that another worker has published meanwhile, or of a rarest piece that is
\* not there, but never of the pointers of pendingRequests_ or the assertion
\* in getData, however many workers there are.
OnlyRacesKill ==
    [][crashed' /\ ~crashed => \E w \in Workers : FreedPiece(w) \/ NullRarest(w)]_vars

\* Among peers that announce all pieces or an empty bitfield, and when workers
\* take turns, the process dies in one way only: a peer id is taken out of the
\* registry, or announced anew with an empty bitfield, by another worker while
\* nextRequest is between hasPeer and getRarestPiece.
OnlyRemovalKills ==
    [][crashed' /\ ~crashed =>
          \E w \in Workers : NullRarest(w) /\ ~HasPeer(peerId[w])]_vars

\* A worker that believes a request is pending has one in flight, unless the
\* count of pieces has gone past isComplete's value: while peers do not choke,
\* a flag left over from a closed connection never makes a worker wait for an
\* answer nobody owes it before that.
PendingIsInFlight ==
    \A w \in Workers :
        requestPending[w] => inFlight[w] # {} \/ Len(havePieces) + Header > TotalPieces

\* nextRequest returns a null pointer to a registered peer only when no block
\* of a missing or ongoing piece that the peer has is still to be requested.
NothingLeftToRequest ==
    [][\A w \in Workers :
          pc[w] = "request" /\ pc'[w] = "inner" /\ HasPeer(peerId[w]) =>
              \A b \in BlockIds :
                  PeerHasPiece(peerId[w], PieceOf(b)) => status[b] # "missing"]_vars

\* Whatever the workers do at the same time, and however often requests are
\* repeated and connections break, pieces and blocks go through their stages
\* in order and none goes back, while peers send what the hashes stand for.
Lifecycle == INSTANCE PieceLifecycle
    WITH blocks <- status,
         stage <- [p \in Pieces |-> IF p \in missingPieces THEN "missing"
                                    ELSE IF p \in Ongoing THEN "ongoing" ELSE "done"]

StagesInOrder == Lifecycle!LifecycleSpec

\* terminate stops all threads.
TerminateStopsAll == terminated ~> \A w \in Workers : pc[w] = "exit"

=============================================================================
